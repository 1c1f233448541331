SPECIFICATION Spec
CONSTANTS
  RING_CAP = 6
  PreSec = 2
  Fps = 2
  Gop = 5
  Stalls = TRUE
  MaxNow = 6
INVARIANTS RingIsTail StartIsWhole NoLostStart
CHECK_DEADLOCK FALSE
