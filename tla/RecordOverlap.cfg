SPECIFICATION Spec
CONSTANTS
  Venc = venc
  Ctl = {c1, c2}
  OverlapOps = {"init", "start", "runFor", "stop", "deinit", "arm", "motionEvent", "faceEvent", "poll", "extend"}
  WQ_CAP = 2
  RING_CAP = 3
  PreSec = 1
  SegmentSec = 1
  QuietSec = 1
  RunSec = 1
  ExtendSec = 1
  InitOutcomes = {"ok", "nowriter", "nolistener"}
  OpenOutcomes = {"ok", "dir", "stage", "init"}
  PromoteOutcomes = {"moved", "kept", "partial"}
  DrainGivesUp = TRUE
  AllocFails = TRUE
  RecycleReach = "all"
  MaxNow = 2
  MaxFrames = 2
  MaxCalls = 2
INVARIANTS TypeOK  CaptureOrder
SYMMETRY Symmetry
CHECK_DEADLOCK FALSE
