SPECIFICATION Spec
CONSTANTS
  LoopN = 3
  MaxCyclesBeforeReinit = 2
  MaxProcesses = 1
INVARIANTS MotionStaysArmed
CHECK_DEADLOCK FALSE
