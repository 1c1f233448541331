SPECIFICATION Spec
CONSTANTS
  Venc = venc
  Ctl = {c1}
  OverlapOps = {"motionEvent", "poll", "extend"}
  WQ_CAP = 3
  RING_CAP = 3
  PreSec = 2
  SegmentSec = 1
  QuietSec = 1
  RunSec = 1
  ExtendSec = 1
  InitOutcomes = {"ok"}
  OpenOutcomes = {"ok"}
  PromoteOutcomes = {"moved", "kept"}
  DrainGivesUp = FALSE
  AllocFails = FALSE
  RecycleReach = "clips"
  MaxNow = 2
  MaxFrames = 3
  MaxCalls = 2
PROPERTIES DeinitAfterDrain
CHECK_DEADLOCK FALSE
