SPECIFICATION Spec
CONSTANTS
  Venc = venc
  Ctl = {c1}
  OverlapOps = {"poll", "extend"}
  WQ_CAP = 3
  RING_CAP = 3
  PreSec = 2
  SegmentSec = 1
  QuietSec = 1
  RunSec = 1
  ExtendSec = 1
  InitOutcomes = {"ok"}
  OpenOutcomes = {"ok"}
  PromoteOutcomes = {"moved", "kept"}
  DrainGivesUp = FALSE
  AllocFails = FALSE
  RecycleReach = "clips"
  MaxNow = 2
  MaxFrames = 3
  MaxCalls = 3
INVARIANTS MuxAgrees FootageKept ClipsWhole StoppedMeansClosed FinishedMeansOnDisk
PROPERTIES DeinitAfterDrain ImplementsStore
CHECK_DEADLOCK FALSE
