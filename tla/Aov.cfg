SPECIFICATION Spec
CONSTANTS
  LoopN = 3
  MaxCyclesBeforeReinit = 2
  MaxProcesses = 3
INVARIANTS TypeOK  CardComesBack NetworkComesBack
CHECK_DEADLOCK FALSE
