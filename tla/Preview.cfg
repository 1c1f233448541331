SPECIFICATION MCSpec
CONSTANTS
  Conns = {c1, c2, c3}
  MaxClients = 2
  QueueCap = 1
  Cap = 3
  Keep = 2
  MaxInbox = 3
  MaxUpsets = 3
INVARIANTS PreviewTypeOK ClientsCounted RunsOnDemand OneAttempt
PROPERTIES FeedsKept Plays
CHECK_DEADLOCK FALSE
