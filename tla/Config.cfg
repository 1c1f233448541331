SPECIFICATION Spec
CONSTANTS
  Keys = {salt, hash, mode, addr}
  Sections = {{salt, hash}, {mode, addr}}
  MaxRequests = 3
INVARIANTS AtomicIfFlushed SectionsWhole AcceptedIsSaved
CHECK_DEADLOCK FALSE
