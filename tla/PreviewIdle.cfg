SPECIFICATION Spec
CONSTANTS
  Conns = {c1}
  MaxClients = 1
  QueueCap = 1
PROPERTIES IdleStopsMedia
CHECK_DEADLOCK FALSE
