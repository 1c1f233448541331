SPECIFICATION MCSpec
CONSTANTS
  W = 3
  H = 2
  Max = 2
  Pad = 1
  Points <- CanvasPoints
  Days = {1, 2}
  Hours = {1, 2}
  Workdays = {1}
  Daytime = {2}
  MaxGrabs = 3
  MaxEvents = 2
  MaxSnaps = 2
  MaxEventRequests = 2
  MaxClips = 3
  MaxRecordRequests = 2
  Octets = 2
  OctetBits = 2
  MaxTokens = 3
  MaxLogins = 2
INVARIANTS
  PagesTypeOK RegionsInPicture StrokePaintsOneWay ShotKept  
  RecordsShown FormAgrees StaticIsSound MustChangeConfines SessionHolds
PROPERTIES OnlyActiveEdited DeletedWereConfirmed
CHECK_DEADLOCK FALSE
