SPECIFICATION Spec
CONSTANTS
  N = 3
  BatchLen = 2
  MaxMsgs = 2
INVARIANTS
  TypeOK
  ResourcesLive
  ProcessAfterInit
  GlobalOutlivesWorkers
PROPERTIES
  EndLeadsToReturn
