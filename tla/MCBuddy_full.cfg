CONSTANTS
  TotalExp = 3
  BlockExp = 1
  LogFreq = 2
  ThresholdNum = 1
  ThresholdDen = 2
  Incremental = FALSE
  Vals <- MCVals
  ReqSizes <- MCReqSizes
  CallocSizes <- MCCallocSizes
  MaxOps = 1
  MaxAbs = 4
SPECIFICATION Spec
INVARIANT TypeOK
INVARIANT TreeConsistent
INVARIANT VisitCoversLive
INVARIANT LogWellFormed
INVARIANT RestoredMemExact
