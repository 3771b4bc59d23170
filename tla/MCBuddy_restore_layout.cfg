CONSTANTS
  TotalExp = 3
  BlockExp = 1
  LogFreq = 1
  ThresholdNum = 1
  ThresholdDen = 2
  Incremental = TRUE
  Vals <- MCVals
  ReqSizes <- MCReqSizes
  CallocSizes = {}
  MaxOps = 1
  MaxAbs = 4
SPECIFICATION Spec
INVARIANT RestoredMemExact
