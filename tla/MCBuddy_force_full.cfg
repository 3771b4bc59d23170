CONSTANTS
  TotalExp = 3
  BlockExp = 1
  LogFreq = 1
  ThresholdNum = 1
  ThresholdDen = 3
  Incremental = TRUE
  Vals <- MCVals
  ReqSizes <- MCFitSizes
  CallocSizes <- MCCallocSizes
  MaxOps = 1
  MaxAbs = 3
SPECIFICATION Spec
INVARIANT LogWellFormed
