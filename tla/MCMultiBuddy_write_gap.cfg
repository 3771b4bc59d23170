SPECIFICATION Spec
CONSTANTS
  TotalExp = 2
  BlockExp = 1
  Slots = 3
  Vals <- MCVals
  ReqSizes <- MCFitSizes
  CallocSizes <- MCCallocSizes
  MaxOps = 1
  MaxAbs = 2
INVARIANTS
  StoresReturn
