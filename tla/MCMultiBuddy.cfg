SPECIFICATION Spec
CONSTANTS
  TotalExp = 2
  BlockExp = 1
  Slots = 2
  Vals <- MCVals
  ReqSizes <- MCReqSizes
  CallocSizes <- MCCallocSizes
  MaxOps = 1
  MaxAbs = 2
INVARIANTS
  TypeOK
  HeapConsistent
PROPERTIES
  RefinesAbstractHeap
