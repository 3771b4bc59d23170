SPECIFICATION Spec
CONSTANTS
  MaxTime = 3
  MaxMsgs = 5
  MaxEpochs = 3
INVARIANTS
  TypeOK
  Committed
  
