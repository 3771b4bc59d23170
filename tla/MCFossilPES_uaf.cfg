SPECIFICATION Spec
CONSTANTS
  MaxTime = 3
  MaxMsgs = 4
  MaxEpochs = 2
INVARIANTS
  ScanReadsLive
