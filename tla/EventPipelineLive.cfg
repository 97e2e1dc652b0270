SPECIFICATION FairSpec
CONSTANTS
  e1 = e1
  e2 = e2
  e3 = e3
  Events <- MCTwoEvents
  Unacceptable <- MCNone
  MaxBatch = 1
  ChanCap = 1
PROPERTIES EventuallyStored
