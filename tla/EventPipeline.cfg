SPECIFICATION Spec
CONSTANTS
  e1 = e1
  e2 = e2
  e3 = e3
  Events <- MCEvents
  Unacceptable <- MCUnacceptable
  MaxBatch = 2
  ChanCap = 1
INVARIANTS OneRowPerEvent StoredIsPrefix CountersBalance
PROPERTIES BufferedUntilStored ImplementsEventLog
