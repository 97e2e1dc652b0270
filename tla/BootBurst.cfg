SPECIFICATION FairSpec
CONSTANTS
  p1 = p1
  p2 = p2
  p3 = p3
  n1 = n1
  n2 = n2
  Never = Never
  Pairs <- MCPairs
  Qnames <- MCQnames
  Qname <- MCQname
  Requested <- MCRequested
  Concurrency = 2
  MaxRetries = 2
  Interval = 1
  Jitter = 1
  MinInterval = 2
  Backoff = 1
INVARIANTS TypeOK OneWorkerPerPair SentAccounted
PROPERTIES PacersSpaced ImplementsPool BurstEnds
