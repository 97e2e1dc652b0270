SPECIFICATION FairSpec
CONSTANTS
  NumPairs = 2
  MaxQueries = 1
  Ttls <- MCTtls
  AlwaysDue <- MCShort
  MaxPolls = 1
INVARIANTS TypeOK OnePassAtATime LockNotLeaked ShortestTtlWins
PROPERTIES ReportIsHonest BootReports TopPairsRefreshed
