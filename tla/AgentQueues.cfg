SPECIFICATION FairSpec
CONSTANTS
  PeekLimit = 2
  MaxSamples = 3
  MaxCommands = 2
  MaxFaults = 2
INVARIANTS TypeOK NothingLost RepeatsExplained ClosedWasExecuted
PROPERTIES FirstsInOrder QueuesDrain
