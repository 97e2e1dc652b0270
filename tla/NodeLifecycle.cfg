SPECIFICATION FairSpec
CONSTANTS
  primary = primary
  n1 = n1
  Nodes <- MCNodes
  Local = primary
  StaleAge = 0
  OfflineAge = 1
  QuarantineAge = 2
  Never = Never
INVARIANTS PendingUntilContact
PROPERTIES DemotedOnlyWhenOverdue SilentNodeDemoted ContactRevives
