SPECIFICATION HeartbeatSpec
CONSTANTS
  primary = primary
  n1 = n1
  Nodes <- MCNodes
  Local = primary
  StaleAge = 1
  OfflineAge = 2
  QuarantineAge = 3
  Never = Never
PROPERTIES HeartbeatRevives
