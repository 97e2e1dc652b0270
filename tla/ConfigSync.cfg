SPECIFICATION FairSpec
CONSTANTS
  z1 = z1
  Zones <- MCOneZone
  MaxWrites = 2
  MaxEdits = 1
  None = None
INVARIANTS VersionMatchMeansInSync
PROPERTIES NeverOlder SecondaryConverges
