SPECIFICATION Spec
CONSTANTS
  l1 = l1
  a1 = a1
  d1 = d1
  Writers <- MCScheduleApply
  Lists <- MCOneList
  AllowLists <- MCNone
  AutoUpdated <- MCNone
  Scheduled <- MCOneList
  Domains <- MCOneDomain
  Feeds <- MCFeeds
  EntryTypes <- MCTypes
  Requests <- MCPause
INVARIANTS QuietPublish
PROPERTIES AllowTakesEffect
