SPECIFICATION Spec
CONSTANTS
  l1 = l1
  a1 = a1
  d1 = d1
  Writers <- MCUpdateApply
  Lists <- MCBothLists
  AllowLists <- MCAllowLists
  AutoUpdated <- MCOneList
  Scheduled <- MCNone
  Domains <- MCOneDomain
  Feeds <- MCFullFeed
  EntryTypes <- MCAllowOnly
  Requests <- MCNone
PROPERTIES AllowedStaysClear
