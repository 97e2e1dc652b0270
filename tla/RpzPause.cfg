SPECIFICATION Spec
CONSTANTS
  l1 = l1
  a1 = a1
  d1 = d1
  Writers <- MCUpdateOnly
  Lists <- MCOneList
  AllowLists <- MCNone
  AutoUpdated <- MCOneList
  Scheduled <- MCNone
  Domains <- MCOneDomain
  Feeds <- MCFullFeed
  EntryTypes <- MCAllowOnly
  Requests <- MCDisable
PROPERTIES OffStaysEmpty
