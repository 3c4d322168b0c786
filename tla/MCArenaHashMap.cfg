CONSTANTS
  Keys <- MCKeys
  MaxKeyLen <- MCMaxKeyLen
  Hash <- MCHash
  Values = {1, 2}
  NoValue = 0
  TableSizes = {2, 4, 9}
  PageSize = 27
  MaxPages = 2
SPECIFICATION Spec
INVARIANTS
  HashMapTypeOK
  NoGaps
  EntriesCounted
  KeysIntact
PROPERTIES
  ImplementsMap
  CallsReturn
