CONSTANTS
  Keys <- MCKeys
  MaxKeyLen <- MCMaxKeyLen
  Hash <- MCHash
  Values = {1, 2}
  NoValue = 0
  TableSizes = {1}
  PageSize = 27
  MaxPages = 2
SPECIFICATION Spec
PROPERTY LookupsReturn
