CONSTANTS
  JsonKeys = {"a", "b"}
  Kinds = {"Number", "Array"}
  MaxEntries = 4
  MaxDepth = 3
SPECIFICATION Spec
INVARIANTS
  SchemaTreeTypeOK
  NodesFormTree
  LeavesInterned
  SchemaIdsIdentify
  ReconstructsShape
PROPERTY TreeOnlyGrows
