CONSTANTS
  JsonKeys = {"a", "b"}
  Kinds = {"Number", "Array"}
  MaxEntries = 4
  MaxDepth = 3
SPECIFICATION Spec
INVARIANT ReconstructReturns
