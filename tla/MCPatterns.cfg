CONSTANTS
  Texts <- MCTexts
  Types <- MCTypes
  TypeOf <- MCTypeOf
  Capped <- MCCapped
  Lines <- MCLines
  FingerprintTokens <- MCFingerprint
  FingerprintTypes <- MCFingerprint
  MaxLines = 4
  IdLikeCheckAt = 2
  SplitThreshold = 1
  MergeMinDocs = 2
SPECIFICATION Spec
INVARIANTS
  PatternsTypeOK
  HeldRectangular
  MergeComplete
  NewIdsFresh
PROPERTIES
  ImplementsLogStore
