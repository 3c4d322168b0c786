CONSTANTS
  Texts <- MCTexts
  Types <- MCTypes
  TypeOf <- MCTypeOf
  Capped <- MCCapped
  Rank <- MCRank
  TermsInBlock = 2
  Lines <- MCLines
  FingerprintTokens <- MCFingerprint
  FingerprintTypes <- MCFingerprint
  MaxLines = 4
  IdLikeCheckAt = 2
  SplitThreshold = 1
  MergeMinDocs = 2
  MaxHits = 3
SPECIFICATION WriterSpec
INVARIANT SearchFinds
