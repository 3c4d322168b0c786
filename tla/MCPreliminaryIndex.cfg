CONSTANTS
  Texts <- MCTexts
  Types <- MCTypes
  TypeOf <- MCTypeOf
  Capped <- MCCapped
  Lines <- MCLines
  FingerprintTokens <- MCFingerprint
  MaxLines = 5
  IdLikeCheckAt = 2
SPECIFICATION IngestSpec
INVARIANTS
  IngestTypeOK
  ColumnsRectangular
  RowsRecoverable
  EveryLineInOneRow
  TermIdsSound
CHECK_DEADLOCK FALSE
