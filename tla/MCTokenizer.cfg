CONSTANTS
  Inputs <- MCInputs
  MaxPieces = 3
SPECIFICATION Spec
INVARIANTS
  TokenizerTypeOK
  TokensTileInput
  TokensEndAtCharacters
  TokensStandAlone
  TokensMaximal
  Ipv4sAreDottedQuads
