CONSTANTS
  Inputs <- MCInputs
  MaxPieces = 3
SPECIFICATION Spec
INVARIANT UuidsRecognised
