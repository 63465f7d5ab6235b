SPECIFICATION Spec
CONSTANTS
  N = 3
  Size = 2
  NoSummary = NoSummary
INVARIANT
  SuccessesPrinted
