SPECIFICATION Spec
CONSTANTS
  EndAddr = 5
  MaxBytes = 2
  NoSymbolInstructions = 2
  MaxOffset = 2
  MaxCount = 3
  MaxRanges = 3
  Readables <- MCReadables
  Symbols <- MCSymbols
INVARIANTS
  PadsOutOfRange
