SPECIFICATION Spec
SYMMETRY KeySymmetry
CONSTANTS
  Kinds = {"source", "instruction"}
  k1 = k1
  k2 = k2
  Keys = {k1, k2}
  Filters = {"rust_panic"}
  Options <- PlainOptions
  Symbols = {}
  Lossy = FALSE
  PathMode = TRUE
  MaxReq = 2
  MaxIds = 3
  MaxHits = 0
  MaxEvents = 2
INVARIANTS
  TypeOK
  TableIsAlive
  TracksLLDB
  NoOrphans
  NewOnlyForConsole
  QuietRemoval
  CallbackIsTracked
