SPECIFICATION Spec
CONSTANTS
  Kinds = {"source"}
  Keys = {1}
  Filters = {}
  Options <- PlainOptions
  Symbols = {}
  Lossy = TRUE
  PathMode = FALSE
  MaxReq = 2
  MaxIds = 3
  MaxHits = 1
  MaxEvents = 3
INVARIANTS
  HitIsTracked
