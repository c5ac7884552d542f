SPECIFICATION Spec
CONSTANTS
  Kinds = {"assembly", "function"}
  Keys = {1}
  Filters = {"rust_panic"}
  Options <- HitOptions
  Symbols = {"f"}
  Lossy = TRUE
  PathMode = FALSE
  MaxReq = 1
  MaxIds = 1
  MaxHits = 4
  MaxEvents = 2
INVARIANTS
  StopsMatchCondition
