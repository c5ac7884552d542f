SPECIFICATION Spec
CONSTANTS
  Kinds = {"source"}
  Keys = {1}
  Filters = {}
  Options <- HitOptions
  Symbols = {}
  Lossy = FALSE
  PathMode = FALSE
  MaxReq = 1
  MaxIds = 1
  MaxHits = 2
  MaxEvents = 2
INVARIANTS
  AcceptedConditionWorks
