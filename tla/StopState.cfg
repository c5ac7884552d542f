SPECIFICATION Spec
CONSTANTS
  Frames = {"f0"}
  Expr = "e"
  Structured = {"x"}
  Synthetic = {"x"}
  Fns = {g, h}
  QueueCap = 2
  MaxTargets = 2
  Locals <- MCLocals
  Members <- MCMembers
SYMMETRY FnSymmetry
INVARIANTS
  RefsResolve
  StateIsOfThisStop
  ListingIsExact
  EvaluatesWhereAsked
