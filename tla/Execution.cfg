SPECIFICATION FairSpec
CONSTANTS
  QueueCap = 3
  MaxStops = 2
  MaxRuns = 2
INVARIANTS
  ClientConverges
PROPERTIES
  NoFalseEnd
  PauseTakesEffect
  CallbackIsServed
