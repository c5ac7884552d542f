SPECIFICATION FairSpec
CONSTANTS
  MaxSeq = 3
  Kinds = {"evaluate", "continue", "launch", "unknown", "cancel", "malformed"}
  BroadcastCap = 1
  QueueCap = 2
  OutCap = 1
  MaxEvents = 1
  HasPython = TRUE
INVARIANTS
  TypeOK
  AtMostOneResponse
  NoRequestVanishes
  ResumeCancelsInspections
  CancelReachesTarget
  SyncResponsesInOrder
PROPERTIES
  NoStaleInspectionStarts
  ImplementsService
  EveryRequestSettles
  ShutdownCompletes
