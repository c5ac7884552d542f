SPECIFICATION FairSpec
CONSTANTS
  MaxEvents = 3
  MaxRestarts = 2
  Capacity = 1
INVARIANTS
  TypeOK
  ReceivedWhileCorkedIsDropped
  AtMostOneDiscardAfterUncork
PROPERTIES
  PollerTerminates
  ListenerDrains
