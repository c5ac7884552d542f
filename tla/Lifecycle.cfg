SPECIFICATION FairSpec
CONSTANTS
  Modes = {"launch", "attach"}
  TerminalKinds = {"console", "id", "run"}
  MaxRestarts = 2
INVARIANTS
  TypeOK
  ConfigurationDoneWaits
  UnaskedFate
PROPERTIES
  HelperIsReleased
  SessionEnds
