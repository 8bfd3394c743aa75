SPECIFICATION FairSpec
CONSTANTS
  Configs = {c1, c2}
  NoConfig = none
  Operations = {"start", "stop", "set", "switch", "save"}
  MaxCommands = 4
  Points = 1
  Frontend = FALSE
  PersistFails = TRUE
CHECK_DEADLOCK FALSE
INVARIANTS
  FaultIsOff
  StopHolds
PROPERTIES
  RadioRunsActive
  StopCloses
  CommandsAreTaken
