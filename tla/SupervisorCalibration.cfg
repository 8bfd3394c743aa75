SPECIFICATION Spec
CONSTANTS
  Configs = {c1, c2}
  NoConfig = none
  Operations = {"stop", "save", "begin", "step", "commit", "cancel"}
  MaxCommands = 4
  Points = 1
  Frontend = TRUE
  PersistFails = TRUE
CHECK_DEADLOCK FALSE
INVARIANT
  CalibrationLocksGain
