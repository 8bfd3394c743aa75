SPECIFICATION FairSpec
CONSTANTS
  Profiles = {p1, p2}
  FirstProfile = p1
  NoProfile = NoProfile
  StaleAfter = 2
  RetryAfter = 1
  ReplyWithin = 0
  ConfirmWithin = 1
  Touches = {"forwarding", "channel"}
  MaxCommands = 2
  MaxMishaps = 1
  MaxBehind = 1
  NetCap = 1
INVARIANT ForwardingVerdictIsTrue
PROPERTIES ScreenSettles NoRollbackUndisturbed
