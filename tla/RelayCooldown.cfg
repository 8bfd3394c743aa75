SPECIFICATION Spec
CONSTANTS
  Sources = {s1}
  NoSource = none
  MaxCalls = 2
  QueueCap = 2
  PreCap = 1
  CandidateHold = 1
  DupHold = 1
  Inactivity = 2
  TalkLimit = 2
  Cooldown = 1
  AfmEnabled = TRUE
  IdleGuard = 1
  AmbePerBurst = 2
  AmbeCap = 3
  HeaderBursts = 2
  TerminatorBursts = 2
  UnderflowLimit = 2
  RawKinds = {"voice", "plain"}
INVARIANT
  CooldownHolds
