SPECIFICATION Spec
CONSTANTS
  Sources = {s1, s2}
  NoSource = none
  MaxCalls = 3
  QueueCap = 4
  PreCap = 2
  CandidateHold = 2
  DupHold = 1
  Inactivity = 2
  TalkLimit = 4
  Cooldown = 3
  AfmEnabled = FALSE
  IdleGuard = 0
  AmbePerBurst = 1
  AmbeCap = 1
  HeaderBursts = 1
  TerminatorBursts = 1
  UnderflowLimit = 1
  RawKinds = {"voice", "plain", "header", "terminator"}
INVARIANTS
  TypeOK
  CutCallSilenced
  QueueInCallOrder
