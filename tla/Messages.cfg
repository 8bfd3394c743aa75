SPECIFICATION Spec
CONSTANTS
  Requests <- AllRequests
  MaxFaults = 2
  MaxHurt = 4
INVARIANTS
  OnlyTextIsSent
  UnhurtArrives
  DecodedIsSent
  RecoveredIsPrefix
