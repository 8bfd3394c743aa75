SPECIFICATION FairSpec
CONSTANTS
  Transmissions <- CleanAir
  Colors = {1}
  SilenceBlocks = 4
  StreamCap = 1
INVARIANTS
  WindowNotExpired
  HeadersAreDecoded
PROPERTIES
  Reacquires
