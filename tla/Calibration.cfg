SPECIFICATION Spec
CONSTANTS
  Inputs <- TwoBands
  BandGain <- TwoGains
  ConfiguredGain = 25
  Heard <- Radio
  Squelch <- LowSquelch
  Holds = {0, 20}
  Wait = 65
  MaxAge = 75
  MaxSpan = 8
  Passes = {18}
  Works = {5}
  Patient = TRUE
  MaxSteps = 2
INVARIANTS
  PointsAreTheirLevels
  ReadingsAreLevels
