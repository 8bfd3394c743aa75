SPECIFICATION FairSpec
CONSTANTS
  Pins = {0, 1}
  Channels = {"fm", "ptt"}
  ChannelOf <- OneEach
  Repeats = {"fm"}
  Delay = 2
  GpioFails = TRUE
  InputFails = TRUE
INVARIANTS
  ActivePinIsLow
  FaultIsSafe
PROPERTIES
  IdlePinIsReleased
  FrontendFaultStops
