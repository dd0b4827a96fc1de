SPECIFICATION LiveSpec
CONSTANTS
  Media <- OneMedium
  Unsupported = "text"
  Sdps <- TwoVideoSdp
  ByeStates <- NotSettingUp
  Settings <- Settings1
  MaxPackets = 0
  MaxRequests = 1
INVARIANT OpenAnswerable
PROPERTIES
  StopReturns
  DestructorReturns
  OpenReturns
  ReconnectRetried
CHECK_DEADLOCK FALSE
