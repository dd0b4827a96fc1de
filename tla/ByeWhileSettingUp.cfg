SPECIFICATION Spec
CONSTANTS
  Media <- OneMedium
  Unsupported = "text"
  Sdps <- TwoVideoSdp
  ByeStates <- WhileSettingUp
  Settings <- Settings1
  MaxPackets = 0
  MaxRequests = 1
PROPERTY
  NoRequestToReplyTo
CHECK_DEADLOCK FALSE
