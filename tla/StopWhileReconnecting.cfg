SPECIFICATION Spec
CONSTANTS
  Media <- OneMedium
  Unsupported = "text"
  Sdps <- TwoVideoSdp
  ByeStates <- WhilePlaying
  Settings <- Settings1
  MaxPackets = 0
  MaxRequests = 1
INVARIANT
  NoLeak
CHECK_DEADLOCK FALSE
