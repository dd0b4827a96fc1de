SPECIFICATION Spec
CONSTANTS
  Media <- OneMedium
  Unsupported = "text"
  Sdps <- OneVideoSdp
  ByeStates <- AllStates
  Settings <- Settings1
  MaxPackets = 0
  MaxRequests = 1
INVARIANT
  PinsServed
CHECK_DEADLOCK FALSE
