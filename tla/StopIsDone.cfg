SPECIFICATION Spec
CONSTANTS
  Media <- OneMedium
  Unsupported = "text"
  Sdps <- OneVideoSdp
  ByeStates <- NoStates
  Settings <- Settings1
  MaxPackets = 0
  MaxRequests = 1
PROPERTY
  StopIsDone
CHECK_DEADLOCK FALSE
