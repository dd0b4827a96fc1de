SPECIFICATION Spec
CONSTANTS
  Media <- OneMedium
  Unsupported = "text"
  Sdps <- OneMediumSdps
  ByeStates <- AllStates
  Settings <- Settings3
  MaxPackets = 1
  MaxRequests = 1
INVARIANTS
  IInv
  TimerTokens
  TimerStates
  AnswerStates
  ReplyOwed
  SessionStates
  CallNotLost
  OwnRequestFirst
  ReconnectGoesOn
  StopGuarantee
  StopNotBlocked
  PlayingIsWatched
CHECK_DEADLOCK FALSE
