SPECIFICATION FairSpec
CONSTANTS
  Sockets <- TwoSockets
  Delays <- TwoDelays
  Setbacks <- OneSetback
  MaxLag = 1
  MaxToken = 3
  MaxSetbacks = 1
  MaxClears = 1
INVARIANTS
  TypeOK
  TokensDiffer
  RealTime
  NeverEarly
PROPERTIES
  KeepsCountdowns
  AlarmsFire
  SocketsServed
CHECK_DEADLOCK FALSE
