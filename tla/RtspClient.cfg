SPECIFICATION Spec
CONSTANTS
  MaxRequests = 3
  MaxFaults = 1
  MaxRedirects = 1
  MaxRepeats = 1
INVARIANTS TypeOK OnePlace NoneStranded
PROPERTIES RightAnswer OnlySkippedDropped ConnectionsResolve
CHECK_DEADLOCK FALSE
