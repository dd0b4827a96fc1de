SPECIFICATION Spec
CONSTANTS
  Buffers = 2
  MaxFrames = 3
  MaxCalls = 4
  MaxFailures = 1
INVARIANTS TypeOK PoolAccounted
PROPERTIES FramesInOrder CompleteMeansDone EndReported CallsReturn
CHECK_DEADLOCK FALSE
