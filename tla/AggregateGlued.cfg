SPECIFICATION Spec
CONSTANTS
  Stream <- KeyFrameStream
  Half = 4
  FirstNumber = 6
  Threshold = 1
  MaxDuplicates = 0
INVARIANT OnlyFragmentsWait
CHECK_DEADLOCK FALSE
