SPECIFICATION Spec
CONSTANTS
  Stream <- ShortStream
  Half = 4
  FirstNumber = 6
  Threshold = 1
  MaxDuplicates = 1
INVARIANTS TypeOK NumbersTrue
PROPERTIES OnlyLateRefused GivesFrames
CHECK_DEADLOCK FALSE
