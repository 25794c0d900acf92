SPECIFICATION LinesSpec
CONSTANTS
  UnsignedRange = 8
  WordRange = 32
  MaxSize = 3
  MaxNumber = 3
  Operands <- MCOperands
  SieveSize <- MCSieveSize
  Pitches = {c4, e4}
  Pause = Pause
  Unset = Unset
  Never = Never
  DefaultLength = 1
  Unit = 2
  Delays = {0, 1}
  PlayLines <- MCPlayLines
  SimLines <- MCSimLines
INVARIANTS
  RotateMovesPlaces
  MixTakesInTurn
  MaskSelects
  DigitsExpand
  NoNoteEndsEarly
  OnTime
  SilentAtEnd
CHECK_DEADLOCK FALSE
