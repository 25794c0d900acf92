SPECIFICATION MusicSpec
CONSTANTS
  IntRange = 30
  MaxSize = 16
  Texts <- MCTexts
  Unset = Unset
  Literals <- MCLiterals
  Amounts <- MCAmounts
  Calls <- MCCalls
  MaxNotes = 2
  Octaves <- MCOctaves
  MaxBase = 4
INVARIANTS
  OrderIsExact
  ArithmeticIsExact
  RoundingIsRight
  ModuloSolves
  MovesBySemitones
  LengthsFollowTheirChord
  DurationIsPlayed
CHECK_DEADLOCK FALSE
