SPECIFICATION FairSpec
CONSTANTS
  Sources <- MCSources
INVARIANTS
  TokensCoverText
  TokensAreLocated
  TokensAreWhole
PROPERTIES
  ClosedSourcesEnd
CHECK_DEADLOCK FALSE
