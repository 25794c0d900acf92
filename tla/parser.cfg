SPECIFICATION Spec
CONSTANTS
  Alphabets <- MCAlphabets
INVARIANTS
  TreeFollowsSource
  WellFormedIsRead
  ChainsGroupByPrecedence
CHECK_DEADLOCK FALSE
