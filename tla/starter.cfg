SPECIFICATION Spec
CONSTANTS
  Instances = {a, b}
  a = a
  b = b
  Impatient <- OneImpatient
  MaxStarts = 2
  MaxCommits = 1
CHECK_DEADLOCK FALSE
INVARIANTS
  WokenByStart
  CountsForTheCaller
PROPERTIES
  ImplementsBarrier
