SPECIFICATION FairSpec
CONSTANTS
  Instances = {a, b}
  a = a
  b = b
  Impatient <- NoneImpatient
  MaxStarts = 2
  MaxCommits = 0
CHECK_DEADLOCK FALSE
PROPERTIES
  CountedWaitEnds
