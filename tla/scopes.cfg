SPECIFICATION Spec
CONSTANTS
  Names = {x}
  NoName = none
  Parameters = {x}
  MaxEnvs = 3
  MaxDepth = 3
CHECK_DEADLOCK FALSE
INVARIANTS
  LexicalScope
  StoresIntoScope
