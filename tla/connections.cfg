SPECIFICATION Spec
CONSTANTS
  Devices = {d, e}
  Virtual = virtual
  MaxPort = 1
  MaxConns = 4
  MaxDepth = 3
SYMMETRY Symmetry
CHECK_DEADLOCK FALSE
INVARIANTS
  TableIsHonest
  VirtualPortStays
