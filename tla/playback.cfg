SPECIFICATION Spec
CONSTANTS
  Notes = {c}
  Ports = {p, q}
  NoPort = NoPort
  Chords <- TwoVoices
  MaxDepth = 4
  MaxBackwards = 1
  SeparateHandler = TRUE
  MaxHandlers = 2
  SpuriousWakeups = TRUE
SYMMETRY PortSymmetry
INVARIANTS
  SoundIsOwned
  ActiveIsOwned
  EraseFindsNote
  IInv
PROPERTIES
  TopLevelIsRestored
