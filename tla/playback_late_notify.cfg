SPECIFICATION Spec
CONSTANTS
  Notes = {c}
  Ports = {p}
  NoPort = NoPort
  Chords <- OneVoice
  MaxDepth = 1
  MaxBackwards = 1
  SeparateHandler = TRUE
  MaxHandlers = 1
  SpuriousWakeups = FALSE
INVARIANTS
  OnlyInterruptsEndSleep
