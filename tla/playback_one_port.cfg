SPECIFICATION FairSpec
CONSTANTS
  Notes = {c, d}
  Ports = {p}
  NoPort = NoPort
  Chords <- TwoVoices
  MaxDepth = 2
  MaxBackwards = 1
  SeparateHandler = TRUE
  MaxHandlers = 1
  SpuriousWakeups = TRUE

  
PROPERTIES
  InterruptSilences
  InterruptReturnsToPrompt
