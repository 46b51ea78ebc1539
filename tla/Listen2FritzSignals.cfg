\* Three shutdown signals of two kinds, at any point.
SPECIFICATION Spec
CONSTANTS
  Signals = {TERM, INT}
  MaxSignals = 3
  MaxChildren = 1
  MaxFails = 12
CHECK_DEADLOCK FALSE
INVARIANTS
  TypeOK
  HarmlessElsewhere
  NothingLeaks
  PromptExit
  BackoffLaw
PROPERTIES
  ShutdownEnds
