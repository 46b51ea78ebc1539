\* Every fault of the connection, answered calls of 0 and of 7 seconds.
SPECIFICATION Spec
CONSTANTS
  PrefixCity <- MCPrefixCity
  PrefixState <- MCPrefixState
  Lines = {1, 2}
  Remotes <- MCRemotes
  Locals <- MCLocals
  Durations = {0, 7}
  Faults = {"cut", "vanish"}
  MaxWire = 2
INVARIANTS
  TypeOK
  SlotsTruthful
  SlotsComplete
  NewestAttributed
  MissedReported
