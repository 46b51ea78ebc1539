\* Two calls of one direction overlap.
SPECIFICATION Spec
CONSTANTS
  PrefixCity <- MCPrefixCity
  PrefixState <- MCPrefixState
  Lines = {1, 2}
  Remotes <- MCRemotes
  Locals <- MCLocals
  Durations = {7}
  Faults = {}
  MaxWire = 1
INVARIANT
  EveryDisconnectAttributed
