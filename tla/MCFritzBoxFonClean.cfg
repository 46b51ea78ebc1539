\* No faults, no answered call of 0 seconds; two remote parties, one withheld.
SPECIFICATION Spec
CONSTANTS
  PrefixCity <- MCPrefixCity
  PrefixState <- MCPrefixState
  Lines = {1, 2}
  Remotes <- MCRemotesWithheld
  Locals <- MCLocals
  Durations = {7}
  Faults = {}
  MaxWire = 1
INVARIANTS
  Attribution
  MissedIsUnanswered
PROPERTIES
  Reconnects
