\* Any commands and signals; times of no, ten and minus five seconds.
\* When father and child have ended nothing happens any more.
SPECIFICATION SimSpec
CONSTANTS
  PrefixCity <- MCPrefixCity
  PrefixState <- MCPrefixState
  Lines = {1, 2}
  Remotes <- MCRemotes
  Locals <- MCLocals
  Durations = {0, 10}
  Faults = {"vanish"}
  MaxWire = 2
  Times <- MCTimes
  SIP2 <- MCSIP2
INVARIANTS
  CallsAsCommanded
  EveryCallReported
PROPERTIES
  WritesLikeABox
  TestEnds
CHECK_DEADLOCK FALSE
