\* Every source answers or fails at every request; five rows in vain.
SPECIFICATION Spec
CONSTANTS
  PrefixCity <- MCPrefixCity
  PrefixState <- MCPrefixState
  Requested <- MCRequested
  Names = {"Ann", "Carl", "Dora", "Eve", "Joe"}
  NoName = ""
  Directories <- MCDirectories
  Tables <- MCTables
  Scripts <- MCScripts
  RightFirst = TRUE
INVARIANTS
  NothingMissed
  Remembered
PROPERTIES
  NamesAreTrue
  LookupReturns
