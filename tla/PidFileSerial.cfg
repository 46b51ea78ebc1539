\* Daemons start one at a time; every fault.
SPECIFICATION Spec
CONSTANTS
  Pids = {1, 2, 3}
  MaxStarting = 1
  Faults = {"crash", "writefail", "foreign"}
INVARIANTS
  TypeOK
  SerialStart
  MutualExclusion
  ServedByFile
PROPERTIES
  RefusalJustified
