\* Two daemons start at a time while a third one ends.
SPECIFICATION Spec
CONSTANTS
  Pids = {1, 2, 3}
  MaxStarting = 2
  Faults = {}
INVARIANT
  MutualExclusion
