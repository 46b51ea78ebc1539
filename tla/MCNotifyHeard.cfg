\* Children that wait and events that are no longer received end a behaviour.
SPECIFICATION Spec
CONSTANTS
  PrefixCity <- MCPrefix
  PrefixState <- MCPrefix
  AnyNumber = AnyNumber
  Events <- MCEvents
  Sinks <- MCSinks
  MaxEvents = 1
  MaxFailures = 2
INVARIANT
  ServerHeard
CHECK_DEADLOCK FALSE
