\* Children that wait and events that are no longer received end a behaviour.
SPECIFICATION Spec
CONSTANTS
  PrefixCity <- MCPrefix
  PrefixState <- MCPrefix
  AnyNumber = AnyNumber
  Events <- MCEvents
  Sinks <- MCSinks
  MaxEvents = 2
  MaxFailures = 2
INVARIANTS
  EveryRecordTried
  DescriptorsReturned
  NoAlarmLeft
PROPERTIES
  MailEnds
  Delivers
CHECK_DEADLOCK FALSE
