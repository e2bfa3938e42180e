SPECIFICATION LiveSpec
CONSTANTS
  Caller = {c1}
  Torn = Torn
  QueueSize = 2
  MaxChanges = 3
  MaxCrashes = 1
INVARIANTS
  TypeOK
  PublishedIsSaved
  AnswersAreCurrent
  StopsClean
  NotAbandoned
PROPERTIES
  DeliversInOrder
  BatchesLeave
  SignalStops
  CallersServed
