SPECIFICATION BoundedSpec
CONSTANTS
  Messages = {m1}
  Pods = {p1}
  MaxConcurrency = 1
  MaxReceiveCount = 3
INVARIANT DeadLetterAfterFailures
CHECK_DEADLOCK FALSE
