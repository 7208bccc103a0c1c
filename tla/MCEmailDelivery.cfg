SPECIFICATION EmailSpec
CONSTANTS
  Messages = {m1}
  Pods = {p1, p2}
  MaxConcurrency = 1
  MaxReceiveCount = 2
SYMMETRY Symmetry
INVARIANTS SecondMailExplained LostOnlyIfNotSent DeadLetterExplained
CHECK_DEADLOCK FALSE
