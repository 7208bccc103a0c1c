SPECIFICATION BoundedSpec
CONSTANTS
  Messages = {m1, m2}
  Pods = {p1, p2}
  MaxConcurrency = 1
  MaxReceiveCount = 2
INVARIANTS SlotsAccounted DrainComplete DeliveryHandledOnce
PROPERTIES ImplementsAtLeastOnce ShutdownEnds AcceptedSettles
CHECK_DEADLOCK FALSE
