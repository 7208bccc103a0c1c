CONSTANTS
  Calls <- MCCalls
  KeyOf <- MCKeyOf
  Limiters = {l1, l2, l3}
  Burst = 2
  EvictAfter = 20
  EvictEvery = 10
  MaxStall = 1
SPECIFICATION Spec
PROPERTY IsTokenBucket
SYMMETRY Alike
CHECK_DEADLOCK FALSE
