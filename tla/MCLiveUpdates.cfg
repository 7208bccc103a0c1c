SPECIFICATION Spec
CONSTANTS
  MaxRetries = 5
  NetworkFaults = FALSE
PROPERTIES Connects
CHECK_DEADLOCK FALSE
