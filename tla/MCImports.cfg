SPECIFICATION ImportsSpec
CONSTANTS
  Writers <- MCWriters
  Kind <- MCKind
  Rows <- MCRows
  Categories = {"ENG", "MKT"}
  DbFaults = TRUE
  MaxDeletes = 2
  N = 5
  BatchSize = 2
  Invalid = {3}
  CategoryOf <- MCCategory
  Managed = {"ENG", "MKT"}
INVARIANTS
  RefusedOnlyByRace
  EveryRowAccounted
  ShiftExplained
  EveryRecordAccounted
  ManagersAreTold
CHECK_DEADLOCK FALSE
