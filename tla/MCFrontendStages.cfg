SPECIFICATION BoundedSpec
CONSTANTS
  DataPage = {"home"}
  Filters = {"f0"}
  NoFilter = "f0"
  MaxVersion = 0
  MaxFetches = 1
  MaxOwn = 0
  Faults = TRUE
  Row = {r1}
  New = New
  MaxWrites = 0
  File = {f1}
  MaxQuestions = 0
INVARIANT FailedStagesMarked
CHECK_DEADLOCK FALSE
