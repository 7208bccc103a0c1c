SPECIFICATION BoundedSpec
CONSTANTS
  DataPage = {"home", "dashboard", "requisitions", "changes", "notifications", "market"}
  Filters = {"f0", "f1"}
  NoFilter = "f0"
  MaxVersion = 2
  MaxFetches = 2
  MaxOwn = 1
  Faults = TRUE
  Row = {r1, r2}
  New = New
  MaxWrites = 2
  File = {f1, f2}
  MaxQuestions = 2
INVARIANTS ScreenIsCurrent SentToItsRow ResultOfFile AnswersHaveQuestions
PROPERTY LoadingEnds
CHECK_DEADLOCK FALSE
