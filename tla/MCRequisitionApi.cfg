SPECIFICATION Spec
CONSTANTS
  Requests = {q1, q2}
  Keys = {"k1", "k2", "k3", "k4"}
  Start <- MCStart
  Categories = {"ENG", "CTS"}
  Unmanaged = {}
  Statuses = {"OPEN", "DONE"}
  Closed = {"DONE"}
  Base = 3
  Cut = 3
  NewRows <- MCNewRows
  Bodies <- MCBodies
  Files <- MCFiles
  Reads <- MCReads
  Faults = TRUE
SYMMETRY Symmetry
INVARIANTS LogExplainsRow BudgetExplained NumberIsFree ImportCounts ReadsAgree 
CHECK_DEADLOCK FALSE
