SPECIFICATION Spec
CONSTANTS
  Requests = {q1, q2, q3}
  Reqs = {r1, r2}
  Existing = {r1}
  Managed = {r1}
  Tracked <- MCTracked
  Untracked = {"notes"}
  Values = {0, 1, 2}
  Text <- MCText
  Storable <- MCStorable
  NewRows <- MCNewRows
  Bodies <- MCBodies
  DbFaults = TRUE
SYMMETRY Symmetry
INVARIANTS LogExplainsRow AnnouncedAsAnswered
CHECK_DEADLOCK FALSE
