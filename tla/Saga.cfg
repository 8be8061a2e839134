SPECIFICATION Spec
CONSTANTS
  q1 = q1
  q2 = q2
  N = 4
  Rows <- SixRows
  RowsOf <- FullPlan
  External = {3, 4}
  Hashing = {4}
  Owned = {2}
  Undoable = {1, 3, 4}
  Requests <- TwoRequests
SYMMETRY Symmetric
INVARIANTS TypeOK CompletedIsProvisioned CompensatedIsUndone
PROPERTIES SharedRowsSurvive
CHECK_DEADLOCK FALSE
