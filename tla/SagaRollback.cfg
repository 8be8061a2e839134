SPECIFICATION Spec
CONSTANTS
  q1 = q1
  q2 = q2
  N = 3
  Rows <- FourRows
  RowsOf <- HostPlan
  External = {2, 3}
  Hashing = {3}
  Owned = {}
  Undoable = {1, 2, 3}
  Requests <- OneRequest
INVARIANT RollbackRemovesOwnRows
CHECK_DEADLOCK FALSE
