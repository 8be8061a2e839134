SPECIFICATION Spec
CONSTANTS
  Ops <- TwoOps
  Scopes <- TwoScopes
  ScopesOf <- SharedVm
  Workers <- TwoWorkers
  Handled <- AllHandlers
  Idempotent <- Retryable
  Reconcilable <- VmPower
  Cancellable <- VmPower
  Native <- VmPower
  MaxAttempts <- TwoTries
  Concurrency = 2
  Lease = 2
  UnknownTtl = 3
  Delays = {1}
  Modes <- OnlyActive
  MaxUp = 2
  Crashes = FALSE
  Punctual = TRUE
  AttemptCap = 2
\* AttemptCap stops a worker whose next step would be one more attempt
CHECK_DEADLOCK FALSE
INVARIANTS ExclusiveCalls CallsHoldLocks UnknownKeepsScopes CancelledIsConfirmed
