SPECIFICATION ColdSpec
CONSTANTS
  Ops <- TwoOps
  Scopes <- TwoScopes
  ScopesOf <- SharedVm
  Workers <- TwoWorkers
  Handled <- AllHandlers
  Idempotent <- Retryable
  Reconcilable <- VmPower
  Cancellable <- VmPower
  Native <- VmPower
  MaxAttempts <- TwoTries
  Concurrency = 2
  Lease = 2
  UnknownTtl = 4
  Delays = {1}
  Modes <- NoFreeze
  MaxUp = 1
  Crashes = TRUE
  Punctual = TRUE
  AttemptCap = 3
PROPERTIES EveryOperationSettles ExpiredLeaseIsReconciled
