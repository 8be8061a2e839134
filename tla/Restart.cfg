SPECIFICATION Spec
CONSTANTS
  Ops <- ThreeOps
  Scopes <- TwoScopes
  ScopesOf <- ThreeScopes
  Workers <- TwoWorkers
  Handled <- Downgraded
  Idempotent <- Retryable
  Reconcilable <- VmPower
  Cancellable <- VmPower
  Native <- VmPower
  MaxAttempts <- TwoTries
  Concurrency = 2
  Lease = 2
  UnknownTtl = 4
  Delays = {1}
  Modes <- AllModes
  MaxUp = 1
  Crashes = TRUE
  Punctual = TRUE
  AttemptCap = 3
INVARIANTS TypeOK NoBlindReplay CallsHoldLocks UnknownKeepsScopes
 
