SPECIFICATION Spec
CONSTANTS
  Ops <- OneOp
  Scopes <- TwoScopes
  ScopesOf <- SharedVm
  Workers <- TwoWorkers
  Handled <- AllHandlers
  Idempotent <- NoneOf
  Reconcilable <- VmPower
  Cancellable <- VmPower
  Native <- VmPower
  MaxAttempts <- TwoTries
  Concurrency = 2
  Lease = 2
  UnknownTtl = 4
  Delays = {1}
  Modes <- OnlyActive
  MaxUp = 2
  Crashes = FALSE
  Punctual = TRUE
  AttemptCap = 3
INVARIANT NoBlindReplay
