SPECIFICATION GovernedSpec
CONSTANTS
  alice = alice
  bob = bob
  carol = carol
  add = add
  again = again
  remove = remove
  old = old
  new = new
  None = None
  Users <- Staff
  Requesters = {alice}
  Approvers <- Staff
  Requests = {q1}
  Actions <- Keys
  Policies <- TwoOthers
  Changes <- Attempts
  Spec <- Asked
  Ips <- Addresses
  Listed = {old}
  Desk <- Addresses
  Dash <- Addresses
  Mgmt = TRUE
  Sweeps = {s1}
  Reverts = {m1}
  MaxFaults = 1
\* everything is confirmed or reverted, and nobody asks for more
CHECK_DEADLOCK FALSE
INVARIANTS TypeOK DualControl SingleUse EffectsAreAccounted
 
CONSTRAINT InCast
