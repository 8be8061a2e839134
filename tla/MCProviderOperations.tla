----------------------- MODULE MCProviderOperations -----------------------
(* Small instances of ProviderOperations for TLC.                          *)
EXTENDS ProviderOperations, TLC

OneOp    == {1}
TwoOps   == {1, 2}
ThreeOps == {1, 2, 3}
\* operation 3 shares the storage with operation 2
ThreeScopes == [o \in Ops |-> CASE o = 1 -> {"vm"} [] o = 2 -> {"vm", "storage"}
                               [] OTHER -> {"storage"}]
TwoScopes == {"vm", "storage"}
\* operation 1 locks its VM, operation 2 the VM and a storage
SharedVm  == [o \in Ops |-> IF o = 1 THEN {"vm"} ELSE TwoScopes]

TwoWorkers == {1, 2}
ThreeWorkers == {1, 2, 3}
AllModes    == {"active", "frozen", "emergency_stop"}
NoEmergency == {"active", "frozen"}
NoFreeze    == {"active", "emergency_stop"}
OnlyActive  == {"active"}
AllHandlers == [w \in Workers |-> Ops]

\* operation 1 is a VM power change (not idempotent, may be reconciled),
\* operation 2 an idempotent handler with neither reconcile() nor cancel()
VmPower    == {1}
Retryable  == {2}
NoneOf     == {}
\* the second incarnation is an older release without the handler of operation 3
Downgraded  == [w \in Workers |-> IF w = 2 THEN Ops \ {3} ELSE Ops]
TwoTries   == [o \in Ops |-> IF o \in Idempotent THEN 2 ELSE 1]

\* A restart that takes longer than every lease the dead process left behind.
LeasesLapsed ==
  /\ \A o \in Ops : lease[o] = 0
  /\ \A s \in Scopes : \/ lock[s].op = NoOp \/ lock[s].ttl = 0
                       \/ state[lock[s].op] = "unknown"
ColdNext ==
  \/ Elapse
  \/ \E w \in Workers : WorkerStep(w) /\ (proc[w] = "new" => LeasesLapsed)
ColdSpec == Init /\ [][ColdNext]_vars /\ Fairness
===========================================================================
