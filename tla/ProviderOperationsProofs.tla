---------------------- MODULE ProviderOperationsProofs ----------------------
(***************************************************************************)
(* Proofs about ProviderOperations: its type invariant, for any number of  *)
(* replicas; and, for one process at a time, NoBlindReplay, the invariants *)
(* of the locks, and the refinement of OperationContract.                  *)
(***************************************************************************)
EXTENDS ProviderOperations, FiniteSetTheorems, WellFoundedInduction, TLAPS

LockTables == [Scopes -> LockRows]

\* A nonempty set of operations has a first one, which the CHOOSE of LeastOf finds.
LEMMA LeastInSet ==
  ASSUME NEW S, S \subseteq Nat, S # {}
  PROVE  LeastOf(S) \in S
<1>1. \E x \in S : \A y \in S : ~(<<y, x>> \in OpToRel(<, Nat))
  BY WFMin, NatLessThanWellFounded, Zenon
<1>2. \E x \in S : \A y \in S : ~(y < x)
  BY <1>1, Zenon DEF OpToRel
<1>3. \E x \in S : \A y \in S : x <= y
  BY <1>2
<1> QED BY <1>3 DEF LeastOf

-----------------------------------------------------------------------------
(* Every statement on the lock table yields a lock table.                   *)

LEMMA LockTableTypes ==
  ASSUME NEW ls \in LockTables, NEW o \in Ops, NEW w \in Workers, NEW t \in Nat
  PROVE  /\ Unexpired(ls) \in LockTables /\ Acquired(ls, w, o) \in LockTables
         /\ Released(ls, o) \in LockTables /\ Extended(ls, o, t) \in LockTables
         /\ Renewed(ls, w, o) \in LockTables
<1> USE BoundAssumption DEF LockTables, LockRows, NoLock
<1>1. Unexpired(ls) \in LockTables
  BY DEF Unexpired
<1>2. Acquired(ls, w, o) \in LockTables
  BY DEF Acquired
<1>3. Released(ls, o) \in LockTables
  BY DEF Released
<1>4. Extended(ls, o, t) \in LockTables
  BY DEF Extended
<1>5. Renewed(ls, w, o) \in LockTables
  BY DEF Renewed
<1> QED BY <1>1, <1>2, <1>3, <1>4, <1>5

LEMMA FinishLocksType ==
  ASSUME NEW ls \in LockTables, NEW o \in Ops, NEW r
  PROVE  FinishLocks(ls, o, r) \in LockTables
<1>1. Released(ls, o) \in LockTables
  BY DEF LockTables, LockRows, NoLock, Released
<1>2. Extended(ls, o, UnknownTtl) \in LockTables
  BY BoundAssumption DEF LockTables, LockRows, Extended
<1> QED BY <1>1, <1>2 DEF FinishLocks

LEMMA RefreshedType ==
  ASSUME NEW ls \in LockTables
  PROVE  RefreshedUnknown(ls) \in LockTables
<1> DEFINE holders(s) == {o \in Ops : state[o] = "unknown" /\ s \in ScopesOf[o]}
           inserted(s) == [op |-> LeastOf(holders(s)), owner |-> UnknownState,
                           ttl |-> UnknownTtl]
           new(s) == IF ls[s].op \in holders(s)
                     THEN [ls[s] EXCEPT !.ttl = UnknownTtl]
                     ELSE IF holders(s) # {} /\ ls[s].op = NoOp THEN inserted(s)
                          ELSE ls[s]
<1>1. ASSUME NEW s \in Scopes PROVE new(s) \in LockRows
  <2>1. [ls[s] EXCEPT !.ttl = UnknownTtl] \in LockRows
    BY BoundAssumption DEF LockTables, LockRows
  <2>2. ASSUME holders(s) # {} PROVE inserted(s) \in LockRows
    <3>1. LeastOf(holders(s)) \in Ops
      BY <2>2, LeastInSet, NumberedAssumption
    <3> QED BY <3>1, BoundAssumption DEF LockRows
  <2> QED BY <2>1, <2>2 DEF LockTables
<1>2. RefreshedUnknown(ls) = [s \in Scopes |-> new(s)]
  BY DEF RefreshedUnknown
<1> QED BY <1>1, <1>2 DEF LockTables

-----------------------------------------------------------------------------
(* The type invariant.                                                      *)

RowTypes ==
  /\ state \in [Ops -> States] /\ attempt \in [Ops -> Nat] /\ avail \in [Ops -> Nat]
  /\ owner \in [Ops -> Workers \cup {NoWorker}] /\ lease \in [Ops -> Nat]
  /\ lock \in LockTables

RegisterTypes ==
  /\ proc \in [Workers -> {"new", "up", "stopping", "down"}]
  /\ batch \in [Workers -> SUBSET Ops]
  /\ pc \in [Workers -> {"idle", "lock", "claim"}]
  /\ row \in [Workers -> DueStates \cup {"running", "absent"}]
  /\ job \in [Workers -> [Ops -> HandlerCall \cup {"cancel", "none"}]]

RestTypes ==
  /\ native \subseteq Ops /\ policy \in {"active", "frozen", "emergency_stop"}
  /\ execs \in [Ops -> Nat] /\ confirmed \subseteq Ops

LEMMA TypeParts == TypeOK <=> RowTypes /\ RegisterTypes /\ RestTypes
BY DEF TypeOK, RowTypes, RegisterTypes, RestTypes, LockTables

LEMMA TypePartsPrimed == TypeOK' <=> RowTypes' /\ RegisterTypes' /\ RestTypes'
BY DEF TypeOK, RowTypes, RegisterTypes, RestTypes, LockTables

LEMMA FinishType ==
  ASSUME RowTypes, NEW o \in Ops, NEW r \in Terminal, NEW ls \in LockTables,
         Finish(o, r, ls)
  PROVE  RowTypes'
<1>1. lock' \in LockTables
  BY FinishLocksType DEF Finish
<1>2. r \in States
  BY DEF States, Terminal
<1> QED BY <1>1, <1>2 DEF RowTypes, Finish

LEMMA ScheduleType ==
  ASSUME RowTypes, NEW o \in Ops, NEW st \in States, NEW d \in Nat,
         NEW ls \in LockTables, Schedule(o, st, d, ls)
  PROVE  RowTypes'
<1>1. d + Lease \in Nat
  BY BoundAssumption
<1>2. lock' \in LockTables
  <2>1. Extended(ls, o, d + Lease) \in LockTables
    BY <1>1 DEF LockTables, LockRows, Extended
  <2> QED BY <2>1 DEF Schedule
<1> QED BY <1>2 DEF RowTypes, Schedule

LEMMA DispatchEnds ==
  ASSUME RegisterTypes, NEW w \in Workers, NEW o \in Ops, EndDispatch(w, o),
         UNCHANGED proc, job' \in [Workers -> [Ops -> HandlerCall \cup {"cancel", "none"}]]
  PROVE  RegisterTypes'
BY DEF RegisterTypes, EndDispatch

LEMMA JobSet ==
  ASSUME RegisterTypes, NEW w \in Workers, NEW o \in Ops,
         NEW call \in HandlerCall \cup {"cancel", "none"}
  PROVE  [job EXCEPT ![w][o] = call]
           \in [Workers -> [Ops -> HandlerCall \cup {"cancel", "none"}]]
BY DEF RegisterTypes

LEMMA CancelEntryType ==
  ASSUME NEW o \in Ops
  PROVE  CancelEntry(o) \in {"cancelled", "unknown", "cancel_requested"}
BY DEF CancelEntry

\* Requests served by a worker.
LEMMA RequestType ==
  ASSUME TypeOK, NEW w \in Workers, Request(w)
  PROVE  TypeOK'
<1>0. RowTypes /\ RegisterTypes /\ RestTypes
  BY TypeParts
<1>1. ASSUME NEW o \in Ops, Submit(w, o) PROVE TypeOK'
  <2>1. RowTypes'
    BY <1>0, <1>1 DEF Submit, RowTypes, States, InProgress, DueStates
  <2>2. RegisterTypes' /\ RestTypes'
    BY <1>0, <1>1 DEF Submit, RegisterTypes, RestTypes, procVars, ghosts
  <2> QED BY <2>1, <2>2, TypePartsPrimed
<1>2. ASSUME NEW o \in Ops, RequestCancel(w, o) PROVE TypeOK'
  <2>1. RowTypes'
    <3>1. CASE job[w][o] \in HandlerCall /\ CancelEntry(o) \in Terminal
      <4>1. Finish(o, CancelEntry(o), lock)
        BY <1>2, <3>1 DEF RequestCancel
      <4> QED BY <1>0, <3>1, <4>1, FinishType DEF RowTypes
    <3>2. CASE ~(job[w][o] \in HandlerCall /\ CancelEntry(o) \in Terminal)
      <4>1. /\ state' = [state EXCEPT ![o] = "cancel_requested"]
            /\ UNCHANGED <<attempt, avail, owner, lease, lock>>
        BY <1>2, <3>2 DEF RequestCancel
      <4> QED BY <1>0, <4>1 DEF RowTypes, States, InProgress, DueStates
    <3> QED BY <3>1, <3>2
  <2>2. RegisterTypes'
    <3>1. AbortedJob(w, o, CancelEntry(o)) \in HandlerCall \cup {"cancel", "none"}
      BY <1>0 DEF AbortedJob, RegisterTypes
    <3>2. job' = [job EXCEPT ![w][o] = AbortedJob(w, o, CancelEntry(o))]
      BY <1>2 DEF RequestCancel
    <3> QED BY <1>0, <1>2, <3>1, <3>2, JobSet DEF RequestCancel, RegisterTypes
  <2>3. RestTypes'
    BY <1>0, <1>2 DEF RequestCancel, RestTypes, ghosts
  <2> QED BY <2>1, <2>2, <2>3, TypePartsPrimed
<1>3. ASSUME NEW o \in Ops, NEW r \in Releasing, ResolveUnknown(w, o, r) PROVE TypeOK'
  <2>1. lock' \in LockTables
    BY <1>0, <1>3, LockTableTypes, BoundAssumption DEF ResolveUnknown, RowTypes
  <2>2. RowTypes'
    BY <1>0, <1>3, <2>1 DEF ResolveUnknown, RowTypes, States, Terminal
  <2>3. RegisterTypes' /\ RestTypes'
    BY <1>0, <1>3 DEF ResolveUnknown, RegisterTypes, RestTypes, procVars
  <2> QED BY <2>2, <2>3, TypePartsPrimed
<1>4. ASSUME NEW m \in Modes, SetPolicy(w, m) PROVE TypeOK'
  <2>1. RestTypes'
    BY <1>0, <1>4, BoundAssumption DEF SetPolicy, RestTypes, ghosts
  <2>2. CASE m # "emergency_stop"
    BY <1>0, <1>4, <2>1, <2>2, TypePartsPrimed DEF SetPolicy, RowTypes, RegisterTypes
  <2>3. CASE m = "emergency_stop"
    <3>1. \A o \in Ops : StoppedState(w, o) \in States
      BY <1>0, CancelEntryType
         DEF StoppedState, RowTypes, States, Terminal, Releasing, InProgress, DueStates
    <3>2. lock' \in LockTables
      <4>1. \A s \in Scopes : \A r : lock[s].op \in Ops =>
                FinishLocks(lock, lock[s].op, r)[s] \in LockRows
        BY <1>0, FinishLocksType DEF RowTypes, LockTables
      <4>2. \A s \in Scopes : lock'[s] \in LockRows
        BY <1>0, <1>4, <2>3, <4>1 DEF SetPolicy, RowTypes, LockTables
      <4>3. lock' = [s \in Scopes |-> lock'[s]]
        BY <1>4, <2>3 DEF SetPolicy
      <4> QED BY <4>2, <4>3 DEF LockTables
    <3>3. RowTypes'
      BY <1>0, <1>4, <2>3, <3>1, <3>2 DEF SetPolicy, RowTypes
    <3>4. \A o \in Ops : AbortedJob(w, o, CancelEntry(o))
                           \in HandlerCall \cup {"cancel", "none"}
      BY <1>0 DEF AbortedJob, RegisterTypes
    <3>5. RegisterTypes'
      <4>1. job' = [job EXCEPT ![w] = [o \in Ops |->
                     IF o \in {p \in Ops : Open(p)} /\ Started(o)
                     THEN AbortedJob(w, o, CancelEntry(o)) ELSE job[w][o]]]
        BY <1>4, <2>3 DEF SetPolicy
      <4>2. job' \in [Workers -> [Ops -> HandlerCall \cup {"cancel", "none"}]]
        <5>1. \A o \in Ops : job[w][o] \in HandlerCall \cup {"cancel", "none"}
          BY <1>0 DEF RegisterTypes
        <5>2. [o \in Ops |-> IF o \in {p \in Ops : Open(p)} /\ Started(o)
                             THEN AbortedJob(w, o, CancelEntry(o)) ELSE job[w][o]]
                \in [Ops -> HandlerCall \cup {"cancel", "none"}]
          BY <3>4, <5>1
        <5> QED BY <1>0, <4>1, <5>2 DEF RegisterTypes
      <4> QED BY <1>0, <1>4, <4>2 DEF SetPolicy, RegisterTypes
    <3> QED BY <2>1, <3>3, <3>5, TypePartsPrimed
  <2> QED BY <2>2, <2>3
<1> QED BY <1>1, <1>2, <1>3, <1>4 DEF Request

\* The part of a dispatch before its first await.
LEMMA DispatchType ==
  ASSUME TypeOK, NEW w \in Workers, Dispatch(w)
  PROVE  TypeOK'
<1>0. RowTypes /\ RegisterTypes /\ RestTypes
  BY TypeParts
<1>a. job \in [Workers -> [Ops -> HandlerCall \cup {"cancel", "none"}]]
  BY <1>0 DEF RegisterTypes
<1>b. {"reconciling", "cancel_requested", "running"} \subseteq States
  BY DEF States, InProgress, DueStates
<1>1. ASSUME NEW o \in Ops, ReadRow(w, o) PROVE TypeOK'
  <2>1. RestTypes'
    BY <1>0, <1>1 DEF ReadRow, RestTypes, ghosts, opVars, Finish, Schedule
  <2>2. CASE state[o] \in Terminal /\ EndDispatch(w, o) /\ UNCHANGED <<opVars, lock>>
    <3>1. RowTypes'
      BY <1>0, <2>2 DEF RowTypes, opVars
    <3>2. RegisterTypes'
      BY <1>0, <1>1, <1>a, <2>2, DispatchEnds DEF ReadRow
    <3> QED BY <2>1, <3>1, <3>2, TypePartsPrimed
  <2>3. CASE /\ Schedule(o, IF state[o] = "cancel_requested" THEN "cancel_requested"
                                                        ELSE "reconciling", 1, lock)
             /\ EndDispatch(w, o)
    <3>1. RowTypes'
      BY <1>0, <1>b, <2>3, ScheduleType DEF RowTypes
    <3>2. RegisterTypes'
      BY <1>0, <1>1, <1>a, <2>3, DispatchEnds DEF ReadRow
    <3> QED BY <2>1, <3>1, <3>2, TypePartsPrimed
  <2>4. CASE /\ IF policy = "emergency_stop"
                THEN Finish(o, "cancelled", lock)
                ELSE \E d \in Delays : Schedule(o, state[o], d, lock)
             /\ EndDispatch(w, o)
    <3>1. RowTypes'
      <4>1. CASE policy = "emergency_stop"
        BY <1>0, <2>4, <4>1, FinishType DEF RowTypes, Terminal, Releasing
      <4>2. CASE policy # "emergency_stop"
        <5>1. PICK d \in Delays : Schedule(o, state[o], d, lock)
          BY <2>4, <4>2
        <5>2. d \in Nat /\ state[o] \in States
          BY <1>0, BoundAssumption DEF RowTypes
        <5> QED BY <1>0, <5>1, <5>2, ScheduleType DEF RowTypes
      <4> QED BY <4>1, <4>2
    <3>2. RegisterTypes'
      BY <1>0, <1>1, <1>a, <2>4, DispatchEnds DEF ReadRow
    <3> QED BY <2>1, <3>1, <3>2, TypePartsPrimed
  <2>5. CASE /\ state[o] \notin Terminal /\ o = LeastOf(batch[w])
             /\ pc' = [pc EXCEPT ![w] = "lock"] /\ row' = [row EXCEPT ![w] = state[o]]
             /\ UNCHANGED <<opVars, lock, batch>>
    <3>1. RowTypes'
      BY <1>0, <2>5 DEF RowTypes, opVars
    <3>2. state[o] \in DueStates \cup {"running", "absent"}
      BY <1>0, <2>5 DEF RowTypes, States, InProgress
    <3>3. RegisterTypes'
      BY <1>0, <1>1, <2>5, <3>2 DEF ReadRow, RegisterTypes
    <3> QED BY <2>1, <3>1, <3>3, TypePartsPrimed
  <2> QED BY <1>1, <2>2, <2>3, <2>4, <2>5 DEF ReadRow, Dispatching
<1>2. ASSUME NEW o \in Ops, AcquireLocks(w, o) PROVE TypeOK'
  <2>1. RestTypes'
    BY <1>0, <1>2 DEF AcquireLocks, RestTypes, ghosts, opVars, Schedule
  <2>2. Unexpired(lock) \in LockTables /\ Acquired(Unexpired(lock), w, o) \in LockTables
    BY <1>0, LockTableTypes, 0 \in Nat DEF RowTypes
  <2>3. CASE CanAcquire(Unexpired(lock), w, o)
    <3>1. RowTypes'
      BY <1>0, <1>2, <2>2, <2>3 DEF AcquireLocks, RowTypes, opVars
    <3>2. RegisterTypes'
      BY <1>0, <1>2, <2>3 DEF AcquireLocks, RegisterTypes
    <3> QED BY <2>1, <3>1, <3>2, TypePartsPrimed
  <2>4. CASE ~CanAcquire(Unexpired(lock), w, o)
    <3>1. Schedule(o, row[w], 1, Unexpired(lock)) /\ EndDispatch(w, o)
      BY <1>2, <2>4 DEF AcquireLocks
    <3>2. row[w] \in States
      BY <1>0 DEF RegisterTypes, States, InProgress
    <3>3. RowTypes'
      BY <1>0, <2>2, <3>1, <3>2, ScheduleType
    <3>4. RegisterTypes'
      BY <1>0, <1>2, <1>a, <3>1, DispatchEnds DEF AcquireLocks
    <3> QED BY <2>1, <3>3, <3>4, TypePartsPrimed
  <2> QED BY <2>3, <2>4
<1>3. ASSUME NEW o \in Ops, ClaimLost(w, o) PROVE TypeOK'
  <2>1. RowTypes' /\ RestTypes'
    BY <1>0, <1>3 DEF ClaimLost, RowTypes, RestTypes, opVars, ghosts
  <2>2. RegisterTypes'
    BY <1>0, <1>3, <1>a, DispatchEnds DEF ClaimLost
  <2> QED BY <2>1, <2>2, TypePartsPrimed
<1>4. ASSUME NEW o \in Ops, ClaimExecute(w, o) PROVE TypeOK'
  <2>1. RowTypes'
    BY <1>0, <1>4, <1>b, BoundAssumption DEF ClaimExecute, ClaimRow, RowTypes
  <2>2. RegisterTypes'
    BY <1>0, <1>4, JobSet, DispatchEnds DEF ClaimExecute, HandlerCall
  <2>3. RestTypes'
    BY <1>0, <1>4 DEF ClaimExecute, RestTypes
  <2> QED BY <2>1, <2>2, <2>3, TypePartsPrimed
<1>5. ASSUME NEW o \in Ops, ClaimReconcile(w, o) PROVE TypeOK'
  <2>1. RestTypes'
    BY <1>0, <1>5 DEF ClaimReconcile, RestTypes, ghosts
  <2>2. RowTypes'
    <3>1. CASE o \in Reconcilable
      BY <1>0, <1>5, <1>b, <3>1, BoundAssumption DEF ClaimReconcile, ClaimRow, RowTypes
    <3>2. CASE o \notin Reconcilable
      BY <1>0, <1>5, <3>2, FinishType DEF ClaimReconcile, RowTypes, Terminal
    <3> QED BY <3>1, <3>2
  <2>3. RegisterTypes'
    BY <1>0, <1>5, <1>a, JobSet, DispatchEnds DEF ClaimReconcile, HandlerCall
  <2> QED BY <2>1, <2>2, <2>3, TypePartsPrimed
<1>6. ASSUME NEW o \in Ops, ClaimCancel(w, o) PROVE TypeOK'
  <2>1. RestTypes'
    BY <1>0, <1>6 DEF ClaimCancel, RestTypes, ghosts
  <2>2. RowTypes'
    <3>1. CASE CancelEntry(o) = "cancel_requested"
      BY <1>0, <1>6, <1>b, <3>1, BoundAssumption DEF ClaimCancel, ClaimRow, RowTypes
    <3>2. CASE CancelEntry(o) # "cancel_requested"
      <4>1. CancelEntry(o) \in Terminal
        BY <3>2, CancelEntryType DEF Terminal, Releasing
      <4> QED BY <1>0, <1>6, <3>2, <4>1, FinishType DEF ClaimCancel, RowTypes
    <3> QED BY <3>1, <3>2
  <2>3. RegisterTypes'
    BY <1>0, <1>6, <1>a, JobSet, DispatchEnds DEF ClaimCancel
  <2> QED BY <2>1, <2>2, <2>3, TypePartsPrimed
<1> QED BY <1>1, <1>2, <1>3, <1>4, <1>5, <1>6 DEF Dispatch

\* What follows an awaited handler call.
LEMMA HandlerType ==
  ASSUME TypeOK, NEW w \in Workers, NEW o \in Ops,
         Heartbeat(w, o) \/ BindNativeTask(w, o) \/ HandlerEnds(w, o)
  PROVE  TypeOK'
<1>0. RowTypes /\ RegisterTypes /\ RestTypes
  BY TypeParts
<1>a. ASSUME EndJob(w, o), UNCHANGED <<proc, batch, pc, row>> PROVE RegisterTypes'
  BY <1>0, <1>a, JobSet DEF EndJob, RegisterTypes
<1>b. lock \in LockTables
  BY <1>0 DEF RowTypes
<1>c. \A d \in Delays : d \in Nat
  BY BoundAssumption
<1>1. ASSUME Heartbeat(w, o) PROVE TypeOK'
  <2>1. RowTypes'
    BY <1>0, <1>b, <1>1, LockTableTypes, BoundAssumption DEF Heartbeat, RowTypes
  <2>2. RegisterTypes' /\ RestTypes'
    BY <1>0, <1>1 DEF Heartbeat, RegisterTypes, RestTypes, procVars, ghosts
  <2> QED BY <2>1, <2>2, TypePartsPrimed
<1>2. ASSUME BindNativeTask(w, o) PROVE TypeOK'
  <2>1. RowTypes'
    BY <1>0, <1>b, <1>2, LockTableTypes, BoundAssumption DEF BindNativeTask, RowTypes
  <2>2. RegisterTypes' /\ RestTypes'
    BY <1>0, <1>2 DEF BindNativeTask, RegisterTypes, RestTypes, procVars, ghosts
  <2> QED BY <2>1, <2>2, TypePartsPrimed
<1>3. ASSUME NEW r \in Terminal \cup {"reconciling"}, HandlerReturns(w, o, r)
      PROVE  TypeOK'
  <2>1. RestTypes'
    BY <1>0, <1>3 DEF HandlerReturns, RestTypes, ghosts
  <2>2. RegisterTypes'
    BY <1>3, <1>a DEF HandlerReturns
  <2>3. CASE r = "reconciling"
    <3>1. PICK d \in Delays : Schedule(o, "reconciling", d, lock)
      BY <1>3, <2>3 DEF HandlerReturns
    <3>2. RowTypes'
      BY <1>0, <1>b, <1>c, <3>1, ScheduleType DEF States, InProgress, DueStates
    <3> QED BY <2>1, <2>2, <3>2, TypePartsPrimed
  <2>4. CASE r # "reconciling"
    <3>1. r \in Terminal /\ Finish(o, r, lock)
      BY <1>3, <2>4 DEF HandlerReturns
    <3>2. RowTypes'
      BY <1>0, <1>b, <3>1, FinishType
    <3> QED BY <2>1, <2>2, <3>2, TypePartsPrimed
  <2> QED BY <2>3, <2>4
<1>4. ASSUME NEW t \in BOOLEAN, HandlerThrows(w, o, t) PROVE TypeOK'
  <2>1. RestTypes'
    BY <1>0, <1>4 DEF HandlerThrows, RestTypes, ghosts
  <2>2. RegisterTypes'
    BY <1>4, <1>a DEF HandlerThrows
  <2>3. \/ Schedule(o, "reconciling", 1, lock) \/ Finish(o, "failed", lock)
        \/ \E d \in Delays : Schedule(o, "waiting_retry", d, lock)
    BY <1>4, Zenon DEF HandlerThrows
  <2>4. RowTypes'
    <3>1. CASE Schedule(o, "reconciling", 1, lock)
      BY <1>0, <1>b, <3>1, ScheduleType DEF States, InProgress, DueStates
    <3>2. CASE Finish(o, "failed", lock)
      BY <1>0, <1>b, <3>2, FinishType DEF Terminal, Releasing
    <3>3. CASE \E d \in Delays : Schedule(o, "waiting_retry", d, lock)
      BY <1>0, <1>b, <1>c, <3>3, ScheduleType DEF States, InProgress, DueStates
    <3> QED BY <2>3, <3>1, <3>2, <3>3
  <2> QED BY <2>1, <2>2, <2>4, TypePartsPrimed
<1>5. ASSUME HandlerTimesOut(w, o) PROVE TypeOK'
  <2>1. RestTypes'
    BY <1>0, <1>5 DEF HandlerTimesOut, RestTypes, ghosts
  <2>2. RegisterTypes'
    BY <1>5, <1>a DEF HandlerTimesOut
  <2>3. RowTypes'
    <3>1. CASE o \in Reconcilable
      <4>1. Schedule(o, "reconciling", 1, lock)
        BY <1>5, <3>1 DEF HandlerTimesOut
      <4> QED BY <1>0, <1>b, <4>1, ScheduleType DEF States, InProgress, DueStates
    <3>2. CASE o \notin Reconcilable
      BY <1>0, <1>b, <1>5, <3>2, FinishType DEF HandlerTimesOut, Terminal
    <3> QED BY <3>1, <3>2
  <2> QED BY <2>1, <2>2, <2>3, TypePartsPrimed
<1>6. ASSUME NEW ok \in BOOLEAN, CancelReturns(w, o, ok) PROVE TypeOK'
  <2>1. RestTypes'
    BY <1>0, <1>6 DEF CancelReturns, RestTypes
  <2>2. RegisterTypes'
    BY <1>6, <1>a DEF CancelReturns
  <2>3. RowTypes'
    <3>1. (IF ok THEN "cancelled" ELSE "unknown") \in Terminal
      BY DEF Terminal, Releasing
    <3> QED BY <1>0, <1>b, <1>6, <3>1, FinishType DEF CancelReturns
  <2> QED BY <2>1, <2>2, <2>3, TypePartsPrimed
<1> QED BY <1>1, <1>2, <1>3, <1>4, <1>5, <1>6, Zenon DEF HandlerEnds

\* The life of a process, its polls, and the passing of time.
LEMMA LifeType ==
  ASSUME TypeOK, NEW w \in Workers,
         \/ \E r \in BOOLEAN : Tick(w, r)
         \/ Start(w) \/ Stop(w) \/ Exit(w)
  PROVE  TypeOK'
<1>0. RowTypes /\ RegisterTypes /\ RestTypes
  BY TypeParts
<1>b. lock \in LockTables /\ RefreshedUnknown(lock) \in LockTables
  BY <1>0, RefreshedType DEF RowTypes
<1>1. ASSUME NEW r \in BOOLEAN, Tick(w, r) PROVE TypeOK'
  <2>1. RowTypes'
    BY <1>0, <1>b, <1>1 DEF Tick, RowTypes, opVars
  <2>2. RegisterTypes'
    <3>1. {o \in Due : Cardinality({p \in Due : p < o}) < Concurrency} \subseteq Ops
      BY DEF Due
    <3> HIDE DEF Due
    <3> QED BY <1>0, <1>1, <3>1 DEF Tick, RegisterTypes
  <2>3. RestTypes'
    BY <1>0, <1>1 DEF Tick, RestTypes, opVars, ghosts
  <2> QED BY <2>1, <2>2, <2>3, TypePartsPrimed
<1>2. ASSUME Start(w) PROVE TypeOK'
  <2>1. \A o \in Ops : Orphaned(o) => Recovered(o) \in States
    BY DEF Orphaned, Recovered, States, InProgress, DueStates
  <2>2. RowTypes'
    BY <1>0, <1>b, <1>2, <2>1 DEF Start, RowTypes
  <2>3. RegisterTypes' /\ RestTypes'
    BY <1>0, <1>2 DEF Start, RegisterTypes, RestTypes, ghosts
  <2> QED BY <2>2, <2>3, TypePartsPrimed
<1>3. ASSUME Stop(w) PROVE TypeOK'
  <2> DEFINE aborted == {o \in Ops : job[w][o] \in HandlerCall}
             left == [o \in Ops |-> IF o \in aborted THEN "none" ELSE job[w][o]]
  <2>1. lock' \in LockTables
    <3>1. 1 + Lease \in Nat
      BY BoundAssumption
    <3>2. lock' = [s \in Scopes |-> IF lock[s].op \in aborted
                      THEN [lock[s] EXCEPT !.ttl = 1 + Lease] ELSE lock[s]]
      BY <1>3 DEF Stop
    <3> QED BY <1>b, <3>1, <3>2 DEF LockTables, LockRows
  <2>2. RowTypes'
    BY <1>0, <1>3, <2>1 DEF Stop, RowTypes, States, InProgress, DueStates
  <2>3. RegisterTypes'
    <3>1. left \in [Ops -> HandlerCall \cup {"cancel", "none"}]
      BY <1>0 DEF RegisterTypes
    <3>2. job' = [job EXCEPT ![w] = left] /\ proc' = [proc EXCEPT ![w] = "stopping"]
          /\ UNCHANGED <<batch, pc, row>>
      BY <1>3 DEF Stop
    <3> HIDE DEF left
    <3> QED BY <1>0, <3>1, <3>2 DEF RegisterTypes
  <2>4. RestTypes'
    BY <1>0, <1>3 DEF Stop, RestTypes, ghosts
  <2> QED BY <2>2, <2>3, <2>4, TypePartsPrimed
<1>4. ASSUME Exit(w) PROVE TypeOK'
  <2>1. RowTypes' /\ RestTypes'
    BY <1>0, <1>4 DEF Exit, RowTypes, RestTypes, opVars, ghosts
  <2>2. RegisterTypes'
    BY <1>0, <1>4 DEF Exit, RegisterTypes
  <2> QED BY <2>1, <2>2, TypePartsPrimed
<1> QED BY <1>1, <1>2, <1>3, <1>4

LEMMA ElapseType ==
  ASSUME TypeOK, Elapse
  PROVE  TypeOK'
<1>0. RowTypes /\ RegisterTypes /\ RestTypes
  BY TypeParts
<1>1. \A t \in Nat : Earlier(t) \in Nat
  BY DEF Earlier
<1>2. lock' \in LockTables
  <2>1. lock' = [s \in Scopes |-> [lock[s] EXCEPT !.ttl = Earlier(@)]]
    BY DEF Elapse
  <2> HIDE DEF Earlier
  <2> QED BY <1>0, <1>1, <2>1 DEF RowTypes, LockTables, LockRows
<1>3. RowTypes'
  <2>1. /\ avail' = [o \in Ops |-> Earlier(avail[o])]
        /\ lease' = [o \in Ops |-> Earlier(lease[o])]
        /\ UNCHANGED <<state, attempt, owner>>
    BY DEF Elapse
  <2> QED BY <1>0, <1>1, <1>2, <2>1 DEF RowTypes
<1>4. RegisterTypes' /\ RestTypes'
  BY <1>0 DEF Elapse, RegisterTypes, RestTypes, procVars, ghosts
<1> QED BY <1>3, <1>4, TypePartsPrimed

LEMMA InitType == Init => TypeOK
<1> SUFFICES ASSUME Init PROVE TypeOK
  OBVIOUS
<1>1. RowTypes
  BY DEF Init, RowTypes, LockTables, LockRows, NoLock, States
<1>2. RegisterTypes
  BY DEF Init, RegisterTypes
<1>3. RestTypes
  BY DEF Init, RestTypes
<1> QED BY <1>1, <1>2, <1>3, TypeParts

LEMMA StepType == TypeOK /\ [Next]_vars => TypeOK'
<1> SUFFICES ASSUME TypeOK, [Next]_vars PROVE TypeOK'
  OBVIOUS
<1>1. CASE Elapse
  BY <1>1, ElapseType
<1>2. ASSUME NEW w \in Workers, WorkerStep(w) PROVE TypeOK'
  BY <1>2, RequestType, DispatchType, HandlerType, LifeType, Zenon DEF WorkerStep
<1>3. CASE UNCHANGED vars
  BY <1>3 DEF vars, opVars, procVars, ghosts, TypeOK
<1> QED BY <1>1, <1>2, <1>3 DEF Next

\* Whatever the number of operations, scopes, workers and replicas, every column
\* of the operation and lock tables and every register of a worker holds a value
\* of its domain; in particular a row read by a dispatch is not a finished one.
THEOREM TypeCorrect == Spec => []TypeOK
BY InitType, StepType, PTL DEF Spec

-----------------------------------------------------------------------------
(* No blind replay, for one process at a time (MaxUp = 1).                  *)
(*                                                                         *)
(* A row waits for an execution only while it has attempts left.  That      *)
(* alone is not inductive: a dispatch that cannot take its locks writes     *)
(* back the state it read.  It is harmless when nobody has touched the row  *)
(* since (FreshRow), which holds because no other process is up (OneUp) and *)
(* a dead one leaves no dispatch behind (NothingLeft).                      *)

Allowance(o) == IF o \in Idempotent THEN MaxAttempts[o] ELSE 1
Startable    == {"absent", "queued", "waiting_retry"}

OneUp       == \A v, w \in Workers : Live(v) /\ Live(w) => v = w
NothingLeft == \A w \in Workers : ~Live(w) => pc[w] = "idle" /\ batch[w] = {}
FreshRow    == \A w \in Workers :
                 pc[w] # "idle" => batch[w] # {} /\ row[w] = state[LeastOf(batch[w])]
Counted     == \A o \in Ops : execs[o] = attempt[o]
WithinAllowance ==
  \A o \in Ops : /\ attempt[o] <= Allowance(o)
                 /\ state[o] \in Startable => attempt[o] < Allowance(o)

Alone     == OneUp /\ NothingLeft
ReplayInv == TypeOK /\ Alone /\ FreshRow /\ Counted /\ WithinAllowance

\* Only the process that is up changes anything.
LEMMA AlonePreserved ==
  ASSUME MaxUp = 1, TypeOK, Alone, [Next]_vars
  PROVE  Alone'
<1>0. RegisterTypes
  BY TypeParts
<1>1. ASSUME UNCHANGED <<proc, pc, batch>> PROVE Alone'
  BY <1>1 DEF Alone, OneUp, NothingLeft, Live
<1>2. ASSUME NEW w \in Workers, Live(w), UNCHANGED proc,
             \A v \in Workers \ {w} : pc'[v] = pc[v] /\ batch'[v] = batch[v]
      PROVE  Alone'
  BY <1>2 DEF Alone, OneUp, NothingLeft, Live
<1>3. ASSUME NEW w \in Workers, NEW o \in Ops, Live(w), UNCHANGED proc,
             EndDispatch(w, o) \/ UNCHANGED <<pc, batch>>
      PROVE  Alone'
  BY <1>0, <1>2, <1>3 DEF EndDispatch, RegisterTypes
<1>4. ASSUME NEW w \in Workers, Request(w) PROVE Alone'
  BY <1>1, <1>4 DEF Request, Submit, RequestCancel, ResolveUnknown, SetPolicy, procVars
<1>5. ASSUME NEW w \in Workers, NEW r \in BOOLEAN, Tick(w, r) PROVE Alone'
  <2>1. Live(w) /\ UNCHANGED <<proc, pc>>
    BY <1>5 DEF Tick, Serves, LoopFree
  <2>2. \A v \in Workers \ {w} : batch'[v] = batch[v]
    BY <1>0, <1>5 DEF Tick, RegisterTypes
  <2> QED BY <1>2, <2>1, <2>2
<1>6. ASSUME NEW w \in Workers, Dispatch(w) PROVE Alone'
  <2>1. ASSUME NEW o \in Ops, ReadRow(w, o) PROVE Alone'
    <3>1. Live(w) /\ UNCHANGED proc
      BY <2>1 DEF ReadRow, Dispatching
    <3>2. EndDispatch(w, o) \/ (UNCHANGED batch /\ pc' = [pc EXCEPT ![w] = "lock"])
      BY <2>1, Zenon DEF ReadRow
    <3> QED BY <1>0, <1>2, <1>3, <3>1, <3>2 DEF RegisterTypes
  <2>2. ASSUME NEW o \in Ops, AcquireLocks(w, o) PROVE Alone'
    <3>1. Live(w) /\ UNCHANGED proc
      BY <2>2 DEF AcquireLocks, Dispatching
    <3>2. EndDispatch(w, o) \/ (UNCHANGED batch /\ pc' = [pc EXCEPT ![w] = "claim"])
      BY <2>2, Zenon DEF AcquireLocks
    <3> QED BY <1>0, <1>2, <1>3, <3>1, <3>2 DEF RegisterTypes
  <2>3. ASSUME NEW o \in Ops, \/ ClaimLost(w, o) \/ ClaimExecute(w, o)
                              \/ ClaimReconcile(w, o) \/ ClaimCancel(w, o)
        PROVE  Alone'
    <3>1. Live(w) /\ UNCHANGED proc /\ EndDispatch(w, o)
      BY <2>3 DEF ClaimLost, ClaimExecute, ClaimReconcile, ClaimCancel, Dispatching
    <3> QED BY <1>3, <3>1
  <2> QED BY <1>6, <2>1, <2>2, <2>3 DEF Dispatch
<1>7. ASSUME NEW w \in Workers, NEW o \in Ops,
             Heartbeat(w, o) \/ BindNativeTask(w, o) \/ HandlerEnds(w, o)
      PROVE  Alone'
  <2>1. UNCHANGED <<proc, pc, batch>>
    BY <1>7 DEF Heartbeat, BindNativeTask, HandlerEnds, HandlerReturns, HandlerThrows,
                HandlerTimesOut, CancelReturns, procVars
  <2> QED BY <1>1, <2>1
<1>8. ASSUME NEW w \in Workers, Start(w) PROVE Alone'
  <2> DEFINE up == {v \in Workers : Live(v)}
  <2>1. IsFiniteSet(up)
    BY FS_Subset, NumberedAssumption
  <2>2. Cardinality(up) = 0
    <3>1. Cardinality(up) < 1
      BY <1>8 DEF Start
    <3>2. Cardinality(up) \in Nat
      BY <2>1, FS_CardinalityType
    <3> QED BY <3>1, <3>2
  <2>3. \A v \in Workers : ~Live(v)
    BY <2>1, <2>2, FS_EmptySet
  <2>4. /\ UNCHANGED <<pc, batch>>
        /\ \A v \in Workers \ {w} : proc'[v] = proc[v]
    BY <1>0, <1>8 DEF Start, RegisterTypes
  <2> QED BY <2>3, <2>4 DEF Alone, OneUp, NothingLeft, Live
<1>9. ASSUME NEW w \in Workers, Stop(w) PROVE Alone'
  <2>1. /\ Live(w) /\ UNCHANGED <<pc, batch>>
        /\ proc'[w] = "stopping" /\ \A v \in Workers \ {w} : proc'[v] = proc[v]
    BY <1>0, <1>9 DEF Stop, Serves, LoopFree, RegisterTypes
  <2> QED BY <2>1 DEF Alone, OneUp, NothingLeft, Live
<1>10. ASSUME NEW w \in Workers, Exit(w) PROVE Alone'
  <2>1. \A v \in Workers \ {w} : UNCHANGED <<proc[v], pc[v], batch[v]>>
    BY <1>0, <1>10 DEF Exit, RegisterTypes
  <2>2. proc'[w] = "down" /\ pc'[w] = "idle" /\ batch'[w] = {}
    BY <1>0, <1>10 DEF Exit, RegisterTypes
  <2> QED BY <2>1, <2>2 DEF Alone, OneUp, NothingLeft, Live
<1>11. CASE Elapse
  BY <1>1, <1>11 DEF Elapse, procVars
<1>12. CASE UNCHANGED vars
  BY <1>1, <1>12 DEF vars, procVars
<1>13. ASSUME NEW w \in Workers, WorkerStep(w) PROVE Alone'
  BY <1>4, <1>5, <1>6, <1>7, <1>8, <1>9, <1>10, <1>13, Zenon DEF WorkerStep
<1> QED BY <1>11, <1>12, <1>13 DEF Next

\* While one process is up, no other one is in the middle of a dispatch.
LEMMA OthersIdle ==
  ASSUME Alone, NEW w \in Workers, Live(w)
  PROVE  \A v \in Workers \ {w} : pc[v] = "idle"
BY DEF Alone, OneUp, NothingLeft

\* A process that is not in a dispatch, or starts one by reading its row, keeps
\* the row it has read fresh.
LEMMA FreshPreserved ==
  ASSUME MaxUp = 1, TypeOK, Alone, FreshRow, [Next]_vars
  PROVE  FreshRow'
<1>0. RegisterTypes
  BY TypeParts
<1>1. ASSUME \A w \in Workers : pc'[w] = "idle" PROVE FreshRow'
  BY <1>1 DEF FreshRow
<1>2. ASSUME UNCHANGED <<state, pc, batch, row>> PROVE FreshRow'
  BY <1>2 DEF FreshRow
<1>3. ASSUME NEW w \in Workers, LoopFree(w), UNCHANGED pc PROVE FreshRow'
  BY <1>1, <1>3, OthersIdle DEF LoopFree
<1>4. ASSUME NEW w \in Workers, NEW o \in Ops, Live(w), EndDispatch(w, o)
      PROVE  FreshRow'
  BY <1>0, <1>1, <1>4, OthersIdle DEF EndDispatch, RegisterTypes
<1>5. ASSUME NEW w \in Workers, Request(w) PROVE FreshRow'
  BY <1>3, <1>5
     DEF Request, Submit, RequestCancel, ResolveUnknown, SetPolicy, procVars, Serves
<1>6. ASSUME NEW w \in Workers, Dispatch(w) PROVE FreshRow'
  <2>1. ASSUME NEW o \in Ops, ReadRow(w, o) PROVE FreshRow'
    <3>1. Live(w) /\ batch[w] # {} /\ o = LeastOf(batch[w])
      BY <2>1 DEF ReadRow, Dispatching
    <3>2. CASE EndDispatch(w, o)
      BY <1>4, <3>1, <3>2
    <3>3. CASE /\ pc' = [pc EXCEPT ![w] = "lock"]
               /\ row' = [row EXCEPT ![w] = state[o]]
               /\ UNCHANGED <<opVars, batch>>
      BY <1>0, <3>1, <3>3, OthersIdle DEF opVars, FreshRow, RegisterTypes
    <3>4. \/ EndDispatch(w, o)
          \/ /\ pc' = [pc EXCEPT ![w] = "lock"] /\ row' = [row EXCEPT ![w] = state[o]]
             /\ UNCHANGED <<opVars, batch>>
      BY <2>1, Zenon DEF ReadRow
    <3> QED BY <3>2, <3>3, <3>4
  <2>2. ASSUME NEW o \in Ops, AcquireLocks(w, o) PROVE FreshRow'
    <3>1. Live(w) /\ pc[w] = "lock"
      BY <2>2 DEF AcquireLocks, Dispatching
    <3>2. CASE EndDispatch(w, o)
      BY <1>4, <3>1, <3>2
    <3>3. CASE pc' = [pc EXCEPT ![w] = "claim"] /\ UNCHANGED <<opVars, batch, row>>
      BY <1>0, <3>1, <3>3, OthersIdle DEF opVars, FreshRow, RegisterTypes
    <3>4. \/ EndDispatch(w, o)
          \/ pc' = [pc EXCEPT ![w] = "claim"] /\ UNCHANGED <<opVars, batch, row>>
      BY <2>2, Zenon DEF AcquireLocks
    <3> QED BY <3>2, <3>3, <3>4
  <2>3. ASSUME NEW o \in Ops, \/ ClaimLost(w, o) \/ ClaimExecute(w, o)
                              \/ ClaimReconcile(w, o) \/ ClaimCancel(w, o)
        PROVE  FreshRow'
    <3>1. Live(w) /\ EndDispatch(w, o)
      BY <2>3 DEF ClaimLost, ClaimExecute, ClaimReconcile, ClaimCancel, Dispatching
    <3> QED BY <1>4, <3>1
  <2> QED BY <1>6, <2>1, <2>2, <2>3 DEF Dispatch
<1>7. ASSUME NEW w \in Workers, NEW o \in Ops,
             Heartbeat(w, o) \/ BindNativeTask(w, o) \/ HandlerEnds(w, o)
      PROVE  FreshRow'
  <2>1. LoopFree(w) /\ UNCHANGED pc
    BY <1>7 DEF Heartbeat, BindNativeTask, HandlerEnds, HandlerReturns, HandlerThrows,
                HandlerTimesOut, CancelReturns, procVars, Calls, Awaits
  <2> QED BY <1>3, <2>1
<1>8. ASSUME NEW w \in Workers, (\E r \in BOOLEAN : Tick(w, r)) \/ Stop(w)
      PROVE  FreshRow'
  BY <1>3, <1>8 DEF Tick, Stop, Serves
<1>9. ASSUME NEW w \in Workers, Start(w) PROVE FreshRow'
  <2> DEFINE up == {v \in Workers : Live(v)}
  <2>1. IsFiniteSet(up)
    BY FS_Subset, NumberedAssumption
  <2>2. Cardinality(up) < 1
    BY <1>9 DEF Start
  <2>3. up = {}
    BY <2>1, <2>2, FS_EmptySet, FS_CardinalityType
  <2> QED BY <1>1, <1>9, <2>3 DEF Start, Alone, NothingLeft
<1>10. ASSUME NEW w \in Workers, Exit(w) PROVE FreshRow'
  <2>1. \A v \in Workers : pc'[v] = "idle"
    BY <1>0, <1>10, OthersIdle DEF Exit, RegisterTypes
  <2> QED BY <1>1, <2>1
<1>11. CASE Elapse
  BY <1>2, <1>11 DEF Elapse, procVars
<1>12. CASE UNCHANGED vars
  BY <1>2, <1>12 DEF vars, procVars, opVars
<1>13. ASSUME NEW w \in Workers, WorkerStep(w) PROVE FreshRow'
  BY <1>5, <1>6, <1>7, <1>8, <1>9, <1>10, <1>13, Zenon DEF WorkerStep
<1> QED BY <1>11, <1>12, <1>13 DEF Next

LEMMA AllowanceType == \A o \in Ops : Allowance(o) \in Nat \ {0}
BY HandlerAssumption DEF Allowance

\* A step that counts no execution and makes no row startable that was not,
\* except after a check that attempts are left.
LEMMA KeepsAllowance ==
  ASSUME WithinAllowance, UNCHANGED attempt,
         \A p \in Ops : \/ state'[p] = state[p] \/ state'[p] \notin Startable
                        \/ state[p] \in Startable \/ attempt[p] < Allowance(p)
  PROVE  WithinAllowance'
<1>1. \A o \in Ops : Allowance(o)' = Allowance(o)
  BY DEF Allowance
<1> QED BY <1>1 DEF WithinAllowance

LEMMA FinishAllowance ==
  ASSUME TypeOK, WithinAllowance, NEW o \in Ops, NEW r \in Terminal, NEW ls,
         Finish(o, r, ls)
  PROVE  WithinAllowance'
<1>1. state' = [state EXCEPT ![o] = r] /\ UNCHANGED attempt
  BY DEF Finish
<1>2. r \notin Startable
  BY DEF Terminal, Releasing, Startable
<1> QED BY <1>1, <1>2, KeepsAllowance DEF TypeOK

LEMMA ScheduleAllowance ==
  ASSUME TypeOK, WithinAllowance, NEW o \in Ops, NEW st, NEW d, NEW ls,
         Schedule(o, st, d, ls),
         st \in Startable => st = state[o] \/ attempt[o] < Allowance(o)
  PROVE  WithinAllowance'
<1>1. state' = [state EXCEPT ![o] = st] /\ UNCHANGED attempt
  BY DEF Schedule
<1> QED BY <1>1, KeepsAllowance DEF TypeOK

\* A claim leaves the row in progress.
LEMMA ClaimAllowance ==
  ASSUME TypeOK, WithinAllowance, NEW w \in Workers, NEW o \in Ops,
         NEW st \in {"reconciling", "cancel_requested"}, ClaimRow(w, o, st),
         UNCHANGED attempt
  PROVE  WithinAllowance'
BY KeepsAllowance DEF ClaimRow, TypeOK, Startable

LEMMA AllowancePreserved ==
  ASSUME ReplayInv, [Next]_vars
  PROVE  WithinAllowance'
<1>0. TypeOK /\ WithinAllowance /\ FreshRow
  BY DEF ReplayInv
<1>1. ASSUME UNCHANGED <<state, attempt>> PROVE WithinAllowance'
  BY <1>0, <1>1, KeepsAllowance
<1>2. ASSUME NEW w \in Workers, Request(w) PROVE WithinAllowance'
  <2>1. ASSUME NEW o \in Ops, Submit(w, o) PROVE WithinAllowance'
    <3>1. /\ state[o] = "absent" /\ state' = [state EXCEPT ![o] = "queued"]
          /\ UNCHANGED attempt
      BY <2>1 DEF Submit
    <3> QED BY <1>0, <3>1, KeepsAllowance DEF Startable, TypeOK
  <2>2. ASSUME NEW o \in Ops, RequestCancel(w, o) PROVE WithinAllowance'
    <3>1. CASE job[w][o] \in HandlerCall /\ CancelEntry(o) \in Terminal
      BY <1>0, <2>2, <3>1, FinishAllowance DEF RequestCancel
    <3>2. CASE ~(job[w][o] \in HandlerCall /\ CancelEntry(o) \in Terminal)
      BY <1>0, <2>2, <3>2, KeepsAllowance DEF RequestCancel, TypeOK, Startable
    <3> QED BY <3>1, <3>2
  <2>3. ASSUME NEW o \in Ops, NEW r \in Releasing, ResolveUnknown(w, o, r)
        PROVE  WithinAllowance'
    BY <1>0, <2>3, KeepsAllowance DEF ResolveUnknown, TypeOK, Startable, Releasing
  <2>4. ASSUME NEW m \in Modes, SetPolicy(w, m) PROVE WithinAllowance'
    <3>1. \A o \in Ops : StoppedState(w, o) = state[o] \/ StoppedState(w, o) \notin Startable
      BY CancelEntryType DEF StoppedState, Startable
    <3>2. CASE m # "emergency_stop"
      BY <1>1, <2>4, <3>2 DEF SetPolicy
    <3>3. CASE m = "emergency_stop"
      <4>1. state' = [o \in Ops |-> StoppedState(w, o)] /\ UNCHANGED attempt
        BY <2>4, <3>3 DEF SetPolicy
      <4> QED BY <1>0, <3>1, <4>1, KeepsAllowance
    <3> QED BY <3>2, <3>3
  <2> QED BY <1>2, <2>1, <2>2, <2>3, <2>4 DEF Request
<1>3. ASSUME NEW w \in Workers, Dispatch(w) PROVE WithinAllowance'
  <2>1. ASSUME NEW o \in Ops, ReadRow(w, o) PROVE WithinAllowance'
    <3>1. \/ UNCHANGED opVars
          \/ Schedule(o, IF state[o] = "cancel_requested" THEN "cancel_requested"
                                                           ELSE "reconciling", 1, lock)
          \/ Finish(o, "cancelled", lock)
          \/ \E d \in Delays : Schedule(o, state[o], d, lock)
      BY <2>1, Zenon DEF ReadRow
    <3>2. CASE UNCHANGED opVars
      BY <1>1, <3>2 DEF opVars
    <3>3. CASE Schedule(o, IF state[o] = "cancel_requested" THEN "cancel_requested"
                                                             ELSE "reconciling", 1, lock)
      BY <1>0, <3>3, ScheduleAllowance DEF Startable
    <3>4. CASE Finish(o, "cancelled", lock)
      BY <1>0, <3>4, FinishAllowance DEF Terminal, Releasing
    <3>5. CASE \E d \in Delays : Schedule(o, state[o], d, lock)
      BY <1>0, <3>5, ScheduleAllowance
    <3> QED BY <3>1, <3>2, <3>3, <3>4, <3>5
  <2>2. ASSUME NEW o \in Ops, AcquireLocks(w, o) PROVE WithinAllowance'
    <3>1. row[w] = state[o]
      BY <1>0, <2>2 DEF AcquireLocks, Dispatching, FreshRow
    <3>2. UNCHANGED opVars \/ Schedule(o, row[w], 1, Unexpired(lock))
      BY <2>2, Zenon DEF AcquireLocks
    <3>3. CASE UNCHANGED opVars
      BY <1>1, <3>3 DEF opVars
    <3>4. CASE Schedule(o, row[w], 1, Unexpired(lock))
      BY <1>0, <3>1, <3>4, ScheduleAllowance
    <3> QED BY <3>2, <3>3, <3>4
  <2>3. ASSUME NEW o \in Ops, ClaimLost(w, o) PROVE WithinAllowance'
    BY <1>1, <2>3 DEF ClaimLost, opVars
  <2>4. ASSUME NEW o \in Ops, ClaimExecute(w, o) PROVE WithinAllowance'
    <3>1. state[o] \in Startable
      BY <2>4 DEF ClaimExecute, Startable
    <3>2. attempt[o] < Allowance(o)
      BY <1>0, <3>1 DEF WithinAllowance
    <3>3. /\ state' = [state EXCEPT ![o] = "running"]
          /\ attempt' = [attempt EXCEPT ![o] = @ + 1]
      BY <2>4 DEF ClaimExecute, ClaimRow
    <3>4. \A p \in Ops : Allowance(p)' = Allowance(p)
      BY DEF Allowance
    <3> QED BY <1>0, <3>2, <3>3, <3>4, AllowanceType
            DEF WithinAllowance, TypeOK, Startable
  <2>5. ASSUME NEW o \in Ops, ClaimReconcile(w, o) PROVE WithinAllowance'
    BY <1>0, <2>5, ClaimAllowance, FinishAllowance DEF ClaimReconcile, Terminal
  <2>6. ASSUME NEW o \in Ops, ClaimCancel(w, o) PROVE WithinAllowance'
    <3>1. CASE CancelEntry(o) = "cancel_requested"
      BY <1>0, <2>6, <3>1, ClaimAllowance DEF ClaimCancel
    <3>2. CASE CancelEntry(o) # "cancel_requested"
      <4>1. CancelEntry(o) \in Terminal
        BY <3>2, CancelEntryType DEF Terminal, Releasing
      <4> QED BY <1>0, <2>6, <3>2, <4>1, FinishAllowance DEF ClaimCancel
    <3> QED BY <3>1, <3>2
  <2> QED BY <1>3, <2>1, <2>2, <2>3, <2>4, <2>5, <2>6 DEF Dispatch
<1>4. ASSUME NEW w \in Workers, NEW o \in Ops, Heartbeat(w, o) \/ BindNativeTask(w, o)
      PROVE  WithinAllowance'
  BY <1>1, <1>4 DEF Heartbeat, BindNativeTask
<1>5. ASSUME NEW w \in Workers, NEW o \in Ops, HandlerEnds(w, o) PROVE WithinAllowance'
  <2>1. \/ \E r \in Terminal : Finish(o, r, lock)
        \/ \E d : Schedule(o, "reconciling", d, lock)
        \/ CanRetry(o) /\ \E d : Schedule(o, "waiting_retry", d, lock)
    <3>1. "failed" \in Terminal /\ "unknown" \in Terminal /\ "cancelled" \in Terminal
      BY DEF Terminal, Releasing
    <3>2. ASSUME NEW r \in Terminal \cup {"reconciling"}, HandlerReturns(w, o, r)
          PROVE  \/ \E q \in Terminal : Finish(o, q, lock)
                 \/ \E d : Schedule(o, "reconciling", d, lock)
      BY <3>2, Zenon DEF HandlerReturns
    <3>3. ASSUME NEW t \in BOOLEAN, HandlerThrows(w, o, t)
          PROVE  \/ Finish(o, "failed", lock)
                 \/ Schedule(o, "reconciling", 1, lock)
                 \/ CanRetry(o) /\ \E d : Schedule(o, "waiting_retry", d, lock)
      BY <3>3, Zenon DEF HandlerThrows
    <3>4. ASSUME HandlerTimesOut(w, o)
          PROVE  Schedule(o, "reconciling", 1, lock) \/ Finish(o, "unknown", lock)
      BY <3>4, Zenon DEF HandlerTimesOut
    <3>5. ASSUME NEW ok \in BOOLEAN, CancelReturns(w, o, ok)
          PROVE  \E q \in Terminal : Finish(o, q, lock)
      <4>1. Finish(o, IF ok THEN "cancelled" ELSE "unknown", lock)
        BY <3>5 DEF CancelReturns
      <4>2. (IF ok THEN "cancelled" ELSE "unknown") \in Terminal
        BY <3>1
      <4> QED BY <4>1, <4>2
    <3> QED BY <1>5, <3>1, <3>2, <3>3, <3>4, <3>5, Zenon DEF HandlerEnds
  <2>2. ASSUME CanRetry(o) PROVE attempt[o] < Allowance(o)
    BY <2>2 DEF CanRetry, Allowance
  <2>3. "reconciling" \notin Startable
    BY DEF Startable
  <2> QED BY <1>0, <2>1, <2>2, <2>3, FinishAllowance, ScheduleAllowance
<1>6. ASSUME NEW w \in Workers, \/ \E r \in BOOLEAN : Tick(w, r)
                                \/ Exit(w)
      PROVE  WithinAllowance'
  BY <1>1, <1>6 DEF Tick, Exit, opVars
<1>7. ASSUME NEW w \in Workers, Start(w) PROVE WithinAllowance'
  BY <1>0, <1>7, KeepsAllowance DEF Start, Orphaned, Recovered, Startable
<1>8. ASSUME NEW w \in Workers, Stop(w) PROVE WithinAllowance'
  BY <1>0, <1>8, KeepsAllowance DEF Stop, Startable
<1>9. ASSUME NEW w \in Workers, WorkerStep(w) PROVE WithinAllowance'
  BY <1>2, <1>3, <1>4, <1>5, <1>6, <1>7, <1>8, <1>9, Zenon DEF WorkerStep
<1>10. CASE Elapse
  BY <1>1, <1>10 DEF Elapse
<1>11. CASE UNCHANGED vars
  BY <1>1, <1>11 DEF vars, opVars
<1> QED BY <1>9, <1>10, <1>11 DEF Next

\* Every attempt is an execution and every execution an attempt.
LEMMA CountedPreserved ==
  ASSUME TypeOK, Counted, [Next]_vars
  PROVE  Counted'
<1>1. ASSUME UNCHANGED <<attempt, execs>> PROVE Counted'
  BY <1>1 DEF Counted
<1>2. ASSUME NEW w \in Workers, Request(w) PROVE Counted'
  BY <1>1, <1>2
     DEF Request, Submit, RequestCancel, ResolveUnknown, SetPolicy, ghosts, Finish
<1>3. ASSUME NEW w \in Workers, NEW o \in Ops, ClaimExecute(w, o) PROVE Counted'
  <2>1. /\ attempt' = [attempt EXCEPT ![o] = @ + 1]
        /\ execs' = [execs EXCEPT ![o] = @ + 1]
    BY <1>3 DEF ClaimExecute
  <2> QED BY <2>1 DEF Counted, TypeOK
<1>4. ASSUME NEW w \in Workers, Dispatch(w) PROVE Counted'
  <2>1. ASSUME NEW o \in Ops, \/ ReadRow(w, o) \/ AcquireLocks(w, o) \/ ClaimLost(w, o)
                              \/ ClaimReconcile(w, o) \/ ClaimCancel(w, o)
        PROVE  Counted'
    BY <1>1, <2>1 DEF ReadRow, AcquireLocks, ClaimLost, ClaimReconcile, ClaimCancel,
                      Finish, Schedule, ghosts, opVars
  <2> QED BY <1>3, <1>4, <2>1 DEF Dispatch
<1>5. ASSUME NEW w \in Workers, NEW o \in Ops,
             Heartbeat(w, o) \/ BindNativeTask(w, o) \/ HandlerEnds(w, o)
      PROVE  Counted'
  BY <1>1, <1>5 DEF Heartbeat, BindNativeTask, HandlerEnds, HandlerReturns,
                    HandlerThrows, HandlerTimesOut, CancelReturns, Finish, Schedule, ghosts
<1>6. ASSUME NEW w \in Workers, \/ \E r \in BOOLEAN : Tick(w, r)
                                \/ Start(w) \/ Stop(w) \/ Exit(w)
      PROVE  Counted'
  BY <1>1, <1>6 DEF Tick, Start, Stop, Exit, opVars, ghosts
<1>7. ASSUME NEW w \in Workers, WorkerStep(w) PROVE Counted'
  BY <1>2, <1>4, <1>5, <1>6, <1>7, Zenon DEF WorkerStep
<1>8. CASE Elapse
  BY <1>1, <1>8 DEF Elapse, ghosts
<1>9. CASE UNCHANGED vars
  BY <1>1, <1>9 DEF vars, opVars, ghosts
<1> QED BY <1>7, <1>8, <1>9 DEF Next

LEMMA ReplayInvInit == Init => ReplayInv
<1> SUFFICES ASSUME Init PROVE ReplayInv
  OBVIOUS
<1>1. TypeOK
  BY InitType
<1>2. Alone /\ FreshRow
  BY DEF Init, Alone, OneUp, NothingLeft, Live, FreshRow
<1>3. Counted
  BY DEF Init, Counted
<1>4. WithinAllowance
  BY AllowanceType DEF Init, WithinAllowance
<1> QED BY <1>1, <1>2, <1>3, <1>4 DEF ReplayInv

LEMMA ReplayInvStep ==
  ASSUME MaxUp = 1
  PROVE  ReplayInv /\ [Next]_vars => ReplayInv'
BY StepType, AlonePreserved, FreshPreserved, CountedPreserved, AllowancePreserved
   DEF ReplayInv

LEMMA ReplayInvImplies == ReplayInv => NoBlindReplay
BY DEF ReplayInv, Counted, WithinAllowance, NoBlindReplay, Allowance, TypeOK

\* While at most one process serves the database, and however many times it is
\* stopped, killed and restarted, the mutation of a handler that is not idempotent
\* is executed at most once and that of an idempotent one at most max_attempts
\* times.  (With two replicas it is not so: run replica_replay.)
THEOREM NeverReplaysBlindly == MaxUp = 1 => (Spec => []NoBlindReplay)
<1>1. SUFFICES ASSUME MaxUp = 1 PROVE Spec => []NoBlindReplay
  OBVIOUS
<1>2. ReplayInv /\ [Next]_vars => ReplayInv'
  BY <1>1, ReplayInvStep
<1> QED BY <1>2, ReplayInvInit, ReplayInvImplies, PTL DEF Spec

(***************************************************************************)
(* One process at a time keeps the contract of the engine: the lock        *)
(* invariants of ProviderOperations and its refinement of                  *)
(* OperationContract.                                                      *)
(***************************************************************************)
(* One process at a time, whose timers are never late, and whose later      *)
(* incarnations may have lost handlers but have won none.                   *)
Downgrades == \A v, w \in Workers : v < w => Handled[w] \subseteq Handled[v]
Standalone == MaxUp = 1 /\ Punctual /\ Downgrades

Holds(w, o) ==
  \A s \in ScopesOf[o] : lock[s].op = o /\ lock[s].owner = w /\ lock[s].ttl > 0
Target(w)   == LeastOf(batch[w])
SomeoneUp   == \E w \in Workers : proc[w] = "up"

(* No process that is or will be up has a handler for o.                    *)
Abandoned(o) == \A w \in Workers : proc[w] # "down" => o \notin Handled[w]

(* What the columns of an operation say about its executions.               *)
Recorded(o) ==
  /\ state[o] = "absent" => attempt[o] = 0
  /\ o \in native \/ state[o] = "running" => attempt[o] > 0
  /\ state[o] = "reconciling" => attempt[o] > 0 \/ Abandoned(o)
  /\ state[o] = "cancelled" => attempt[o] = 0 \/ o \in confirmed
  /\ policy = "emergency_stop" /\ Open(o) => state[o] = "cancel_requested"

(* A running call is of the state its operation is in, and holds its locks. *)
Working(w, o) ==
  /\ Live(w) /\ attempt[o] > 0 /\ o \notin batch[w] /\ Holds(w, o)
  /\ job[w][o] = "execute" => state[o] = "running"
  /\ job[w][o] = "reconcile" => state[o] = "reconciling"
  /\ job[w][o] = "cancel" => state[o] = "cancel_requested"

(* A dispatch is of a row that exists, with a handler, and claims it under  *)
(* its locks.                                                               *)
Launched(w) ==
  /\ batch[w] # {} => proc[w] = "up"
  /\ \A o \in batch[w] : state[o] # "absent"
  /\ pc[w] # "idle" => Target(w) \in Handled[w]
  /\ pc[w] = "claim" => Holds(w, Target(w))

(* An unknown operation keeps its scopes, unexpired while somebody is up.   *)
Guarded(o) ==
  state[o] = "unknown" =>
    \A s \in ScopesOf[o] : lock[s].op = o /\ (SomeoneUp => lock[s].ttl > 0)

InOrder == \A v, w \in Workers : proc[v] # "new" /\ proc[w] = "new" => v < w

LockInv ==
  /\ InOrder /\ \A w \in Workers : Launched(w)
  /\ \A o \in Ops : Recorded(o) /\ Guarded(o)
  /\ \A w \in Workers, o \in Ops : job[w][o] # "none" => Working(w, o)

-----------------------------------------------------------------------------
(* What the statements on the lock table leave to an operation.             *)

(* The locks of p stay its own and do not expire; before an expiry is acted *)
(* on, somebody is up, and the locks in question have not expired.          *)
Kept(p) ==
  \A s \in ScopesOf[p] :
    lock[s].op = p /\ (SomeoneUp => lock[s].ttl > 0) =>
      /\ lock'[s].op = p /\ lock'[s].owner = lock[s].owner
      /\ lock[s].ttl > 0 => lock'[s].ttl > 0

LEMMA ScopeTypes ==
  ASSUME TypeOK
  PROVE  /\ lock \in LockTables
         /\ \A p \in Ops : ScopesOf[p] \subseteq Scopes /\ p # NoOp
         /\ \A s \in Scopes : lock[s] \in LockRows /\ lock[s].ttl \in Nat
BY NumberedAssumption, HandlerAssumption DEF TypeOK, LockTables, LockRows, NoOp

LEMMA FinishKeeps ==
  ASSUME TypeOK, NEW o \in Ops, NEW r, Finish(o, r, lock)
  PROVE  /\ \A p \in Ops \ {o} : Kept(p)
         /\ r \notin Releasing =>
              \A s \in ScopesOf[o] : lock[s].op = o => lock'[s].op = o /\ lock'[s].ttl > 0
<1> USE ScopeTypes, BoundAssumption DEF LockTables, LockRows
<1>1. CASE r \in Releasing
  <2>1. lock' = Released(lock, o) BY <1>1 DEF Finish, FinishLocks
  <2> QED BY <1>1, <2>1 DEF Released, Kept
<1>2. CASE r \notin Releasing
  <2>1. lock' = Extended(lock, o, UnknownTtl) BY <1>2 DEF Finish, FinishLocks
  <2> QED BY <2>1 DEF Extended, Kept
<1> QED BY <1>1, <1>2

LEMMA ScheduleKeeps ==
  ASSUME TypeOK, NEW o \in Ops, NEW st, NEW d \in Nat, Schedule(o, st, d, lock)
  PROVE  \A p \in Ops : Kept(p)
<1>1. lock' = Extended(lock, o, d + Lease) BY DEF Schedule
<1>2. d + Lease > 0 /\ d + Lease \in Nat BY BoundAssumption
<1>3. ASSUME NEW s \in Scopes
      PROVE  lock'[s].op = lock[s].op /\ lock'[s].owner = lock[s].owner
             /\ (lock[s].ttl > 0 => lock'[s].ttl > 0)
  BY <1>1, <1>2, ScopeTypes DEF LockRows, Extended
<1> QED BY <1>3, ScopeTypes DEF Kept

LEMMA RenewedKeeps ==
  ASSUME TypeOK, NEW w \in Workers, NEW o \in Ops, lock' = Renewed(lock, w, o)
  PROVE  \A p \in Ops : Kept(p)
BY ScopeTypes, BoundAssumption DEF LockTables, LockRows, Renewed, Kept

LEMMA RefreshedKeeps ==
  ASSUME TypeOK, lock' = RefreshedUnknown(lock)
  PROVE  /\ \A p \in Ops : Kept(p)
         /\ \A p \in Ops : \A s \in ScopesOf[p] :
              state[p] = "unknown" /\ lock[s].op = p => lock'[s].op = p /\ lock'[s].ttl > 0
<1> DEFINE holders(s) == {o \in Ops : state[o] = "unknown" /\ s \in ScopesOf[o]}
<1>1. ASSUME NEW s \in Scopes, lock[s].op \in Ops
      PROVE  lock'[s] = IF lock[s].op \in holders(s)
                        THEN [lock[s] EXCEPT !.ttl = UnknownTtl] ELSE lock[s]
  BY <1>1, ScopeTypes DEF RefreshedUnknown
<1>2. UnknownTtl > 0 BY BoundAssumption
<1>3. ASSUME NEW p \in Ops, NEW s \in ScopesOf[p], lock[s].op = p
      PROVE  /\ lock'[s].op = p /\ lock'[s].owner = lock[s].owner
             /\ lock[s].ttl > 0 => lock'[s].ttl > 0
             /\ state[p] = "unknown" => lock'[s].ttl > 0
  <2>1. s \in Scopes /\ lock[s] \in LockRows BY ScopeTypes
  <2>2. lock'[s] = IF state[p] = "unknown" THEN [lock[s] EXCEPT !.ttl = UnknownTtl] ELSE lock[s]
    BY <1>1, <1>3, <2>1
  <2> HIDE DEF holders
  <2> QED BY <1>2, <1>3, <2>1, <2>2 DEF LockRows
<1> QED BY <1>3 DEF Kept

LEMMA PutBackKeeps ==
  ASSUME TypeOK, SomeoneUp, NEW o \in Ops, NEW st, NEW d \in Nat,
         Schedule(o, st, d, Unexpired(lock))
  PROVE  \A p \in Ops : Kept(p)
<1>1. lock' = Extended(Unexpired(lock), o, d + Lease) BY DEF Schedule
<1>2. \A s \in Scopes : lock[s].ttl > 0 => Unexpired(lock)[s] = lock[s]
  BY ScopeTypes DEF Unexpired
<1>3. \A s \in Scopes : lock[s].ttl > 0 =>
        lock'[s] = IF lock[s].op = o THEN [lock[s] EXCEPT !.ttl = d + Lease] ELSE lock[s]
  BY <1>1, <1>2 DEF Extended
<1>4. d + Lease > 0 /\ d + Lease \in Nat BY BoundAssumption
<1>5. ASSUME NEW s \in Scopes, lock[s].ttl > 0
      PROVE  lock'[s].op = lock[s].op /\ lock'[s].owner = lock[s].owner /\ lock'[s].ttl > 0
  BY <1>3, <1>4, <1>5, ScopeTypes DEF LockRows
<1> QED BY <1>5, ScopeTypes DEF Kept

LEMMA AcquiredKeeps ==
  ASSUME TypeOK, SomeoneUp, NEW w \in Workers, NEW o \in Ops,
         CanAcquire(Unexpired(lock), w, o), lock' = Acquired(Unexpired(lock), w, o)
  PROVE  Holds(w, o)' /\ \A p \in Ops \ {o} : Kept(p)
<1>1. \A s \in Scopes : lock[s].ttl > 0 => Unexpired(lock)[s] = lock[s]
  BY ScopeTypes DEF Unexpired
<1>2. \A s \in Scopes : lock'[s] = IF s \in ScopesOf[o]
          THEN [op |-> o, owner |-> w, ttl |-> Lease] ELSE Unexpired(lock)[s]
  BY DEF Acquired
<1>3. Holds(w, o)'
  BY <1>2, ScopeTypes, BoundAssumption DEF Holds
<1>4. ASSUME NEW p \in Ops \ {o}, NEW s \in ScopesOf[p], lock[s].op = p, lock[s].ttl > 0
      PROVE  lock'[s] = lock[s]
  <2>1. s \in Scopes /\ Unexpired(lock)[s] = lock[s] BY <1>1, <1>4, ScopeTypes
  <2>2. s \notin ScopesOf[o] BY <1>4, <2>1, ScopeTypes DEF CanAcquire
  <2> QED BY <1>2, <2>1, <2>2
<1> QED BY <1>3, <1>4 DEF Kept

-----------------------------------------------------------------------------
(* What a step leaves alone.                                                *)

Untouched(p) ==
  /\ state'[p] = state[p] /\ attempt'[p] = attempt[p]
  /\ p \in native' => p \in native
  /\ p \in confirmed => p \in confirmed'
  /\ Kept(p)

LEMMA UntouchedStays ==
  ASSUME NEW p \in Ops, Untouched(p), Recorded(p), Guarded(p), UNCHANGED <<policy, proc>>
  PROVE  Recorded(p)' /\ Guarded(p)'
<1>1. Recorded(p)' BY DEF Untouched, Recorded, Open, Abandoned
<1>2. Guarded(p)' BY DEF Untouched, Guarded, Kept, SomeoneUp
<1> QED BY <1>1, <1>2

LEMMA WorkingStays ==
  ASSUME TypeOK, NEW v \in Workers, NEW p \in Ops, Untouched(p), Working(v, p),
         UNCHANGED proc, job'[v][p] = job[v][p], batch'[v] \subseteq batch[v]
  PROVE  Working(v, p)'
<1>1. Holds(v, p)' BY DEF Working, Untouched, Holds, Kept
<1> QED BY <1>1 DEF Working, Untouched, Live

(* Nothing is being dispatched.                                             *)
LEMMA StaysFree ==
  ASSUME Alone, NEW w \in Workers, LoopFree(w), UNCHANGED <<pc, batch>>
  PROVE  \A v \in Workers : Launched(v)' /\ batch'[v] = {}
BY DEF Alone, OneUp, NothingLeft, LoopFree, Launched

LEMMA StaysLaunched ==
  ASSUME TypeOK, Alone, NEW w \in Workers, NEW o \in Ops, Live(w), Launched(w),
         EndDispatch(w, o), UNCHANGED proc,
         \A p \in Ops : state[p] # "absent" => state'[p] # "absent"
  PROVE  \A v \in Workers : Launched(v)' /\ batch'[v] \subseteq batch[v] \ {o}
<1>1. /\ pc'[w] = "idle" /\ batch'[w] = batch[w] \ {o}
      /\ \A v \in Workers \ {w} : pc'[v] = pc[v] /\ batch'[v] = batch[v]
  BY DEF EndDispatch, TypeOK
<1>2. \A v \in Workers \ {w} : pc[v] = "idle" /\ batch[v] = {}
  BY DEF Alone, OneUp, NothingLeft
<1>3. ASSUME NEW v \in Workers \ {w} PROVE Launched(v)' /\ batch'[v] \subseteq batch[v] \ {o}
  BY <1>1, <1>2 DEF Launched
<1>4. Launched(w)' BY <1>1 DEF Launched, TypeOK
<1> QED BY <1>1, <1>3, <1>4

(* A step of w that touches only the operation o.                           *)
LEMMA OneOperation ==
  ASSUME TypeOK, Alone, LockInv, NEW w \in Workers, NEW o \in Ops, Live(w),
         UNCHANGED <<policy, proc>>,
         \A p \in Ops \ {o} : Untouched(p) /\ job'[w][p] = job[w][p],
         \A v \in Workers \ {w} : job'[v] = job[v],
         \A v \in Workers : Launched(v)' /\ batch'[v] \subseteq batch[v],
         Recorded(o)', Guarded(o)', job'[w][o] # "none" => Working(w, o)'
  PROVE  LockInv'
<1>1. InOrder' BY DEF LockInv, InOrder
<1>2. \A p \in Ops : Recorded(p)' /\ Guarded(p)'
  BY UntouchedStays DEF LockInv
<1>3. ASSUME NEW v \in Workers, NEW p \in Ops, job'[v][p] # "none" PROVE Working(v, p)'
  <2>1. CASE v = w /\ p = o BY <1>3, <2>1
  <2>2. CASE v = w /\ p # o BY <1>3, <2>2, WorkingStays DEF LockInv
  <2>3. CASE v # w
    <3>1. job[v][p] # "none" BY <1>3, <2>3
    <3>2. Live(v) BY <3>1 DEF LockInv, Working
    <3> QED BY <2>3, <3>2 DEF Alone, OneUp
  <2> QED BY <2>1, <2>2, <2>3
<1> QED BY <1>1, <1>2, <1>3 DEF LockInv

(* What every step of w about the operation o alone has in common.          *)
Only(w, o) ==
  /\ Live(w) /\ UNCHANGED <<policy, proc>>
  /\ \A v \in Workers \ {w} : job'[v] = job[v]
  /\ \A p \in Ops \ {o} : job'[w][p] = job[w][p]
  /\ \A p \in native' : p \in native \/ (p = o /\ attempt[o] > 0)
  /\ confirmed \subseteq confirmed'
  /\ \A v \in Workers : Launched(v)' /\ batch'[v] \subseteq batch[v]

LEMMA FinishedRow ==
  ASSUME TypeOK, Alone, LockInv, NEW w \in Workers, NEW o \in Ops, Only(w, o),
         NEW r \in Terminal, Finish(o, r, lock), job'[w][o] = "none",
         r = "unknown" => Holds(w, o),
         r = "cancelled" => attempt[o] = 0 \/ o \in confirmed'
  PROVE  LockInv'
<1>1. /\ state' = [state EXCEPT ![o] = r] /\ UNCHANGED attempt
  BY DEF Finish
<1>2. /\ \A p \in Ops \ {o} : Kept(p)
      /\ r \notin Releasing =>
           \A s \in ScopesOf[o] : lock[s].op = o => lock'[s].op = o /\ lock'[s].ttl > 0
  BY FinishKeeps
<1>3. \A p \in Ops \ {o} : Untouched(p) /\ job'[w][p] = job[w][p]
  BY <1>1, <1>2 DEF Only, Untouched, TypeOK
<1>4. Recorded(o)'
  BY <1>1 DEF LockInv, Recorded, Only, TypeOK, Terminal, Releasing, Open, InProgress, DueStates
<1>5. Guarded(o)'
  <2>1. CASE r = "unknown" BY <1>2, <2>1 DEF Guarded, Holds, Releasing
  <2>2. CASE r # "unknown" BY <1>1, <2>2 DEF Guarded, TypeOK
  <2> QED BY <2>1, <2>2
<1> QED BY <1>3, <1>4, <1>5, OneOperation DEF Only

LEMMA ScheduledRow ==
  ASSUME TypeOK, Alone, LockInv, NEW w \in Workers, NEW o \in Ops, Only(w, o),
         NEW st \in {"waiting_retry", "reconciling", "cancel_requested"}, NEW d \in Nat,
         Schedule(o, st, d, lock), job'[w][o] = "none",
         st = "reconciling" => attempt[o] > 0 \/ Abandoned(o),
         policy = "emergency_stop" => st = "cancel_requested"
  PROVE  LockInv'
<1>1. /\ state' = [state EXCEPT ![o] = st] /\ UNCHANGED attempt
  BY DEF Schedule
<1>2. \A p \in Ops : Kept(p)
  BY ScheduleKeeps
<1>3. \A p \in Ops \ {o} : Untouched(p) /\ job'[w][p] = job[w][p]
  BY <1>1, <1>2 DEF Only, Untouched, TypeOK
<1>4. Recorded(o)'
  BY <1>1 DEF LockInv, Recorded, Only, TypeOK, Open, InProgress, DueStates, Abandoned
<1>5. Guarded(o)'
  BY <1>1 DEF Guarded, TypeOK
<1> QED BY <1>3, <1>4, <1>5, OneOperation DEF Only

(* Nothing happens to any row but that locks are renewed or put back.       *)
LEMMA NoRow ==
  ASSUME TypeOK, Alone, LockInv, NEW w \in Workers, NEW o \in Ops, Only(w, o),
         \A p \in Ops : state'[p] = state[p] /\ attempt'[p] = attempt[p] /\ Kept(p),
         job'[w][o] = job[w][o]
  PROVE  LockInv'
<1>1. ASSUME o \in native', o \notin native PROVE attempt[o] > 0
  BY <1>1 DEF Only
<1>2. \A p \in Ops \ {o} : Untouched(p) /\ job'[w][p] = job[w][p]
  BY DEF Only, Untouched
<1>3. Recorded(o)' /\ Guarded(o)'
  BY <1>1 DEF LockInv, Only, Recorded, Open, Abandoned, Guarded, Kept, SomeoneUp
<1>4. job[w][o] # "none" => Working(w, o)'
  <2>1. ASSUME job[w][o] # "none" PROVE Working(w, o)'
    <3>1. Holds(w, o)' BY <2>1 DEF LockInv, Working, Holds, Kept
    <3> QED BY <2>1, <3>1 DEF LockInv, Working, Live, Only
  <2> QED BY <2>1
<1> QED BY <1>2, <1>3, <1>4, OneOperation DEF Only

(* A claimed row runs a call under the locks of the dispatch.               *)
LEMMA ClaimedRow ==
  ASSUME TypeOK, Alone, LockInv, NEW w \in Workers, NEW o \in Ops, Only(w, o),
         NEW st \in {"running", "reconciling", "cancel_requested"}, ClaimRow(w, o, st),
         Holds(w, o), o \notin batch'[w], attempt'[o] > 0, UNCHANGED native,
         \A p \in Ops \ {o} : attempt'[p] = attempt[p],
         policy = "emergency_stop" => st = "cancel_requested",
         job'[w][o] = "execute" => st = "running",
         job'[w][o] = "reconcile" => st = "reconciling",
         job'[w][o] = "cancel" => st = "cancel_requested"
  PROVE  LockInv'
<1>1. state' = [state EXCEPT ![o] = st] /\ UNCHANGED lock
  BY DEF ClaimRow
<1>2. \A p \in Ops \ {o} : Untouched(p) /\ job'[w][p] = job[w][p]
  BY <1>1 DEF Only, Untouched, TypeOK, Kept
<1>3. Recorded(o)' /\ Guarded(o)'
  BY <1>1 DEF Recorded, Only, TypeOK, Open, InProgress, DueStates, Guarded
<1>4. Working(w, o)'
  BY <1>1 DEF Working, Only, Live, Holds, TypeOK
<1> QED BY <1>2, <1>3, <1>4, OneOperation DEF Only

-----------------------------------------------------------------------------
(* The steps of a dispatch.                                                 *)

(* The operation in dispatch has no call running.                           *)
LEMMA DispatchFacts ==
  ASSUME TypeOK, Alone, LockInv, NEW w \in Workers, NEW o \in Ops, NEW at,
         Dispatching(w, o, at)
  PROVE  /\ Live(w) /\ SomeoneUp /\ o \in batch[w] /\ o = Target(w) /\ job[w][o] = "none"
         /\ state[o] # "absent" /\ Launched(w)
         /\ at # "idle" => o \in Handled[w]
         /\ at = "claim" => Holds(w, o)
<1>1. batch[w] \subseteq Nat /\ batch[w] # {} /\ o = Target(w) /\ pc[w] = at /\ Live(w)
  BY NumberedAssumption DEF Dispatching, TypeOK, Target
<1>2. o \in batch[w]
  BY <1>1, LeastInSet DEF Target
<1>3. Launched(w) BY DEF LockInv
<1> QED BY <1>1, <1>2, <1>3 DEF Launched, SomeoneUp, LockInv, Working

LEMMA DispatchOnly ==
  ASSUME TypeOK, Alone, LockInv, NEW w \in Workers, NEW o \in Ops, NEW at,
         Dispatching(w, o, at), EndDispatch(w, o), UNCHANGED <<policy, proc, native, confirmed>>,
         \A p \in Ops : state[p] # "absent" => state'[p] # "absent",
         \A v \in Workers \ {w} : job'[v] = job[v],
         \A p \in Ops \ {o} : job'[w][p] = job[w][p]
  PROVE  Only(w, o) /\ o \notin batch'[w]
<1>1. Live(w) /\ Launched(w) BY DispatchFacts
<1>2. \A v \in Workers : Launched(v)' /\ batch'[v] \subseteq batch[v] \ {o}
  BY <1>1, StaysLaunched
<1> QED BY <1>1, <1>2 DEF Only

(* A live process without a handler, and all that come later, abandon o.    *)
LEMMA NoHandler ==
  ASSUME TypeOK, Alone, LockInv, Downgrades, NEW w \in Workers, NEW o \in Ops, Live(w),
         o \notin Handled[w]
  PROVE  Abandoned(o)
<1>1. ASSUME NEW v \in Workers, proc[v] # "down" PROVE o \notin Handled[v]
  <2>1. CASE v = w BY <2>1
  <2>2. CASE v # w
    <3>1. proc[v] = "new" BY <1>1, <2>2 DEF Alone, OneUp, Live, TypeOK
    <3>2. w < v BY <3>1 DEF LockInv, InOrder, Live
    <3> QED BY <3>2 DEF Downgrades
  <2> QED BY <2>1, <2>2
<1> QED BY <1>1 DEF Abandoned

(* An emergency stop leaves a dispatch nothing to cancel: what is open is   *)
(* asked to cancel already.                                                 *)
LEMMA ReadRowLocks ==
  ASSUME Standalone, ReplayInv, LockInv, NEW w \in Workers, NEW o \in Ops, ReadRow(w, o)
  PROVE  LockInv'
<1>0. TypeOK /\ Alone /\ FreshRow BY DEF ReplayInv
<1>1. Dispatching(w, o, "idle") /\ UNCHANGED <<policy, proc, job, ghosts>>
  BY DEF ReadRow
<1>2. Live(w) /\ SomeoneUp /\ o = Target(w) /\ job[w][o] = "none" /\ state[o] # "absent"
      /\ Launched(w) /\ o \in batch[w]
  BY <1>0, <1>1, DispatchFacts
<1>3. UNCHANGED confirmed BY <1>1 DEF ghosts
<1>4. CASE EndDispatch(w, o) /\ UNCHANGED <<opVars, lock>>
  <2>1. Only(w, o) BY <1>0, <1>1, <1>3, <1>4, DispatchOnly DEF opVars
  <2>2. \A p \in Ops : state'[p] = state[p] /\ attempt'[p] = attempt[p] /\ Kept(p)
    BY <1>4 DEF opVars, Kept
  <2> QED BY <1>0, <1>1, <2>1, <2>2, NoRow
<1>5. CASE /\ state[o] \notin Terminal /\ o \notin Handled[w]
           /\ Schedule(o, IF state[o] = "cancel_requested" THEN "cancel_requested"
                                                         ELSE "reconciling", 1, lock)
           /\ EndDispatch(w, o) /\ UNCHANGED native
  <2> DEFINE st == IF state[o] = "cancel_requested" THEN "cancel_requested" ELSE "reconciling"
  <2>1. state' = [state EXCEPT ![o] = st] BY <1>5 DEF Schedule
  <2>2. Only(w, o)
    BY <1>0, <1>1, <1>3, <1>5, <2>1, DispatchOnly DEF TypeOK
  <2>3. Abandoned(o) BY <1>0, <1>2, <1>5, NoHandler DEF Standalone
  <2>4. policy = "emergency_stop" => st = "cancel_requested"
    <3>1. Open(o) BY <1>0, <1>2, <1>5 DEF Open, TypeOK, States
    <3> QED BY <3>1 DEF LockInv, Recorded
  <2>5. job'[w][o] = "none" BY <1>1, <1>2
  <2>6. st \in {"waiting_retry", "reconciling", "cancel_requested"} /\ 1 \in Nat
    OBVIOUS
  <2>7. Schedule(o, st, 1, lock) BY <1>5
  <2> HIDE DEF st
  <2> QED BY <1>0, <2>2, <2>3, <2>4, <2>5, <2>6, <2>7, ScheduledRow
<1>6. CASE /\ state[o] \notin Terminal /\ policy # "active" /\ state[o] # "cancel_requested"
           /\ IF policy = "emergency_stop"
              THEN Finish(o, "cancelled", lock)
              ELSE \E d \in Delays : Schedule(o, state[o], d, lock)
           /\ EndDispatch(w, o) /\ UNCHANGED native
  <2>1. policy # "emergency_stop"
    <3>1. Open(o) BY <1>0, <1>2, <1>6 DEF Open, TypeOK, States
    <3> QED BY <1>6, <3>1 DEF LockInv, Recorded
  <2>2. PICK d \in Delays : Schedule(o, state[o], d, lock) BY <1>6, <2>1
  <2>3. \A p \in Ops : state'[p] = state[p] /\ attempt'[p] = attempt[p] /\ Kept(p)
    <3>1. \A p \in Ops : Kept(p) BY <1>0, <2>2, ScheduleKeeps, BoundAssumption
    <3> QED BY <1>0, <2>2, <3>1 DEF Schedule, TypeOK
  <2>4. Only(w, o)
    BY <1>0, <1>1, <1>3, <1>6, <2>3, DispatchOnly
  <2> QED BY <1>0, <1>1, <2>3, <2>4, NoRow
<1>7. CASE /\ o \in Handled[w]
           /\ pc' = [pc EXCEPT ![w] = "lock"] /\ row' = [row EXCEPT ![w] = state[o]]
           /\ UNCHANGED <<opVars, lock, batch>>
  <2>1. \A v \in Workers : Launched(v)'
    BY <1>0, <1>1, <1>2, <1>7 DEF LockInv, Launched, Target, opVars, TypeOK, Holds
  <2>2. Only(w, o) BY <1>1, <1>2, <1>3, <1>7, <2>1 DEF Only, opVars
  <2>3. \A p \in Ops : state'[p] = state[p] /\ attempt'[p] = attempt[p] /\ Kept(p)
    BY <1>7 DEF opVars, Kept
  <2> QED BY <1>0, <1>1, <2>2, <2>3, NoRow
<1> QED BY <1>4, <1>5, <1>6, <1>7, Zenon DEF ReadRow

LEMMA AcquireLocksLocks ==
  ASSUME ReplayInv, LockInv, NEW w \in Workers, NEW o \in Ops, AcquireLocks(w, o)
  PROVE  LockInv'
<1>0. TypeOK /\ Alone /\ FreshRow BY DEF ReplayInv
<1>1. Dispatching(w, o, "lock") /\ UNCHANGED <<policy, proc, job, ghosts>>
  BY DEF AcquireLocks
<1>2. Live(w) /\ SomeoneUp /\ o = Target(w) /\ job[w][o] = "none" /\ o \in Handled[w]
      /\ Launched(w) /\ pc[w] = "lock"
  BY <1>0, <1>1, DispatchFacts DEF Dispatching
<1>3. UNCHANGED confirmed BY <1>1 DEF ghosts
<1>4. CASE CanAcquire(Unexpired(lock), w, o)
  <2>1. /\ lock' = Acquired(Unexpired(lock), w, o) /\ pc' = [pc EXCEPT ![w] = "claim"]
        /\ UNCHANGED <<opVars, batch, row>>
    BY <1>4 DEF AcquireLocks
  <2>2. Holds(w, o)' /\ \A p \in Ops \ {o} : Kept(p)
    BY <1>0, <1>2, <1>4, <2>1, AcquiredKeeps
  <2>3. Launched(w)'
    BY <1>0, <1>1, <1>2, <2>1, <2>2 DEF Launched, Target, opVars, TypeOK, Holds
  <2>4. \A v \in Workers \ {w} : Launched(v)'
    <3>1. \A v \in Workers \ {w} : pc[v] = "idle" /\ batch[v] = {}
      BY <1>0, <1>2 DEF Alone, OneUp, NothingLeft
    <3> QED BY <1>0, <2>1, <3>1 DEF Launched, TypeOK
  <2>5. Recorded(o)' /\ Guarded(o)'
    <3>1. state[o] # "unknown"
      <4>1. state[o] = row[w]
        BY <1>0, <1>2 DEF FreshRow, Target
      <4> QED BY <1>0, <4>1 DEF TypeOK, DueStates
    <3> QED BY <1>1, <1>3, <2>1, <3>1
            DEF LockInv, Recorded, Guarded, opVars, Open, Abandoned
  <2>6. \A p \in Ops \ {o} : Untouched(p)
    BY <1>3, <2>1, <2>2 DEF Untouched, opVars
  <2>7. \A v \in Workers : Launched(v)' /\ batch'[v] \subseteq batch[v]
    BY <2>1, <2>3, <2>4
  <2> QED BY <1>0, <1>1, <1>2, <2>5, <2>6, <2>7, OneOperation
<1>5. CASE ~CanAcquire(Unexpired(lock), w, o)
  <2>1. Schedule(o, row[w], 1, Unexpired(lock)) /\ EndDispatch(w, o) /\ UNCHANGED native
    BY <1>5 DEF AcquireLocks
  <2>2. row[w] = state[o] BY <1>0, <1>2 DEF FreshRow, Target
  <2>3. \A p \in Ops : state'[p] = state[p] /\ attempt'[p] = attempt[p] /\ Kept(p)
    <3>1. \A p \in Ops : Kept(p) BY <1>0, <1>2, <2>1, PutBackKeeps
    <3> QED BY <1>0, <2>1, <2>2, <3>1 DEF Schedule, TypeOK
  <2>4. Only(w, o)
    BY <1>0, <1>1, <1>3, <2>1, <2>3, DispatchOnly
  <2> QED BY <1>0, <1>1, <2>3, <2>4, NoRow
<1> QED BY <1>4, <1>5

LEMMA ClaimLocks ==
  ASSUME ReplayInv, LockInv, NEW w \in Workers, NEW o \in Ops,
         \/ ClaimLost(w, o) \/ ClaimExecute(w, o) \/ ClaimReconcile(w, o) \/ ClaimCancel(w, o)
  PROVE  LockInv'
<1>0. TypeOK /\ Alone /\ FreshRow BY DEF ReplayInv
<1>1. /\ Dispatching(w, o, "claim") /\ EndDispatch(w, o)
      /\ UNCHANGED <<policy, proc, native, confirmed>>
  BY DEF ClaimLost, ClaimExecute, ClaimReconcile, ClaimCancel, ghosts, opVars
<1>2. Live(w) /\ job[w][o] = "none" /\ Holds(w, o) /\ o \in Handled[w]
  BY <1>0, <1>1, DispatchFacts
<1>3. ASSUME NEW call \in HandlerCall \cup {"cancel", "none"}, job' = [job EXCEPT ![w][o] = call]
      PROVE  /\ \A v \in Workers \ {w} : job'[v] = job[v]
             /\ \A p \in Ops \ {o} : job'[w][p] = job[w][p]
             /\ job'[w][o] = call
  BY <1>0, <1>3 DEF TypeOK
<1>4. CASE ClaimLost(w, o)
  <2>1. Only(w, o) BY <1>0, <1>1, <1>4, DispatchOnly DEF ClaimLost, opVars
  <2> QED BY <1>0, <1>4, <2>1, NoRow DEF ClaimLost, opVars, Kept
<1>5. CASE ClaimExecute(w, o)
  <2>1. ClaimRow(w, o, "running") /\ job' = [job EXCEPT ![w][o] = "execute"]
        /\ attempt' = [attempt EXCEPT ![o] = @ + 1]
    BY <1>5 DEF ClaimExecute
  <2>2. Only(w, o) /\ o \notin batch'[w]
    BY <1>0, <1>1, <1>3, <2>1, DispatchOnly DEF ClaimRow, TypeOK, HandlerCall
  <2>3. policy # "emergency_stop"
    <3>1. state[o] \in {"queued", "waiting_retry"} BY <1>5 DEF ClaimExecute
    <3> QED BY <3>1 DEF LockInv, Recorded, Open, InProgress, DueStates
  <2>4. attempt'[o] > 0 /\ \A p \in Ops \ {o} : attempt'[p] = attempt[p]
    BY <1>0, <2>1 DEF TypeOK
  <2>5. job'[w][o] = "execute" BY <1>3, <2>1 DEF HandlerCall
  <2> QED BY <1>0, <1>1, <1>2, <2>1, <2>2, <2>3, <2>4, <2>5, ClaimedRow
<1>6. CASE ClaimReconcile(w, o)
  <2>1. state[o] = "reconciling" BY <1>6 DEF ClaimReconcile
  <2>2. attempt[o] > 0 /\ policy # "emergency_stop"
    BY <1>2, <2>1 DEF LockInv, Recorded, Abandoned, Live, Open, InProgress, DueStates
  <2>3. CASE o \in Reconcilable
    <3>1. ClaimRow(w, o, "reconciling") /\ job' = [job EXCEPT ![w][o] = "reconcile"]
          /\ UNCHANGED attempt
      BY <1>6, <2>3 DEF ClaimReconcile
    <3>2. Only(w, o) /\ o \notin batch'[w]
      BY <1>0, <1>1, <1>3, <3>1, DispatchOnly DEF ClaimRow, TypeOK, HandlerCall
    <3>3. job'[w][o] = "reconcile" BY <1>3, <3>1 DEF HandlerCall
    <3> QED BY <1>0, <1>1, <1>2, <2>2, <3>1, <3>2, <3>3, ClaimedRow
  <2>4. CASE o \notin Reconcilable
    <3>1. Finish(o, "unknown", lock) /\ UNCHANGED job
      BY <1>6, <2>4 DEF ClaimReconcile
    <3>2. Only(w, o)
      BY <1>0, <1>1, <3>1, DispatchOnly DEF Finish, TypeOK
    <3> QED BY <1>0, <1>2, <3>1, <3>2, FinishedRow DEF Terminal
  <2> QED BY <2>3, <2>4
<1>7. CASE ClaimCancel(w, o)
  <2>1. state[o] = "cancel_requested" BY <1>7 DEF ClaimCancel
  <2>2. Started(o) <=> attempt[o] > 0
    BY DEF Started, LockInv, Recorded
  <2>3. CASE CancelEntry(o) = "cancel_requested"
    <3>1. ClaimRow(w, o, "cancel_requested") /\ job' = [job EXCEPT ![w][o] = "cancel"]
          /\ UNCHANGED attempt
      BY <1>7, <2>3 DEF ClaimCancel
    <3>2. Only(w, o) /\ o \notin batch'[w]
      BY <1>0, <1>1, <1>3, <3>1, DispatchOnly DEF ClaimRow, TypeOK
    <3>3. job'[w][o] = "cancel" BY <1>3, <3>1
    <3>4. attempt[o] > 0 BY <2>2, <2>3 DEF CancelEntry
    <3> QED BY <1>0, <1>1, <1>2, <3>1, <3>2, <3>3, <3>4, ClaimedRow
  <2>4. CASE CancelEntry(o) # "cancel_requested"
    <3>1. Finish(o, CancelEntry(o), lock) /\ UNCHANGED job
      BY <1>7, <2>4 DEF ClaimCancel
    <3>2. CancelEntry(o) \in Terminal /\ (CancelEntry(o) = "cancelled" => attempt[o] = 0)
      BY <1>0, <2>2, <2>4 DEF CancelEntry, Terminal, Releasing, TypeOK
    <3>3. Only(w, o)
      BY <1>0, <1>1, <3>1, <3>2, DispatchOnly DEF Finish, TypeOK, Terminal, Releasing
    <3> QED BY <1>0, <1>2, <3>1, <3>2, <3>3, FinishedRow
  <2> QED BY <2>3, <2>4
<1> QED BY <1>4, <1>5, <1>6, <1>7

-----------------------------------------------------------------------------
(* The steps of a handler call.                                             *)

LEMMA CallFacts ==
  ASSUME TypeOK, LockInv, NEW w \in Workers, NEW o \in Ops, job[w][o] # "none"
  PROVE  /\ Live(w) /\ attempt[o] > 0 /\ Holds(w, o) /\ Open(o)
         /\ job[w][o] \in HandlerCall => policy # "emergency_stop"
<1>1. Working(w, o) BY DEF LockInv
<1>2. job[w][o] \in {"execute", "reconcile", "cancel"} BY DEF TypeOK, HandlerCall
<1>3. Open(o) BY <1>1, <1>2 DEF Working, Open, InProgress, DueStates
<1>4. job[w][o] \in HandlerCall => policy # "emergency_stop"
  BY <1>1, <1>3 DEF Working, LockInv, Recorded, HandlerCall
<1> QED BY <1>1, <1>3, <1>4 DEF Working

LEMMA HandlerOnly ==
  ASSUME TypeOK, Alone, LockInv, NEW w \in Workers, NEW o \in Ops, LoopFree(w),
         EndJob(w, o) \/ UNCHANGED job, attempt[o] > 0, native' \subseteq native \cup {o},
         confirmed \subseteq confirmed', UNCHANGED <<policy, proc, batch, pc>>
  PROVE  Only(w, o) /\ (EndJob(w, o) => job'[w][o] = "none")
<1>1. \A v \in Workers : Launched(v)' /\ batch'[v] \subseteq batch[v]
  BY StaysFree
<1>2. /\ \A v \in Workers \ {w} : job'[v] = job[v]
      /\ \A p \in Ops \ {o} : job'[w][p] = job[w][p]
      /\ EndJob(w, o) => job'[w][o] = "none"
  BY DEF EndJob, TypeOK
<1> QED BY <1>1, <1>2 DEF Only, LoopFree

LEMMA HandlerLocks ==
  ASSUME ReplayInv, LockInv, NEW w \in Workers, NEW o \in Ops,
         Heartbeat(w, o) \/ BindNativeTask(w, o) \/ HandlerEnds(w, o)
  PROVE  LockInv'
<1>0. TypeOK /\ Alone BY DEF ReplayInv
<1>1. LoopFree(w) /\ job[w][o] # "none"
  BY DEF Heartbeat, BindNativeTask, HandlerEnds, HandlerReturns, HandlerThrows,
         HandlerTimesOut, CancelReturns, Calls, Awaits, HandlerCall
<1>2. attempt[o] > 0 /\ Holds(w, o) /\ (job[w][o] \in HandlerCall => policy # "emergency_stop")
  BY <1>0, <1>1, CallFacts
<1>3. \A d \in Delays : d \in Nat BY BoundAssumption
<1>4. ASSUME Heartbeat(w, o) \/ BindNativeTask(w, o) PROVE LockInv'
  <2>1. Only(w, o)
    BY <1>0, <1>1, <1>2, <1>4, HandlerOnly DEF Heartbeat, BindNativeTask, procVars, ghosts
  <2>2. \A p \in Ops : Kept(p)
    BY <1>0, <1>4, RenewedKeeps DEF Heartbeat, BindNativeTask
  <2>3. UNCHANGED <<state, attempt, job>>
    BY <1>4 DEF Heartbeat, BindNativeTask, procVars
  <2> QED BY <1>0, <2>1, <2>2, <2>3, NoRow
<1>5. ASSUME job[w][o] \in HandlerCall, EndJob(w, o), native' \subseteq native \cup {o},
             UNCHANGED <<policy, proc, batch, pc, confirmed>>,
             \/ \E r \in {"succeeded", "failed", "unknown"} : Finish(o, r, lock)
             \/ \E st \in {"reconciling", "waiting_retry"}, d \in Nat : Schedule(o, st, d, lock)
      PROVE  LockInv'
  <2>1. Only(w, o) /\ job'[w][o] = "none"
    BY <1>0, <1>1, <1>2, <1>5, HandlerOnly
  <2>2. ASSUME NEW r \in {"succeeded", "failed", "unknown"}, Finish(o, r, lock) PROVE LockInv'
    <3>1. r \in Terminal BY DEF Terminal, Releasing
    <3> QED BY <1>0, <1>2, <2>1, <2>2, <3>1, FinishedRow
  <2>3. ASSUME NEW st \in {"reconciling", "waiting_retry"}, NEW d \in Nat, Schedule(o, st, d, lock)
        PROVE  LockInv'
    BY <1>0, <1>2, <1>5, <2>1, <2>3, ScheduledRow
  <2> QED BY <1>5, <2>2, <2>3
<1>6. ASSUME NEW r \in Terminal \cup {"reconciling"}, HandlerReturns(w, o, r) PROVE LockInv'
  <2>1. /\ job[w][o] \in HandlerCall /\ EndJob(w, o) /\ native' \subseteq native \cup {o}
        /\ UNCHANGED <<policy, proc, batch, pc, confirmed>>
    BY <1>6 DEF HandlerReturns, Calls, ghosts
  <2>2. CASE r = "reconciling"
    <3>1. \E d \in Delays : Schedule(o, "reconciling", d, lock)
      BY <1>6, <2>2 DEF HandlerReturns
    <3> QED BY <1>3, <1>5, <2>1, <3>1
  <2>3. CASE r # "reconciling"
    <3>1. Finish(o, r, lock) /\ r \in {"succeeded", "failed", "unknown"}
      BY <1>6, <2>3 DEF HandlerReturns, Terminal, Releasing
    <3> QED BY <1>5, <2>1, <3>1
  <2> QED BY <2>2, <2>3
<1>7. ASSUME NEW t \in BOOLEAN, HandlerThrows(w, o, t) PROVE LockInv'
  <2>1. /\ job[w][o] \in HandlerCall /\ EndJob(w, o) /\ native' \subseteq native \cup {o}
        /\ UNCHANGED <<policy, proc, batch, pc, confirmed>>
    BY <1>7 DEF HandlerThrows, Calls, ghosts
  <2>2. \/ Schedule(o, "reconciling", 1, lock) \/ Finish(o, "failed", lock)
        \/ \E d \in Delays : Schedule(o, "waiting_retry", d, lock)
    BY <1>7, Zenon DEF HandlerThrows
  <2> QED BY <1>3, <1>5, <2>1, <2>2
<1>8. ASSUME HandlerTimesOut(w, o) PROVE LockInv'
  <2>1. /\ job[w][o] \in HandlerCall /\ EndJob(w, o) /\ native' \subseteq native \cup {o}
        /\ UNCHANGED <<policy, proc, batch, pc, confirmed>>
    BY <1>8 DEF HandlerTimesOut, Calls, ghosts
  <2>2. Schedule(o, "reconciling", 1, lock) \/ Finish(o, "unknown", lock)
    BY <1>8, Zenon DEF HandlerTimesOut
  <2> QED BY <1>5, <2>1, <2>2
<1>9. ASSUME NEW ok \in BOOLEAN, CancelReturns(w, o, ok) PROVE LockInv'
  <2> DEFINE r == IF ok THEN "cancelled" ELSE "unknown"
  <2>1. Finish(o, r, lock) /\ EndJob(w, o) /\ r \in Terminal
    BY <1>9 DEF CancelReturns, Terminal, Releasing
  <2>2. confirmed' = IF ok THEN confirmed \cup {o} ELSE confirmed
    BY <1>9 DEF CancelReturns
  <2>3. Only(w, o) /\ job'[w][o] = "none"
    BY <1>0, <1>1, <1>2, <1>9, <2>1, <2>2, HandlerOnly DEF CancelReturns
  <2>4. r = "cancelled" => o \in confirmed' BY <2>2
  <2> HIDE DEF r
  <2> QED BY <1>0, <1>2, <2>1, <2>3, <2>4, FinishedRow
<1> QED BY <1>4, <1>6, <1>7, <1>8, <1>9, Zenon DEF HandlerEnds

-----------------------------------------------------------------------------
(* Requests.                                                                *)

LEMMA SubmitLocks ==
  ASSUME ReplayInv, LockInv, NEW w \in Workers, NEW o \in Ops, Submit(w, o)
  PROVE  LockInv'
<1>0. TypeOK /\ Alone BY DEF ReplayInv
<1>1. /\ state[o] = "absent" /\ state' = [state EXCEPT ![o] = "queued"] /\ policy = "active"
      /\ UNCHANGED <<attempt, native, lock, policy, proc, batch, pc, job, confirmed>>
      /\ LoopFree(w)
  BY DEF Submit, Serves, procVars, ghosts
<1>2. job[w][o] = "none"
  BY <1>0, <1>1, CallFacts DEF Open, InProgress, DueStates
<1>3. \A p \in Ops \ {o} : Untouched(p)
  BY <1>0, <1>1 DEF Untouched, TypeOK, Kept
<1>4. Recorded(o)' /\ Guarded(o)'
  BY <1>0, <1>1 DEF LockInv, Recorded, Guarded, TypeOK
<1>5. \A v \in Workers : Launched(v)' /\ batch'[v] \subseteq batch[v]
  BY <1>0, <1>1, StaysFree
<1> QED BY <1>0, <1>1, <1>2, <1>3, <1>4, <1>5, OneOperation DEF LoopFree

LEMMA ResolveLocks ==
  ASSUME ReplayInv, LockInv, NEW w \in Workers, NEW o \in Ops, NEW r \in Releasing,
         ResolveUnknown(w, o, r)
  PROVE  LockInv'
<1>0. TypeOK /\ Alone BY DEF ReplayInv
<1>1. /\ state[o] = "unknown" /\ state' = [state EXCEPT ![o] = r] /\ lock' = Released(lock, o)
      /\ UNCHANGED <<attempt, native, policy, proc, batch, pc, job>>
      /\ confirmed \subseteq confirmed' /\ (r = "cancelled" => o \in confirmed')
      /\ LoopFree(w)
  BY DEF ResolveUnknown, Serves, procVars
<1>2. job[w][o] = "none"
  BY <1>0, <1>1, CallFacts DEF Open, InProgress, DueStates
<1>3. \A p \in Ops : p # o => Kept(p)
  BY <1>0, <1>1, ScopeTypes DEF Kept, Released
<1>4. \A p \in Ops \ {o} : Untouched(p)
  BY <1>0, <1>1, <1>3 DEF Untouched, TypeOK
<1>5. Recorded(o)' /\ Guarded(o)'
  BY <1>0, <1>1 DEF LockInv, Recorded, Guarded, TypeOK, Releasing, Open, InProgress, DueStates
<1>6. \A v \in Workers : Launched(v)' /\ batch'[v] \subseteq batch[v]
  BY <1>0, <1>1, StaysFree
<1> QED BY <1>0, <1>1, <1>2, <1>4, <1>5, <1>6, OneOperation DEF LoopFree

LEMMA CancelLocks ==
  ASSUME ReplayInv, LockInv, NEW w \in Workers, NEW o \in Ops, RequestCancel(w, o)
  PROVE  LockInv'
<1> DEFINE entry == CancelEntry(o)
<1>0. TypeOK /\ Alone BY DEF ReplayInv
<1>1. /\ Open(o) /\ LoopFree(w) /\ job' = [job EXCEPT ![w][o] = AbortedJob(w, o, entry)]
      /\ UNCHANGED <<native, policy, proc, batch, pc, confirmed>>
  BY DEF RequestCancel, Serves, ghosts
<1>2. AbortedJob(w, o, entry) \in HandlerCall \cup {"cancel", "none"}
  BY <1>0 DEF AbortedJob, TypeOK
<1>3. /\ \A v \in Workers \ {w} : job'[v] = job[v]
      /\ \A p \in Ops \ {o} : job'[w][p] = job[w][p]
      /\ job'[w][o] = AbortedJob(w, o, entry)
  BY <1>0, <1>1, <1>2 DEF TypeOK
<1>4. Only(w, o)
  BY <1>0, <1>1, <1>3, StaysFree DEF Only, LoopFree
<1>5. CASE job[w][o] \in HandlerCall /\ entry \in Terminal
  <2>1. Finish(o, entry, lock) /\ Holds(w, o) /\ attempt[o] > 0
    BY <1>0, <1>5, CallFacts DEF RequestCancel, HandlerCall
  <2>2. job'[w][o] = "none" BY <1>3, <1>5 DEF AbortedJob, Terminal, Releasing
  <2>3. entry # "cancelled" BY <2>1 DEF CancelEntry, Started
  <2> HIDE DEF entry
  <2> QED BY <1>0, <1>4, <1>5, <2>1, <2>2, <2>3, FinishedRow
<1>6. CASE ~(job[w][o] \in HandlerCall /\ entry \in Terminal)
  <2>1. state' = [state EXCEPT ![o] = "cancel_requested"] /\ UNCHANGED <<attempt, lock>>
    BY <1>6 DEF RequestCancel
  <2>2. \A p \in Ops \ {o} : Untouched(p)
    BY <1>0, <1>1, <2>1 DEF Untouched, TypeOK, Kept
  <2>3. Recorded(o)' /\ Guarded(o)'
    BY <1>0, <1>1, <2>1 DEF LockInv, Recorded, Guarded, TypeOK
  <2>4. job'[w][o] \in {"cancel", "none"}
    <3>1. job[w][o] \in HandlerCall => entry = "cancel_requested"
      BY <1>6, CancelEntryType DEF Terminal, Releasing
    <3> QED BY <1>0, <1>3, <3>1 DEF AbortedJob, TypeOK
  <2>5. job'[w][o] # "none" => Working(w, o)'
    <3>1. ASSUME job'[w][o] # "none" PROVE Working(w, o)'
      <4>1. job[w][o] # "none" BY <1>3, <3>1 DEF AbortedJob, HandlerCall
      <4>2. attempt[o] > 0 /\ Holds(w, o) BY <1>0, <4>1, CallFacts
      <4> QED BY <1>0, <1>1, <2>1, <2>4, <4>2 DEF Working, Live, Holds, LoopFree, TypeOK
    <3> QED BY <3>1
  <2> QED BY <1>0, <1>3, <1>4, <2>2, <2>3, <2>5, OneOperation DEF Only
<1> QED BY <1>5, <1>6

(* An emergency stop asks every started operation to cancel, or gives it up *)
(* as unknown with its locks, and cancels those that were never started.    *)
LEMMA StopAllLocks ==
  ASSUME ReplayInv, LockInv, NEW w \in Workers, SetPolicy(w, "emergency_stop")
  PROVE  LockInv'
<1> DEFINE stopped == {o \in Ops : Open(o)}
           ended   == {o \in stopped : StoppedState(w, o) \in Terminal}
<1>0. TypeOK /\ Alone BY DEF ReplayInv
<1>1. LoopFree(w) /\ policy' = "emergency_stop" /\ UNCHANGED <<attempt, native, proc, batch, pc, confirmed>>
  BY DEF SetPolicy, Serves, ghosts
<1>2. \A o \in Ops : state'[o] = StoppedState(w, o)
  BY DEF SetPolicy
<1>3. \A s \in Scopes : lock'[s] = IF lock[s].op \in ended
          THEN FinishLocks(lock, lock[s].op, StoppedState(w, lock[s].op))[s] ELSE lock[s]
  BY DEF SetPolicy
<1>4. /\ \A v \in Workers \ {w} : job'[v] = job[v]
      /\ \A o \in Ops : job'[w][o] = IF o \in stopped /\ Started(o)
                                     THEN AbortedJob(w, o, CancelEntry(o)) ELSE job[w][o]
  <2>1. job' = [job EXCEPT ![w] = [o \in Ops |-> IF o \in stopped /\ Started(o)
                  THEN AbortedJob(w, o, CancelEntry(o)) ELSE job[w][o]]]
    BY DEF SetPolicy
  <2> HIDE DEF stopped
  <2> QED BY <1>0, <2>1 DEF TypeOK
<1>5. \A o \in Ops : o \in stopped <=> Open(o) OBVIOUS
<1>6. \A o \in Ops : o \in ended <=> Open(o) /\ state'[o] \in Terminal BY <1>2
<1> HIDE DEF stopped, ended
<1>7. ASSUME NEW o \in Ops
      PROVE  /\ ~Open(o) => state'[o] = state[o]
             /\ Open(o) => state'[o] \in {"cancel_requested", "cancelled", "unknown"}
             /\ Open(o) /\ state'[o] = "cancelled" => attempt[o] = 0
             /\ Open(o) /\ state'[o] = "unknown" => Holds(w, o)
             /\ job'[w][o] # "none" => job'[w][o] = "cancel" /\ state'[o] = "cancel_requested"
                                        /\ attempt[o] > 0 /\ Holds(w, o) /\ Open(o)
  <2>1. ~Open(o) => state'[o] = state[o] /\ job'[w][o] = "none"
    <3>1. ~Open(o) => job[w][o] = "none" BY <1>0, CallFacts
    <3> QED BY <1>2, <1>4, <1>5, <3>1 DEF StoppedState
  <2>2. ~Started(o) => attempt[o] = 0 /\ job[w][o] = "none"
    <3>1. attempt[o] \in Nat BY <1>0 DEF TypeOK
    <3> QED BY <1>0, <3>1, CallFacts DEF Started
  <2>3. job[w][o] # "none" => attempt[o] > 0 /\ Holds(w, o) BY <1>0, CallFacts
  <2>4. job[w][o] \in HandlerCall \cup {"cancel", "none"} BY <1>0 DEF TypeOK
  <2>5. CASE Open(o) /\ ~Started(o)
    BY <1>2, <1>4, <2>2, <2>5 DEF StoppedState, CancelEntry
  <2>6. CASE Open(o) /\ Started(o) /\ job[w][o] \notin HandlerCall
    BY <1>2, <1>4, <1>5, <2>3, <2>4, <2>6 DEF StoppedState, AbortedJob
  <2>7. CASE Open(o) /\ Started(o) /\ job[w][o] \in HandlerCall
    BY <1>2, <1>4, <1>5, <2>3, <2>7 DEF StoppedState, CancelEntry, AbortedJob, HandlerCall
  <2> QED BY <2>1, <2>5, <2>6, <2>7
<1>8. ASSUME NEW o \in Ops, NEW s \in Scopes, lock[s].op = o
      PROVE  /\ ~Open(o) \/ state'[o] = "cancel_requested" => lock'[s] = lock[s]
             /\ Open(o) /\ state'[o] = "unknown" => lock'[s].op = o /\ lock'[s].ttl > 0
  <2>1. ~Open(o) \/ state'[o] = "cancel_requested" => o \notin ended
    BY <1>6 DEF Terminal, Releasing
  <2>2. ASSUME Open(o), state'[o] = "unknown" PROVE lock'[s].op = o /\ lock'[s].ttl > 0
    <3>1. o \in ended BY <1>6, <2>2 DEF Terminal
    <3>2. lock'[s] = Extended(lock, o, UnknownTtl)[s]
      BY <1>2, <1>3, <1>8, <2>2, <3>1 DEF FinishLocks, Releasing
    <3> QED BY <1>0, <1>8, <3>2, ScopeTypes, BoundAssumption DEF Extended, LockRows
  <2> QED BY <1>3, <1>8, <2>1, <2>2
<1>9. ASSUME NEW o \in Ops PROVE Recorded(o)'
  <2>1. CASE Open(o)
    BY <1>1, <1>7, <2>1 DEF LockInv, Recorded, Open, InProgress, DueStates
  <2>2. CASE ~Open(o)
    BY <1>1, <1>7, <2>2 DEF LockInv, Recorded, Open, Abandoned
  <2> QED BY <2>1, <2>2
<1>10. ASSUME NEW o \in Ops PROVE Guarded(o)'
  <2>1. CASE Open(o)
    BY <1>0, <1>7, <1>8, <2>1, ScopeTypes DEF Guarded, Holds
  <2>2. CASE ~Open(o)
    BY <1>0, <1>1, <1>7, <1>8, <2>2, ScopeTypes DEF LockInv, Guarded, SomeoneUp
  <2> QED BY <2>1, <2>2
<1>11. ASSUME NEW v \in Workers, NEW o \in Ops, job'[v][o] # "none" PROVE Working(v, o)'
  <2>1. CASE v = w
    <3>1. Holds(w, o)'
      BY <1>0, <1>7, <1>8, <1>11, <2>1, ScopeTypes DEF Holds
    <3> QED BY <1>1, <1>7, <1>11, <2>1, <3>1 DEF Working, Live, LoopFree
  <2>2. CASE v # w
    <3>1. Live(v) BY <1>0, <1>4, <1>11, <2>2, CallFacts
    <3> QED BY <1>0, <1>1, <2>2, <3>1 DEF Alone, OneUp, LoopFree
  <2> QED BY <2>1, <2>2
<1>12. \A v \in Workers : Launched(v)' BY <1>0, <1>1, StaysFree
<1>13. InOrder' BY <1>1 DEF LockInv, InOrder
<1> QED BY <1>9, <1>10, <1>11, <1>12, <1>13 DEF LockInv

LEMMA SetPolicyLocks ==
  ASSUME ReplayInv, LockInv, NEW w \in Workers, NEW m \in Modes, SetPolicy(w, m)
  PROVE  LockInv'
<1>0. TypeOK /\ Alone BY DEF ReplayInv
<1>1. CASE m = "emergency_stop" BY <1>1, StopAllLocks
<1>2. CASE m # "emergency_stop"
  <2>1. /\ LoopFree(w) /\ policy' # "emergency_stop"
        /\ UNCHANGED <<state, attempt, native, lock, proc, batch, pc, job, confirmed>>
    BY <1>2 DEF SetPolicy, Serves, ghosts
  <2>2. \A v \in Workers : Launched(v)' BY <1>0, <2>1, StaysFree
  <2> QED BY <2>1, <2>2 DEF LockInv, InOrder, Recorded, Abandoned, Guarded, SomeoneUp,
                            Working, Live, Holds
<1> QED BY <1>1, <1>2

-----------------------------------------------------------------------------
(* The life of a process, and time.                                         *)

(* Rows, locks and calls of an operation stay, while processes come and go. *)
LEMMA TickLocks ==
  ASSUME ReplayInv, LockInv, NEW w \in Workers, NEW r \in BOOLEAN, Tick(w, r)
  PROVE  LockInv'
<1>0. TypeOK /\ Alone BY DEF ReplayInv
<1>1. /\ Live(w) /\ proc[w] = "up" /\ pc[w] = "idle" /\ \A o \in Ops : job[w][o] = "none"
      /\ UNCHANGED <<state, attempt, native, policy, proc, pc, job, confirmed>>
  BY DEF Tick, Serves, LoopFree, Ticking, opVars, ghosts
<1>2. batch' = [batch EXCEPT ![w] = {o \in Due : Cardinality({p \in Due : p < o}) < Concurrency}]
  BY DEF Tick
<1>3. batch'[w] \subseteq Due /\ \A v \in Workers \ {w} : batch'[v] = batch[v]
  <2> HIDE DEF Due
  <2> QED BY <1>0, <1>2 DEF TypeOK
<1>4. \A p \in Ops : Kept(p)
  BY <1>0, RefreshedKeeps DEF Tick, Kept
<1>5. \A v \in Workers : Launched(v)'
  <2>1. \A o \in batch'[w] : state[o] # "absent" BY <1>3 DEF Due, DueStates
  <2>2. Launched(w)' BY <1>1, <2>1 DEF Launched
  <2>3. \A v \in Workers \ {w} : batch[v] = {} /\ pc[v] = "idle"
    BY <1>0, <1>1 DEF Alone, OneUp, NothingLeft
  <2> QED BY <1>1, <1>3, <2>2, <2>3 DEF Launched
<1>6. \A o \in Ops : Recorded(o)' /\ Guarded(o)'
  BY <1>1, <1>4 DEF LockInv, Recorded, Open, Abandoned, Guarded, Kept, SomeoneUp
<1>7. \A v \in Workers, o \in Ops : job[v][o] = "none"
  <2>1. ASSUME NEW v \in Workers, NEW o \in Ops, job[v][o] # "none" PROVE FALSE
    <3>1. Live(v) BY <1>0, <2>1, CallFacts
    <3> QED BY <1>0, <1>1, <2>1, <3>1 DEF Alone, OneUp
  <2> QED BY <2>1
<1> QED BY <1>1, <1>5, <1>6, <1>7 DEF LockInv, InOrder

LEMMA NobodyUp ==
  ASSUME MaxUp = 1, NEW w \in Workers, Start(w)
  PROVE  \A v \in Workers : ~Live(v)
<1> DEFINE up == {v \in Workers : Live(v)}
<1>1. IsFiniteSet(up) BY FS_Subset, NumberedAssumption
<1>2. Cardinality(up) < 1 /\ Cardinality(up) \in Nat BY <1>1, FS_CardinalityType DEF Start
<1>3. up = {} BY <1>1, <1>2, FS_EmptySet
<1> QED BY <1>3

LEMMA StartLocks ==
  ASSUME Standalone, ReplayInv, LockInv, NEW w \in Workers, Start(w)
  PROVE  LockInv'
<1>0. TypeOK /\ Alone BY DEF ReplayInv
<1>1. \A v \in Workers : ~Live(v) BY NobodyUp DEF Standalone
<1>2. \A v \in Workers : batch[v] = {} /\ pc[v] = "idle" /\ \A o \in Ops : job[v][o] = "none"
  BY <1>0, <1>1, CallFacts DEF Alone, NothingLeft
<1>3. /\ UNCHANGED <<attempt, native, policy, batch, pc, job, confirmed>>
      /\ lock' = RefreshedUnknown(lock)
      /\ \A o \in Ops : state'[o] = IF Orphaned(o) THEN Recovered(o) ELSE state[o]
      /\ proc[w] = "new" /\ \A v \in Workers : v < w => proc[v] # "new"
      /\ proc'[w] = "up" /\ \A v \in Workers \ {w} : proc'[v] = proc[v]
  BY <1>0 DEF Start, ghosts, TypeOK
<1>4. InOrder'
  <2>1. \A v \in Workers : v \in Nat BY NumberedAssumption
  <2> QED BY <1>3, <2>1 DEF LockInv, InOrder
<1>5. \A v \in Workers : Launched(v)' BY <1>2, <1>3 DEF Launched
<1>6. ASSUME NEW o \in Ops PROVE Recorded(o)'
  <2>1. Abandoned(o) => Abandoned(o)' BY <1>3 DEF Abandoned
  <2>2. \/ state'[o] = state[o]
        \/ state[o] = "running" /\ state'[o] = "reconciling"
    BY <1>3 DEF Orphaned, Recovered
  <2>3. CASE state'[o] = state[o] BY <1>3, <2>1, <2>3 DEF LockInv, Recorded, Open
  <2>4. CASE state[o] = "running" /\ state'[o] = "reconciling"
    BY <1>3, <2>4 DEF LockInv, Recorded, Open, InProgress, DueStates
  <2> QED BY <2>2, <2>3, <2>4
<1>7. ASSUME NEW o \in Ops PROVE Guarded(o)'
  <2>1. state'[o] = "unknown" => state[o] = "unknown"
    BY <1>3 DEF Orphaned, Recovered
  <2>2. \A s \in ScopesOf[o] : state[o] = "unknown" => lock'[s].op = o /\ lock'[s].ttl > 0
    BY <1>0, <1>3, RefreshedKeeps DEF LockInv, Guarded
  <2> QED BY <2>1, <2>2 DEF Guarded
<1> QED BY <1>2, <1>3, <1>4, <1>5, <1>6, <1>7 DEF LockInv

LEMMA StopLocks ==
  ASSUME ReplayInv, LockInv, NEW w \in Workers, Stop(w)
  PROVE  LockInv'
<1> DEFINE aborted == {o \in Ops : job[w][o] \in HandlerCall}
<1>0. TypeOK /\ Alone BY DEF ReplayInv
<1>1. /\ LoopFree(w) /\ proc[w] = "up"
      /\ UNCHANGED <<attempt, native, policy, batch, pc, confirmed>>
      /\ \A o \in Ops : state'[o] = IF o \in aborted THEN "reconciling" ELSE state[o]
      /\ \A s \in Scopes : lock'[s] = IF lock[s].op \in aborted
                             THEN [lock[s] EXCEPT !.ttl = 1 + Lease] ELSE lock[s]
      /\ \A o \in Ops : job'[w][o] = IF o \in aborted THEN "none" ELSE job[w][o]
      /\ \A v \in Workers \ {w} : job'[v] = job[v]
      /\ proc'[w] = "stopping" /\ \A v \in Workers \ {w} : proc'[v] = proc[v]
  BY <1>0 DEF Stop, Serves, ghosts, TypeOK
<1>2. \A o \in Ops : o \in aborted => attempt[o] > 0 /\ policy # "emergency_stop" /\ Open(o)
  BY <1>0, CallFacts DEF HandlerCall
<1> HIDE DEF aborted
<1>a. \A s \in Scopes : lock[s].op \notin aborted => lock'[s] = lock[s] BY <1>1
<1>3. InOrder' BY <1>1 DEF LockInv, InOrder
<1>4. \A v \in Workers : Launched(v)' BY <1>0, <1>1, StaysFree
<1>5. ASSUME NEW o \in Ops PROVE Recorded(o)'
  <2>1. Abandoned(o) => Abandoned(o)' BY <1>1 DEF Abandoned
  <2> QED BY <1>1, <1>2, <2>1 DEF LockInv, Recorded, Open
<1>6. ASSUME NEW o \in Ops PROVE Guarded(o)'
  <2>1. SomeoneUp BY <1>1 DEF SomeoneUp
  <2>2. state'[o] = "unknown" => state[o] = "unknown" /\ o \notin aborted BY <1>1
  <2>3. Guarded(o) BY DEF LockInv
  <2>4. ScopesOf[o] \subseteq Scopes BY <1>0, ScopeTypes
  <2> QED BY <1>a, <2>1, <2>2, <2>3, <2>4 DEF Guarded
<1>7. ASSUME NEW v \in Workers, NEW o \in Ops, job'[v][o] # "none" PROVE Working(v, o)'
  <2>1. job[v][o] # "none" /\ Live(v) /\ v = w
    BY <1>0, <1>1, <1>7, CallFacts DEF Alone, OneUp, LoopFree
  <2>2. o \notin aborted BY <1>1, <1>7, <2>1
  <2>3. Holds(w, o) /\ ScopesOf[o] \subseteq Scopes BY <1>0, <2>1, ScopeTypes DEF LockInv, Working
  <2>4. Holds(w, o)' BY <1>a, <2>2, <2>3 DEF Holds
  <2> QED BY <1>1, <2>1, <2>2, <2>4 DEF LockInv, Working, Live
<1> QED BY <1>3, <1>4, <1>5, <1>6, <1>7 DEF LockInv

LEMMA ExitLocks ==
  ASSUME ReplayInv, LockInv, NEW w \in Workers, Exit(w)
  PROVE  LockInv'
<1>0. TypeOK /\ Alone BY DEF ReplayInv
<1>1. /\ Live(w) /\ UNCHANGED <<state, attempt, native, lock, policy, confirmed>>
      /\ proc'[w] = "down" /\ \A v \in Workers \ {w} : proc'[v] = proc[v]
      /\ batch'[w] = {} /\ pc'[w] = "idle"
      /\ \A v \in Workers \ {w} : batch'[v] = batch[v] /\ pc'[v] = pc[v] /\ job'[v] = job[v]
      /\ \A o \in Ops : job'[w][o] = "none"
  BY <1>0 DEF Exit, opVars, ghosts, TypeOK
<1>2. \A v \in Workers \ {w} : batch[v] = {} /\ pc[v] = "idle" /\ ~Live(v)
  BY <1>0, <1>1 DEF Alone, OneUp, NothingLeft
<1>3. InOrder' BY <1>1 DEF LockInv, InOrder, Live
<1>4. \A v \in Workers : Launched(v)' BY <1>1, <1>2 DEF Launched
<1>5. ASSUME NEW o \in Ops PROVE Recorded(o)' /\ Guarded(o)'
  <2>1. Abandoned(o) => Abandoned(o)' BY <1>1 DEF Abandoned
  <2>2. SomeoneUp' => SomeoneUp BY <1>1 DEF SomeoneUp
  <2> QED BY <1>1, <2>1, <2>2 DEF LockInv, Recorded, Open, Guarded
<1>6. \A v \in Workers, o \in Ops : job'[v][o] = "none"
  BY <1>0, <1>1, <1>2, CallFacts
<1> QED BY <1>3, <1>4, <1>5, <1>6 DEF LockInv

(* Locks that matter are renewed before their last time unit passes.        *)
LEMMA ElapseLocks ==
  ASSUME Standalone, ReplayInv, LockInv, Elapse
  PROVE  LockInv'
<1>0. TypeOK /\ Alone BY DEF ReplayInv
<1>1. /\ OnTime /\ \A w \in Workers : Live(w) => LoopFree(w)
      /\ UNCHANGED <<state, attempt, native, policy, proc, batch, pc, job, confirmed>>
  BY DEF Elapse, Standalone, procVars, ghosts
<1>2. ASSUME NEW s \in Scopes
      PROVE  /\ lock'[s].op = lock[s].op /\ lock'[s].owner = lock[s].owner
             /\ lock[s].ttl > 1 => lock'[s].ttl > 0
  <2>1. lock'[s] = [lock[s] EXCEPT !.ttl = Earlier(lock[s].ttl)] BY DEF Elapse
  <2> QED BY <1>0, <2>1, ScopeTypes DEF LockRows, Earlier
<1>3. \A v \in Workers : Launched(v)'
  BY <1>0, <1>1 DEF Alone, NothingLeft, LoopFree, Launched
<1>4. ASSUME NEW o \in Ops PROVE Recorded(o)' /\ Guarded(o)'
  <2>1. Recorded(o)' BY <1>1 DEF LockInv, Recorded, Open, Abandoned
  <2>2. Guarded(o)'
    <3>1. ASSUME state[o] = "unknown", NEW s \in ScopesOf[o]
          PROVE  lock'[s].op = o /\ (SomeoneUp => lock'[s].ttl > 0)
      <4>1. s \in Scopes /\ lock[s].op = o /\ o # NoOp
        BY <1>0, <3>1, ScopeTypes DEF LockInv, Guarded
      <4>2. SomeoneUp => lock[s].ttl > 1 BY <1>1, <3>1, <4>1 DEF OnTime, SomeoneUp
      <4> QED BY <1>2, <4>1, <4>2
    <3> QED BY <1>1, <3>1 DEF Guarded, SomeoneUp
  <2> QED BY <2>1, <2>2
<1>5. ASSUME NEW v \in Workers, NEW o \in Ops, job[v][o] # "none" PROVE Working(v, o)'
  <2>1. Holds(v, o)'
    <3>1. ASSUME NEW s \in ScopesOf[o]
          PROVE  lock'[s].op = o /\ lock'[s].owner = v /\ lock'[s].ttl > 0
      <4>1. s \in Scopes /\ lock[s].op = o /\ lock[s].owner = v
        BY <1>0, <1>5, ScopeTypes DEF LockInv, Working, Holds
      <4>2. lock[s].ttl > 1 BY <1>1, <1>5, <4>1 DEF OnTime
      <4> QED BY <1>2, <4>1, <4>2
    <3> QED BY <3>1 DEF Holds
  <2> QED BY <1>1, <1>5, <2>1 DEF LockInv, Working, Live
<1> QED BY <1>1, <1>3, <1>4, <1>5 DEF LockInv, InOrder

LEMMA InitLocks == Init => LockInv
<1> SUFFICES ASSUME Init PROVE LockInv
  OBVIOUS
<1>1. InOrder /\ \A w \in Workers : Launched(w)
  BY DEF Init, InOrder, Launched
<1>2. \A o \in Ops : Recorded(o) /\ Guarded(o)
  BY DEF Init, Recorded, Guarded
<1>3. \A w \in Workers, o \in Ops : job[w][o] = "none"
  BY DEF Init
<1> QED BY <1>1, <1>2, <1>3 DEF LockInv

LEMMA StepLocks ==
  ASSUME Standalone, ReplayInv, LockInv, [Next]_vars
  PROVE  LockInv'
<1>1. ASSUME NEW w \in Workers, Request(w) PROVE LockInv'
  BY <1>1, SubmitLocks, CancelLocks, ResolveLocks, SetPolicyLocks DEF Request
<1>2. ASSUME NEW w \in Workers, Dispatch(w) PROVE LockInv'
  BY <1>2, ReadRowLocks, AcquireLocksLocks, ClaimLocks DEF Dispatch
<1>3. ASSUME NEW w \in Workers, WorkerStep(w) PROVE LockInv'
  BY <1>1, <1>2, <1>3, HandlerLocks, TickLocks, StartLocks, StopLocks, ExitLocks, Zenon
     DEF WorkerStep
<1>4. CASE Elapse BY <1>4, ElapseLocks
<1>5. CASE UNCHANGED vars
  BY <1>5 DEF vars, opVars, procVars, ghosts, LockInv, InOrder, Launched, Target, Recorded, Open,
              Abandoned, Guarded, SomeoneUp, Working, Live, Holds
<1> QED BY <1>3, <1>4, <1>5 DEF Next

-----------------------------------------------------------------------------
(* The refinement.                                                          *)

(* What may become of an operation whose mutation is not sent in this step. *)
Lawful(o) ==
  \/ state'[o] = state[o]
  \/ Open(o) /\ state'[o] \in InProgress
  \/ state[o] = "absent" /\ state'[o] = "queued"
  \/ Open(o) /\ execs[o] > 0 /\ state'[o] \in {"succeeded", "failed", "unknown"}
  \/ Open(o) /\ execs[o] = 0 /\ state'[o] = "cancelled"
  \/ (Open(o) /\ execs[o] > 0) /\ state'[o] = "cancelled" /\ o \in confirmed'
  \/ state[o] = "unknown" /\ state'[o] \in Releasing /\ (state'[o] = "cancelled" => o \in confirmed')

EngineInv == ReplayInv /\ LockInv

LEMMA LawfulSteps ==
  ASSUME EngineInv, TypeOK', UNCHANGED execs, confirmed \subseteq confirmed',
         \A o \in Ops : Lawful(o)
  PROVE  Contract!ContractNext
<1>0. TypeOK BY DEF EngineInv, ReplayInv
<1> DEFINE phase == [o \in Ops |-> PhaseOf(o)]
<1>1. \A o \in Ops : PhaseOf(o)' \in Contract!Phases
  BY <1>0 DEF PhaseOf, Open, TypeOK, States, Terminal, Releasing, Contract!Phases, Contract!Results
<1>2. ASSUME NEW o \in Ops
      PROVE  \/ Contract!Accept(o) \/ Contract!Send(o) \/ Contract!Withdraw(o)
             \/ Contract!Conclude(o) \/ Contract!LoseTrack(o) \/ Contract!Keep(o)
  <2>1. execs'[o] = execs[o] /\ execs[o] \in Nat BY <1>0 DEF TypeOK
  <2>2. state[o] = "absent" => execs[o] = 0
    BY DEF EngineInv, ReplayInv, LockInv, Recorded, Counted
  <2>3. CASE state'[o] = state[o]
    BY <2>1, <2>3 DEF Contract!Keep, PhaseOf, Open
  <2>4. CASE Open(o) /\ state'[o] \in InProgress
    BY <2>1, <2>4 DEF Contract!Keep, PhaseOf, Open
  <2>5. CASE state[o] = "absent" /\ state'[o] = "queued"
    BY <2>1, <2>2, <2>5 DEF Contract!Accept, PhaseOf, Open, InProgress, DueStates
  <2>6. CASE Open(o) /\ execs[o] > 0 /\ state'[o] \in {"succeeded", "failed", "unknown"}
    BY <2>1, <2>6 DEF Contract!Conclude, Contract!LoseTrack, Contract!Results, PhaseOf, Open,
                      InProgress, DueStates
  <2>7. CASE Open(o) /\ execs[o] = 0 /\ state'[o] = "cancelled"
    BY <2>1, <2>7 DEF Contract!Withdraw, PhaseOf, Open, InProgress, DueStates
  <2>8. CASE Open(o) /\ execs[o] > 0 /\ state'[o] = "cancelled" /\ o \in confirmed'
    BY <2>1, <2>8 DEF Contract!Conclude, Contract!Results, PhaseOf, Open, InProgress, DueStates
  <2>9. CASE /\ state[o] = "unknown" /\ state'[o] \in Releasing
             /\ state'[o] = "cancelled" => o \in confirmed'
    BY <2>1, <2>9 DEF Contract!Conclude, Contract!Results, PhaseOf, Open, InProgress, DueStates,
                      Releasing
  <2> QED BY <2>3, <2>4, <2>5, <2>6, <2>7, <2>8, <2>9 DEF Lawful
<1>3. phase' \in [Ops -> Contract!Phases] BY <1>1
<1>4. execs' \in [Ops -> Nat] /\ confirmed' \subseteq Ops BY DEF TypeOK
<1> QED BY <1>2, <1>3, <1>4 DEF Contract!ContractNext

(* An execution starts while every other operation that is unknown keeps    *)
(* its scopes, which therefore are not those of the dispatch.               *)
LEMMA ExecutionSends ==
  ASSUME EngineInv, TypeOK', NEW w \in Workers, NEW o \in Ops, ClaimExecute(w, o)
  PROVE  Contract!ContractNext
<1>0. TypeOK /\ Alone BY DEF EngineInv, ReplayInv
<1> DEFINE phase == [p \in Ops |-> PhaseOf(p)]
<1>1. /\ state[o] \in {"queued", "waiting_retry"} /\ state' = [state EXCEPT ![o] = "running"]
      /\ execs' = [execs EXCEPT ![o] = @ + 1] /\ UNCHANGED confirmed
      /\ Dispatching(w, o, "claim")
  BY DEF ClaimExecute, ClaimRow
<1>2. Holds(w, o) BY <1>0, <1>1, DispatchFacts DEF EngineInv
<1>3. execs[o] < Allowance(o) /\ execs[o] \in Nat
  BY <1>0, <1>1 DEF EngineInv, ReplayInv, Counted, WithinAllowance, Startable, TypeOK
<1>4. ASSUME NEW p \in Ops \ {o}, state[p] = "unknown" PROVE ScopesOf[o] \cap ScopesOf[p] = {}
  BY <1>2, <1>4 DEF EngineInv, LockInv, Guarded, Holds
<1>5. \A p \in Ops : PhaseOf(p) = "unknown" => state[p] = "unknown"
  BY DEF PhaseOf
<1>6. Contract!Undisturbed(o)
  BY <1>4, <1>5 DEF Contract!Undisturbed
<1>7. PhaseOf(o) \in {"waiting", "sent"} /\ PhaseOf(o)' = "sent" /\ execs'[o] = execs[o] + 1
  BY <1>0, <1>1, <1>3 DEF PhaseOf, Open, InProgress, DueStates, TypeOK
<1>8. Contract!Send(o)
  BY <1>3, <1>6, <1>7 DEF Contract!Send, Allowance
<1>9. \A p \in Ops \ {o} : Contract!Keep(p)
  BY <1>0, <1>1 DEF Contract!Keep, PhaseOf, Open, TypeOK
<1>10. \A p \in Ops : PhaseOf(p)' \in Contract!Phases
  BY DEF PhaseOf, Open, TypeOK, States, Terminal, Releasing, Contract!Phases, Contract!Results
<1>11. phase' \in [Ops -> Contract!Phases] BY <1>10
<1>12. execs' \in [Ops -> Nat] /\ confirmed' \subseteq Ops BY DEF TypeOK
<1>13. confirmed \subseteq confirmed' BY <1>1
<1> QED BY <1>8, <1>9, <1>11, <1>12, <1>13 DEF Contract!ContractNext

(* A step that writes the state of one operation.                           *)
LEMMA OneLawful ==
  ASSUME TypeOK, NEW o \in Ops, NEW st, state' = [state EXCEPT ![o] = st], Lawful(o)
  PROVE  \A p \in Ops : Lawful(p)
BY DEF Lawful, TypeOK

LEMMA RequestLawful ==
  ASSUME EngineInv, NEW w \in Workers, Request(w)
  PROVE  UNCHANGED execs /\ confirmed \subseteq confirmed' /\ \A o \in Ops : Lawful(o)
<1>0. TypeOK /\ Alone BY DEF EngineInv, ReplayInv
<1>1. UNCHANGED execs /\ confirmed \subseteq confirmed'
  BY DEF Request, Submit, RequestCancel, ResolveUnknown, SetPolicy, ghosts
<1>2. \A o \in Ops : execs[o] = attempt[o] /\ attempt[o] \in Nat
  BY <1>0 DEF EngineInv, ReplayInv, Counted, TypeOK
<1>3. \A o \in Ops : job[w][o] \in HandlerCall => attempt[o] > 0
  BY <1>0, CallFacts DEF EngineInv, HandlerCall
<1>4. \A o \in Ops : Started(o) <=> attempt[o] > 0
  BY DEF Started, EngineInv, LockInv, Recorded
<1>5. ASSUME NEW o \in Ops, Submit(w, o) PROVE \A p \in Ops : Lawful(p)
  <2>1. state' = [state EXCEPT ![o] = "queued"] /\ state[o] = "absent" BY <1>5 DEF Submit
  <2> QED BY <1>0, <2>1, OneLawful DEF Lawful, TypeOK
<1>6. ASSUME NEW o \in Ops, RequestCancel(w, o) PROVE \A p \in Ops : Lawful(p)
  <2>1. CASE job[w][o] \in HandlerCall /\ CancelEntry(o) \in Terminal
    <3>1. state' = [state EXCEPT ![o] = CancelEntry(o)] /\ Open(o) /\ CancelEntry(o) = "unknown"
      BY <1>3, <1>4, <1>6, <2>1 DEF RequestCancel, Finish, CancelEntry, Terminal, Releasing
    <3> QED BY <1>0, <1>2, <1>3, <2>1, <3>1, OneLawful DEF Lawful, TypeOK
  <2>2. CASE ~(job[w][o] \in HandlerCall /\ CancelEntry(o) \in Terminal)
    <3>1. state' = [state EXCEPT ![o] = "cancel_requested"] /\ Open(o)
      BY <1>6, <2>2 DEF RequestCancel
    <3> QED BY <1>0, <3>1, OneLawful DEF Lawful, TypeOK, InProgress, DueStates
  <2> QED BY <2>1, <2>2
<1>7. ASSUME NEW o \in Ops, NEW r \in Releasing, ResolveUnknown(w, o, r)
      PROVE  \A p \in Ops : Lawful(p)
  <2>1. /\ state' = [state EXCEPT ![o] = r] /\ state[o] = "unknown"
        /\ r = "cancelled" => o \in confirmed'
    BY <1>7 DEF ResolveUnknown
  <2> QED BY <1>0, <2>1, OneLawful DEF Lawful, TypeOK
<1>8. ASSUME NEW m \in Modes, SetPolicy(w, m) PROVE \A p \in Ops : Lawful(p)
  <2>1. CASE m # "emergency_stop" BY <1>8, <2>1 DEF SetPolicy, Lawful
  <2>2. CASE m = "emergency_stop"
    <3>1. \A p \in Ops : state'[p] = StoppedState(w, p)
      BY <1>8, <2>2 DEF SetPolicy
    <3> QED BY <1>2, <1>3, <1>4, <3>1
            DEF Lawful, StoppedState, CancelEntry, InProgress, DueStates
  <2> QED BY <2>1, <2>2
<1> QED BY <1>1, <1>5, <1>6, <1>7, <1>8 DEF Request

LEMMA DispatchLawful ==
  ASSUME EngineInv, NEW w \in Workers, NEW o \in Ops,
         \/ ReadRow(w, o) \/ AcquireLocks(w, o) \/ ClaimLost(w, o)
         \/ ClaimReconcile(w, o) \/ ClaimCancel(w, o)
  PROVE  UNCHANGED <<execs, confirmed>> /\ \A p \in Ops : Lawful(p)
<1>0. TypeOK /\ Alone /\ FreshRow /\ LockInv BY DEF EngineInv, ReplayInv
<1>1. UNCHANGED <<execs, confirmed>>
  BY DEF ReadRow, AcquireLocks, ClaimLost, ClaimReconcile, ClaimCancel, ghosts
<1>s. SUFFICES \A p \in Ops : Lawful(p)
  BY <1>1
<1>2. PICK at : Dispatching(w, o, at)
  BY DEF ReadRow, AcquireLocks, ClaimLost, ClaimReconcile, ClaimCancel
<1>3. Live(w) /\ o = Target(w) /\ state[o] # "absent" BY <1>0, <1>2, DispatchFacts
<1>4. execs[o] = attempt[o] /\ attempt[o] \in Nat
  BY <1>0 DEF EngineInv, ReplayInv, Counted, TypeOK
<1>5. ASSUME UNCHANGED state PROVE \A p \in Ops : Lawful(p)
  BY <1>5 DEF Lawful
<1>6. CASE ReadRow(w, o)
  <2>1. CASE UNCHANGED opVars BY <1>5, <2>1 DEF opVars
  <2>2. ASSUME state[o] \notin Terminal PROVE Open(o)
    BY <1>0, <1>3, <2>2 DEF Open, TypeOK, States
  <2>3. CASE /\ state[o] \notin Terminal
             /\ Schedule(o, IF state[o] = "cancel_requested" THEN "cancel_requested"
                                                           ELSE "reconciling", 1, lock)
    <3>1. state' = [state EXCEPT ![o] = IF state[o] = "cancel_requested" THEN "cancel_requested"
                                                           ELSE "reconciling"]
      BY <2>3 DEF Schedule
    <3>2. Lawful(o) BY <1>0, <2>2, <2>3, <3>1 DEF Lawful, TypeOK, InProgress, DueStates
    <3> QED BY <1>0, <3>1, <3>2, OneLawful
  <2>4. CASE /\ state[o] \notin Terminal /\ state[o] # "cancel_requested"
             /\ IF policy = "emergency_stop"
                THEN Finish(o, "cancelled", lock)
                ELSE \E d \in Delays : Schedule(o, state[o], d, lock)
    <3>1. policy # "emergency_stop" BY <1>0, <2>2, <2>4 DEF LockInv, Recorded
    <3>2. state' = [state EXCEPT ![o] = state[o]] BY <2>4, <3>1 DEF Schedule
    <3> QED BY <1>0, <1>5, <3>2 DEF TypeOK
  <2> QED BY <1>6, <2>1, <2>3, <2>4, Zenon DEF ReadRow
<1>7. CASE AcquireLocks(w, o)
  <2>1. CASE UNCHANGED opVars BY <1>5, <2>1 DEF opVars
  <2>2. CASE Schedule(o, row[w], 1, Unexpired(lock))
    <3>1. row[w] = state[o] BY <1>0, <1>3, <1>7 DEF AcquireLocks, Dispatching, FreshRow, Target
    <3>2. state' = [state EXCEPT ![o] = state[o]] BY <2>2, <3>1 DEF Schedule
    <3> QED BY <1>0, <1>5, <3>2 DEF TypeOK
  <2> QED BY <1>7, <2>1, <2>2, Zenon DEF AcquireLocks
<1>8. CASE ClaimLost(w, o) BY <1>5, <1>8 DEF ClaimLost, opVars
<1>9. CASE ClaimReconcile(w, o)
  <2>1. state[o] = "reconciling" /\ o \in Handled[w]
    BY <1>0, <1>9, DispatchFacts DEF ClaimReconcile
  <2>2. attempt[o] > 0 BY <1>3, <2>1 DEF EngineInv, LockInv, Recorded, Abandoned, Live
  <2>3. PICK st \in {"reconciling", "unknown"} : state' = [state EXCEPT ![o] = st]
    BY <1>9 DEF ClaimReconcile, ClaimRow, Finish
  <2> QED BY <1>0, <1>4, <2>1, <2>2, <2>3, OneLawful DEF Lawful, TypeOK, Open, InProgress, DueStates
<1>10. CASE ClaimCancel(w, o)
  <2>1. state[o] = "cancel_requested" BY <1>10 DEF ClaimCancel
  <2>2. state' = [state EXCEPT ![o] = CancelEntry(o)]
    BY <1>10 DEF ClaimCancel, ClaimRow, Finish
  <2>3. Started(o) <=> attempt[o] > 0 BY <1>0 DEF Started, LockInv, Recorded
  <2>4. Lawful(o)
    BY <1>0, <1>4, <2>1, <2>2, <2>3 DEF Lawful, TypeOK, CancelEntry, Open, InProgress, DueStates
  <2> QED BY <1>0, <2>2, <2>4, OneLawful
<1> QED BY <1>6, <1>7, <1>8, <1>9, <1>10

LEMMA HandlerLawful ==
  ASSUME EngineInv, NEW w \in Workers, NEW o \in Ops,
         Heartbeat(w, o) \/ BindNativeTask(w, o) \/ HandlerEnds(w, o)
  PROVE  UNCHANGED execs /\ confirmed \subseteq confirmed' /\ \A p \in Ops : Lawful(p)
<1>0. TypeOK /\ LockInv BY DEF EngineInv, ReplayInv
<1>1. job[w][o] # "none" /\ UNCHANGED execs /\ confirmed \subseteq confirmed'
  BY DEF Heartbeat, BindNativeTask, HandlerEnds, HandlerReturns, HandlerThrows,
         HandlerTimesOut, CancelReturns, Calls, Awaits, HandlerCall, ghosts
<1>2. Open(o) /\ execs[o] > 0
  BY <1>0, <1>1, CallFacts DEF EngineInv, ReplayInv, Counted
<1>3. ASSUME NEW st \in {"succeeded", "failed", "unknown", "reconciling", "waiting_retry"},
             state' = [state EXCEPT ![o] = st]
      PROVE  \A p \in Ops : Lawful(p)
  <2>1. Lawful(o) BY <1>0, <1>2, <1>3 DEF Lawful, TypeOK, InProgress, DueStates
  <2> QED BY <1>0, <1>3, <2>1, OneLawful
<1>4. ASSUME Heartbeat(w, o) \/ BindNativeTask(w, o) PROVE \A p \in Ops : Lawful(p)
  BY <1>4 DEF Heartbeat, BindNativeTask, Lawful
<1>5. ASSUME NEW r \in Terminal \cup {"reconciling"}, HandlerReturns(w, o, r)
      PROVE  \A p \in Ops : Lawful(p)
  <2>1. state' = [state EXCEPT ![o] = r] /\ r # "cancelled"
    <3>1. CASE r = "reconciling"
      <4>1. \E d \in Delays : Schedule(o, "reconciling", d, lock)
        BY <1>5, <3>1 DEF HandlerReturns
      <4> QED BY <3>1, <4>1 DEF Schedule
    <3>2. CASE r # "reconciling" BY <1>5, <3>2 DEF HandlerReturns, Finish
    <3> QED BY <3>1, <3>2
  <2> QED BY <1>3, <2>1 DEF Terminal, Releasing
<1>6. ASSUME NEW t \in BOOLEAN, HandlerThrows(w, o, t) PROVE \A p \in Ops : Lawful(p)
  <2>1. \/ Schedule(o, "reconciling", 1, lock) \/ Finish(o, "failed", lock)
        \/ \E d \in Delays : Schedule(o, "waiting_retry", d, lock)
    BY <1>6, Zenon DEF HandlerThrows
  <2>2. \E st \in {"reconciling", "failed", "waiting_retry"} : state' = [state EXCEPT ![o] = st]
    BY <2>1 DEF Schedule, Finish
  <2> QED BY <1>3, <2>2
<1>7. ASSUME HandlerTimesOut(w, o) PROVE \A p \in Ops : Lawful(p)
  <2>1. Schedule(o, "reconciling", 1, lock) \/ Finish(o, "unknown", lock)
    BY <1>7, Zenon DEF HandlerTimesOut
  <2> QED BY <1>3, <2>1 DEF Schedule, Finish
<1>8. ASSUME NEW ok \in BOOLEAN, CancelReturns(w, o, ok) PROVE \A p \in Ops : Lawful(p)
  <2>1. state' = [state EXCEPT ![o] = IF ok THEN "cancelled" ELSE "unknown"]
        /\ (ok => o \in confirmed')
    BY <1>8 DEF CancelReturns, Finish
  <2>2. Lawful(o) BY <1>0, <1>2, <2>1 DEF Lawful, TypeOK
  <2> QED BY <1>0, <2>1, <2>2, OneLawful
<1> QED BY <1>1, <1>4, <1>5, <1>6, <1>7, <1>8, Zenon DEF HandlerEnds

LEMMA LifeLawful ==
  ASSUME EngineInv, NEW w \in Workers,
         (\E r \in BOOLEAN : Tick(w, r)) \/ Start(w) \/ Stop(w) \/ Exit(w)
  PROVE  UNCHANGED <<execs, confirmed>> /\ \A p \in Ops : Lawful(p)
<1>0. TypeOK /\ LockInv BY DEF EngineInv, ReplayInv
<1>1. UNCHANGED <<execs, confirmed>> BY DEF Tick, Start, Stop, Exit, ghosts
<1>2. ASSUME NEW p \in Ops PROVE Lawful(p)
  <2>1. job[w][p] \in HandlerCall => Open(p) BY <1>0, CallFacts DEF HandlerCall
  <2>2. \/ state'[p] = state[p]
        \/ Open(p) /\ state'[p] \in InProgress
    BY <2>1 DEF Tick, Start, Stop, Exit, opVars, Orphaned, Recovered, Open, InProgress, DueStates
  <2> QED BY <2>2 DEF Lawful
<1> QED BY <1>1, <1>2

LEMMA ContractStep ==
  ASSUME EngineInv, TypeOK', [Next]_vars
  PROVE  [Contract!ContractNext]_(Contract!contractVars)
<1>1. CASE UNCHANGED vars
  BY <1>1 DEF vars, opVars, ghosts, Contract!contractVars, PhaseOf, Open
<1>2. CASE Elapse
  BY <1>2 DEF Elapse, ghosts, Contract!contractVars, PhaseOf, Open
<1>3. ASSUME NEW w \in Workers, WorkerStep(w) PROVE Contract!ContractNext
  <2>1. CASE Request(w) BY <2>1, RequestLawful, LawfulSteps
  <2>2. CASE Dispatch(w)
    <3>1. PICK o \in Ops :
            \/ ReadRow(w, o) \/ AcquireLocks(w, o) \/ ClaimLost(w, o)
            \/ ClaimExecute(w, o) \/ ClaimReconcile(w, o) \/ ClaimCancel(w, o)
      BY <2>2 DEF Dispatch
    <3> QED BY <3>1, DispatchLawful, ExecutionSends, LawfulSteps
  <2>3. CASE \E o \in Ops : Heartbeat(w, o) \/ BindNativeTask(w, o) \/ HandlerEnds(w, o)
    BY <2>3, HandlerLawful, LawfulSteps
  <2>4. CASE (\E r \in BOOLEAN : Tick(w, r)) \/ Start(w) \/ Stop(w) \/ Exit(w)
    BY <2>4, LifeLawful, LawfulSteps
  <2> QED BY <1>3, <2>1, <2>2, <2>3, <2>4, Zenon DEF WorkerStep
<1> QED BY <1>1, <1>2, <1>3 DEF Next

LEMMA ContractStart ==
  ASSUME Init
  PROVE  Contract!ContractInit
BY DEF Init, Contract!ContractInit, PhaseOf, Open, InProgress, DueStates

-----------------------------------------------------------------------------
(* The theorems.                                                            *)

LEMMA EngineInvHolds == Standalone => (Spec => []EngineInv)
<1> SUFFICES ASSUME Standalone PROVE Spec => []EngineInv
  OBVIOUS
<1>1. Init => EngineInv
  BY ReplayInvInit, InitLocks DEF EngineInv
<1>2. EngineInv /\ [Next]_vars => EngineInv'
  BY ReplayInvStep, StepLocks DEF EngineInv, Standalone
<1> QED BY <1>1, <1>2, PTL DEF Spec

LEMMA EngineInvImplies ==
  EngineInv => CallsHoldLocks /\ UnknownKeepsScopes /\ ExclusiveCalls /\ CancelledIsConfirmed
<1> SUFFICES ASSUME EngineInv
             PROVE  CallsHoldLocks /\ UnknownKeepsScopes /\ ExclusiveCalls /\ CancelledIsConfirmed
  OBVIOUS
<1>0. TypeOK /\ Alone /\ Counted /\ LockInv BY DEF EngineInv, ReplayInv
<1>1. CallsHoldLocks BY <1>0 DEF LockInv, Working, Holds, CallsHoldLocks
<1>2. UnknownKeepsScopes BY <1>0 DEF LockInv, Guarded, UnknownKeepsScopes
<1>3. ASSUME NEW v \in Workers, NEW w \in Workers, NEW o \in Ops, NEW p \in Ops,
             job[v][o] # "none", job[w][p] # "none",
             ScopesOf[o] \cap ScopesOf[p] # {} \/ o = p
      PROVE  v = w /\ o = p
  <2>1. Live(v) /\ Live(w) /\ Holds(v, o) /\ Holds(w, p) BY <1>0, <1>3, CallFacts
  <2> QED BY <1>0, <1>3, <2>1 DEF Alone, OneUp, Holds
<1>4. CancelledIsConfirmed
  BY <1>0 DEF LockInv, Recorded, Counted, CancelledIsConfirmed
<1> QED BY <1>1, <1>2, <1>3, <1>4 DEF ExclusiveCalls

\* With one process at a time that is never late, and handlers that a newer
\* incarnation may lack but never adds: a running call holds unexpired locks on
\* all its scopes, through retries, cancellations, emergency stops and restarts.
THEOREM CallsAreCovered == Standalone => (Spec => []CallsHoldLocks)
BY EngineInvHolds, EngineInvImplies, PTL

\* Under the same assumptions, two calls that run at the same time share no scope.
THEOREM CallsExcludeEachOther == Standalone => (Spec => []ExclusiveCalls)
BY EngineInvHolds, EngineInvImplies, PTL

\* Under the same assumptions, nobody takes a scope of an operation that is unknown,
\* however often the process is restarted before an administrator resolves it.
THEOREM UnknownIsIsolated == Standalone => (Spec => []UnknownKeepsScopes)
BY EngineInvHolds, EngineInvImplies, PTL

\* Under the same assumptions, an operation whose mutation was sent is cancelled only
\* when the provider or an administrator confirmed it.
THEOREM CancellationIsConfirmed == Standalone => (Spec => []CancelledIsConfirmed)
BY EngineInvHolds, EngineInvImplies, PTL

\* Under the same assumptions, the engine with its rows, locks, timers and restarts
\* implements OperationContract.
THEOREM EngineRefinesContract == Standalone => (Spec => KeepsContract)
<1> SUFFICES ASSUME Standalone PROVE Spec => KeepsContract
  OBVIOUS
<1>1. Spec => []EngineInv /\ []TypeOK
  BY EngineInvHolds, TypeCorrect
<1>2. Init => Contract!ContractInit
  BY ContractStart
<1>3. EngineInv /\ TypeOK' /\ [Next]_vars => [Contract!ContractNext]_(Contract!contractVars)
  BY ContractStep
<1> QED BY <1>1, <1>2, <1>3, PTL DEF Spec, KeepsContract, Contract!ContractSpec
=============================================================================
