------------------------- MODULE ProviderOperations -------------------------
(***************************************************************************)
(* The durable provider-operation engine of Docker Dash                    *)
(* (src/services/provider-operations/engine.js).                           *)
(*                                                                         *)
(* Operations are rows of a SQLite table; resource locks are rows of       *)
(* another one.  A worker is one incarnation of the server process: it     *)
(* polls the due rows, takes the locks of a row, claims it and runs its    *)
(* handler.  A restarted process is another worker, since its owner token  *)
(* is random; two workers up at once are two replicas on one database.     *)
(*                                                                         *)
(* A JavaScript worker runs to completion between two awaits, so the part  *)
(* of a dispatch before its first await is interleaved only with the SQL   *)
(* of the other workers, with user requests they serve, and with a crash.  *)
(* Time is kept as countdowns: Elapse makes one unit pass for all of them. *)
(***************************************************************************)
EXTENDS Integers, FiniteSets

CONSTANTS
  Ops,          \* operations, one per idempotency key, numbered in creation order
  Scopes,       \* lock scopes
  ScopesOf,     \* the lock scopes of each operation
  Workers,      \* worker incarnations, numbered in the order they start
  Handled,      \* for each worker, the operations whose handler is registered
  Idempotent,   \* operations whose handler is declared idempotent
  Reconcilable, \* operations whose handler has a reconcile()
  Cancellable,  \* operations whose handler has a cancel()
  Native,       \* operations whose handler returns a native task reference
  MaxAttempts,  \* max_attempts of each operation's retry policy
  Concurrency,  \* rows launched by one tick
  Lease,        \* lease of a worker and of its locks, in time units
  UnknownTtl,   \* expiry given to the locks of an unknown operation
  Delays,       \* delays a handler or a retry policy may ask for
  Modes,        \* policies an administrator sets ("frozen" stands for read_only,
                \* and for a policy that cannot be read, too)
  MaxUp,        \* replicas up at once (1: standalone)
  Crashes,      \* may a worker die without a graceful stop?
  Punctual,     \* are polls and heartbeats never late by a whole time unit?
  AttemptCap    \* bound on the number of attempts explored

ASSUME NumberedAssumption ==
  /\ Ops \subseteq Nat \ {0} /\ IsFiniteSet(Ops)
  /\ Workers \subseteq Nat \ {0} /\ IsFiniteSet(Workers)
ASSUME HandlerAssumption ==
  /\ ScopesOf \in [Ops -> SUBSET Scopes]
  /\ Handled \in [Workers -> SUBSET Ops]
  /\ Idempotent \subseteq Ops /\ Reconcilable \subseteq Ops
  /\ Cancellable \subseteq Ops /\ Native \subseteq Ops
  /\ MaxAttempts \in [Ops -> Nat \ {0}]
ASSUME BoundAssumption ==
  /\ Concurrency \in Nat \ {0} /\ MaxUp \in Nat \ {0} /\ AttemptCap \in Nat
  /\ Lease \in Nat \ {0} /\ UnknownTtl \in Nat \ {0} /\ UnknownTtl > Lease
  /\ Delays \subseteq Nat \ {0} /\ 1 \in Delays
  /\ Modes \subseteq {"active", "frozen", "emergency_stop"}
  /\ Crashes \in BOOLEAN /\ Punctual \in BOOLEAN

VARIABLES
  state,    \* state column of each operation, "absent" before its row exists
  attempt,  \* attempt column
  avail,    \* time left until available_at
  owner,    \* lease_owner column
  lease,    \* time left until lease_expires_at
  native,   \* operations with a stored native task reference
  lock,     \* rows of provider_operation_locks, by scope
  policy,   \* effective control policy
  proc,     \* life cycle of each worker process
  batch,    \* rows a tick has selected and not yet dispatched
  pc,       \* where the dispatch of the first row of the batch stands
  row,      \* state column as that dispatch read it
  job,      \* handler call a worker awaits, per operation
  execs,    \* history: number of execute() calls
  confirmed \* history: operations whose cancellation someone vouched for

opVars   == <<state, attempt, avail, owner, lease, native>>
procVars == <<proc, batch, pc, row, job>>
ghosts   == <<execs, confirmed>>
vars     == <<opVars, lock, policy, procVars, ghosts>>

Releasing  == {"succeeded", "failed", "cancelled"}
Terminal   == Releasing \cup {"unknown"}
DueStates  == {"queued", "waiting_retry", "reconciling", "cancel_requested"}
InProgress == DueStates \cup {"running"}
States     == InProgress \cup Terminal \cup {"absent"}
Leased     == {"running", "reconciling", "cancel_requested"}
HandlerCall == {"execute", "reconcile"}

NoOp         == 0
NoWorker     == 0
UnknownState == -1  \* lease_owner of a lock inserted for an unknown operation
NoLock       == [op |-> NoOp, owner |-> NoWorker, ttl |-> 0]
LeastOf(S)   == CHOOSE x \in S : \A y \in S : x <= y

Init ==
  /\ state = [o \in Ops |-> "absent"] /\ attempt = [o \in Ops |-> 0]
  /\ avail = [o \in Ops |-> 0]
  /\ owner = [o \in Ops |-> NoWorker] /\ lease = [o \in Ops |-> 0]
  /\ native = {} /\ lock = [s \in Scopes |-> NoLock] /\ policy = "active"
  /\ proc = [w \in Workers |-> "new"] /\ batch = [w \in Workers |-> {}]
  /\ pc = [w \in Workers |-> "idle"] /\ row = [w \in Workers |-> "absent"]
  /\ job = [w \in Workers |-> [o \in Ops |-> "none"]]
  /\ execs = [o \in Ops |-> 0] /\ confirmed = {}

-----------------------------------------------------------------------------
(* The lock table.  Each operator returns the table after one SQL statement *)
(* or transaction of the engine.                                            *)

BugUnexpired(ls) == ls
Unexpired(ls) ==
  [s \in Scopes |-> IF ls[s].ttl = 0 THEN NoLock ELSE ls[s]]

\* free scopes, or scopes this worker already holds for this very operation
BugOpOnly(ls, w, o) == \A s \in ScopesOf[o] : ls[s].op \in {NoOp, o}
CanAcquire(ls, w, o) ==
  \A s \in ScopesOf[o] : ls[s].op = NoOp \/ (ls[s].op = o /\ ls[s].owner = w)

BugAcquired(ls, w, o) ==
  [s \in Scopes |-> IF ScopesOf[o] = {s}
                    THEN [op |-> o, owner |-> w, ttl |-> Lease] ELSE ls[s]]
Acquired(ls, w, o) ==
  [s \in Scopes |-> IF s \in ScopesOf[o]
                    THEN [op |-> o, owner |-> w, ttl |-> Lease] ELSE ls[s]]

Released(ls, o) ==
  [s \in Scopes |-> IF ls[s].op = o THEN NoLock ELSE ls[s]]

\* _renewLeaseForWait and _renewUnknownLocks: whoever owns the row
Extended(ls, o, ttl) ==
  [s \in Scopes |-> IF ls[s].op = o THEN [ls[s] EXCEPT !.ttl = ttl] ELSE ls[s]]

Renewed(ls, w, o) ==
  [s \in Scopes |-> IF ls[s].op = o /\ ls[s].owner = w
                    THEN [ls[s] EXCEPT !.ttl = Lease] ELSE ls[s]]

BugRefreshedUnknown(ls) == ls
RefreshedUnknown(ls) ==
  [s \in Scopes |->
     LET holders == {o \in Ops : state[o] = "unknown" /\ s \in ScopesOf[o]}
     IN  IF ls[s].op \in holders THEN [ls[s] EXCEPT !.ttl = UnknownTtl]
         ELSE IF holders # {} /\ ls[s].op = NoOp
              THEN [op |-> LeastOf(holders), owner |-> UnknownState, ttl |-> UnknownTtl]
              ELSE ls[s]]

BugFinishLocks(ls, o, outcome) == Released(ls, o)
FinishLocks(ls, o, outcome) ==
  IF outcome \in Releasing THEN Released(ls, o) ELSE Extended(ls, o, UnknownTtl)

-----------------------------------------------------------------------------
(* Updates of one operation row, and of its locks from the table ls.        *)

\* _finish: no condition on the state or on the owner of the row
Finish(o, outcome, ls) ==
  /\ state' = [state EXCEPT ![o] = outcome]
  /\ owner' = [owner EXCEPT ![o] = NoWorker] /\ lease' = [lease EXCEPT ![o] = 0]
  /\ lock' = FinishLocks(ls, o, outcome)
  /\ UNCHANGED <<attempt, avail>>

\* _schedule: no condition either
Schedule(o, st, delay, ls) ==
  /\ state' = [state EXCEPT ![o] = st] /\ avail' = [avail EXCEPT ![o] = delay]
  /\ owner' = [owner EXCEPT ![o] = NoWorker] /\ lease' = [lease EXCEPT ![o] = 0]
  /\ lock' = Extended(ls, o, delay + Lease)
  /\ UNCHANGED attempt

-----------------------------------------------------------------------------
(* Conditions and decisions.                                                *)

\* the last incarnation explored keeps running
HasSuccessor(w) == \E v \in Workers : v > w

Live(w)     == proc[w] \in {"up", "stopping"}
LoopFree(w) == Live(w) /\ pc[w] = "idle" /\ batch[w] = {}
Serves(w)   == proc[w] = "up" /\ LoopFree(w)
Ticking(w)  == batch[w] # {} \/ \E o \in Ops : job[w][o] # "none"
Due         == {o \in Ops : state[o] \in DueStates /\ avail[o] = 0}
Started(o)  == attempt[o] > 0 \/ o \in native
MayReport(w, o) == owner[o] = w /\ state[o] \in Leased

Open(o)    == state[o] \in InProgress

BugCanRetry(o) == o \in Idempotent /\ attempt[o] <= MaxAttempts[o]
CanRetry(o)    == o \in Idempotent /\ attempt[o] < MaxAttempts[o]

\* rows that recoverExpired() picks up, and what it makes of them
BugOrphaned(o) == state[o] = "cancel_requested" /\ (owner[o] = NoWorker \/ lease[o] = 0)
Orphaned(o) ==
  /\ state[o] \in {"running", "cancel_requested"}
  /\ owner[o] = NoWorker \/ lease[o] = 0
BugRecovered(o) == IF state[o] = "running" THEN "queued" ELSE state[o]
Recovered(o)    == IF state[o] = "running" THEN "reconciling" ELSE state[o]

BugCancelEntry(o) ==
  IF Started(o) /\ o \in Cancellable THEN "cancel_requested" ELSE "cancelled"
\* where _runCancel leaves the operation when it reaches its first await or ends
CancelEntry(o) ==
  IF ~Started(o) THEN "cancelled"
  ELSE IF o \in Cancellable THEN "cancel_requested" ELSE "unknown"

-----------------------------------------------------------------------------
(* Requests served by a worker's HTTP API.                                  *)

\* create(); a second create() with the same key returns the existing row
Submit(w, o) ==
  /\ Serves(w) /\ o \in Handled[w] /\ policy = "active" /\ state[o] = "absent"
  /\ \A p \in Ops : p < o => state[p] # "absent"
  /\ state' = [state EXCEPT ![o] = "queued"]
  /\ UNCHANGED <<attempt, avail, owner, lease, native, lock, policy, procVars, ghosts>>

\* the call that o's abort signal interrupts enters _runCancel
AbortedJob(w, o, entry) ==
  IF job[w][o] \in HandlerCall
  THEN IF entry = "cancel_requested" THEN "cancel" ELSE "none"
  ELSE job[w][o]

RequestCancel(w, o) ==
  /\ Serves(w) /\ Open(o)
  /\ LET entry == CancelEntry(o)
         ends  == job[w][o] \in HandlerCall /\ entry \in Terminal
     IN  /\ IF ends
            THEN Finish(o, entry, lock)
            ELSE /\ state' = [state EXCEPT ![o] = "cancel_requested"]
                 /\ UNCHANGED <<attempt, avail, owner, lease, lock>>
         /\ job' = [job EXCEPT ![w][o] = AbortedJob(w, o, entry)]
  /\ UNCHANGED <<native, policy, proc, batch, pc, row, ghosts>>

ResolveUnknown(w, o, resolution) ==
  /\ Serves(w) /\ state[o] = "unknown" /\ resolution \in Releasing
  /\ state' = [state EXCEPT ![o] = resolution]
  /\ lock' = Released(lock, o)
  /\ confirmed' = IF resolution = "cancelled" THEN confirmed \cup {o} ELSE confirmed
  /\ UNCHANGED <<attempt, avail, owner, lease, native, policy, procVars, execs>>

\* state in which applyEmergencyStop(), served by w, leaves operation o
StoppedState(w, o) ==
  IF ~Open(o) THEN state[o]
  ELSE IF Started(o) /\ job[w][o] \notin HandlerCall THEN "cancel_requested"
       ELSE CancelEntry(o)

\* PUT /policies: policy.set(), then applyEmergencyStop() over every open row
SetPolicy(w, mode) ==
  /\ Serves(w) /\ mode # policy /\ policy' = mode
  /\ IF mode # "emergency_stop"
     THEN UNCHANGED <<state, avail, owner, lease, lock, job>>
     ELSE LET stopped == {o \in Ops : Open(o)}
              ended   == {o \in stopped : StoppedState(w, o) \in Terminal}
          IN  /\ state' = [o \in Ops |-> StoppedState(w, o)]
              /\ avail' = [o \in Ops |-> IF o \in stopped /\ Started(o)
                                            /\ state[o] # "cancel_requested"
                                         THEN 0 ELSE avail[o]]
              /\ owner' = [o \in Ops |-> IF o \in ended THEN NoWorker ELSE owner[o]]
              /\ lease' = [o \in Ops |-> IF o \in ended THEN 0 ELSE lease[o]]
              /\ lock'  = [s \in Scopes |-> LET o == lock[s].op IN
                             IF o \in ended
                             THEN FinishLocks(lock, o, StoppedState(w, o))[s]
                             ELSE lock[s]]
              /\ job' = [job EXCEPT ![w] = [o \in Ops |->
                           IF o \in stopped /\ Started(o)
                           THEN AbortedJob(w, o, CancelEntry(o)) ELSE job[w][o]]]
  /\ UNCHANGED <<attempt, native, proc, batch, pc, row, ghosts>>

-----------------------------------------------------------------------------
(* The polling worker.                                                      *)

\* tick(): refresh the locks of unknown operations when a minute has passed,
\* and select the oldest due rows.  Every launched dispatch of the previous tick
\* has been awaited, so no row is active and the whole concurrency is free.
Tick(w, refresh) ==
  /\ Serves(w) /\ ~Ticking(w) /\ (refresh \/ Due # {})
  /\ batch' = [batch EXCEPT ![w] =
                 {o \in Due : Cardinality({p \in Due : p < o}) < Concurrency}]
  /\ lock' = IF refresh THEN RefreshedUnknown(lock) ELSE lock
  /\ UNCHANGED <<opVars, policy, proc, pc, row, job, ghosts>>

Dispatching(w, o, at) ==
  /\ Live(w) /\ pc[w] = at /\ batch[w] # {} /\ o = LeastOf(batch[w])

EndDispatch(w, o) ==
  /\ batch' = [batch EXCEPT ![w] = @ \ {o}]
  /\ pc' = [pc EXCEPT ![w] = "idle"] /\ row' = [row EXCEPT ![w] = "absent"]

\* _dispatch() up to the lock acquisition: the row is read once, here
ReadRow(w, o) ==
  /\ Dispatching(w, o, "idle")
  /\ LET blocked == policy # "active" /\ state[o] # "cancel_requested"
     IN  \/ /\ state[o] \in Terminal
            /\ EndDispatch(w, o)
            /\ UNCHANGED <<opVars, lock>>
         \/ /\ state[o] \notin Terminal /\ o \notin Handled[w]
            /\ Schedule(o, IF state[o] = "cancel_requested" THEN "cancel_requested"
                                                            ELSE "reconciling", 1, lock)
            /\ EndDispatch(w, o) /\ UNCHANGED native
         \/ /\ state[o] \notin Terminal /\ o \in Handled[w] /\ blocked
            /\ IF policy = "emergency_stop"
               THEN Finish(o, "cancelled", lock)
               ELSE \E d \in Delays : Schedule(o, state[o], d, lock)
            /\ EndDispatch(w, o) /\ UNCHANGED native
         \/ /\ state[o] \notin Terminal /\ o \in Handled[w] /\ ~blocked
            /\ pc' = [pc EXCEPT ![w] = "lock"] /\ row' = [row EXCEPT ![w] = state[o]]
            /\ UNCHANGED <<opVars, lock, batch>>
  /\ UNCHANGED <<policy, proc, job, ghosts>>

\* _acquireLocks(): all scopes or none; on failure the row is put back in the
\* state read before, whatever it has become since
AcquireLocks(w, o) ==
  /\ Dispatching(w, o, "lock")
  /\ LET ls == Unexpired(lock)
     IN  IF CanAcquire(ls, w, o)
         THEN /\ lock' = Acquired(ls, w, o) /\ pc' = [pc EXCEPT ![w] = "claim"]
              /\ UNCHANGED <<opVars, batch, row>>
         ELSE Schedule(o, row[w], 1, ls) /\ EndDispatch(w, o) /\ UNCHANGED native
  /\ UNCHANGED <<policy, proc, job, ghosts>>

ClaimLost(w, o) ==
  /\ Dispatching(w, o, "claim") /\ state[o] # row[w]
  /\ EndDispatch(w, o)
  /\ UNCHANGED <<opVars, lock, policy, proc, job, ghosts>>

\* the columns that a successful _claim() writes
ClaimRow(w, o, st) ==
  /\ state' = [state EXCEPT ![o] = st]
  /\ owner' = [owner EXCEPT ![o] = w] /\ lease' = [lease EXCEPT ![o] = Lease]
  /\ UNCHANGED <<avail, lock>>

ClaimExecute(w, o) ==
  /\ Dispatching(w, o, "claim") /\ state[o] = row[w]
  /\ row[w] \in {"queued", "waiting_retry"} /\ attempt[o] < AttemptCap
  /\ ClaimRow(w, o, "running")
  /\ attempt' = [attempt EXCEPT ![o] = @ + 1]
  /\ job' = [job EXCEPT ![w][o] = "execute"]
  /\ execs' = [execs EXCEPT ![o] = @ + 1]
  /\ EndDispatch(w, o)
  /\ UNCHANGED <<native, policy, proc, confirmed>>

ClaimReconcile(w, o) ==
  /\ Dispatching(w, o, "claim") /\ state[o] = row[w] /\ row[w] = "reconciling"
  /\ IF o \in Reconcilable
     THEN /\ ClaimRow(w, o, "reconciling") /\ UNCHANGED attempt
          /\ job' = [job EXCEPT ![w][o] = "reconcile"]
     ELSE Finish(o, "unknown", lock) /\ UNCHANGED job
  /\ EndDispatch(w, o)
  /\ UNCHANGED <<native, policy, proc, ghosts>>

ClaimCancel(w, o) ==
  /\ Dispatching(w, o, "claim") /\ state[o] = row[w] /\ row[w] = "cancel_requested"
  /\ IF CancelEntry(o) = "cancel_requested"
     THEN /\ ClaimRow(w, o, "cancel_requested") /\ UNCHANGED attempt
          /\ job' = [job EXCEPT ![w][o] = "cancel"]
     ELSE Finish(o, CancelEntry(o), lock) /\ UNCHANGED job
  /\ EndDispatch(w, o)
  /\ UNCHANGED <<native, policy, proc, ghosts>>

-----------------------------------------------------------------------------
(* The rest of _dispatch(), after the awaited handler call.                 *)

Awaits(w, o, call) == LoopFree(w) /\ job[w][o] = call
Calls(w, o)        == LoopFree(w) /\ job[w][o] \in HandlerCall
EndJob(w, o)       == job' = [job EXCEPT ![w][o] = "none"]

\* the interval that renews the lease while a handler call is awaited
Heartbeat(w, o) ==
  /\ LoopFree(w) /\ job[w][o] # "none"
  /\ lease' = IF owner[o] = w THEN [lease EXCEPT ![o] = Lease] ELSE lease
  /\ lock' = Renewed(lock, w, o)
  /\ UNCHANGED <<state, attempt, avail, owner, native, policy, procVars, ghosts>>

\* bindNativeTask(), called by the handler while it runs
BindNativeTask(w, o) ==
  /\ Calls(w, o) /\ o \in Native /\ MayReport(w, o)
  /\ native' = native \cup {o}
  /\ lease' = [lease EXCEPT ![o] = Lease] /\ lock' = Renewed(lock, w, o)
  /\ UNCHANGED <<state, attempt, avail, owner, policy, procVars, ghosts>>

HandlerReturns(w, o, outcome) ==
  /\ Calls(w, o)
  /\ native' = IF o \in Native /\ MayReport(w, o) THEN native \cup {o} ELSE native
  /\ IF outcome = "reconciling"
     THEN \E d \in Delays : Schedule(o, "reconciling", d, lock)
     ELSE outcome \in Terminal \ {"cancelled"} /\ Finish(o, outcome, lock)
  /\ EndJob(w, o)
  /\ UNCHANGED <<policy, proc, batch, pc, row, ghosts>>

HandlerThrows(w, o, transient) ==
  /\ Calls(w, o)
  /\ IF transient /\ o \notin Idempotent /\ o \in Reconcilable
     THEN Schedule(o, "reconciling", 1, lock)
     ELSE IF transient /\ CanRetry(o)
          THEN \E d \in Delays : Schedule(o, "waiting_retry", d, lock)
          ELSE Finish(o, "failed", lock)
  /\ EndJob(w, o)
  /\ UNCHANGED <<native, policy, proc, batch, pc, row, ghosts>>

HandlerTimesOut(w, o) ==
  /\ Calls(w, o)
  /\ IF o \in Reconcilable THEN Schedule(o, "reconciling", 1, lock)
                           ELSE Finish(o, "unknown", lock)
  /\ EndJob(w, o)
  /\ UNCHANGED <<native, policy, proc, batch, pc, row, ghosts>>

\* handler.cancel() returns, without a confirmation, or throws
CancelReturns(w, o, ok) ==
  /\ Awaits(w, o, "cancel")
  /\ Finish(o, IF ok THEN "cancelled" ELSE "unknown", lock)
  /\ confirmed' = IF ok THEN confirmed \cup {o} ELSE confirmed
  /\ EndJob(w, o)
  /\ UNCHANGED <<native, policy, proc, batch, pc, row, execs>>

-----------------------------------------------------------------------------
(* The life of a worker process, and time.                                  *)

\* start(): recoverExpired(), once, then polling
Start(w) ==
  /\ proc[w] = "new" /\ \A v \in Workers : v < w => proc[v] # "new"
  /\ Cardinality({v \in Workers : Live(v)}) < MaxUp
  /\ state' = [o \in Ops |-> IF Orphaned(o) THEN Recovered(o) ELSE state[o]]
  /\ avail' = [o \in Ops |-> IF Orphaned(o) THEN 0 ELSE avail[o]]
  /\ owner' = [o \in Ops |-> IF Orphaned(o) THEN NoWorker ELSE owner[o]]
  /\ lease' = [o \in Ops |-> IF Orphaned(o) THEN 0 ELSE lease[o]]
  /\ lock' = RefreshedUnknown(lock)
  /\ proc' = [proc EXCEPT ![w] = "up"]
  /\ UNCHANGED <<attempt, native, policy, batch, pc, row, job, ghosts>>

\* stop(): polling ends and every execute() or reconcile() call is aborted into
\* reconciliation; a cancel() call goes on until the process exits
Stop(w) ==
  /\ Serves(w) /\ HasSuccessor(w)
  /\ LET aborted == {o \in Ops : job[w][o] \in HandlerCall}
     IN  /\ state' = [o \in Ops |-> IF o \in aborted THEN "reconciling" ELSE state[o]]
         /\ avail' = [o \in Ops |-> IF o \in aborted THEN 1 ELSE avail[o]]
         /\ owner' = [o \in Ops |-> IF o \in aborted THEN NoWorker ELSE owner[o]]
         /\ lease' = [o \in Ops |-> IF o \in aborted THEN 0 ELSE lease[o]]
         /\ lock'  = [s \in Scopes |-> IF lock[s].op \in aborted
                        THEN [lock[s] EXCEPT !.ttl = 1 + Lease] ELSE lock[s]]
         /\ job' = [job EXCEPT ![w] =
                      [o \in Ops |-> IF o \in aborted THEN "none" ELSE job[w][o]]]
  /\ proc' = [proc EXCEPT ![w] = "stopping"]
  /\ UNCHANGED <<attempt, native, policy, batch, pc, row, ghosts>>

\* the process ends, after a stop or in a crash, wherever its code was
Exit(w) ==
  /\ Live(w) /\ HasSuccessor(w) /\ (proc[w] = "stopping" \/ Crashes)
  /\ proc' = [proc EXCEPT ![w] = "down"]
  /\ batch' = [batch EXCEPT ![w] = {}] /\ pc' = [pc EXCEPT ![w] = "idle"]
  /\ row' = [row EXCEPT ![w] = "absent"]
  /\ job' = [job EXCEPT ![w] = [o \in Ops |-> "none"]]
  /\ UNCHANGED <<opVars, lock, policy, ghosts>>

BugEarlier(t) == t - 1
Earlier(t) == IF t = 0 THEN 0 ELSE t - 1

\* no worker is late: due rows are polled, leases of running calls are renewed,
\* locks of unknown operations are refreshed long before they expire
OnTime ==
  /\ \A w \in Workers : proc[w] = "up" /\ ~Ticking(w) => Due = {}
  /\ \A w \in Workers, o \in Ops : job[w][o] # "none" =>
       /\ owner[o] = w => lease[o] > 1
       /\ \A s \in Scopes : lock[s].op = o /\ lock[s].owner = w => lock[s].ttl > 1
  /\ (\E w \in Workers : proc[w] = "up") =>
       \A s \in Scopes : lock[s].op # NoOp /\ state[lock[s].op] = "unknown"
                           => lock[s].ttl > 1

Elapse ==
  /\ \A w \in Workers : Live(w) => LoopFree(w)
  /\ Punctual => OnTime
  /\ avail' = [o \in Ops |-> Earlier(avail[o])]
  /\ lease' = [o \in Ops |-> Earlier(lease[o])]
  /\ lock'  = [s \in Scopes |-> [lock[s] EXCEPT !.ttl = Earlier(@)]]
  /\ UNCHANGED <<state, attempt, owner, native, policy, procVars, ghosts>>

-----------------------------------------------------------------------------
Request(w) ==
  \/ \E o \in Ops : Submit(w, o) \/ RequestCancel(w, o)
  \/ \E o \in Ops, r \in Releasing : ResolveUnknown(w, o, r)
  \/ \E mode \in Modes : SetPolicy(w, mode)

Dispatch(w) ==
  \E o \in Ops : \/ ReadRow(w, o) \/ AcquireLocks(w, o) \/ ClaimLost(w, o)
                 \/ ClaimExecute(w, o) \/ ClaimReconcile(w, o) \/ ClaimCancel(w, o)

HandlerEnds(w, o) ==
  \/ \E r \in Terminal \cup {"reconciling"} : HandlerReturns(w, o, r)
  \/ \E t \in BOOLEAN : HandlerThrows(w, o, t)
  \/ HandlerTimesOut(w, o)
  \/ \E ok \in BOOLEAN : CancelReturns(w, o, ok)

WorkerStep(w) ==
  \/ Request(w) \/ Dispatch(w) \/ (\E r \in BOOLEAN : Tick(w, r))
  \/ \E o \in Ops : Heartbeat(w, o) \/ BindNativeTask(w, o) \/ HandlerEnds(w, o)
  \/ Start(w) \/ Stop(w) \/ Exit(w)

Next == Elapse \/ \E w \in Workers : WorkerStep(w)

Spec == Init /\ [][Next]_vars

\* Timers fire and the event loop runs what is due; a stopped process is
\* restarted; an awaited call ends (its timeout sees to it, except for cancel());
\* a provider task that is asked about for ever has finished at some point.
Fairness ==
  /\ WF_vars(Elapse)
  /\ \A w \in Workers :
       /\ WF_vars(Dispatch(w)) /\ WF_vars(Tick(w, FALSE)) /\ WF_vars(Start(w))
       /\ WF_vars(proc[w] = "stopping" /\ Exit(w))
       /\ \A o \in Ops :
            /\ WF_vars(Heartbeat(w, o)) /\ WF_vars(HandlerEnds(w, o))
            /\ SF_vars(\E r \in Terminal : HandlerReturns(w, o, r))

FairSpec == Spec /\ Fairness

-----------------------------------------------------------------------------
(* Correctness.                                                             *)

LockRows == [op : Ops \cup {NoOp}, owner : Workers \cup {NoWorker, UnknownState},
             ttl : Nat]

\* Every column and every register has the values the code can store in it.
TypeOK ==
  /\ state \in [Ops -> States] /\ attempt \in [Ops -> Nat] /\ avail \in [Ops -> Nat]
  /\ owner \in [Ops -> Workers \cup {NoWorker}] /\ lease \in [Ops -> Nat]
  /\ native \subseteq Ops /\ lock \in [Scopes -> LockRows]
  /\ policy \in {"active", "frozen", "emergency_stop"}
  /\ proc \in [Workers -> {"new", "up", "stopping", "down"}]
  /\ batch \in [Workers -> SUBSET Ops]
  /\ pc \in [Workers -> {"idle", "lock", "claim"}]
  /\ row \in [Workers -> DueStates \cup {"running", "absent"}]
  /\ job \in [Workers -> [Ops -> HandlerCall \cup {"cancel", "none"}]]
  /\ execs \in [Ops -> Nat] /\ confirmed \subseteq Ops

\* The mutation of a handler that is not idempotent is sent to the provider at
\* most once, and that of an idempotent one at most max_attempts times, through
\* timeouts, lost leases, restarts and retries.
NoBlindReplay ==
  \A o \in Ops : execs[o] <= IF o \in Idempotent THEN MaxAttempts[o] ELSE 1

\* Two handler calls that run at the same time never share a lock scope, and no
\* operation has two calls running, whichever workers run them.
ExclusiveCalls ==
  \A v, w \in Workers, o, p \in Ops :
    /\ job[v][o] # "none" /\ job[w][p] # "none"
    /\ ScopesOf[o] \cap ScopesOf[p] # {} \/ o = p
    => v = w /\ o = p

\* A running call of a worker that is never late is covered by unexpired locks
\* of that worker on every scope of its operation.
CallsHoldLocks ==
  \A w \in Workers, o \in Ops, s \in Scopes :
    job[w][o] # "none" /\ s \in ScopesOf[o] =>
      lock[s].op = o /\ lock[s].owner = w /\ lock[s].ttl > 0

\* While an operation is unknown, nobody else holds one of its scopes.
UnknownKeepsScopes ==
  \A o \in Ops, s \in Scopes :
    state[o] = "unknown" /\ s \in ScopesOf[o] => lock[s].op = o

\* An operation whose mutation was sent is cancelled only when the provider, or
\* an administrator resolving it, confirmed that.
CancelledIsConfirmed ==
  \A o \in Ops : state[o] = "cancelled" /\ execs[o] > 0 => o \in confirmed

\* An operation comes to a result, or to "unknown", unless an unknown operation
\* retains one of its scopes until an administrator resolves it.
EveryOperationSettles ==
  \A o \in Ops :
    state[o] \in InProgress ~>
      \/ state[o] \in Terminal
      \/ \E p \in Ops : state[p] = "unknown" /\ ScopesOf[o] \cap ScopesOf[p] # {}

\* A reconciliation that is due is run.
DueReconciliationRuns ==
  \A o \in Ops :
    state[o] = "reconciling" /\ avail[o] = 0 ~>
      state[o] # "reconciling" \/ \E w \in Workers : job[w][o] = "reconcile"

\* A running operation whose lease has expired does not stay so.
ExpiredLeaseIsReconciled ==
  \A o \in Ops :
    state[o] = "running" /\ lease[o] = 0 ~> state[o] # "running"

\* The contract's view of an operation row.
PhaseOf(o) ==
  IF ~Open(o) THEN state[o] ELSE IF execs[o] = 0 THEN "waiting" ELSE "sent"

Contract ==
  INSTANCE OperationContract WITH
    phase <- [o \in Ops |-> PhaseOf(o)], sent <- execs, vouched <- confirmed,
    Limit <- [o \in Ops |-> IF o \in Idempotent THEN MaxAttempts[o] ELSE 1]

\* The engine keeps the contract: every step it takes is a step of the contract
\* or changes nothing the contract speaks of.
KeepsContract == Contract!ContractSpec
=============================================================================
