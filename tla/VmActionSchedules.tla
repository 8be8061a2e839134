-------------------------- MODULE VmActionSchedules --------------------------
(***************************************************************************)
(* Scheduled actions on virtual machines                                   *)
(* (src/services/provider-operations/vm-action-schedules.js) on top of the *)
(* operations that the engine promises (OperationContract).                *)
(*                                                                         *)
(* Once a minute a process reconciles the runs that are not over, reads    *)
(* the enabled schedules and starts those that are due; administrators     *)
(* start runs by hand.  A run is found again by its key, the schedule and  *)
(* its slot, which is also the idempotency key of its operation.  A job    *)
(* goes on when its node loses the lease, so that two ticks may overlap.   *)
(* Local is what the clock of the time zone shows in each minute, set      *)
(* forward and back as it may be; a tick may come in any minute, late,     *)
(* twice or not at all.                                                    *)
(***************************************************************************)
EXTENDS OperationContract, Sequences, FiniteSets

CONSTANTS
  Schedules,  \* ids; a tick takes them in this order
  Times,      \* minutes that the local clock can show
  Local,      \* what it shows in each minute
  Jumped,     \* times that the clock leaves out just before each minute
  Due,        \* times that match the cron expression of each schedule
  Choice,     \* which occurrence of a repeated time counts: dst_policy
  Barred,     \* minutes in which each schedule has a holiday or a blackout
  Threshold,  \* failures in a row that disable a schedule
  Tickers,    \* processes that tick
  Callers,    \* requests that run a schedule at once, each with a slot of its own
  MaxEvents   \* bound on edits and removals of schedules and crashes

Minutes == 1..Len(Local)
Slots   == Times \cup Callers
Workers == Tickers \cup Callers

ASSUME ScheduleAssumption ==
  /\ Schedules \subseteq Nat /\ Ops = Schedules \X Slots /\ Times \cap Callers = {}
  /\ Tickers \cap Callers = {} /\ Threshold \in Nat \ {0}
  /\ Local \in Seq(Times) /\ \A s \in Schedules : Choice[s] \in {"first", "second", "skip"}

VARIABLES
  enabled,    \* schedules that are enabled
  executing,  \* schedules in mode execute, the others preview
  removed,    \* schedules that are deleted
  failures,   \* consecutive_failures, counted up to Threshold
  run,        \* state of each run, "none" before its row exists; blocked is failed
  linked,     \* runs that name their operation
  old,        \* runs without an operation whose row is two minutes old
  pc,         \* where each worker is
  todo,       \* schedules that a tick has still to look at
  copy,       \* the schedules it read as executing, while it needs them
  cur,        \* the run it is working on
  events

rows    == <<enabled, executing, removed, failures, run, linked>>
workers == <<pc, todo, copy, cur>>
vars    == <<contractVars, rows, old, workers, events>>

Active == {"queued", "running", "unknown"}
RunStates == Active \cup {"none", "previewed", "skipped", "succeeded", "failed"}

RunsOf(s) == {r \in Ops : r[1] = s}
Busy(s)   == \E r \in RunsOf(s) : run[r] \in Active

BugFits(r, st) == TRUE
\* the unique index on the active run of a schedule
Fits(r, st) == st \in Active => \A q \in RunsOf(r[1]) \ {r} : run[q] \notin Active

Init ==
  /\ ContractInit
  /\ enabled \in SUBSET Schedules /\ executing = enabled /\ removed = {}
  /\ failures = [s \in Schedules |-> 0]
  /\ run = [r \in Ops |-> "none"] /\ linked = {} /\ old = {}
  /\ pc = [w \in Workers |-> "idle"] /\ todo = [w \in Workers |-> {}]
  /\ copy = [w \in Workers |-> {}]
  /\ cur = [w \in Workers |-> <<>>]
  /\ events = 0

-----------------------------------------------------------------------------
(* Counting failures.                                                       *)

Failing == {"failed", "unknown"}

\* _failure() for the schedules whose run has come to the states in outcome
Count(outcome) ==
  LET failed == {s \in DOMAIN outcome : outcome[s] \in Failing}
      count(s) == IF failures[s] < Threshold THEN failures[s] + 1 ELSE Threshold
  IN  /\ failures' = [s \in Schedules |->
            IF s \in failed THEN count(s)
            ELSE IF s \in DOMAIN outcome /\ outcome[s] = "succeeded" THEN 0 ELSE failures[s]]
      /\ enabled' = enabled \ {s \in failed : count(s) = Threshold}

-----------------------------------------------------------------------------
(* Reconciling runs with their operations.                                  *)

BugRecorded(r) == r \in linked /\ phase[r] # "absent"
\* the operation is named by the run or found by its idempotency key
Recorded(r) == phase[r] # "absent"

BugOutcome(p) ==
  CASE p = "waiting" -> "queued" [] p = "sent" -> "running"
    [] p \in {"unknown", "failed", "cancelled"} -> "failed" [] p = "succeeded" -> "succeeded"
BugCopied(p) == p
\* what a run makes of the state of its operation
Outcome(p) ==
  CASE p = "waiting" -> "queued" [] p = "sent" -> "running" [] p = "unknown" -> "unknown"
    [] p = "succeeded" -> "succeeded" [] p \in {"failed", "cancelled"} -> "failed"

\* a dispatch that should long have recorded an operation
Stale(r) == run[r] = "running" /\ r \in old

Reconciled(r) ==
  IF Recorded(r) THEN Outcome(phase[r]) ELSE IF Stale(r) THEN "unknown" ELSE run[r]

\* reconcilePending() changes a run; a result, or its absence, is counted
Changes(r) == run[r] \in Active /\ (run[r] # Reconciled(r) \/ (Recorded(r) /\ r \notin linked))

ReconcilePending ==
  LET changed == {r \in Ops : Changes(r)}
  IN  /\ run' = [r \in Ops |-> IF r \in changed THEN Reconciled(r) ELSE run[r]]
      /\ linked' = linked \cup {r \in changed : Recorded(r)}
      /\ Count([s \in {r[1] : r \in changed} |->
                  Reconciled(CHOOSE r \in changed : r[1] = s)])

-----------------------------------------------------------------------------
(* Starting runs.                                                           *)

\* the worker has set S still to look at
Continues(w, S) ==
  /\ todo' = [todo EXCEPT ![w] = S]
  /\ pc' = [pc EXCEPT ![w] = IF w \in Callers THEN "done" ELSE IF S = {} THEN "idle" ELSE "tick"]

\* what it has read is dropped at the end
Reads(w, read) == copy' = [copy EXCEPT ![w] = IF pc'[w] \in {"idle", "done"} THEN {} ELSE read]

\* runDue() reconciles, and then reads the enabled schedules, without giving way
Tick(w) ==
  /\ w \in Tickers /\ pc[w] = "idle" /\ ReconcilePending
  /\ Continues(w, enabled' \ removed) /\ Reads(w, executing)
  /\ old' = {r \in old : run'[r] = "running"}
  /\ UNCHANGED <<contractVars, executing, removed, cur, events>>

Occurrences(m) == {i \in Minutes : Local[i] = Local[m]}
Occurrence(m)  == Cardinality({i \in Occurrences(m) : i <= m})
Repeated(m)    == Cardinality(Occurrences(m)) > 1

\* _decision(): what becomes of schedule s in minute m
Suppressed(s, m) == m \in Barred[s] \/ (Repeated(m) /\ Choice[s] = "skip")
Selected(s, m)   == Repeated(m) => Occurrence(m) = IF Choice[s] = "second" THEN 2 ELSE 1

\* the worker is through with schedule s
Leaves(w, s) == Continues(w, todo[w] \ {s}) /\ cur' = [cur EXCEPT ![w] = <<>>]

\* rows are inserted unless their slots are taken
Skip(S) == run' = [r \in Ops |-> IF r \in S /\ run[r] = "none" THEN "skipped" ELSE run[r]]

\* a run r is due in minute m and is recorded as suppressed, passed over, or looked at
Consider(w, r, m, skips) ==
  LET s == r[1]
  IN  \/ /\ Suppressed(s, m) \/ (Selected(s, m) /\ Busy(s))
         /\ Skip(skips \cup {r}) /\ Leaves(w, s)
      \/ /\ ~Suppressed(s, m) /\ ~Selected(s, m)
         /\ Skip(skips) /\ Leaves(w, s)
      \/ /\ ~Suppressed(s, m) /\ Selected(s, m) /\ ~Busy(s) /\ Skip(skips)
         /\ cur' = [cur EXCEPT ![w] = r]
         /\ pc' = [pc EXCEPT ![w] = "insert"] /\ UNCHANGED todo

\* the next schedule of a tick, with the times that the clock has left out
Evaluate(w) ==
  \E s \in todo[w], m \in Minutes :
    LET r == <<s, Local[m]>>
        skips == {<<s, t>> : t \in Jumped[m] \cap Due[s]}
    IN  /\ pc[w] = "tick" /\ \A z \in todo[w] : s <= z
        /\ \/ Local[m] \in Due[s] /\ Consider(w, r, m, skips)
           \/ Local[m] \notin Due[s] /\ Skip(skips) /\ Leaves(w, s)
        /\ Reads(w, copy[w])
        /\ UNCHANGED <<contractVars, enabled, executing, removed, failures, linked, old, events>>

\* runNow(): a schedule that executes must be enabled
RunNow(w) ==
  \E s \in Schedules \ removed, m \in Minutes :
    /\ w \in Callers /\ pc[w] = "idle" /\ (s \in executing => s \in enabled)
    /\ Consider(w, <<s, w>>, m, {}) /\ Reads(w, executing)
    /\ UNCHANGED <<contractVars, enabled, executing, removed, failures, linked, old, events>>

\* the row is refused if its slot is taken or another run has become active
Insert(w) ==
  LET r == cur[w]
  IN  /\ pc[w] = "insert"
      /\ \/ /\ run[r] = "none" /\ Fits(r, "running")
            /\ run' = [run EXCEPT ![r] = "running"]
            /\ pc' = [pc EXCEPT ![w] = "prepare"] /\ UNCHANGED <<todo, cur>>
         \/ (run[r] # "none" \/ ~Fits(r, "running")) /\ UNCHANGED run /\ Leaves(w, r[1])
      /\ Reads(w, copy[w])
      /\ UNCHANGED <<contractVars, enabled, executing, removed, failures, linked, old, events>>

\* _updateRun() has no condition on the state of the run
Ends(w, st) ==
  /\ run' = [run EXCEPT ![cur[w]] = st] /\ Count([s \in {cur[w][1]} |-> st])
  /\ UNCHANGED linked /\ Leaves(w, cur[w][1])

\* the host is gone, the preflight fails or does not allow the action (blocked)
Refuse(w) ==
  /\ pc[w] = "prepare" /\ Ends(w, "failed")
  /\ Reads(w, copy[w])
  /\ UNCHANGED <<contractVars, executing, removed, old, events>>

Preview(w) ==
  /\ pc[w] = "prepare" /\ cur[w][1] \notin copy[w] /\ Ends(w, "previewed")
  /\ Reads(w, copy[w])
  /\ UNCHANGED <<contractVars, executing, removed, old, events>>

\* the operation is created under the key of the run
Submit(w) ==
  /\ pc[w] = "prepare" /\ cur[w][1] \in copy[w]
  /\ phase' = [phase EXCEPT ![cur[w]] = "waiting"] /\ UNCHANGED <<sent, vouched>> /\ Accept(cur[w])
  /\ pc' = [pc EXCEPT ![w] = "record"]
  /\ UNCHANGED <<rows, old, todo, copy, cur, events>>

Record(w) ==
  /\ pc[w] = "record"
  /\ \/ /\ Fits(cur[w], "queued") /\ run' = [run EXCEPT ![cur[w]] = "queued"]
        /\ linked' = linked \cup {cur[w]} /\ UNCHANGED <<enabled, failures>>
        /\ Leaves(w, cur[w][1])
     \/ ~Fits(cur[w], "queued") /\ Ends(w, "failed")
  /\ Reads(w, copy[w])
  /\ UNCHANGED <<contractVars, executing, removed, old, events>>

-----------------------------------------------------------------------------
(* Administrators, the engine, the clock and the processes.                 *)

\* updateForHost(): the mode stays while a run is active
Edit(s) ==
  /\ s \notin removed /\ events < MaxEvents /\ events' = events + 1
  /\ enabled' \in {enabled \cup {s}, enabled \ {s}}
  /\ executing' \in IF Busy(s) THEN {executing} ELSE {executing \cup {s}, executing \ {s}}
  /\ UNCHANGED <<contractVars, removed, failures, run, linked, old, workers>>

Remove(s) ==
  /\ s \notin removed /\ ~Busy(s) /\ events < MaxEvents /\ events' = events + 1
  /\ enabled' = enabled \ {s} /\ removed' = removed \cup {s}
  /\ UNCHANGED <<contractVars, executing, failures, run, linked, old, workers>>

\* the engine moves an operation as its contract allows
EngineMoves(o) ==
  /\ phase[o] \notin Results \cup {"absent"}
  /\ \E p \in Phases : phase' = [phase EXCEPT ![o] = p]
  /\ \E n \in {sent[o], sent[o] + 1} : sent' = [sent EXCEPT ![o] = n]
  /\ vouched' = IF phase'[o] = "cancelled" /\ sent[o] > 0 THEN vouched \cup {o} ELSE vouched
  /\ Send(o) \/ Withdraw(o) \/ Conclude(o) \/ LoseTrack(o)
  /\ UNCHANGED <<rows, old, workers, events>>

Age(r) ==
  /\ run[r] = "running" /\ ~Recorded(r) /\ r \notin old /\ old' = old \cup {r}
  /\ UNCHANGED <<contractVars, rows, workers, events>>

\* the process of a tick dies and is started again; a request that dies never goes on
Crash(w) ==
  /\ w \in Tickers /\ pc[w] # "idle" /\ events < MaxEvents /\ events' = events + 1
  /\ Continues(w, {}) /\ cur' = [cur EXCEPT ![w] = <<>>] /\ Reads(w, {})
  /\ UNCHANGED <<contractVars, rows, old>>

Proceeds(w) == Evaluate(w) \/ Insert(w) \/ Refuse(w) \/ Preview(w) \/ Submit(w) \/ Record(w)

Next ==
  \/ \E w \in Workers : Tick(w) \/ RunNow(w) \/ Proceeds(w) \/ Crash(w)
  \/ \E s \in Schedules : Edit(s) \/ Remove(s)
  \/ \E r \in Ops : EngineMoves(r) \/ Age(r)

Spec == Init /\ [][Next]_vars

\* some process goes on ticking, requests may hang; the clock goes on
Fairness ==
  /\ WF_vars(\E w \in Tickers : Tick(w) \/ Proceeds(w))
  /\ WF_vars(\E r \in Ops : Age(r))

FairSpec == Spec /\ Fairness

-----------------------------------------------------------------------------
(* Correctness.                                                             *)

\* Every column and every register has a value that the code can store in it.
TypeOK ==
  /\ enabled \subseteq Schedules /\ executing \subseteq Schedules /\ removed \subseteq Schedules
  /\ failures \in [Schedules -> 0..Threshold]
  /\ run \in [Ops -> RunStates] /\ linked \subseteq Ops /\ old \subseteq Ops
  /\ pc \in [Workers -> {"idle", "tick", "insert", "prepare", "record", "done"}]
  /\ todo \in [Workers -> SUBSET Schedules] /\ copy \in [Workers -> SUBSET Schedules]
  /\ cur \in [Workers -> Ops \cup {<<>>}]
  /\ \A w \in Workers : pc[w] \in {"insert", "prepare", "record"} => cur[w] \in Ops

Unsettled(r) == phase[r] \in {"waiting", "sent", "unknown"}

\* A schedule has at most one operation that may still change its virtual machine,
\* although ticks and requests of several processes overlap, die and are overtaken
\* (the active run that _start() looks for, and the unique index).
OneOperationAtATime ==
  \A s \in Schedules : Cardinality({r \in RunsOf(s) : Unsettled(r)}) <= 1

\* A run that is over has no operation that may still act, and one that is called
\* succeeded has one that did (_dispatch() and reconcilePending() write it without
\* looking at its state).
EndedRunsAreSettled ==
  \A r \in Ops :
    /\ Unsettled(r) => run[r] \in Active
    /\ run[r] = "succeeded" => phase[r] = "succeeded"

Hanging(r) ==
  \/ run[r] \in Active /\ phase[r] \in Results
  \/ run[r] = "running" /\ phase[r] = "absent"

\* A run whose operation has a result comes to an end, also when its process died before
\* the run could name the operation, and a dispatch that never gets as far as an
\* operation ends or is given up as unknown (reconcilePending() and _findChild()).
NoRunHangs == \A r \in Ops : Hanging(r) ~> ~Hanging(r)
=============================================================================
