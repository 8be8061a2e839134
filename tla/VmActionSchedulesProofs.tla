----------------------- MODULE VmActionSchedulesProofs -----------------------
(***************************************************************************)
(* Proofs about VmActionSchedules, for any schedules, clock, number of     *)
(* overlapping ticks and requests, and any edits and crashes.              *)
(*                                                                         *)
(* That a run which is over has no unsettled operation is not inductive:   *)
(* the worker that dispatches a run writes its state without looking at    *)
(* it.  It holds because a run is dispatched by the worker that inserted   *)
(* its row and by no other (OwnRun), which has not created its operation   *)
(* before it is done with the preflight (Dispatches), while a row that     *)
(* does not exist has no operation (Fresh).  The unique index then keeps   *)
(* the active runs of a schedule, and with them the unsettled operations,  *)
(* to one.                                                                 *)
(***************************************************************************)
EXTENDS VmActionSchedules, FiniteSetTheorems, TLAPS

ContractTypes == phase \in [Ops -> Phases] /\ sent \in [Ops -> Nat] /\ vouched \subseteq Ops

OneActive == \A r, q \in Ops : r[1] = q[1] /\ run[r] \in Active /\ run[q] \in Active => r = q

Fresh == \A r \in Ops : run[r] = "none" => phase[r] = "absent"

Working(w) == pc[w] \in {"prepare", "record"}

Dispatches ==
  \A w \in Workers :
    /\ pc[w] = "prepare" => phase[cur[w]] = "absent" /\ run[cur[w]] \in {"running", "unknown"}
    /\ pc[w] = "record" => phase[cur[w]] # "absent" /\ run[cur[w]] # "none"

OwnRun == \A w, v \in Workers : Working(w) /\ Working(v) /\ cur[w] = cur[v] => w = v

RunInv == OneActive /\ Fresh /\ Dispatches /\ OwnRun /\ EndedRunsAreSettled

IInv == TypeOK /\ ContractTypes /\ RunInv

-----------------------------------------------------------------------------
(* Types.                                                                   *)

Stages == {"idle", "tick", "insert", "prepare", "record", "done"}
Through == {"idle", "tick", "done"}  \* stages of a worker that has no run in hand

\* A run is of one schedule; what a tick looks at is one.
LEMMA RunFacts ==
  /\ \A r \in Ops : r[1] \in Schedules
  /\ \A s \in Schedules, m \in Minutes : <<s, Local[m]>> \in Ops
  /\ \A s \in Schedules, w \in Callers : <<s, w>> \in Ops
  /\ <<>> \notin Ops
<1> USE ScheduleAssumption
<1>1. \A r \in Ops : r[1] \in Schedules OBVIOUS
<1>2. \A m \in Minutes : Local[m] \in Times BY DEF Minutes
<1>3. \A s \in Schedules, m \in Minutes : <<s, Local[m]>> \in Ops BY <1>2 DEF Slots
<1>4. \A s \in Schedules, w \in Callers : <<s, w>> \in Ops BY DEF Slots
<1>5. <<>> \notin Ops OBVIOUS
<1> QED BY <1>1, <1>3, <1>4, <1>5

\* Counting keeps the types of what it counts.
LEMMA CountTypes ==
  ASSUME TypeOK, NEW outcome, Count(outcome)
  PROVE  failures' \in [Schedules -> 0..Threshold] /\ enabled' \subseteq Schedules
<1>1. enabled' \subseteq enabled BY DEF Count
<1>2. failures' \in [Schedules -> 0..Threshold]
  BY ScheduleAssumption DEF TypeOK, Count
<1> QED BY <1>1, <1>2 DEF TypeOK

\* A worker that goes on with its next schedule has no run in hand.
LEMMA ContinuesTypes ==
  ASSUME TypeOK, NEW w \in Workers, NEW S \in SUBSET Schedules, Continues(w, S)
  PROVE  /\ todo' \in [Workers -> SUBSET Schedules] /\ pc' \in [Workers -> Stages]
         /\ pc'[w] \in Through /\ \A v \in Workers \ {w} : pc'[v] = pc[v]
BY DEF TypeOK, Continues, Stages, Through

LEMMA ReadsTypes ==
  ASSUME TypeOK, NEW w \in Workers, NEW S \in SUBSET Schedules, Reads(w, S)
  PROVE  copy' \in [Workers -> SUBSET Schedules]
BY DEF TypeOK, Reads

LEMMA LeavesTypes ==
  ASSUME TypeOK, NEW w \in Workers, NEW s, Leaves(w, s)
  PROVE  /\ todo' \in [Workers -> SUBSET Schedules] /\ pc' \in [Workers -> Stages]
         /\ cur' \in [Workers -> Ops \cup {<<>>}] /\ pc'[w] \in Through
         /\ \A v \in Workers \ {w} : pc'[v] = pc[v] /\ cur'[v] = cur[v]
<1>1. todo[w] \ {s} \in SUBSET Schedules BY DEF TypeOK
<1>2. cur' = [cur EXCEPT ![w] = <<>>] BY DEF Leaves
<1> QED BY <1>1, <1>2, ContinuesTypes DEF Leaves, TypeOK

\* Only rows that do not exist are inserted as skipped.
LEMMA SkipTypes ==
  ASSUME TypeOK, NEW S, Skip(S)
  PROVE  /\ run' \in [Ops -> RunStates]
         /\ \A r \in Ops : run'[r] = run[r] \/ (run[r] = "none" /\ run'[r] = "skipped")
BY DEF TypeOK, Skip, RunStates

\* Looking at a due run: it is in hand, or the worker is through with its schedule.
LEMMA ConsiderTypes ==
  ASSUME TypeOK, NEW w \in Workers, NEW r \in Ops, NEW m, NEW S, Consider(w, r, m, S)
  PROVE  /\ run' \in [Ops -> RunStates] /\ todo' \in [Workers -> SUBSET Schedules]
         /\ pc' \in [Workers -> Stages] /\ cur' \in [Workers -> Ops \cup {<<>>}]
         /\ pc'[w] \in Through \/ (pc'[w] = "insert" /\ cur'[w] = r)
         /\ \A v \in Workers \ {w} : pc'[v] = pc[v] /\ cur'[v] = cur[v]
         /\ \A q \in Ops : run'[q] = run[q] \/ (run[q] = "none" /\ run'[q] = "skipped")
<1>1. CASE \E R : Skip(R) /\ Leaves(w, r[1])
  BY <1>1, SkipTypes, LeavesTypes
<1>2. CASE /\ Skip(S) /\ cur' = [cur EXCEPT ![w] = r]
           /\ pc' = [pc EXCEPT ![w] = "insert"] /\ UNCHANGED todo
  BY <1>2, SkipTypes DEF TypeOK, Stages
<1> QED BY <1>1, <1>2 DEF Consider

\* The state of an operation, and its absence, are states of a run.
LEMMA ReconciledTypes ==
  ASSUME TypeOK, ContractTypes, NEW r \in Ops
  PROVE  /\ Reconciled(r) \in RunStates
         /\ phase[r] = "absent" => Reconciled(r) \in {run[r], "unknown"}
         /\ phase[r] \in {"waiting", "sent", "unknown"} => Reconciled(r) \in Active
         /\ phase[r] # "absent" => (Reconciled(r) = "succeeded" <=> phase[r] = "succeeded")
         /\ Reconciled(r) = "none" => run[r] = "none"
<1>1. phase[r] \in Phases /\ run[r] \in RunStates BY DEF TypeOK, ContractTypes
<1> QED BY <1>1 DEF Reconciled, Recorded, Outcome, Phases, Results, RunStates, Active

\* The engine moves one operation, from one state that is not final to another.
LEMMA EngineFacts ==
  ASSUME ContractTypes, NEW o \in Ops, EngineMoves(o)
  PROVE  /\ phase' \in [Ops -> Phases] /\ sent' \in [Ops -> Nat] /\ vouched' \subseteq Ops
         /\ phase[o] \in {"waiting", "sent", "unknown"} /\ phase'[o] # "absent"
         /\ \A r \in Ops \ {o} : phase'[r] = phase[r]
<1>1. phase' \in [Ops -> Phases] /\ sent' \in [Ops -> Nat] /\ vouched' \subseteq Ops
  BY DEF ContractTypes, EngineMoves
<1>2. phase[o] \in {"waiting", "sent", "unknown"} /\ \A r \in Ops \ {o} : phase'[r] = phase[r]
  BY DEF ContractTypes, EngineMoves, Phases
<1>3. phase'[o] # "absent"
  BY DEF EngineMoves, Send, Withdraw, Conclude, LoseTrack, Results
<1> QED BY <1>1, <1>2, <1>3

LEMMA TypeInit == Init => TypeOK /\ ContractTypes
BY ScheduleAssumption DEF Init, ContractInit, TypeOK, ContractTypes, RunStates, Phases

\* The end of a dispatch: one run is written, and its worker goes on.
LEMMA EndsTypes ==
  ASSUME TypeOK, NEW w \in Workers, cur[w] \in Ops, NEW st \in RunStates, Ends(w, st)
  PROVE  /\ run' \in [Ops -> RunStates] /\ linked' \subseteq Ops
         /\ failures' \in [Schedules -> 0..Threshold] /\ enabled' \subseteq Schedules
         /\ todo' \in [Workers -> SUBSET Schedules] /\ pc' \in [Workers -> Stages]
         /\ cur' \in [Workers -> Ops \cup {<<>>}] /\ pc'[w] \in Through
         /\ \A v \in Workers \ {w} : pc'[v] = pc[v] /\ cur'[v] = cur[v]
         /\ run'[cur[w]] = st /\ \A r \in Ops \ {cur[w]} : run'[r] = run[r]
<1>1. run' = [run EXCEPT ![cur[w]] = st] /\ linked' = linked BY DEF Ends
<1>2. failures' \in [Schedules -> 0..Threshold] /\ enabled' \subseteq Schedules
  BY CountTypes DEF Ends
<1>3. Leaves(w, cur[w][1]) BY DEF Ends
<1> QED BY <1>1, <1>2, <1>3, LeavesTypes DEF TypeOK

LEMMA TypeStep == TypeOK /\ ContractTypes /\ [Next]_vars => TypeOK' /\ ContractTypes'
<1> SUFFICES ASSUME TypeOK, ContractTypes, [Next]_vars PROVE TypeOK' /\ ContractTypes'
  OBVIOUS
<1>a. UNCHANGED contractVars => ContractTypes' BY DEF ContractTypes, contractVars
<1>b. \A w \in Workers : copy[w] \in SUBSET Schedules BY DEF TypeOK
<1>1. ASSUME NEW w \in Workers, Tick(w) PROVE TypeOK' /\ ContractTypes'
  <2>1. UNCHANGED <<contractVars, executing, removed, cur>> BY <1>1 DEF Tick
  <2>2. run' = [r \in Ops |-> IF r \in {q \in Ops : Changes(q)} THEN Reconciled(r) ELSE run[r]]
    BY <1>1 DEF Tick, ReconcilePending
  <2>3. run' \in [Ops -> RunStates] BY <2>2, ReconciledTypes DEF TypeOK
  <2>4. linked' \subseteq Ops BY <1>1 DEF Tick, ReconcilePending, TypeOK
  <2>5. failures' \in [Schedules -> 0..Threshold] /\ enabled' \subseteq Schedules
    BY <1>1, CountTypes DEF Tick, ReconcilePending
  <2>6. Continues(w, enabled' \ removed) /\ Reads(w, executing) BY <1>1 DEF Tick
  <2>7. enabled' \ removed \in SUBSET Schedules /\ executing \in SUBSET Schedules
    BY <2>5 DEF TypeOK
  <2>8. /\ todo' \in [Workers -> SUBSET Schedules] /\ pc' \in [Workers -> Stages]
        /\ pc'[w] \in Through /\ \A v \in Workers \ {w} : pc'[v] = pc[v]
    BY <2>6, <2>7, ContinuesTypes
  <2>9. copy' \in [Workers -> SUBSET Schedules] BY <2>6, <2>7, ReadsTypes
  <2>10. old' \subseteq Ops BY <1>1 DEF Tick, TypeOK
  <2> QED BY <1>a, <2>1, <2>3, <2>4, <2>5, <2>8, <2>9, <2>10 DEF TypeOK, Stages, Through
\* a due run is looked at
<1>2. ASSUME NEW w \in Workers, NEW r \in Ops, NEW m, NEW S, NEW C \in SUBSET Schedules,
             Consider(w, r, m, S), Reads(w, C),
             UNCHANGED <<contractVars, enabled, executing, removed, failures, linked, old, events>>
      PROVE  TypeOK' /\ ContractTypes'
  <2>1. /\ run' \in [Ops -> RunStates] /\ todo' \in [Workers -> SUBSET Schedules]
        /\ pc' \in [Workers -> Stages] /\ cur' \in [Workers -> Ops \cup {<<>>}]
        /\ pc'[w] \in Through \/ (pc'[w] = "insert" /\ cur'[w] = r)
        /\ \A v \in Workers \ {w} : pc'[v] = pc[v] /\ cur'[v] = cur[v]
    BY <1>2, ConsiderTypes
  <2>2. copy' \in [Workers -> SUBSET Schedules] BY <1>2, ReadsTypes
  <2> QED BY <1>a, <1>2, <2>1, <2>2 DEF TypeOK, Stages, Through
<1>3. ASSUME NEW w \in Workers, Evaluate(w) PROVE TypeOK' /\ ContractTypes'
  <2>1. PICK s \in todo[w], m \in Minutes :
          /\ \/ \E S : Consider(w, <<s, Local[m]>>, m, S)
             \/ (\E S : Skip(S)) /\ Leaves(w, s)
          /\ Reads(w, copy[w])
          /\ UNCHANGED <<contractVars, enabled, executing, removed, failures, linked, old, events>>
    BY <1>3 DEF Evaluate
  <2>2. <<s, Local[m]>> \in Ops BY RunFacts DEF TypeOK
  <2>3. CASE \E S : Consider(w, <<s, Local[m]>>, m, S) BY <1>2, <1>b, <2>1, <2>2, <2>3
  <2>4. CASE (\E S : Skip(S)) /\ Leaves(w, s)
    <3>1. run' \in [Ops -> RunStates] BY <2>4, SkipTypes
    <3>2. /\ todo' \in [Workers -> SUBSET Schedules] /\ pc' \in [Workers -> Stages]
          /\ cur' \in [Workers -> Ops \cup {<<>>}] /\ pc'[w] \in Through
          /\ \A v \in Workers \ {w} : pc'[v] = pc[v] /\ cur'[v] = cur[v]
      BY <2>4, LeavesTypes
    <3>3. copy' \in [Workers -> SUBSET Schedules] BY <1>b, <2>1, ReadsTypes
    <3> QED BY <1>a, <2>1, <3>1, <3>2, <3>3 DEF TypeOK, Stages, Through
  <2> QED BY <2>1, <2>3, <2>4
<1>4. ASSUME NEW w \in Workers, RunNow(w) PROVE TypeOK' /\ ContractTypes'
  <2>1. PICK s \in Schedules, m \in Minutes :
          /\ w \in Callers /\ Consider(w, <<s, w>>, m, {}) /\ Reads(w, executing)
          /\ UNCHANGED <<contractVars, enabled, executing, removed, failures, linked, old, events>>
    BY <1>4 DEF RunNow
  <2>2. <<s, w>> \in Ops /\ executing \in SUBSET Schedules BY <2>1, RunFacts DEF TypeOK
  <2> QED BY <1>2, <2>1, <2>2
<1>5. ASSUME NEW w \in Workers, Insert(w) PROVE TypeOK' /\ ContractTypes'
  <2>1. cur[w] \in Ops BY <1>5 DEF Insert, TypeOK
  <2>2. /\ Reads(w, copy[w])
        /\ UNCHANGED <<contractVars, enabled, executing, removed, failures, linked, old, events>>
    BY <1>5 DEF Insert
  <2>3. copy' \in [Workers -> SUBSET Schedules] BY <1>b, <2>2, ReadsTypes
  <2>4. CASE /\ run' = [run EXCEPT ![cur[w]] = "running"]
             /\ pc' = [pc EXCEPT ![w] = "prepare"] /\ UNCHANGED <<todo, cur>>
    BY <1>a, <2>1, <2>2, <2>3, <2>4 DEF TypeOK, RunStates, Active
  <2>5. CASE UNCHANGED run /\ Leaves(w, cur[w][1])
    BY <1>a, <2>2, <2>3, <2>5, LeavesTypes DEF TypeOK, Stages, Through
  <2> QED BY <1>5, <2>4, <2>5 DEF Insert
\* a dispatch ends
<1>6. ASSUME NEW w \in Workers, cur[w] \in Ops, NEW st \in RunStates, Ends(w, st), Reads(w, copy[w]),
             UNCHANGED <<contractVars, executing, removed, old, events>>
      PROVE  TypeOK' /\ ContractTypes'
  <2>1. /\ run' \in [Ops -> RunStates] /\ linked' \subseteq Ops
        /\ failures' \in [Schedules -> 0..Threshold] /\ enabled' \subseteq Schedules
        /\ todo' \in [Workers -> SUBSET Schedules] /\ pc' \in [Workers -> Stages]
        /\ cur' \in [Workers -> Ops \cup {<<>>}] /\ pc'[w] \in Through
        /\ \A v \in Workers \ {w} : pc'[v] = pc[v] /\ cur'[v] = cur[v]
    BY <1>6, EndsTypes
  <2>2. copy' \in [Workers -> SUBSET Schedules] BY <1>b, <1>6, ReadsTypes
  <2> QED BY <1>a, <1>6, <2>1, <2>2 DEF TypeOK, Stages, Through
<1>7. ASSUME NEW w \in Workers, Refuse(w) \/ Preview(w) PROVE TypeOK' /\ ContractTypes'
  <2>1. /\ pc[w] = "prepare" /\ Reads(w, copy[w]) /\ (Ends(w, "failed") \/ Ends(w, "previewed"))
        /\ UNCHANGED <<contractVars, executing, removed, old, events>>
    BY <1>7 DEF Refuse, Preview
  <2>2. cur[w] \in Ops /\ "failed" \in RunStates /\ "previewed" \in RunStates
    BY <2>1 DEF TypeOK, RunStates
  <2> QED BY <1>6, <2>1, <2>2
<1>8. ASSUME NEW w \in Workers, Submit(w) PROVE TypeOK' /\ ContractTypes'
  <2>1. TypeOK' BY <1>8 DEF Submit, TypeOK, rows
  <2>2. ContractTypes' BY <1>8 DEF Submit, TypeOK, ContractTypes, Phases
  <2> QED BY <2>1, <2>2
<1>9. ASSUME NEW w \in Workers, Record(w) PROVE TypeOK' /\ ContractTypes'
  <2>1. cur[w] \in Ops BY <1>9 DEF Record, TypeOK
  <2>2. Reads(w, copy[w]) /\ UNCHANGED <<contractVars, executing, removed, old, events>>
    BY <1>9 DEF Record
  <2>3. copy' \in [Workers -> SUBSET Schedules] BY <1>b, <2>2, ReadsTypes
  <2>4. CASE /\ run' = [run EXCEPT ![cur[w]] = "queued"] /\ linked' = linked \cup {cur[w]}
             /\ UNCHANGED <<enabled, failures>> /\ Leaves(w, cur[w][1])
    <3>1. run' \in [Ops -> RunStates] /\ linked' \subseteq Ops
      BY <2>1, <2>4 DEF TypeOK, RunStates, Active
    <3> QED BY <1>a, <2>2, <2>3, <2>4, <3>1, LeavesTypes DEF TypeOK, Stages, Through
  <2>5. CASE Ends(w, "failed")
    BY <1>6, <2>1, <2>2, <2>5 DEF RunStates
  <2> QED BY <1>9, <2>4, <2>5 DEF Record
<1>10. ASSUME NEW s \in Schedules, Edit(s) \/ Remove(s) PROVE TypeOK' /\ ContractTypes'
  <2>1. /\ UNCHANGED <<contractVars, failures, run, linked, old, workers>>
        /\ enabled' \subseteq Schedules /\ executing' \subseteq Schedules /\ removed' \subseteq Schedules
    BY <1>10 DEF Edit, Remove, TypeOK
  <2> QED BY <1>a, <2>1 DEF TypeOK, workers
<1>11. ASSUME NEW o \in Ops, EngineMoves(o) PROVE TypeOK' /\ ContractTypes'
  BY <1>11, EngineFacts DEF EngineMoves, TypeOK, ContractTypes, rows, workers
<1>12. ASSUME NEW r \in Ops, Age(r) PROVE TypeOK' /\ ContractTypes'
  BY <1>a, <1>12 DEF Age, TypeOK, rows, workers
<1>13. ASSUME NEW w \in Workers, Crash(w) PROVE TypeOK' /\ ContractTypes'
  <2>1. Continues(w, {}) /\ cur' = [cur EXCEPT ![w] = <<>>] /\ Reads(w, {})
        /\ UNCHANGED <<contractVars, rows, old>>
    BY <1>13 DEF Crash
  <2>2. /\ todo' \in [Workers -> SUBSET Schedules] /\ pc' \in [Workers -> Stages]
        /\ pc'[w] \in Through /\ \A v \in Workers \ {w} : pc'[v] = pc[v]
    BY <2>1, ContinuesTypes
  <2>3. copy' \in [Workers -> SUBSET Schedules] BY <2>1, ReadsTypes
  <2> QED BY <1>a, <2>1, <2>2, <2>3 DEF TypeOK, rows, Stages, Through
<1>14. CASE UNCHANGED vars BY <1>a, <1>14 DEF vars, rows, workers, TypeOK
<1> QED
  BY <1>1, <1>3, <1>4, <1>5, <1>7, <1>8, <1>9, <1>10, <1>11, <1>12, <1>13, <1>14 DEF Next, Proceeds

-----------------------------------------------------------------------------
(* Runs and their operations.                                               *)

\* what all workers have in hand is what it was, except for w, which has nothing
Drops(w) ==
  /\ pc'[w] \in Through \cup {"insert"}
  /\ \A v \in Workers \ {w} : pc'[v] = pc[v] /\ cur'[v] = cur[v]

\* A step that only inserts rows as skipped, and in which no dispatch begins.
LEMMA SkippingKeeps ==
  ASSUME TypeOK, ContractTypes, RunInv, NEW w \in Workers, Drops(w), phase' = phase,
         \A r \in Ops : run'[r] = run[r] \/ (run[r] = "none" /\ run'[r] = "skipped")
  PROVE  RunInv'
<1>1. \A v \in Workers : Working(v)' => v # w /\ pc'[v] = pc[v] /\ cur'[v] = cur[v] /\ cur[v] \in Ops
  BY DEF Drops, Working, Through, TypeOK
<1>2. OneActive' BY DEF RunInv, OneActive, Active
<1>3. Fresh' BY DEF RunInv, Fresh
<1>4. Dispatches'
  <2> SUFFICES ASSUME NEW v \in Workers, Working(v)'
               PROVE  /\ pc'[v] = "prepare" => phase'[cur'[v]] = "absent" /\ run'[cur'[v]] \in {"running", "unknown"}
                      /\ pc'[v] = "record" => phase'[cur'[v]] # "absent" /\ run'[cur'[v]] # "none"
    BY DEF Dispatches, Working
  <2> QED BY <1>1 DEF RunInv, Dispatches
<1>5. OwnRun' BY <1>1 DEF RunInv, OwnRun, Working
<1>6. EndedRunsAreSettled'
  <2>1. \A r \in Ops : run[r] = "none" => phase[r] = "absent" BY DEF RunInv, Fresh
  <2> QED BY <2>1 DEF RunInv, EndedRunsAreSettled, Unsettled, Active
<1> QED BY <1>2, <1>3, <1>4, <1>5, <1>6 DEF RunInv

\* A step that writes one run, which w has in hand and has done with, while the
\* operations stay: what it writes fits, and agrees with the operation.
LEMMA EndingKeeps ==
  ASSUME TypeOK, ContractTypes, RunInv, NEW w \in Workers, Working(w), Drops(w), phase' = phase,
         \A r \in Ops \ {cur[w]} : run'[r] = run[r],
         run'[cur[w]] # "none", run'[cur[w]] # "succeeded",
         run'[cur[w]] \in Active => \A q \in RunsOf(cur[w][1]) \ {cur[w]} : run[q] \notin Active,
         Unsettled(cur[w]) => run'[cur[w]] \in Active
  PROVE  RunInv'
<1>1. \A v \in Workers : Working(v)' =>
        /\ v # w /\ pc'[v] = pc[v] /\ cur'[v] = cur[v] /\ cur[v] \in Ops /\ cur[v] # cur[w]
  BY DEF Drops, Working, Through, TypeOK, RunInv, OwnRun
<1>2. OneActive' BY DEF RunInv, OneActive, RunsOf
<1>3. Fresh' BY DEF RunInv, Fresh
<1>4. Dispatches'
  <2> SUFFICES ASSUME NEW v \in Workers, Working(v)'
               PROVE  /\ pc'[v] = "prepare" => phase'[cur'[v]] = "absent" /\ run'[cur'[v]] \in {"running", "unknown"}
                      /\ pc'[v] = "record" => phase'[cur'[v]] # "absent" /\ run'[cur'[v]] # "none"
    BY DEF Dispatches, Working
  <2> QED BY <1>1 DEF RunInv, Dispatches
<1>5. OwnRun' BY <1>1 DEF RunInv, OwnRun, Working
<1>6. EndedRunsAreSettled' BY DEF RunInv, EndedRunsAreSettled, Unsettled
<1> QED BY <1>2, <1>3, <1>4, <1>5, <1>6 DEF RunInv

\* A step that changes no run, no operation, and nothing that is in hand.
LEMMA IdleKeeps ==
  ASSUME RunInv, UNCHANGED <<phase, run, pc, cur>>
  PROVE  RunInv'
BY DEF RunInv, OneActive, Fresh, Dispatches, OwnRun, Working, EndedRunsAreSettled, Unsettled

LEMMA ReconcileKeeps ==
  ASSUME TypeOK, ContractTypes, RunInv, NEW w \in Workers, Tick(w)
  PROVE  RunInv'
<1>1. /\ run' = [r \in Ops |-> IF r \in {q \in Ops : Changes(q)} THEN Reconciled(r) ELSE run[r]]
      /\ phase' = phase /\ cur' = cur
  BY DEF Tick, ReconcilePending, contractVars
<1>2. \A r \in Ops : run'[r] = run[r] \/ (run[r] \in Active /\ run'[r] = Reconciled(r))
  BY <1>1 DEF Changes
<1>3. pc'[w] \in Through /\ \A v \in Workers \ {w} : pc'[v] = pc[v]
  <2>1. enabled' \ removed \in SUBSET Schedules BY CountTypes DEF Tick, ReconcilePending
  <2> QED BY <2>1, ContinuesTypes DEF Tick
<1>4. \A v \in Workers : Working(v)' => v # w /\ pc'[v] = pc[v] /\ cur[v] \in Ops
  BY <1>3 DEF Working, Through, TypeOK
<1>5. OneActive' BY <1>2 DEF RunInv, OneActive
<1>6. \A r \in Ops : run'[r] = "none" => run[r] = "none"
  BY <1>2, ReconciledTypes
<1>7. Fresh' BY <1>1, <1>6 DEF RunInv, Fresh
<1>8. Dispatches'
  <2> SUFFICES ASSUME NEW v \in Workers, Working(v)'
               PROVE  /\ pc'[v] = "prepare" => phase'[cur'[v]] = "absent" /\ run'[cur'[v]] \in {"running", "unknown"}
                      /\ pc'[v] = "record" => phase'[cur'[v]] # "absent" /\ run'[cur'[v]] # "none"
    BY DEF Dispatches, Working
  <2>1. /\ pc[v] = "prepare" => phase[cur[v]] = "absent" /\ run[cur[v]] \in {"running", "unknown"}
        /\ pc[v] = "record" => phase[cur[v]] # "absent" /\ run[cur[v]] # "none"
    BY DEF RunInv, Dispatches
  <2>2. pc[v] = "prepare" => run'[cur[v]] \in {"running", "unknown"}
    BY <1>2, <1>4, <2>1, ReconciledTypes
  <2> QED BY <1>1, <1>4, <1>6, <2>1, <2>2
<1>9. OwnRun' BY <1>1, <1>4 DEF RunInv, OwnRun, Working
<1>10. EndedRunsAreSettled'
  <2> SUFFICES ASSUME NEW r \in Ops
               PROVE  /\ Unsettled(r) => run'[r] \in Active
                      /\ run'[r] = "succeeded" => phase[r] = "succeeded"
    BY <1>1 DEF EndedRunsAreSettled, Unsettled
  <2>1. Unsettled(r) => run[r] \in Active BY DEF RunInv, EndedRunsAreSettled
  <2>2. run[r] = "succeeded" => phase[r] = "succeeded" BY DEF RunInv, EndedRunsAreSettled
  <2>3. CASE run'[r] = run[r] BY <2>1, <2>2, <2>3
  <2>4. CASE run[r] \in Active /\ run'[r] = Reconciled(r)
    BY <2>4, ReconciledTypes DEF Unsettled, Active
  <2> QED BY <1>2, <2>3, <2>4
<1> QED BY <1>5, <1>7, <1>8, <1>9, <1>10 DEF RunInv

\* A row is inserted: its run has no operation, and nobody else has it in hand.
LEMMA InsertKeeps ==
  ASSUME TypeOK, ContractTypes, RunInv, NEW w \in Workers, Insert(w)
  PROVE  RunInv'
<1>1. cur[w] \in Ops /\ UNCHANGED <<phase, sent, vouched>>
  BY DEF Insert, TypeOK, contractVars
<1>2. CASE UNCHANGED run /\ Leaves(w, cur[w][1])
  <2>1. Drops(w) BY <1>2, LeavesTypes DEF Drops
  <2> QED BY <1>1, <1>2, <2>1, SkippingKeeps
<1>3. CASE /\ run[cur[w]] = "none" /\ Fits(cur[w], "running")
           /\ run' = [run EXCEPT ![cur[w]] = "running"]
           /\ pc' = [pc EXCEPT ![w] = "prepare"] /\ UNCHANGED <<todo, cur>>
  <2>1. run'[cur[w]] = "running" /\ \A r \in Ops \ {cur[w]} : run'[r] = run[r]
    BY <1>1, <1>3 DEF TypeOK
  <2>2. pc'[w] = "prepare" /\ cur' = cur /\ \A v \in Workers \ {w} : pc'[v] = pc[v]
    BY <1>3 DEF TypeOK
  <2>3. phase[cur[w]] = "absent" BY <1>1, <1>3 DEF RunInv, Fresh
  <2>4. \A v \in Workers \ {w} : Working(v)' => Working(v) /\ cur[v] \in Ops /\ cur[v] # cur[w]
    <3> SUFFICES ASSUME NEW v \in Workers \ {w}, Working(v)
                 PROVE  cur[v] \in Ops /\ cur[v] # cur[w]
      BY <2>2 DEF Working
    <3>1. cur[v] \in Ops BY DEF Working, TypeOK
    <3>2. run[cur[v]] # "none" BY DEF Working, RunInv, Dispatches
    <3> QED BY <1>3, <3>1, <3>2
  <2>5. OneActive'
    <3>1. \A q \in RunsOf(cur[w][1]) \ {cur[w]} : run[q] \notin Active
      BY <1>3 DEF Fits, Active
    <3> QED BY <2>1, <3>1 DEF RunInv, OneActive, RunsOf
  <2>6. Fresh' BY <1>1, <2>1 DEF RunInv, Fresh
  <2>7. Dispatches'
    <3> SUFFICES ASSUME NEW v \in Workers, Working(v)'
                 PROVE  /\ pc'[v] = "prepare" => phase'[cur'[v]] = "absent" /\ run'[cur'[v]] \in {"running", "unknown"}
                        /\ pc'[v] = "record" => phase'[cur'[v]] # "absent" /\ run'[cur'[v]] # "none"
      BY DEF Dispatches, Working
    <3>1. CASE v = w BY <1>1, <2>1, <2>2, <2>3, <3>1
    <3>2. CASE v # w BY <1>1, <2>1, <2>2, <2>4, <3>2 DEF RunInv, Dispatches
    <3> QED BY <3>1, <3>2
  <2>8. OwnRun' BY <2>2, <2>4 DEF RunInv, OwnRun
  <2>9. EndedRunsAreSettled' BY <1>1, <2>1, <2>3 DEF RunInv, EndedRunsAreSettled, Unsettled, Active
  <2> QED BY <2>5, <2>6, <2>7, <2>8, <2>9 DEF RunInv
<1> QED BY <1>2, <1>3 DEF Insert

\* An operation that is created is that of a run which its worker has kept active.
LEMMA SubmitKeeps ==
  ASSUME TypeOK, ContractTypes, RunInv, NEW w \in Workers, Submit(w)
  PROVE  RunInv'
<1>1. /\ cur[w] \in Ops /\ Working(w) /\ phase[cur[w]] = "absent"
      /\ run[cur[w]] \in {"running", "unknown"}
  BY DEF Submit, TypeOK, Working, RunInv, Dispatches
<1>2. phase'[cur[w]] = "waiting" /\ \A r \in Ops \ {cur[w]} : phase'[r] = phase[r]
  BY <1>1 DEF Submit, ContractTypes
<1>3. /\ run' = run /\ cur' = cur /\ pc'[w] = "record"
      /\ \A v \in Workers \ {w} : pc'[v] = pc[v]
  BY DEF Submit, rows, TypeOK
<1>4. \A v \in Workers : Working(v)' <=> Working(v) BY <1>1, <1>3 DEF Working
<1>5. \A v \in Workers \ {w} : Working(v) => cur[v] \in Ops /\ cur[v] # cur[w]
  BY <1>1 DEF Working, TypeOK, RunInv, OwnRun
<1>6. Dispatches'
  <2> SUFFICES ASSUME NEW v \in Workers, Working(v)'
               PROVE  /\ pc'[v] = "prepare" => phase'[cur'[v]] = "absent" /\ run'[cur'[v]] \in {"running", "unknown"}
                      /\ pc'[v] = "record" => phase'[cur'[v]] # "absent" /\ run'[cur'[v]] # "none"
    BY DEF Dispatches, Working
  <2>1. CASE v = w BY <1>1, <1>2, <1>3, <2>1
  <2>2. CASE v # w BY <1>2, <1>3, <1>4, <1>5, <2>2 DEF RunInv, Dispatches
  <2> QED BY <2>1, <2>2
<1>7. OwnRun' BY <1>3, <1>4 DEF RunInv, OwnRun
<1>8. Fresh' BY <1>1, <1>2, <1>3 DEF RunInv, Fresh
<1>9. EndedRunsAreSettled'
  BY <1>1, <1>2, <1>3 DEF RunInv, EndedRunsAreSettled, Unsettled, Active
<1>10. OneActive' BY <1>3 DEF RunInv, OneActive
<1> QED BY <1>6, <1>7, <1>8, <1>9, <1>10 DEF RunInv

\* What the worker records after it created the operation fits: if another run is
\* active, the operation has a result already.
LEMMA RecordKeeps ==
  ASSUME TypeOK, ContractTypes, RunInv, NEW w \in Workers, Record(w)
  PROVE  RunInv'
<1>1. cur[w] \in Ops /\ Working(w) /\ phase' = phase
  BY DEF Record, TypeOK, Working, contractVars
<1>2. CASE /\ Fits(cur[w], "queued") /\ run' = [run EXCEPT ![cur[w]] = "queued"]
           /\ Leaves(w, cur[w][1])
  <2>1. run'[cur[w]] = "queued" /\ \A r \in Ops \ {cur[w]} : run'[r] = run[r]
    BY <1>1, <1>2 DEF TypeOK
  <2>2. Drops(w) BY <1>2, LeavesTypes DEF Drops
  <2>3. \A q \in RunsOf(cur[w][1]) \ {cur[w]} : run[q] \notin Active
    BY <1>2 DEF Fits, Active
  <2> QED BY <1>1, <2>1, <2>2, <2>3, EndingKeeps DEF Active
<1>3. CASE ~Fits(cur[w], "queued") /\ Ends(w, "failed")
  <2>1. /\ run'[cur[w]] = "failed" /\ \A r \in Ops \ {cur[w]} : run'[r] = run[r]
        /\ Drops(w)
    BY <1>1, <1>3, EndsTypes DEF Drops, RunStates
  <2>2. PICK q \in RunsOf(cur[w][1]) \ {cur[w]} : run[q] \in Active BY <1>3 DEF Fits
  <2>3. run[cur[w]] \notin Active BY <1>1, <2>2 DEF RunInv, OneActive, RunsOf
  <2>4. ~Unsettled(cur[w]) BY <1>1, <2>3 DEF RunInv, EndedRunsAreSettled
  <2> QED BY <1>1, <2>1, <2>4, EndingKeeps DEF Active
<1> QED BY <1>2, <1>3 DEF Record

LEMMA RunInit == Init => RunInv
BY DEF Init, ContractInit, RunInv, OneActive, Fresh, Dispatches, OwnRun, Working,
       EndedRunsAreSettled, Unsettled, Active

LEMMA RunStep == TypeOK /\ ContractTypes /\ RunInv /\ [Next]_vars => RunInv'
<1> SUFFICES ASSUME TypeOK, ContractTypes, RunInv, [Next]_vars PROVE RunInv'
  OBVIOUS
<1>1. ASSUME NEW w \in Workers, Tick(w) PROVE RunInv'
  BY <1>1, ReconcileKeeps
<1>2. ASSUME NEW w \in Workers, NEW r \in Ops, NEW m, NEW S, Consider(w, r, m, S), phase' = phase
      PROVE  RunInv'
  <2>1. /\ pc'[w] \in Through \cup {"insert"}
        /\ \A v \in Workers \ {w} : pc'[v] = pc[v] /\ cur'[v] = cur[v]
        /\ \A q \in Ops : run'[q] = run[q] \/ (run[q] = "none" /\ run'[q] = "skipped")
    BY <1>2, ConsiderTypes
  <2> QED BY <1>2, <2>1, SkippingKeeps DEF Drops
<1>3. ASSUME NEW w \in Workers, Evaluate(w) PROVE RunInv'
  <2>1. PICK s \in todo[w], m \in Minutes :
          /\ \/ \E S : Consider(w, <<s, Local[m]>>, m, S)
             \/ (\E S : Skip(S)) /\ Leaves(w, s)
          /\ phase' = phase
    BY <1>3 DEF Evaluate, contractVars
  <2>2. <<s, Local[m]>> \in Ops BY RunFacts DEF TypeOK
  <2>3. CASE \E S : Consider(w, <<s, Local[m]>>, m, S) BY <1>2, <2>1, <2>2, <2>3
  <2>4. CASE (\E S : Skip(S)) /\ Leaves(w, s)
    <3>1. Drops(w) BY <2>4, LeavesTypes DEF Drops
    <3> QED BY <2>1, <2>4, <3>1, SkipTypes, SkippingKeeps
  <2> QED BY <2>1, <2>3, <2>4
<1>4. ASSUME NEW w \in Workers, RunNow(w) PROVE RunInv'
  <2>1. PICK s \in Schedules, m \in Minutes :
          w \in Callers /\ Consider(w, <<s, w>>, m, {}) /\ phase' = phase
    BY <1>4 DEF RunNow, contractVars
  <2> QED BY <1>2, <2>1, RunFacts
<1>5. ASSUME NEW w \in Workers, Insert(w) PROVE RunInv' BY <1>5, InsertKeeps
<1>6. ASSUME NEW w \in Workers, Refuse(w) \/ Preview(w) PROVE RunInv'
  <2>1. PICK st \in {"failed", "previewed"} : Ends(w, st) BY <1>6 DEF Refuse, Preview
  <2>2. /\ pc[w] = "prepare" /\ Working(w) /\ cur[w] \in Ops /\ phase' = phase /\ ~Unsettled(cur[w])
    BY <1>6 DEF Refuse, Preview, Working, TypeOK, contractVars, Unsettled, RunInv, Dispatches
  <2>3. /\ run'[cur[w]] = st /\ \A r \in Ops \ {cur[w]} : run'[r] = run[r]
        /\ Drops(w)
    BY <2>1, <2>2, EndsTypes DEF Drops, RunStates
  <2> QED BY <2>2, <2>3, EndingKeeps DEF Active
<1>7. ASSUME NEW w \in Workers, Submit(w) PROVE RunInv' BY <1>7, SubmitKeeps
<1>8. ASSUME NEW w \in Workers, Record(w) PROVE RunInv' BY <1>8, RecordKeeps
<1>9. ASSUME NEW s \in Schedules, Edit(s) \/ Remove(s) PROVE RunInv'
  BY <1>9, IdleKeeps DEF Edit, Remove, contractVars, workers
<1>10. ASSUME NEW o \in Ops, EngineMoves(o) PROVE RunInv'
  <2>1. /\ phase[o] \in {"waiting", "sent", "unknown"} /\ phase'[o] # "absent"
        /\ \A r \in Ops \ {o} : phase'[r] = phase[r]
    BY <1>10, EngineFacts
  <2>2. UNCHANGED <<run, pc, cur>> BY <1>10 DEF EngineMoves, rows, workers
  <2>3. run[o] \in Active BY <2>1 DEF RunInv, EndedRunsAreSettled, Unsettled
  <2>4. \A r \in Ops : phase'[r] = "absent" <=> phase[r] = "absent" BY <2>1
  <2>5. OneActive' /\ OwnRun' BY <2>2 DEF RunInv, OneActive, OwnRun, Working
  <2>6. Fresh' BY <2>2, <2>4 DEF RunInv, Fresh
  <2>7. Dispatches' BY <2>2, <2>4 DEF RunInv, Dispatches, TypeOK
  <2>8. EndedRunsAreSettled'
    BY <2>1, <2>2, <2>3 DEF RunInv, EndedRunsAreSettled, Unsettled, Active
  <2> QED BY <2>5, <2>6, <2>7, <2>8 DEF RunInv
<1>11. ASSUME NEW r \in Ops, Age(r) PROVE RunInv'
  BY <1>11, IdleKeeps DEF Age, contractVars, rows, workers
<1>12. ASSUME NEW w \in Workers, Crash(w) PROVE RunInv'
  <2>1. Continues(w, {}) /\ cur' = [cur EXCEPT ![w] = <<>>] /\ UNCHANGED <<phase, run>>
    BY <1>12 DEF Crash, contractVars, rows
  <2>2. Drops(w) BY <2>1, ContinuesTypes DEF Drops, TypeOK
  <2> QED BY <2>1, <2>2, SkippingKeeps
<1>13. CASE UNCHANGED vars
  BY <1>13, IdleKeeps DEF vars, contractVars, rows, workers
<1> QED
  BY <1>1, <1>3, <1>4, <1>5, <1>6, <1>7, <1>8, <1>9, <1>10, <1>11, <1>12, <1>13 DEF Next, Proceeds

-----------------------------------------------------------------------------
(* The theorems.                                                            *)

LEMMA InvariantHolds == Spec => []IInv
<1>1. Init => IInv BY TypeInit, RunInit DEF IInv
<1>2. IInv /\ [Next]_vars => IInv' BY TypeStep, RunStep DEF IInv
<1> QED BY <1>1, <1>2, PTL DEF Spec

\* Every column of schedules and runs, and every register of the ticks and requests,
\* keeps its type; a worker that dispatches has a run in hand.
THEOREM ScheduleTypes == Spec => []TypeOK
<1>1. IInv => TypeOK BY DEF IInv
<1> QED BY <1>1, InvariantHolds, PTL

\* For any schedules and clock, and any number of overlapping ticks and requests,
\* edits and crashes, a run that is over has no operation that may still act, and one
\* called succeeded has one that did.
THEOREM RunsEndSettled == Spec => []EndedRunsAreSettled
<1>1. IInv => EndedRunsAreSettled BY DEF IInv, RunInv
<1> QED BY <1>1, InvariantHolds, PTL

\* For any schedules and clock, and any number of overlapping ticks and requests,
\* edits and crashes, a schedule has at most one operation that may still act.
THEOREM SchedulesDoNotOverlap == Spec => []OneOperationAtATime
<1>1. ASSUME IInv PROVE OneOperationAtATime
  <2> SUFFICES ASSUME NEW s \in Schedules
               PROVE  Cardinality({r \in RunsOf(s) : Unsettled(r)}) <= 1
    BY DEF OneOperationAtATime
  <2> DEFINE U == {r \in RunsOf(s) : Unsettled(r)}
  <2>1. \A r, q \in U : r = q
    BY <1>1 DEF IInv, RunInv, EndedRunsAreSettled, OneActive, RunsOf
  <2>2. CASE U = {} BY <2>2, FS_EmptySet
  <2>3. CASE U # {}
    <3>1. PICK r \in U : U = {r} BY <2>1, <2>3
    <3>2. Cardinality({r}) = 1 BY FS_Singleton
    <3>3. Cardinality(U) = 1 BY <3>1, <3>2
    <3> QED BY <3>3
  <2> QED BY <2>2, <2>3
<1> QED BY <1>1, InvariantHolds, PTL

\* Ticks, requests and reconciliation only ever ask of the engine what its contract
\* allows: an operation is created once, under the key of its run, and moved by the
\* engine alone.
THEOREM SchedulesKeepContract == Spec => ContractSpec
<1>1. Init => ContractInit BY DEF Init
<1>2. IInv /\ IInv' /\ [Next]_vars => [ContractNext]_contractVars
  <2> SUFFICES ASSUME IInv, IInv', [Next]_vars, ~UNCHANGED contractVars PROVE ContractNext
    OBVIOUS
  <2>1. phase' \in [Ops -> Phases] /\ sent' \in [Ops -> Nat] /\ vouched' \subseteq Ops
    BY DEF IInv, ContractTypes
  <2>2. ASSUME NEW w \in Workers, Submit(w)
        PROVE  vouched' = vouched /\ \A o \in Ops : Accept(o) \/ Keep(o)
    BY <2>2 DEF Submit, Keep, IInv, TypeOK, ContractTypes
  <2>3. ASSUME NEW o \in Ops, EngineMoves(o)
        PROVE  /\ vouched \subseteq vouched'
               /\ Send(o) \/ Withdraw(o) \/ Conclude(o) \/ LoseTrack(o)
               /\ \A r \in Ops \ {o} : Keep(r)
    BY <2>3 DEF EngineMoves, Keep, IInv, ContractTypes
  <2>4. (\E w \in Workers : Submit(w)) \/ (\E o \in Ops : EngineMoves(o))
    BY DEF Next, Proceeds, Tick, RunNow, Evaluate, Insert, Refuse, Preview, Record, Crash, Edit,
           Remove, Age, vars
  <2> QED BY <2>1, <2>2, <2>3, <2>4 DEF ContractNext
<1> QED BY <1>1, <1>2, InvariantHolds, PTL DEF Spec, ContractSpec
=============================================================================
