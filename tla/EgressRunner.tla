---------------------------- MODULE EgressRunner ----------------------------
(***************************************************************************)
(* Filtering the egress of containers (src/services/egress-runner.js): a   *)
(* named helper container reserves each target on the daemon, joins its    *)
(* network namespace and installs, removes or inspects one nftables table  *)
(* there.  Stacks are applied target by target after snapshots of all of   *)
(* them, and rolled back from the snapshots.  A helper whose commands have *)
(* an uncertain outcome, or that could not restore, keeps its reservation. *)
(*                                                                         *)
(* The tables live in the namespace of one running instance of a container *)
(* (box[c].starts names it): a restarted container has no table.           *)
(***************************************************************************)
EXTENDS DockerDaemon

CONSTANTS Policies,  \* egress policies
          Covers,    \* Covers[q]: the containers in the scope of policy q
          Rank       \* the order of container ids

ASSUME EgressAssumption ==
  /\ Covers \in [Policies -> SUBSET Names]
  /\ Rank \in [Names -> Nat]
  /\ \A c, d \in Names : Rank[c] = Rank[d] => c = d

VARIABLES epc,       \* epc[e]: the step operation e is at
          job,       \* job[e]: what its process remembers
          table,     \* table[c]: the instance of c in which the table was installed last; 0: removed
          abandoned, \* abandoned[c]: a command nobody waits for, still running in the helper of c
          active,    \* active[q]: policy q is configured
          told,      \* told[c]: what table[c] is, as the operations on c last left it
          reported,  \* reported[q][c]: the instance in which q was reported applied to c
          refused    \* refused[e]: the operation whose reservation refused e

egress == <<epc, job, table, abandoned, active, told, reported, refused>>

Nowhere == [c \in Names |-> 0]
Idle    == [c \in Names |-> <<"none", 0, 0>>]

(* targets' instances; targets still to visit in this phase; open sessions;*)
(* tables found by the snapshots; targets attempted; uncertain sessions,   *)
(* and sessions that need recovery                                         *)
NoJob == [kind |-> "none", policy |-> NoOne, inst |-> Nowhere, todo |-> {}, open |-> {},
          found |-> Nowhere, tried |-> {}, unsure |-> {}]

EgressSteps == {"idle", "reserve", "barrier", "join", "snapshot", "policies", "mutate",
                "recheck", "rollback", "close", "done"}

EgressInit ==
  /\ epc = [e \in Egressers |-> "idle"]
  /\ job = [e \in Egressers |-> NoJob]
  /\ table = Nowhere /\ told = Nowhere
  /\ abandoned = Idle
  /\ active \in [Policies -> BOOLEAN]
  /\ reported = [q \in Policies |-> Nowhere]
  /\ refused = [e \in Egressers |-> NoOne]

Commands == {"none", "apply", "remove", "status", "restore"} \X Nat \X Nat

EgressTypeOK ==
  /\ epc \in [Egressers -> EgressSteps]
  /\ job \in [Egressers -> [kind : {"none", "apply", "remove", "status"}, policy : Policies \cup {NoOne},
                            inst : [Names -> Nat], todo : SUBSET Names, open : SUBSET Names,
                            found : [Names -> Nat], tried : SUBSET Names, unsure : SUBSET Names]]
  /\ table \in [Names -> Nat] /\ told \in [Names -> Nat]
  /\ abandoned \in [Names -> Commands]
  /\ active \in [Policies -> BOOLEAN]
  /\ reported \in [Policies -> [Names -> Nat]]
  /\ refused \in [Egressers -> Actors \cup {NoOne}]

ruleset == <<table, abandoned>>
records == <<active, told, reported, refused>>

EGo(e, step)  == epc' = [epc EXCEPT ![e] = step]
Targets(e)    == {c \in Names : job[e].inst[c] # 0}
BugNext1(e)   == job[e].todo
Next1(e)      == {c \in job[e].todo : \A d \in job[e].todo : Rank[c] <= Rank[d]}

(* checkTarget: the container runs, and still is the instance it was.      *)
Same(e, c) == box[c].up /\ box[c].starts = job[e].inst[c]

CheckFails(e, c) ==
  \/ ~Same(e, c) /\ UNCHANGED daemon
  \/ Glitch

(* What a command does to the table of c, in the namespace of instance n;  *)
(* a namespace that is not the container's any more concerns nobody.       *)
Ruled(c, command) ==
  IF command[2] # box[c].starts THEN table
  ELSE CASE command[1] = "apply"   -> [table EXCEPT ![c] = command[2]]
         [] command[1] = "remove"  -> [table EXCEPT ![c] = 0]
         [] command[1] = "restore" -> [table EXCEPT ![c] = command[3]]
         [] OTHER                  -> table

(* execute(): the command ran; its exit status says that it changed        *)
(* nothing; or nobody knows, and it may even be running still.             *)
Ran(c, command)     == table' = Ruled(c, command) /\ UNCHANGED <<abandoned, daemon>>
Exited              == Glitch /\ UNCHANGED ruleset
Unknown(c, command) ==
  /\ Glitch
  /\ \/ UNCHANGED ruleset
     \/ table' = Ruled(c, command) /\ UNCHANGED abandoned
     \/ abandoned' = [abandoned EXCEPT ![c] = command] /\ UNCHANGED table

(* The work is over, well or not; the sessions still have to be closed.    *)
Close(e, unsure) ==
  /\ EGo(e, "close")
  /\ job' = [job EXCEPT ![e] = [NoJob EXCEPT !.open = job[e].open, !.unsure = job[e].unsure \cup unsure]]

(* After a failure an apply rolls back, a removal only closes its session. *)
Fallback(e, tried, unsure) ==
  \/ /\ job[e].kind = "apply" /\ EGo(e, "rollback")
     /\ job' = [job EXCEPT ![e].tried = @ \cup tried, ![e].unsure = @ \cup unsure]
  \/ job[e].kind # "apply" /\ Close(e, unsure)

(***************************************************************************)
(* Sessions: all targets are reserved in the order of their ids.           *)
(***************************************************************************)
(* The routes read the policy and the targets, then call the runner.       *)
Ask(e) ==
  /\ epc[e] = "idle" /\ EGo(e, "reserve")
  /\ \E q \in Policies, kind \in {"apply", "remove", "status"} :
     \E targets \in IF kind = "apply" THEN {{c \in Covers[q] : box[c].up}}
                                      ELSE {{c} : c \in {d \in Covers[q] : box[d].up}} :
       /\ targets # {}
       /\ kind = "apply" => active[q]
       /\ job' = [job EXCEPT ![e] = [NoJob EXCEPT
            !.kind = kind, !.policy = q, !.todo = targets,
            !.inst = [c \in Names |-> IF c \in targets THEN box[c].starts ELSE 0]]]
  /\ UNCHANGED <<ruleset, records, daemon>>

ReserveTarget(e) ==
  /\ epc[e] = "reserve" /\ UNCHANGED <<ruleset, active, told, reported>>
  /\ \E c \in Next1(e) :
       \/ /\ Reserved(EgressSlot(c), e) /\ EGo(e, "barrier")
          /\ job' = [job EXCEPT ![e].open = @ \cup {c}] /\ UNCHANGED refused
       \/ /\ Conflict(EgressSlot(c)) /\ Close(e, {})
          /\ refused' = [refused EXCEPT ![e] = held[EgressSlot(c)]]
       \/ ReserveLost(EgressSlot(c), e) /\ Close(e, {}) /\ UNCHANGED refused

NoPrune(e) ==
  /\ epc[e] = "barrier" /\ UNCHANGED <<ruleset, records>>
  /\ \/ held[PruneSlot] = NoOne /\ EGo(e, "join") /\ UNCHANGED <<job, daemon>>
     \/ held[PruneSlot] # NoOne /\ Close(e, {}) /\ UNCHANGED daemon
     \/ Glitch /\ Close(e, {})

(* Start the helper in the namespace, check that it is the right one,      *)
(* prepare the tools.                                                      *)
Join(e) ==
  /\ epc[e] = "join" /\ UNCHANGED <<ruleset, records>>
  /\ \E c \in Next1(e) :
       \/ /\ Same(e, c) /\ UNCHANGED daemon
          /\ LET left == job[e].todo \ {c}
             IN /\ EGo(e, IF left = {} THEN "snapshot" ELSE "reserve")
                /\ job' = [job EXCEPT ![e].todo = IF left = {} THEN Targets(e) ELSE left]
       \/ CheckFails(e, c) /\ Close(e, {})
       \/ Glitch /\ Close(e, {c})

Snapshot(e) ==
  /\ epc[e] = "snapshot" /\ UNCHANGED <<ruleset, records>>
  /\ \E c \in Next1(e) :
       LET left  == job[e].todo \ {c}
           taken == [job EXCEPT ![e].todo = IF left = {} THEN Targets(e) ELSE left,
                                ![e].found[c] = IF table[c] = box[c].starts THEN table[c] ELSE 0]
       IN \/ /\ Same(e, c) /\ UNCHANGED daemon
             /\ \/ /\ job[e].kind = "apply" /\ job' = taken
                   /\ EGo(e, IF left = {} THEN "mutate" ELSE "snapshot")
                \/ job[e].kind = "remove" /\ EGo(e, "policies") /\ UNCHANGED job
                \/ job[e].kind = "status" /\ Close(e, {})
          \/ CheckFails(e, c) /\ Close(e, {})
          \/ Glitch /\ Close(e, {c})

(***************************************************************************)
(* Commands that change tables.                                            *)
(***************************************************************************)
(* Other active policies of the target keep its table.                     *)
BugRemaining(e, c) == {q \in Policies : active[q] /\ q # job[e].policy /\ Covers[q] = {c}}
Remaining(e, c) == {q \in Policies : active[q] /\ q # job[e].policy /\ c \in Covers[q]}

RemainingPolicies(e) ==
  /\ epc[e] = "policies" /\ UNCHANGED <<ruleset, active, told, refused, daemon>>
  /\ \E c \in Targets(e) :
       \/ Remaining(e, c) # {} /\ Close(e, {}) /\ UNCHANGED reported
       \/ /\ Remaining(e, c) = {} /\ EGo(e, "mutate") /\ UNCHANGED job
          /\ reported' = [reported EXCEPT ![job[e].policy][c] = 0]

Mutate(e) ==
  /\ epc[e] = "mutate" /\ UNCHANGED <<active, reported, refused>>
  /\ \E c \in Next1(e) :
     LET command == <<job[e].kind, job[e].inst[c], 0>>
     IN \/ /\ job[e].kind = "apply" /\ ~Same(e, c) /\ Fallback(e, {}, {})
           /\ UNCHANGED <<ruleset, told, daemon>>
        \/ /\ Ran(c, command) /\ EGo(e, "recheck") /\ job' = [job EXCEPT ![e].tried = @ \cup {c}]
           /\ told' = IF job[e].kind = "apply" THEN told ELSE [told EXCEPT ![c] = 0]
        \/ Exited /\ Fallback(e, {c}, {}) /\ UNCHANGED told
        \/ Unknown(c, command) /\ Fallback(e, {c}, {c}) /\ UNCHANGED told

(* The target has to be the same instance still; then the next target, or  *)
(* the success of the whole operation, which is what callers are told.     *)
Recheck(e) ==
  /\ epc[e] = "recheck" /\ UNCHANGED <<ruleset, active, refused>>
  /\ \E c \in Next1(e) :
     LET left    == job[e].todo \ {c}
         applied == [d \in Names |-> left = {} /\ job[e].kind = "apply" /\ d \in Targets(e)]
     IN \/ /\ Same(e, c) /\ UNCHANGED daemon
           /\ IF left = {} THEN Close(e, {})
              ELSE EGo(e, "mutate") /\ job' = [job EXCEPT ![e].todo = left]
           /\ told' = [d \in Names |-> IF applied[d] THEN job[e].inst[d] ELSE told[d]]
           /\ reported' = [reported EXCEPT ![job[e].policy] =
                [d \in Names |-> IF applied[d] THEN job[e].inst[d] ELSE @[d]]]
        \/ CheckFails(e, c) /\ Fallback(e, {}, {}) /\ UNCHANGED <<told, reported>>

(* Attempted targets are restored; an uncertain one is left to recovery,   *)
(* and so is one whose restoration fails.                                  *)
BugRollback(e) ==
  /\ epc[e] = "rollback" /\ job[e].tried # {} /\ UNCHANGED <<epc, records>>
  /\ \E c \in job[e].tried :
     LET command == <<"restore", job[e].inst[c], job[e].found[c]>>
     IN /\ job' = [job EXCEPT ![e].tried = @ \ {c}]
        /\ \/ c \in job[e].unsure /\ UNCHANGED <<ruleset, daemon>>
           \/ c \notin job[e].unsure /\ (Ran(c, command) \/ Exited \/ Unknown(c, command))

Rollback(e) ==
  /\ epc[e] = "rollback" /\ job[e].tried # {} /\ UNCHANGED <<epc, records>>
  /\ \E c \in job[e].tried :
     LET command == <<"restore", job[e].inst[c], job[e].found[c]>>
         visited == [job EXCEPT ![e].tried = @ \ {c}]
         failed  == [visited EXCEPT ![e].unsure = @ \cup {c}]
     IN /\ \A d \in job[e].tried : Rank[d] <= Rank[c]
        /\ \/ c \in job[e].unsure /\ job' = visited /\ UNCHANGED <<ruleset, daemon>>
           \/ c \notin job[e].unsure /\ Ran(c, command) /\ job' = visited
           \/ c \notin job[e].unsure /\ (Exited \/ Unknown(c, command)) /\ job' = failed

RollbackEnds(e) ==
  /\ epc[e] = "rollback" /\ job[e].tried = {} /\ Close(e, {})
  /\ UNCHANGED <<ruleset, records, daemon>>

(***************************************************************************)
(* closeSession: an uncertain helper is stopped, which ends its commands,  *)
(* and kept; any other is removed.                                         *)
(***************************************************************************)
CloseSession(e) ==
  /\ epc[e] = "close" /\ UNCHANGED <<epc, records, table>>
  /\ \E c \in job[e].open :
       /\ \A d \in job[e].open : Rank[d] <= Rank[c]
       /\ job' = [job EXCEPT ![e].open = @ \ {c}]
       /\ \/ c \in job[e].unsure /\ abandoned' = [abandoned EXCEPT ![c] = Idle[c]] /\ UNCHANGED daemon
          \/ c \in job[e].unsure /\ Glitch /\ UNCHANGED abandoned
          \/ c \notin job[e].unsure /\ (Freed(EgressSlot(c)) \/ FreeFailed(EgressSlot(c))) /\ UNCHANGED abandoned

Finish(e) == EGo(e, "done") /\ job' = [job EXCEPT ![e] = NoJob] /\ UNCHANGED <<ruleset, records>>

Closed(e) == epc[e] = "close" /\ job[e].open = {} /\ Finish(e) /\ UNCHANGED daemon

(* The process dies: helpers, tables and running commands stay.            *)
EgressCrash(e) == epc[e] \notin {"idle", "done"} /\ Glitch /\ Finish(e)

(* A command nobody waits for takes effect after all.                      *)
AbandonedRuns(c) ==
  /\ abandoned[c] # Idle[c]
  /\ table' = Ruled(c, abandoned[c]) /\ abandoned' = [abandoned EXCEPT ![c] = Idle[c]]
  /\ UNCHANGED <<epc, job, records, daemon>>

(***************************************************************************)
(* Policies are rows: created (a removed one is enabled again), which      *)
(* enforces nothing yet, and removed, which needs no reservation.          *)
(***************************************************************************)
CreatePolicy(q) ==
  /\ ~active[q] /\ active' = [active EXCEPT ![q] = TRUE]
  /\ reported' = [reported EXCEPT ![q] = Nowhere]
  /\ UNCHANGED <<epc, job, ruleset, told, refused, daemon>>

RemovePolicy(q) ==
  /\ active[q] /\ active' = [active EXCEPT ![q] = FALSE]
  /\ reported' = [reported EXCEPT ![q] = Nowhere]
  /\ UNCHANGED <<epc, job, ruleset, told, refused, daemon>>

EgressStep(e) ==
  \/ Ask(e) \/ ReserveTarget(e) \/ NoPrune(e) \/ Join(e) \/ Snapshot(e) \/ RemainingPolicies(e)
  \/ Mutate(e) \/ Recheck(e) \/ Rollback(e) \/ RollbackEnds(e) \/ CloseSession(e) \/ Closed(e)
  \/ EgressCrash(e)

PolicyStep(q) == CreatePolicy(q) \/ RemovePolicy(q)

EgressNext ==
  \/ \E e \in Egressers : EgressStep(e)
  \/ \E c \in Names : AbandonedRuns(c)
  \/ \E q \in Policies : PolicyStep(q)
=============================================================================
