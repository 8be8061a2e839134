----------------------------- MODULE PruneGuard -----------------------------
(***************************************************************************)
(* Pruning a daemon under its prune reservation (docker-prune-guard.js,    *)
(* withPrune), as called by DockerService.prune (one sweep of all stopped  *)
(* containers) and by disk-pressure.js run (the removal, one by one, of    *)
(* containers chosen before the reservation was taken).                    *)
(*                                                                         *)
(* Operations reserve their container BEFORE they look for the prune       *)
(* reservation; a prune makes its reservation BEFORE it looks for theirs.  *)
(***************************************************************************)
EXTENDS DockerDaemon

VARIABLES ppc,     \* ppc[p]: the step prune p is at
          chosen,  \* chosen[p]: stopped containers a disk-pressure run will remove
          guard    \* guard[p]: p has the handle of the reservation it created

pruning == <<ppc, chosen, guard>>

PruneInit ==
  /\ ppc = [p \in Pruners |-> "idle"]
  /\ chosen = [p \in Pruners |-> {}]
  /\ guard = [p \in Pruners |-> FALSE]

PruneTypeOK ==
  /\ ppc \in [Pruners -> {"idle", "evidence", "reserve", "survey", "sweep", "reclaim", "release", "done"}]
  /\ chosen \in [Pruners -> SUBSET Ids]
  /\ guard \in [Pruners -> BOOLEAN]

PGo(p, step) == ppc' = [ppc EXCEPT ![p] = step]
PEnd(p)      == PGo(p, "done") /\ chosen' = [chosen EXCEPT ![p] = {}] /\ guard' = [guard EXCEPT ![p] = FALSE]

(* recoveryContainer: reservations of operations, and retained originals.  *)
Evidence ==
  \/ \E s \in Slots \ {PruneSlot} : held[s] # NoOne
  \/ \E i \in Ids : box[i].at = "recovery"

(* A prune takes nothing; a disk-pressure run first picks stopped          *)
(* containers that are old enough.                                         *)
Request(p) ==
  /\ ppc[p] = "idle" /\ PGo(p, "evidence")
  /\ \E some \in SUBSET {i \in Ids : Exists(i) /\ ~box[i].up} : chosen' = [chosen EXCEPT ![p] = some]
  /\ UNCHANGED <<guard, daemon>>

FirstSurvey(p) ==
  /\ ppc[p] = "evidence"
  /\ \/ ~Evidence /\ PGo(p, "reserve") /\ UNCHANGED <<chosen, guard, daemon>>
     \/ Evidence /\ PEnd(p) /\ UNCHANGED daemon

ReserveGuard(p) ==
  /\ ppc[p] = "reserve"
  /\ \/ /\ Reserved(PruneSlot, p)
        /\ guard' = [guard EXCEPT ![p] = TRUE] /\ PGo(p, "survey") /\ UNCHANGED chosen
     \/ (Conflict(PruneSlot) \/ ReserveLost(PruneSlot, p)) /\ PEnd(p)

BugSecondSurvey(p) ==
  /\ ppc[p] = "survey" /\ PGo(p, IF chosen[p] = {} THEN "sweep" ELSE "reclaim")
  /\ UNCHANGED <<chosen, guard, daemon>>

SecondSurvey(p) ==
  /\ ppc[p] = "survey" /\ UNCHANGED <<chosen, guard>>
  /\ \/ ~Evidence /\ PGo(p, IF chosen[p] = {} THEN "sweep" ELSE "reclaim") /\ UNCHANGED daemon
     \/ Evidence /\ PGo(p, "release") /\ UNCHANGED daemon
     \/ Glitch /\ PGo(p, "release")

(* docker.pruneContainers: done, refused, or lost on the way.  Docker can  *)
(* go on with an accepted prune: a lost one keeps the reservation.         *)
SweepDone(p) ==
  /\ ppc[p] = "sweep" /\ PGo(p, "release") /\ UNCHANGED <<chosen, guard, held, late>>
  /\ \/ box' = Swept /\ UNCHANGED faults
     \/ UNCHANGED box /\ Fault

BugSweepLost(p) ==
  /\ ppc[p] = "sweep" /\ PGo(p, "release") /\ Fault /\ UNCHANGED <<chosen, guard, held>>
  /\ \/ box' = Swept /\ UNCHANGED late
     \/ "sweep" \in LateCalls /\ late' = late \cup {<<"sweep", p>>} /\ UNCHANGED box

SweepLost(p) ==
  /\ ppc[p] = "sweep" /\ PEnd(p) /\ Fault /\ UNCHANGED held
  /\ \/ box' = Swept /\ UNCHANGED late
     \/ "sweep" \in LateCalls /\ late' = late \cup {<<"sweep", p>>} /\ UNCHANGED box

(* disk-pressure: each chosen container in turn; a refusal is reported.    *)
Reclaim(p) ==
  /\ ppc[p] = "reclaim" /\ chosen[p] # {}
  /\ \E i \in chosen[p] :
       \/ /\ Done("reclaim", i) \/ Refused("reclaim", i)
          /\ chosen' = [chosen EXCEPT ![p] = @ \ {i}] /\ UNCHANGED <<ppc, guard>>
       \/ Lost("reclaim", i) /\ PEnd(p)

ReclaimEnds(p) ==
  /\ ppc[p] = "reclaim" /\ chosen[p] = {} /\ PGo(p, "release")
  /\ UNCHANGED <<chosen, guard, daemon>>

(* finally: its own reservation goes, unless the outcome is uncertain.     *)
ReleaseGuard(p) ==
  /\ ppc[p] = "release" /\ guard[p]
  /\ Freed(PruneSlot) \/ FreeFailed(PruneSlot)
  /\ PEnd(p)

PruneCrash(p) ==
  /\ ppc[p] \notin {"idle", "done"} /\ Glitch /\ PEnd(p)

PruneStep(p) ==
  \/ Request(p) \/ FirstSurvey(p) \/ ReserveGuard(p) \/ SecondSurvey(p) \/ SweepDone(p)
  \/ SweepLost(p) \/ Reclaim(p) \/ ReclaimEnds(p) \/ ReleaseGuard(p) \/ PruneCrash(p)

PruneNext == \E p \in Pruners : PruneStep(p)
=============================================================================
