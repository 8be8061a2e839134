------------------------- MODULE DaemonReservations -------------------------
(***************************************************************************)
(* Everything that reserves names on one Docker daemon, together:          *)
(* replacements, egress operations and prunes of several Docker Dash       *)
(* processes, interleaved step by step with each other and the daemon.     *)
(***************************************************************************)
EXTENDS ContainerReplacement, PruneGuard, EgressRunner

vars == <<daemon, replacement, pruning, egress>>

Init == DaemonInit /\ ReplacementInit /\ PruneInit /\ EgressInit

Next ==
  \/ ReplacementNext /\ UNCHANGED <<pruning, egress>>
  \/ PruneNext /\ UNCHANGED <<replacement, egress>>
  \/ EgressNext /\ UNCHANGED <<replacement, pruning>>
  \/ DaemonNext /\ UNCHANGED <<replacement, pruning, egress>>

Spec == Init /\ [][Next]_vars

(* Types of everything.                                                    *)
TypeOK == DaemonTypeOK /\ ReplacementTypeOK /\ PruneTypeOK /\ EgressTypeOK

(***************************************************************************)
(* Reservations (docker-prune-guard.js).                                   *)
(***************************************************************************)
(* Between its look at the prune reservation and the end of its work an    *)
(* operation is engaged.                                                   *)
Engaged(a) ==
  \/ a \in Replacers /\ rpc[a] \in (Forward \ {"lock", "barrier"}) \cup Backward \cup {"remove"}
  \/ a \in Egressers /\ epc[a] \in {"join", "snapshot", "policies", "mutate", "recheck", "rollback"}

(* A prune is removing things, or the daemon still may for one that gave up.*)
Sweeping(p) == ppc[p] \in {"sweep", "reclaim"} \/ <<"sweep", p>> \in late

(* While a prune removes things no replacement or egress operation is at   *)
(* work past its look at the prune reservation, whichever process looked   *)
(* first and whatever was lost: each side reserves before it looks.        *)
ReservationsExcludePrune ==
  \A p \in Pruners : Sweeping(p) => \A a \in Replacers \cup Egressers : ~Engaged(a)

(***************************************************************************)
(* Replacements (container-replacement.js).                                *)
(***************************************************************************)
(* At most one container of a name runs at a time, the original, the       *)
(* candidate or a later candidate, also after the daemon restarts what its *)
(* restart policies tell it to: they write the same volumes.               *)
OneWriter == \A i, j \in Ids : i # j /\ Home(i) = Home(j) => ~(box[i].up /\ box[j].up)

(* While the journal says that a replacement changed its original and has  *)
(* not committed, the original exists: no prune, no other replacement and  *)
(* no step of its own removes the only copy a recovery can use.            *)
OriginalSurvives == \A r \in Replacers : journal[r] \in Changing => Exists(Old(r))

(* A container under a recovery name belongs to a replacement that still   *)
(* holds the reservation of its name and whose journal tells what it is.   *)
RecoveryIsAccounted ==
  \A i \in Ids : box[i].at = "recovery" =>
    \E r \in Replacers : /\ Old(r) = i /\ held[Lock(r)] = r
                         /\ journal[r] \in Changing \cup {"committed", "cleanup_required"}

(* When nobody holds the reservation of a container name, the name is      *)
(* whole: one container carries it, with its restart policy and networks,  *)
(* running iff the original was; nothing is left for a recovery to do.     *)
Served(n) == box[n].starts > 0
UnlockedIsWhole ==
  \A n \in Names : held[ReplaceSlot(n)] = NoOne =>
    /\ Cardinality(AtHome(n)) <= 1
    /\ Served(n) => AtHome(n) # {}
    /\ \A i \in AtHome(n) : box[i].policy /\ box[i].net /\ (box[i].up <=> Served(n))

(***************************************************************************)
(* Egress operations (egress-runner.js).                                   *)
(***************************************************************************)
(* A container nobody has reserved has the table the last operation on it  *)
(* reported to have left: failures restored it or kept the reservation.    *)
Filtered(c, n) == box[c].starts # 0 /\ n = box[c].starts
UnreservedIsSettled ==
  \A c \in Names : held[EgressSlot(c)] = NoOne => (Filtered(c, table[c]) <=> Filtered(c, told[c]))

(* While a policy that was reported applied stays configured, the running  *)
(* instances it was applied to keep their table, whatever is done for      *)
(* other policies of theirs.                                               *)
ReportedIsEnforced ==
  \A q \in Policies, c \in Names :
    active[q] /\ Filtered(c, reported[q][c]) => Filtered(c, table[c])

(* Of two overlapping operations at most one is refused by the other:      *)
(* the order of the reservations leaves one of them to go on.              *)
NoMutualRefusal ==
  \A e, f \in Egressers : ~(refused[e] = f /\ refused[f] = e)
=============================================================================
