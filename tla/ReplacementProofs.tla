-------------------------- MODULE ReplacementProofs --------------------------
(***************************************************************************)
(* The properties of replacements, for any number of containers,           *)
(* operations, policies and faults: the original of an unfinished one      *)
(* survives (Survival), containers under recovery names are accounted for  *)
(* (Accounted), one container of a name runs at a time (Singly), and a name*)
(* that nobody has reserved is whole (Repair).                             *)
(*                                                                         *)
(* Each invariant rests on the ones before it and on the types and the     *)
(* exclusion of prunes (IInv).  The first and third hold whatever calls the*)
(* daemon carries out late; the others say which late calls they exclude.  *)
(***************************************************************************)
EXTENDS DaemonReservationsProofs, FiniteSetTheorems

(* Before anything is changed; while the journal must say that it is.      *)
Early     == {"lock", "barrier", "fingerprint"}
Repairing == (Forward \ Early) \cup Backward
Ended     == {"release", "done", "crashed"}

(* The journal follows the steps of a replacement.                         *)
Follows(r) ==
  /\ rpc[r] \in Repairing => journal[r] \in Changing
  /\ rpc[r] \in Early \cup {"idle", "release"} => journal[r] \notin Changing
  /\ rpc[r] = "remove" => journal[r] = "committed"

(* A replacement that has begun knows an original of its name that is not  *)
(* its own candidate; before that there is no candidate of it.             *)
Knows(r) ==
  /\ rpc[r] = "idle" => ~Exists(r) /\ <<"create", r>> \notin late
  /\ rpc[r] # "idle" => Old(r) \in Ids /\ Home(Old(r)) = Target[r] /\ Old(r) # r
  /\ rpc[r] \in Early => Was(r).at = "home"

(* An unfinished replacement retains its original and its reservation.     *)
Retains(r) == journal[r] \in Changing => Exists(Old(r)) /\ held[Lock(r)] = r

(* A removal that was given up is of a replacement that keeps its          *)
(* reservation for ever, and strikes no original that it still needs.      *)
Strikes(r, i) ==
  /\ held[Lock(r)] = r /\ Home(i) = Target[r]
  /\ rpc[r] \in Ended /\ journal[r] \notin Settled
  /\ i = r \/ (i = Old(r) /\ journal[r] \notin Changing)
LateRemovals == \A i \in Ids : <<"remove", i>> \in late => \E r \in Replacers : Strikes(r, i)

(* A reclaim that was given up keeps the prune reservation for ever.       *)
LateReclaims ==
  \A i \in Ids : <<"reclaim", i>> \in late => \E p \in Pruners : held[PruneSlot] = p /\ ppc[p] = "done"

(* While things are removed, or may be, no replacement is unfinished.      *)
Reclaiming == (\E p \in Pruners : Sweeping(p)) \/ (\E i \in Ids : <<"reclaim", i>> \in late)
Undisturbed == Reclaiming => \A r \in Replacers : journal[r] \notin Changing /\ rpc[r] \notin Working

Survival ==
  /\ \A r \in Replacers : Follows(r) /\ Knows(r) /\ Retains(r)
  /\ LateRemovals /\ LateReclaims /\ Undisturbed

(***************************************************************************)
(* The daemon: which containers a call makes or removes.                   *)
(***************************************************************************)
Deeds == {"create", "remove", "reclaim"}

(* A step that makes and removes no container, nor leaves that to later.   *)
Leaves ==
  /\ \A j \in Ids : Exists(j)' <=> Exists(j)
  /\ \A k \in Deeds, j \in Ids : <<k, j>> \in late' => <<k, j>> \in late

LEMMA EffectTouches ==
  ASSUME DaemonTypeOK, NEW k \in Kinds, NEW i \in Ids, Accepts(k, i), box' = Effect(k, i)
  PROVE  /\ \A j \in Ids : Exists(j)' => Exists(j) \/ (j = i /\ k = "create")
         /\ \A j \in Ids : Exists(j) => Exists(j)' \/ (j = i /\ k \in {"remove", "reclaim"})
<1> USE DEF DaemonTypeOK, Exists, Effect, Accepts, Boxes
<1>1. CASE k = "create" BY <1>1 DEF Fresh, Gone
<1>2. CASE k \in {"remove", "reclaim"} BY <1>2 DEF Removed, Gone
<1>3. CASE k = "start" BY <1>3 DEF Started
<1>4. CASE k = "rename" BY <1>4
<1>5. CASE k = "homeward" BY <1>5
<1>6. CASE k = "stop" BY <1>6
<1>7. CASE k = "policy" BY <1>7
<1>8. CASE k = "repolicy" BY <1>8
<1>9. CASE k = "disconnect" BY <1>9
<1>10. CASE k = "reconnect" BY <1>10
<1> QED BY <1>1, <1>2, <1>3, <1>4, <1>5, <1>6, <1>7, <1>8, <1>9, <1>10 DEF Kinds

LEMMA CallTouches ==
  ASSUME DaemonTypeOK, NEW k \in Kinds, NEW i \in Ids, Done(k, i) \/ Failed(k, i)
  PROVE  /\ \A j \in Ids : Exists(j)' => Exists(j) \/ (j = i /\ k = "create")
         /\ \A j \in Ids : Exists(j) => Exists(j)' \/ (j = i /\ k \in {"remove", "reclaim"})
         /\ held' = held
         /\ late' = late \/ (Lost(k, i) /\ late' = late \cup {<<k, i>>})
<1>1. box' = box \/ (Accepts(k, i) /\ box' = Effect(k, i))
  BY DEF Done, Failed, Refused, Lost
<1>2. held' = held /\ (late' = late \/ (Lost(k, i) /\ late' = late \cup {<<k, i>>}))
  BY DEF Done, Failed, Refused, Lost
<1>3. box' = box => \A j \in Ids : Exists(j)' <=> Exists(j) BY DEF Exists
<1> QED BY <1>1, <1>2, <1>3, EffectTouches

(* Everything else that a client may ask of the daemon.                    *)
LEMMA Harmless ==
  ASSUME DaemonTypeOK
  PROVE  /\ \A k \in Kinds \ Deeds, i \in Ids : Done(k, i) \/ Failed(k, i) => Leaves
         /\ Glitch => Leaves
         /\ UNCHANGED daemon => Leaves
         /\ \A s \in Slots, a \in Actors :
              Reserved(s, a) \/ Conflict(s) \/ ReserveLost(s, a) => Leaves
         /\ \A s \in Slots : Freed(s) \/ FreeFailed(s) => Leaves
<1>1. ASSUME NEW k \in Kinds \ Deeds, NEW i \in Ids, Done(k, i) \/ Failed(k, i) PROVE Leaves
  BY <1>1, CallTouches DEF Leaves, Deeds
<1>2. box' = box /\ late' = late => Leaves BY DEF Leaves, Exists
<1>3. ASSUME NEW s \in Slots, NEW a \in Actors, ReserveLost(s, a) PROVE Leaves
  <2>1. box' = box /\ (late' = late \/ late' = late \cup {<<"reserve", s, a>>})
    BY <1>3 DEF ReserveLost
  <2>2. \A k \in Deeds, j \in Ids : <<k, j>> # <<"reserve", s, a>> BY DEF Deeds
  <2> QED BY <2>1, <2>2 DEF Leaves, Exists
<1> QED BY <1>1, <1>2, <1>3 DEF Glitch, daemon, Reserved, Conflict, Freed, FreeFailed

(***************************************************************************)
(* Replacements.                                                           *)
(***************************************************************************)
(* Which containers a step of r makes or removes, at once or late.         *)
Makes(r) ==
  /\ \A j \in Ids : Exists(j)' => Exists(j) \/ (j = r /\ rpc[r] = "create")
  /\ \A j \in Ids : Exists(j) => \/ Exists(j)' \/ (j = r /\ rpc[r] = "discard")
                                \/ (j = Old(r) /\ rpc[r] = "remove")
  /\ \A j \in Ids : <<"reclaim", j>> \in late' => <<"reclaim", j>> \in late
  /\ \A j \in Ids : <<"create", j>> \in late' =>
       <<"create", j>> \in late \/ (j = r /\ rpc[r] = "create")
  /\ \A j \in Ids : <<"remove", j>> \in late' =>
       \/ <<"remove", j>> \in late
       \/ /\ rpc'[r] \in Ended /\ journal'[r] \notin Settled /\ held' = held
          /\ \/ j = r /\ rpc[r] = "discard"
             \/ j = Old(r) /\ rpc[r] = "remove" /\ journal'[r] \notin Changing

(* What a step of r writes, and that it writes nothing of another one.     *)
Records(r) ==
  /\ \A q \in Replacers \ {r} : rpc'[q] = rpc[q] /\ op'[q] = op[q] /\ journal'[q] = journal[q]
  /\ rpc[r] \notin {"done", "crashed"} /\ rpc'[r] # "idle" /\ Follows(r)'
  /\ rpc[r] = "idle" => /\ op'[r].old \in AtHome(Target[r]) /\ op'[r].snap = box[op'[r].old]
                        /\ box' = box
  /\ rpc[r] # "idle" => op'[r].old = op[r].old
  /\ rpc'[r] \in Early => rpc[r] = "idle" \/ (rpc[r] \in Early /\ op'[r].snap = op[r].snap)
  /\ journal'[r] \in Changing =>
       journal[r] \in Changing \/ (rpc[r] = "fingerprint" /\ Exists(Old(r)))
  /\ rpc[r] = "release" => /\ rpc'[r] \in Ended
                           /\ journal[r] \notin Settled => journal'[r] = journal[r] /\ held' = held

LEMMA PhaseFacts ==
  /\ Changing \subseteq Phases /\ Settled \subseteq Phases
  /\ {"retaining", "stopped", "creating", "created", "verifying", "recovering", "recovery_required"}
       = Changing
  /\ {"none", "prepared", "locked", "failed", "committed", "complete", "recovered",
      "cleanup_required"} \cap Changing = {}
  /\ Changing \cap Settled = {} /\ "committed" \notin Settled /\ "cleanup_required" \notin Settled
BY DEF Phases, Changing, Settled

LEMMA StepFacts ==
  /\ {"policy", "rename", "stop", "disconnect", "create", "lookup", "start", "verify", "commit",
      "discard", "homeward", "reconnect", "repolicy", "restart", "reverify"} = Repairing
  /\ Repairing \cap (Early \cup Ended \cup {"idle", "remove"}) = {}
  /\ Early \cap (Ended \cup {"idle", "remove"}) = {} /\ Ended \cap {"idle", "remove"} = {}
  /\ Steps = Early \cup Repairing \cup Ended \cup {"idle", "remove"}
  /\ Working = Repairing \cup {"fingerprint", "remove"} /\ Repairing \subseteq Locked
  /\ "remove" \in Locked
BY DEF Repairing, Early, Ended, Forward, Backward, Steps, Working, Locked, AtWork

LEMMA LeavesMakes == ASSUME NEW r \in Replacers, Leaves PROVE Makes(r)
BY DEF Leaves, Deeds, Makes

(* A step from where r is to another one, with the phase that goes with it.*)
LEMMA Moves ==
  ASSUME ReplacementTypeOK, NEW r \in Replacers, Follows(r), NEW step \in Steps, NEW phase \in Phases,
         Go(r, step), journal' = [journal EXCEPT ![r] = phase],
         \A q \in Replacers \ {r} : op'[q] = op[q],
         op'[r].old = op[r].old, rpc[r] \notin {"idle", "release", "done", "crashed"}, step # "idle",
         step \in Repairing => phase \in Changing,
         step \in Early \cup {"release"} => phase \notin Changing,
         step = "remove" => phase = "committed",
         step \in Early => rpc[r] \in Early /\ op'[r].snap = op[r].snap,
         phase \in Changing => journal[r] \in Changing \/ (rpc[r] = "fingerprint" /\ Exists(Old(r)))
  PROVE  Records(r)
<1>1. rpc'[r] = step /\ journal'[r] = phase BY DEF ReplacementTypeOK, Go
<1>2. \A q \in Replacers \ {r} : rpc'[q] = rpc[q] /\ journal'[q] = journal[q]
  BY DEF ReplacementTypeOK, Go
<1>3. Follows(r)' BY <1>1 DEF Follows
<1> QED BY <1>1, <1>2, <1>3 DEF Records

(* The same where r remembers what it did.                                 *)
LEMMA MovesOn ==
  ASSUME ReplacementTypeOK, NEW r \in Replacers, Follows(r), NEW step \in Steps, NEW phase \in Phases,
         Go(r, step), Note(r, phase) \/ (UNCHANGED journal /\ phase = journal[r]),
         \/ UNCHANGED op
         \/ \E x \in BOOLEAN : \/ op' = [op EXCEPT ![r].cut = x] \/ op' = [op EXCEPT ![r].cand = x]
                               \/ op' = [op EXCEPT ![r].lock = x]
         \/ op' = [op EXCEPT ![r] = [Nothing EXCEPT !.old = Old(r)]] /\ step \notin Early,
         rpc[r] \notin {"idle", "release", "done", "crashed"}, step # "idle",
         step \in Repairing => phase \in Changing,
         step \in Early \cup {"release"} => phase \notin Changing,
         step = "remove" => phase = "committed",
         step \in Early => rpc[r] \in Early,
         phase \in Changing => journal[r] \in Changing \/ (rpc[r] = "fingerprint" /\ Exists(Old(r)))
  PROVE  Records(r)
<1>1. journal' = [journal EXCEPT ![r] = phase] BY DEF Note, ReplacementTypeOK
<1>2. \A q \in Replacers \ {r} : op'[q] = op[q] BY DEF ReplacementTypeOK
<1>3. op'[r].old = op[r].old /\ (step \in Early => op'[r].snap = op[r].snap)
  BY DEF ReplacementTypeOK, Nothing, Old
<1> QED BY <1>1, <1>2, <1>3, Moves

(* The three ways out.                                                     *)
LEMMA WaysOut ==
  ASSUME ReplacementTypeOK, NEW r \in Replacers, Follows(r)
  PROVE  /\ rpc[r] \in Early /\ Abandon(r) => Records(r)
         /\ rpc[r] \in Repairing /\ Undo(r) => Records(r)
         /\ rpc[r] \in Repairing /\ GiveUp(r) => Records(r)
<1>1. journal[r] \in Phases BY DEF ReplacementTypeOK
<1>2. ASSUME rpc[r] \in Early, Abandon(r) PROVE Records(r)
  <2>1. PICK phase \in {"failed", journal[r]} :
          Note(r, phase) \/ (UNCHANGED journal /\ phase = journal[r])
    BY <1>2 DEF Abandon
  <2>2. phase \in Phases /\ phase \notin Changing
    BY <1>1, <1>2, PhaseFacts DEF Follows, Settled
  <2>3. "release" \in Steps /\ "release" \notin Early /\ "release" \notin Repairing
    BY StepFacts DEF Ended
  <2> QED BY <1>2, <2>1, <2>2, <2>3, StepFacts, MovesOn DEF Abandon, Early
<1>3. ASSUME rpc[r] \in Repairing, Undo(r) PROVE Records(r)
  <2>1. "discard" \in Steps /\ "discard" \in Repairing /\ "discard" \notin Early
    BY StepFacts
  <2>2. "recovering" \in Phases /\ "recovering" \in Changing /\ journal[r] \in Changing
    BY <1>3, PhaseFacts DEF Follows
  <2> QED BY <1>3, <2>1, <2>2, StepFacts, MovesOn DEF Undo, Ended
<1>4. ASSUME rpc[r] \in Repairing, GiveUp(r) PROVE Records(r)
  <2>1. PICK phase \in {journal[r], "recovery_required"} :
          Note(r, phase) \/ (UNCHANGED journal /\ phase = journal[r])
    BY <1>4 DEF GiveUp, Note
  <2>2. phase \in Phases /\ journal[r] \in Changing BY <1>1, <1>4, PhaseFacts DEF Follows
  <2>3. "done" \in Steps /\ "done" \notin Early /\ "done" \notin Repairing
    BY StepFacts DEF Ended
  <2> QED BY <1>4, <2>1, <2>2, <2>3, StepFacts, MovesOn DEF GiveUp, Leave, Ended
<1> QED BY <1>2, <1>3, <1>4

(* Steps within the part that the journal calls changing.                  *)
LEMMA RepairGoesOn ==
  ASSUME ReplacementTypeOK, NEW r \in Replacers, Follows(r), rpc[r] \in Repairing,
         NEW step \in Repairing, Go(r, step),
         UNCHANGED journal \/ (\E phase \in Changing : Note(r, phase)),
         \/ UNCHANGED op
         \/ \E x \in BOOLEAN : op' = [op EXCEPT ![r].cut = x] \/ op' = [op EXCEPT ![r].cand = x]
  PROVE  Records(r)
<1>1. journal[r] \in Changing BY DEF Follows
<1>2. PICK phase \in Changing : Note(r, phase) \/ (UNCHANGED journal /\ phase = journal[r])
  BY <1>1
<1>3. phase \in Phases BY PhaseFacts
<1>4. step \in Steps /\ step \notin Early /\ step \notin {"release", "remove", "idle"}
  BY StepFacts DEF Ended
<1>5. rpc[r] \notin {"idle", "release", "done", "crashed"} BY StepFacts DEF Ended
<1> QED BY <1>1, <1>2, <1>3, <1>4, <1>5, MovesOn

LEMMA ForthRecords ==
  ASSUME ReplacementTypeOK, NEW r \in Replacers, Follows(r), rpc[r] \in Repairing,
         NEW k, NEW i, NEW phase \in Changing, NEW step \in Repairing, Forth(r, k, i, phase, step)
  PROVE  Records(r)
BY WaysOut, RepairGoesOn DEF Forth

LEMMA BackRecords ==
  ASSUME ReplacementTypeOK, NEW r \in Replacers, Follows(r), rpc[r] \in Repairing,
         NEW needed, NEW k, NEW i, NEW step \in Repairing, Back(r, needed, k, i, step)
  PROVE  Records(r)
BY WaysOut, RepairGoesOn DEF Back

LEMMA ForthMakes ==
  ASSUME DaemonTypeOK, NEW r \in Replacers,
         NEW k \in Kinds \ Deeds, NEW i \in Ids, NEW phase, NEW step, Forth(r, k, i, phase, step)
  PROVE  Makes(r)
BY Harmless, LeavesMakes DEF Forth

LEMMA BackMakes ==
  ASSUME DaemonTypeOK, NEW r \in Replacers,
         NEW needed, NEW k \in Kinds \ Deeds, NEW i \in Ids, NEW step, Back(r, needed, k, i, step)
  PROVE  Makes(r)
BY Harmless, LeavesMakes DEF Back

(* The steps that make or remove a container.                              *)
LEMMA CreateMakes ==
  ASSUME DaemonTypeOK, NEW r \in Replacers, Create(r) PROVE Makes(r)
<1>1. rpc[r] = "create" /\ (Done("create", r) \/ Failed("create", r)) BY DEF Create
<1>2. "create" \in Kinds /\ r \in Ids BY LockFacts DEF Kinds
<1>3. /\ \A j \in Ids : Exists(j)' => Exists(j) \/ j = r
      /\ \A j \in Ids : Exists(j) => Exists(j)'
      /\ late' = late \/ late' = late \cup {<<"create", r>>}
  BY <1>1, <1>2, CallTouches
<1> QED BY <1>1, <1>3 DEF Makes

LEMMA DiscardMakes ==
  ASSUME DaemonTypeOK, ReplacementTypeOK, NEW r \in Replacers, Follows(r), Discard(r) PROVE Makes(r)
<1>1. rpc[r] = "discard" BY DEF Discard
<1>2. "remove" \in Kinds /\ r \in Ids BY LockFacts DEF Kinds
<1>3. CASE Done("remove", r)
  <2>1. /\ \A j \in Ids : Exists(j)' => Exists(j)
        /\ \A j \in Ids : Exists(j) => Exists(j)' \/ j = r
        /\ late' = late
    BY <1>2, <1>3, CallTouches DEF Done
  <2> QED BY <1>1, <2>1 DEF Makes
<1>4. CASE Failed("remove", r) /\ GiveUp(r)
  <2>1. /\ \A j \in Ids : Exists(j)' => Exists(j)
        /\ \A j \in Ids : Exists(j) => Exists(j)' \/ j = r
        /\ held' = held
        /\ late' = late \/ late' = late \cup {<<"remove", r>>}
    BY <1>2, <1>4, CallTouches
  <2>2. rpc'[r] = "done" BY <1>4 DEF GiveUp, Leave, Go, ReplacementTypeOK
  <2>3. journal'[r] \in Changing
    <3>1. "discard" \in Repairing BY StepFacts
    <3>2. journal[r] \in Changing BY <1>1, <3>1 DEF Follows
    <3>3. journal' \in {journal, [journal EXCEPT ![r] = "recovery_required"]} BY <1>4 DEF GiveUp
    <3> QED BY <3>2, <3>3, PhaseFacts DEF ReplacementTypeOK
  <2> QED BY <1>1, <2>1, <2>2, <2>3, PhaseFacts DEF Makes, Ended
<1>5. CASE UNCHANGED daemon \/ Glitch BY <1>5, Harmless, LeavesMakes
<1> QED BY <1>3, <1>4, <1>5 DEF Discard, Back

LEMMA RemoveOldStep ==
  ASSUME DaemonTypeOK, ReplacementTypeOK, NEW r \in Replacers, Old(r) \in Ids, Follows(r), RemoveOld(r)
  PROVE  Records(r) /\ Makes(r)
<1>1. rpc[r] = "remove" /\ journal[r] = "committed" BY DEF RemoveOld, Follows
<1>2. PICK phase \in {"complete", "cleanup_required", "committed"} :
        /\ Note(r, phase) \/ (UNCHANGED journal /\ phase = journal[r])
        /\ Done("remove", Old(r)) \/ (Failed("remove", Old(r)) /\ phase # "complete")
  BY <1>1 DEF RemoveOld
<1>3. phase \in Phases /\ phase \notin Changing BY PhaseFacts DEF Phases, Settled
<1>4. Records(r)
  <2>1. "release" \in Steps /\ "release" \notin Early /\ "release" \notin Repairing
    BY StepFacts DEF Ended
  <2> QED BY <1>1, <1>2, <1>3, <2>1, MovesOn DEF RemoveOld
<1>5. "remove" \in Kinds BY DEF Kinds
<1>6. /\ \A j \in Ids : Exists(j)' => Exists(j)
      /\ \A j \in Ids : Exists(j) => Exists(j)' \/ j = Old(r)
      /\ held' = held
      /\ late' = late \/ (Lost("remove", Old(r)) /\ late' = late \cup {<<"remove", Old(r)>>})
  BY <1>2, <1>5, CallTouches
<1>7. rpc'[r] = "release" /\ journal'[r] = phase
  BY <1>1, <1>2 DEF RemoveOld, Go, Note, ReplacementTypeOK
<1>8. CASE Done("remove", Old(r))
  <2>1. late' = late BY <1>8 DEF Done
  <2> QED BY <1>1, <1>4, <1>6, <2>1 DEF Makes
<1>9. CASE phase # "complete"
  <2>1. phase \notin Settled BY <1>9, PhaseFacts
  <2> QED BY <1>1, <1>3, <1>4, <1>6, <1>7, <2>1 DEF Makes, Ended
<1> QED BY <1>2, <1>8, <1>9

(* The steps before anything is changed, and the last ones.                *)
LEMMA BeginStep ==
  ASSUME DaemonTypeOK, ReplacementTypeOK, NEW r \in Replacers, Begin(r) PROVE Records(r) /\ Makes(r)
<1>1. Makes(r) BY Harmless, LeavesMakes DEF Begin
<1>2. PICK i \in AtHome(Target[r]) :
        op' = [op EXCEPT ![r] = [Nothing EXCEPT !.old = i, !.snap = box[i]]]
  BY DEF Begin
<1>3. op'[r].old = i /\ op'[r].snap = box[i] BY <1>2 DEF ReplacementTypeOK, Nothing
<1>4. /\ rpc[r] = "idle" /\ rpc'[r] = "lock" /\ journal'[r] = "prepared"
      /\ \A q \in Replacers \ {r} : rpc'[q] = rpc[q] /\ op'[q] = op[q] /\ journal'[q] = journal[q]
  BY <1>2 DEF Begin, Go, Note, ReplacementTypeOK
<1>5. Follows(r)' BY <1>4, StepFacts, PhaseFacts DEF Follows, Early
<1>6. box' = box BY DEF Begin, daemon
<1> QED BY <1>1, <1>3, <1>4, <1>5, <1>6, PhaseFacts DEF Records, Early

LEMMA ReserveRecords ==
  ASSUME DaemonTypeOK, ReplacementTypeOK, NEW r \in Replacers, Follows(r), Reserve(r)
  PROVE  Records(r) /\ Makes(r)
<1>1. Makes(r) BY Harmless, LeavesMakes, LockFacts DEF Reserve
<1>2. rpc[r] = "lock" /\ journal[r] \in Phases BY DEF Reserve, ReplacementTypeOK
<1>3. CASE Abandon(r) BY <1>1, <1>2, <1>3, WaysOut DEF Early
<1>4. CASE /\ op' = [op EXCEPT ![r].lock = TRUE]
           /\ \/ Note(r, "locked") /\ Go(r, "barrier")
              \/ Note(r, "failed") /\ Go(r, "release")
  <2>1. {"barrier", "release"} \subseteq Steps /\ {"barrier", "release"} \cap Repairing = {}
    BY StepFacts DEF Early, Ended
  <2>2. {"locked", "failed"} \subseteq Phases /\ {"locked", "failed"} \cap Changing = {}
    BY PhaseFacts DEF Phases, Settled
  <2>3. "release" \notin Early /\ "lock" \in Early BY DEF Early
  <2>4. CASE Note(r, "locked") /\ Go(r, "barrier")
    BY <1>1, <1>2, <1>4, <2>1, <2>2, <2>3, <2>4, MovesOn
  <2>5. CASE Note(r, "failed") /\ Go(r, "release")
    BY <1>1, <1>2, <1>4, <2>1, <2>2, <2>3, <2>5, MovesOn
  <2> QED BY <1>4, <2>4, <2>5
<1> QED BY <1>3, <1>4 DEF Reserve

LEMMA FingerprintStep ==
  ASSUME DaemonTypeOK, ReplacementTypeOK, NEW r \in Replacers, Follows(r), Was(r).at = "home",
         Old(r) \in Ids, Fingerprint(r)
  PROVE  Records(r) /\ Makes(r)
<1>1. Makes(r) BY Harmless, LeavesMakes DEF Fingerprint
<1>2. rpc[r] = "fingerprint" /\ "fingerprint" \in Early BY DEF Fingerprint, Early
<1>3. CASE Abandon(r) BY <1>1, <1>2, <1>3, WaysOut
<1>4. CASE /\ Looks(box[Old(r)]) = Looks(Was(r))
           /\ Note(r, "retaining") /\ Go(r, "policy") /\ UNCHANGED op
  <2>1. Exists(Old(r))
    <3>1. Looks(box[Old(r)]).at = box[Old(r)].at /\ Looks(Was(r)).at = Was(r).at
      BY DEF Looks, DaemonTypeOK, ReplacementTypeOK, Boxes, Was
    <3> QED BY <1>4, <3>1 DEF Exists
  <2>2. "retaining" \in Changing /\ "retaining" \in Phases BY PhaseFacts
  <2>3. "policy" \in Steps /\ "policy" \in Repairing /\ "policy" \notin Early BY StepFacts
  <2> QED BY <1>1, <1>2, <1>4, <2>1, <2>2, <2>3, MovesOn
<1> QED BY <1>3, <1>4 DEF Fingerprint

LEMMA ReleaseRecords ==
  ASSUME DaemonTypeOK, ReplacementTypeOK, NEW r \in Replacers, Follows(r), Release(r)
  PROVE  Records(r) /\ Makes(r)
<1>1. Makes(r) BY Harmless, LeavesMakes, LockFacts DEF Release
<1>2. rpc[r] = "release" /\ journal[r] \notin Changing BY DEF Release, Follows
<1>3. /\ rpc'[r] = "done" /\ op'[r].old = op[r].old
      /\ \A q \in Replacers \ {r} : rpc'[q] = rpc[q] /\ op'[q] = op[q]
  BY DEF Release, Leave, Go, Nothing, Old, ReplacementTypeOK
<1>4. journal' = journal \/ Note(r, "cleanup_required") BY DEF Release
<1>5. /\ \A q \in Replacers \ {r} : journal'[q] = journal[q]
      /\ journal'[r] \in {journal[r], "cleanup_required"}
  BY <1>4 DEF Note, ReplacementTypeOK
<1>6. journal'[r] \notin Changing BY <1>2, <1>5, PhaseFacts
<1>7. journal[r] \notin Settled => journal'[r] = journal[r] /\ held' = held
  BY DEF Release, daemon
<1>8. Follows(r)' BY <1>3, StepFacts DEF Follows, Ended
<1>9. "done" \in Ended /\ "done" \notin Early BY StepFacts DEF Ended
<1> QED BY <1>1, <1>2, <1>3, <1>5, <1>6, <1>7, <1>8, <1>9 DEF Records

LEMMA CrashRecords ==
  ASSUME DaemonTypeOK, ReplacementTypeOK, NEW r \in Replacers, Follows(r), Crash(r)
  PROVE  Records(r) /\ Makes(r)
<1>1. Makes(r) BY Harmless, LeavesMakes DEF Crash
<1>2. rpc[r] \notin {"idle", "done", "crashed"} /\ held' = held /\ journal' = journal
  BY DEF Crash, Glitch
<1>3. /\ rpc'[r] = "crashed" /\ op'[r].old = op[r].old
      /\ \A q \in Replacers \ {r} : rpc'[q] = rpc[q] /\ op'[q] = op[q]
  BY DEF Crash, Leave, Go, Nothing, Old, ReplacementTypeOK
<1>4. Follows(r)' BY <1>3, StepFacts DEF Follows, Ended
<1>5. "crashed" \in Ended /\ "crashed" \notin Early BY StepFacts DEF Ended
<1> QED BY <1>1, <1>2, <1>3, <1>4, <1>5 DEF Records

(* Every step of a replacement.                                            *)
LEMMA ReplacementsRecord ==
  ASSUME DaemonTypeOK, ReplacementTypeOK, NEW r \in Replacers, Follows(r), Knows(r), ReplacementStep(r)
  PROVE  Records(r) /\ Makes(r)
<1>1. /\ rpc[r] # "idle" => Old(r) \in Ids
      /\ rpc[r] = "fingerprint" => Was(r).at = "home"
  BY DEF Knows, Early
<1>2. {"policy", "rename", "stop", "disconnect", "create", "lookup", "start", "verify", "commit",
       "discard", "homeward", "reconnect", "repolicy", "restart", "reverify"} \subseteq Repairing
  BY StepFacts
<1>3. {"homeward", "stop", "start", "rename", "policy", "repolicy", "disconnect", "reconnect"}
        \subseteq Kinds \ Deeds
  BY DEF Kinds, Deeds
<1>4. {"retaining", "stopped", "creating", "created", "verifying", "recovering"} \subseteq Changing
  BY PhaseFacts
<1>5. r \in Ids BY LockFacts
<1>6. CASE AssertNoPrune(r)
  <2>1. Makes(r) BY <1>6, Harmless, LeavesMakes DEF AssertNoPrune
  <2>2. rpc[r] = "barrier" /\ journal[r] \in Phases BY <1>6 DEF AssertNoPrune, ReplacementTypeOK
  <2>3. journal[r] \notin Changing /\ "barrier" \in Early BY <2>2 DEF Follows, Early
  <2>4. CASE Abandon(r) BY <2>1, <2>2, <2>3, <2>4, WaysOut
  <2>5. CASE Go(r, "fingerprint") /\ UNCHANGED <<op, journal>>
    <3>1. "fingerprint" \in Steps /\ "fingerprint" \in Early /\ "fingerprint" \notin Repairing
      BY StepFacts DEF Early
    <3> QED BY <2>1, <2>2, <2>3, <2>5, <3>1, MovesOn
  <2> QED BY <1>6, <2>4, <2>5 DEF AssertNoPrune
<1>7. CASE DropPolicy(r) BY <1>1, <1>2, <1>3, <1>4, <1>7, ForthRecords, ForthMakes DEF DropPolicy
<1>8. CASE Rename(r) BY <1>1, <1>2, <1>3, <1>4, <1>8, ForthRecords, ForthMakes DEF Rename
<1>9. CASE Stop(r)
  BY <1>1, <1>2, <1>3, <1>4, <1>9, ForthRecords, ForthMakes, RepairGoesOn, Harmless, LeavesMakes
  DEF Stop
<1>10. CASE Disconnect(r)
  <2>1. Makes(r) BY <1>1, <1>3, <1>10, Harmless, LeavesMakes DEF Disconnect
  <2> QED BY <1>2, <1>4, <1>10, <2>1, RepairGoesOn DEF Disconnect
<1>11. CASE Create(r)
  <2>1. Makes(r) BY <1>11, CreateMakes
  <2> QED BY <1>2, <1>4, <1>11, <2>1, RepairGoesOn DEF Create
<1>12. CASE Lookup(r)
  <2>1. Makes(r) BY <1>12, Harmless, LeavesMakes DEF Lookup
  <2>2. (box[r].at = "home") \in BOOLEAN OBVIOUS
  <2> QED BY <1>2, <1>4, <1>12, <2>1, <2>2, RepairGoesOn DEF Lookup
<1>13. CASE Start(r)
  BY <1>2, <1>3, <1>4, <1>5, <1>13, ForthRecords, ForthMakes, RepairGoesOn, Harmless, LeavesMakes
  DEF Start
<1>14. CASE Verify(r)
  <2>1. Makes(r) BY <1>14, Harmless, LeavesMakes DEF Verify
  <2> QED BY <1>2, <1>14, <2>1, WaysOut, RepairGoesOn DEF Verify
<1>15. CASE Commit(r)
  <2>1. Makes(r) BY <1>15, Harmless, LeavesMakes DEF Commit
  <2>2. CASE Undo(r) BY <1>2, <1>15, <2>1, <2>2, WaysOut DEF Commit
  <2>3. CASE Note(r, "committed") /\ Go(r, "remove") /\ UNCHANGED op
    <3>1. "remove" \in Steps /\ "remove" \notin Early /\ "remove" \notin Repairing BY StepFacts
    <3>2. "committed" \in Phases /\ "committed" \notin Changing BY PhaseFacts DEF Phases
    <3> QED BY <1>15, <2>1, <2>3, <3>1, <3>2, MovesOn DEF Commit
  <2> QED BY <1>15, <2>2, <2>3 DEF Commit
<1>16. CASE Discard(r)
  <2>1. Makes(r) BY <1>16, DiscardMakes
  <2> QED BY <1>2, <1>16, <2>1, BackRecords DEF Discard
<1>17. CASE Homeward(r) BY <1>1, <1>2, <1>3, <1>17, BackRecords, BackMakes DEF Homeward
<1>18. CASE Reconnect(r) BY <1>1, <1>2, <1>3, <1>18, BackRecords, BackMakes DEF Reconnect
<1>19. CASE Repolicy(r)
  <2>1. (IF Was(r).policy THEN "repolicy" ELSE "policy") \in Kinds \ Deeds BY <1>3
  <2> QED BY <1>1, <1>2, <1>19, <2>1, BackRecords, BackMakes DEF Repolicy
<1>20. CASE Restart(r) BY <1>1, <1>2, <1>3, <1>20, BackRecords, BackMakes DEF Restart
<1>21. CASE Reverify(r)
  <2>1. Makes(r) BY <1>21, Harmless, LeavesMakes DEF Reverify
  <2>2. CASE GiveUp(r) BY <1>2, <1>21, <2>1, <2>2, WaysOut DEF Reverify
  <2>3. CASE Note(r, "recovered") /\ Go(r, "release") /\ UNCHANGED op
    <3>1. "release" \in Steps /\ "release" \notin Early /\ "release" \notin Repairing
      BY StepFacts DEF Ended
    <3>2. "recovered" \in Phases /\ "recovered" \notin Changing BY PhaseFacts DEF Settled
    <3> QED BY <1>21, <2>1, <2>3, <3>1, <3>2, MovesOn DEF Reverify
  <2> QED BY <1>21, <2>2, <2>3 DEF Reverify
<1>22. CASE Fingerprint(r)
  <2>1. rpc[r] = "fingerprint" BY <1>22 DEF Fingerprint
  <2> QED BY <1>1, <1>22, <2>1, FingerprintStep
<1>23. CASE RemoveOld(r)
  <2>1. rpc[r] = "remove" BY <1>23 DEF RemoveOld
  <2> QED BY <1>1, <1>23, <2>1, RemoveOldStep
<1> QED
  BY BeginStep, ReserveRecords, <1>6, <1>22, <1>7, <1>8, <1>9, <1>10, <1>11, <1>12, <1>13, <1>14,
     <1>15, <1>23, ReleaseRecords, <1>16, <1>17, <1>18, <1>19, <1>20, <1>21, CrashRecords
  DEF ReplacementStep

(***************************************************************************)
(* Prunes, egress operations and the daemon.                               *)
(***************************************************************************)
(* Which containers a step of prune p removes, at once or late.            *)
Removes(p) ==
  /\ \A j \in Ids : Exists(j)' => Exists(j)
  /\ (\A j \in Ids : Exists(j) => Exists(j)') \/ ppc[p] \in {"sweep", "reclaim"}
  /\ \A j \in Ids : /\ <<"create", j>> \in late' => <<"create", j>> \in late
                    /\ <<"remove", j>> \in late' => <<"remove", j>> \in late
  /\ \A j \in Ids : <<"reclaim", j>> \in late' =>
       \/ <<"reclaim", j>> \in late
       \/ ppc[p] = "reclaim" /\ ppc'[p] = "done" /\ held' = held
  /\ ppc[p] # "done"

LEMMA LeavesRemoves == ASSUME NEW p \in Pruners, Leaves, ppc[p] # "done" PROVE Removes(p)
BY DEF Leaves, Deeds, Removes

LEMMA PrunesRemove ==
  ASSUME DaemonTypeOK, PruneTypeOK, NEW p \in Pruners, PruneStep(p) PROVE Removes(p)
<1>1. PruneSlot \in Slots /\ p \in Actors BY SlotFacts, ActorFacts
<1>2. \A j \in Ids : Swept[j].at # "gone" => Exists(j)
  BY DEF Swept, Removed, Gone, Exists, DaemonTypeOK
<1>3. CASE SweepDone(p)
  <2>1. \A j \in Ids : Exists(j)' => Exists(j) BY <1>2, <1>3 DEF SweepDone, Exists
  <2> QED BY <1>3, <2>1 DEF SweepDone, Removes
<1>4. CASE SweepLost(p)
  <2>1. \A j \in Ids : Exists(j)' => Exists(j) BY <1>2, <1>4 DEF SweepLost, Exists
  <2>2. \A k \in Deeds, j \in Ids : <<k, j>> \in late' => <<k, j>> \in late
    BY <1>4 DEF SweepLost, Deeds
  <2> QED BY <1>4, <2>1, <2>2 DEF SweepLost, Removes, Deeds
<1>5. CASE Reclaim(p)
  <2>1. PICK i \in chosen[p] :
          \/ /\ Done("reclaim", i) \/ Refused("reclaim", i)
             /\ chosen' = [chosen EXCEPT ![p] = @ \ {i}] /\ UNCHANGED <<ppc, guard>>
          \/ Lost("reclaim", i) /\ PEnd(p)
    BY <1>5, Zenon DEF Reclaim
  <2>2. i \in Ids /\ "reclaim" \in Kinds /\ ppc[p] = "reclaim"
    BY <1>5 DEF PruneTypeOK, Reclaim, Kinds
  <2>3. /\ \A j \in Ids : Exists(j)' => Exists(j)
        /\ held' = held
        /\ late' = late \/ (Lost("reclaim", i) /\ late' = late \cup {<<"reclaim", i>>})
    BY <2>1, <2>2, CallTouches DEF Failed
  <2>4. Lost("reclaim", i) /\ PEnd(p) => ppc'[p] = "done" BY DEF PEnd, PGo, PruneTypeOK
  <2>5. Done("reclaim", i) \/ Refused("reclaim", i) => late' = late BY DEF Done, Refused
  <2> QED BY <2>1, <2>2, <2>3, <2>4, <2>5 DEF Removes
<1>6. CASE /\ ppc[p] # "done"
           /\ \/ UNCHANGED daemon \/ Glitch
              \/ Reserved(PruneSlot, p) \/ Conflict(PruneSlot) \/ ReserveLost(PruneSlot, p)
              \/ Freed(PruneSlot) \/ FreeFailed(PruneSlot)
  BY <1>1, <1>6, Harmless, LeavesRemoves
<1> QED
  BY <1>3, <1>4, <1>5, <1>6
  DEF PruneStep, Request, FirstSurvey, ReserveGuard, SecondSurvey, ReclaimEnds, ReleaseGuard, PruneCrash

LEMMA EgressLeaves ==
  ASSUME DaemonTypeOK, EgressTypeOK, NEW e \in Egressers, EgressStep(e) PROVE Leaves
<1>1. e \in Actors /\ \A c \in Names : EgressSlot(c) \in Slots BY SlotFacts, ActorFacts
<1>2. /\ job[e].todo \in SUBSET Names /\ job[e].open \in SUBSET Names BY JobTypes
<1>3. CASE ReserveTarget(e)
  <2>1. PICK c \in Next1(e) :
          Reserved(EgressSlot(c), e) \/ Conflict(EgressSlot(c)) \/ ReserveLost(EgressSlot(c), e)
    BY <1>3 DEF ReserveTarget
  <2>2. c \in Names BY <1>2 DEF Next1
  <2> QED BY <1>1, <2>1, <2>2, Harmless
<1>4. CASE CloseSession(e)
  <2>1. PICK c \in job[e].open :
          UNCHANGED daemon \/ Glitch \/ Freed(EgressSlot(c)) \/ FreeFailed(EgressSlot(c))
    BY <1>4 DEF CloseSession
  <2> QED BY <1>1, <1>2, <2>1, Harmless
<1>5. CASE UNCHANGED daemon \/ Glitch BY <1>5, Harmless
<1>6. Ask(e) \/ RollbackEnds(e) \/ Closed(e) \/ RemainingPolicies(e) => UNCHANGED daemon
  BY DEF Ask, RollbackEnds, Closed, RemainingPolicies
<1>7. NoPrune(e) \/ EgressCrash(e) \/ Join(e) \/ Snapshot(e) \/ Recheck(e)
        => UNCHANGED daemon \/ Glitch
  BY DEF NoPrune, EgressCrash, Join, Snapshot, Recheck, CheckFails
<1>8. Mutate(e) => UNCHANGED daemon \/ Glitch BY DEF Mutate, Ran, Exited, Unknown
<1>9. Rollback(e) => UNCHANGED daemon \/ Glitch BY DEF Rollback, Ran, Exited, Unknown
<1> QED BY <1>3, <1>4, <1>5, <1>6, <1>7, <1>8, <1>9 DEF EgressStep

(* The daemon makes and removes only what it was told to, late.            *)
LEMMA DaemonTouches ==
  ASSUME DaemonTypeOK, DaemonNext
  PROVE  /\ \A j \in Ids : Exists(j)' => Exists(j) \/ <<"create", j>> \in late
         /\ \A j \in Ids : Exists(j) =>
              \/ Exists(j)' \/ <<"remove", j>> \in late \/ <<"reclaim", j>> \in late
              \/ \E p \in Pruners : <<"sweep", p>> \in late
<1>1. CASE ExecuteLate
  <2>1. PICK call \in late :
          \/ /\ call[1] = "reserve" /\ UNCHANGED box
          \/ call[1] = "sweep" /\ box' = Swept /\ UNCHANGED held
          \/ /\ call[1] \in Kinds /\ UNCHANGED held
             /\ box' = IF Accepts(call[1], call[2]) THEN Effect(call[1], call[2]) ELSE box
    BY <1>1, Zenon DEF ExecuteLate
  <2>2. CASE box' = box BY <2>2 DEF Exists
  <2>3. CASE call \in {"reserve"} \X Slots \X Actors
    <3>1. call[1] = "reserve" /\ call[1] \notin Kinds BY <2>3 DEF Kinds
    <3> QED BY <2>1, <2>2, <3>1
  <2>4. CASE call \in {"sweep"} \X Pruners
    <3>1. PICK p \in Pruners : call = <<"sweep", p>> BY <2>4
    <3>2. call[1] \notin Kinds BY <3>1 DEF Kinds
    <3>3. box' = box \/ box' = Swept BY <2>1, <3>2
    <3>4. \A j \in Ids : Swept[j].at # "gone" => Exists(j)
      BY DEF Swept, Removed, Gone, Exists, DaemonTypeOK
    <3>5. box' = Swept => \A j \in Ids : Exists(j)' => Exists(j) BY <3>4 DEF Exists
    <3> QED BY <2>2, <3>1, <3>3, <3>5
  <2>5. CASE call \in Kinds \X Ids
    <3>1. PICK k \in Kinds, i \in Ids : call = <<k, i>> BY <2>5
    <3>2. call[1] = k /\ call[2] = i /\ k # "reserve" /\ k # "sweep" BY <3>1 DEF Kinds
    <3>3. box' = box \/ (Accepts(k, i) /\ box' = Effect(k, i)) BY <2>1, <3>2
    <3>4. CASE Accepts(k, i) /\ box' = Effect(k, i)
      <4>1. /\ \A j \in Ids : Exists(j)' => Exists(j) \/ (j = i /\ k = "create")
            /\ \A j \in Ids : Exists(j) => Exists(j)' \/ (j = i /\ k \in {"remove", "reclaim"})
        BY <3>4, EffectTouches
      <4> QED BY <3>1, <4>1
    <3> QED BY <2>2, <3>3, <3>4
  <2> QED BY <2>3, <2>4, <2>5 DEF DaemonTypeOK, Abandoned
<1>2. CASE DaemonRestart
  <2>1. \A j \in Ids : box'[j] \in {Started(box[j]), [box[j] EXCEPT !.up = FALSE]}
    BY <1>2 DEF DaemonRestart
  <2>2. \A j \in Ids : Started(box[j]).at = box[j].at /\ [box[j] EXCEPT !.up = FALSE].at = box[j].at
    BY DEF Started, DaemonTypeOK, Boxes
  <2> QED BY <2>1, <2>2 DEF Exists
<1>3. ASSUME NEW i \in Ids, Exits(i)
      PROVE  \A j \in Ids : Exists(j)' <=> Exists(j)
  BY <1>3 DEF Exits, Exists, Started, DaemonTypeOK, Boxes
<1> QED BY <1>1, <1>2, <1>3 DEF DaemonNext

(***************************************************************************)
(* All together.                                                           *)
(***************************************************************************)
(* Only the release of a replacement frees a name, and only its own.       *)
LEMMA HoldsOn ==
  ASSUME NEW r \in Replacers, ReplacementStep(r), rpc[r] \notin {"lock", "release"}
  PROVE  held' = held
<1>1. \A k, i : Done(k, i) \/ Failed(k, i) => held' = held BY DEF Done, Failed, Refused, Lost
<1>2. Glitch \/ UNCHANGED daemon => held' = held BY DEF Glitch, daemon
<1>3. Begin(r) \/ AssertNoPrune(r) \/ Fingerprint(r) \/ Lookup(r) \/ Verify(r) \/ Commit(r)
        \/ Reverify(r) \/ Crash(r) => held' = held
  BY <1>2 DEF Begin, AssertNoPrune, Fingerprint, Lookup, Verify, Commit, Reverify, Crash
<1>4. \A k, i, phase, step : Forth(r, k, i, phase, step) => held' = held BY <1>1 DEF Forth
<1>5. \A needed, k, i, step : Back(r, needed, k, i, step) => held' = held BY <1>1, <1>2 DEF Back
<1>6. DropPolicy(r) \/ Rename(r) \/ Stop(r) \/ Start(r) => held' = held
  BY <1>2, <1>4 DEF DropPolicy, Rename, Stop, Start
<1>7. Disconnect(r) \/ Create(r) \/ RemoveOld(r) => held' = held
  BY <1>1 DEF Disconnect, Create, RemoveOld
<1>8. Discard(r) \/ Homeward(r) \/ Reconnect(r) \/ Repolicy(r) \/ Restart(r) => held' = held
  BY <1>5 DEF Discard, Homeward, Reconnect, Repolicy, Restart
<1>9. ~Reserve(r) /\ ~Release(r) BY DEF Reserve, Release
<1> QED BY <1>3, <1>6, <1>7, <1>8, <1>9 DEF ReplacementStep

(* Two replacements of one name do not both hold its reservation.          *)
LEMMA OneHolder ==
  ASSUME NEW q \in Replacers, NEW r \in Replacers, Target[q] = Target[r],
         held[Lock(q)] = q, held[Lock(r)] = r
  PROVE  q = r
BY DEF Lock

LEMMA CandidateHome == \A r \in Replacers : r \in Ids /\ Home(r) = Target[r]
BY DaemonAssumption DEF Home, Ids

(* While things are removed the prune reservation is taken.                *)
LEMMA ReclaimerHolds ==
  ASSUME PruneInv, LateReclaims, Reclaiming PROVE held[PruneSlot] # NoOne
BY SweeperHolds, ActorFacts DEF Reclaiming, LateReclaims

LEMMA InitSurvives == Init => Survival
<1> SUFFICES ASSUME Init PROVE Survival OBVIOUS
<1>1. \A r \in Replacers : rpc[r] = "idle" /\ journal[r] = "none" /\ ~Exists(r) /\ late = {}
  BY DEF Init, ReplacementInit, DaemonInit, Exists, Gone
<1>2. \A p \in Pruners : ~Sweeping(p)
  BY DEF Init, PruneInit, DaemonInit, Sweeping
<1>3. late = {} BY DEF Init, DaemonInit
<1>4. "none" \notin Changing BY PhaseFacts
<1>5. "idle" \notin Repairing /\ "idle" \notin Early BY StepFacts
<1>6. \A r \in Replacers : Follows(r) /\ Knows(r) /\ Retains(r)
  BY <1>1, <1>4, <1>5 DEF Follows, Knows, Retains
<1> QED BY <1>2, <1>3, <1>6 DEF Survival, LateRemovals, LateReclaims, Undisturbed, Reclaiming

(* A step of a replacement.                                                *)
LEMMA ReplacementSurvives ==
  ASSUME IInv, IInv', Survival, NEW r \in Replacers, ReplacementStep(r), UNCHANGED <<pruning, egress>>
  PROVE  Survival'
<1>1. DaemonTypeOK /\ ReplacementTypeOK /\ ReplacementInv /\ PruneInv
  BY DEF IInv, TypeOK, Handling
<1>2. Follows(r) /\ Knows(r) /\ Retains(r) BY DEF Survival
<1>3. Records(r) /\ Makes(r) BY <1>1, <1>2, ReplacementsRecord
<1>4. ReplacementEffect(r) BY <1>1, ReplacementSteps
<1>5. OthersKeep(r)
  BY <1>1, <1>4, LockFacts DEF ReplacementEffect, Discreet, OthersKeep, Kept, ReplacementInv, Handles
<1>6. \A q \in Replacers : q # r /\ held[Lock(q)] = q => held'[Lock(q)] = q
  BY <1>5, LockFacts DEF OthersKeep, Kept
<1>7. \A q \in Replacers : rpc[q] \in Locked => held[Lock(q)] = q
  BY <1>1 DEF ReplacementInv, Handles
<1>8. /\ "remove" \in Locked /\ "discard" \in Locked /\ "discard" \in Repairing
      /\ "fingerprint" \in Locked /\ "fingerprint" \in Working
  BY StepFacts DEF Locked, AtWork, Forward
<1>9. rpc[r] \in {"remove", "discard"} => Home(Old(r)) = Target[r] /\ Old(r) \in Ids /\ Old(r) # r
  BY <1>2 DEF Knows
<1>10. ASSUME NEW q \in Replacers PROVE Follows(q)' BY <1>3 DEF Survival, Records, Follows
<1>11. Knows(r)'
  <2>1. CASE rpc[r] = "idle"
    <3>1. op'[r].old \in AtHome(Target[r]) /\ op'[r].snap = box[op'[r].old] /\ ~Exists(r)
      BY <1>2, <1>3, <2>1 DEF Records, Knows
    <3>2. op'[r].old \in Ids /\ Home(op'[r].old) = Target[r] /\ op'[r].old # r /\ op'[r].snap.at = "home"
      BY <3>1 DEF AtHome, Exists
    <3> QED BY <1>3, <3>2 DEF Knows, Records, Old, Was, Home
  <2>2. CASE rpc[r] # "idle"
    BY <1>2, <1>3, <2>2 DEF Knows, Records, Old, Was, Home
  <2> QED BY <2>1, <2>2
<1>12. ASSUME NEW q \in Replacers, q # r PROVE Knows(q)'
  <2>1. Knows(q) BY DEF Survival
  <2>2. Exists(q)' => Exists(q) BY <1>3, <1>12, CandidateHome DEF Makes
  <2>3. <<"create", q>> \in late' => <<"create", q>> \in late BY <1>3, <1>12, CandidateHome DEF Makes
  <2>4. rpc'[q] = rpc[q] /\ op'[q] = op[q] BY <1>3, <1>12 DEF Records
  <2> QED BY <2>1, <2>2, <2>3, <2>4 DEF Knows, Old, Was, Home
<1>13. Retains(r)'
  <2> SUFFICES ASSUME journal'[r] \in Changing PROVE Exists(Old(r))' /\ held'[Lock(r)] = r
    BY DEF Retains, Lock
  <2>1. rpc[r] # "remove" /\ rpc[r] # "idle" /\ Exists(Old(r)) /\ rpc[r] \notin {"lock", "release"}
    BY <1>2, <1>3, PhaseFacts DEF Records, Retains, Follows, Early
  <2>2. Old(r) \in Ids /\ Old(r) # r /\ Old(r)' = Old(r) BY <1>2, <1>3, <2>1 DEF Knows, Records, Old
  <2>3. Exists(Old(r))' BY <1>3, <2>1, <2>2 DEF Makes, Exists
  <2>4. held' = held BY <2>1, HoldsOn
  <2>5. held[Lock(r)] = r
    BY <1>2, <1>3, <1>7, <1>8 DEF Records, Retains
  <2> QED BY <2>3, <2>4, <2>5
<1>14. ASSUME NEW q \in Replacers, q # r PROVE Retains(q)'
  <2> SUFFICES ASSUME journal'[q] \in Changing PROVE Exists(Old(q))' /\ held'[Lock(q)] = q
    BY DEF Retains, Lock
  <2>1. journal[q] \in Changing /\ op'[q] = op[q] BY <1>3, <1>14 DEF Records
  <2>2. Exists(Old(q)) /\ held[Lock(q)] = q BY <2>1 DEF Survival, Retains
  <2>3. rpc[q] # "idle" BY <2>1 DEF Survival, Follows
  <2>4. Old(q) \in Ids /\ Home(Old(q)) = Target[q] BY <2>3 DEF Survival, Knows
  <2>5. rpc[r] \in {"remove", "discard"} => Old(q) # r /\ Old(q) # Old(r)
    BY <1>7, <1>8, <1>9, <1>14, <2>2, <2>4, OneHolder, CandidateHome
  <2>6. Exists(Old(q))' BY <1>3, <2>1, <2>2, <2>4, <2>5 DEF Makes, Exists, Old
  <2> QED BY <1>6, <1>14, <2>2, <2>6
<1>15. LateRemovals'
  <2> SUFFICES ASSUME NEW i \in Ids, <<"remove", i>> \in late'
               PROVE  \E q \in Replacers : Strikes(q, i)'
    BY DEF LateRemovals
  <2>1. CASE <<"remove", i>> \in late
    <3>1. PICK q \in Replacers : Strikes(q, i) BY <2>1 DEF Survival, LateRemovals
    <3>2. CASE q # r
      BY <1>3, <1>6, <3>1, <3>2 DEF Records, Strikes, Old, Home, Lock
    <3>3. CASE q = r
      <4>1. rpc[r] = "release" /\ journal[r] \notin Settled
        BY <1>3, <3>1, <3>3 DEF Records, Strikes, Ended
      <4> QED BY <1>3, <3>1, <3>3, <4>1 DEF Records, Strikes, Old, Home, Lock
    <3> QED BY <3>2, <3>3
  <2>2. CASE /\ rpc'[r] \in Ended /\ journal'[r] \notin Settled /\ held' = held
             /\ \/ i = r /\ rpc[r] = "discard"
                \/ i = Old(r) /\ rpc[r] = "remove" /\ journal'[r] \notin Changing
    <3>1. held[Lock(r)] = r /\ Home(i) = Target[r] BY <1>7, <1>8, <1>9, <2>2, CandidateHome
    <3>2. Old(r)' = Old(r) BY <1>3, <2>2 DEF Records, Old
    <3> QED BY <2>2, <3>1, <3>2 DEF Strikes, Home, Lock
  <2> QED BY <1>3, <2>1, <2>2 DEF Makes
<1>16. ppc' = ppc BY DEF pruning
<1>17. LateReclaims'
  <2>1. held'[PruneSlot] = held[PruneSlot]
    BY <1>4, SlotFacts, LockFacts DEF ReplacementEffect, Discreet
  <2> QED BY <1>3, <1>16, <2>1 DEF Makes, Survival, LateReclaims, PruneSlot
<1>18. Undisturbed'
  <2> SUFFICES ASSUME Reclaiming', NEW q \in Replacers
               PROVE  journal'[q] \notin Changing /\ rpc'[q] \notin Working
    BY DEF Undisturbed, Working, AtWork, Changing
  <2>1. Reclaiming
    BY <1>3, <1>4, <1>16 DEF Makes, Reclaiming, Sweeping, ReplacementEffect, Discreet, NoNewSweep
  <2>2. \A x \in Replacers : journal[x] \notin Changing /\ rpc[x] \notin Working
    BY <2>1 DEF Survival, Undisturbed
  <2>3. held[PruneSlot] # NoOne BY <1>1, <2>1, ReclaimerHolds DEF Survival
  <2>4. CASE q = r BY <1>3, <1>4, <1>8, <2>2, <2>3, <2>4 DEF Records, ReplacementEffect, Discreet
  <2>5. CASE q # r BY <1>3, <2>2, <2>5 DEF Records
  <2> QED BY <2>4, <2>5
<1> QED BY <1>10, <1>11, <1>12, <1>13, <1>14, <1>15, <1>17, <1>18 DEF Survival

(* A step of a prune.                                                      *)
LEMMA PruneSurvives ==
  ASSUME IInv, IInv', Survival, NEW p \in Pruners, PruneStep(p), UNCHANGED <<replacement, egress>>
  PROVE  Survival'
<1>1. DaemonTypeOK /\ PruneTypeOK /\ ReplacementInv /\ PruneInv
  BY DEF IInv, TypeOK, Handling
<1>2. Removes(p) /\ PruneEffect(p) BY <1>1, PrunesRemove, PruneSteps
<1>3. OthersKeep(p) BY <1>2 DEF PruneEffect, OthersKeep
<1>4. \A q \in Replacers : held[Lock(q)] = q => held'[Lock(q)] = q
  BY <1>3, LockFacts, ActorFacts DEF OthersKeep, Kept
<1>5. rpc' = rpc /\ op' = op /\ journal' = journal BY DEF replacement
<1>6. ppc[p] \in {"sweep", "reclaim"} => \A q \in Replacers : journal[q] \notin Changing
  BY DEF Sweeping, Reclaiming, Survival, Undisturbed
<1>7. ASSUME NEW r \in Replacers PROVE Follows(r)' /\ Knows(r)' /\ Retains(r)'
  <2>1. Follows(r) /\ Knows(r) /\ Retains(r) BY DEF Survival
  <2>2. Follows(r)' BY <1>5, <2>1 DEF Follows
  <2>3. Knows(r)' BY <1>2, <1>5, <2>1, CandidateHome DEF Removes, Knows, Old, Was, Home
  <2>4. Retains(r)'
    <3> SUFFICES ASSUME journal[r] \in Changing PROVE Exists(Old(r))' /\ held'[Lock(r)] = r
      BY <1>5 DEF Retains, Lock
    <3>1. Exists(Old(r)) /\ held[Lock(r)] = r /\ rpc[r] # "idle" BY <2>1 DEF Retains, Follows
    <3>2. Old(r) \in Ids BY <2>1, <3>1 DEF Knows
    <3>3. ppc[p] \notin {"sweep", "reclaim"} BY <1>6
    <3> QED BY <1>2, <1>4, <1>5, <3>1, <3>2, <3>3 DEF Removes, Exists, Old
  <2> QED BY <2>2, <2>3, <2>4
<1>8. LateRemovals'
  <2> SUFFICES ASSUME NEW i \in Ids, <<"remove", i>> \in late'
               PROVE  \E q \in Replacers : Strikes(q, i)'
    BY DEF LateRemovals
  <2>1. PICK q \in Replacers : Strikes(q, i) BY <1>2 DEF Removes, Survival, LateRemovals
  <2> QED BY <1>4, <1>5, <2>1 DEF Strikes, Old, Home, Lock
<1>9. PruneSlot \in Slots /\ \A q \in Pruners : q # NoOne BY SlotFacts, ActorFacts
<1>10. LateReclaims'
  <2> SUFFICES ASSUME NEW i \in Ids, <<"reclaim", i>> \in late'
               PROVE  \E q \in Pruners : held'[PruneSlot] = q /\ ppc'[q] = "done"
    BY DEF LateReclaims, PruneSlot
  <2>1. CASE <<"reclaim", i>> \in late
    <3>1. PICK q \in Pruners : held[PruneSlot] = q /\ ppc[q] = "done"
      BY <2>1 DEF Survival, LateReclaims
    <3>2. q # p BY <1>2, <3>1 DEF Removes
    <3> QED BY <1>2, <1>3, <1>9, <3>1, <3>2 DEF PruneEffect, OthersKeep, Kept
  <2>2. CASE ppc[p] = "reclaim" /\ ppc'[p] = "done" /\ held' = held
    <3>1. held[PruneSlot] = p BY <1>1, <2>2 DEF PruneInv, Guards
    <3> QED BY <2>2, <3>1
  <2> QED BY <1>2, <2>1, <2>2 DEF Removes
<1>11. Undisturbed'
  <2> SUFFICES ASSUME Reclaiming', NEW q \in Replacers
               PROVE  journal[q] \notin Changing /\ rpc[q] \notin Working
    BY <1>5 DEF Undisturbed, Working, AtWork, Changing
  <2>1. Reclaiming \/ ~Evidence
    <3>1. ASSUME NEW x \in Pruners, Sweeping(x)' PROVE Reclaiming \/ ~Evidence
      <4>1. CASE x = p BY <1>2, <3>1, <4>1 DEF PruneEffect, Reclaiming
      <4>2. CASE x # p BY <1>2, <3>1, <4>2 DEF PruneEffect, Reclaiming, Sweeping
      <4> QED BY <4>1, <4>2
    <3>2. ASSUME NEW i \in Ids, <<"reclaim", i>> \in late' PROVE Reclaiming
      <4>1. CASE <<"reclaim", i>> \in late BY <4>1 DEF Reclaiming
      <4>2. CASE ppc[p] = "reclaim" BY <4>2 DEF Reclaiming, Sweeping
      <4> QED BY <1>2, <3>2, <4>1, <4>2 DEF Removes
    <3> QED BY <3>1, <3>2 DEF Reclaiming
  <2>2. CASE Reclaiming BY <2>2 DEF Survival, Undisturbed
  <2>3. CASE ~Evidence
    <3>1. held[Lock(q)] # q BY <2>3, LockFacts DEF Evidence
    <3>2. journal[q] \notin Changing BY <3>1 DEF Survival, Retains
    <3>3. rpc[q] \notin Working BY <1>1, <3>1, WorkFacts DEF ReplacementInv, Handles
    <3> QED BY <3>2, <3>3
  <2> QED BY <2>1, <2>2, <2>3
<1> QED BY <1>7, <1>8, <1>10, <1>11 DEF Survival

(* A step that neither replaces nor prunes: what was given up may happen.  *)
LEMMA OthersSurvive ==
  ASSUME IInv, Survival, UNCHANGED <<replacement, pruning>>, NoNewSweep,
         \A q \in Replacers \cup Pruners, s \in Slots : held[s] = q => held'[s] = q,
         \A k \in Deeds, j \in Ids : <<k, j>> \in late' => <<k, j>> \in late,
         \A j \in Ids : Exists(j)' => Exists(j) \/ <<"create", j>> \in late,
         \A j \in Ids : Exists(j) =>
           \/ Exists(j)' \/ <<"remove", j>> \in late \/ <<"reclaim", j>> \in late
           \/ \E p \in Pruners : <<"sweep", p>> \in late
  PROVE  Survival'
<1>1. rpc' = rpc /\ op' = op /\ journal' = journal /\ ppc' = ppc BY DEF replacement, pruning
<1>2. {"create", "remove", "reclaim"} = Deeds BY DEF Deeds
<1>3. \A q \in Replacers : held[Lock(q)] = q => held'[Lock(q)] = q BY LockFacts
<1>4. ASSUME NEW r \in Replacers PROVE Follows(r)' /\ Knows(r)' /\ Retains(r)'
  <2>1. Follows(r) /\ Knows(r) /\ Retains(r) BY DEF Survival
  <2>2. Follows(r)' BY <1>1, <2>1 DEF Follows
  <2>3. Knows(r)' BY <1>1, <1>2, <2>1, CandidateHome DEF Knows, Old, Was, Home
  <2>4. Retains(r)'
    <3> SUFFICES ASSUME journal[r] \in Changing PROVE Exists(Old(r))' /\ held'[Lock(r)] = r
      BY <1>1 DEF Retains, Lock
    <3>1. Exists(Old(r)) /\ held[Lock(r)] = r /\ rpc[r] # "idle" BY <2>1 DEF Retains, Follows
    <3>2. Old(r) \in Ids /\ Home(Old(r)) = Target[r] /\ Old(r) # r BY <2>1, <3>1 DEF Knows
    <3>3. ~Reclaiming BY DEF Survival, Undisturbed
    <3>4. <<"reclaim", Old(r)>> \notin late /\ \A p \in Pruners : <<"sweep", p>> \notin late
      BY <3>2, <3>3 DEF Reclaiming, Sweeping
    <3>5. <<"remove", Old(r)>> \notin late
      <4> SUFFICES ASSUME <<"remove", Old(r)>> \in late PROVE FALSE OBVIOUS
      <4>1. PICK q \in Replacers : Strikes(q, Old(r)) BY <3>2 DEF Survival, LateRemovals
      <4>2. q = r BY <3>1, <3>2, <4>1, OneHolder DEF Strikes
      <4> QED BY <3>2, <4>1, <4>2 DEF Strikes
    <3>6. Exists(Old(r))' BY <1>1, <3>1, <3>2, <3>4, <3>5 DEF Exists, Old
    <3> QED BY <1>3, <3>1, <3>6
  <2> QED BY <2>2, <2>3, <2>4
<1>5. LateRemovals'
  <2> SUFFICES ASSUME NEW i \in Ids, <<"remove", i>> \in late'
               PROVE  \E q \in Replacers : Strikes(q, i)'
    BY DEF LateRemovals
  <2>1. PICK q \in Replacers : Strikes(q, i) BY <1>2 DEF Survival, LateRemovals
  <2> QED BY <1>1, <1>3, <2>1 DEF Strikes, Old, Home, Lock
<1>6. LateReclaims' BY <1>1, <1>2, SlotFacts DEF Survival, LateReclaims, PruneSlot
<1>7. Reclaiming' => Reclaiming BY <1>1, <1>2 DEF Reclaiming, Sweeping, NoNewSweep
<1>8. Undisturbed'
  BY <1>1, <1>7 DEF Survival, Undisturbed, Working, AtWork, Changing
<1> QED BY <1>4, <1>5, <1>6, <1>8 DEF Survival

LEMMA StepSurvives == IInv /\ Survival /\ [Next]_vars => Survival'
<1> SUFFICES ASSUME IInv, Survival, [Next]_vars PROVE Survival' OBVIOUS
<1>1. IInv' /\ DaemonTypeOK /\ EgressTypeOK /\ EgressInv
  BY StepHolds DEF IInv, TypeOK, Handling
<1>2. CASE ReplacementNext /\ UNCHANGED <<pruning, egress>>
  BY <1>1, <1>2, ReplacementSurvives DEF ReplacementNext
<1>3. CASE PruneNext /\ UNCHANGED <<replacement, egress>>
  BY <1>1, <1>3, PruneSurvives DEF PruneNext
<1>4. CASE (\E e \in Egressers : EgressStep(e)) /\ UNCHANGED <<replacement, pruning>>
  <2>1. PICK e \in Egressers : EgressStep(e) BY <1>4
  <2>2. Leaves /\ EgressEffect(e) BY <1>1, <2>1, EgressLeaves, EgressStepsKeep
  <2>3. \A q \in Replacers \cup Pruners, s \in Slots : held[s] = q => held'[s] = q
    BY <2>2, ActorFacts DEF EgressEffect, Kept
  <2> QED BY <1>4, <2>2, <2>3, OthersSurvive DEF EgressEffect, Leaves
<1>5. CASE UNCHANGED <<replacement, pruning, daemon>>
  <2>1. NoNewSweep /\ held' = held /\ late' = late /\ \A j \in Ids : Exists(j)' <=> Exists(j)
    BY <1>5 DEF daemon, NoNewSweep, Exists
  <2> QED BY <1>5, <2>1, OthersSurvive
<1>6. CASE DaemonNext /\ UNCHANGED <<replacement, pruning, egress>>
  <2>1. late' \subseteq late /\ \A s \in Slots : Kept(s) BY <1>1, <1>6, DaemonKeeps
  <2>2. \A q \in Replacers \cup Pruners, s \in Slots : held[s] = q => held'[s] = q
    BY <2>1, ActorFacts DEF Kept
  <2>3. NoNewSweep BY <2>1 DEF NoNewSweep
  <2> QED BY <1>1, <1>6, <2>1, <2>2, <2>3, DaemonTouches, OthersSurvive
<1>7. CASE /\ (\E c \in Names : AbandonedRuns(c)) \/ (\E q \in Policies : PolicyStep(q))
           /\ UNCHANGED <<replacement, pruning>>
  <2>1. UNCHANGED daemon BY <1>1, <1>7, Bystanders
  <2> QED BY <1>5, <1>7, <2>1
<1>8. CASE UNCHANGED vars BY <1>5, <1>8 DEF vars
<1> QED BY <1>2, <1>3, <1>4, <1>6, <1>7, <1>8 DEF Next, EgressNext

(* While the journal says that a replacement changed its original and has  *)
(* not committed, the original exists, on any number of containers and     *)
(* whatever is lost, late or crashed: no prune, no reclaim, no other       *)
(* replacement and no late removal takes the only copy.                    *)
THEOREM OriginalIsKept == Spec => []OriginalSurvives
<1>1. Survival => OriginalSurvives BY DEF Survival, Retains, OriginalSurvives
<1>2. IInv /\ Survival /\ [Next]_vars => IInv' /\ Survival' BY StepHolds, StepSurvives
<1> QED BY <1>1, <1>2, InitHolds, InitSurvives, PTL DEF Spec

(***************************************************************************)
(* What a step of a replacement does to containers: the call it makes, if  *)
(* any, what became of it, and where the replacement goes from there.      *)
(***************************************************************************)
(* A call was carried out; it was not, or not yet; no call was made.       *)
Carried(k, i) == Accepts(k, i) /\ box' = Effect(k, i) /\ late' = late
Missed(k, i)  == /\ box' = box
                 /\ late' = late \/ (k \in LateCalls /\ Accepts(k, i) /\ late' = late \cup {<<k, i>>})
Calm          == box' = box /\ \A k \in Kinds, i \in Ids : <<k, i>> \in late' <=> <<k, i>> \in late

Unaltered(r) == op'[r] = op[r]

(* From step s with a call on i: to t if it succeeded, to f if it did not, *)
(* although it may have been carried out then too.                         *)
Goes(r, s, k, i, t, f) ==
  /\ rpc[r] = s /\ rpc'[r] \in {t, f}
  /\ Carried(k, i) \/ (Missed(k, i) /\ rpc'[r] = f)

Advance(r) ==
  \/ /\ Unaltered(r)
     /\ \/ Goes(r, "policy", "policy", Old(r), "rename", "discard")
        \/ Goes(r, "rename", "rename", Old(r), "stop", "discard")
        \/ Was(r).up /\ Goes(r, "stop", "stop", Old(r), "disconnect", "discard")
        \/ Was(r).up /\ Goes(r, "start", "start", r, "verify", "discard")
  \/ op'[r] = [op[r] EXCEPT !.cut = TRUE] /\ Goes(r, "disconnect", "disconnect", Old(r), "create", "discard")

Creates(r) ==
  /\ rpc[r] = "create"
  /\ \/ Carried("create", r) /\ rpc'[r] \in {"start", "discard"} /\ op'[r] = [op[r] EXCEPT !.cand = TRUE]
     \/ (Carried("create", r) \/ Missed("create", r)) /\ rpc'[r] = "lookup" /\ Unaltered(r)

Retires(r) ==
  /\ rpc[r] = "remove" /\ rpc'[r] = "release" /\ Unaltered(r)
  /\ \/ Carried("remove", Old(r))
     \/ Missed("remove", Old(r)) /\ journal'[r] \in {"committed", "cleanup_required"}

Retreat(r) ==
  /\ Unaltered(r) \/ rpc'[r] = "done"
  /\ \/ op[r].cand /\ Exists(r) /\ Goes(r, "discard", "remove", r, "homeward", "done")
     \/ box[Old(r)].at # "home" /\ Goes(r, "homeward", "homeward", Old(r), "reconnect", "done")
     \/ op[r].cut /\ ~box[Old(r)].net /\ Goes(r, "reconnect", "reconnect", Old(r), "repolicy", "done")
     \/ Was(r).policy /\ Goes(r, "repolicy", "repolicy", Old(r), "restart", "done")
     \/ ~Was(r).policy /\ Goes(r, "repolicy", "policy", Old(r), "restart", "done")
     \/ Was(r).up /\ ~box[Old(r)].up /\ Goes(r, "restart", "start", Old(r), "reverify", "done")

(* Steps without a call on a container.                                    *)
Hop(r, s, t) == rpc[r] = s /\ rpc'[r] = t
Passes(r) ==
  /\ Calm
  /\ \/ Hop(r, "idle", "lock")
     \/ rpc[r] \in Early /\ rpc'[r] \in Early \cup {"release"}
     \/ Unaltered(r) /\ Hop(r, "fingerprint", "policy") /\ Looks(box[Old(r)]) = Looks(Was(r))
     \/ Unaltered(r) /\ Hop(r, "stop", "disconnect") /\ ~Was(r).up
     \/ Unaltered(r) /\ Hop(r, "start", "verify") /\ ~Was(r).up
     \/ Unaltered(r) /\ Hop(r, "verify", "commit") /\ box[r].up = Was(r).up
     \/ Unaltered(r) /\ (Hop(r, "verify", "discard") \/ Hop(r, "commit", "discard") \/ Hop(r, "commit", "remove"))
     \/ Hop(r, "lookup", "discard") /\ \E x \in BOOLEAN : op'[r] = [op[r] EXCEPT !.cand = x]
     \/ Unaltered(r) /\ Hop(r, "discard", "homeward") /\ ~(op[r].cand /\ Exists(r))
     \/ Unaltered(r) /\ Hop(r, "homeward", "reconnect") /\ box[Old(r)].at = "home"
     \/ Unaltered(r) /\ Hop(r, "reconnect", "repolicy") /\ ~(op[r].cut /\ ~box[Old(r)].net)
     \/ Unaltered(r) /\ Hop(r, "restart", "reverify") /\ ~(Was(r).up /\ ~box[Old(r)].up)
     \/ Unaltered(r) /\ Hop(r, "reverify", "release") /\ box[Old(r)].up = Was(r).up /\ journal'[r] = "recovered"
     \/ rpc'[r] \in {"done", "crashed"}

Turn(r) == Advance(r) \/ Creates(r) \/ Retires(r) \/ Retreat(r) \/ Passes(r)

(* What the journal says of an operation that ends.                        *)
Testifies(r) ==
  rpc'[r] \in {"done", "crashed"} =>
    /\ rpc[r] \in Repairing => journal'[r] \in Changing
    /\ rpc[r] = "remove" => journal'[r] = "committed"
    /\ rpc[r] = "release" =>
         \/ journal'[r] = journal[r]
         \/ journal[r] = "complete" /\ journal'[r] = "cleanup_required"
    /\ rpc[r] \in Early => journal'[r] = journal[r]

LEMMA CallOutcome ==
  ASSUME NEW k, NEW i
  PROVE  (Done(k, i) => Carried(k, i)) /\ (Failed(k, i) => Carried(k, i) \/ Missed(k, i))
BY DEF Done, Failed, Refused, Lost, Carried, Missed

LEMMA CalmCalls ==
  /\ Glitch \/ UNCHANGED daemon => Calm
  /\ \A s, a : Reserved(s, a) \/ Conflict(s) \/ ReserveLost(s, a) => Calm
  /\ \A s : Freed(s) \/ FreeFailed(s) => Calm
<1>1. box' = box /\ late' = late => Calm BY DEF Calm
<1>2. ASSUME NEW s, NEW a, ReserveLost(s, a) PROVE Calm
  <2>1. box' = box /\ (late' = late \/ late' = late \cup {<<"reserve", s, a>>})
    BY <1>2 DEF ReserveLost
  <2>2. \A k \in Kinds, i \in Ids : <<k, i>> # <<"reserve", s, a>> BY DEF Kinds
  <2> QED BY <2>1, <2>2 DEF Calm
<1> QED BY <1>1, <1>2 DEF Glitch, daemon, Reserved, Conflict, Freed, FreeFailed

LEMMA ForthTurns ==
  ASSUME ReplacementTypeOK, NEW r \in Replacers, NEW s, rpc[r] = s,
         NEW k, NEW i, NEW phase, NEW step, Forth(r, k, i, phase, step)
  PROVE  Unaltered(r) /\ Goes(r, s, k, i, step, "discard")
<1>1. Unaltered(r) BY DEF Forth, Undo, Unaltered
<1>2. \A t : Go(r, t) => rpc'[r] = t BY DEF Go, ReplacementTypeOK
<1>3. CASE Done(k, i) /\ Go(r, step) BY <1>1, <1>2, <1>3, CallOutcome DEF Goes
<1>4. CASE Failed(k, i) /\ Go(r, "discard") BY <1>1, <1>2, <1>4, CallOutcome DEF Goes
<1> QED BY <1>1, <1>3, <1>4 DEF Forth, Undo

LEMMA BackTurns ==
  ASSUME ReplacementTypeOK, NEW r \in Replacers, NEW s, rpc[r] = s,
         NEW needed, NEW k, NEW i, NEW step, Back(r, needed, k, i, step)
  PROVE  \/ needed /\ (Unaltered(r) \/ rpc'[r] = "done") /\ Goes(r, s, k, i, step, "done")
         \/ ~needed /\ Calm /\ Unaltered(r) /\ Hop(r, s, step)
         \/ Calm /\ rpc'[r] = "done"
<1>1. Go(r, step) => rpc'[r] = step BY DEF Go, ReplacementTypeOK
<1>2. GiveUp(r) => rpc'[r] = "done" BY DEF GiveUp, Leave, Go, ReplacementTypeOK
<1>3. CASE needed /\ Done(k, i) /\ Go(r, step) /\ UNCHANGED <<op, journal>>
  BY <1>1, <1>3, CallOutcome DEF Goes, Unaltered
<1>4. CASE ~needed /\ Go(r, step) /\ UNCHANGED <<op, journal, daemon>>
  BY <1>1, <1>4, CalmCalls DEF Unaltered, Hop
<1>5. CASE needed /\ Failed(k, i) /\ GiveUp(r)
  BY <1>2, <1>5, CallOutcome DEF Goes
<1>6. CASE Glitch /\ GiveUp(r) BY <1>2, <1>6, CalmCalls
<1> QED BY <1>3, <1>4, <1>5, <1>6 DEF Back

LEMMA ReplacementsTurn ==
  ASSUME ReplacementTypeOK, NEW r \in Replacers, Follows(r), ReplacementStep(r)
  PROVE  Turn(r)
<1>1. \A step : Go(r, step) => rpc'[r] = step BY DEF Go, ReplacementTypeOK
<1>2. UNCHANGED op => Unaltered(r) BY DEF Unaltered
<1>3. op[r] \in [old : Ids \cup {NoOne}, snap : Boxes, lock : BOOLEAN, cut : BOOLEAN, cand : BOOLEAN]
  BY DEF ReplacementTypeOK
<1>4. Abandon(r) => rpc'[r] = "release" BY <1>1 DEF Abandon
<1>5. Undo(r) => Unaltered(r) /\ rpc'[r] = "discard" BY <1>1, <1>2 DEF Undo
<1>6. GiveUp(r) => rpc'[r] = "done" BY <1>1 DEF GiveUp, Leave
<1>7. CASE Begin(r) BY <1>1, <1>7, CalmCalls DEF Begin, Turn, Passes, Hop
<1>8. CASE Reserve(r) BY <1>1, <1>4, <1>8, CalmCalls DEF Reserve, Turn, Passes, Early
<1>9. CASE AssertNoPrune(r) BY <1>1, <1>4, <1>9, CalmCalls DEF AssertNoPrune, Turn, Passes, Early
<1>10. CASE Fingerprint(r) BY <1>1, <1>2, <1>4, <1>10, CalmCalls DEF Fingerprint, Turn, Passes, Hop, Early
<1>11. CASE DropPolicy(r) BY <1>11, ForthTurns DEF DropPolicy, Turn, Advance
<1>12. CASE Rename(r) BY <1>12, ForthTurns DEF Rename, Turn, Advance
<1>13. CASE Stop(r)
  <2>1. CASE Was(r).up /\ Forth(r, "stop", Old(r), "stopped", "disconnect")
    BY <1>13, <2>1, ForthTurns DEF Stop, Turn, Advance
  <2>2. CASE ~Was(r).up /\ Go(r, "disconnect") /\ UNCHANGED <<op, daemon>>
    BY <1>1, <1>2, <1>13, <2>2, CalmCalls DEF Stop, Turn, Passes, Hop
  <2> QED BY <1>13, <2>1, <2>2 DEF Stop
<1>14. CASE Disconnect(r)
  <2>1. op'[r] = [op[r] EXCEPT !.cut = TRUE] /\ rpc[r] = "disconnect"
    BY <1>14 DEF Disconnect, ReplacementTypeOK
  <2>2. Goes(r, "disconnect", "disconnect", Old(r), "create", "discard")
    <3>1. CASE Done("disconnect", Old(r)) /\ Go(r, "create")
      BY <1>1, <2>1, <3>1, CallOutcome DEF Goes
    <3>2. CASE Failed("disconnect", Old(r)) /\ Go(r, "discard")
      BY <1>1, <2>1, <3>2, CallOutcome DEF Goes
    <3> QED BY <1>14, <3>1, <3>2 DEF Disconnect
  <2> QED BY <2>1, <2>2 DEF Turn, Advance
<1>15. CASE Create(r)
  <2>1. rpc[r] = "create" BY <1>15 DEF Create
  <2>2. CASE /\ Done("create", r) /\ op' = [op EXCEPT ![r].cand = TRUE]
             /\ Go(r, "start") \/ Go(r, "discard")
    <3>1. op'[r] = [op[r] EXCEPT !.cand = TRUE] BY <2>2 DEF ReplacementTypeOK
    <3> QED BY <1>1, <2>1, <2>2, <3>1, CallOutcome DEF Turn, Creates
  <2>3. CASE Failed("create", r) /\ Go(r, "lookup") /\ UNCHANGED <<op, journal>>
    BY <1>1, <1>2, <2>1, <2>3, CallOutcome DEF Turn, Creates
  <2> QED BY <1>15, <2>2, <2>3 DEF Create
<1>16. CASE Lookup(r)
  <2>1. Hop(r, "lookup", "discard") /\ Calm BY <1>1, <1>16, CalmCalls DEF Lookup, Hop
  <2>2. PICK x \in BOOLEAN : op'[r] = [op[r] EXCEPT !.cand = x]
    <3>1. CASE op' = [op EXCEPT ![r].cand = box[r].at = "home"]
      <4>1. op'[r] = [op[r] EXCEPT !.cand = (box[r].at = "home")] BY <3>1 DEF ReplacementTypeOK
      <4> QED BY <4>1
    <3>2. CASE UNCHANGED op
      <4>1. op[r] = [op[r] EXCEPT !.cand = op[r].cand] /\ op[r].cand \in BOOLEAN BY <1>3
      <4> QED BY <3>2, <4>1
    <3> QED BY <1>16, <3>1, <3>2 DEF Lookup
  <2> QED BY <2>1, <2>2 DEF Turn, Passes
<1>17. CASE Start(r)
  <2>1. CASE Was(r).up /\ Forth(r, "start", r, "verifying", "verify")
    BY <1>17, <2>1, ForthTurns DEF Start, Turn, Advance
  <2>2. CASE ~Was(r).up /\ Go(r, "verify") /\ UNCHANGED <<op, daemon>>
    BY <1>1, <1>2, <1>17, <2>2, CalmCalls DEF Start, Turn, Passes, Hop
  <2> QED BY <1>17, <2>1, <2>2 DEF Start
<1>18. CASE Verify(r)
  BY <1>1, <1>2, <1>5, <1>18, CalmCalls DEF Verify, Turn, Passes, Hop
<1>19. CASE Commit(r)
  BY <1>1, <1>2, <1>5, <1>19, CalmCalls DEF Commit, Turn, Passes, Hop
<1>20. CASE RemoveOld(r)
  <2>1. rpc[r] = "remove" /\ rpc'[r] = "release" /\ Unaltered(r) /\ journal[r] = "committed"
    BY <1>1, <1>2, <1>20 DEF RemoveOld, Follows
  <2>2. CASE Done("remove", Old(r)) BY <2>1, <2>2, CallOutcome DEF Turn, Retires
  <2>3. CASE Failed("remove", Old(r)) /\ Note(r, "cleanup_required")
    <3>1. journal'[r] = "cleanup_required" BY <2>3 DEF Note, ReplacementTypeOK
    <3> QED BY <2>1, <2>3, <3>1, CallOutcome DEF Turn, Retires
  <2>4. CASE Failed("remove", Old(r)) /\ UNCHANGED journal
    BY <2>1, <2>4, CallOutcome DEF Turn, Retires
  <2> QED BY <1>20, <2>2, <2>3, <2>4 DEF RemoveOld
<1>21. CASE Release(r)
  <2>1. rpc'[r] = "done" BY <1>1, <1>21 DEF Release, Leave
  <2> QED BY <1>21, <2>1, CalmCalls DEF Release, Turn, Passes
<1>22. CASE Discard(r)
  BY <1>22, BackTurns DEF Discard, Turn, Retreat, Passes
<1>23. CASE Homeward(r) BY <1>23, BackTurns DEF Homeward, Turn, Retreat, Passes
<1>24. CASE Reconnect(r) BY <1>24, BackTurns DEF Reconnect, Turn, Retreat, Passes
<1>25. CASE Repolicy(r)
  <2>1. CASE Was(r).policy BY <1>25, <2>1, BackTurns DEF Repolicy, Turn, Retreat, Passes
  <2>2. CASE ~Was(r).policy BY <1>25, <2>2, BackTurns DEF Repolicy, Turn, Retreat, Passes
  <2> QED BY <2>1, <2>2
<1>26. CASE Restart(r) BY <1>26, BackTurns DEF Restart, Turn, Retreat, Passes
<1>27. CASE Reverify(r)
  <2>1. rpc[r] = "reverify" /\ Calm BY <1>27, CalmCalls DEF Reverify
  <2>2. CASE box[Old(r)].up = Was(r).up /\ Note(r, "recovered") /\ Go(r, "release") /\ UNCHANGED op
    <3>1. journal'[r] = "recovered" BY <2>2 DEF Note, ReplacementTypeOK
    <3> QED BY <1>1, <1>2, <2>1, <2>2, <3>1 DEF Turn, Passes, Hop
  <2> QED BY <1>6, <1>27, <2>1, <2>2 DEF Reverify, Turn, Passes
<1>28. CASE Crash(r) BY <1>1, <1>28, CalmCalls DEF Crash, Leave, Turn, Passes
<1> QED
  BY <1>7, <1>8, <1>9, <1>10, <1>11, <1>12, <1>13, <1>14, <1>15, <1>16, <1>17, <1>18, <1>19, <1>20,
     <1>21, <1>22, <1>23, <1>24, <1>25, <1>26, <1>27, <1>28
  DEF ReplacementStep

LEMMA ReplacementsTestify ==
  ASSUME ReplacementTypeOK, NEW r \in Replacers, Follows(r), ReplacementStep(r)
  PROVE  Testifies(r)
<1> SUFFICES ASSUME rpc'[r] \in {"done", "crashed"} PROVE Testifies(r) BY DEF Testifies
<1>1. \A step : Go(r, step) => rpc'[r] = step BY DEF Go, ReplacementTypeOK
<1>2. /\ rpc[r] \in Repairing => journal[r] \in Changing
      /\ rpc[r] = "remove" => journal[r] = "committed"
  BY DEF Follows
<1>3. Early \cap Repairing = {} /\ "release" \notin Repairing /\ "remove" \notin Repairing
      /\ Early \cap {"release", "remove"} = {} /\ "recovery_required" \in Changing
  BY StepFacts, PhaseFacts DEF Ended
<1>4. CASE Crash(r) BY <1>2, <1>4 DEF Crash, Testifies
<1>5. CASE Release(r)
  <2>1. rpc[r] = "release" BY <1>5 DEF Release
  <2>2. journal'[r] = journal[r] \/ (journal[r] = "complete" /\ journal'[r] = "cleanup_required")
    BY <1>5 DEF Release, Note, ReplacementTypeOK
  <2> QED BY <1>3, <2>1, <2>2 DEF Testifies
<1>6. CASE GiveUp(r) /\ rpc[r] \in Backward
  <2>1. journal'[r] \in {journal[r], "recovery_required"} BY <1>6 DEF GiveUp, ReplacementTypeOK
  <2>2. rpc[r] \in Repairing BY <1>6 DEF Repairing
  <2> QED BY <1>2, <1>3, <2>1, <2>2 DEF Testifies
<1>7. ~Undo(r) /\ ~Abandon(r) BY <1>1 DEF Undo, Abandon
<1>8. ~(Begin(r) \/ Reserve(r) \/ AssertNoPrune(r) \/ Fingerprint(r)) BY <1>1, <1>7
  DEF Begin, Reserve, AssertNoPrune, Fingerprint
<1>9. ~(DropPolicy(r) \/ Rename(r) \/ Stop(r) \/ Start(r)) BY <1>1, <1>7
  DEF DropPolicy, Rename, Stop, Start, Forth
<1>10. ~(Disconnect(r) \/ Create(r) \/ Lookup(r) \/ Verify(r) \/ Commit(r) \/ RemoveOld(r)) BY <1>1, <1>7
  DEF Disconnect, Create, Lookup, Verify, Commit, RemoveOld
<1>11. ASSUME NEW needed, NEW k, NEW i, NEW step, Back(r, needed, k, i, step), step \in Backward
       PROVE  GiveUp(r)
  BY <1>1, <1>11 DEF Back, Backward
<1>12. Discard(r) \/ Homeward(r) \/ Reconnect(r) \/ Repolicy(r) \/ Restart(r) => GiveUp(r) /\ rpc[r] \in Backward
  BY <1>11 DEF Discard, Homeward, Reconnect, Repolicy, Restart, Backward
<1>13. Reverify(r) => GiveUp(r) /\ rpc[r] \in Backward BY <1>1 DEF Reverify, Backward
<1> QED BY <1>4, <1>5, <1>6, <1>8, <1>9, <1>10, <1>12, <1>13 DEF ReplacementStep

(* The containers a call changes, and how.                                 *)
LEMMA EffectOn ==
  ASSUME DaemonTypeOK, NEW k \in Kinds, NEW i \in Ids, box' = Effect(k, i)
  PROVE  /\ \A j \in Ids : j # i => box'[j] = box[j]
         /\ k = "create" => box'[i] = Fresh
         /\ k = "rename" => box'[i] = [box[i] EXCEPT !.at = "recovery"]
         /\ k = "homeward" => box'[i] = [box[i] EXCEPT !.at = "home"]
         /\ k = "stop" => box'[i] = [box[i] EXCEPT !.up = FALSE]
         /\ k = "start" => box'[i] = Started(box[i])
         /\ k = "policy" => box'[i] = [box[i] EXCEPT !.policy = FALSE]
         /\ k = "repolicy" => box'[i] = [box[i] EXCEPT !.policy = TRUE]
         /\ k = "disconnect" => box'[i] = [box[i] EXCEPT !.net = FALSE]
         /\ k = "reconnect" => box'[i] = [box[i] EXCEPT !.net = TRUE]
         /\ k \in {"remove", "reclaim"} => box'[i] = Removed(box[i])
<1> USE DEF DaemonTypeOK
<1>1. CASE k = "create" BY <1>1 DEF Effect
<1>2. CASE k \in {"remove", "reclaim"} BY <1>2 DEF Effect
<1>3. CASE k = "start" BY <1>3 DEF Effect
<1>4. CASE k = "rename" BY <1>4 DEF Effect
<1>5. CASE k = "homeward" BY <1>5 DEF Effect
<1>6. CASE k = "stop" BY <1>6 DEF Effect
<1>7. CASE k = "policy" BY <1>7 DEF Effect
<1>8. CASE k = "repolicy" BY <1>8 DEF Effect
<1>9. CASE k = "disconnect" BY <1>9 DEF Effect
<1>10. CASE k = "reconnect" BY <1>10 DEF Effect
<1> QED BY <1>1, <1>2, <1>3, <1>4, <1>5, <1>6, <1>7, <1>8, <1>9, <1>10 DEF Kinds

(* The same, one attribute at a time.                                      *)
Attributes(k, i) ==
  /\ box'[i].at = IF k \in {"create", "homeward"} THEN "home"
                  ELSE IF k = "rename" THEN "recovery"
                  ELSE IF k \in {"remove", "reclaim"} THEN "gone" ELSE box[i].at
  /\ box'[i].up = IF k \in {"create", "stop", "remove", "reclaim"} THEN FALSE
                  ELSE IF k = "start" THEN TRUE ELSE box[i].up
  /\ box'[i].policy = IF k \in {"create", "repolicy", "remove", "reclaim"} THEN TRUE
                      ELSE IF k = "policy" THEN FALSE ELSE box[i].policy
  /\ box'[i].net = IF k \in {"create", "reconnect", "remove", "reclaim"} THEN TRUE
                   ELSE IF k = "disconnect" THEN FALSE ELSE box[i].net
  /\ box'[i].starts = IF k = "create" THEN 0
                      ELSE IF k = "start" THEN box[i].starts + 1 ELSE box[i].starts

LEMMA EffectFields ==
  ASSUME DaemonTypeOK, NEW k \in Kinds, NEW i \in Ids, box' = Effect(k, i)
  PROVE  (\A j \in Ids : j # i => box'[j] = box[j]) /\ Attributes(k, i)
<1> USE DEF Attributes
<1>1. box[i] \in Boxes BY DEF DaemonTypeOK
<1>2. \A j \in Ids : j # i => box'[j] = box[j] BY EffectOn
<1>3. CASE k = "create"
  <2>1. box'[i] = Fresh BY <1>3, EffectOn
  <2> QED BY <1>2, <1>3, <2>1 DEF Fresh, Gone
<1>4. CASE k \in {"remove", "reclaim"}
  <2>1. box'[i] = Removed(box[i]) BY <1>4, EffectOn
  <2> QED BY <1>1, <1>2, <1>4, <2>1 DEF Removed, Gone
<1>5. CASE k = "start"
  <2>1. box'[i] = Started(box[i]) BY <1>5, EffectOn
  <2> QED BY <1>1, <1>2, <1>5, <2>1 DEF Started, Boxes
<1>6. CASE k = "rename"
  <2>1. box'[i] = [box[i] EXCEPT !.at = "recovery"] BY <1>6, EffectOn
  <2> QED BY <1>1, <1>2, <1>6, <2>1 DEF Boxes
<1>7. CASE k = "homeward"
  <2>1. box'[i] = [box[i] EXCEPT !.at = "home"] BY <1>7, EffectOn
  <2> QED BY <1>1, <1>2, <1>7, <2>1 DEF Boxes
<1>8. CASE k = "stop"
  <2>1. box'[i] = [box[i] EXCEPT !.up = FALSE] BY <1>8, EffectOn
  <2> QED BY <1>1, <1>2, <1>8, <2>1 DEF Boxes
<1>9. CASE k = "policy"
  <2>1. box'[i] = [box[i] EXCEPT !.policy = FALSE] BY <1>9, EffectOn
  <2> QED BY <1>1, <1>2, <1>9, <2>1 DEF Boxes
<1>10. CASE k = "repolicy"
  <2>1. box'[i] = [box[i] EXCEPT !.policy = TRUE] BY <1>10, EffectOn
  <2> QED BY <1>1, <1>2, <1>10, <2>1 DEF Boxes
<1>11. CASE k = "disconnect"
  <2>1. box'[i] = [box[i] EXCEPT !.net = FALSE] BY <1>11, EffectOn
  <2> QED BY <1>1, <1>2, <1>11, <2>1 DEF Boxes
<1>12. CASE k = "reconnect"
  <2>1. box'[i] = [box[i] EXCEPT !.net = TRUE] BY <1>12, EffectOn
  <2> QED BY <1>1, <1>2, <1>12, <2>1 DEF Boxes
<1> QED
  BY <1>3, <1>4, <1>5, <1>6, <1>7, <1>8, <1>9, <1>10, <1>11, <1>12 DEF Kinds

(***************************************************************************)
(* What any other step does to containers, by itself or late.              *)
(***************************************************************************)
Expired(i) == box[i].up /\ box' = [box EXCEPT ![i] = IF @.policy THEN Started(@) ELSE [@ EXCEPT !.up = FALSE]]
Rebooted  ==
  /\ box' = [i \in Ids |-> IF Exists(i) /\ box[i].policy /\ box[i].starts > 0
                           THEN Started(box[i]) ELSE [box[i] EXCEPT !.up = FALSE]]
  /\ late' = {}

Drift ==
  /\ UNCHANGED replacement
  /\ \A q \in Replacers : held[Lock(q)] = q => held'[Lock(q)] = q
  /\ \A k \in Kinds \ {"reclaim"}, i \in Ids : <<k, i>> \in late' => <<k, i>> \in late
  /\ \/ box' = box
     \/ Reclaiming /\ box' = Swept
     \/ \E k \in Kinds, i \in Ids :
          /\ (<<k, i>> \in late /\ <<k, i>> \notin late') \/ (k = "reclaim" /\ Reclaiming)
          /\ Accepts(k, i) /\ box' = Effect(k, i)
     \/ \E i \in Ids : Expired(i)
     \/ Rebooted

(* A step of replacement r, and what it leaves alone.                      *)
Alters(r) ==
  /\ Turn(r) /\ Testifies(r) /\ Records(r) /\ Makes(r)
  /\ rpc[r] \notin {"lock", "release"} => held' = held
  /\ \A q \in Replacers \ {r} : held[Lock(q)] = q => held'[Lock(q)] = q

LEMMA PrunesDrift ==
  ASSUME IInv, NEW p \in Pruners, PruneStep(p), UNCHANGED <<replacement, egress>>
  PROVE  Drift
<1>1. DaemonTypeOK /\ PruneTypeOK /\ ReplacementInv /\ PruneInv
  BY DEF IInv, TypeOK, Handling
<1>2. PruneEffect(p) BY <1>1, PruneSteps
<1>3. OthersKeep(p) BY <1>2 DEF PruneEffect, OthersKeep
<1>4. \A q \in Replacers : held[Lock(q)] = q => held'[Lock(q)] = q
  BY <1>3, LockFacts, ActorFacts DEF OthersKeep, Kept
<1> DEFINE Calls == \A k \in Kinds \ {"reclaim"}, i \in Ids : <<k, i>> \in late' => <<k, i>> \in late
<1>5. Calm => Calls /\ box' = box BY DEF Calm
<1>6. CASE SweepDone(p) \/ SweepLost(p)
  <2>1. \A k \in Kinds, i \in Ids : <<k, i>> # <<"sweep", p>> BY DEF Kinds
  <2>2. Calls BY <1>6, <2>1 DEF SweepDone, SweepLost
  <2>3. Reclaiming BY <1>6 DEF SweepDone, SweepLost, Reclaiming, Sweeping
  <2>4. box' = box \/ box' = Swept BY <1>6 DEF SweepDone, SweepLost
  <2> QED BY <1>4, <2>2, <2>3, <2>4 DEF Drift
<1>7. CASE Reclaim(p)
  <2>1. Reclaiming BY <1>7 DEF Reclaim, Reclaiming, Sweeping
  <2>2. PICK i \in chosen[p] : Done("reclaim", i) \/ Refused("reclaim", i) \/ Lost("reclaim", i)
    BY <1>7, Zenon DEF Reclaim
  <2>3. i \in Ids /\ "reclaim" \in Kinds BY <1>1 DEF PruneTypeOK, Kinds
  <2>4. Carried("reclaim", i) \/ Missed("reclaim", i)
    BY <2>2, CallOutcome DEF Failed
  <2>5. Calls BY <2>4 DEF Carried, Missed
  <2>6. box' = box \/ (Accepts("reclaim", i) /\ box' = Effect("reclaim", i))
    BY <2>4 DEF Carried, Missed
  <2> QED BY <1>4, <2>1, <2>3, <2>5, <2>6 DEF Drift
<1>8. CASE Calm BY <1>4, <1>5, <1>8 DEF Drift
<1> QED
  BY <1>6, <1>7, <1>8, CalmCalls
  DEF PruneStep, Request, FirstSurvey, ReserveGuard, SecondSurvey, ReclaimEnds, ReleaseGuard, PruneCrash

LEMMA EgressCalm ==
  ASSUME NEW e \in Egressers, EgressStep(e)
  PROVE  Calm
<1>1. UNCHANGED daemon \/ Glitch => Calm BY CalmCalls
<1>2. CASE ReserveTarget(e)
  <2>1. PICK c \in Next1(e) :
          Reserved(EgressSlot(c), e) \/ Conflict(EgressSlot(c)) \/ ReserveLost(EgressSlot(c), e)
    BY <1>2 DEF ReserveTarget
  <2> QED BY <2>1, CalmCalls
<1>3. CASE CloseSession(e)
  <2>1. PICK c \in job[e].open :
          UNCHANGED daemon \/ Glitch \/ Freed(EgressSlot(c)) \/ FreeFailed(EgressSlot(c))
    BY <1>3 DEF CloseSession
  <2> QED BY <2>1, CalmCalls
<1>4. Ask(e) \/ RollbackEnds(e) \/ Closed(e) \/ RemainingPolicies(e) => UNCHANGED daemon
  BY DEF Ask, RollbackEnds, Closed, RemainingPolicies
<1>5. NoPrune(e) \/ EgressCrash(e) \/ Join(e) \/ Snapshot(e) \/ Recheck(e)
        => UNCHANGED daemon \/ Glitch
  BY DEF NoPrune, EgressCrash, Join, Snapshot, Recheck, CheckFails
<1>6. Mutate(e) => UNCHANGED daemon \/ Glitch BY DEF Mutate, Ran, Exited, Unknown
<1>7. Rollback(e) => UNCHANGED daemon \/ Glitch BY DEF Rollback, Ran, Exited, Unknown
<1> QED BY <1>1, <1>2, <1>3, <1>4, <1>5, <1>6, <1>7 DEF EgressStep

LEMMA CalmDrifts ==
  ASSUME Calm, UNCHANGED replacement, NEW a, a \notin Replacers, OthersKeep(a)
  PROVE  Drift
<1>1. \A q \in Replacers : held[Lock(q)] = q => held'[Lock(q)] = q
  BY LockFacts, ActorFacts DEF OthersKeep, Kept
<1> QED BY <1>1 DEF Drift, Calm

LEMMA DaemonDrifts ==
  ASSUME DaemonTypeOK, DaemonNext, UNCHANGED replacement
  PROVE  Drift
<1>1. late' \subseteq late /\ \A t \in Slots : Kept(t) BY DaemonKeeps
<1>2. \A q \in Replacers : held[Lock(q)] = q => held'[Lock(q)] = q
  BY <1>1, LockFacts, ActorFacts DEF Kept
<1>3. CASE ExecuteLate
  <2>1. PICK call \in late :
          /\ late' = late \ {call}
          /\ \/ /\ call[1] = "reserve" /\ UNCHANGED box
             \/ call[1] = "sweep" /\ box' = Swept /\ UNCHANGED held
             \/ /\ call[1] \in Kinds /\ UNCHANGED held
                /\ box' = IF Accepts(call[1], call[2]) THEN Effect(call[1], call[2]) ELSE box
    BY <1>3, Zenon DEF ExecuteLate
  <2>2. CASE box' = box BY <1>1, <1>2, <2>2 DEF Drift
  <2>3. CASE call \in {"reserve"} \X Slots \X Actors
    <3>1. call[1] = "reserve" /\ call[1] \notin Kinds BY <2>3 DEF Kinds
    <3> QED BY <2>1, <2>2, <3>1
  <2>4. CASE call \in {"sweep"} \X Pruners
    <3>1. PICK p \in Pruners : call = <<"sweep", p>> BY <2>4
    <3>2. call[1] \notin Kinds BY <3>1 DEF Kinds
    <3>3. box' = box \/ box' = Swept BY <2>1, <3>2
    <3>4. Reclaiming BY <3>1 DEF Reclaiming, Sweeping
    <3> QED BY <1>1, <1>2, <3>3, <3>4 DEF Drift
  <2>5. CASE call \in Kinds \X Ids
    <3>1. PICK k \in Kinds, i \in Ids : call = <<k, i>> BY <2>5
    <3>2. call[1] = k /\ call[2] = i /\ k # "reserve" /\ k # "sweep" BY <3>1 DEF Kinds
    <3>3. box' = box \/ (Accepts(k, i) /\ box' = Effect(k, i)) BY <2>1, <3>2
    <3>4. <<k, i>> \in late /\ <<k, i>> \notin late' BY <2>1, <3>1
    <3> QED BY <1>1, <1>2, <3>3, <3>4 DEF Drift
  <2> QED BY <2>3, <2>4, <2>5 DEF DaemonTypeOK, Abandoned
<1>4. CASE DaemonRestart
  <2>1. Rebooted BY <1>4 DEF DaemonRestart, Rebooted
  <2> QED BY <1>1, <1>2, <2>1 DEF Drift
<1>5. ASSUME NEW i \in Ids, Exits(i) PROVE Drift
  <2>1. Expired(i) BY <1>5 DEF Exits, Expired
  <2> QED BY <1>1, <1>2, <2>1 DEF Drift
<1> QED BY <1>3, <1>4, <1>5 DEF DaemonNext

LEMMA StepCases ==
  ASSUME IInv, Survival, [Next]_vars
  PROVE  (\E r \in Replacers : Alters(r)) \/ Drift
<1>1. DaemonTypeOK /\ ReplacementTypeOK /\ ReplacementInv /\ EgressTypeOK /\ EgressInv
  BY DEF IInv, TypeOK, Handling
<1>2. CASE ReplacementNext
  <2>1. PICK r \in Replacers : ReplacementStep(r) BY <1>2 DEF ReplacementNext
  <2>2. Follows(r) /\ Knows(r) BY DEF Survival
  <2>3. Turn(r) /\ Testifies(r) /\ Records(r) /\ Makes(r)
    BY <1>1, <2>1, <2>2, ReplacementsTurn, ReplacementsTestify, ReplacementsRecord
  <2>4. rpc[r] \notin {"lock", "release"} => held' = held BY <2>1, HoldsOn
  <2>5. ReplacementEffect(r) BY <1>1, <2>1, ReplacementSteps
  <2>6. OthersKeep(r)
    BY <1>1, <2>5, LockFacts DEF ReplacementEffect, Discreet, OthersKeep, Kept, ReplacementInv, Handles
  <2>7. \A q \in Replacers \ {r} : held[Lock(q)] = q => held'[Lock(q)] = q
    BY <2>6, LockFacts, ActorFacts DEF OthersKeep, Kept
  <2> QED BY <2>3, <2>4, <2>7 DEF Alters
<1>3. CASE PruneNext /\ UNCHANGED <<replacement, egress>>
  BY <1>3, PrunesDrift DEF PruneNext
<1>4. CASE (\E e \in Egressers : EgressStep(e)) /\ UNCHANGED <<replacement, pruning>>
  <2>1. PICK e \in Egressers : EgressStep(e) BY <1>4
  <2>2. Calm /\ OthersKeep(e) BY <1>1, <2>1, EgressCalm, EgressStepsKeep DEF EgressEffect, OthersKeep
  <2> QED BY <1>4, <2>2, ActorFacts, CalmDrifts
<1>5. CASE UNCHANGED <<replacement, daemon>>
  <2>1. Calm /\ OthersKeep(NoOne) BY <1>5, CalmCalls DEF OthersKeep, Kept, daemon
  <2> QED BY <1>5, <2>1, ActorFacts, CalmDrifts
<1>6. CASE DaemonNext /\ UNCHANGED <<replacement, pruning, egress>>
  BY <1>1, <1>6, DaemonDrifts
<1>7. CASE /\ (\E c \in Names : AbandonedRuns(c)) \/ (\E q \in Policies : PolicyStep(q))
           /\ UNCHANGED <<replacement, pruning>>
  <2>1. UNCHANGED daemon BY <1>1, <1>7, Bystanders
  <2> QED BY <1>5, <1>7, <2>1
<1>8. CASE UNCHANGED vars BY <1>5, <1>8 DEF vars
<1> QED BY <1>2, <1>3, <1>4, <1>6, <1>7, <1>8 DEF Next, EgressNext

(***************************************************************************)
(* Recovery names: RecoveryIsAccounted, when no rename is carried out      *)
(* late.                                                                   *)
(***************************************************************************)
(* No call of these kinds waits to be carried out late.                    *)
Punctually(kinds) == \A k \in kinds, i \in Ids : <<k, i>> \notin late

(* The steps between which the original may carry its recovery name, and   *)
(* what the journal says when the operation ended there.                   *)
Displaced == {"stop", "disconnect", "create", "lookup", "start", "verify", "commit", "discard",
              "homeward", "remove"}
Open(r)   == rpc[r] \in Ended /\ journal[r] \in Changing \cup {"committed", "cleanup_required"}

Keeps(r, i) == Old(r) = i /\ held[Lock(r)] = r /\ (rpc[r] \in Displaced \/ Open(r))
Accounted   == \A i \in Ids : box[i].at = "recovery" => \E r \in Replacers : Keeps(r, i)

(* What was given up is only what clients may give up.                     *)
LEMMA StaysPunctual ==
  ASSUME NEW kinds, kinds \subseteq Kinds \ {"reclaim"}, kinds \cap LateCalls = {},
         Punctually(kinds), (\E r \in Replacers : Turn(r)) \/ Drift
  PROVE  Punctually(kinds)'
<1>1. ASSUME NEW k, NEW i, Carried(k, i) \/ Missed(k, i) PROVE Punctually(kinds)'
  <2> SUFFICES ASSUME NEW f \in kinds, NEW j \in Ids, <<f, j>> \in late' PROVE FALSE
    BY DEF Punctually
  <2>1. <<f, j>> \notin late BY DEF Punctually
  <2>2. <<f, j>> = <<k, i>> /\ k \in LateCalls BY <1>1, <2>1 DEF Carried, Missed
  <2>3. f = k BY <2>2
  <2> QED BY <2>2, <2>3
<1>2. Calm => Punctually(kinds)' BY DEF Calm, Punctually
<1>3. Drift => Punctually(kinds)' BY DEF Drift, Punctually
<1>4. ASSUME NEW r \in Replacers, Turn(r) PROVE Punctually(kinds)'
  <2> QED BY <1>1, <1>2, <1>4 DEF Turn, Advance, Creates, Retires, Retreat, Passes, Goes
<1> QED BY <1>3, <1>4

(* A call gives a container its recovery name only if it is the rename.    *)
LEMMA CallsAndNames ==
  ASSUME DaemonTypeOK, NEW k \in Kinds \ {"rename"}, NEW i \in Ids, Carried(k, i) \/ Missed(k, i)
  PROVE  \A j \in Ids : box'[j].at = "recovery" => box[j].at = "recovery"
<1>1. CASE box' = Effect(k, i)
  <2>1. (\A j \in Ids : j # i => box'[j] = box[j]) /\ Attributes(k, i) BY <1>1, EffectFields
  <2> QED BY <2>1 DEF Attributes
<1>2. CASE box' = box BY <1>2
<1> QED BY <1>1, <1>2 DEF Carried, Missed

LEMMA TurnsAndNames ==
  ASSUME DaemonTypeOK, NEW r \in Replacers, Turn(r), rpc[r] # "idle" => Old(r) \in Ids
  PROVE  \A j \in Ids : box'[j].at = "recovery" =>
           \/ box[j].at = "recovery"
           \/ j = Old(r) /\ rpc[r] = "rename" /\ rpc'[r] \in {"stop", "discard"}
<1>1. r \in Ids BY LockFacts
<1>2. {"policy", "stop", "start", "disconnect", "create", "remove", "homeward", "reconnect", "repolicy"}
        \subseteq Kinds \ {"rename"}
  BY DEF Kinds
<1>3. Calm => \A j \in Ids : box'[j].at = box[j].at BY DEF Calm
<1>4. CASE Goes(r, "rename", "rename", Old(r), "stop", "discard")
  <2>1. Old(r) \in Ids /\ "rename" \in Kinds BY <1>4 DEF Goes, Kinds
  <2>2. CASE box' = Effect("rename", Old(r))
    <3>1. \A j \in Ids : j # Old(r) => box'[j] = box[j] BY <2>1, <2>2, EffectFields
    <3> QED BY <1>4, <3>1 DEF Goes
  <2>3. CASE box' = box BY <2>3
  <2> QED BY <1>4, <2>2, <2>3 DEF Goes, Carried, Missed
<1>5. CASE Advance(r) BY <1>1, <1>2, <1>4, <1>5, CallsAndNames DEF Advance, Goes
<1>6. CASE Creates(r) BY <1>1, <1>2, <1>6, CallsAndNames DEF Creates
<1>7. CASE Retires(r) BY <1>1, <1>2, <1>7, CallsAndNames DEF Retires
<1>8. CASE Retreat(r) BY <1>1, <1>2, <1>8, CallsAndNames DEF Retreat, Goes
<1>9. CASE Passes(r) BY <1>3, <1>9 DEF Passes
<1> QED BY <1>5, <1>6, <1>7, <1>8, <1>9 DEF Turn

LEMMA DriftAndNames ==
  ASSUME DaemonTypeOK, Punctually({"rename"}), Drift
  PROVE  \A j \in Ids : box'[j].at = "recovery" => box[j].at = "recovery"
<1>1. CASE box' = Swept
  <2>1. \A j \in Ids : Swept[j] \in {box[j], Removed(box[j])} BY DEF Swept
  <2>2. \A j \in Ids : Removed(box[j]).at = "gone" BY DEF Removed, Gone
  <2> QED BY <1>1, <2>1, <2>2
<1>2. ASSUME NEW k \in Kinds, NEW i \in Ids, <<k, i>> \in late \/ k = "reclaim", box' = Effect(k, i)
      PROVE  \A j \in Ids : box'[j].at = "recovery" => box[j].at = "recovery"
  <2>1. k # "rename" BY <1>2 DEF Punctually
  <2>2. (\A j \in Ids : j # i => box'[j] = box[j]) /\ Attributes(k, i) BY <1>2, EffectFields
  <2> QED BY <2>1, <2>2 DEF Attributes
<1>3. \A b \in Boxes : Started(b).at = b.at /\ [b EXCEPT !.up = FALSE].at = b.at
  BY DEF Started, Boxes
<1>4. CASE \E i \in Ids : Expired(i)
  <2>1. \A j \in Ids : box'[j] \in {box[j], Started(box[j]), [box[j] EXCEPT !.up = FALSE]}
    BY <1>4 DEF Expired, DaemonTypeOK
  <2> QED BY <1>3, <2>1 DEF DaemonTypeOK
<1>5. CASE Rebooted
  <2>1. \A j \in Ids : box'[j] \in {Started(box[j]), [box[j] EXCEPT !.up = FALSE]}
    BY <1>5 DEF Rebooted
  <2> QED BY <1>3, <2>1 DEF DaemonTypeOK
<1> QED BY <1>1, <1>2, <1>4, <1>5 DEF Drift

(* A replacement keeps what it accounts for until the name is given back   *)
(* or the container is gone.                                               *)
LEMMA KeeperGoesOn ==
  ASSUME DaemonTypeOK, NEW r \in Replacers, Alters(r), Follows(r),
         NEW i \in Ids, Keeps(r, i), box[i].at = "recovery", box'[i].at = "recovery"
  PROVE  Keeps(r, i)'
<1>1. Displaced \subseteq Repairing \cup {"remove"} BY StepFacts DEF Displaced
<1>2. rpc[r] \notin {"idle", "done", "crashed", "lock"}
  BY StepFacts DEF Alters, Records, Keeps, Open, Displaced, Ended
<1>3. Old(r)' = i BY <1>2 DEF Alters, Records, Keeps, Old
<1>4. held'[Lock(r)] = r
  <2>1. CASE rpc[r] = "release"
    <3>1. journal[r] \notin Settled BY <2>1, PhaseFacts DEF Keeps, Open, Displaced
    <3> QED BY <2>1, <3>1 DEF Alters, Records, Keeps
  <2>2. CASE rpc[r] # "release" BY <1>2, <2>2 DEF Alters, Keeps
  <2> QED BY <2>1, <2>2
<1> DEFINE Left == journal'[r] \in Changing \cup {"committed", "cleanup_required"}
<1>5. CASE rpc'[r] \in {"done", "crashed"}
  <2>1. rpc[r] \in Displaced => Left BY <1>1, <1>5 DEF Alters, Testifies
  <2>2. rpc[r] = "release" => Left
    <3>1. rpc[r] = "release" => journal[r] \in Changing \cup {"committed", "cleanup_required"}
      BY DEF Keeps, Open, Displaced
    <3> QED BY <1>5, <3>1, StepFacts DEF Alters, Testifies
  <2>3. Left BY <1>2, <2>1, <2>2 DEF Keeps, Open, Ended
  <2> QED BY <1>3, <1>4, <1>5, <2>3 DEF Keeps, Open, Ended, Lock
<1>6. CASE rpc'[r] \notin {"done", "crashed"}
  <2>1. rpc[r] \in Displaced
    <3>1. rpc[r] # "release" BY <1>6 DEF Alters, Records, Turn, Advance, Creates, Retires, Retreat,
                                          Passes, Goes, Hop, Early
    <3> QED BY <1>2, <3>1 DEF Keeps, Open, Ended
  <2>2. ASSUME Carried("homeward", i) \/ Carried("remove", i) PROVE FALSE
    <3>1. {"homeward", "remove"} \subseteq Kinds BY DEF Kinds
    <3>2. Attributes("homeward", i) \/ Attributes("remove", i)
      BY <2>2, <3>1, EffectFields DEF Carried
    <3> QED BY <3>2 DEF Attributes
  <2>3. CASE Retires(r)
    <3>1. rpc'[r] = "release" /\ journal'[r] \in {"committed", "cleanup_required"}
      BY <2>2, <2>3 DEF Retires, Keeps
    <3> QED BY <1>3, <1>4, <3>1 DEF Keeps, Open, Ended, Lock
  <2>4. CASE rpc'[r] \in Displaced BY <1>3, <1>4, <2>4 DEF Keeps, Lock
  <2>5. Advance(r) \/ Creates(r) => rpc'[r] \in Displaced
    BY <2>1 DEF Advance, Creates, Goes, Displaced
  <2>6. Retreat(r) => rpc'[r] \in Displaced
    BY <1>6, <2>1, <2>2 DEF Retreat, Goes, Displaced, Keeps
  <2>7. Passes(r) => rpc'[r] \in Displaced
    BY <1>6, <2>1 DEF Passes, Hop, Displaced, Keeps, Early
  <2> QED BY <2>3, <2>4, <2>5, <2>6, <2>7 DEF Alters, Turn
<1> QED BY <1>5, <1>6

LEMMA OthersKeepNames ==
  ASSUME NEW q \in Replacers, NEW i \in Ids, Keeps(q, i),
         rpc'[q] = rpc[q], op'[q] = op[q], journal'[q] = journal[q],
         held[Lock(q)] = q => held'[Lock(q)] = q
  PROVE  Keeps(q, i)'
BY DEF Keeps, Open, Old, Lock

LEMMA StepAccounts ==
  ASSUME IInv, Survival, Punctually({"rename"}), Accounted, [Next]_vars
  PROVE  Accounted'
<1>1. DaemonTypeOK /\ ReplacementTypeOK /\ ReplacementInv BY DEF IInv, TypeOK, Handling
<1>2. ASSUME NEW r \in Replacers, Alters(r) PROVE Accounted'
  <2>1. Follows(r) /\ Knows(r) BY DEF Survival
  <2> SUFFICES ASSUME NEW i \in Ids, box'[i].at = "recovery"
               PROVE  \E q \in Replacers : Keeps(q, i)'
    BY DEF Accounted
  <2>2. \/ box[i].at = "recovery"
        \/ i = Old(r) /\ rpc[r] = "rename" /\ rpc'[r] \in {"stop", "discard"}
    BY <1>1, <1>2, <2>1, TurnsAndNames DEF Alters, Knows
  <2>3. CASE box[i].at = "recovery"
    <3>1. PICK q \in Replacers : Keeps(q, i) BY <2>3 DEF Accounted
    <3>2. CASE q = r BY <1>1, <1>2, <2>1, <2>3, <3>1, <3>2, KeeperGoesOn
    <3>3. CASE q # r BY <1>2, <3>1, <3>3, OthersKeepNames DEF Alters, Records
    <3> QED BY <3>2, <3>3
  <2>4. CASE i = Old(r) /\ rpc[r] = "rename" /\ rpc'[r] \in {"stop", "discard"}
    <3>1. "rename" \in Repairing BY StepFacts
    <3>2. held[Lock(r)] = r BY <2>4, <3>1, <2>1 DEF Follows, Survival, Retains
    <3>3. held' = held BY <1>2, <2>4 DEF Alters
    <3>4. Old(r)' = i BY <1>2, <2>4 DEF Alters, Records, Old
    <3> QED BY <2>4, <3>2, <3>3, <3>4 DEF Keeps, Displaced, Lock
  <2> QED BY <2>2, <2>3, <2>4
<1>3. CASE Drift
  <2> SUFFICES ASSUME NEW i \in Ids, box'[i].at = "recovery"
               PROVE  \E q \in Replacers : Keeps(q, i)'
    BY DEF Accounted
  <2>1. box[i].at = "recovery" BY <1>1, <1>3, DriftAndNames
  <2>2. PICK q \in Replacers : Keeps(q, i) BY <2>1 DEF Accounted
  <2> QED BY <1>3, <2>2, OthersKeepNames DEF Drift, replacement
<1> QED BY <1>2, <1>3, StepCases

LEMMA InitAccounts == Init => Accounted /\ \A kinds : Punctually(kinds)
<1> SUFFICES ASSUME Init PROVE Accounted /\ \A kinds : Punctually(kinds) OBVIOUS
<1>1. late = {} /\ \A i \in Ids : box[i] \in {Gone, Fresh, Started(Fresh)} BY DEF Init, DaemonInit
<1>2. Gone.at = "gone" /\ Fresh.at = "home" /\ Started(Fresh).at = "home" BY DEF Gone, Fresh, Started
<1> QED BY <1>1, <1>2 DEF Accounted, Punctually

(* A container under a recovery name belongs to a replacement that holds   *)
(* the reservation and whose journal tells what it is, on any number of    *)
(* containers and whatever else is lost, late or crashed, provided that    *)
(* the daemon carries out no rename after its client was told it failed.   *)
THEOREM RecoveriesAreAccounted ==
  "rename" \notin LateCalls => (Spec => []RecoveryIsAccounted)
<1> SUFFICES ASSUME "rename" \notin LateCalls PROVE Spec => []RecoveryIsAccounted OBVIOUS
<1>1. Survival /\ Accounted => RecoveryIsAccounted
  <2> SUFFICES ASSUME Survival, NEW i \in Ids, NEW r \in Replacers, Keeps(r, i)
               PROVE  journal[r] \in Changing \cup {"committed", "cleanup_required"}
    BY DEF Accounted, RecoveryIsAccounted, Keeps
  <2>1. Displaced \subseteq Repairing \cup {"remove"} BY StepFacts DEF Displaced
  <2> QED BY <2>1 DEF Keeps, Open, Survival, Follows
<1> DEFINE Inv == IInv /\ Survival /\ Punctually({"rename"}) /\ Accounted
<1>2. Init => Inv BY InitHolds, InitSurvives, InitAccounts
<1>3. Inv /\ [Next]_vars => Inv'
  <2> SUFFICES ASSUME Inv, [Next]_vars PROVE Inv' OBVIOUS
  <2>1. IInv' /\ Survival' /\ Accounted' BY StepHolds, StepSurvives, StepAccounts
  <2>2. {"rename"} \subseteq Kinds \ {"reclaim"} BY DEF Kinds
  <2>3. Punctually({"rename"})' BY <2>2, StepCases, StaysPunctual DEF Alters
  <2> QED BY <2>1, <2>3
<1>4. Inv => RecoveryIsAccounted BY <1>1
<1> HIDE DEF Inv
<1> QED BY <1>2, <1>3, <1>4, PTL DEF Spec

(***************************************************************************)
(* One writer: OneWriter, whatever is carried out late.                    *)
(***************************************************************************)
(* A container runs, or may without another request.                       *)
CanRun(i) ==
  /\ Exists(i)
  /\ \/ box[i].up \/ <<"start", i>> \in late
     \/ box[i].starts > 0 /\ (box[i].policy \/ <<"repolicy", i>> \in late)

OneLive    == \A i, j \in Ids : i # j /\ Home(i) = Home(j) => ~(CanRun(i) /\ CanRun(j))
GoneIsDown == \A i \in Ids : box[i].up => Exists(i)

(* Calls that start a container, bring it back or remove it.               *)
Belated == {"start", "repolicy", "homeward", "reconnect", "remove"}

(* A candidate that was not created yet, or may be created late.           *)
Before  == {"idle", "policy", "rename", "stop", "disconnect", "create"} \cup Early
Newborn(r) ==
  /\ rpc[r] \in Before \/ <<"create", r>> \in late =>
       /\ ~Exists(r) /\ (\A k \in Belated : <<k, r>> \notin late)
       /\ \A q \in Replacers : Old(q) # r
  /\ rpc[r] \in Before => <<"create", r>> \notin late

(* A candidate runs from its start to its removal only.                    *)
Resting(r) == \/ rpc[r] \in Before \cup {"lookup", "homeward", "reconnect", "repolicy", "restart"}
              \/ rpc[r] = "discard" /\ ~op[r].cand
Dormant(r) == /\ rpc[r] \in {"start", "verify", "commit"} => op[r].cand
              /\ Resting(r) => ~CanRun(r)

(* The original is taken out of service before the candidate is started.   *)
Retired(r) ==
  /\ rpc[r] \in {"rename", "stop", "disconnect", "create", "start"} => ~box[Old(r)].policy
  /\ rpc[r] \in {"disconnect", "create", "start"} /\ Was(r).up => ~box[Old(r)].up

(* Whoever may start something finds nothing else of the name running.     *)
Entitled(r) == CanRun(Old(r)) \/ Was(r).up \/ (Was(r).policy /\ box[Old(r)].starts > 0)
Sole(r)     == rpc[r] \in Repairing /\ Entitled(r) =>
  \A j \in Ids : Home(j) = Target[r] /\ j # r /\ j # Old(r) => ~CanRun(j)

(* When such a call was given up, its replacement keeps the reservation,   *)
(* for ever unless it is about to remove the container.                    *)
Awaits(r, i) ==
  /\ held[Lock(r)] = r /\ Home(i) = Target[r]
  /\ \/ rpc[r] = "discard" /\ i = r /\ op[r].cand
     \/ Open(r)
Awaited ==
  \A k \in Belated, i \in Ids : <<k, i>> \in late /\ Exists(i) => \E r \in Replacers : Awaits(r, i)

Singly ==
  /\ \A r \in Replacers : Newborn(r) /\ Dormant(r) /\ Retired(r) /\ Sole(r)
  /\ OneLive /\ GoneIsDown /\ Awaited
  /\ \A i \in Ids : <<"create", i>> \in late => i \in Replacers

(* A step leaves container j, and what is asked of it, alone.              *)
Spares(j) == box'[j] = box[j] /\ \A k \in Kinds : <<k, j>> \in late' <=> <<k, j>> \in late

LEMMA SparedStays ==
  ASSUME NEW j \in Ids, Spares(j) PROVE (Exists(j)' <=> Exists(j)) /\ (CanRun(j)' <=> CanRun(j))
<1>1. "start" \in Kinds /\ "repolicy" \in Kinds BY DEF Kinds
<1> QED BY <1>1 DEF Spares, Exists, CanRun

LEMMA CallsSpare ==
  ASSUME DaemonTypeOK, NEW k \in Kinds, NEW i \in Ids, Carried(k, i) \/ Missed(k, i)
  PROVE  \A j \in Ids \ {i} : Spares(j)
<1> SUFFICES ASSUME NEW j \in Ids \ {i} PROVE Spares(j) OBVIOUS
<1>1. box'[j] = box[j] BY EffectFields DEF Carried, Missed
<1>2. \A f \in Kinds : <<f, j>> # <<k, i>> OBVIOUS
<1>3. late' = late \/ late' = late \cup {<<k, i>>} BY DEF Carried, Missed
<1> QED BY <1>1, <1>2, <1>3 DEF Spares

(* Calls can start a container in three ways.                              *)
LEMMA CallsWake ==
  ASSUME DaemonTypeOK, GoneIsDown, NEW k \in Kinds, NEW i \in Ids, Carried(k, i) \/ Missed(k, i), CanRun(i)'
  PROVE  \/ CanRun(i) \/ k = "start" \/ (k = "repolicy" /\ box[i].starts > 0)
         \/ k = "create" /\ <<"start", i>> \in late
<1>1. CASE Missed(k, i)
  <2>1. <<"start", i>> \in late' => <<"start", i>> \in late \/ k = "start" BY <1>1 DEF Missed
  <2>2. <<"repolicy", i>> \in late' => <<"repolicy", i>> \in late \/ k = "repolicy" BY <1>1 DEF Missed
  <2> QED BY <1>1, <2>1, <2>2 DEF Missed, CanRun, Exists
<1>2. CASE Carried(k, i)
  <2>1. Attributes(k, i) /\ late' = late /\ Accepts(k, i) BY <1>2, EffectFields DEF Carried
  <2>2. CASE k = "create" BY <2>1, <2>2 DEF Attributes, CanRun, Exists
  <2>3. CASE k \in {"remove", "reclaim"} BY <2>1, <2>3 DEF Attributes, CanRun, Exists
  <2>4. Exists(i) \/ k = "create" BY <2>1 DEF Accepts, GoneIsDown, Kinds
  <2>5. CASE k \in {"rename", "homeward", "stop", "policy", "disconnect", "reconnect"}
    BY <2>1, <2>4, <2>5 DEF Attributes, CanRun, Exists
  <2>6. CASE k = "repolicy" BY <2>1, <2>4, <2>6 DEF Attributes, CanRun, Exists
  <2> QED BY <2>2, <2>3, <2>5, <2>6 DEF Kinds
<1> QED BY <1>1, <1>2

(* What a step of r spares, and what it can start.                         *)
Rouses(r) ==
  /\ \A j \in Ids : Spares(j) \/ (rpc[r] \in Repairing \cup {"remove"} /\ j \in {r, Old(r)})
  /\ CanRun(r)' => CanRun(r) \/ (rpc[r] = "start" /\ Was(r).up)
  /\ \A i \in Ids : i = Old(r) /\ rpc[r] # "idle" /\ CanRun(i)' =>
       \/ CanRun(i) \/ (rpc[r] = "restart" /\ Was(r).up)
       \/ rpc[r] = "repolicy" /\ Was(r).policy /\ box[i].starts > 0

LEMMA TurnsRouse ==
  ASSUME DaemonTypeOK, GoneIsDown, NEW r \in Replacers, Newborn(r), Turn(r),
         rpc[r] # "idle" => Old(r) \in Ids /\ Old(r) # r
  PROVE  Rouses(r)
<1>1. r \in Ids /\ "start" \in Belated BY LockFacts DEF Belated
<1>2. {"policy", "stop", "start", "disconnect", "create", "remove", "homeward", "reconnect", "repolicy", "rename"}
        \subseteq Kinds
  BY DEF Kinds
<1>3. {"policy", "rename", "stop", "disconnect", "create", "lookup", "start", "verify", "commit",
       "discard", "homeward", "reconnect", "repolicy", "restart", "reverify"} = Repairing
  BY StepFacts
<1>4. ASSUME Calm PROVE Rouses(r)
  <2>1. \A j \in Ids : Spares(j) BY <1>4 DEF Calm, Spares
  <2> QED BY <1>1, <2>1, SparedStays DEF Rouses
<1>5. ASSUME NEW k \in Kinds \ {"start", "repolicy", "create"}, NEW i \in {r, Old(r)},
             Carried(k, i) \/ Missed(k, i), rpc[r] \in Repairing \cup {"remove"}
      PROVE  Rouses(r)
  <2>1. i \in Ids BY <1>1, <1>3, <1>5
  <2>2. \A j \in Ids \ {i} : Spares(j) BY <1>5, <2>1, CallsSpare
  <2>3. CanRun(i)' => CanRun(i) BY <1>5, <2>1, CallsWake
  <2> QED BY <1>1, <1>5, <2>1, <2>2, <2>3, SparedStays DEF Rouses
<1>6. ASSUME Carried("start", r) \/ Missed("start", r), rpc[r] = "start", Was(r).up
      PROVE  Rouses(r)
  <2>1. \A j \in Ids \ {r} : Spares(j) BY <1>1, <1>2, <1>6, CallsSpare
  <2> QED BY <1>1, <1>3, <1>6, <2>1, SparedStays DEF Rouses
<1>7. ASSUME Carried("create", r) \/ Missed("create", r), rpc[r] = "create"
      PROVE  Rouses(r)
  <2>1. \A j \in Ids \ {r} : Spares(j) BY <1>1, <1>2, <1>7, CallsSpare
  <2>2. CanRun(r)' => CanRun(r) BY <1>1, <1>2, <1>7, CallsWake DEF Newborn, Before
  <2> QED BY <1>1, <1>3, <1>7, <2>1, <2>2, SparedStays DEF Rouses
<1>8. ASSUME Carried("repolicy", Old(r)) \/ Missed("repolicy", Old(r)), rpc[r] = "repolicy", Was(r).policy
      PROVE  Rouses(r)
  <2>1. Old(r) \in Ids /\ Old(r) # r BY <1>8
  <2>2. \A j \in Ids \ {Old(r)} : Spares(j) BY <1>2, <1>8, <2>1, CallsSpare
  <2>3. \A i \in Ids : i = Old(r) /\ CanRun(i)' => CanRun(i) \/ box[i].starts > 0
    BY <1>2, <1>8, CallsWake
  <2> QED BY <1>1, <1>3, <1>8, <2>1, <2>2, <2>3, SparedStays DEF Rouses
<1>9. ASSUME Carried("start", Old(r)) \/ Missed("start", Old(r)), rpc[r] = "restart", Was(r).up
      PROVE  Rouses(r)
  <2>1. Old(r) \in Ids /\ Old(r) # r BY <1>9
  <2>2. \A j \in Ids \ {Old(r)} : Spares(j) BY <1>2, <1>9, <2>1, CallsSpare
  <2> QED BY <1>1, <1>3, <1>9, <2>1, <2>2, SparedStays DEF Rouses
<1>10. CASE Advance(r)
  <2>1. rpc[r] \in Repairing \cup {"remove"} BY <1>3, <1>10 DEF Advance, Goes
  <2>2. {"policy", "rename", "stop", "disconnect"} \subseteq Kinds \ {"start", "repolicy", "create"}
    BY <1>2
  <2> QED BY <1>5, <1>6, <1>10, <2>1, <2>2 DEF Advance, Goes
<1>11. CASE Creates(r) BY <1>7, <1>11 DEF Creates
<1>12. CASE Retires(r) BY <1>2, <1>5, <1>12 DEF Retires
<1>13. CASE Retreat(r)
  <2>1. rpc[r] \in Repairing \cup {"remove"} BY <1>3, <1>13 DEF Retreat, Goes
  <2>2. {"policy", "remove", "homeward", "reconnect"} \subseteq Kinds \ {"start", "repolicy", "create"}
    BY <1>2
  <2> QED BY <1>5, <1>8, <1>9, <1>13, <2>1, <2>2 DEF Retreat, Goes
<1>14. CASE Passes(r) BY <1>4, <1>14 DEF Passes
<1> QED BY <1>10, <1>11, <1>12, <1>13, <1>14 DEF Turn

(* Nothing starts by itself that could not run before.                     *)
LEMMA DriftWakesNone ==
  ASSUME DaemonTypeOK, Singly, Drift, NEW j \in Ids, CanRun(j)' PROVE CanRun(j)
<1>1. /\ <<"start", j>> \in late' => <<"start", j>> \in late
      /\ <<"repolicy", j>> \in late' => <<"repolicy", j>> \in late
  <2>1. {"start", "repolicy"} \subseteq Kinds \ {"reclaim"} BY DEF Kinds
  <2> QED BY <2>1 DEF Drift
<1>2. GoneIsDown /\ box[j] \in Boxes BY DEF Singly, DaemonTypeOK
<1>3. CASE box'[j] = box[j] BY <1>1, <1>3 DEF CanRun, Exists
<1>4. CASE box'[j] = Removed(box[j]) BY <1>4 DEF CanRun, Exists, Removed, Gone
<1>5. CASE box'[j] = Started(box[j]) /\ CanRun(j) BY <1>5
<1>6. CASE box'[j] = [box[j] EXCEPT !.up = FALSE]
  <2>1. /\ ~box'[j].up /\ box'[j].at = box[j].at
        /\ box'[j].policy = box[j].policy /\ box'[j].starts = box[j].starts
    BY <1>2, <1>6 DEF Boxes
  <2> QED BY <1>1, <2>1 DEF CanRun, Exists
<1>7. CASE box' = Swept BY <1>3, <1>4, <1>7 DEF Swept
<1>8. ASSUME NEW k \in Kinds, NEW i \in Ids, Accepts(k, i), box' = Effect(k, i),
             (<<k, i>> \in late /\ <<k, i>> \notin late') \/ k = "reclaim"
      PROVE  CanRun(j)
  <2>1. CASE j # i
    <3>1. box'[j] = box[j] BY <1>8, <2>1, EffectFields
    <3> QED BY <1>3, <3>1
  <2>2. CASE j = i
    <3>1. Attributes(k, j) BY <1>8, <2>2, EffectFields
    <3>2. CASE k \in {"remove", "reclaim"} BY <3>1, <3>2 DEF Attributes, CanRun, Exists
    <3>3. CASE k = "create"
      <4>1. <<"create", j>> \in late BY <1>8, <2>2, <3>3
      <4>2. <<"start", j>> \notin late BY <4>1 DEF Singly, Newborn, Belated
      <4> QED BY <1>1, <3>1, <3>3, <4>2 DEF Attributes, CanRun, Exists
    <3>4. CASE k \notin {"create", "remove", "reclaim"}
      <4>1. Exists(j) BY <1>2, <1>8, <2>2, <3>4 DEF Accepts, GoneIsDown, Kinds
      <4>2. CASE k = "start" BY <1>8, <2>2, <4>1, <4>2 DEF CanRun
      <4>3. CASE k = "repolicy" BY <1>1, <1>8, <2>2, <3>1, <4>1, <4>3 DEF Attributes, CanRun, Exists
      <4>4. CASE k \notin {"start", "repolicy"} BY <1>1, <3>1, <3>4, <4>1, <4>4 DEF Attributes, CanRun, Exists
      <4> QED BY <4>2, <4>3, <4>4
    <3> QED BY <3>2, <3>3, <3>4
  <2> QED BY <2>1, <2>2
<1>9. ASSUME NEW i \in Ids, Expired(i) PROVE CanRun(j)
  <2>1. CASE j # i
    <3>1. box'[j] = box[j] BY <1>9, <2>1 DEF Expired, DaemonTypeOK
    <3> QED BY <1>3, <3>1
  <2>2. CASE j = i BY <1>2, <1>9, <2>2 DEF Expired, CanRun, GoneIsDown
  <2> QED BY <2>1, <2>2
<1>10. CASE Rebooted
  <2>1. CASE Exists(j) /\ box[j].policy /\ box[j].starts > 0 BY <2>1 DEF CanRun
  <2>2. CASE ~(Exists(j) /\ box[j].policy /\ box[j].starts > 0)
    <3>1. box'[j] = [box[j] EXCEPT !.up = FALSE] BY <1>10, <2>2 DEF Rebooted
    <3> QED BY <1>6, <3>1
  <2> QED BY <2>1, <2>2
<1> QED BY <1>3, <1>7, <1>8, <1>9, <1>10 DEF Drift

(* Calls of a replacement that are given up and would start a container,   *)
(* bring it back or remove it.                                             *)
Postpones(r) ==
  \A k \in Belated, i \in Ids : <<k, i>> \in late' /\ <<k, i>> \notin late =>
    /\ Exists(i) /\ held' = held
    /\ \/ i = r /\ rpc[r] = "start" /\ rpc'[r] = "discard" /\ Unaltered(r)
       \/ i \in {r, Old(r)} /\ rpc[r] \in Backward /\ rpc'[r] = "done"
       \/ /\ i = Old(r) /\ rpc[r] = "remove" /\ rpc'[r] = "release"
          /\ journal'[r] \in {"committed", "cleanup_required"}

LEMMA TurnsPostpone ==
  ASSUME GoneIsDown, NEW r \in Replacers, Alters(r), rpc[r] # "idle" => Old(r) \in Ids /\ Old(r) # r
  PROVE  Postpones(r)
<1> SUFFICES ASSUME NEW k \in Belated, NEW i \in Ids, <<k, i>> \in late', <<k, i>> \notin late
             PROVE  /\ Exists(i) /\ held' = held
                    /\ \/ i = r /\ rpc[r] = "start" /\ rpc'[r] = "discard" /\ Unaltered(r)
                       \/ i \in {r, Old(r)} /\ rpc[r] \in Backward /\ rpc'[r] = "done"
                       \/ /\ i = Old(r) /\ rpc[r] = "remove" /\ rpc'[r] = "release"
                          /\ journal'[r] \in {"committed", "cleanup_required"}
  BY DEF Postpones
<1>1. ASSUME NEW f, NEW j, Carried(f, j) \/ Missed(f, j)
      PROVE  f = k /\ j = i /\ Accepts(k, i)
  <2>1. <<f, j>> = <<k, i>> /\ Accepts(f, j) BY <1>1 DEF Carried, Missed
  <2> QED BY <2>1
<1>2. ASSUME Accepts(k, i) PROVE Exists(i) BY <1>2 DEF Accepts, Belated
<1>3. ~Calm BY DEF Calm, Kinds, Belated
<1>4. ~Creates(r) /\ ~Passes(r)
  BY <1>1, <1>3 DEF Creates, Passes, Belated
<1>5. ASSUME NEW s, NEW f, NEW j, NEW t, NEW u, Goes(r, s, f, j, t, u)
      PROVE  f = k /\ j = i /\ Exists(i) /\ rpc[r] = s /\ rpc'[r] = u
  <2>1. ~Carried(f, j) BY DEF Carried
  <2> QED BY <1>1, <1>2, <1>5, <2>1 DEF Goes
<1>6. CASE Advance(r)
  <2>1. i = r /\ rpc[r] = "start" /\ rpc'[r] = "discard" /\ Unaltered(r) /\ Exists(i)
    BY <1>5, <1>6 DEF Advance, Belated
  <2> QED BY <2>1 DEF Alters
<1>7. CASE Retreat(r)
  <2>1. i \in {r, Old(r)} /\ rpc[r] \in Backward /\ rpc'[r] = "done" /\ Exists(i)
    BY <1>5, <1>7 DEF Retreat, Belated, Backward
  <2>2. rpc[r] \notin {"lock", "release"} BY <2>1 DEF Backward
  <2> QED BY <2>1, <2>2 DEF Alters
<1>8. CASE Retires(r)
  <2>1. Missed("remove", Old(r)) BY <1>8 DEF Retires, Carried
  <2>2. i = Old(r) /\ Exists(i) BY <1>1, <1>2, <2>1
  <2>3. /\ rpc[r] = "remove" /\ rpc'[r] = "release" /\ journal'[r] \in {"committed", "cleanup_required"}
    BY <1>8 DEF Retires, Carried
  <2> QED BY <2>2, <2>3 DEF Alters
<1> QED BY <1>4, <1>6, <1>7, <1>8 DEF Alters, Turn

(* A replacement at work holds the reservation, and others leave what has  *)
(* the name alone.                                                         *)
LEMMA WorkerHolds ==
  ASSUME IInv, Survival, NEW r \in Replacers, rpc[r] \in Repairing \cup {"remove"}
  PROVE  held[Lock(r)] = r /\ Old(r) \in Ids /\ Home(Old(r)) = Target[r] /\ Old(r) # r
<1>1. rpc[r] # "idle" /\ rpc[r] \in Locked BY StepFacts DEF Ended
<1> QED BY <1>1 DEF IInv, Handling, ReplacementInv, Handles, Survival, Knows

LEMMA OthersSpare ==
  ASSUME IInv, Survival, NEW q \in Replacers, Rouses(q), NEW r \in Replacers, q # r,
         held[Lock(r)] = r, NEW j \in Ids, Home(j) = Target[r]
  PROVE  Spares(j)
<1> SUFFICES ASSUME rpc[q] \in Repairing \cup {"remove"}, j \in {q, Old(q)} PROVE FALSE
  BY DEF Rouses
<1>1. held[Lock(q)] = q /\ Home(Old(q)) = Target[q] BY WorkerHolds
<1>2. Target[q] = Target[r] BY <1>1, CandidateHome
<1> QED BY <1>1, <1>2, OneHolder

LEMMA AlterFacts ==
  ASSUME IInv, Survival, Singly, NEW r \in Replacers, Alters(r)
  PROVE  /\ DaemonTypeOK /\ ReplacementTypeOK /\ GoneIsDown /\ r \in Ids /\ Home(r) = Target[r]
         /\ Follows(r) /\ Knows(r) /\ Retains(r) /\ Newborn(r) /\ Dormant(r) /\ Retired(r) /\ Sole(r)
         /\ Rouses(r) /\ Postpones(r)
<1>1. DaemonTypeOK /\ ReplacementTypeOK /\ GoneIsDown BY DEF IInv, TypeOK, Singly
<1>2. Follows(r) /\ Knows(r) /\ Retains(r) BY DEF Survival
<1>3. Newborn(r) /\ Dormant(r) /\ Retired(r) /\ Sole(r) BY DEF Singly
<1>4. rpc[r] # "idle" => Old(r) \in Ids /\ Old(r) # r BY <1>2 DEF Knows
<1>5. Rouses(r) /\ Postpones(r) BY <1>1, <1>3, <1>4, TurnsRouse, TurnsPostpone DEF Alters
<1> QED BY <1>1, <1>2, <1>3, <1>5, CandidateHome

(* Nothing waits to start a container of a name that is being worked on.   *)
LEMMA NoLateStart ==
  ASSUME Awaited, NEW r \in Replacers, held[Lock(r)] = r,
         rpc[r] \in Repairing \cup {"remove"}, rpc[r] # "discard",
         NEW i \in Ids, Home(i) = Target[r], Exists(i), NEW k \in Belated
  PROVE  <<k, i>> \notin late
<1> SUFFICES ASSUME <<k, i>> \in late PROVE FALSE OBVIOUS
<1>1. PICK q \in Replacers : Awaits(q, i) BY DEF Awaited
<1>2. q = r BY <1>1, OneHolder DEF Awaits
<1> QED BY <1>1, <1>2, StepFacts DEF Awaits, Open

LEMMA BeforeFacts ==
  /\ Before \cap {"lookup", "start", "verify", "commit", "discard", "homeward", "reconnect", "repolicy",
                  "restart", "reverify", "remove", "release", "done", "crashed"} = {}
  /\ \A r \in Replacers : Turn(r) /\ rpc'[r] \in Before => rpc[r] \in Before
<1>1. Before \cap {"lookup", "start", "verify", "commit", "discard", "homeward", "reconnect", "repolicy",
                  "restart", "reverify", "remove", "release", "done", "crashed"} = {}
  BY DEF Before, Early
<1>2. ASSUME NEW r \in Replacers, Turn(r), rpc[r] \notin Before PROVE rpc'[r] \notin Before
  <2>1. rpc[r] \notin {"idle", "policy", "rename", "stop", "disconnect", "create"} /\ rpc[r] \notin Early
    BY <1>2 DEF Before
  <2>2. ~Creates(r) BY <2>1 DEF Creates
  <2>3. Advance(r) => rpc'[r] \in {"verify", "discard"} BY <2>1 DEF Advance, Goes
  <2>4. Retires(r) => rpc'[r] = "release" BY DEF Retires
  <2>5. Retreat(r) => rpc'[r] \in {"homeward", "reconnect", "repolicy", "restart", "reverify", "done"}
    BY DEF Retreat, Goes
  <2>6. Passes(r) => rpc'[r] \in {"verify", "commit", "discard", "remove", "homeward", "reconnect",
                                  "repolicy", "reverify", "release", "done", "crashed"}
    BY <2>1 DEF Passes, Hop, Early
  <2> QED BY <1>1, <1>2, <2>2, <2>3, <2>4, <2>5, <2>6 DEF Turn
<1> QED BY <1>1, <1>2

LEMMA NewbornStays ==
  ASSUME IInv, Survival, Singly, NEW r \in Replacers, Alters(r), NEW q \in Replacers
  PROVE  Newborn(q)'
<1>1. Turn(r) /\ Records(r) /\ Makes(r) BY DEF Alters
<1>2. Newborn(r) /\ Newborn(q) /\ Knows(q) /\ q \in Ids /\ "create" \in Kinds
  BY LockFacts DEF Singly, Survival, Kinds
<1>3. rpc'[q] \in Before => rpc[q] \in Before
  BY <1>1, BeforeFacts DEF Records
<1>4. <<"create", q>> \in late' => <<"create", q>> \in late \/ (q = r /\ rpc[r] = "create")
  BY <1>1, <1>2 DEF Makes
<1> DEFINE Ends == Calm /\ rpc'[r] \in {"done", "crashed"}
<1>5. rpc[r] = "create" => Creates(r) \/ Ends
  BY <1>1 DEF Turn, Advance, Retires, Retreat, Passes, Goes, Hop, Early
<1>6. rpc'[q] \in Before => <<"create", q>> \notin late'
  <2> SUFFICES ASSUME rpc'[q] \in Before, <<"create", q>> \in late' PROVE FALSE OBVIOUS
  <2>1. <<"create", q>> \notin late BY <1>2, <1>3 DEF Newborn
  <2>2. q = r /\ rpc[r] = "create" BY <1>4, <2>1
  <2>4. rpc'[r] \in {"start", "discard", "lookup", "done", "crashed"} BY <1>5, <2>2 DEF Creates
  <2> QED BY <2>2, <2>4, BeforeFacts
<1>7. ASSUME rpc'[q] \in Before \/ <<"create", q>> \in late'
      PROVE  /\ ~Exists(q)' /\ (\A k \in Belated : <<k, q>> \notin late')
             /\ \A x \in Replacers : Old(x)' # q
  <2>1. rpc[q] \in Before \/ <<"create", q>> \in late
    BY <1>3, <1>4, <1>7 DEF Before
  <2>2. /\ ~Exists(q) /\ (\A k \in Belated : <<k, q>> \notin late)
        /\ \A x \in Replacers : Old(x) # q
    BY <1>2, <2>1 DEF Newborn
  <2>3. ~Exists(q)'
    <3>1. CASE q = r /\ rpc[r] = "create"
      <4>1. Creates(r) \/ Ends BY <1>5, <3>1
      <4>2. rpc'[q] \notin Before BY <3>1, <4>1, BeforeFacts DEF Creates
      <4>3. <<"create", q>> \in late' BY <1>7, <4>2
      <4>4. <<"create", q>> \notin late BY <1>2, <3>1 DEF Newborn, Before
      <4>5. box' = box BY <3>1, <4>1, <4>3, <4>4 DEF Creates, Carried, Missed, Calm
      <4> QED BY <2>2, <4>5 DEF Exists
    <3>2. CASE ~(q = r /\ rpc[r] = "create") BY <1>1, <1>2, <2>2, <3>2 DEF Makes
    <3> QED BY <3>1, <3>2
  <2>4. \A k \in Belated : <<k, q>> \notin late'
    BY <1>2, <2>2, AlterFacts DEF Postpones
  <2>5. \A x \in Replacers : Old(x)' # q
    <3> SUFFICES ASSUME NEW x \in Replacers, op'[x].old = q PROVE FALSE BY DEF Old
    <3>1. x = r /\ rpc[r] = "idle" BY <1>1, <2>2 DEF Records, Old
    <3>2. Exists(q) BY <1>1, <3>1 DEF Records, AtHome, Exists
    <3> QED BY <2>2, <3>2
  <2> QED BY <2>3, <2>4, <2>5
<1> QED BY <1>6, <1>7 DEF Newborn

LEMMA DormantStays ==
  ASSUME IInv, Survival, Singly, NEW r \in Replacers, Alters(r), NEW q \in Replacers
  PROVE  Dormant(q)'
<1>1. Turn(r) /\ Records(r) /\ Makes(r) BY DEF Alters
<1>2. Newborn(q) /\ Dormant(q) /\ q \in Ids /\ Home(q) = Target[q] BY CandidateHome DEF Singly
<1>3. Rouses(r) /\ Dormant(r) BY AlterFacts
<1>4. rpc[q] \in Before => ~CanRun(q) /\ \A x \in Replacers : Old(x) # q
  BY <1>2 DEF Newborn, CanRun
<1>5. CASE q # r
  <2>1. rpc'[q] = rpc[q] /\ op'[q] = op[q] BY <1>1, <1>5 DEF Records
  <2>2. Resting(q) => ~CanRun(q)'
    <3> SUFFICES ASSUME Resting(q), CanRun(q)' PROVE FALSE OBVIOUS
    <3>1. ~CanRun(q) BY <1>2 DEF Dormant
    <3>2. ~Spares(q) BY <1>2, <3>1, SparedStays
    <3>3. q = Old(r) BY <1>2, <1>3, <1>5, <3>2 DEF Rouses
    <3>4. rpc[q] \notin Before BY <1>4, <3>3
    <3>5. rpc[q] \in Repairing BY <3>4, StepFacts DEF Resting
    <3>6. held[Lock(q)] = q BY <3>5, WorkerHolds
    <3> QED BY <1>2, <1>3, <1>5, <3>2, <3>6, OthersSpare
  <2> QED BY <1>2, <2>1, <2>2 DEF Dormant, Resting
<1>6. CASE q = r
  <2>1. rpc'[r] \in {"start", "verify", "commit"} => op'[r].cand
    <3>1. CASE Creates(r)
      <4>1. op[r] \in [old : Ids \cup {NoOne}, snap : Boxes, lock : BOOLEAN, cut : BOOLEAN, cand : BOOLEAN]
        BY DEF IInv, TypeOK, ReplacementTypeOK
      <4> QED BY <3>1, <4>1 DEF Creates
    <3>2. CASE Advance(r)
      <4>1. rpc'[r] \in {"start", "verify", "commit"} => rpc[r] = "start" /\ Unaltered(r)
        BY <3>2 DEF Advance, Goes
      <4> QED BY <1>3, <4>1 DEF Dormant, Unaltered
    <3>3. CASE Passes(r)
      <4>1. rpc'[r] \in {"start", "verify", "commit"} => rpc[r] \in {"start", "verify"} /\ Unaltered(r)
        BY <3>3 DEF Passes, Hop, Early
      <4> QED BY <1>3, <4>1 DEF Dormant, Unaltered
    <3>4. Retires(r) \/ Retreat(r) => rpc'[r] \notin {"start", "verify", "commit"}
      BY DEF Retires, Retreat, Goes
    <3> QED BY <1>1, <3>1, <3>2, <3>3, <3>4 DEF Turn
  <2>2. ASSUME Resting(r)' PROVE ~CanRun(r)'
    <3>1. CASE rpc[r] \in Before \/ rpc[r] = "lookup"
      <4>1. ~CanRun(r) BY <1>3, <3>1 DEF Dormant, Resting
      <4>2. rpc[r] # "start" BY <3>1, BeforeFacts
      <4> QED BY <1>3, <4>1, <4>2 DEF Rouses
    <3>2. CASE rpc[r] \in {"start", "verify", "commit"}
      <4>1. op[r].cand BY <1>3, <3>2 DEF Dormant
      <4>2. rpc'[r] \in {"verify", "commit", "discard", "remove", "done", "crashed"}
              /\ (rpc'[r] = "discard" => Unaltered(r))
        BY <1>1, <3>2 DEF Turn, Advance, Creates, Retires, Retreat, Passes, Goes, Hop, Early
      <4>3. rpc'[r] = "discard" => op'[r].cand BY <4>1, <4>2 DEF Unaltered
      <4>4. ~Resting(r)' BY <4>2, <4>3, BeforeFacts DEF Resting
      <4> QED BY <2>2, <4>4
    <3>3. CASE rpc[r] = "discard"
      <4>1. rpc'[r] = "homeward"
        <5>1. rpc'[r] \in {"homeward", "done", "crashed"}
          BY <1>1, <3>3 DEF Turn, Advance, Creates, Retires, Retreat, Passes, Goes, Hop, Early
        <5> QED BY <2>2, <5>1, BeforeFacts DEF Resting
      <4>2. Carried("remove", r) \/ (Calm /\ ~(op[r].cand /\ Exists(r)))
        BY <1>1, <3>3, <4>1 DEF Turn, Advance, Creates, Retires, Retreat, Passes, Goes, Hop, Early
      <4>3. CASE Carried("remove", r)
        <5>1. "remove" \in Kinds /\ DaemonTypeOK BY DEF Kinds, IInv, TypeOK
        <5>2. Attributes("remove", r) BY <1>2, <1>6, <4>3, <5>1, EffectFields DEF Carried
        <5> QED BY <5>2 DEF Attributes, CanRun, Exists
      <4>4. CASE ~(op[r].cand /\ Exists(r))
        <5>1. ~CanRun(r) BY <1>3, <3>3, <4>4 DEF Dormant, Resting, CanRun
        <5> QED BY <1>3, <3>3, <5>1 DEF Rouses
      <4> QED BY <4>2, <4>3, <4>4
    <3>4. CASE rpc[r] \in {"homeward", "reconnect", "repolicy", "restart"}
      <4>1. ~CanRun(r) BY <1>3, <3>4 DEF Dormant, Resting
      <4> QED BY <1>3, <3>4, <4>1 DEF Rouses
    <3>5. CASE rpc[r] \in {"reverify", "remove", "release"}
      <4>1. rpc'[r] \in {"release", "done", "crashed"}
        BY <1>1, <3>5 DEF Turn, Advance, Creates, Retires, Retreat, Passes, Goes, Hop, Early
      <4> QED BY <2>2, <4>1, BeforeFacts DEF Resting
    <3>6. rpc[r] \in Steps /\ rpc[r] \notin {"done", "crashed"}
      BY <1>1 DEF IInv, TypeOK, ReplacementTypeOK, Records
    <3> QED BY <3>1, <3>2, <3>3, <3>4, <3>5, <3>6 DEF Steps, Forward, Backward, Before, Early
  <2> QED BY <1>6, <2>1, <2>2 DEF Dormant
<1> QED BY <1>5, <1>6

(* Whatever happens by itself or late, to container j.                     *)
Wanders(j) ==
  \/ box'[j] = box[j]
  \/ ~Exists(j)' /\ ~box'[j].up
  \/ box'[j] = Fresh /\ <<"create", j>> \in late /\ <<"create", j>> \notin late'
  \/ /\ Exists(j) /\ Exists(j)'
     /\ box'[j].policy => box[j].policy \/ <<"repolicy", j>> \in late
     /\ box'[j].up => \/ box[j].up \/ <<"start", j>> \in late
                      \/ box[j].policy /\ box[j].starts > 0
     /\ box'[j].starts > 0 => box[j].starts > 0 \/ CanRun(j)

LEMMA DriftWanders ==
  ASSUME DaemonTypeOK, GoneIsDown, Drift, NEW j \in Ids
  PROVE  Wanders(j)
<1>1. box[j] \in Boxes BY DEF DaemonTypeOK
<1>2. ASSUME box'[j] = Removed(box[j]) PROVE Wanders(j)
  BY <1>2 DEF Wanders, Removed, Gone, Exists
<1>3. ASSUME Exists(j), box'[j] = Started(box[j]), CanRun(j), box[j].up \/ (box[j].policy /\ box[j].starts > 0)
      PROVE  Wanders(j)
  <2>1. box'[j].at = box[j].at /\ box'[j].policy = box[j].policy BY <1>1, <1>3 DEF Started, Boxes
  <2> QED BY <1>3, <2>1 DEF Wanders, Exists
<1>4. ASSUME box'[j] = [box[j] EXCEPT !.up = FALSE] PROVE Wanders(j)
  <2>1. /\ box'[j].at = box[j].at /\ box'[j].policy = box[j].policy
        /\ box'[j].starts = box[j].starts /\ ~box'[j].up
    BY <1>1, <1>4 DEF Boxes
  <2> QED BY <2>1 DEF Wanders, Exists
<1>5. ASSUME NEW k \in Kinds, NEW i \in Ids, Accepts(k, i), box' = Effect(k, i),
             (<<k, i>> \in late /\ <<k, i>> \notin late') \/ k = "reclaim"
      PROVE  Wanders(j)
  <2>1. CASE j # i BY <1>5, <2>1, EffectFields DEF Wanders
  <2>2. CASE j = i
    <3>1. Attributes(k, j) BY <1>5, <2>2, EffectFields
    <3>2. CASE k \in {"remove", "reclaim"} BY <3>1, <3>2 DEF Attributes, Wanders, Exists
    <3>3. CASE k = "create" BY <1>5, <2>2, <3>3, EffectOn DEF Wanders
    <3>4. CASE k \notin {"create", "remove", "reclaim"}
      <4>1. Exists(j) BY <1>5, <2>2, <3>4 DEF Accepts, GoneIsDown, Kinds
      <4>2. Exists(j)' BY <3>1, <3>4, <4>1 DEF Attributes, Exists
      <4>3. <<k, j>> \in late BY <1>5, <2>2, <3>4
      <4>4. CASE k = "start" BY <3>1, <4>1, <4>2, <4>3, <4>4 DEF Attributes, Wanders, CanRun
      <4>5. CASE k = "repolicy"
        <5>1. ~box[j].policy => <<"repolicy", j>> \in late BY <4>3, <4>5
        <5> QED BY <3>1, <4>1, <4>2, <4>5, <5>1 DEF Attributes, Wanders
      <4>6. CASE k \notin {"start", "repolicy"}
        BY <3>1, <3>4, <4>1, <4>2, <4>6 DEF Attributes, Wanders
      <4> QED BY <4>4, <4>5, <4>6
    <3> QED BY <3>2, <3>3, <3>4
  <2> QED BY <2>1, <2>2
<1>6. ASSUME NEW i \in Ids, Expired(i) PROVE Wanders(j)
  <2>1. CASE j # i BY <1>6, <2>1 DEF Expired, DaemonTypeOK, Wanders
  <2>2. CASE j = i
    <3>1. box[j].up /\ Exists(j) BY <1>6, <2>2 DEF Expired, GoneIsDown
    <3>2. box'[j] = IF box[j].policy THEN Started(box[j]) ELSE [box[j] EXCEPT !.up = FALSE]
      BY <1>6, <2>2 DEF Expired, DaemonTypeOK
    <3> QED BY <1>3, <1>4, <3>1, <3>2 DEF CanRun
  <2> QED BY <2>1, <2>2
<1>7. CASE Rebooted
  <2>1. box'[j] = IF Exists(j) /\ box[j].policy /\ box[j].starts > 0
                  THEN Started(box[j]) ELSE [box[j] EXCEPT !.up = FALSE]
    BY <1>7 DEF Rebooted
  <2> QED BY <1>3, <1>4, <2>1 DEF CanRun
<1>8. CASE box' = Swept BY <1>2, <1>8 DEF Swept, Wanders
<1>9. CASE box' = box BY <1>9 DEF Wanders
<1> QED BY <1>5, <1>6, <1>7, <1>8, <1>9 DEF Drift

(* The original that a replacement took out of service stays out of it.    *)
LEMMA DriftRests ==
  ASSUME IInv, Survival, Survival', Singly, Drift, NEW r \in Replacers,
         rpc[r] \in Repairing, rpc[r] # "discard", ~box[Old(r)].policy
  PROVE  ~box'[Old(r)].policy /\ (box'[Old(r)].up => box[Old(r)].up)
<1>1. held[Lock(r)] = r /\ Old(r) \in Ids /\ Home(Old(r)) = Target[r] BY WorkerHolds
<1>2. Wanders(Old(r)) BY <1>1, DriftWanders DEF IInv, TypeOK, Singly
<1>3. Exists(Old(r)) BY DEF Survival, Retains, Follows
<1>4. Exists(Old(r))'
  <2>1. op' = op /\ journal' = journal BY DEF Drift, replacement
  <2>2. journal[r] \in Changing BY DEF Survival, Follows
  <2>3. box'[op'[r].old].at # "gone" BY <2>1, <2>2 DEF Survival, Retains, Exists, Old
  <2> QED BY <2>1, <2>3 DEF Old, Exists
<1>5. <<"start", Old(r)>> \notin late /\ <<"repolicy", Old(r)>> \notin late
  BY <1>1, <1>3, NoLateStart DEF Singly, Belated
<1>6. <<"create", Old(r)>> \notin late
  <2> SUFFICES ASSUME <<"create", Old(r)>> \in late PROVE FALSE OBVIOUS
  <2>1. Old(r) \in Replacers BY <1>1 DEF Singly
  <2>2. Newborn(Old(r)) BY <2>1 DEF Singly
  <2> QED BY <2>2 DEF Newborn
<1> QED BY <1>2, <1>4, <1>5, <1>6 DEF Wanders

LEMMA DriftSingly ==
  ASSUME IInv, Survival, Survival', Singly, Drift
  PROVE  Singly'
<1>1. rpc' = rpc /\ op' = op /\ journal' = journal BY DEF Drift, replacement
<1>2. \A k \in Kinds \ {"reclaim"}, i \in Ids : <<k, i>> \in late' => <<k, i>> \in late BY DEF Drift
<1>3. \A j \in Ids : Wanders(j) BY DriftWanders DEF IInv, TypeOK, Singly
<1>4. \A j \in Ids : CanRun(j)' => CanRun(j) BY DriftWakesNone DEF IInv, TypeOK
<1>5. Belated \cup {"create"} \subseteq Kinds \ {"reclaim"} BY DEF Belated, Kinds
<1>6. ASSUME NEW r \in Replacers PROVE Newborn(r)'
  <2>1. r \in Ids BY LockFacts
  <2>2. Newborn(r) BY DEF Singly
  <2>3. rpc'[r] \in Before => <<"create", r>> \notin late' BY <1>1, <1>2, <1>5, <2>1, <2>2 DEF Newborn
  <2> SUFFICES ASSUME rpc'[r] \in Before \/ <<"create", r>> \in late'
               PROVE  /\ ~Exists(r)' /\ (\A k \in Belated : <<k, r>> \notin late')
                      /\ \A q \in Replacers : Old(q)' # r
    BY <2>3 DEF Newborn
  <2>4. rpc[r] \in Before \/ <<"create", r>> \in late BY <1>1, <1>2, <1>5, <2>1
  <2>5. /\ ~Exists(r) /\ (\A k \in Belated : <<k, r>> \notin late)
        /\ \A q \in Replacers : Old(q) # r
    BY <2>2, <2>4 DEF Newborn
  <2>6. \A k \in Belated : <<k, r>> \notin late' BY <1>2, <1>5, <2>1, <2>5
  <2>7. \A q \in Replacers : Old(q)' # r BY <1>1, <2>5 DEF Old
  <2>8. Wanders(r) BY <1>3, <2>1
  <2>9. <<"create", r>> \notin late \/ <<"create", r>> \in late' BY <1>1, <2>2, <2>4, <2>3 DEF Newborn
  <2>10. ~Exists(r)' BY <2>5, <2>8, <2>9 DEF Wanders, Exists
  <2> QED BY <2>6, <2>7, <2>10
<1>7. ASSUME NEW r \in Replacers PROVE Dormant(r)'
  <2>1. r \in Ids /\ Dormant(r) BY LockFacts DEF Singly
  <2> QED BY <1>1, <1>4, <2>1 DEF Dormant, Resting
<1>8. ASSUME NEW r \in Replacers PROVE Retired(r)'
  <2>1. Retired(r) BY DEF Singly
  <2>2. {"rename", "stop", "disconnect", "create", "start"} \subseteq Repairing \ {"discard"} BY StepFacts
  <2>3. rpc[r] \in {"rename", "stop", "disconnect", "create", "start"} =>
          ~box'[Old(r)].policy /\ (box'[Old(r)].up => box[Old(r)].up)
    BY <2>1, <2>2, DriftRests DEF Retired
  <2> QED BY <1>1, <2>1, <2>3 DEF Retired, Old, Was
<1>9. ASSUME NEW r \in Replacers PROVE Sole(r)'
  <2> SUFFICES ASSUME rpc'[r] \in Repairing, Entitled(r)',
                      NEW j \in Ids, Home(j) = Target[r], j # r, j # Old(r)'
               PROVE  ~CanRun(j)'
    BY DEF Sole
  <2>1. rpc[r] \in Repairing /\ Old(r)' = Old(r) /\ Was(r)' = Was(r) BY <1>1 DEF Old, Was
  <2>2. Old(r) \in Ids BY <2>1, WorkerHolds
  <2>3. CanRun(Old(r))' => CanRun(Old(r)) BY <1>1, <1>4, <2>2 DEF CanRun, Exists, Old
  <2>4. Wanders(Old(r)) BY <1>3, <2>2
  <2>5. box'[Old(r)].starts > 0 => box[Old(r)].starts > 0 \/ CanRun(Old(r)) \/ ~Exists(Old(r))'
    BY <2>4 DEF Wanders, Fresh, Gone
  <2>6. Exists(Old(r))' BY <1>1, <2>1 DEF Survival, Follows, Retains, Exists, Old
  <2>7. Entitled(r) BY <1>1, <2>1, <2>3, <2>5, <2>6 DEF Entitled, Old, Exists
  <2> QED BY <1>4, <2>1, <2>7 DEF Singly, Sole
<1>10. OneLive' BY <1>4 DEF Singly, OneLive
<1>11. GoneIsDown'
  <2> SUFFICES ASSUME NEW i \in Ids, box'[i].up PROVE Exists(i)' BY DEF GoneIsDown
  <2>1. Wanders(i) BY <1>3
  <2> QED BY <2>1 DEF Wanders, Singly, GoneIsDown, Exists, Fresh, Gone
<1>12. Awaited'
  <2> SUFFICES ASSUME NEW k \in Belated, NEW i \in Ids, <<k, i>> \in late', Exists(i)'
               PROVE  \E r \in Replacers : Awaits(r, i)'
    BY DEF Awaited
  <2>1. <<k, i>> \in late BY <1>2, <1>5
  <2>2. Exists(i)
    <3> SUFFICES ASSUME ~Exists(i) PROVE FALSE OBVIOUS
    <3>1. Wanders(i) BY <1>3
    <3>2. <<"create", i>> \in late BY <3>1 DEF Wanders, Exists
    <3>3. i \in Replacers /\ Newborn(i) BY <3>2 DEF Singly
    <3> QED BY <2>1, <3>2, <3>3 DEF Newborn
  <2>3. PICK r \in Replacers : Awaits(r, i) BY <2>1, <2>2 DEF Singly, Awaited
  <2>4. held'[Lock(r)] = r BY <2>3 DEF Awaits, Drift
  <2> QED BY <1>1, <2>3, <2>4 DEF Awaits, Open, Lock
<1>13. \A i \in Ids : <<"create", i>> \in late' => i \in Replacers BY <1>2, <1>5 DEF Singly
<1> QED BY <1>6, <1>7, <1>8, <1>9, <1>10, <1>11, <1>12, <1>13 DEF Singly

(* A step of r makes one call on its containers, or none.                  *)
LEMMA TurnsCall ==
  ASSUME NEW r \in Replacers, Turn(r)
  PROVE  Calm \/ \E k \in Kinds, i \in {r, Old(r)} : Carried(k, i) \/ Missed(k, i)
<1>1. {"policy", "stop", "start", "disconnect", "create", "remove", "homeward", "reconnect", "repolicy", "rename"}
        \subseteq Kinds
  BY DEF Kinds
<1>2. ASSUME NEW s, NEW k \in Kinds, NEW i \in {r, Old(r)}, NEW t, NEW f, Goes(r, s, k, i, t, f)
      PROVE  \E h \in Kinds, j \in {r, Old(r)} : Carried(h, j) \/ Missed(h, j)
  BY <1>2 DEF Goes
<1>3. CASE Advance(r) BY <1>1, <1>2, <1>3 DEF Advance
<1>4. CASE Creates(r) BY <1>1, <1>4 DEF Creates
<1>5. CASE Retires(r) BY <1>1, <1>5 DEF Retires
<1>6. CASE Retreat(r) BY <1>1, <1>2, <1>6 DEF Retreat
<1>7. CASE Passes(r) BY <1>7 DEF Passes
<1> QED BY <1>3, <1>4, <1>5, <1>6, <1>7 DEF Turn

(* What its calls show of the containers they change.                      *)
LEMMA TurnsShow ==
  ASSUME DaemonTypeOK, GoneIsDown, NEW r \in Replacers, Turn(r),
         rpc[r] # "idle" => Old(r) \in Ids, NEW i \in Ids
  PROVE  /\ box'[i].up => Exists(i)'
         /\ box'[i].starts > 0 => box[i].starts > 0 \/ CanRun(i)'
<1>1. CASE box'[i] = box[i] BY <1>1 DEF GoneIsDown, Exists
<1>2. ASSUME NEW k \in Kinds, NEW j \in {r, Old(r)}, Carried(k, j) \/ Missed(k, j), rpc[r] # "idle"
      PROVE  /\ box'[i].up => Exists(i)'
             /\ box'[i].starts > 0 => box[i].starts > 0 \/ CanRun(i)'
  <2>1. j \in Ids BY <1>2, LockFacts
  <2>2. CASE Carried(k, j) /\ i = j
    <3>1. Attributes(k, i) /\ Accepts(k, i) BY <2>1, <2>2, EffectFields DEF Carried
    <3>2. CASE k \in {"create", "remove", "reclaim"} BY <3>1, <3>2 DEF Attributes
    <3>3. CASE k \notin {"create", "remove", "reclaim"}
      <4>1. Exists(i) BY <3>1, <3>3 DEF Accepts, GoneIsDown, Kinds
      <4>2. Exists(i)' BY <3>1, <3>3, <4>1 DEF Attributes, Exists
      <4>3. k # "start" => box'[i].starts = box[i].starts BY <3>1, <3>3 DEF Attributes
      <4>4. k = "start" => box'[i].up BY <3>1 DEF Attributes
      <4> QED BY <4>2, <4>3, <4>4 DEF CanRun
    <3> QED BY <3>2, <3>3
  <2>3. CASE Missed(k, j) \/ i # j
    <3>1. box'[i] = box[i] BY <1>2, <2>1, <2>3, EffectFields DEF Carried, Missed
    <3> QED BY <1>1, <3>1
  <2> QED BY <1>2, <2>2, <2>3
<1>3. rpc[r] = "idle" => Calm
  BY DEF Turn, Advance, Creates, Retires, Retreat, Passes, Goes
<1>4. Calm => box'[i] = box[i] BY DEF Calm
<1> QED BY <1>1, <1>2, <1>3, <1>4, TurnsCall

(* What a replacement remembers while it is at work.                       *)
LEMMA WorkerRemembers ==
  ASSUME ReplacementTypeOK, NEW r \in Replacers, Turn(r),
         rpc[r] \in Repairing \cup {"fingerprint"}, rpc'[r] \in Repairing \cup {"remove"}
  PROVE  /\ Was(r)' = Was(r) /\ Old(r)' = Old(r)
         /\ rpc[r] = "fingerprint" =>
              /\ rpc'[r] = "policy" /\ Calm /\ op'[r] = op[r] /\ Looks(box[Old(r)]) = Looks(Was(r))
         /\ op'[r].cut = (op[r].cut \/ rpc[r] = "disconnect")
         /\ rpc[r] \notin {"create", "lookup"} => op'[r].cand = op[r].cand
<1>1. op[r] \in [old : Ids \cup {NoOne}, snap : Boxes, lock : BOOLEAN, cut : BOOLEAN, cand : BOOLEAN]
  BY DEF ReplacementTypeOK
<1>2. rpc'[r] \notin {"done", "crashed", "release"} /\ rpc[r] \notin {"idle", "lock", "barrier"}
        /\ rpc'[r] \notin Early
  BY StepFacts DEF Ended, Early
<1>3. CASE Unaltered(r) /\ rpc[r] # "disconnect"
  <2>1. op'[r] = op[r] BY <1>3 DEF Unaltered
  <2>2. op[r].cut = (op[r].cut \/ rpc[r] = "disconnect") BY <1>1, <1>3
  <2>3. rpc[r] = "fingerprint" => /\ rpc'[r] = "policy" /\ Calm /\ Looks(box[Old(r)]) = Looks(Was(r))
    BY <1>2 DEF Turn, Advance, Creates, Retires, Retreat, Passes, Goes, Hop, Early
  <2> QED BY <2>1, <2>2, <2>3 DEF Was, Old
<1>4. CASE op'[r] = [op[r] EXCEPT !.cut = TRUE] /\ rpc[r] = "disconnect"
  BY <1>1, <1>4 DEF Was, Old
<1>5. ASSUME NEW x \in BOOLEAN, op'[r] = [op[r] EXCEPT !.cand = x], rpc[r] \in {"create", "lookup"}
      PROVE  /\ Was(r)' = Was(r) /\ Old(r)' = Old(r) /\ op'[r].cut = op[r].cut /\ op[r].cut \in BOOLEAN
  BY <1>1, <1>5 DEF Was, Old
<1>6. CASE Advance(r) BY <1>3, <1>4, <1>6 DEF Advance, Goes
<1>7. CASE Creates(r)
  <2>1. op'[r] = [op[r] EXCEPT !.cand = TRUE] \/ Unaltered(r) BY <1>7 DEF Creates
  <2>2. rpc[r] = "create" BY <1>7 DEF Creates
  <2> QED BY <1>3, <1>5, <2>1, <2>2
<1>8. CASE Retires(r) BY <1>2, <1>8 DEF Retires
<1>9. CASE Retreat(r)
  <2>1. Unaltered(r) BY <1>2, <1>9 DEF Retreat
  <2>2. rpc[r] # "disconnect" BY <1>9 DEF Retreat, Goes
  <2> QED BY <1>3, <2>1, <2>2
<1>10. CASE Passes(r)
  <2>1. \/ Unaltered(r) /\ rpc[r] # "disconnect"
        \/ Hop(r, "lookup", "discard") /\ \E x \in BOOLEAN : op'[r] = [op[r] EXCEPT !.cand = x]
    BY <1>2, <1>10 DEF Passes, Hop
  <2> QED BY <1>3, <1>5, <2>1 DEF Hop
<1> QED BY <1>6, <1>7, <1>8, <1>9, <1>10 DEF Turn

LEMMA RetiredStays ==
  ASSUME IInv, Survival, Singly, NEW r \in Replacers, Alters(r), NEW q \in Replacers
  PROVE  Retired(q)'
<1>1. Turn(r) /\ Records(r) /\ DaemonTypeOK /\ ReplacementTypeOK /\ Retired(q)
  BY DEF Alters, IInv, TypeOK, Singly
<1>2. {"rename", "stop", "disconnect", "create", "start"} \subseteq Repairing BY StepFacts
<1>3. CASE q # r
  <2>1. rpc'[q] = rpc[q] /\ op'[q] = op[q] BY <1>1, <1>3 DEF Records
  <2>2. rpc[q] \in Repairing => box'[Old(q)] = box[Old(q)]
    <3> SUFFICES ASSUME rpc[q] \in Repairing PROVE box'[Old(q)] = box[Old(q)] OBVIOUS
    <3>1. held[Lock(q)] = q /\ Old(q) \in Ids /\ Home(Old(q)) = Target[q] BY WorkerHolds
    <3> QED BY <1>3, <3>1, AlterFacts, OthersSpare DEF Spares
  <2> QED BY <1>1, <1>2, <2>1, <2>2 DEF Retired, Old, Was
<1>4. CASE q = r
  <2> SUFFICES ASSUME rpc'[r] \in {"rename", "stop", "disconnect", "create", "start"} PROVE Retired(r)'
    BY <1>4 DEF Retired
  <2>1. rpc[r] \in {"policy", "rename", "stop", "disconnect", "create"}
    BY <1>1 DEF Turn, Advance, Creates, Retires, Retreat, Passes, Goes, Hop, Early
  <2>2. rpc[r] \in Repairing /\ rpc'[r] \in Repairing BY <1>2, <2>1, StepFacts
  <2>3. Was(r)' = Was(r) /\ Old(r)' = Old(r) BY <1>1, <2>2, WorkerRemembers
  <2>4. Old(r) \in Ids /\ Old(r) # r /\ r \in Ids BY <2>2, WorkerHolds, LockFacts
  <2>5. {"policy", "rename", "stop", "disconnect", "create"} \subseteq Kinds BY DEF Kinds
  <2>6. ASSUME NEW k \in {"policy", "rename", "stop", "disconnect"}, Carried(k, Old(r)) PROVE Attributes(k, Old(r))
    BY <1>1, <2>4, <2>5, <2>6, EffectFields DEF Carried
  <2>7. \/ rpc[r] = "policy" /\ rpc'[r] = "rename" /\ Carried("policy", Old(r))
        \/ rpc[r] = "rename" /\ rpc'[r] = "stop" /\ Carried("rename", Old(r))
        \/ rpc[r] = "stop" /\ rpc'[r] = "disconnect" /\ (Carried("stop", Old(r)) \/ (Calm /\ ~Was(r).up))
        \/ rpc[r] = "disconnect" /\ rpc'[r] = "create" /\ Carried("disconnect", Old(r))
        \/ rpc[r] = "create" /\ rpc'[r] = "start" /\ Carried("create", r)
    BY <1>1, <2>1 DEF Turn, Advance, Creates, Retires, Retreat, Passes, Goes, Hop, Early
  <2>8. /\ rpc'[r] \in {"stop", "disconnect", "create", "start"} => ~box[Old(r)].policy
        /\ rpc'[r] \in {"create", "start"} /\ Was(r).up => ~box[Old(r)].up
    BY <1>1, <1>4, <2>7 DEF Retired
  <2>9. /\ ~box'[Old(r)].policy
        /\ rpc'[r] \in {"disconnect", "create", "start"} /\ Was(r).up => ~box'[Old(r)].up
    <3>1. CASE Carried("policy", Old(r)) /\ rpc'[r] = "rename"
      BY <2>6, <3>1 DEF Attributes
    <3>2. CASE Carried("rename", Old(r)) /\ rpc'[r] = "stop"
      BY <2>6, <2>8, <3>2 DEF Attributes
    <3>3. CASE Carried("stop", Old(r)) /\ rpc'[r] = "disconnect"
      BY <2>6, <2>8, <3>3 DEF Attributes
    <3>4. CASE Calm /\ ~Was(r).up /\ rpc'[r] = "disconnect"
      BY <2>8, <3>4 DEF Calm
    <3>5. CASE Carried("disconnect", Old(r)) /\ rpc'[r] = "create"
      BY <2>6, <2>8, <3>5 DEF Attributes
    <3>6. CASE Carried("create", r) /\ rpc'[r] = "start"
      <4>1. box'[Old(r)] = box[Old(r)] BY <1>1, <2>4, <2>5, <3>6, EffectFields DEF Carried
      <4> QED BY <2>8, <3>6, <4>1
    <3> QED BY <2>7, <3>1, <3>2, <3>3, <3>4, <3>5, <3>6
  <2>10. box'[Old(r)'] = box'[Old(r)] BY <2>3
  <2> QED BY <2>3, <2>9, <2>10 DEF Retired
<1> QED BY <1>3, <1>4

LEMMA SoleStays ==
  ASSUME IInv, Survival, Singly, NEW r \in Replacers, Alters(r), NEW q \in Replacers
  PROVE  Sole(q)'
<1>1. /\ Turn(r) /\ Records(r) /\ DaemonTypeOK /\ ReplacementTypeOK /\ Sole(q)
      /\ Rouses(r) /\ Follows(r) /\ Knows(r) /\ GoneIsDown
  BY AlterFacts DEF Alters, IInv, TypeOK, Singly
<1> SUFFICES ASSUME rpc'[q] \in Repairing, Entitled(q)',
                    NEW j \in Ids, Home(j) = Target[q], j # q, j # Old(q)'
             PROVE  ~CanRun(j)'
  BY DEF Sole
<1>2. CASE q # r
  <2>1. rpc'[q] = rpc[q] /\ op'[q] = op[q] BY <1>1, <1>2 DEF Records
  <2>2. held[Lock(q)] = q /\ Old(q) \in Ids /\ Home(Old(q)) = Target[q] BY <2>1, WorkerHolds
  <2>3. Spares(Old(q)) /\ Spares(j) BY <1>1, <1>2, <2>2, OthersSpare
  <2>4. box'[op'[q].old] = box[Old(q)] BY <2>1, <2>3 DEF Spares, Old
  <2>5. CanRun(Old(q))' => CanRun(Old(q))
    <3>1. "start" \in Kinds /\ "repolicy" \in Kinds BY DEF Kinds
    <3> QED BY <2>1, <2>3, <2>4, <3>1 DEF Spares, CanRun, Exists, Old
  <2>6. Entitled(q) BY <2>1, <2>4, <2>5 DEF Entitled, Was, Old
  <2> QED BY <1>1, <2>1, <2>3, <2>6, SparedStays DEF Sole, Old
<1>3. CASE q = r
  <2>1. rpc[r] \in Repairing \cup {"fingerprint"}
    <3>1. rpc[r] \in Steps BY <1>1 DEF ReplacementTypeOK
    <3>2. rpc[r] \notin {"idle", "lock", "barrier", "release", "remove"} \/ rpc'[r] \notin Repairing
      BY <1>1, StepFacts
      DEF Turn, Advance, Creates, Retires, Retreat, Passes, Goes, Hop, Early, Ended
    <3> QED BY <1>1, <1>3, <3>1, <3>2, StepFacts DEF Records, Early, Ended
  <2>2. Was(r)' = Was(r) /\ Old(r)' = Old(r) BY <1>1, <1>3, <2>1, WorkerRemembers
  <2>3. Old(r) \in Ids /\ Home(Old(r)) = Target[r] /\ Old(r) # r
    BY <1>1, <2>1, StepFacts DEF Knows
  <2>4. op'[r].old = Old(r) /\ op'[r].snap = Was(r) BY <2>2 DEF Old, Was
  <2>5. CASE rpc[r] = "fingerprint"
    <3>1. Calm /\ Looks(box[Old(r)]) = Looks(Was(r)) /\ rpc'[r] = "policy"
      BY <1>1, <1>3, <2>1, <2>5, WorkerRemembers
    <3>2. Exists(Old(r)) /\ "policy" \in Repairing
      BY <1>1, <1>3, <2>5, <3>1, StepFacts, PhaseFacts DEF Records, Follows, Early
    <3>3. \A i \in Ids : Spares(i) BY <3>1 DEF Calm, Spares
    <3>4. \A i \in Ids : CanRun(i)' => CanRun(i) BY <3>3, SparedStays
    <3>5. box[Old(r)].up = Was(r).up /\ box[Old(r)].policy = Was(r).policy
      <4>1. box[Old(r)] \in Boxes /\ Was(r) \in Boxes
        BY <1>1, <2>3 DEF DaemonTypeOK, ReplacementTypeOK, Was
      <4> QED BY <3>1, <4>1 DEF Looks, Boxes
    <3>6. CanRun(Old(r))' => CanRun(Old(r)) BY <2>3, <2>4, <3>4 DEF CanRun, Exists, Old
    <3>7. box'[op'[r].old] = box[Old(r)] BY <2>3, <2>4, <3>3 DEF Spares
    <3>8. CanRun(Old(r))
      BY <1>3, <2>4, <3>2, <3>5, <3>6, <3>7 DEF Entitled, CanRun, Was, Old
    <3>9. ~CanRun(j) BY <1>3, <2>2, <2>3, <3>8 DEF Singly, OneLive
    <3> QED BY <3>4, <3>9
  <2>6. CASE rpc[r] \in Repairing
    <3> PICK i \in Ids : i = Old(r) BY <2>3
    <3>1. CanRun(i)' => Entitled(r)
      BY <1>1, <2>6, StepFacts DEF Rouses, Entitled
    <3>2. box'[i].starts > 0 => box[i].starts > 0 \/ CanRun(i)'
      BY <1>1, TurnsShow DEF Knows
    <3>6. op'[r].old = i /\ (CanRun(Old(r))' => CanRun(i)') BY <2>4 DEF CanRun, Exists, Old
    <3>3. Entitled(r) BY <1>3, <2>4, <3>1, <3>2, <3>6 DEF Entitled, Was, Old
    <3>4. ~CanRun(j) BY <1>1, <1>3, <2>2, <2>6, <3>3 DEF Sole
    <3>5. Spares(j) BY <1>1, <1>3, <2>2 DEF Rouses
    <3> QED BY <3>4, <3>5, SparedStays
  <2> QED BY <2>1, <2>5, <2>6
<1> QED BY <1>2, <1>3

(* Whatever a step of r starts is alone of its name.                       *)
LEMMA AloneWhenRoused ==
  ASSUME IInv, Survival, Singly, NEW r \in Replacers, Alters(r),
         NEW i \in Ids, ~CanRun(i), CanRun(i)', NEW j \in Ids, j # i, Home(j) = Home(i)
  PROVE  ~CanRun(j)'
<1>1. /\ Rouses(r) /\ Knows(r) /\ Follows(r) /\ Retains(r) /\ Dormant(r) /\ Retired(r) /\ Sole(r)
      /\ r \in Ids /\ Home(r) = Target[r]
  BY AlterFacts
<1>2. rpc[r] \in Repairing \cup {"remove"} /\ i \in {r, Old(r)} BY <1>1, SparedStays DEF Rouses
<1>3. held[Lock(r)] = r /\ Old(r) \in Ids /\ Home(Old(r)) = Target[r] /\ Old(r) # r
  BY <1>2, WorkerHolds
<1>4. rpc[r] # "idle" BY <1>2, StepFacts
<1>5. ASSUME Entitled(r), rpc[r] \in Repairing, j # r, j # Old(r) PROVE ~CanRun(j)'
  <2>1. ~CanRun(j) BY <1>1, <1>2, <1>3, <1>5 DEF Sole
  <2>2. Spares(j) BY <1>1, <1>5 DEF Rouses
  <2> QED BY <2>1, <2>2, SparedStays
<1>6. CASE i = r
  <2>1. rpc[r] = "start" /\ Was(r).up BY <1>1, <1>6 DEF Rouses
  <2>2. rpc[r] \in Repairing /\ rpc[r] # "discard" /\ Entitled(r) BY <2>1, StepFacts DEF Entitled
  <2>3. CASE j = Old(r)
    <3>1. ~box[j].policy /\ ~box[j].up BY <1>1, <2>1, <2>3 DEF Retired
    <3>2. Exists(j) BY <1>1, <2>2, <2>3 DEF Follows, Retains
    <3>3. <<"start", j>> \notin late /\ <<"repolicy", j>> \notin late
      BY <1>3, <2>2, <2>3, <3>2, NoLateStart DEF Singly, Belated
    <3>4. ~CanRun(j) BY <3>1, <3>3 DEF CanRun
    <3> QED BY <1>1, <1>4, <2>1, <2>3, <3>4 DEF Rouses
  <2> QED BY <1>5, <1>6, <2>2, <2>3
<1>7. CASE i = Old(r)
  <2>1. \/ rpc[r] = "restart" /\ Was(r).up
        \/ rpc[r] = "repolicy" /\ Was(r).policy /\ box[i].starts > 0
    BY <1>1, <1>4, <1>7 DEF Rouses
  <2>2. rpc[r] \in Repairing /\ Entitled(r) BY <1>7, <2>1, StepFacts DEF Entitled
  <2>3. CASE j = r
    <3>1. ~CanRun(r) BY <1>1, <2>1 DEF Dormant, Resting
    <3> QED BY <1>1, <2>1, <2>3, <3>1 DEF Rouses
  <2> QED BY <1>5, <1>7, <2>2, <2>3
<1> QED BY <1>2, <1>6, <1>7

LEMMA AwaitedStays ==
  ASSUME IInv, Survival, Singly, NEW r \in Replacers, Alters(r)
  PROVE  Awaited'
<1> SUFFICES ASSUME NEW k \in Belated, NEW i \in Ids, <<k, i>> \in late', Exists(i)'
             PROVE  \E q \in Replacers : Awaits(q, i)'
  BY DEF Awaited
<1>1. /\ Turn(r) /\ Testifies(r) /\ Records(r) /\ Makes(r)
      /\ rpc[r] \notin {"lock", "release"} => held' = held
      /\ \A q \in Replacers \ {r} : held[Lock(q)] = q => held'[Lock(q)] = q
  BY DEF Alters
<1>2. /\ Postpones(r) /\ Newborn(r) /\ Dormant(r) /\ Follows(r)
      /\ r \in Ids /\ Home(r) = Target[r]
  BY AlterFacts
<1>3. CASE <<k, i>> \in late
  <2>1. Exists(i) BY <1>1, <1>2, <1>3 DEF Makes, Newborn, Before
  <2>2. PICK q \in Replacers : Awaits(q, i) BY <1>3, <2>1 DEF Singly, Awaited
  <2>3. CASE q # r
    <3>1. rpc'[q] = rpc[q] /\ op'[q] = op[q] /\ journal'[q] = journal[q] /\ held'[Lock(q)] = q
      BY <1>1, <2>2, <2>3 DEF Records, Awaits
    <3> QED BY <2>2, <3>1 DEF Awaits, Open, Lock
  <2>4. CASE q = r /\ rpc[r] = "discard"
    <3>1. i = r /\ op[r].cand /\ held[Lock(r)] = r BY <2>2, <2>4 DEF Awaits, Open, Ended
    <3>2. held' = held /\ rpc[r] \in Repairing BY <1>1, <2>4, StepFacts
    <3>3. rpc'[r] \in {"homeward", "done", "crashed"}
      BY <1>1, <2>4 DEF Turn, Advance, Creates, Retires, Retreat, Passes, Goes, Hop, Early
    <3>4. rpc'[r] # "homeward"
      <4> SUFFICES ASSUME rpc'[r] = "homeward" PROVE FALSE OBVIOUS
      <4>1. Carried("remove", r)
        BY <1>1, <2>1, <2>4, <3>1 DEF Turn, Advance, Creates, Retires, Retreat, Passes, Goes, Hop, Early
      <4>2. "remove" \in Kinds /\ DaemonTypeOK BY DEF Kinds, IInv, TypeOK
      <4>3. Attributes("remove", r) BY <1>2, <4>1, <4>2, EffectFields DEF Carried
      <4> QED BY <3>1, <4>3 DEF Attributes, Exists
    <3>5. journal'[r] \in Changing BY <1>1, <3>2, <3>3, <3>4 DEF Testifies
    <3> QED BY <1>2, <3>1, <3>2, <3>3, <3>4, <3>5 DEF Awaits, Open, Ended, Lock
  <2>5. CASE q = r /\ Open(r)
    <3>1. rpc[r] = "release" /\ journal[r] \notin Settled
      BY <1>1, <2>5, PhaseFacts DEF Records, Ended, Open
    <3>2. rpc'[r] \in Ended /\ journal'[r] = journal[r] /\ held' = held BY <1>1, <3>1 DEF Records
    <3> QED BY <2>2, <2>5, <3>2 DEF Awaits, Lock, Open
  <2> QED BY <2>2, <2>3, <2>4, <2>5 DEF Awaits
<1>4. CASE <<k, i>> \notin late
  <2>1. /\ held' = held
        /\ \/ i = r /\ rpc[r] = "start" /\ rpc'[r] = "discard" /\ Unaltered(r)
           \/ i \in {r, Old(r)} /\ rpc[r] \in Backward /\ rpc'[r] = "done"
           \/ /\ i = Old(r) /\ rpc[r] = "remove" /\ rpc'[r] = "release"
              /\ journal'[r] \in {"committed", "cleanup_required"}
    BY <1>2, <1>4 DEF Postpones
  <2>2. rpc[r] \in Repairing \cup {"remove"} BY <2>1, StepFacts DEF Repairing
  <2>3. held[Lock(r)] = r /\ Home(Old(r)) = Target[r] BY <2>2, WorkerHolds
  <2>4. CASE i = r /\ rpc[r] = "start" /\ rpc'[r] = "discard" /\ Unaltered(r)
    <3>1. op'[r].cand BY <1>2, <2>4 DEF Dormant, Unaltered
    <3> QED BY <1>2, <2>1, <2>3, <2>4, <3>1 DEF Awaits, Lock
  <2>5. CASE i \in {r, Old(r)} /\ rpc[r] \in Backward /\ rpc'[r] = "done"
    <3>1. journal'[r] \in Changing BY <1>1, <2>5 DEF Testifies, Repairing
    <3> QED BY <1>2, <2>1, <2>3, <2>5, <3>1 DEF Awaits, Open, Ended, Lock
  <2>6. CASE i = Old(r) /\ rpc'[r] = "release" /\ journal'[r] \in {"committed", "cleanup_required"}
    BY <2>1, <2>3, <2>6 DEF Awaits, Open, Ended, Lock
  <2> QED BY <2>1, <2>4, <2>5, <2>6
<1> QED BY <1>3, <1>4

LEMMA AltersSingly ==
  ASSUME IInv, Survival, Singly, NEW r \in Replacers, Alters(r)
  PROVE  Singly'
<1>1. \A q \in Replacers : Newborn(q)' /\ Dormant(q)' /\ Retired(q)' /\ Sole(q)'
  BY NewbornStays, DormantStays, RetiredStays, SoleStays
<1>2. OneLive'
  <2> SUFFICES ASSUME NEW i \in Ids, NEW j \in Ids, i # j, Home(i) = Home(j), CanRun(i)', CanRun(j)'
               PROVE  FALSE
    BY DEF OneLive
  <2>1. ~CanRun(i) \/ ~CanRun(j) BY DEF Singly, OneLive
  <2> QED BY <2>1, AloneWhenRoused
<1>3. GoneIsDown'
  <2>1. Turn(r) /\ Knows(r) /\ DaemonTypeOK /\ GoneIsDown BY AlterFacts DEF Alters
  <2> QED BY <2>1, TurnsShow DEF GoneIsDown, Knows
<1>4. \A i \in Ids : <<"create", i>> \in late' => i \in Replacers
  BY DEF Alters, Makes, Singly
<1> QED BY <1>1, <1>2, <1>3, <1>4, AwaitedStays DEF Singly

LEMMA InitSingly == Init => Singly
<1> SUFFICES ASSUME Init PROVE Singly OBVIOUS
<1>1. late = {} /\ \A i \in Ids : box[i] \in {Gone, Fresh, Started(Fresh)} BY DEF Init, DaemonInit
<1>2. \A r \in Replacers : rpc[r] = "idle" /\ Old(r) = NoOne /\ box[r] = Gone
  BY DEF Init, ReplacementInit, DaemonInit, Nothing, Old
<1>3. /\ ~Gone.up /\ Gone.at = "gone" /\ Fresh.at = "home" /\ ~Fresh.up /\ Fresh.starts = 0
      /\ Started(Fresh).at = "home"
  BY DEF Gone, Fresh, Started
<1>4. \A r \in Replacers : ~Exists(r) BY <1>2, <1>3 DEF Exists
<1>5. \A r \in Replacers : r # NoOne BY DaemonAssumption DEF Actors
<1>6. "idle" \notin Repairing /\ "idle" \in Before BY StepFacts DEF Before
<1>7. \A i, j \in Ids : i # j /\ Home(i) = Home(j) => i \in Replacers \/ j \in Replacers
  BY DEF Ids, Home
<1>8. OneLive BY <1>4, <1>7 DEF OneLive, CanRun
<1>9. GoneIsDown BY <1>1, <1>3 DEF GoneIsDown, Exists
<1>10. \A r \in Replacers : Newborn(r) /\ Dormant(r) /\ Retired(r) /\ Sole(r)
  BY <1>1, <1>2, <1>4, <1>5, <1>6 DEF Newborn, Dormant, Retired, Sole, CanRun
<1> QED BY <1>1, <1>8, <1>9, <1>10 DEF Singly, Awaited

LEMMA StepSingly ==
  ASSUME IInv, Survival, Singly, [Next]_vars
  PROVE  Singly'
<1>1. Survival' BY StepSurvives
<1> QED BY <1>1, StepCases, AltersSingly, DriftSingly

(* At most one container of a name runs at a time, on any number of        *)
(* containers, whatever is lost, crashes or is carried out late.           *)
THEOREM OneWriterHolds == Spec => []OneWriter
<1>1. Singly => OneWriter BY DEF Singly, OneLive, GoneIsDown, OneWriter, CanRun
<1> DEFINE Inv == IInv /\ Survival /\ Singly
<1>2. Init => Inv BY InitHolds, InitSurvives, InitSingly
<1>3. Inv /\ [Next]_vars => Inv' BY StepHolds, StepSurvives, StepSingly
<1>4. Inv => OneWriter BY <1>1
<1> HIDE DEF Inv
<1> QED BY <1>2, <1>3, <1>4, PTL DEF Spec

(***************************************************************************)
(* Whole names: UnlockedIsWhole, when neither a rename nor a stop, a new   *)
(* restart policy or a disconnection is carried out late.                  *)
(***************************************************************************)
Takes == {"rename", "stop", "policy", "disconnect"}

OneAtHome == \A i, j \in Ids : Home(i) = Home(j) /\ box[i].at = "home" /\ box[j].at = "home" => i = j

(* Only containers of a name that was in service are started.              *)
Births ==
  /\ \A i \in Ids : box[i].up => box[i].starts > 0
  /\ \A i \in Ids : box[i].starts > 0 \/ <<"start", i>> \in late => Served(Home(i))

(* A name is whole, or a replacement that keeps its reservation has it.    *)
Mended(i) == box[i].at = "home" /\ box[i].policy /\ box[i].net
Whole(n)  ==
  /\ Served(n) => \E i \in Ids : Home(i) = n /\ box[i].at = "home"
  /\ \A i \in Ids : Home(i) = n /\ box[i].at = "home" => Mended(i) /\ (box[i].up <=> Served(n))
Unsettled(n) ==
  \E r \in Replacers : /\ Target[r] = n /\ held[Lock(r)] = r
                       /\ rpc[r] \in Repairing \cup {"remove"} \/ Open(r)
Wholeness == \A n \in Names : Whole(n) \/ Unsettled(n)

(* What a replacement remembers is what the name was in service with.      *)
Recalls(r) == rpc[r] \in Repairing \cup {"remove"} => Was(r).policy /\ (Was(r).up <=> Served(Target[r]))

(* How far it has brought its original back; how far its candidate is fit. *)
Mends(r) ==
  /\ rpc[r] \in Repairing /\ ~op[r].cut => box[Old(r)].net
  /\ rpc[r] \in {"reconnect", "repolicy", "restart", "reverify"} => box[Old(r)].at = "home"
  /\ rpc[r] \in {"repolicy", "restart", "reverify"} => box[Old(r)].net
  /\ rpc[r] \in {"restart", "reverify"} => box[Old(r)].policy
Fit(r) ==
  /\ rpc[r] \in {"start", "verify", "commit", "remove"} => Mended(r)
  /\ rpc[r] \in {"commit", "remove"} => (box[r].up <=> Served(Target[r]))

Repair ==
  /\ OneAtHome /\ Births /\ Wholeness
  /\ \A r \in Replacers : Recalls(r) /\ Mends(r) /\ Fit(r)

(* At which steps a replacement disconnects, creates and starts.           *)
Asks(r, k, i) ==
  /\ k = "disconnect" => rpc[r] = "disconnect"
  /\ k = "create" => i = r /\ rpc[r] = "create"
  /\ k = "start" => Was(r).up /\ ((i = r /\ rpc[r] = "start") \/ (i = Old(r) /\ rpc[r] = "restart"))

LEMMA TurnsAsk ==
  ASSUME NEW r \in Replacers, Turn(r)
  PROVE  Calm \/ \E k \in Kinds, i \in {r, Old(r)} : (Carried(k, i) \/ Missed(k, i)) /\ Asks(r, k, i)
<1>1. {"policy", "stop", "start", "disconnect", "create", "remove", "homeward", "reconnect", "repolicy", "rename"}
        \subseteq Kinds
  BY DEF Kinds
<1> DEFINE Asked == \E k \in Kinds, i \in {r, Old(r)} : (Carried(k, i) \/ Missed(k, i)) /\ Asks(r, k, i)
<1>2. ASSUME NEW s, NEW k \in Kinds, NEW i \in {r, Old(r)}, NEW t, NEW f, Goes(r, s, k, i, t, f), Asks(r, k, i)
      PROVE  Asked
  BY <1>2 DEF Goes
<1>3. \A k \in Kinds \ {"create", "start", "disconnect"}, i \in {r, Old(r)} : Asks(r, k, i) BY DEF Asks
<1>4. CASE Advance(r)
  <2>1. {"policy", "rename", "stop"} \subseteq Kinds \ {"create", "start", "disconnect"} BY <1>1
  <2>3. CASE Goes(r, "disconnect", "disconnect", Old(r), "create", "discard")
    <3>1. Asks(r, "disconnect", Old(r)) BY <2>3 DEF Goes, Asks
    <3> QED BY <1>1, <1>2, <2>3, <3>1
  <2>2. CASE Was(r).up /\ Goes(r, "start", "start", r, "verify", "discard")
    <3>1. Asks(r, "start", r) BY <2>2 DEF Goes, Asks
    <3> QED BY <1>1, <1>2, <2>2, <3>1
  <2> QED BY <1>2, <1>3, <1>4, <2>1, <2>2, <2>3 DEF Advance
<1>5. CASE Creates(r)
  <2>1. Asks(r, "create", r) BY <1>5 DEF Creates, Asks
  <2> QED BY <1>1, <1>5, <2>1 DEF Creates
<1>6. CASE Retires(r) BY <1>1, <1>3, <1>6 DEF Retires
<1>7. CASE Retreat(r)
  <2>1. {"policy", "remove", "homeward", "reconnect", "repolicy"} \subseteq Kinds \ {"create", "start", "disconnect"}
    BY <1>1
  <2>2. CASE Was(r).up /\ Goes(r, "restart", "start", Old(r), "reverify", "done")
    <3>1. Asks(r, "start", Old(r)) BY <2>2 DEF Goes, Asks
    <3> QED BY <1>1, <1>2, <2>2, <3>1
  <2> QED BY <1>2, <1>3, <1>7, <2>1, <2>2 DEF Retreat
<1>8. CASE Passes(r) BY <1>8 DEF Passes
<1> QED BY <1>4, <1>5, <1>6, <1>7, <1>8 DEF Turn

(* A call that brings a container home finds none there.                   *)
LEMMA CallsLand ==
  ASSUME DaemonTypeOK, OneAtHome, NEW k \in Kinds, NEW i \in Ids, Accepts(k, i), box' = Effect(k, i)
  PROVE  OneAtHome'
<1>1. (\A j \in Ids : j # i => box'[j] = box[j]) /\ Attributes(k, i) BY EffectFields
<1>2. ASSUME NEW y \in Ids, y # i, Home(y) = Home(i), box'[y].at = "home", box'[i].at = "home"
      PROVE  FALSE
  <2>1. box[y].at = "home" /\ y \in AtHome(Home(i)) BY <1>1, <1>2 DEF AtHome
  <2>2. k \notin {"create", "homeward"} BY <2>1 DEF Accepts
  <2>3. box[i].at = "home" BY <1>1, <1>2, <2>2 DEF Attributes
  <2> QED BY <1>2, <2>1, <2>3 DEF OneAtHome
<1> SUFFICES ASSUME NEW x \in Ids, NEW y \in Ids, Home(x) = Home(y), box'[x].at = "home",
                    box'[y].at = "home", x # y
             PROVE  FALSE
  BY DEF OneAtHome
<1>3. CASE x # i /\ y # i BY <1>1, <1>3 DEF OneAtHome
<1> QED BY <1>2, <1>3

(* What was started stays so, and nothing is started that was not in       *)
(* service.                                                                *)
Bears(j) ==
  /\ box'[j].up => box'[j].starts > 0
  /\ box'[j].starts > 0 \/ <<"start", j>> \in late' => Served(Home(j))
  /\ j \in Names /\ box[j].starts > 0 => box'[j].starts > 0

LEMMA BirthsStay ==
  ASSUME \A j \in Ids : Bears(j)
  PROVE  Births' /\ \A n \in Names : Served(n)' <=> Served(n)
<1>1. \A n \in Names : n \in Ids /\ Home(n) = n BY DEF Ids, Home
<1>2. \A n \in Names : Served(n)' <=> Served(n) BY <1>1 DEF Bears, Served
<1>3. \A j \in Ids : Home(j) \in Names BY DaemonAssumption DEF Home, Ids
<1> QED BY <1>2, <1>3 DEF Births, Bears

LEMMA CallsBear ==
  ASSUME DaemonTypeOK, Births, NEW k \in Kinds, NEW i \in Ids,
         box' = box \/ box' = Effect(k, i), k = "start" => Served(Home(i)), k = "create" => i \in Replacers,
         \A j \in Ids : <<"start", j>> \in late' => <<"start", j>> \in late \/ (k = "start" /\ j = i)
  PROVE  \A j \in Ids : Bears(j)
<1>1. ASSUME NEW j \in Ids, box'[j] = box[j] PROVE Bears(j) BY <1>1 DEF Bears, Births
<1>2. CASE box' = Effect(k, i)
  <2>1. (\A j \in Ids : j # i => box'[j] = box[j]) /\ Attributes(k, i) BY <1>2, EffectFields
  <2>2. box[i].starts \in Nat BY DEF DaemonTypeOK, Boxes
  <2>3. <<"start", i>> \in late' => Served(Home(i)) BY DEF Births
  <2>4. k = "create" => i \notin Names BY DaemonAssumption
  <2>5. Bears(i)
    <3>1. CASE k = "start" BY <2>1, <2>2, <2>3, <3>1 DEF Attributes, Bears
    <3>2. CASE k = "create" BY <2>1, <2>3, <2>4, <3>2 DEF Attributes, Bears
    <3>3. CASE k \notin {"start", "create"} BY <2>1, <2>3, <3>3 DEF Attributes, Bears, Births
    <3> QED BY <3>1, <3>2, <3>3
  <2> QED BY <1>1, <2>1, <2>5
<1> QED BY <1>1, <1>2

LEMMA AltersBear ==
  ASSUME IInv, Survival, Singly, Repair, NEW r \in Replacers, Alters(r)
  PROVE  (\A j \in Ids : Bears(j)) /\ OneAtHome'
<1>1. Turn(r) /\ DaemonTypeOK /\ Births /\ OneAtHome /\ Recalls(r) /\ Knows(r) /\ r \in Ids
  BY AlterFacts DEF Alters, Repair
<1>2. CASE Calm
  <2>1. "start" \in Kinds BY DEF Kinds
  <2> QED BY <1>1, <1>2, <2>1 DEF Calm, Bears, Births, OneAtHome
<1>3. ASSUME NEW k \in Kinds, NEW i \in {r, Old(r)}, Carried(k, i) \/ Missed(k, i), Asks(r, k, i), ~Calm
      PROVE  (\A j \in Ids : Bears(j)) /\ OneAtHome'
  <2>1. rpc[r] # "idle"
    BY <1>1, <1>3 DEF Turn, Advance, Creates, Retires, Retreat, Passes, Goes
  <2>2. i \in Ids /\ Home(i) = Target[r] BY <1>1, <1>3, <2>1, CandidateHome DEF Knows
  <2>3. k = "start" => Served(Home(i))
    BY <1>1, <1>3, <2>2, StepFacts DEF Asks, Recalls
  <2>4. k = "create" => i \in Replacers BY <1>3 DEF Asks
  <2>5. \A j \in Ids : <<"start", j>> \in late' => <<"start", j>> \in late \/ (k = "start" /\ j = i)
    BY <1>3 DEF Carried, Missed
  <2>6. box' = box \/ (Accepts(k, i) /\ box' = Effect(k, i)) BY <1>3 DEF Carried, Missed
  <2>7. \A j \in Ids : Bears(j) BY <1>1, <2>2, <2>3, <2>4, <2>5, <2>6, CallsBear
  <2>8. OneAtHome'
    <3>1. CASE box' = box BY <1>1, <3>1 DEF OneAtHome
    <3>2. CASE Accepts(k, i) /\ box' = Effect(k, i) BY <1>1, <2>2, <3>2, CallsLand
    <3> QED BY <2>6, <3>1, <3>2
  <2> QED BY <2>7, <2>8
<1> QED BY <1>1, <1>2, <1>3, TurnsAsk

LEMMA WorkerCame ==
  ASSUME ReplacementTypeOK, NEW r \in Replacers, Turn(r), Records(r), rpc'[r] \in Repairing \cup {"remove"}
  PROVE  rpc[r] \in Repairing \cup {"fingerprint"}
<1>1. rpc[r] \in Steps /\ rpc[r] \notin {"done", "crashed"} BY DEF ReplacementTypeOK, Records
<1>2. rpc[r] \notin {"idle", "lock", "barrier", "release", "remove"} \/ rpc'[r] \notin Repairing \cup {"remove"}
  BY StepFacts DEF Turn, Advance, Creates, Retires, Retreat, Passes, Goes, Hop, Early, Ended
<1> QED BY <1>1, <1>2, StepFacts DEF Early, Ended

(* A replacement that finds its original as it was finds its name whole.   *)
LEMMA FingerprintWhole ==
  ASSUME IInv, Survival, Repair, NEW r \in Replacers, rpc[r] = "fingerprint",
         Looks(box[Old(r)]) = Looks(Was(r))
  PROVE  box[Old(r)].net /\ Was(r).policy /\ (Was(r).up <=> Served(Target[r]))
<1>1. DaemonTypeOK /\ ReplacementTypeOK BY DEF IInv, TypeOK
<1>2. held[Lock(r)] = r
  <2>1. "fingerprint" \in Locked BY DEF Locked, AtWork, Forward
  <2> QED BY <2>1 DEF IInv, Handling, ReplacementInv, Handles
<1>3. Old(r) \in Ids /\ Home(Old(r)) = Target[r] /\ Was(r).at = "home"
  BY DEF Survival, Knows, Early
<1>4. box[Old(r)] \in Boxes /\ Was(r) \in Boxes
  BY <1>1, <1>3 DEF DaemonTypeOK, ReplacementTypeOK, Was
<1>5. /\ box[Old(r)].at = "home" /\ box[Old(r)].up = Was(r).up
      /\ box[Old(r)].policy = Was(r).policy /\ box[Old(r)].net = Was(r).net
  BY <1>3, <1>4 DEF Looks, Boxes
<1>6. Target[r] \in Names BY DaemonAssumption
<1>7. ~Unsettled(Target[r])
  <2> SUFFICES ASSUME NEW q \in Replacers, Target[q] = Target[r], held[Lock(q)] = q,
                      rpc[q] \in Repairing \cup {"remove"} \/ Open(q)
               PROVE  FALSE
    BY DEF Unsettled
  <2>1. q = r BY <1>2, OneHolder
  <2> QED BY <2>1, StepFacts DEF Open, Ended, Early
<1>8. Whole(Target[r]) BY <1>6, <1>7 DEF Repair, Wholeness
<1> QED BY <1>3, <1>5, <1>8 DEF Whole, Mended

LEMMA RecallsStay ==
  ASSUME IInv, Survival, Repair, NEW r \in Replacers, Alters(r), \A n \in Names : Served(n)' <=> Served(n),
         NEW q \in Replacers
  PROVE  Recalls(q)'
<1>1. Turn(r) /\ Records(r) /\ ReplacementTypeOK /\ Recalls(q) /\ Target[q] \in Names
  BY DaemonAssumption DEF Alters, IInv, TypeOK, Repair
<1>2. CASE q # r
  <2>1. rpc'[q] = rpc[q] /\ op'[q] = op[q] BY <1>1, <1>2 DEF Records
  <2> QED BY <1>1, <2>1 DEF Recalls, Was
<1>3. CASE q = r
  <2> SUFFICES ASSUME rpc'[r] \in Repairing \cup {"remove"}
               PROVE  Was(r)'.policy /\ (Was(r)'.up <=> Served(Target[r]))
    BY <1>1, <1>3 DEF Recalls
  <2>1. rpc[r] \in Repairing \cup {"fingerprint"} BY <1>1, WorkerCame
  <2>2. /\ Was(r)' = Was(r)
        /\ rpc[r] = "fingerprint" => Looks(box[Old(r)]) = Looks(Was(r))
    BY <1>1, <2>1, WorkerRemembers
  <2> QED BY <1>1, <1>3, <2>1, <2>2, FingerprintWhole DEF Recalls
<1> QED BY <1>2, <1>3

LEMMA MendsStay ==
  ASSUME IInv, Survival, Singly, Repair, NEW r \in Replacers, Alters(r), NEW q \in Replacers
  PROVE  Mends(q)'
<1>1. Turn(r) /\ Records(r) /\ DaemonTypeOK /\ ReplacementTypeOK /\ Mends(q) /\ Recalls(r)
  BY AlterFacts DEF Alters, Repair
<1>2. {"reconnect", "repolicy", "restart", "reverify"} \subseteq Repairing BY StepFacts
<1>3. CASE q # r
  <2>1. rpc'[q] = rpc[q] /\ op'[q] = op[q] BY <1>1, <1>3 DEF Records
  <2>2. rpc[q] \in Repairing => box'[op'[q].old] = box[Old(q)]
    <3> SUFFICES ASSUME rpc[q] \in Repairing PROVE box'[op'[q].old] = box[Old(q)] OBVIOUS
    <3>1. held[Lock(q)] = q /\ Old(q) \in Ids /\ Home(Old(q)) = Target[q] BY WorkerHolds
    <3>2. box'[Old(q)] = box[Old(q)] BY <1>3, <3>1, AlterFacts, OthersSpare DEF Spares
    <3> QED BY <2>1, <3>2 DEF Old
  <2> QED BY <1>1, <1>2, <2>1, <2>2 DEF Mends, Old
<1>4. CASE q = r
  <2> SUFFICES ASSUME rpc'[r] \in Repairing PROVE Mends(r)' BY <1>2, <1>4 DEF Mends
  <2>1. rpc[r] \in Repairing \cup {"fingerprint"} BY <1>1, WorkerCame
  <2>2. /\ op'[r].old = Old(r) /\ op'[r].cut = (op[r].cut \/ rpc[r] = "disconnect")
        /\ rpc[r] = "fingerprint" => /\ rpc'[r] = "policy" /\ Calm
                                     /\ Looks(box[Old(r)]) = Looks(Was(r))
    BY <1>1, <2>1, WorkerRemembers DEF Old
  <2>3. Old(r) \in Ids /\ Old(r) # r
    BY <2>1, StepFacts DEF Survival, Knows
  <2> DEFINE i == Old(r)
  <2>4. CASE rpc[r] = "fingerprint"
    <3>1. box[i].net BY <2>2, <2>4, FingerprintWhole
    <3>2. box'[i].net BY <2>2, <2>4, <3>1 DEF Calm
    <3> QED BY <2>2, <2>4, <3>2 DEF Mends, Old
  <2>5. CASE rpc[r] \in Repairing
    <3>1. /\ ~op[r].cut => box[i].net
          /\ rpc[r] \in {"reconnect", "repolicy", "restart", "reverify"} => box[i].at = "home"
          /\ rpc[r] \in {"repolicy", "restart", "reverify"} => box[i].net
          /\ rpc[r] \in {"restart", "reverify"} => box[i].policy
      BY <1>1, <1>4, <2>5 DEF Mends
    <3>2. rpc[r] # "disconnect" /\ box[i].net => box'[i].net
      <4> SUFFICES ASSUME rpc[r] # "disconnect", box[i].net PROVE box'[i].net OBVIOUS
      <4>1. CASE Calm BY <4>1 DEF Calm
      <4>2. ASSUME NEW k \in Kinds, NEW j \in {r, Old(r)}, Carried(k, j) \/ Missed(k, j), Asks(r, k, j)
            PROVE  box'[i].net
        <5>1. CASE Missed(k, j) BY <5>1 DEF Missed
        <5>2. CASE Carried(k, j)
          <6>1. j \in Ids BY <2>3, LockFacts
          <6>2. (\A x \in Ids : x # j => box'[x] = box[x]) /\ Attributes(k, j)
            BY <1>1, <5>2, <6>1, EffectFields DEF Carried
          <6>3. k # "disconnect" BY <4>2 DEF Asks
          <6> QED BY <2>3, <6>1, <6>2, <6>3 DEF Attributes
        <5> QED BY <4>2, <5>1, <5>2
      <4> QED BY <1>1, <4>1, <4>2, TurnsAsk
    <3>3. {"homeward", "reconnect", "repolicy", "start"} \subseteq Kinds BY DEF Kinds
    <3>4. ASSUME NEW k \in {"homeward", "reconnect", "repolicy", "start"}, Carried(k, i) PROVE Attributes(k, i)
      BY <1>1, <2>3, <3>3, <3>4, EffectFields DEF Carried
    <3>5. CASE rpc'[r] = "reconnect"
      <4>1. rpc[r] = "homeward" /\ (Carried("homeward", i) \/ (Calm /\ box[i].at = "home"))
        BY <1>1, <3>5 DEF Turn, Advance, Creates, Retires, Retreat, Passes, Goes, Hop, Early
      <4>2. box'[i].at = "home" BY <3>4, <4>1 DEF Attributes, Calm
      <4> QED BY <2>2, <3>1, <3>2, <3>5, <4>1, <4>2 DEF Mends, Old
    <3>6. CASE rpc'[r] = "repolicy"
      <4>1. /\ rpc[r] = "reconnect"
            /\ Carried("reconnect", i) \/ (Calm /\ ~(op[r].cut /\ ~box[i].net))
        BY <1>1, <3>6 DEF Turn, Advance, Creates, Retires, Retreat, Passes, Goes, Hop, Early
      <4>2. box'[i].at = "home" BY <3>1, <3>4, <4>1 DEF Attributes, Calm
      <4>3. box'[i].net BY <3>1, <3>4, <4>1 DEF Attributes, Calm
      <4> QED BY <2>2, <3>6, <4>2, <4>3 DEF Mends, Old
    <3>7. CASE rpc'[r] = "restart"
      <4>1. rpc[r] = "repolicy" /\ (Carried("repolicy", i) \/ ~Was(r).policy)
        BY <1>1, <3>7 DEF Turn, Advance, Creates, Retires, Retreat, Passes, Goes, Hop, Early
      <4>2. Attributes("repolicy", i) BY <1>1, <2>5, <3>4, <4>1 DEF Recalls
      <4>3. box'[i].at = "home" /\ box'[i].net /\ box'[i].policy BY <3>1, <4>1, <4>2 DEF Attributes
      <4> QED BY <2>2, <3>7, <4>3 DEF Mends, Old
    <3>8. CASE rpc'[r] = "reverify"
      <4>1. rpc[r] = "restart" /\ (Carried("start", i) \/ Calm)
        BY <1>1, <3>8 DEF Turn, Advance, Creates, Retires, Retreat, Passes, Goes, Hop, Early
      <4>2. box'[i].at = "home" /\ box'[i].net /\ box'[i].policy
        BY <3>1, <3>4, <4>1 DEF Attributes, Calm
      <4> QED BY <2>2, <3>8, <4>2 DEF Mends, Old
    <3>9. CASE rpc'[r] \notin {"reconnect", "repolicy", "restart", "reverify"}
      BY <2>2, <3>1, <3>2, <3>9 DEF Mends, Old
    <3> QED BY <3>5, <3>6, <3>7, <3>8, <3>9
  <2> QED BY <2>1, <2>4, <2>5
<1> QED BY <1>3, <1>4

LEMMA FitStays ==
  ASSUME IInv, Survival, Singly, Repair, NEW r \in Replacers, Alters(r),
         \A n \in Names : Served(n)' <=> Served(n), NEW q \in Replacers
  PROVE  Fit(q)'
<1>1. /\ Turn(r) /\ Records(r) /\ DaemonTypeOK /\ Fit(q) /\ Recalls(r) /\ Target[q] \in Names
      /\ q \in Ids /\ Home(q) = Target[q]
  BY DaemonAssumption, CandidateHome DEF Alters, IInv, TypeOK, Repair
<1>2. {"start", "verify", "commit", "remove"} \subseteq Repairing \cup {"remove"} BY StepFacts
<1>3. CASE q # r
  <2>1. rpc'[q] = rpc[q] BY <1>1, <1>3 DEF Records
  <2>2. rpc[q] \in Repairing \cup {"remove"} => box'[q] = box[q]
    <3> SUFFICES ASSUME rpc[q] \in Repairing \cup {"remove"} PROVE box'[q] = box[q] OBVIOUS
    <3>1. held[Lock(q)] = q BY WorkerHolds
    <3> QED BY <1>1, <1>3, <3>1, AlterFacts, OthersSpare DEF Spares
  <2> QED BY <1>1, <1>2, <2>1, <2>2 DEF Fit, Mended
<1>4. CASE q = r
  <2>1. {"create", "start"} \subseteq Kinds BY DEF Kinds
  <2>2. ASSUME NEW k \in {"create", "start"}, Carried(k, r) PROVE Attributes(k, r)
    BY <1>1, <1>4, <2>1, <2>2, EffectFields DEF Carried
  <2>3. CASE rpc'[r] = "start"
    <3>1. Carried("create", r)
      BY <1>1, <2>3 DEF Turn, Advance, Creates, Retires, Retreat, Passes, Goes, Hop, Early
    <3>2. Attributes("create", r) BY <2>2, <3>1
    <3> QED BY <1>4, <2>3, <3>2 DEF Attributes, Fit, Mended
  <2>4. CASE rpc'[r] = "verify"
    <3>1. rpc[r] = "start" /\ (Carried("start", r) \/ Calm)
      BY <1>1, <2>4 DEF Turn, Advance, Creates, Retires, Retreat, Passes, Goes, Hop, Early
    <3>2. Mended(r) BY <1>1, <1>4, <3>1 DEF Fit
    <3>3. box'[r].at = box[r].at /\ box'[r].policy = box[r].policy /\ box'[r].net = box[r].net
      BY <2>2, <3>1 DEF Attributes, Calm
    <3> QED BY <1>4, <2>4, <3>2, <3>3 DEF Fit, Mended
  <2>5. CASE rpc'[r] = "commit"
    <3>1. rpc[r] = "verify" /\ Calm /\ box[r].up = Was(r).up
      BY <1>1, <2>5 DEF Turn, Advance, Creates, Retires, Retreat, Passes, Goes, Hop, Early
    <3>2. Mended(r) /\ (box[r].up <=> Served(Target[r]))
      BY <1>1, <1>2, <1>4, <3>1 DEF Fit, Recalls
    <3> QED BY <1>1, <1>4, <2>5, <3>1, <3>2 DEF Fit, Mended, Calm
  <2>6. CASE rpc'[r] = "remove"
    <3>1. rpc[r] = "commit" /\ Calm
      BY <1>1, <2>6 DEF Turn, Advance, Creates, Retires, Retreat, Passes, Goes, Hop, Early
    <3> QED BY <1>1, <1>4, <2>6, <3>1 DEF Fit, Mended, Calm
  <2> QED BY <1>4, <2>3, <2>4, <2>5, <2>6 DEF Fit
<1> QED BY <1>3, <1>4

(* The candidate is all that carries the name once the original is gone.   *)
LEMMA WholeByCandidate ==
  ASSUME IInv, Survival, Repair, NEW r \in Replacers, rpc[r] = "remove", Carried("remove", Old(r)),
         \A n \in Names : Served(n)' <=> Served(n)
  PROVE  Whole(Target[r])'
<1>1. DaemonTypeOK /\ OneAtHome /\ Fit(r) /\ Target[r] \in Names /\ r \in Ids /\ Home(r) = Target[r]
  BY CandidateHome, DaemonAssumption DEF IInv, TypeOK, Repair
<1>2. Old(r) \in Ids /\ Old(r) # r BY WorkerHolds
<1>3. "remove" \in Kinds BY DEF Kinds
<1>4. (\A j \in Ids : j # Old(r) => box'[j] = box[j]) /\ Attributes("remove", Old(r))
  BY <1>1, <1>2, <1>3, EffectFields DEF Carried
<1>5. box[r].at = "home" /\ box[r].policy /\ box[r].net /\ (box[r].up <=> Served(Target[r]))
  BY <1>1 DEF Fit, Mended
<1>6. \A i \in Ids : Home(i) = Target[r] /\ box'[i].at = "home" => i = r
  <2> SUFFICES ASSUME NEW i \in Ids, Home(i) = Target[r], box'[i].at = "home" PROVE i = r OBVIOUS
  <2>1. i # Old(r) BY <1>4 DEF Attributes
  <2>2. box[i].at = "home" BY <1>4, <2>1
  <2> QED BY <1>1, <1>5, <2>2 DEF OneAtHome
<1>7. box'[r] = box[r] BY <1>1, <1>2, <1>4
<1> QED BY <1>1, <1>5, <1>6, <1>7 DEF Whole, Mended

(* The original is whole once its recovery has been verified.              *)
LEMMA WholeByOriginal ==
  ASSUME IInv, Survival, Repair, NEW r \in Replacers, rpc[r] = "reverify", Calm, box[Old(r)].up = Was(r).up,
         \A n \in Names : Served(n)' <=> Served(n)
  PROVE  Whole(Target[r])'
<1>1. OneAtHome /\ Mends(r) /\ Recalls(r) /\ Target[r] \in Names /\ "reverify" \in Repairing
  BY DaemonAssumption, StepFacts DEF Repair
<1>2. Old(r) \in Ids /\ Home(Old(r)) = Target[r] BY <1>1, WorkerHolds
<1>3. /\ box[Old(r)].at = "home" /\ box[Old(r)].policy /\ box[Old(r)].net
      /\ (box[Old(r)].up <=> Served(Target[r]))
  BY <1>1 DEF Mends, Recalls
<1>4. \A i \in Ids : Home(i) = Target[r] /\ box[i].at = "home" => i = Old(r)
  BY <1>1, <1>2, <1>3 DEF OneAtHome
<1>5. box' = box BY DEF Calm
<1> QED BY <1>1, <1>2, <1>3, <1>4, <1>5 DEF Whole, Mended

LEMMA UnsettledGoesOn ==
  ASSUME IInv, Survival, Singly, Repair, NEW r \in Replacers, Alters(r),
         \A n \in Names : Served(n)' <=> Served(n), NEW n \in Names, Unsettled(n)
  PROVE  Whole(n)' \/ Unsettled(n)'
<1>1. /\ Turn(r) /\ Testifies(r) /\ Records(r)
      /\ rpc[r] \notin {"lock", "release"} => held' = held
      /\ \A q \in Replacers \ {r} : held[Lock(q)] = q => held'[Lock(q)] = q
  BY DEF Alters
<1>2. PICK q \in Replacers : /\ Target[q] = n /\ held[Lock(q)] = q
                             /\ rpc[q] \in Repairing \cup {"remove"} \/ Open(q)
  BY DEF Unsettled
<1>3. CASE q # r
  <2>1. rpc'[q] = rpc[q] /\ journal'[q] = journal[q] /\ held'[Lock(q)] = q
    BY <1>1, <1>2, <1>3 DEF Records
  <2> QED BY <1>2, <2>1 DEF Unsettled, Open, Lock
<1>4. CASE q = r /\ Open(r)
  <2>1. rpc[r] = "release" /\ journal[r] \notin Settled BY <1>1, <1>4, PhaseFacts DEF Records, Ended, Open
  <2>2. rpc'[r] \in Ended /\ journal'[r] = journal[r] /\ held' = held BY <1>1, <2>1 DEF Records
  <2> QED BY <1>2, <1>4, <2>2 DEF Unsettled, Open, Lock
<1>5. CASE q = r /\ rpc[r] \in Repairing \cup {"remove"}
  <2>1. held'[Lock(r)] = r BY <1>1, <1>2, <1>5, StepFacts DEF Early, Ended
  <2>2. rpc'[r] \in Repairing \cup {"remove", "release", "done", "crashed"}
    <3>1. rpc[r] \notin Early \cup {"idle"} BY <1>5, StepFacts
    <3> QED BY <1>1, <3>1, StepFacts DEF Turn, Advance, Creates, Retires, Retreat, Passes, Goes, Hop
  <2>3. CASE rpc'[r] \in Repairing \cup {"remove"} BY <1>2, <1>5, <2>1, <2>3 DEF Unsettled, Lock
  <2>4. CASE rpc'[r] \in {"done", "crashed"}
    <3>1. journal'[r] \in Changing \cup {"committed"} BY <1>1, <1>5, <2>4 DEF Testifies
    <3> QED BY <1>2, <1>5, <2>1, <2>4, <3>1 DEF Unsettled, Open, Ended, Lock
  <2>5. CASE rpc'[r] = "release"
    <3>1. \/ Retires(r)
          \/ rpc[r] = "reverify" /\ Calm /\ box[Old(r)].up = Was(r).up
      <4>1. rpc[r] \notin Early BY <1>5, StepFacts
      <4> QED BY <1>1, <2>5, <4>1 DEF Turn, Advance, Creates, Retreat, Passes, Goes, Hop
    <3>2. CASE rpc[r] = "reverify" /\ Calm /\ box[Old(r)].up = Was(r).up
      <4>1. Whole(Target[r])' BY <3>2, WholeByOriginal
      <4> QED BY <1>2, <1>5, <4>1
    <3>3. CASE rpc[r] = "remove" /\ Carried("remove", Old(r))
      <4>1. Whole(Target[r])' BY <3>3, WholeByCandidate
      <4> QED BY <1>2, <1>5, <4>1
    <3>4. CASE journal'[r] \in {"committed", "cleanup_required"}
      BY <1>2, <1>5, <2>1, <2>5, <3>4 DEF Unsettled, Open, Ended, Lock
    <3> QED BY <3>1, <3>2, <3>3, <3>4 DEF Retires
  <2> QED BY <2>2, <2>3, <2>4, <2>5
<1> QED BY <1>2, <1>3, <1>4, <1>5

LEMMA WholeGoesOn ==
  ASSUME IInv, Survival, Singly, NEW r \in Replacers, Alters(r),
         \A n \in Names : Served(n)' <=> Served(n), NEW n \in Names, Whole(n), ~Unsettled(n)
  PROVE  Whole(n)'
<1>1. Rouses(r) /\ r \in Ids /\ Home(r) = Target[r] BY AlterFacts
<1>2. \A j \in Ids : Home(j) = n => box'[j] = box[j]
  <2> SUFFICES ASSUME NEW j \in Ids, Home(j) = n, ~Spares(j) PROVE FALSE BY DEF Spares
  <2>1. rpc[r] \in Repairing \cup {"remove"} /\ j \in {r, Old(r)} BY <1>1 DEF Rouses
  <2>2. held[Lock(r)] = r /\ Home(Old(r)) = Target[r] BY <2>1, WorkerHolds
  <2> QED BY <1>1, <2>1, <2>2 DEF Unsettled
<1> QED BY <1>2 DEF Whole, Mended

LEMMA AltersRepair ==
  ASSUME IInv, Survival, Singly, Repair, NEW r \in Replacers, Alters(r)
  PROVE  Repair'
<1>1. OneAtHome' /\ Births' /\ \A n \in Names : Served(n)' <=> Served(n) BY AltersBear, BirthsStay
<1>2. \A q \in Replacers : Recalls(q)' /\ Mends(q)' /\ Fit(q)'
  BY <1>1, RecallsStay, MendsStay, FitStays
<1>3. Wholeness'
  BY <1>1, UnsettledGoesOn, WholeGoesOn DEF Repair, Wholeness
<1> QED BY <1>1, <1>2, <1>3 DEF Repair

(* The same for what happens by itself or late, to container j.            *)
Cycles(j) ==
  /\ Exists(j) /\ Exists(j)'
  /\ box'[j].at = box[j].at /\ box'[j].policy = box[j].policy /\ box'[j].net = box[j].net
  /\ box[j].up /\ box[j].policy => box'[j].up
  /\ box'[j].up => box[j].up \/ box[j].starts > 0
Vanishes(j) == ~Exists(j)' /\ (Exists(j) => (Reclaiming /\ ~box[j].up) \/ <<"remove", j>> \in late)
Appears(j)  == box'[j] = Fresh /\ AtHome(Home(j)) = {} /\ ~Exists(j)
Answers(j)  == \E k \in Belated : <<k, j>> \in late /\ Exists(j) /\ Attributes(k, j)
Strays(j)   == box'[j] = box[j] \/ Cycles(j) \/ Vanishes(j) \/ Appears(j) \/ Answers(j)

LEMMA DriftStrays ==
  ASSUME DaemonTypeOK, GoneIsDown, Births, OneAtHome, Punctually(Takes), Drift,
         \A i \in Ids : <<"create", i>> \in late => i \in Replacers
  PROVE  (\A j \in Ids : Strays(j) /\ Bears(j)) /\ OneAtHome'
<1> DEFINE Good == (\A j \in Ids : Strays(j) /\ Bears(j)) /\ OneAtHome'
<1>1. \A j \in Ids : box[j] \in Boxes BY DEF DaemonTypeOK
<1>2. \A j \in Ids : <<"start", j>> \in late' => <<"start", j>> \in late
  <2>1. "start" \in Kinds \ {"reclaim"} BY DEF Kinds
  <2> QED BY <2>1 DEF Drift
<1>3. ASSUME NEW j \in Ids, box'[j] = box[j] PROVE Strays(j) /\ Bears(j)
  BY <1>2, <1>3 DEF Strays, Bears, Births
<1>4. ASSUME NEW j \in Ids, Exists(j), box[j].starts > 0,
             box'[j] = Started(box[j]) \/ (box'[j] = [box[j] EXCEPT !.up = FALSE] /\ ~box[j].policy)
      PROVE  Strays(j) /\ Bears(j) /\ box'[j].at = box[j].at
  <2>1. /\ box'[j].at = box[j].at /\ box'[j].policy = box[j].policy /\ box'[j].net = box[j].net
        /\ box[j].up /\ box[j].policy => box'[j].up
        /\ box'[j].starts \in {box[j].starts, box[j].starts + 1} /\ box[j].starts \in Nat
    BY <1>1, <1>4 DEF Started, Boxes
  <2>2. box'[j].starts > 0 BY <1>4, <2>1
  <2>3. Served(Home(j)) BY <1>4 DEF Births
  <2> QED BY <1>4, <2>1, <2>2, <2>3 DEF Strays, Cycles, Bears, Exists
<1>5. ASSUME NEW j \in Ids, box'[j] = Removed(box[j]), Exists(j) => ~box[j].up, Reclaiming
      PROVE  Strays(j) /\ Bears(j) /\ box'[j].at = "gone"
  <2>1. box'[j].at = "gone" /\ ~box'[j].up /\ box'[j].starts = box[j].starts
    BY <1>5 DEF Removed, Gone
  <2>2. Bears(j) BY <1>2, <2>1 DEF Bears, Births
  <2>3. Strays(j) BY <1>5, <2>1 DEF Strays, Vanishes, Exists
  <2> QED BY <2>1, <2>2, <2>3
<1>6. ASSUME \A j \in Ids : box'[j].at \in {box[j].at, "gone"} PROVE OneAtHome'
  BY <1>6 DEF OneAtHome
<1>7. CASE box' = box BY <1>3, <1>6, <1>7
<1>8. CASE Reclaiming /\ box' = Swept
  <2>1. \A j \in Ids : box'[j] = box[j] \/ (box'[j] = Removed(box[j]) /\ ~box[j].up) BY <1>8 DEF Swept
  <2> QED BY <1>3, <1>5, <1>6, <1>8, <2>1
<1>9. ASSUME NEW k \in Kinds, NEW i \in Ids, Accepts(k, i), box' = Effect(k, i),
             (<<k, i>> \in late /\ <<k, i>> \notin late') \/ (k = "reclaim" /\ Reclaiming)
      PROVE  Good
  <2>1. (\A j \in Ids : j # i => box'[j] = box[j]) /\ Attributes(k, i) BY <1>9, EffectFields
  <2>2. k = "start" => Served(Home(i)) BY <1>9 DEF Births
  <2>3. k = "create" => i \in Replacers BY <1>9
  <2>4. \A j \in Ids : Bears(j) BY <1>2, <1>9, <2>2, <2>3, CallsBear
  <2>5. OneAtHome' BY <1>9, CallsLand
  <2>6. Strays(i)
    <3>1. CASE k = "create"
      <4>1. box'[i] = Fresh BY <1>9, <3>1, EffectOn
      <4> QED BY <1>9, <3>1, <4>1 DEF Accepts, Strays, Appears
    <3>2. CASE k = "reclaim"
      <4>1. Exists(i) /\ ~box[i].up BY <1>9, <3>2 DEF Accepts
      <4>2. ~Exists(i)' BY <2>1, <3>2 DEF Attributes, Exists
      <4>3. Reclaiming BY <1>9, <3>2 DEF Reclaiming
      <4> QED BY <4>1, <4>2, <4>3 DEF Strays, Vanishes
    <3>3. CASE k \in Belated
      <4>1. Exists(i) BY <1>9, <3>3 DEF Accepts, Belated
      <4>2. <<k, i>> \in late BY <1>9, <3>3 DEF Belated
      <4> QED BY <2>1, <3>3, <4>1, <4>2 DEF Strays, Answers
    <3>4. k \notin Takes BY <1>9 DEF Punctually, Takes
    <3> QED BY <3>1, <3>2, <3>3, <3>4 DEF Kinds, Takes, Belated
  <2> QED BY <1>3, <2>1, <2>4, <2>5, <2>6
<1>10. ASSUME NEW i \in Ids, Expired(i) PROVE Good
  <2>1. \A j \in Ids : j # i => box'[j] = box[j] BY <1>10 DEF Expired, DaemonTypeOK
  <2>2. box'[i] = IF box[i].policy THEN Started(box[i]) ELSE [box[i] EXCEPT !.up = FALSE]
    BY <1>10 DEF Expired, DaemonTypeOK
  <2>3. Exists(i) /\ box[i].starts > 0 BY <1>10 DEF Expired, GoneIsDown, Births
  <2>4. Strays(i) /\ Bears(i) /\ box'[i].at = box[i].at BY <1>4, <2>2, <2>3
  <2> QED BY <1>3, <1>6, <2>1, <2>4
<1>11. CASE Rebooted
  <2>1. ASSUME NEW j \in Ids PROVE Strays(j) /\ Bears(j) /\ box'[j].at = box[j].at
    <3>1. box'[j] = IF Exists(j) /\ box[j].policy /\ box[j].starts > 0
                    THEN Started(box[j]) ELSE [box[j] EXCEPT !.up = FALSE]
      BY <1>11 DEF Rebooted
    <3>2. CASE ~box[j].up /\ ~(Exists(j) /\ box[j].policy /\ box[j].starts > 0)
      <4>1. box'[j] = box[j] BY <1>1, <3>1, <3>2 DEF Boxes
      <4> QED BY <1>3, <4>1
    <3>3. CASE box[j].up \/ (Exists(j) /\ box[j].policy /\ box[j].starts > 0)
      <4>1. Exists(j) /\ box[j].starts > 0 BY <3>3 DEF GoneIsDown, Births
      <4> QED BY <1>4, <3>1, <4>1
    <3> QED BY <3>2, <3>3
  <2> QED BY <1>6, <2>1
<1> QED BY <1>7, <1>8, <1>9, <1>10, <1>11 DEF Drift

(* What a name that nobody works on waits for is harmless.                 *)
LEMMA DriftWhole ==
  ASSUME Singly, Births, \A j \in Ids : Strays(j), NEW n \in Names, Whole(n), ~Unsettled(n),
         Served(n)' <=> Served(n)
  PROVE  Whole(n)'
<1>1. ASSUME NEW j \in Ids, Home(j) = n, Exists(j), NEW k \in Belated PROVE <<k, j>> \notin late
  <2> SUFFICES ASSUME <<k, j>> \in late PROVE FALSE OBVIOUS
  <2>1. PICK r \in Replacers : Awaits(r, j) BY <1>1 DEF Singly, Awaited
  <2> QED BY <1>1, <2>1, StepFacts DEF Awaits, Unsettled
<1>2. ASSUME NEW j \in Ids, Home(j) = n
      PROVE  box'[j] = box[j] \/ Cycles(j) \/ (~Exists(j)' /\ (Exists(j) => ~box[j].up)) \/ Appears(j)
  <2>1. "remove" \in Belated BY DEF Belated
  <2> QED BY <1>1, <1>2, <2>1 DEF Strays, Vanishes, Answers
<1>3. ASSUME NEW j \in Ids, Home(j) = n, box'[j].at = "home"
      PROVE  Mended(j)' /\ (box'[j].up <=> Served(n))
  <2>1. CASE box'[j] = box[j] BY <1>3, <2>1 DEF Whole, Mended
  <2>2. CASE Cycles(j)
    <3>1. box[j].at = "home" BY <1>3, <2>2 DEF Cycles
    <3>2. Mended(j) /\ (box[j].up <=> Served(n)) BY <1>3, <3>1 DEF Whole
    <3>3. box[j].starts > 0 => Served(n) BY <1>3 DEF Births
    <3> QED BY <2>2, <3>2, <3>3 DEF Cycles, Mended
  <2>3. CASE Appears(j)
    <3>1. ~Served(n) BY <1>3, <2>3 DEF Appears, Whole, AtHome
    <3> QED BY <2>3, <3>1 DEF Appears, Fresh, Gone, Mended
  <2> QED BY <1>2, <1>3, <2>1, <2>2, <2>3 DEF Exists
<1>4. ASSUME Served(n) PROVE \E i \in Ids : Home(i) = n /\ box'[i].at = "home"
  <2>1. PICK i \in Ids : Home(i) = n /\ box[i].at = "home" BY <1>4 DEF Whole
  <2>2. box[i].up /\ Exists(i) BY <1>4, <2>1 DEF Whole, Exists
  <2>3. box'[i].at = "home" BY <1>2, <2>1, <2>2 DEF Cycles, Appears
  <2> QED BY <2>1, <2>3
<1> QED BY <1>3, <1>4 DEF Whole

LEMMA DriftRepair ==
  ASSUME IInv, Survival, Survival', Singly, Repair, Punctually(Takes), Drift
  PROVE  Repair'
<1>1. /\ DaemonTypeOK /\ GoneIsDown /\ Births /\ OneAtHome
      /\ \A i \in Ids : <<"create", i>> \in late => i \in Replacers
  BY DEF IInv, TypeOK, Singly, Repair
<1>2. rpc' = rpc /\ op' = op /\ journal' = journal BY DEF Drift, replacement
<1>3. OneAtHome' /\ (\A j \in Ids : Strays(j)) /\ Births' /\ \A n \in Names : Served(n)' <=> Served(n)
  BY <1>1, DriftStrays, BirthsStay
<1>4. \A r \in Replacers : Target[r] \in Names BY DaemonAssumption
<1>5. Wholeness'
  <2> SUFFICES ASSUME NEW n \in Names PROVE Whole(n)' \/ Unsettled(n)' BY DEF Wholeness
  <2>1. CASE Unsettled(n)
    <3>1. PICK r \in Replacers : /\ Target[r] = n /\ held[Lock(r)] = r
                                 /\ rpc[r] \in Repairing \cup {"remove"} \/ Open(r)
      BY <2>1 DEF Unsettled
    <3>2. held'[Lock(r)] = r BY <3>1 DEF Drift
    <3> QED BY <1>2, <3>1, <3>2 DEF Unsettled, Open, Lock
  <2>2. CASE ~Unsettled(n)
    <3>1. Whole(n) BY <2>2 DEF Repair, Wholeness
    <3> QED BY <1>1, <1>3, <2>2, <3>1, DriftWhole
  <2> QED BY <2>1, <2>2
<1>6. ASSUME NEW r \in Replacers PROVE Recalls(r)' BY <1>2, <1>3, <1>4 DEF Repair, Recalls, Was
<1>7. ASSUME NEW r \in Replacers PROVE Mends(r)'
  <2> SUFFICES ASSUME rpc[r] \in Repairing PROVE Mends(r)'
    BY <1>2, StepFacts DEF Mends
  <2>1. Old(r) \in Ids BY WorkerHolds
  <2>2. Exists(Old(r)) BY DEF Survival, Retains, Follows
  <2>3. box'[Old(r)].at # "gone"
    <3>1. journal'[r] \in Changing BY <1>2 DEF Survival, Follows
    <3> QED BY <1>2, <3>1 DEF Survival, Retains, Exists, Old
  <2>4. /\ box[Old(r)].at = "home" => box'[Old(r)].at = "home"
        /\ box[Old(r)].net => box'[Old(r)].net
        /\ box[Old(r)].policy => box'[Old(r)].policy
    <3>1. PICK i \in Ids : i = Old(r) BY <2>1
    <3>2. Strays(i) /\ Exists(i) /\ Exists(i)' BY <1>3, <2>2, <2>3, <3>1 DEF Exists
    <3>3. CASE Answers(i) BY <3>1, <3>2, <3>3 DEF Answers, Attributes, Belated, Exists
    <3> QED BY <3>1, <3>2, <3>3 DEF Strays, Cycles, Vanishes, Appears
  <2>5. Mends(r) BY DEF Repair
  <2> QED BY <1>2, <2>4, <2>5 DEF Mends, Old
<1>8. ASSUME NEW r \in Replacers PROVE Fit(r)'
  <2>1. Fit(r) /\ r \in Ids /\ Home(r) = Target[r] BY CandidateHome DEF Repair
  <2> SUFFICES ASSUME rpc[r] \in {"start", "verify", "commit", "remove"} PROVE Fit(r)'
    BY <1>2 DEF Fit
  <2>2. rpc[r] \in Repairing \cup {"remove"} /\ rpc[r] # "discard" BY StepFacts
  <2>3. Mended(r) /\ Exists(r) BY <2>1 DEF Fit, Mended, Exists
  <2>4. \A k \in Belated : <<k, r>> \notin late
    <3>1. held[Lock(r)] = r BY <2>2, WorkerHolds
    <3> QED BY <2>1, <2>2, <2>3, <3>1, NoLateStart DEF Singly
  <2>5. ~Reclaiming BY <2>2, StepFacts DEF Survival, Undisturbed
  <2>6. box'[r] = box[r] \/ Cycles(r)
    <3>1. "remove" \in Belated BY DEF Belated
    <3> QED BY <1>3, <2>1, <2>3, <2>4, <2>5, <3>1 DEF Strays, Vanishes, Appears, Answers
  <2>7. Mended(r)' BY <2>3, <2>6 DEF Mended, Cycles
  <2>8. (box[r].up <=> Served(Target[r])) => (box'[r].up <=> Served(Target[r]))
    <3>1. box[r].starts > 0 => Served(Target[r]) BY <1>1, <2>1 DEF Births
    <3> QED BY <2>3, <2>6, <3>1 DEF Mended, Cycles
  <2> QED BY <1>2, <1>3, <1>4, <2>1, <2>7, <2>8 DEF Fit
<1> QED BY <1>3, <1>5, <1>6, <1>7, <1>8 DEF Repair

LEMMA InitRepair == Init => Repair
<1> SUFFICES ASSUME Init PROVE Repair OBVIOUS
<1>1. late = {} /\ \A i \in Ids : box[i] \in {Gone, Fresh, Started(Fresh)} BY DEF Init, DaemonInit
<1>2. \A r \in Replacers : rpc[r] = "idle" /\ box[r] = Gone BY DEF Init, ReplacementInit, DaemonInit
<1>3. /\ Gone.at = "gone" /\ ~Gone.up /\ Gone.starts = 0
      /\ Fresh.at = "home" /\ ~Fresh.up /\ Fresh.starts = 0 /\ Fresh.policy /\ Fresh.net
      /\ Started(Fresh).at = "home" /\ Started(Fresh).up /\ Started(Fresh).starts = 1
      /\ Started(Fresh).policy /\ Started(Fresh).net
  BY DEF Gone, Fresh, Started
<1>4. \A n \in Names : n \in Ids /\ Home(n) = n BY DEF Ids, Home
<1>5. \A n \in Names : box[n] \in {Fresh, Started(Fresh)} BY <1>1, <1>4 DEF Init, DaemonInit
<1>6. \A i \in Ids : box[i].at = "home" => i \in Names /\ Home(i) = i
  BY <1>2, <1>3, <1>4 DEF Ids
<1>7. \A i \in Ids : i \notin Names => box[i] = Gone BY <1>2 DEF Ids
<1>8. OneAtHome BY <1>6 DEF OneAtHome
<1>9. Births BY <1>1, <1>3, <1>4, <1>7 DEF Births, Served
<1>10. \A n \in Names : Whole(n)
  <2> SUFFICES ASSUME NEW n \in Names PROVE Whole(n) OBVIOUS
  <2>1. \A i \in Ids : Home(i) = n /\ box[i].at = "home" => i = n BY <1>6
  <2>2. box[n] \in {Fresh, Started(Fresh)} BY <1>5
  <2>3. box[n].at = "home" /\ Mended(n) /\ (box[n].up <=> Served(n)) BY <1>3, <2>2 DEF Mended, Served
  <2> QED BY <1>4, <2>1, <2>3 DEF Whole
<1>11. \A r \in Replacers : Recalls(r) /\ Mends(r) /\ Fit(r) BY <1>2, StepFacts DEF Recalls, Mends, Fit
<1> QED BY <1>8, <1>9, <1>10, <1>11 DEF Repair, Wholeness

(* While nobody holds the reservation of a name, one container carries it, *)
(* with its restart policy and networks, running iff the original was, on  *)
(* any number of containers and whatever else is lost, late or crashed,    *)
(* provided that the daemon carries out no call that takes something from  *)
(* a container after its client was told it failed.                        *)
THEOREM UnlockedNamesAreWhole ==
  LateCalls \cap Takes = {} => (Spec => []UnlockedIsWhole)
<1> SUFFICES ASSUME LateCalls \cap Takes = {} PROVE Spec => []UnlockedIsWhole OBVIOUS
<1>1. Repair => UnlockedIsWhole
  <2> SUFFICES ASSUME Repair, NEW n \in Names, held[ReplaceSlot(n)] = NoOne
               PROVE  /\ Cardinality(AtHome(n)) <= 1
                      /\ Served(n) => AtHome(n) # {}
                      /\ \A i \in AtHome(n) : box[i].policy /\ box[i].net /\ (box[i].up <=> Served(n))
    BY DEF UnlockedIsWhole
  <2>1. ~Unsettled(n) BY DaemonAssumption DEF Unsettled, Lock, Actors
  <2>2. Whole(n) BY <2>1 DEF Repair, Wholeness
  <2>3. \A i \in AtHome(n) : box[i].policy /\ box[i].net /\ (box[i].up <=> Served(n))
    BY <2>2 DEF Whole, Mended, AtHome
  <2>4. Served(n) => AtHome(n) # {} BY <2>2 DEF Whole, AtHome
  <2>5. Cardinality(AtHome(n)) <= 1
    <3>1. CASE AtHome(n) = {} BY <3>1, FS_EmptySet
    <3>2. ASSUME NEW i \in AtHome(n) PROVE Cardinality(AtHome(n)) <= 1
      <4>1. AtHome(n) = {i} BY <3>2 DEF AtHome, Repair, OneAtHome
      <4> QED BY <4>1, FS_Singleton
    <3> QED BY <3>1, <3>2
  <2> QED BY <2>3, <2>4, <2>5
<1> DEFINE Inv == IInv /\ Survival /\ Singly /\ Punctually(Takes) /\ Repair
<1>2. Init => Inv BY InitHolds, InitSurvives, InitSingly, InitAccounts, InitRepair
<1>3. Inv /\ [Next]_vars => Inv'
  <2> SUFFICES ASSUME Inv, [Next]_vars PROVE Inv' OBVIOUS
  <2>1. IInv' /\ Survival' /\ Singly' BY StepHolds, StepSurvives, StepSingly
  <2>2. Takes \subseteq Kinds \ {"reclaim"} BY DEF Takes, Kinds
  <2>3. Punctually(Takes)' BY <2>2, StepCases, StaysPunctual DEF Alters
  <2>4. Repair' BY <2>1, StepCases, AltersRepair, DriftRepair
  <2> QED BY <2>1, <2>3, <2>4
<1>4. Inv => UnlockedIsWhole BY <1>1
<1> HIDE DEF Inv
<1> QED BY <1>2, <1>3, <1>4, PTL DEF Spec
=============================================================================
