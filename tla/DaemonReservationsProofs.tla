---------------------- MODULE DaemonReservationsProofs ----------------------
(***************************************************************************)
(* Proofs about DaemonReservations, for any number of containers,          *)
(* operations, policies and faults, and any kinds of late calls.           *)
(***************************************************************************)
EXTENDS DaemonReservations, TLAPS

(***************************************************************************)
(* The daemon.                                                             *)
(***************************************************************************)
(* Reservation names of different things are different.                    *)
LEMMA SlotFacts ==
  /\ PruneSlot \in Slots
  /\ \A n \in Names : ReplaceSlot(n) \in Slots /\ ReplaceSlot(n) # PruneSlot
  /\ \A c \in Names : EgressSlot(c) \in Slots /\ EgressSlot(c) # PruneSlot
  /\ \A n, c \in Names : ReplaceSlot(n) # EgressSlot(c)
  /\ \A c, d \in Names : EgressSlot(c) = EgressSlot(d) => c = d
  /\ \A c, d \in Names : ReplaceSlot(c) = ReplaceSlot(d) => c = d
BY DEF PruneSlot, ReplaceSlot, EgressSlot, Slots

(* Reservations that are held stay with their holder.                      *)
Kept(s) == held[s] # NoOne => held'[s] = held[s]

(* No sweep was left to the daemon in this step.                           *)
NoNewSweep == \A p \in Pruners : <<"sweep", p>> \in late' => <<"sweep", p>> \in late

LEMMA BoxTypes ==
  /\ Gone \in Boxes /\ Fresh \in Boxes
  /\ \A b \in Boxes : Started(b) \in Boxes /\ Removed(b) \in Boxes /\ [b EXCEPT !.up = FALSE] \in Boxes
<1>1. Gone \in Boxes BY DEF Gone, Boxes
<1>2. Fresh \in Boxes BY <1>1 DEF Fresh, Boxes
<1>3. ASSUME NEW b \in Boxes PROVE Started(b) \in Boxes
  <2>1. b.starts \in Nat /\ b.starts + 1 \in Nat BY DEF Boxes
  <2>2. \A n \in Nat : [b EXCEPT !.up = TRUE, !.starts = n] \in Boxes BY DEF Boxes
  <2> QED BY <2>1, <2>2 DEF Started
<1>4. ASSUME NEW b \in Boxes PROVE Removed(b) \in Boxes
  BY DEF Removed, Gone, Boxes
<1>5. \A b \in Boxes : [b EXCEPT !.up = FALSE] \in Boxes BY DEF Boxes
<1> QED BY <1>1, <1>2, <1>3, <1>4, <1>5

(* Every call has a table of containers as its effect.                     *)
LEMMA EffectTypes ==
  ASSUME DaemonTypeOK, NEW k \in Kinds, NEW i \in Ids
  PROVE  Effect(k, i) \in [Ids -> Boxes]
<1> USE DEF DaemonTypeOK
<1>1. CASE k = "create" BY <1>1, BoxTypes DEF Effect
<1>2. CASE k \in {"remove", "reclaim"} BY <1>2, BoxTypes DEF Effect
<1>3. CASE k = "start" BY <1>3, BoxTypes DEF Effect
<1>4. CASE k = "rename" BY <1>4 DEF Effect, Boxes
<1>5. CASE k = "homeward" BY <1>5 DEF Effect, Boxes
<1>6. CASE k = "stop" BY <1>6 DEF Effect, Boxes
<1>7. CASE k = "policy" BY <1>7 DEF Effect, Boxes
<1>8. CASE k = "repolicy" BY <1>8 DEF Effect, Boxes
<1>9. CASE k = "disconnect" BY <1>9 DEF Effect, Boxes
<1>10. CASE k = "reconnect" BY <1>10 DEF Effect, Boxes
<1> QED BY <1>1, <1>2, <1>3, <1>4, <1>5, <1>6, <1>7, <1>8, <1>9, <1>10 DEF Kinds

LEMMA FaultTypes ==
  ASSUME faults \in 0 .. MaxFaults, Fault PROVE faults' \in 0 .. MaxFaults
BY DaemonAssumption DEF Fault

LEMMA GlitchKeeps ==
  ASSUME DaemonTypeOK, Glitch PROVE DaemonTypeOK' /\ held' = held /\ late' = late /\ box' = box
BY FaultTypes DEF DaemonTypeOK, Glitch

(* Calls on containers leave the reservations alone.                       *)
LEMMA CallKeeps ==
  ASSUME DaemonTypeOK, NEW k \in Kinds, NEW i \in Ids, Done(k, i) \/ Failed(k, i)
  PROVE  DaemonTypeOK' /\ held' = held /\ NoNewSweep
<1>1. box' \in [Ids -> Boxes] /\ held' = held
  BY EffectTypes DEF DaemonTypeOK, Done, Failed, Refused, Lost
<1>2. faults' \in 0 .. MaxFaults
  BY FaultTypes DEF DaemonTypeOK, Done, Failed, Refused, Lost
<1>3. late' = late \/ late' = late \cup {<<k, i>>}
  BY DEF Done, Failed, Refused, Lost
<1>4. k # "sweep" /\ <<k, i>> \in Abandoned
  BY DEF Kinds, Abandoned
<1>5. late' \subseteq Abandoned /\ NoNewSweep
  BY <1>3, <1>4 DEF DaemonTypeOK, NoNewSweep
<1> QED BY <1>1, <1>2, <1>5 DEF DaemonTypeOK

(* Reserving a name takes it from nobody and touches no other name.        *)
LEMMA ReserveKeeps ==
  ASSUME DaemonTypeOK, NEW s \in Slots, NEW a \in Actors,
         Reserved(s, a) \/ Conflict(s) \/ ReserveLost(s, a)
  PROVE  /\ DaemonTypeOK' /\ NoNewSweep
         /\ \A t \in Slots : Kept(t) /\ (t # s => held'[t] = held[t])
<1>1. /\ held' \in [Slots -> Actors \cup {NoOne}]
      /\ \A t \in Slots : Kept(t) /\ (t # s => held'[t] = held[t])
  BY DEF DaemonTypeOK, Reserved, Conflict, ReserveLost, daemon, Kept
<1>2. box' = box /\ faults' \in 0 .. MaxFaults
  BY FaultTypes DEF DaemonTypeOK, Reserved, Conflict, ReserveLost, daemon
<1>3. late' = late \/ late' = late \cup {<<"reserve", s, a>>}
  BY DEF Reserved, Conflict, ReserveLost, daemon
<1>4. <<"reserve", s, a>> \in Abandoned /\ \A p \in Pruners : <<"reserve", s, a>> # <<"sweep", p>>
  BY DEF Abandoned
<1>5. late' \subseteq Abandoned /\ NoNewSweep
  BY <1>3, <1>4 DEF DaemonTypeOK, NoNewSweep
<1> QED BY <1>1, <1>2, <1>5 DEF DaemonTypeOK

LEMMA FreeKeeps ==
  ASSUME DaemonTypeOK, NEW s \in Slots, Freed(s) \/ FreeFailed(s)
  PROVE  /\ DaemonTypeOK' /\ late' = late
         /\ \A t \in Slots : t # s => held'[t] = held[t]
<1>1. /\ held' \in [Slots -> Actors \cup {NoOne}]
      /\ \A t \in Slots : t # s => held'[t] = held[t]
  BY DEF DaemonTypeOK, Freed, FreeFailed
<1>2. box' = box /\ late' = late /\ faults' \in 0 .. MaxFaults
  BY FaultTypes DEF DaemonTypeOK, Freed, FreeFailed
<1> QED BY <1>1, <1>2 DEF DaemonTypeOK

LEMMA SweptTypes == ASSUME DaemonTypeOK PROVE Swept \in [Ids -> Boxes]
BY BoxTypes DEF DaemonTypeOK, Swept

(* What the daemon does by itself.                                         *)
LEMMA DaemonKeeps ==
  ASSUME DaemonTypeOK, DaemonNext
  PROVE  DaemonTypeOK' /\ late' \subseteq late /\ \A t \in Slots : Kept(t)
<1>1. CASE ExecuteLate
  <2>1. PICK call \in late :
          /\ late' = late \ {call} /\ UNCHANGED faults
          /\ \/ /\ call[1] = "reserve" /\ UNCHANGED box
                /\ held' = IF held[call[2]] = NoOne THEN [held EXCEPT ![call[2]] = call[3]] ELSE held
             \/ call[1] = "sweep" /\ box' = Swept /\ UNCHANGED held
             \/ /\ call[1] \in Kinds /\ UNCHANGED held
                /\ box' = IF Accepts(call[1], call[2]) THEN Effect(call[1], call[2]) ELSE box
    BY <1>1, Zenon DEF ExecuteLate
  <2>2. late' \subseteq late /\ late' \subseteq Abandoned /\ faults' \in 0 .. MaxFaults
    BY <2>1 DEF DaemonTypeOK
  <2>3. CASE call \in {"reserve"} \X Slots \X Actors
    <3>1. call[1] = "reserve" /\ call[1] \notin Kinds /\ call[2] \in Slots /\ call[3] \in Actors
      BY <2>3 DEF Kinds
    <3>2. box' = box /\ held' \in [Slots -> Actors \cup {NoOne}] /\ \A t \in Slots : Kept(t)
      BY <2>1, <3>1 DEF DaemonTypeOK, Kept
    <3> QED BY <3>2, <2>2 DEF DaemonTypeOK
  <2>4. CASE call \in {"sweep"} \X Pruners
    <3>1. call[1] = "sweep" /\ call[1] \notin Kinds BY <2>4 DEF Kinds
    <3>2. box' \in [Ids -> Boxes] /\ held' = held BY <2>1, <3>1, SweptTypes
    <3> QED BY <3>2, <2>2 DEF DaemonTypeOK, Kept
  <2>5. CASE call \in Kinds \X Ids
    <3>1. call[1] \in Kinds /\ call[2] \in Ids /\ call[1] # "reserve" /\ call[1] # "sweep"
      BY <2>5 DEF Kinds
    <3>2. box' \in [Ids -> Boxes] /\ held' = held
      BY <2>1, <3>1, EffectTypes DEF DaemonTypeOK
    <3> QED BY <3>2, <2>2 DEF DaemonTypeOK, Kept
  <2> QED BY <2>1, <2>3, <2>4, <2>5 DEF DaemonTypeOK, Abandoned
<1>2. CASE DaemonRestart
  <2>2. \A i \in Ids : Started(box[i]) \in Boxes /\ [box[i] EXCEPT !.up = FALSE] \in Boxes
    BY BoxTypes DEF DaemonTypeOK
  <2>3. box' = [i \in Ids |-> IF Exists(i) /\ box[i].policy /\ box[i].starts > 0
                             THEN Started(box[i]) ELSE [box[i] EXCEPT !.up = FALSE]]
    BY <1>2 DEF DaemonRestart
  <2>4. box' \in [Ids -> Boxes] BY <2>2, <2>3
  <2> QED BY <1>2, <2>4, FaultTypes DEF DaemonRestart, DaemonTypeOK, Kept
<1>3. CASE \E i \in Ids : Exits(i)
  <2>1. box' \in [Ids -> Boxes]
    <3>1. PICK i \in Ids :
            box' = [box EXCEPT ![i] = IF @.policy THEN Started(@) ELSE [@ EXCEPT !.up = FALSE]]
      BY <1>3 DEF Exits
    <3>2. Started(box[i]) \in Boxes /\ [box[i] EXCEPT !.up = FALSE] \in Boxes
      BY BoxTypes DEF DaemonTypeOK
    <3> QED BY <3>1, <3>2 DEF DaemonTypeOK
  <2> QED BY <1>3, <2>1, FaultTypes DEF Exits, DaemonTypeOK, Kept
<1> QED BY <1>1, <1>2, <1>3 DEF DaemonNext

(***************************************************************************)
(* Replacements: what one step of replacement r does to the reservations.  *)
(***************************************************************************)
Jobs == [old : Ids \cup {NoOne}, snap : Boxes, lock : BOOLEAN, cut : BOOLEAN, cand : BOOLEAN]

(* Steps at which a replacement has its reservation; and past the barrier. *)
AtWork  == Forward \cup Backward \cup {"remove"}
Locked  == AtWork \ {"lock"}
Working == AtWork \ {"lock", "barrier"}

(* A replacement works under the reservation it made.                      *)
Handles(r) ==
  /\ rpc[r] \in Locked => op[r].lock
  /\ op[r].lock => held[Lock(r)] = r
  /\ rpc[r] \in AtWork => op[r].old \in Ids

ReplacementInv == \A r \in Replacers : Handles(r)

(* What a step of r may do that others can see.                            *)
Discreet(r) ==
  /\ \A t \in Slots : t # Lock(r) => held'[t] = held[t]
  /\ (\A t \in Slots : Kept(t)) \/ op[r].lock
  /\ NoNewSweep
  /\ rpc'[r] \in Working => rpc[r] \in Working \/ held[PruneSlot] = NoOne
  /\ \A q \in Replacers \ {r} : rpc'[q] = rpc[q] /\ op'[q] = op[q]

ReplacementEffect(r) == DaemonTypeOK' /\ ReplacementTypeOK' /\ Handles(r)' /\ Discreet(r)

LEMMA WorkFacts ==
  /\ AtWork \subseteq Steps /\ "lock" \in AtWork /\ Locked \subseteq AtWork /\ Working \subseteq Locked
  /\ "lock" \notin Locked /\ "barrier" \in Locked
  /\ {"fingerprint", "policy", "rename", "stop", "disconnect", "create", "lookup", "start", "verify",
      "commit", "remove"} \cup Backward \subseteq Working
  /\ {"idle", "done", "crashed", "release"} \cap AtWork = {} /\ {"done", "crashed", "release"} \subseteq Steps
BY DEF AtWork, Locked, Working, Steps, Forward, Backward

LEMMA LockFacts ==
  ASSUME NEW r \in Replacers
  PROVE  Target[r] \in Names /\ Lock(r) \in Slots /\ Lock(r) # PruneSlot /\ r \in Ids /\ r \in Actors
         /\ r # NoOne
BY DaemonAssumption, SlotFacts DEF Lock, Ids, Actors

Quiet == DaemonTypeOK' /\ held' = held /\ NoNewSweep

LEMMA QuietCalls ==
  ASSUME DaemonTypeOK
  PROVE  /\ \A k \in Kinds, i \in Ids : Done(k, i) \/ Failed(k, i) => Quiet
         /\ Glitch => Quiet
         /\ UNCHANGED daemon => Quiet
<1>1. \A k \in Kinds, i \in Ids : Done(k, i) \/ Failed(k, i) => Quiet BY CallKeeps DEF Quiet
<1>2. Glitch => Quiet BY GlitchKeeps DEF Quiet, NoNewSweep
<1>3. UNCHANGED daemon => Quiet BY DEF Quiet, NoNewSweep, daemon, DaemonTypeOK
<1> QED BY <1>1, <1>2, <1>3

(* A step that leaves the reservations alone.                              *)
LEMMA QuietStep ==
  ASSUME DaemonTypeOK, ReplacementTypeOK, ReplacementInv, Quiet,
         NEW r \in Replacers, NEW step \in Steps, NEW o \in Jobs, NEW phase \in Phases,
         rpc' = [rpc EXCEPT ![r] = step],
         op' = [op EXCEPT ![r] = o],
         journal' = [journal EXCEPT ![r] = phase],
         o.lock => op[r].lock, step \in Locked => o.lock, step \in AtWork => o.old \in Ids,
         step \in Working => rpc[r] \in Working \/ held[PruneSlot] = NoOne
  PROVE  ReplacementEffect(r)
<1>1. ReplacementTypeOK' BY DEF ReplacementTypeOK, Jobs
<1>2. rpc'[r] = step /\ op'[r] = o BY DEF ReplacementTypeOK
<1>3. Lock(r)' = Lock(r) BY DEF Lock
<1>4. Handles(r)' BY <1>2, <1>3 DEF Handles, ReplacementInv, Quiet
<1>5. \A t \in Slots : Kept(t) BY DEF Quiet, Kept
<1>6. \A q \in Replacers \ {r} : rpc'[q] = rpc[q] /\ op'[q] = op[q] BY DEF ReplacementTypeOK
<1>7. Discreet(r) BY <1>2, <1>5, <1>6 DEF Discreet, Quiet
<1> QED BY <1>1, <1>4, <1>7 DEF ReplacementEffect, Quiet

(* The three ways out, and the ends.                                       *)
LEMMA WayOut ==
  ASSUME DaemonTypeOK, ReplacementTypeOK, ReplacementInv, Quiet, NEW r \in Replacers
  PROVE  /\ Abandon(r) => ReplacementEffect(r)
         /\ rpc[r] \in Working /\ Undo(r) => ReplacementEffect(r)
         /\ GiveUp(r) => ReplacementEffect(r)
<1>1. op[r] \in Jobs /\ op' = op => op' = [op EXCEPT ![r] = op[r]]
  BY DEF ReplacementTypeOK, Jobs
<1>2. op[r] \in Jobs /\ journal[r] \in Phases BY DEF ReplacementTypeOK, Jobs
<1>3. journal' = journal => journal' = [journal EXCEPT ![r] = journal[r]]
  BY DEF ReplacementTypeOK
<1>4. {"failed", "recovering", "recovery_required"} \subseteq Phases BY DEF Phases, Changing, Settled
<1>5. rpc[r] \in Locked => op[r].lock BY DEF ReplacementInv, Handles
<1>6. rpc[r] \in AtWork => op[r].old \in Ids BY DEF ReplacementInv, Handles
<1>7. ASSUME Abandon(r) PROVE ReplacementEffect(r)
  <2>1. rpc' = [rpc EXCEPT ![r] = "release"] /\ op' = [op EXCEPT ![r] = op[r]]
    BY <1>1, <1>2, <1>7 DEF Abandon, Go
  <2>2. PICK phase \in Phases : journal' = [journal EXCEPT ![r] = phase]
    BY <1>2, <1>3, <1>4, <1>7 DEF Abandon, Note
  <2>3. "release" \in Steps /\ "release" \notin AtWork /\ "release" \notin Locked /\ "release" \notin Working
    BY WorkFacts
  <2> QED BY <1>2, <2>1, <2>2, <2>3, QuietStep
<1>8. ASSUME rpc[r] \in Working, Undo(r) PROVE ReplacementEffect(r)
  <2>1. /\ rpc' = [rpc EXCEPT ![r] = "discard"] /\ op' = [op EXCEPT ![r] = op[r]]
        /\ journal' = [journal EXCEPT ![r] = "recovering"]
    BY <1>1, <1>2, <1>8 DEF Undo, Go, Note
  <2>2. "discard" \in Steps /\ op[r].lock /\ op[r].old \in Ids
    BY <1>5, <1>6, <1>8, WorkFacts DEF Steps, Backward
  <2> QED BY <1>2, <1>4, <1>8, <2>1, <2>2, QuietStep
<1>9. ASSUME GiveUp(r) PROVE ReplacementEffect(r)
  <2>1. /\ rpc' = [rpc EXCEPT ![r] = "done"]
        /\ op' = [op EXCEPT ![r] = [Nothing EXCEPT !.old = Old(r)]]
    BY <1>9 DEF GiveUp, Leave, Go
  <2>2. PICK phase \in Phases : journal' = [journal EXCEPT ![r] = phase]
    BY <1>2, <1>3, <1>4, <1>9 DEF GiveUp
  <2>3. [Nothing EXCEPT !.old = Old(r)] \in Jobs /\ ~[Nothing EXCEPT !.old = Old(r)].lock
    BY <1>2, BoxTypes DEF Nothing, Jobs, Old
  <2>4. "done" \in Steps /\ "done" \notin AtWork /\ "done" \notin Locked /\ "done" \notin Working
    BY WorkFacts
  <2> QED BY <2>1, <2>2, <2>3, <2>4, QuietStep
<1> QED BY <1>7, <1>8, <1>9

(* A step that goes on with what it has, at work before and after.         *)
LEMMA GoesOn ==
  ASSUME DaemonTypeOK, ReplacementTypeOK, ReplacementInv, Quiet, NEW r \in Replacers,
         rpc[r] \in Working, NEW step \in Working \cup {"release"}, Go(r, step),
         NEW phase \in Phases, journal' = journal \/ Note(r, phase),
         op' = op \/ (\E x \in BOOLEAN : op' = [op EXCEPT ![r].cut = x] \/ op' = [op EXCEPT ![r].cand = x])
  PROVE  ReplacementEffect(r)
<1>1. op[r] \in Jobs /\ journal[r] \in Phases BY DEF ReplacementTypeOK, Jobs
<1>2. PICK o \in Jobs : op' = [op EXCEPT ![r] = o] /\ o.lock = op[r].lock /\ o.old = op[r].old
  <2>1. CASE op' = op BY <2>1, <1>1 DEF ReplacementTypeOK
  <2>2. ASSUME NEW x \in BOOLEAN, op' = [op EXCEPT ![r].cut = x]
        PROVE  \E o \in Jobs : op' = [op EXCEPT ![r] = o] /\ o.lock = op[r].lock /\ o.old = op[r].old
    <3>1. [op[r] EXCEPT !.cut = x] \in Jobs BY <1>1 DEF Jobs
    <3> QED BY <1>1, <2>2, <3>1 DEF Jobs
  <2>3. ASSUME NEW x \in BOOLEAN, op' = [op EXCEPT ![r].cand = x]
        PROVE  \E o \in Jobs : op' = [op EXCEPT ![r] = o] /\ o.lock = op[r].lock /\ o.old = op[r].old
    <3>1. [op[r] EXCEPT !.cand = x] \in Jobs BY <1>1 DEF Jobs
    <3> QED BY <1>1, <2>3, <3>1 DEF Jobs
  <2> QED BY <2>1, <2>2, <2>3
<1>3. PICK f \in Phases : journal' = [journal EXCEPT ![r] = f]
  BY <1>1 DEF Note, ReplacementTypeOK
<1>4. op[r].lock /\ op[r].old \in Ids /\ step \in Steps BY WorkFacts DEF ReplacementInv, Handles
<1>5. rpc' = [rpc EXCEPT ![r] = step] BY DEF Go
<1> QED BY <1>2, <1>3, <1>4, <1>5, QuietStep

LEMMA ForthStep ==
  ASSUME DaemonTypeOK, ReplacementTypeOK, ReplacementInv, NEW r \in Replacers, rpc[r] \in Working,
         NEW k \in Kinds, NEW i \in Ids, NEW phase \in Phases, NEW step \in Working,
         Forth(r, k, i, phase, step)
  PROVE  ReplacementEffect(r)
BY QuietCalls, WayOut, GoesOn DEF Forth

LEMMA BackStep ==
  ASSUME DaemonTypeOK, ReplacementTypeOK, ReplacementInv, NEW r \in Replacers, rpc[r] \in Working,
         NEW needed \in BOOLEAN, NEW k \in Kinds, NEW i \in Ids, NEW step \in Working,
         Back(r, needed, k, i, step)
  PROVE  ReplacementEffect(r)
<1>1. Quiet BY QuietCalls DEF Back
<1>2. journal[r] \in Phases BY DEF ReplacementTypeOK
<1> QED BY <1>1, <1>2, WayOut, GoesOn DEF Back

(* Reserving: the name was free, or stays with its holder.                 *)
LEMMA ReserveStep ==
  ASSUME DaemonTypeOK, ReplacementTypeOK, ReplacementInv, NEW r \in Replacers, Reserve(r)
  PROVE  ReplacementEffect(r)
<1>1. r \in Ids /\ Lock(r) \in Slots /\ r \in Actors BY LockFacts
<1>2. op[r] \in Jobs /\ journal[r] \in Phases /\ rpc[r] = "lock" /\ op[r].old \in Ids
  BY WorkFacts DEF ReplacementTypeOK, Jobs, Reserve, ReplacementInv, Handles
<1>3. /\ DaemonTypeOK' /\ NoNewSweep
      /\ \A t \in Slots : Kept(t) /\ (t # Lock(r) => held'[t] = held[t])
  BY <1>1, ReserveKeeps DEF Reserve
<1>4. PICK o \in Jobs, step \in {"barrier", "release"}, phase \in Phases :
        /\ rpc' = [rpc EXCEPT ![r] = step] /\ op' = [op EXCEPT ![r] = o]
        /\ journal' = [journal EXCEPT ![r] = phase] /\ o.old = op[r].old
        /\ \/ o.lock /\ held'[Lock(r)] = r
           \/ o.lock = op[r].lock /\ step = "release"
  <2>1. {"locked", "failed"} \subseteq Phases BY DEF Phases, Settled
  <2>2. journal' = journal => journal' = [journal EXCEPT ![r] = journal[r]] BY DEF ReplacementTypeOK
  <2>3. op' = op => op' = [op EXCEPT ![r] = op[r]] BY DEF ReplacementTypeOK
  <2>4. CASE Reserved(Lock(r), r) /\ op' = [op EXCEPT ![r].lock = TRUE]
               /\ ((Note(r, "locked") /\ Go(r, "barrier")) \/ (Note(r, "failed") /\ Go(r, "release")))
    <3>1. held'[Lock(r)] = r BY <2>4, <1>1 DEF Reserved, DaemonTypeOK
    <3>2. /\ [op[r] EXCEPT !.lock = TRUE] \in Jobs
          /\ [op[r] EXCEPT !.lock = TRUE].lock
          /\ [op[r] EXCEPT !.lock = TRUE].old = op[r].old
      BY <1>2 DEF Jobs
    <3>3. op' = [op EXCEPT ![r] = [op[r] EXCEPT !.lock = TRUE]] BY <2>4 DEF ReplacementTypeOK
    <3> QED BY <2>1, <2>4, <3>1, <3>2, <3>3 DEF Note, Go
  <2>5. CASE Abandon(r) BY <1>2, <2>1, <2>2, <2>3, <2>5 DEF Abandon, Note, Go
  <2>6. \/ /\ Reserved(Lock(r), r) /\ op' = [op EXCEPT ![r].lock = TRUE]
           /\ ((Note(r, "locked") /\ Go(r, "barrier")) \/ (Note(r, "failed") /\ Go(r, "release")))
        \/ Abandon(r)
    BY DEF Reserve
  <2> QED BY <2>4, <2>5, <2>6
<1>5. rpc'[r] = step /\ op'[r] = o BY <1>4 DEF ReplacementTypeOK
<1>6. ReplacementTypeOK'
  <2>1. step \in Steps BY <1>4 DEF Steps, Forward
  <2> QED BY <1>4, <2>1 DEF ReplacementTypeOK, Jobs
<1>7. Handles(r)'
  <2>1. op[r].lock => held'[Lock(r)] = r
    BY <1>1, <1>3, LockFacts DEF ReplacementInv, Handles, Kept
  <2>2. Lock(r)' = Lock(r) BY DEF Lock
  <2> QED BY <1>2, <1>4, <1>5, <2>1, <2>2, WorkFacts DEF Handles
<1>8. Discreet(r)
  <2>1. step \notin Working BY WorkFacts DEF Working
  <2>2. \A q \in Replacers \ {r} : rpc'[q] = rpc[q] /\ op'[q] = op[q]
    BY <1>4 DEF ReplacementTypeOK
  <2> QED BY <1>3, <1>5, <2>1, <2>2 DEF Discreet
<1> QED BY <1>3, <1>6, <1>7, <1>8 DEF ReplacementEffect

(* Releasing: only what r holds itself.                                    *)
LEMMA ReleaseStep ==
  ASSUME DaemonTypeOK, ReplacementTypeOK, ReplacementInv, NEW r \in Replacers, Release(r)
  PROVE  ReplacementEffect(r)
<1>1. op[r] \in Jobs /\ journal[r] \in Phases /\ Lock(r) \in Slots
  BY LockFacts DEF ReplacementTypeOK, Jobs
<1> DEFINE o == [Nothing EXCEPT !.old = Old(r)]
<1>2. rpc' = [rpc EXCEPT ![r] = "done"] /\ op' = [op EXCEPT ![r] = o]
  BY DEF Release, Leave, Go
<1>3. o \in Jobs /\ ~o.lock BY <1>1, BoxTypes DEF Nothing, Jobs, Old
<1>4. PICK phase \in Phases : journal' = [journal EXCEPT ![r] = phase]
  <2>1. "cleanup_required" \in Phases BY DEF Phases
  <2>2. journal' = journal => journal' = [journal EXCEPT ![r] = journal[r]] BY DEF ReplacementTypeOK
  <2> QED BY <1>1, <2>1, <2>2 DEF Release, Note
<1>5. /\ DaemonTypeOK' /\ NoNewSweep
      /\ \A t \in Slots : t # Lock(r) => held'[t] = held[t]
      /\ op[r].lock \/ held' = held
  <2>1. CASE Freed(Lock(r)) \/ FreeFailed(Lock(r))
    BY <1>1, <2>1, FreeKeeps DEF Release, NoNewSweep, Freed, FreeFailed, daemon
  <2>2. CASE UNCHANGED daemon BY <2>2, QuietCalls DEF Quiet
  <2> QED BY <2>1, <2>2 DEF Release
<1>6. "done" \in Steps /\ "done" \notin AtWork /\ "done" \notin Locked /\ "done" \notin Working
  BY WorkFacts
<1> HIDE DEF o
<1>7. rpc'[r] = "done" /\ op'[r] = o BY <1>2 DEF ReplacementTypeOK
<1>8. ReplacementTypeOK' BY <1>2, <1>3, <1>4, <1>6 DEF ReplacementTypeOK, Jobs
<1>9. Handles(r)' BY <1>3, <1>6, <1>7 DEF Handles
<1>10. \A q \in Replacers \ {r} : rpc'[q] = rpc[q] /\ op'[q] = op[q]
  BY <1>2 DEF ReplacementTypeOK
<1>11. (\A t \in Slots : Kept(t)) \/ op[r].lock BY <1>5 DEF Kept
<1>12. Discreet(r) BY <1>5, <1>6, <1>7, <1>10, <1>11 DEF Discreet
<1> QED BY <1>5, <1>8, <1>9, <1>12 DEF ReplacementEffect

(* Every step of a replacement is discreet and keeps its own reservation.  *)
LEMMA ReplacementSteps ==
  ASSUME DaemonTypeOK, ReplacementTypeOK, ReplacementInv, NEW r \in Replacers, ReplacementStep(r)
  PROVE  ReplacementEffect(r)
<1>1. {"retaining", "stopped", "creating", "created", "verifying", "recovering", "recovery_required",
       "complete", "recovered", "failed", "prepared", "committed", "cleanup_required"} \subseteq Phases
  BY DEF Phases, Changing, Settled
<1>2. {"create", "rename", "homeward", "stop", "start", "policy", "repolicy", "disconnect",
       "reconnect", "remove"} \subseteq Kinds
  BY DEF Kinds
<1>3. {"fingerprint", "policy", "rename", "stop", "disconnect", "create", "lookup", "start",
       "verify", "commit", "discard", "homeward", "reconnect", "repolicy", "restart",
       "reverify", "remove"} \subseteq Working
  BY DEF Working, AtWork, Forward, Backward
<1>4. op[r] \in Jobs /\ journal[r] \in Phases /\ r \in Ids BY LockFacts DEF ReplacementTypeOK, Jobs
<1>5. rpc[r] \in Working => Old(r) \in Ids /\ op[r].lock
  BY WorkFacts DEF ReplacementInv, Handles, Old
<1>6. CASE Begin(r)
  <2>1. PICK i \in AtHome(Target[r]) :
          op' = [op EXCEPT ![r] = [Nothing EXCEPT !.old = i, !.snap = box[i]]]
    BY <1>6 DEF Begin
  <2>2. i \in Ids /\ box[i] \in Boxes BY DEF AtHome, DaemonTypeOK
  <2> DEFINE o == [Nothing EXCEPT !.old = i, !.snap = box[i]]
  <2>3. o \in Jobs /\ ~o.lock /\ o.old \in Ids BY <2>2, BoxTypes DEF Nothing, Jobs
  <2>4. rpc' = [rpc EXCEPT ![r] = "lock"] /\ journal' = [journal EXCEPT ![r] = "prepared"] /\ Quiet
    BY <1>6, QuietCalls DEF Begin, Go, Note
  <2>5. "lock" \in Steps /\ "lock" \notin Locked /\ "lock" \notin Working BY WorkFacts
  <2>6. op' = [op EXCEPT ![r] = o] BY <2>1
  <2> HIDE DEF o
  <2> QED BY <1>1, <2>3, <2>4, <2>5, <2>6, QuietStep
<1>7. CASE AssertNoPrune(r)
  <2>1. Quiet BY <1>7, QuietCalls DEF AssertNoPrune
  <2>2. CASE Abandon(r) BY <2>1, <2>2, WayOut
  <2>3. CASE held[PruneSlot] = NoOne /\ Go(r, "fingerprint") /\ UNCHANGED <<op, journal>>
    <3>1. /\ rpc' = [rpc EXCEPT ![r] = "fingerprint"] /\ op' = [op EXCEPT ![r] = op[r]]
          /\ journal' = [journal EXCEPT ![r] = journal[r]]
      BY <2>3 DEF Go, ReplacementTypeOK
    <3>2. op[r].lock /\ op[r].old \in Ids /\ "fingerprint" \in Steps
      BY <1>7, WorkFacts DEF AssertNoPrune, ReplacementInv, Handles, Steps, Forward
    <3> QED BY <1>4, <2>1, <2>3, <3>1, <3>2, QuietStep
  <2> QED BY <1>7, <2>2, <2>3 DEF AssertNoPrune
<1>8. CASE Fingerprint(r)
  <2>1. Quiet BY <1>8, QuietCalls DEF Fingerprint
  <2> QED BY <1>1, <1>3, <1>8, <2>1, WayOut, GoesOn DEF Fingerprint
<1>9. CASE DropPolicy(r) BY <1>1, <1>2, <1>3, <1>5, <1>9, ForthStep DEF DropPolicy
<1>10. CASE Rename(r) BY <1>1, <1>2, <1>3, <1>5, <1>10, ForthStep DEF Rename
<1>11. CASE Stop(r) BY <1>1, <1>2, <1>3, <1>5, <1>11, ForthStep, QuietCalls, GoesOn DEF Stop
<1>12. CASE Disconnect(r)
  <2>1. Quiet BY <1>2, <1>3, <1>5, <1>12, QuietCalls DEF Disconnect
  <2> QED BY <1>1, <1>3, <1>12, <2>1, GoesOn DEF Disconnect
<1>13. CASE Create(r)
  <2>1. Quiet BY <1>2, <1>4, <1>13, QuietCalls DEF Create
  <2> QED BY <1>1, <1>3, <1>13, <2>1, GoesOn DEF Create
<1>14. CASE Lookup(r)
  <2>1. Quiet BY <1>14, QuietCalls DEF Lookup
  <2>2. (box[r].at = "home") \in BOOLEAN OBVIOUS
  <2> QED BY <1>1, <1>3, <1>14, <2>1, <2>2, GoesOn DEF Lookup
<1>15. CASE Start(r) BY <1>1, <1>2, <1>3, <1>4, <1>15, ForthStep, QuietCalls, GoesOn DEF Start
<1>16. CASE Verify(r)
  <2>1. Quiet BY <1>16, QuietCalls DEF Verify
  <2> QED BY <1>1, <1>3, <1>16, <2>1, WayOut, GoesOn DEF Verify
<1>17. CASE Commit(r)
  <2>1. Quiet BY <1>17, QuietCalls DEF Commit
  <2> QED BY <1>1, <1>3, <1>17, <2>1, WayOut, GoesOn DEF Commit
<1>18. CASE RemoveOld(r)
  <2>1. Quiet BY <1>2, <1>3, <1>5, <1>18, QuietCalls DEF RemoveOld
  <2> QED BY <1>1, <1>3, <1>18, <2>1, GoesOn DEF RemoveOld
<1>19. CASE Discard(r) BY <1>2, <1>3, <1>4, <1>19, BackStep DEF Discard, Jobs, Exists
<1>20. CASE Homeward(r) BY <1>2, <1>3, <1>5, <1>20, BackStep DEF Homeward
<1>21. CASE Reconnect(r) BY <1>2, <1>3, <1>5, <1>21, BackStep DEF Reconnect
<1>22. CASE Repolicy(r) BY <1>2, <1>3, <1>5, <1>22, BackStep DEF Repolicy
<1>23. CASE Restart(r) BY <1>2, <1>3, <1>5, <1>23, BackStep DEF Restart
<1>24. CASE Reverify(r)
  <2>1. Quiet BY <1>24, QuietCalls DEF Reverify
  <2> QED BY <1>1, <1>3, <1>24, <2>1, WayOut, GoesOn DEF Reverify
<1>25. CASE Crash(r)
  <2>1. Quiet BY <1>25, QuietCalls DEF Crash
  <2> DEFINE o == [Nothing EXCEPT !.old = Old(r)]
  <2>2. /\ rpc' = [rpc EXCEPT ![r] = "crashed"] /\ op' = [op EXCEPT ![r] = o]
        /\ journal' = [journal EXCEPT ![r] = journal[r]]
    BY <1>25 DEF Crash, Leave, Go, ReplacementTypeOK
  <2>3. o \in Jobs /\ ~o.lock BY <1>4, BoxTypes DEF Nothing, Jobs, Old
  <2>4. "crashed" \in Steps /\ "crashed" \notin AtWork /\ "crashed" \notin Locked /\ "crashed" \notin Working
    BY WorkFacts
  <2> HIDE DEF o
  <2> QED BY <1>4, <2>1, <2>2, <2>3, <2>4, QuietStep
<1> QED
  BY <1>6, ReserveStep, <1>7, <1>8, <1>9, <1>10, <1>11, <1>12, <1>13, <1>14, <1>15, <1>16, <1>17,
     <1>18, ReleaseStep, <1>19, <1>20, <1>21, <1>22, <1>23, <1>24, <1>25 DEF ReplacementStep

(***************************************************************************)
(* Prunes: what one step of prune p does to the reservations.              *)
(***************************************************************************)
(* A prune works under its reservation, and a lost sweep keeps it.         *)
Guards(p) ==
  /\ ppc[p] \in {"survey", "sweep", "reclaim", "release"} => guard[p]
  /\ guard[p] => held[PruneSlot] = p
  /\ <<"sweep", p>> \in late => held[PruneSlot] = p /\ ~guard[p]

PruneInv == \A p \in Pruners : Guards(p)

PruneEffect(p) ==
  /\ DaemonTypeOK' /\ PruneTypeOK' /\ Guards(p)'
  /\ \A t \in Slots : Kept(t) \/ held[t] = p
  /\ \A q \in Pruners \ {p} : /\ ppc'[q] = ppc[q] /\ guard'[q] = guard[q]
                              /\ <<"sweep", q>> \in late' => <<"sweep", q>> \in late
  /\ Sweeping(p)' => Sweeping(p) \/ ~Evidence

PSteps == {"idle", "evidence", "reserve", "survey", "sweep", "reclaim", "release", "done"}

(* A step of p that changes no reservation and leaves no sweep behind.     *)
LEMMA QuietPrune ==
  ASSUME DaemonTypeOK, PruneTypeOK, PruneInv, Quiet, NEW p \in Pruners,
         NEW step \in PSteps, NEW some \in SUBSET Ids, NEW g \in BOOLEAN,
         ppc' = [ppc EXCEPT ![p] = step], chosen' = [chosen EXCEPT ![p] = some],
         guard' = [guard EXCEPT ![p] = g],
         g => guard[p], step \in {"survey", "sweep", "reclaim", "release"} => g,
         step \in {"sweep", "reclaim"} => ppc[p] \in {"sweep", "reclaim"} \/ ~Evidence
  PROVE  PruneEffect(p)
<1>1. PruneTypeOK' BY DEF PruneTypeOK, PSteps
<1>2. ppc'[p] = step /\ guard'[p] = g BY DEF PruneTypeOK
<1>3. Guards(p)' BY <1>2 DEF Guards, PruneInv, Quiet, NoNewSweep
<1>4. \A t \in Slots : Kept(t) BY DEF Quiet, Kept
<1>5. \A q \in Pruners \ {p} : ppc'[q] = ppc[q] /\ guard'[q] = guard[q] BY DEF PruneTypeOK
<1>6. Sweeping(p)' => Sweeping(p) \/ ~Evidence
  BY <1>2 DEF Sweeping, Quiet, NoNewSweep
<1> QED BY <1>1, <1>3, <1>4, <1>5, <1>6 DEF PruneEffect, Quiet, NoNewSweep

(* The end of a prune, without its reservation being touched.              *)
LEMMA PruneEnds ==
  ASSUME DaemonTypeOK, PruneTypeOK, PruneInv, Quiet, NEW p \in Pruners, PEnd(p)
  PROVE  PruneEffect(p)
<1>1. /\ ppc' = [ppc EXCEPT ![p] = "done"] /\ chosen' = [chosen EXCEPT ![p] = {}]
      /\ guard' = [guard EXCEPT ![p] = FALSE]
  BY DEF PEnd, PGo
<1>2. "done" \in PSteps /\ {} \in SUBSET Ids /\ FALSE \in BOOLEAN BY DEF PSteps
<1> QED BY <1>1, <1>2, QuietPrune

(* The next step of a prune, with its choice and its reservation.          *)
LEMMA PruneGoesOn ==
  ASSUME DaemonTypeOK, PruneTypeOK, PruneInv, Quiet, NEW p \in Pruners,
         NEW step \in PSteps, PGo(p, step), NEW some \in SUBSET Ids,
         chosen' = [chosen EXCEPT ![p] = some], guard' = guard,
         step \in {"survey", "sweep", "reclaim", "release"} =>
           ppc[p] \in {"survey", "sweep", "reclaim", "release"},
         step \in {"sweep", "reclaim"} => ppc[p] \in {"sweep", "reclaim"} \/ ~Evidence
  PROVE  PruneEffect(p)
<1>1. ppc' = [ppc EXCEPT ![p] = step] /\ guard' = [guard EXCEPT ![p] = guard[p]]
  BY DEF PGo, PruneTypeOK
<1>2. guard[p] \in BOOLEAN BY DEF PruneTypeOK
<1>3. step \in {"survey", "sweep", "reclaim", "release"} => guard[p] BY DEF PruneInv, Guards
<1> QED BY <1>1, <1>2, <1>3, QuietPrune

LEMMA ReserveGuardStep ==
  ASSUME DaemonTypeOK, PruneTypeOK, PruneInv, NEW p \in Pruners, ReserveGuard(p)
  PROVE  PruneEffect(p)
<1>1. PruneSlot \in Slots /\ p \in Actors /\ p # NoOne
  BY SlotFacts, DaemonAssumption DEF Actors
<1>2. DaemonTypeOK' /\ NoNewSweep /\ \A t \in Slots : Kept(t)
  BY <1>1, ReserveKeeps DEF ReserveGuard
<1>3. CASE /\ Reserved(PruneSlot, p) /\ guard' = [guard EXCEPT ![p] = TRUE]
           /\ PGo(p, "survey") /\ UNCHANGED chosen
  <2>1. held[PruneSlot] = NoOne /\ held'[PruneSlot] = p
    BY <1>1, <1>3 DEF Reserved, DaemonTypeOK
  <2>2. <<"sweep", p>> \notin late' BY <1>1, <1>2, <2>1 DEF PruneInv, Guards, NoNewSweep
  <2>3. ppc' = [ppc EXCEPT ![p] = "survey"] BY <1>3 DEF PGo
  <2>4. PruneTypeOK' BY <1>3, <2>3 DEF PruneTypeOK
  <2>5. ppc'[p] = "survey" /\ guard'[p] BY <1>3, <2>3 DEF PruneTypeOK
  <2>6. \A q \in Pruners \ {p} : ppc'[q] = ppc[q] /\ guard'[q] = guard[q]
    BY <1>3, <2>3 DEF PruneTypeOK
  <2>7. Guards(p)' BY <2>1, <2>2, <2>5 DEF Guards
  <2>8. ~Sweeping(p)' BY <2>2, <2>5 DEF Sweeping
  <2> QED BY <1>2, <2>4, <2>6, <2>7, <2>8 DEF PruneEffect, NoNewSweep
<1>4. CASE (Conflict(PruneSlot) \/ ReserveLost(PruneSlot, p)) /\ PEnd(p)
  <2>1. ppc' = [ppc EXCEPT ![p] = "done"] /\ guard' = [guard EXCEPT ![p] = FALSE]
    BY <1>4 DEF PEnd, PGo
  <2>2. PruneTypeOK' BY <1>4, <2>1 DEF PEnd, PruneTypeOK
  <2>3. ppc'[p] = "done" /\ ~guard'[p] BY <2>1 DEF PruneTypeOK
  <2>4. \A q \in Pruners \ {p} : ppc'[q] = ppc[q] /\ guard'[q] = guard[q]
    BY <2>1 DEF PruneTypeOK
  <2>5. <<"sweep", p>> \in late' => held'[PruneSlot] = p
    BY <1>1, <1>2 DEF PruneInv, Guards, NoNewSweep, Kept
  <2>6. Guards(p)' BY <2>3, <2>5 DEF Guards
  <2>7. Sweeping(p)' => Sweeping(p) BY <1>2, <2>3 DEF Sweeping, NoNewSweep
  <2> QED BY <1>2, <2>2, <2>4, <2>6, <2>7 DEF PruneEffect, NoNewSweep
<1> QED BY <1>3, <1>4 DEF ReserveGuard

LEMMA SweepLostStep ==
  ASSUME DaemonTypeOK, PruneTypeOK, PruneInv, NEW p \in Pruners, SweepLost(p)
  PROVE  PruneEffect(p)
<1>1. /\ ppc' = [ppc EXCEPT ![p] = "done"] /\ chosen' = [chosen EXCEPT ![p] = {}]
      /\ guard' = [guard EXCEPT ![p] = FALSE]
  BY DEF SweepLost, PEnd, PGo
<1>2. held' = held /\ held[PruneSlot] = p BY DEF SweepLost, PruneInv, Guards
<1>3. late' = late \/ late' = late \cup {<<"sweep", p>>} BY DEF SweepLost
<1>4. DaemonTypeOK'
  <2>1. box' \in [Ids -> Boxes] BY SweptTypes DEF SweepLost, DaemonTypeOK
  <2>2. <<"sweep", p>> \in Abandoned BY DEF Abandoned
  <2>3. late' \subseteq Abandoned BY <1>3, <2>2 DEF DaemonTypeOK
  <2> QED BY <1>2, <2>1, <2>3, FaultTypes DEF SweepLost, DaemonTypeOK
<1>5. PruneTypeOK' BY <1>1 DEF PruneTypeOK
<1>6. Guards(p)' BY <1>1, <1>2 DEF Guards, PruneTypeOK
<1>7. \A q \in Pruners \ {p} : /\ ppc'[q] = ppc[q] /\ guard'[q] = guard[q]
                               /\ <<"sweep", q>> \in late' => <<"sweep", q>> \in late
  BY <1>1, <1>3 DEF PruneTypeOK
<1>8. \A t \in Slots : Kept(t) BY <1>2 DEF Kept
<1>9. Sweeping(p) BY DEF Sweeping, SweepLost
<1> QED BY <1>4, <1>5, <1>6, <1>7, <1>8, <1>9 DEF PruneEffect

LEMMA ReleaseGuardStep ==
  ASSUME DaemonTypeOK, PruneTypeOK, PruneInv, NEW p \in Pruners, ReleaseGuard(p)
  PROVE  PruneEffect(p)
<1>1. /\ ppc' = [ppc EXCEPT ![p] = "done"] /\ chosen' = [chosen EXCEPT ![p] = {}]
      /\ guard' = [guard EXCEPT ![p] = FALSE]
  BY DEF ReleaseGuard, PEnd, PGo
<1>2. /\ DaemonTypeOK' /\ late' = late
      /\ \A t \in Slots : t # PruneSlot => held'[t] = held[t]
  BY SlotFacts, FreeKeeps DEF ReleaseGuard
<1>3. held[PruneSlot] = p /\ <<"sweep", p>> \notin late BY DEF ReleaseGuard, PruneInv, Guards
<1>4. PruneTypeOK' BY <1>1 DEF PruneTypeOK
<1>5. ppc'[p] = "done" /\ ~guard'[p] BY <1>1 DEF PruneTypeOK
<1>6. \A q \in Pruners \ {p} : ppc'[q] = ppc[q] /\ guard'[q] = guard[q]
  BY <1>1 DEF PruneTypeOK
<1>7. Guards(p)' /\ ~Sweeping(p)' BY <1>2, <1>3, <1>5 DEF Guards, Sweeping
<1>8. \A t \in Slots : Kept(t) \/ held[t] = p BY <1>2, <1>3 DEF Kept
<1> QED BY <1>2, <1>4, <1>6, <1>7, <1>8 DEF PruneEffect

(* Every step of a prune frees nothing but its own reservation, and comes  *)
(* to remove things only where it sees no other one.                       *)
LEMMA PruneSteps ==
  ASSUME DaemonTypeOK, PruneTypeOK, PruneInv, NEW p \in Pruners, PruneStep(p)
  PROVE  PruneEffect(p)
<1>1. chosen[p] \in SUBSET Ids /\ UNCHANGED chosen => chosen' = [chosen EXCEPT ![p] = chosen[p]]
  BY DEF PruneTypeOK
<1>2. chosen[p] \in SUBSET Ids BY DEF PruneTypeOK
<1>3. CASE Request(p)
  <2>1. PICK some \in SUBSET Ids : chosen' = [chosen EXCEPT ![p] = some]
    BY <1>3 DEF Request
  <2> QED BY <1>3, <2>1, QuietCalls, PruneGoesOn DEF Request, PSteps
<1>4. CASE FirstSurvey(p)
  BY <1>1, <1>2, <1>4, QuietCalls, PruneGoesOn, PruneEnds DEF FirstSurvey, PSteps
<1>5. CASE SecondSurvey(p)
  <2>1. Quiet BY <1>5, QuietCalls DEF SecondSurvey
  <2>2. CASE ~Evidence /\ PGo(p, IF chosen[p] = {} THEN "sweep" ELSE "reclaim") /\ UNCHANGED daemon
    BY <1>1, <1>2, <1>5, <2>1, <2>2, PruneGoesOn DEF SecondSurvey, PSteps
  <2>3. CASE PGo(p, "release")
    BY <1>1, <1>2, <1>5, <2>1, <2>3, PruneGoesOn DEF SecondSurvey, PSteps
  <2> QED BY <1>5, <2>2, <2>3 DEF SecondSurvey
<1>6. CASE SweepDone(p)
  <2>1. held' = held /\ late' = late BY <1>6 DEF SweepDone
  <2>2. box' \in [Ids -> Boxes] /\ faults' \in 0 .. MaxFaults
    BY <1>6, SweptTypes, FaultTypes DEF SweepDone, DaemonTypeOK
  <2>3. Quiet BY <2>1, <2>2 DEF Quiet, NoNewSweep, DaemonTypeOK
  <2> QED BY <1>1, <1>2, <1>6, <2>3, PruneGoesOn DEF SweepDone, PSteps
<1>7. CASE Reclaim(p)
  <2>1. PICK i \in chosen[p] :
          \/ /\ Done("reclaim", i) \/ Refused("reclaim", i)
             /\ chosen' = [chosen EXCEPT ![p] = @ \ {i}] /\ UNCHANGED <<ppc, guard>>
          \/ Lost("reclaim", i) /\ PEnd(p)
    BY <1>7 DEF Reclaim
  <2>2. i \in Ids /\ "reclaim" \in Kinds BY <1>2 DEF Kinds
  <2>3. Quiet BY <2>1, <2>2, QuietCalls DEF Failed
  <2>4. CASE chosen' = [chosen EXCEPT ![p] = @ \ {i}] /\ UNCHANGED <<ppc, guard>>
    <3>1. PGo(p, "reclaim") BY <1>7, <2>4 DEF Reclaim, PGo, PruneTypeOK
    <3>2. chosen[p] \ {i} \in SUBSET Ids BY <1>2
    <3> QED BY <1>7, <2>3, <2>4, <3>1, <3>2, PruneGoesOn DEF Reclaim, PSteps
  <2> QED BY <2>1, <2>3, <2>4, PruneEnds
<1>8. CASE ReclaimEnds(p)
  BY <1>1, <1>2, <1>8, QuietCalls, PruneGoesOn DEF ReclaimEnds, PSteps
<1>9. CASE PruneCrash(p) BY <1>9, QuietCalls, PruneEnds DEF PruneCrash
<1> QED
  BY <1>3, <1>4, ReserveGuardStep, <1>5, <1>6, SweepLostStep, <1>7, <1>8, ReleaseGuardStep, <1>9
  DEF PruneStep

(***************************************************************************)
(* Egress operations: what one step of operation e does to the             *)
(* reservations.                                                           *)
(***************************************************************************)
JobRecs == [kind : {"none", "apply", "remove", "status"}, policy : Policies \cup {NoOne},
            inst : [Names -> Nat], todo : SUBSET Names, open : SUBSET Names,
            found : [Names -> Nat], tried : SUBSET Names, unsure : SUBSET Names]

(* Tables, commands and rows.                                              *)
BooksOK ==
  /\ table \in [Names -> Nat] /\ told \in [Names -> Nat]
  /\ abandoned \in [Names -> Commands]
  /\ active \in [Policies -> BOOLEAN]
  /\ reported \in [Policies -> [Names -> Nat]]
  /\ refused \in [Egressers -> Actors \cup {NoOne}]

LEMMA EgressTypes ==
  EgressTypeOK <=> /\ epc \in [Egressers -> EgressSteps] /\ job \in [Egressers -> JobRecs]
                   /\ BooksOK
BY DEF EgressTypeOK, JobRecs, BooksOK

(* Steps past the look at the prune reservation; and from the first        *)
(* reservation on.                                                         *)
AtTables == {"join", "snapshot", "policies", "mutate", "recheck", "rollback"}
InSession == AtTables \cup {"barrier"}

(* An operation works under the reservations of its open sessions.         *)
Sessions(e) ==
  /\ \A c \in job[e].open : held[EgressSlot(c)] = e
  /\ epc[e] \in InSession => job[e].open # {}

EgressInv == \A e \in Egressers : Sessions(e)

Alone(e) == \A f \in Egressers \ {e} : epc'[f] = epc[f] /\ job'[f] = job[f]

EgressEffect(e) ==
  /\ DaemonTypeOK' /\ EgressTypeOK' /\ Sessions(e)' /\ NoNewSweep
  /\ \A t \in Slots : Kept(t) \/ held[t] = e
  /\ epc'[e] \in AtTables => epc[e] \in AtTables \/ held[PruneSlot] = NoOne
  /\ Alone(e)

(* A step of e that changes no reservation and opens no session.           *)
LEMMA QuietEgress ==
  ASSUME DaemonTypeOK, EgressTypeOK, EgressInv, Quiet, BooksOK', NEW e \in Egressers,
         NEW step \in EgressSteps, NEW j \in JobRecs,
         epc' = [epc EXCEPT ![e] = step], job' = [job EXCEPT ![e] = j],
         j.open \subseteq job[e].open, step \in InSession => j.open # {},
         step \in AtTables => epc[e] \in AtTables \/ held[PruneSlot] = NoOne
  PROVE  EgressEffect(e)
<1>1. EgressTypeOK' BY EgressTypes DEF EgressTypeOK, JobRecs, BooksOK
<1>2. epc'[e] = step /\ job'[e] = j BY DEF EgressTypeOK
<1>3. Sessions(e)' BY <1>2 DEF Sessions, EgressInv, Quiet, EgressSlot
<1>4. \A t \in Slots : Kept(t) BY DEF Quiet, Kept
<1>5. Alone(e) BY DEF Alone, EgressTypeOK
<1> QED BY <1>1, <1>2, <1>3, <1>4, <1>5 DEF EgressEffect, Quiet

(* The same for a step that keeps its sessions.                            *)
KeepsSessions(e) == \E j \in JobRecs : j.open = job[e].open /\ job' = [job EXCEPT ![e] = j]

LEMMA EgressGoesOn ==
  ASSUME DaemonTypeOK, EgressTypeOK, EgressInv, Quiet, BooksOK', NEW e \in Egressers,
         epc[e] \in InSession, NEW step \in EgressSteps, EGo(e, step), KeepsSessions(e),
         step \in AtTables => epc[e] \in AtTables \/ held[PruneSlot] = NoOne
  PROVE  EgressEffect(e)
<1>1. PICK j \in JobRecs : j.open = job[e].open /\ job' = [job EXCEPT ![e] = j]
  BY DEF KeepsSessions
<1>2. job[e].open # {} BY DEF EgressInv, Sessions
<1>3. epc' = [epc EXCEPT ![e] = step] BY DEF EGo
<1> QED BY <1>1, <1>2, <1>3, QuietEgress

(* The work is over: the sessions stay to be closed.                       *)
LEMMA EgressCloses ==
  ASSUME DaemonTypeOK, EgressTypeOK, EgressInv, Quiet, BooksOK', NEW e \in Egressers,
         NEW unsure \in SUBSET Names, Close(e, unsure)
  PROVE  EgressEffect(e)
<1>1. job[e] \in JobRecs BY EgressTypes
<1> DEFINE j == [NoJob EXCEPT !.open = job[e].open, !.unsure = job[e].unsure \cup unsure]
<1>2. j \in JobRecs /\ j.open = job[e].open BY <1>1 DEF JobRecs, NoJob, Nowhere
<1>3. job' = [job EXCEPT ![e] = j] /\ epc' = [epc EXCEPT ![e] = "close"] BY DEF Close, EGo
<1>4. "close" \in EgressSteps /\ "close" \notin InSession /\ "close" \notin AtTables
  BY DEF EgressSteps, InSession, AtTables
<1> HIDE DEF j
<1> QED BY <1>2, <1>3, <1>4, QuietEgress

LEMMA EgressFallsBack ==
  ASSUME DaemonTypeOK, EgressTypeOK, EgressInv, Quiet, BooksOK', NEW e \in Egressers,
         epc[e] \in AtTables, NEW tried \in SUBSET Names, NEW unsure \in SUBSET Names,
         Fallback(e, tried, unsure)
  PROVE  EgressEffect(e)
<1>1. job[e] \in JobRecs BY EgressTypes
<1>2. CASE Close(e, unsure) BY <1>2, EgressCloses
<1>3. CASE /\ EGo(e, "rollback")
           /\ job' = [job EXCEPT ![e].tried = @ \cup tried, ![e].unsure = @ \cup unsure]
  <2> DEFINE j == [job[e] EXCEPT !.tried = @ \cup tried, !.unsure = @ \cup unsure]
  <2>1. j \in JobRecs /\ j.open = job[e].open BY <1>1 DEF JobRecs
  <2>2. job' = [job EXCEPT ![e] = j] BY <1>3 DEF EgressTypeOK
  <2>3. epc' = [epc EXCEPT ![e] = "rollback"] BY <1>3 DEF EGo
  <2>4. job[e].open # {} /\ "rollback" \in EgressSteps
    BY DEF EgressInv, Sessions, InSession, EgressSteps
  <2> HIDE DEF j
  <2> QED BY <2>1, <2>2, <2>3, <2>4, QuietEgress
<1> QED BY <1>2, <1>3 DEF Fallback

(* Commands keep the types of the tables.                                  *)
LEMMA Rulings ==
  ASSUME EgressTypeOK, NEW c \in Names, NEW command \in Commands
  PROVE  /\ Ruled(c, command) \in [Names -> Nat]
         /\ [abandoned EXCEPT ![c] = command] \in [Names -> Commands]
         /\ Idle[c] \in Commands
<1>1. command[2] \in Nat /\ command[3] \in Nat BY DEF Commands
<1> QED BY <1>1 DEF Ruled, EgressTypeOK, Idle, Commands

LEMMA CommandKeeps ==
  ASSUME DaemonTypeOK, EgressTypeOK, NEW c \in Names, NEW command \in Commands,
         Ran(c, command) \/ Exited \/ Unknown(c, command)
  PROVE  Quiet /\ table' \in [Names -> Nat] /\ abandoned' \in [Names -> Commands]
<1>1. Quiet BY QuietCalls DEF Ran, Exited, Unknown
<1>2. /\ table' = table \/ table' = Ruled(c, command)
      /\ abandoned' = abandoned \/ abandoned' = [abandoned EXCEPT ![c] = command]
  <2>1. CASE Ran(c, command) BY <2>1 DEF Ran
  <2>2. CASE Exited BY <2>2 DEF Exited, ruleset
  <2>3. CASE Unknown(c, command) BY <2>3 DEF Unknown, ruleset
  <2> QED BY <2>1, <2>2, <2>3
<1>3. table \in [Names -> Nat] /\ abandoned \in [Names -> Commands] BY DEF EgressTypeOK
<1>4. /\ Ruled(c, command) \in [Names -> Nat]
      /\ [abandoned EXCEPT ![c] = command] \in [Names -> Commands]
  BY Rulings
<1> QED BY <1>1, <1>2, <1>3, <1>4

LEMMA ReserveTargetStep ==
  ASSUME DaemonTypeOK, EgressTypeOK, EgressInv, NEW e \in Egressers, ReserveTarget(e)
  PROVE  EgressEffect(e)
<1>1. job[e] \in JobRecs /\ e \in Actors /\ e # NoOne
  BY EgressTypes, DaemonAssumption DEF Actors
<1>2. PICK c \in Next1(e) :
        \/ /\ Reserved(EgressSlot(c), e) /\ EGo(e, "barrier")
           /\ job' = [job EXCEPT ![e].open = @ \cup {c}] /\ UNCHANGED refused
        \/ /\ Conflict(EgressSlot(c)) /\ Close(e, {})
           /\ refused' = [refused EXCEPT ![e] = held[EgressSlot(c)]]
        \/ ReserveLost(EgressSlot(c), e) /\ Close(e, {}) /\ UNCHANGED refused
  BY Zenon DEF ReserveTarget
<1>3. c \in Names /\ EgressSlot(c) \in Slots
  BY <1>1, SlotFacts DEF Next1, JobRecs
<1>4. /\ DaemonTypeOK' /\ NoNewSweep
      /\ \A t \in Slots : Kept(t) /\ (t # EgressSlot(c) => held'[t] = held[t])
  BY <1>1, <1>2, <1>3, ReserveKeeps
<1>5. BooksOK'
  <2>1. held[EgressSlot(c)] \in Actors \cup {NoOne} BY <1>3 DEF DaemonTypeOK
  <2>2. refused' = refused \/ refused' = [refused EXCEPT ![e] = held[EgressSlot(c)]] BY <1>2
  <2>3. UNCHANGED <<ruleset, active, told, reported>> BY DEF ReserveTarget
  <2> QED BY <2>1, <2>2, <2>3 DEF EgressTypeOK, BooksOK, ruleset
<1>6. PICK j \in JobRecs, step \in {"barrier", "close"} :
        /\ epc' = [epc EXCEPT ![e] = step] /\ job' = [job EXCEPT ![e] = j]
        /\ j.open \subseteq job[e].open \cup {c}
        /\ step = "barrier" => c \in j.open
        /\ c \in j.open => c \in job[e].open \/ held'[EgressSlot(c)] = e
  <2>1. CASE /\ Reserved(EgressSlot(c), e) /\ EGo(e, "barrier")
             /\ job' = [job EXCEPT ![e].open = @ \cup {c}]
    <3> DEFINE j == [job[e] EXCEPT !.open = @ \cup {c}]
    <3>1. j \in JobRecs /\ j.open = job[e].open \cup {c} BY <1>1, <1>3 DEF JobRecs
    <3>2. job' = [job EXCEPT ![e] = j] BY <2>1 DEF EgressTypeOK
    <3>3. held'[EgressSlot(c)] = e BY <1>3, <2>1 DEF Reserved, DaemonTypeOK
    <3>4. epc' = [epc EXCEPT ![e] = "barrier"] BY <2>1 DEF EGo
    <3> HIDE DEF j
    <3> QED BY <3>1, <3>2, <3>3, <3>4
  <2>2. CASE Close(e, {})
    <3> DEFINE j == [NoJob EXCEPT !.open = job[e].open, !.unsure = job[e].unsure \cup {}]
    <3>1. j \in JobRecs /\ j.open = job[e].open BY <1>1 DEF JobRecs, NoJob, Nowhere
    <3>2. job' = [job EXCEPT ![e] = j] /\ epc' = [epc EXCEPT ![e] = "close"]
      BY <2>2 DEF Close, EGo
    <3> HIDE DEF j
    <3> QED BY <3>1, <3>2
  <2> QED BY <1>2, <2>1, <2>2
<1>7. epc'[e] = step /\ job'[e] = j BY <1>6 DEF EgressTypeOK
<1>8. EgressTypeOK'
  <2>1. step \in EgressSteps BY DEF EgressSteps
  <2>2. epc' \in [Egressers -> EgressSteps] /\ job' \in [Egressers -> JobRecs]
    BY <1>6, <2>1, EgressTypes
  <2> QED BY <1>5, <2>2 DEF EgressTypeOK, JobRecs, BooksOK
<1>9. Sessions(e)'
  <2>1. \A d \in job[e].open : held[EgressSlot(d)] = e /\ EgressSlot(d) \in Slots
    BY <1>1, SlotFacts DEF EgressInv, Sessions, JobRecs
  <2>2. \A d \in j.open : held'[EgressSlot(d)] = e BY <1>1, <1>4, <1>6, <2>1 DEF Kept
  <2>3. step \in InSession => j.open # {} BY <1>6 DEF InSession, AtTables
  <2> QED BY <1>7, <2>2, <2>3 DEF Sessions, EgressSlot
<1>10. step \notin AtTables BY DEF AtTables
<1>11. Alone(e) BY <1>6 DEF Alone, EgressTypeOK
<1> QED BY <1>4, <1>7, <1>8, <1>9, <1>10, <1>11 DEF EgressEffect

LEMMA CloseSessionStep ==
  ASSUME DaemonTypeOK, EgressTypeOK, EgressInv, NEW e \in Egressers, CloseSession(e)
  PROVE  EgressEffect(e)
<1>1. job[e] \in JobRecs BY EgressTypes
<1>2. PICK c \in job[e].open :
        /\ job' = [job EXCEPT ![e].open = @ \ {c}]
        /\ \/ abandoned' = [abandoned EXCEPT ![c] = Idle[c]] /\ UNCHANGED daemon
           \/ Glitch /\ UNCHANGED abandoned
           \/ (Freed(EgressSlot(c)) \/ FreeFailed(EgressSlot(c))) /\ UNCHANGED abandoned
  BY Zenon DEF CloseSession
<1>3. c \in Names /\ EgressSlot(c) \in Slots /\ held[EgressSlot(c)] = e
  BY <1>1, SlotFacts DEF JobRecs, EgressInv, Sessions
<1>4. /\ DaemonTypeOK' /\ NoNewSweep
      /\ \A t \in Slots : t # EgressSlot(c) => held'[t] = held[t]
  <2>1. CASE Freed(EgressSlot(c)) \/ FreeFailed(EgressSlot(c))
    BY <1>3, <2>1, FreeKeeps DEF NoNewSweep
  <2>2. CASE UNCHANGED daemon \/ Glitch BY <2>2, QuietCalls DEF Quiet
  <2> QED BY <1>2, <2>1, <2>2
<1>5. BooksOK'
  <2>1. Idle[c] \in Commands BY <1>3 DEF Idle, Commands
  <2>2. abandoned' \in [Names -> Commands] BY <1>2, <2>1 DEF EgressTypeOK
  <2>3. UNCHANGED <<records, table>> BY DEF CloseSession
  <2> QED BY <2>2, <2>3 DEF EgressTypeOK, BooksOK, records
<1> DEFINE j == [job[e] EXCEPT !.open = @ \ {c}]
<1>6. j \in JobRecs /\ j.open = job[e].open \ {c} BY <1>1 DEF JobRecs
<1>7. job' = [job EXCEPT ![e] = j] BY <1>2 DEF EgressTypeOK
<1> HIDE DEF j
<1>8. epc' = epc /\ epc[e] = "close" BY DEF CloseSession
<1>9. job'[e] = j BY <1>7 DEF EgressTypeOK
<1>10. EgressTypeOK'
  <2>1. job' \in [Egressers -> JobRecs] BY <1>6, <1>7, EgressTypes
  <2>2. epc' \in [Egressers -> EgressSteps] BY <1>8, EgressTypes
  <2> QED BY <1>5, <2>1, <2>2 DEF EgressTypeOK, JobRecs, BooksOK
<1>11. Sessions(e)'
  <2>1. \A d \in j.open : /\ held[EgressSlot(d)] = e /\ EgressSlot(d) \in Slots
                          /\ EgressSlot(d) # EgressSlot(c)
    BY <1>1, <1>3, <1>6, SlotFacts DEF EgressInv, Sessions, JobRecs
  <2>2. \A d \in j.open : held'[EgressSlot(d)] = e BY <1>4, <2>1
  <2> QED BY <1>8, <1>9, <2>2 DEF Sessions, EgressSlot, InSession, AtTables
<1>12. Alone(e) BY <1>7, <1>8 DEF Alone, EgressTypeOK
<1>13. \A t \in Slots : Kept(t) \/ held[t] = e BY <1>3, <1>4 DEF Kept
<1>14. epc'[e] \notin AtTables BY <1>8 DEF AtTables
<1> QED BY <1>4, <1>10, <1>11, <1>12, <1>13, <1>14 DEF EgressEffect

LEMMA JobTypes ==
  ASSUME EgressTypeOK, NEW e \in Egressers
  PROVE  /\ job \in [Egressers -> JobRecs] /\ job[e] \in JobRecs
         /\ job[e].todo \in SUBSET Names /\ job[e].tried \in SUBSET Names
         /\ job[e].unsure \in SUBSET Names /\ job[e].open \in SUBSET Names
         /\ job[e].found \in [Names -> Nat] /\ job[e].inst \in [Names -> Nat]
         /\ job[e].kind \in {"none", "apply", "remove", "status"}
         /\ job[e].policy \in Policies \cup {NoOne}
BY EgressTypes DEF JobRecs

(* What the phases of an operation change keeps its sessions.              *)
LEMMA JobEdits ==
  ASSUME EgressTypeOK, NEW e \in Egressers
  PROVE  /\ UNCHANGED job => KeepsSessions(e)
         /\ \A S \in SUBSET Names : job' = [job EXCEPT ![e].todo = S] => KeepsSessions(e)
         /\ \A S \in SUBSET Names, f \in [Names -> Nat] :
              job' = [job EXCEPT ![e].todo = S, ![e].found = f] => KeepsSessions(e)
         /\ \A S \in SUBSET Names : job' = [job EXCEPT ![e].tried = S] => KeepsSessions(e)
         /\ \A S, T \in SUBSET Names :
              job' = [job EXCEPT ![e].tried = S, ![e].unsure = T] => KeepsSessions(e)
<1>1. job \in [Egressers -> JobRecs] /\ job[e] \in JobRecs BY JobTypes
<1>2. ASSUME UNCHANGED job PROVE KeepsSessions(e) BY <1>1, <1>2 DEF KeepsSessions
<1>3. ASSUME NEW S \in SUBSET Names, job' = [job EXCEPT ![e].todo = S] PROVE KeepsSessions(e)
  <2> DEFINE j == [job[e] EXCEPT !.todo = S]
  <2>1. j \in JobRecs /\ j.open = job[e].open BY <1>1 DEF JobRecs
  <2>2. job' = [job EXCEPT ![e] = j] BY <1>1, <1>3
  <2> QED BY <2>1, <2>2 DEF KeepsSessions
<1>4. ASSUME NEW S \in SUBSET Names, NEW f \in [Names -> Nat],
             job' = [job EXCEPT ![e].todo = S, ![e].found = f]
      PROVE  KeepsSessions(e)
  <2> DEFINE j == [job[e] EXCEPT !.todo = S, !.found = f]
  <2>1. j \in JobRecs /\ j.open = job[e].open BY <1>1 DEF JobRecs
  <2>2. job' = [job EXCEPT ![e] = j] BY <1>1, <1>4
  <2> QED BY <2>1, <2>2 DEF KeepsSessions
<1>5. ASSUME NEW S \in SUBSET Names, job' = [job EXCEPT ![e].tried = S] PROVE KeepsSessions(e)
  <2> DEFINE j == [job[e] EXCEPT !.tried = S]
  <2>1. j \in JobRecs /\ j.open = job[e].open BY <1>1 DEF JobRecs
  <2>2. job' = [job EXCEPT ![e] = j] BY <1>1, <1>5
  <2> QED BY <2>1, <2>2 DEF KeepsSessions
<1>6. ASSUME NEW S \in SUBSET Names, NEW T \in SUBSET Names,
             job' = [job EXCEPT ![e].tried = S, ![e].unsure = T]
      PROVE  KeepsSessions(e)
  <2> DEFINE j == [job[e] EXCEPT !.tried = S, !.unsure = T]
  <2>1. j \in JobRecs /\ j.open = job[e].open BY <1>1 DEF JobRecs
  <2>2. job' = [job EXCEPT ![e] = j] BY <1>1, <1>6
  <2> QED BY <2>1, <2>2 DEF KeepsSessions
<1> QED BY <1>2, <1>3, <1>4, <1>5, <1>6

LEMMA AskStep ==
  ASSUME DaemonTypeOK, EgressTypeOK, EgressInv, NEW e \in Egressers, Ask(e)
  PROVE  EgressEffect(e)
<1>1. PICK q \in Policies, kind \in {"apply", "remove", "status"} :
      \E targets \in IF kind = "apply" THEN {{c \in Covers[q] : box[c].up}}
                                       ELSE {{c} : c \in {d \in Covers[q] : box[d].up}} :
         /\ targets # {}
         /\ kind = "apply" => active[q]
         /\ job' = [job EXCEPT ![e] = [NoJob EXCEPT
              !.kind = kind, !.policy = q, !.todo = targets,
              !.inst = [c \in Names |-> IF c \in targets THEN box[c].starts ELSE 0]]]
  BY Zenon DEF Ask
<1>2. PICK targets \in IF kind = "apply" THEN {{c \in Covers[q] : box[c].up}}
                                         ELSE {{c} : c \in {d \in Covers[q] : box[d].up}} :
         /\ targets # {}
         /\ kind = "apply" => active[q]
         /\ job' = [job EXCEPT ![e] = [NoJob EXCEPT
              !.kind = kind, !.policy = q, !.todo = targets,
              !.inst = [c \in Names |-> IF c \in targets THEN box[c].starts ELSE 0]]]
  BY <1>1
<1>3. Covers[q] \subseteq Names BY EgressAssumption
<1>4. targets \in SUBSET Names BY <1>3
<1> DEFINE inst == [c \in Names |-> IF c \in targets THEN box[c].starts ELSE 0]
           j == [NoJob EXCEPT !.kind = kind, !.policy = q, !.todo = targets, !.inst = inst]
<1>5. inst \in [Names -> Nat] BY DEF DaemonTypeOK, Ids, Boxes
<1> HIDE DEF inst
<1>6. j \in JobRecs /\ j.open = {} BY <1>4, <1>5 DEF JobRecs, NoJob, Nowhere
<1>7. job' = [job EXCEPT ![e] = j] BY <1>2 DEF inst
<1>8. epc' = [epc EXCEPT ![e] = "reserve"] /\ Quiet BY QuietCalls DEF Ask, EGo
<1>9. BooksOK' BY DEF Ask, ruleset, records, EgressTypeOK, BooksOK
<1>10. "reserve" \in EgressSteps /\ "reserve" \notin InSession /\ "reserve" \notin AtTables
  BY DEF EgressSteps, InSession, AtTables
<1> HIDE DEF j
<1> QED BY <1>6, <1>7, <1>8, <1>9, <1>10, QuietEgress

LEMMA JoinStep ==
  ASSUME DaemonTypeOK, EgressTypeOK, EgressInv, NEW e \in Egressers, Join(e)
  PROVE  EgressEffect(e)
<1>1. BooksOK' BY DEF Join, ruleset, records, EgressTypeOK, BooksOK
<1>2. Quiet BY QuietCalls DEF Join, CheckFails
<1>3. job[e].todo \in SUBSET Names /\ Targets(e) \in SUBSET Names BY JobTypes DEF Targets
<1>4. PICK c \in Next1(e) :
       \/ LET left == job[e].todo \ {c}
          IN /\ EGo(e, IF left = {} THEN "snapshot" ELSE "reserve")
             /\ job' = [job EXCEPT ![e].todo = IF left = {} THEN Targets(e) ELSE left]
       \/ Close(e, {}) \/ Close(e, {c})
  BY Zenon DEF Join
<1>5. c \in Names BY <1>3 DEF Next1
<1>6. CASE Close(e, {}) \/ Close(e, {c}) BY <1>1, <1>2, <1>5, <1>6, EgressCloses
<1> DEFINE left == job[e].todo \ {c}
           S    == IF left = {} THEN Targets(e) ELSE left
           step == IF left = {} THEN "snapshot" ELSE "reserve"
<1>7. CASE EGo(e, step) /\ job' = [job EXCEPT ![e].todo = S]
  <2>1. S \in SUBSET Names BY <1>3
  <2>2. epc[e] \in AtTables /\ epc[e] \in InSession /\ step \in EgressSteps
    BY DEF Join, AtTables, InSession, EgressSteps
  <2>3. KeepsSessions(e) BY <1>7, <2>1, JobEdits
  <2> HIDE DEF step
  <2> QED BY <1>1, <1>2, <1>7, <2>2, <2>3, EgressGoesOn
<1> QED BY <1>4, <1>6, <1>7

LEMMA SnapshotStep ==
  ASSUME DaemonTypeOK, EgressTypeOK, EgressInv, NEW e \in Egressers, Snapshot(e)
  PROVE  EgressEffect(e)
<1>1. BooksOK' BY DEF Snapshot, ruleset, records, EgressTypeOK, BooksOK
<1>2. Quiet BY QuietCalls DEF Snapshot, CheckFails
<1>3. job[e].todo \in SUBSET Names /\ Targets(e) \in SUBSET Names BY JobTypes DEF Targets
<1>4. PICK c \in Next1(e) :
       LET left  == job[e].todo \ {c}
           taken == [job EXCEPT ![e].todo = IF left = {} THEN Targets(e) ELSE left,
                                ![e].found[c] = IF table[c] = box[c].starts THEN table[c] ELSE 0]
       IN \/ EGo(e, IF left = {} THEN "mutate" ELSE "snapshot") /\ job' = taken
          \/ EGo(e, "policies") /\ UNCHANGED job
          \/ Close(e, {}) \/ Close(e, {c})
  BY Zenon DEF Snapshot
<1>5. c \in Names BY <1>3 DEF Next1
<1>6. epc[e] \in AtTables /\ epc[e] \in InSession /\ {"mutate", "snapshot", "policies"} \subseteq EgressSteps
  BY DEF Snapshot, AtTables, InSession, EgressSteps
<1>7. CASE Close(e, {}) \/ Close(e, {c}) BY <1>1, <1>2, <1>5, <1>7, EgressCloses
<1> DEFINE left  == job[e].todo \ {c}
           S     == IF left = {} THEN Targets(e) ELSE left
           n     == IF table[c] = box[c].starts THEN table[c] ELSE 0
           f     == [job[e].found EXCEPT ![c] = n]
           step  == IF left = {} THEN "mutate" ELSE "snapshot"
<1>8. CASE EGo(e, step) /\ job' = [job EXCEPT ![e].todo = S, ![e].found[c] = n]
  <2>1. S \in SUBSET Names BY <1>3
  <2>2. f \in [Names -> Nat] BY <1>5, JobTypes DEF EgressTypeOK
  <2>3. job' = [job EXCEPT ![e].todo = S, ![e].found = f]
    <3> HIDE DEF S, n
    <3> QED BY <1>8, JobTypes DEF JobRecs
  <2>4. KeepsSessions(e)
    <3> HIDE DEF S, f
    <3> QED BY <2>1, <2>2, <2>3, JobEdits
  <2>5. step \in EgressSteps BY <1>6
  <2> HIDE DEF step
  <2> QED BY <1>1, <1>2, <1>6, <1>8, <2>4, <2>5, EgressGoesOn
<1>9. CASE EGo(e, "policies") /\ UNCHANGED job
  <2>1. KeepsSessions(e) BY <1>9, JobEdits
  <2> QED BY <1>1, <1>2, <1>6, <1>9, <2>1, EgressGoesOn
<1> QED BY <1>4, <1>7, <1>8, <1>9

LEMMA NoPruneStep ==
  ASSUME DaemonTypeOK, EgressTypeOK, EgressInv, NEW e \in Egressers, NoPrune(e)
  PROVE  EgressEffect(e)
<1>1. BooksOK' BY DEF NoPrune, ruleset, records, EgressTypeOK, BooksOK
<1>2. Quiet BY QuietCalls DEF NoPrune
<1>3. CASE held[PruneSlot] = NoOne /\ EGo(e, "join") /\ UNCHANGED job
  <2>1. KeepsSessions(e) BY <1>3, JobEdits
  <2>2. epc[e] \in InSession /\ "join" \in EgressSteps BY DEF NoPrune, InSession, EgressSteps
  <2> QED BY <1>1, <1>2, <1>3, <2>1, <2>2, EgressGoesOn
<1>4. CASE Close(e, {}) BY <1>1, <1>2, <1>4, EgressCloses
<1> QED BY <1>3, <1>4 DEF NoPrune

LEMMA RemainingPoliciesStep ==
  ASSUME DaemonTypeOK, EgressTypeOK, EgressInv, NEW e \in Egressers, RemainingPolicies(e)
  PROVE  EgressEffect(e)
<1>1. Quiet BY QuietCalls DEF RemainingPolicies
<1>2. PICK c \in Targets(e) :
       \/ Close(e, {}) /\ UNCHANGED reported
       \/ /\ EGo(e, "mutate") /\ UNCHANGED job
          /\ reported' = [reported EXCEPT ![job[e].policy][c] = 0]
  BY Zenon DEF RemainingPolicies
<1>3. BooksOK'
  <2>1. [reported EXCEPT ![job[e].policy][c] = 0] \in [Policies -> [Names -> Nat]]
    BY DEF EgressTypeOK
  <2>2. reported' \in [Policies -> [Names -> Nat]] BY <1>2, <2>1 DEF EgressTypeOK
  <2>3. UNCHANGED <<ruleset, active, told, refused>> BY DEF RemainingPolicies
  <2> QED BY <2>2, <2>3 DEF EgressTypeOK, BooksOK, ruleset
<1>4. CASE Close(e, {}) BY <1>1, <1>3, <1>4, EgressCloses
<1>5. CASE EGo(e, "mutate") /\ UNCHANGED job
  <2>1. KeepsSessions(e) BY <1>5, JobEdits
  <2>2. epc[e] \in InSession /\ epc[e] \in AtTables /\ "mutate" \in EgressSteps
    BY DEF RemainingPolicies, InSession, AtTables, EgressSteps
  <2> QED BY <1>1, <1>3, <1>5, <2>1, <2>2, EgressGoesOn
<1> QED BY <1>2, <1>4, <1>5

LEMMA MutateStep ==
  ASSUME DaemonTypeOK, EgressTypeOK, EgressInv, NEW e \in Egressers, Mutate(e)
  PROVE  EgressEffect(e)
<1>1. PICK c \in Next1(e) :
       LET command == <<job[e].kind, job[e].inst[c], 0>>
       IN \/ Fallback(e, {}, {}) /\ UNCHANGED <<ruleset, told, daemon>>
          \/ /\ Ran(c, command) /\ EGo(e, "recheck") /\ job' = [job EXCEPT ![e].tried = @ \cup {c}]
             /\ told' = IF job[e].kind = "apply" THEN told ELSE [told EXCEPT ![c] = 0]
          \/ Exited /\ Fallback(e, {c}, {}) /\ UNCHANGED told
          \/ Unknown(c, command) /\ Fallback(e, {c}, {c}) /\ UNCHANGED told
  BY Zenon DEF Mutate
<1>2. job[e].todo \in SUBSET Names /\ job[e].tried \in SUBSET Names /\ c \in Names
  BY JobTypes DEF Next1
<1> DEFINE command == <<job[e].kind, job[e].inst[c], 0>>
<1>3. command \in Commands
  <2>1. job[e].kind \in {"none", "apply", "remove", "status", "restore"} /\ job[e].inst[c] \in Nat
    BY <1>2, JobTypes
  <2> QED BY <2>1 DEF Commands
<1>4. told' = told \/ told' = [told EXCEPT ![c] = 0] BY <1>1
<1>5. Quiet /\ table' \in [Names -> Nat] /\ abandoned' \in [Names -> Commands]
  <2>1. CASE UNCHANGED <<ruleset, told, daemon>> BY <2>1, QuietCalls DEF ruleset, EgressTypeOK
  <2>2. CASE Ran(c, command) \/ Exited \/ Unknown(c, command)
    <3> HIDE DEF command
    <3> QED BY <1>2, <1>3, <2>2, CommandKeeps
  <2> QED BY <1>1, <2>1, <2>2
<1> HIDE DEF command
<1>6. BooksOK'
  <2>1. UNCHANGED <<active, reported, refused>> BY DEF Mutate
  <2>2. told' \in [Names -> Nat] BY <1>4 DEF EgressTypeOK
  <2> QED BY <1>5, <2>1, <2>2 DEF EgressTypeOK, BooksOK
<1>7. epc[e] \in AtTables /\ epc[e] \in InSession /\ "recheck" \in EgressSteps
  BY DEF Mutate, AtTables, InSession, EgressSteps
<1>8. CASE Fallback(e, {}, {}) \/ Fallback(e, {c}, {}) \/ Fallback(e, {c}, {c})
  BY <1>2, <1>5, <1>6, <1>7, <1>8, EgressFallsBack
<1>9. CASE EGo(e, "recheck") /\ job' = [job EXCEPT ![e].tried = @ \cup {c}]
  <2>1. job[e].tried \cup {c} \in SUBSET Names BY <1>2
  <2>2. KeepsSessions(e) BY <1>9, <2>1, JobEdits
  <2> QED BY <1>5, <1>6, <1>7, <1>9, <2>2, EgressGoesOn
<1> QED BY <1>1, <1>8, <1>9

LEMMA RecheckStep ==
  ASSUME DaemonTypeOK, EgressTypeOK, EgressInv, NEW e \in Egressers, Recheck(e)
  PROVE  EgressEffect(e)
<1>1. Quiet BY QuietCalls DEF Recheck, CheckFails
<1>2. PICK c \in Next1(e) :
     LET left    == job[e].todo \ {c}
         applied == [d \in Names |-> left = {} /\ job[e].kind = "apply" /\ d \in Targets(e)]
     IN \/ /\ IF left = {} THEN Close(e, {})
              ELSE EGo(e, "mutate") /\ job' = [job EXCEPT ![e].todo = left]
           /\ told' = [d \in Names |-> IF applied[d] THEN job[e].inst[d] ELSE told[d]]
           /\ reported' = [reported EXCEPT ![job[e].policy] =
                [d \in Names |-> IF applied[d] THEN job[e].inst[d] ELSE @[d]]]
        \/ Fallback(e, {}, {}) /\ UNCHANGED <<told, reported>>
  BY Zenon DEF Recheck
<1>3. job[e].todo \in SUBSET Names /\ job[e].inst \in [Names -> Nat] BY JobTypes
<1> DEFINE left == job[e].todo \ {c}
           applied == [d \in Names |-> left = {} /\ job[e].kind = "apply" /\ d \in Targets(e)]
<1>4. BooksOK'
  <2>1. [d \in Names |-> IF applied[d] THEN job[e].inst[d] ELSE told[d]] \in [Names -> Nat]
    BY <1>3 DEF EgressTypeOK
  <2>2. \A f \in [Names -> Nat] : [d \in Names |-> IF applied[d] THEN job[e].inst[d] ELSE f[d]] \in [Names -> Nat]
    BY <1>3
  <2>3. [reported EXCEPT ![job[e].policy] =
           [d \in Names |-> IF applied[d] THEN job[e].inst[d] ELSE @[d]]] \in [Policies -> [Names -> Nat]]
    <3> HIDE DEF applied
    <3> QED BY <2>2 DEF EgressTypeOK
  <2>4. told' \in [Names -> Nat] /\ reported' \in [Policies -> [Names -> Nat]]
    <3>1. told \in [Names -> Nat] /\ reported \in [Policies -> [Names -> Nat]] BY DEF EgressTypeOK
    <3> QED BY <1>2, <2>1, <2>3, <3>1
  <2>5. UNCHANGED <<ruleset, active, refused>> BY DEF Recheck
  <2> QED BY <2>4, <2>5 DEF EgressTypeOK, BooksOK, ruleset
<1>5. epc[e] \in AtTables /\ epc[e] \in InSession /\ "mutate" \in EgressSteps
  BY DEF Recheck, AtTables, InSession, EgressSteps
<1>6. CASE Close(e, {}) BY <1>1, <1>4, <1>6, EgressCloses
<1>7. CASE EGo(e, "mutate") /\ job' = [job EXCEPT ![e].todo = left]
  <2>1. left \in SUBSET Names BY <1>3
  <2> HIDE DEF left
  <2>2. KeepsSessions(e) BY <1>7, <2>1, JobEdits
  <2> QED BY <1>1, <1>4, <1>5, <1>7, <2>2, EgressGoesOn
<1>8. CASE Fallback(e, {}, {}) BY <1>1, <1>4, <1>5, <1>8, EgressFallsBack
<1> QED BY <1>2, <1>6, <1>7, <1>8

LEMMA RollbackStep ==
  ASSUME DaemonTypeOK, EgressTypeOK, EgressInv, NEW e \in Egressers, Rollback(e)
  PROVE  EgressEffect(e)
<1>1. PICK c \in job[e].tried :
     LET command == <<"restore", job[e].inst[c], job[e].found[c]>>
         visited == [job EXCEPT ![e].tried = @ \ {c}]
         failed  == [visited EXCEPT ![e].unsure = @ \cup {c}]
     IN /\ job' \in {visited, failed}
        /\ UNCHANGED <<ruleset, daemon>> \/ Ran(c, command) \/ Exited \/ Unknown(c, command)
  BY Zenon DEF Rollback
<1>2. /\ job[e].tried \in SUBSET Names /\ job[e].unsure \in SUBSET Names /\ c \in Names
      /\ job[e].inst[c] \in Nat /\ job[e].found[c] \in Nat
  BY JobTypes
<1> DEFINE command == <<"restore", job[e].inst[c], job[e].found[c]>>
<1>3. command \in Commands BY <1>2 DEF Commands
<1> HIDE DEF command
<1>4. Quiet /\ table' \in [Names -> Nat] /\ abandoned' \in [Names -> Commands]
  <2>1. CASE UNCHANGED <<ruleset, daemon>> BY <2>1, QuietCalls DEF ruleset, EgressTypeOK
  <2>2. CASE Ran(c, command) \/ Exited \/ Unknown(c, command)
    BY <1>2, <1>3, <2>2, CommandKeeps
  <2> QED BY <1>1, <2>1, <2>2 DEF command
<1>5. BooksOK' BY <1>4 DEF Rollback, records, EgressTypeOK, BooksOK
<1>6. KeepsSessions(e)
  <2>1. CASE job' = [job EXCEPT ![e].tried = @ \ {c}]
    <3>1. job[e].tried \ {c} \in SUBSET Names BY <1>2
    <3> QED BY <2>1, <3>1, JobEdits
  <2>2. CASE job' = [[job EXCEPT ![e].tried = @ \ {c}] EXCEPT ![e].unsure = @ \cup {c}]
    <3>1. job[e].tried \ {c} \in SUBSET Names /\ job[e].unsure \cup {c} \in SUBSET Names BY <1>2
    <3>2. job' = [job EXCEPT ![e].tried = job[e].tried \ {c}, ![e].unsure = job[e].unsure \cup {c}]
      BY <2>2, JobTypes DEF JobRecs
    <3> QED BY <3>1, <3>2, JobEdits
  <2> QED BY <1>1, <2>1, <2>2
<1>7. epc[e] \in InSession /\ epc[e] \in EgressSteps /\ epc[e] \in AtTables /\ EGo(e, epc[e])
  BY DEF Rollback, InSession, AtTables, EGo, EgressTypeOK
<1> QED BY <1>4, <1>5, <1>6, <1>7, EgressGoesOn

(* The end of an operation's process: its reservations stay.               *)
LEMMA EgressEnds ==
  ASSUME DaemonTypeOK, EgressTypeOK, EgressInv, Quiet, NEW e \in Egressers, Finish(e)
  PROVE  EgressEffect(e)
<1>1. epc' = [epc EXCEPT ![e] = "done"] /\ job' = [job EXCEPT ![e] = NoJob]
  BY DEF Finish, EGo
<1>2. NoJob \in JobRecs /\ NoJob.open = {} BY DEF NoJob, JobRecs, Nowhere
<1>3. BooksOK' BY DEF Finish, ruleset, records, EgressTypeOK, BooksOK
<1>4. "done" \in EgressSteps /\ "done" \notin InSession /\ "done" \notin AtTables
  BY DEF EgressSteps, InSession, AtTables
<1> QED BY <1>1, <1>2, <1>3, <1>4, QuietEgress

(* Every step of an egress operation frees nothing but its own             *)
(* reservations, and comes to the tables only when it saw no prune.        *)
LEMMA EgressStepsKeep ==
  ASSUME DaemonTypeOK, EgressTypeOK, EgressInv, NEW e \in Egressers, EgressStep(e)
  PROVE  EgressEffect(e)
<1>1. CASE RollbackEnds(e)
  <2>1. Quiet BY <1>1, QuietCalls DEF RollbackEnds
  <2>2. BooksOK' BY <1>1 DEF RollbackEnds, ruleset, records, EgressTypeOK, BooksOK
  <2> QED BY <1>1, <2>1, <2>2, EgressCloses DEF RollbackEnds
<1>2. CASE Closed(e) BY <1>2, QuietCalls, EgressEnds DEF Closed
<1>3. CASE EgressCrash(e) BY <1>3, QuietCalls, EgressEnds DEF EgressCrash
<1> QED
  BY AskStep, ReserveTargetStep, NoPruneStep, JoinStep, SnapshotStep, RemainingPoliciesStep,
     MutateStep, RecheckStep, RollbackStep, <1>1, CloseSessionStep, <1>2, <1>3
  DEF EgressStep

(* Abandoned commands and policies leave the operations alone.             *)
LEMMA Bystanders ==
  ASSUME DaemonTypeOK, EgressTypeOK, EgressInv,
         (\E c \in Names : AbandonedRuns(c)) \/ (\E q \in Policies : PolicyStep(q))
  PROVE  EgressTypeOK' /\ UNCHANGED <<daemon, epc, job>>
<1>1. ASSUME NEW c \in Names, AbandonedRuns(c) PROVE EgressTypeOK' /\ UNCHANGED <<daemon, epc, job>>
  <2>1. abandoned[c] \in Commands BY DEF EgressTypeOK
  <2>2. Ruled(c, abandoned[c]) \in [Names -> Nat] /\ Idle[c] \in Commands BY <2>1, Rulings
  <2> QED BY <1>1, <2>2 DEF AbandonedRuns, EgressTypeOK, records
<1>2. ASSUME NEW q \in Policies, PolicyStep(q) PROVE EgressTypeOK' /\ UNCHANGED <<daemon, epc, job>>
  <2>1. Nowhere \in [Names -> Nat] BY DEF Nowhere
  <2>2. \/ active' = [active EXCEPT ![q] = TRUE] \/ active' = [active EXCEPT ![q] = FALSE]
    BY <1>2 DEF PolicyStep, CreatePolicy, RemovePolicy
  <2>3. reported' = [reported EXCEPT ![q] = Nowhere]
    BY <1>2 DEF PolicyStep, CreatePolicy, RemovePolicy
  <2>4. UNCHANGED <<epc, job, ruleset, told, refused, daemon>>
    BY <1>2 DEF PolicyStep, CreatePolicy, RemovePolicy
  <2>5. active' \in [Policies -> BOOLEAN] BY <2>2 DEF EgressTypeOK
  <2>6. reported' \in [Policies -> [Names -> Nat]] BY <2>1, <2>3 DEF EgressTypeOK
  <2> QED BY <2>4, <2>5, <2>6 DEF EgressTypeOK, ruleset
<1> QED BY <1>1, <1>2

(***************************************************************************)
(* All together.                                                           *)
(***************************************************************************)
Handling == ReplacementInv /\ PruneInv /\ EgressInv
IInv == TypeOK /\ Handling /\ ReservationsExcludePrune

LEMMA ActorFacts ==
  /\ \A r \in Replacers : r \in Actors /\ r # NoOne /\ r \notin Egressers /\ r \notin Pruners
  /\ \A e \in Egressers : e \in Actors /\ e # NoOne /\ e \notin Replacers /\ e \notin Pruners
  /\ \A p \in Pruners : p \in Actors /\ p # NoOne /\ p \notin Replacers /\ p \notin Egressers
BY DaemonAssumption DEF Actors

(* What an operation holds is held until it acts itself.                   *)
OthersKeep(a) == \A t \in Slots : Kept(t) \/ held[t] = a

LEMMA ReplacementsUntouched ==
  ASSUME NEW a, OthersKeep(a), ReplacementTypeOK, ReplacementInv,
         \A q \in Replacers : q # a => rpc'[q] = rpc[q] /\ op'[q] = op[q]
  PROVE  \A q \in Replacers : q # a => Handles(q)'
<1> TAKE q \in Replacers
<1> HAVE q # a
<1>1. Lock(q) \in Slots /\ q # NoOne /\ Lock(q)' = Lock(q) BY LockFacts DEF Lock
<1>2. op[q].lock => held'[Lock(q)] = q
  BY <1>1 DEF OthersKeep, Kept, ReplacementInv, Handles
<1> QED BY <1>1, <1>2 DEF Handles, ReplacementInv

LEMMA PrunesUntouched ==
  ASSUME NEW a, OthersKeep(a), PruneInv,
         \A q \in Pruners : q # a => /\ ppc'[q] = ppc[q] /\ guard'[q] = guard[q]
                                     /\ <<"sweep", q>> \in late' => <<"sweep", q>> \in late
  PROVE  \A q \in Pruners : q # a => Guards(q)'
<1> TAKE q \in Pruners
<1> HAVE q # a
<1>1. PruneSlot \in Slots /\ q # NoOne BY SlotFacts, ActorFacts
<1>2. held[PruneSlot] = q => held'[PruneSlot] = q BY <1>1 DEF OthersKeep, Kept
<1> QED BY <1>2 DEF Guards, PruneInv

LEMMA EgressUntouched ==
  ASSUME NEW a, OthersKeep(a), EgressTypeOK, EgressInv,
         \A f \in Egressers : f # a => epc'[f] = epc[f] /\ job'[f] = job[f]
  PROVE  \A f \in Egressers : f # a => Sessions(f)'
<1> TAKE f \in Egressers
<1> HAVE f # a
<1>1. f # NoOne /\ \A c \in job[f].open : EgressSlot(c) \in Slots
  BY SlotFacts, ActorFacts, JobTypes
<1>2. \A c \in job[f].open : held'[EgressSlot(c)] = f
  BY <1>1 DEF OthersKeep, Kept, EgressInv, Sessions
<1> QED BY <1>2 DEF Sessions, EgressInv, EgressSlot

(* A prune that removes things has the prune reservation.                  *)
LEMMA SweeperHolds ==
  ASSUME PruneInv, NEW p \in Pruners, Sweeping(p) PROVE held[PruneSlot] = p /\ p # NoOne
BY ActorFacts DEF PruneInv, Guards, Sweeping

(* An engaged operation has a reservation that a prune sees.               *)
LEMMA EngagedIsEvident ==
  ASSUME Handling, EgressTypeOK, NEW a \in Replacers \cup Egressers, Engaged(a) PROVE Evidence
<1>1. CASE a \in Replacers
  <2>1. rpc[a] \in Working
    BY <1>1, ActorFacts DEF Engaged, Working, AtWork, Backward
  <2>2. held[Lock(a)] = a
    BY <1>1, <2>1, WorkFacts DEF Handling, ReplacementInv, Handles
  <2> QED BY <1>1, <2>2, LockFacts DEF Evidence
<1>2. CASE a \in Egressers
  <2>1. epc[a] \in InSession BY <1>2, ActorFacts DEF Engaged, InSession, AtTables
  <2>2. PICK c \in job[a].open : held[EgressSlot(c)] = a
    BY <1>2, <2>1 DEF Handling, EgressInv, Sessions
  <2>3. c \in Names BY <1>2, JobTypes
  <2> QED BY <1>2, <2>2, <2>3, SlotFacts, ActorFacts DEF Evidence
<1> QED BY <1>1, <1>2

LEMMA EngagedIs ==
  /\ \A r \in Replacers : Engaged(r) <=> rpc[r] \in Working
  /\ \A e \in Egressers : Engaged(e) <=> epc[e] \in AtTables
BY ActorFacts DEF Engaged, Working, AtWork, Forward, Backward, AtTables

LEMMA EngagedIsNext ==
  /\ \A r \in Replacers : Engaged(r)' <=> rpc'[r] \in Working
  /\ \A e \in Egressers : Engaged(e)' <=> epc'[e] \in AtTables
BY ActorFacts DEF Engaged, Working, AtWork, Forward, Backward, AtTables

LEMMA InitHolds == Init => IInv
<1> SUFFICES ASSUME Init PROVE IInv OBVIOUS
<1> USE DEF Init
<1>1. DaemonTypeOK
  <2>1. {Gone, Fresh, Started(Fresh)} \subseteq Boxes BY BoxTypes
  <2>2. box \in [Ids -> Boxes] BY <2>1 DEF DaemonInit
  <2>3. held \in [Slots -> Actors \cup {NoOne}] /\ late \subseteq Abandoned
    BY DEF DaemonInit
  <2> QED BY <2>2, <2>3, DaemonAssumption DEF DaemonInit, DaemonTypeOK
<1>2. ReplacementTypeOK
  <2>1. Nothing \in Jobs BY BoxTypes DEF Nothing, Jobs
  <2>2. "idle" \in Steps /\ "none" \in Phases BY DEF Steps, Phases
  <2> QED BY <2>1, <2>2 DEF ReplacementInit, ReplacementTypeOK, Jobs
<1>3. PruneTypeOK BY DEF PruneInit, PruneTypeOK
<1>4. EgressTypeOK
  <2>1. NoJob \in JobRecs /\ Nowhere \in [Names -> Nat] BY DEF NoJob, JobRecs, Nowhere
  <2>2. Idle \in [Names -> Commands] BY DEF Idle, Commands
  <2>3. "idle" \in EgressSteps BY DEF EgressSteps
  <2> QED BY <2>1, <2>2, <2>3, EgressTypes DEF EgressInit, BooksOK
<1>5. ReplacementInv
  <2>1. "idle" \notin Locked /\ "idle" \notin AtWork BY WorkFacts
  <2> QED BY <2>1 DEF ReplacementInit, ReplacementInv, Handles, Nothing
<1>6. PruneInv BY DEF PruneInit, DaemonInit, PruneInv, Guards
<1>7. EgressInv BY DEF EgressInit, EgressInv, Sessions, NoJob, InSession, AtTables
<1>8. ReservationsExcludePrune
  BY DEF PruneInit, DaemonInit, Sweeping, ReservationsExcludePrune
<1> QED BY <1>1, <1>2, <1>3, <1>4, <1>5, <1>6, <1>7, <1>8 DEF IInv, TypeOK, Handling

LEMMA StepHolds == IInv /\ [Next]_vars => IInv'
<1> SUFFICES ASSUME IInv, [Next]_vars PROVE IInv' OBVIOUS
<1> USE DEF IInv, TypeOK, Handling
<1>1. CASE ReplacementNext /\ UNCHANGED <<pruning, egress>>
  <2>1. PICK r \in Replacers : ReplacementStep(r) BY <1>1 DEF ReplacementNext
  <2>2. ReplacementEffect(r) BY <2>1, ReplacementSteps
  <2>3. OthersKeep(r)
    BY <2>2, LockFacts DEF ReplacementEffect, Discreet, OthersKeep, Kept, ReplacementInv, Handles
  <2>4. PruneTypeOK' /\ EgressTypeOK'
    BY <1>1 DEF pruning, egress, PruneTypeOK, EgressTypeOK
  <2>5. ReplacementInv'
    BY <2>2, <2>3, ReplacementsUntouched DEF ReplacementEffect, Discreet, ReplacementInv
  <2>6. ppc' = ppc /\ guard' = guard /\ epc' = epc /\ job' = job BY <1>1 DEF pruning, egress
  <2>7. PruneInv'
    BY <2>2, <2>3, <2>6, PrunesUntouched, ActorFacts
    DEF ReplacementEffect, Discreet, NoNewSweep, PruneInv
  <2>8. EgressInv' BY <2>3, <2>6, EgressUntouched, ActorFacts DEF EgressInv
  <2>9. ReservationsExcludePrune'
    <3> SUFFICES ASSUME NEW p \in Pruners, Sweeping(p)', NEW a \in Replacers \cup Egressers
                 PROVE  ~Engaged(a)'
      BY DEF ReservationsExcludePrune
    <3>1. Sweeping(p)
      BY <2>2, <2>6 DEF Sweeping, ReplacementEffect, Discreet, NoNewSweep
    <3>2. ~Engaged(a) /\ held[PruneSlot] # NoOne
      BY <3>1, SweeperHolds DEF ReservationsExcludePrune
    <3>3. CASE a = r
      BY <2>2, <3>2, <3>3, EngagedIs, EngagedIsNext DEF ReplacementEffect, Discreet
    <3>4. CASE a \in Replacers \ {r}
      BY <2>2, <3>2, <3>4, EngagedIs, EngagedIsNext DEF ReplacementEffect, Discreet
    <3>5. CASE a \in Egressers BY <2>6, <3>2, <3>5, EngagedIs, EngagedIsNext
    <3> QED BY <3>3, <3>4, <3>5
  <2> QED BY <2>2, <2>4, <2>5, <2>7, <2>8, <2>9 DEF ReplacementEffect
<1>2. CASE PruneNext /\ UNCHANGED <<replacement, egress>>
  <2>1. PICK p \in Pruners : PruneStep(p) BY <1>2 DEF PruneNext
  <2>2. PruneEffect(p) BY <2>1, PruneSteps
  <2>3. OthersKeep(p) BY <2>2 DEF PruneEffect, OthersKeep
  <2>4. ReplacementTypeOK' /\ EgressTypeOK'
    BY <1>2 DEF replacement, egress, ReplacementTypeOK, EgressTypeOK
  <2>5. rpc' = rpc /\ op' = op /\ epc' = epc /\ job' = job BY <1>2 DEF replacement, egress
  <2>6. ReplacementInv' BY <2>3, <2>5, ReplacementsUntouched, ActorFacts DEF ReplacementInv
  <2>7. PruneInv' BY <2>2, <2>3, PrunesUntouched DEF PruneEffect, PruneInv
  <2>8. EgressInv' BY <2>3, <2>5, EgressUntouched, ActorFacts DEF EgressInv
  <2>9. ReservationsExcludePrune'
    <3> SUFFICES ASSUME NEW q \in Pruners, Sweeping(q)', NEW a \in Replacers \cup Egressers
                 PROVE  ~Engaged(a)'
      BY DEF ReservationsExcludePrune
    <3>1. Sweeping(q) \/ ~Evidence BY <2>2 DEF PruneEffect, Sweeping
    <3>2. ~Engaged(a) BY <3>1, EngagedIsEvident DEF ReservationsExcludePrune
    <3> QED BY <2>5, <3>2, EngagedIs, EngagedIsNext
  <2> QED BY <2>2, <2>4, <2>6, <2>7, <2>8, <2>9 DEF PruneEffect
<1>3. CASE (\E e \in Egressers : EgressStep(e)) /\ UNCHANGED <<replacement, pruning>>
  <2>1. PICK e \in Egressers : EgressStep(e) BY <1>3
  <2>2. EgressEffect(e) BY <2>1, EgressStepsKeep
  <2>3. OthersKeep(e) BY <2>2 DEF EgressEffect, OthersKeep
  <2>4. ReplacementTypeOK' /\ PruneTypeOK'
    BY <1>3 DEF replacement, pruning, ReplacementTypeOK, PruneTypeOK
  <2>5. rpc' = rpc /\ op' = op /\ ppc' = ppc /\ guard' = guard BY <1>3 DEF replacement, pruning
  <2>6. ReplacementInv' BY <2>3, <2>5, ReplacementsUntouched, ActorFacts DEF ReplacementInv
  <2>7. PruneInv'
    BY <2>2, <2>3, <2>5, PrunesUntouched, ActorFacts DEF EgressEffect, NoNewSweep, PruneInv
  <2>8. EgressInv' BY <2>2, <2>3, EgressUntouched DEF EgressEffect, Alone, EgressInv
  <2>9. ReservationsExcludePrune'
    <3> SUFFICES ASSUME NEW p \in Pruners, Sweeping(p)', NEW a \in Replacers \cup Egressers
                 PROVE  ~Engaged(a)'
      BY DEF ReservationsExcludePrune
    <3>1. Sweeping(p) BY <2>2, <2>5 DEF Sweeping, EgressEffect, NoNewSweep
    <3>2. ~Engaged(a) /\ held[PruneSlot] # NoOne
      BY <3>1, SweeperHolds DEF ReservationsExcludePrune
    <3>3. CASE a = e BY <2>2, <3>2, <3>3, EngagedIs, EngagedIsNext DEF EgressEffect
    <3>4. CASE a \in Egressers \ {e}
      BY <2>2, <3>2, <3>4, EngagedIs, EngagedIsNext DEF EgressEffect, Alone
    <3>5. CASE a \in Replacers BY <2>5, <3>2, <3>5, EngagedIs, EngagedIsNext
    <3> QED BY <3>3, <3>4, <3>5
  <2> QED BY <2>2, <2>4, <2>6, <2>7, <2>8, <2>9 DEF EgressEffect
<1>4. ASSUME DaemonTypeOK', EgressTypeOK', late' \subseteq late, \A t \in Slots : Kept(t),
             UNCHANGED <<replacement, pruning, epc, job>>
      PROVE  IInv'
  <2>1. OthersKeep(NoOne) BY <1>4 DEF OthersKeep
  <2>2. ReplacementTypeOK' /\ PruneTypeOK'
    BY <1>4 DEF replacement, pruning, ReplacementTypeOK, PruneTypeOK
  <2>3. rpc' = rpc /\ op' = op /\ ppc' = ppc /\ guard' = guard /\ epc' = epc /\ job' = job
    BY <1>4 DEF replacement, pruning
  <2>4. ReplacementInv' BY <2>1, <2>3, ReplacementsUntouched, ActorFacts DEF ReplacementInv
  <2>5. PruneInv' BY <1>4, <2>1, <2>3, PrunesUntouched, ActorFacts DEF PruneInv
  <2>6. EgressInv' BY <2>1, <2>3, EgressUntouched, ActorFacts DEF EgressInv
  <2>7. ReservationsExcludePrune'
    <3>1. \A p \in Pruners : Sweeping(p)' => Sweeping(p) BY <1>4, <2>3 DEF Sweeping
    <3>2. \A a \in Replacers \cup Egressers : Engaged(a)' => Engaged(a)
      BY <2>3, EngagedIs, EngagedIsNext
    <3> QED BY <3>1, <3>2 DEF ReservationsExcludePrune
  <2> QED BY <1>4, <2>2, <2>4, <2>5, <2>6, <2>7
<1>5. CASE /\ (\E c \in Names : AbandonedRuns(c)) \/ (\E q \in Policies : PolicyStep(q))
           /\ UNCHANGED <<replacement, pruning>>
  <2>1. EgressTypeOK' /\ UNCHANGED <<daemon, epc, job>> BY <1>5, Bystanders
  <2>2. DaemonTypeOK' /\ held' = held /\ late' = late BY <2>1 DEF daemon, DaemonTypeOK
  <2> QED BY <1>4, <1>5, <2>1, <2>2 DEF Kept
<1>6. CASE DaemonNext /\ UNCHANGED <<replacement, pruning, egress>>
  <2>1. DaemonTypeOK' /\ late' \subseteq late /\ \A t \in Slots : Kept(t) BY <1>6, DaemonKeeps
  <2>2. EgressTypeOK' BY <1>6 DEF egress, EgressTypeOK
  <2>3. UNCHANGED <<replacement, pruning, epc, job>> BY <1>6 DEF egress
  <2> QED BY <1>4, <2>1, <2>2, <2>3
<1>7. CASE UNCHANGED vars
  <2>1. DaemonTypeOK' /\ EgressTypeOK' /\ held' = held /\ late' = late
    BY <1>7 DEF vars, daemon, egress, DaemonTypeOK, EgressTypeOK
  <2>2. UNCHANGED <<replacement, pruning, epc, job>> BY <1>7 DEF vars, egress
  <2> QED BY <1>4, <2>1, <2>2 DEF Kept
<1> QED BY <1>1, <1>2, <1>3, <1>5, <1>6, <1>7 DEF Next, EgressNext

(* Every variable has its type: the engine of replacements, of prunes and  *)
(* of egress operations only ever stores what its readers expect.          *)
THEOREM TypesHold == Spec => []TypeOK
<1>1. IInv => TypeOK BY DEF IInv
<1> QED BY <1>1, InitHolds, StepHolds, PTL DEF Spec

(* While a prune removes things no replacement and no egress operation is  *)
(* at work past its look at the prune reservation, on any number of        *)
(* containers and whatever is lost, late or crashed.                       *)
THEOREM PruneIsExcluded == Spec => []ReservationsExcludePrune
<1>1. IInv => ReservationsExcludePrune BY DEF IInv
<1> QED BY <1>1, InitHolds, StepHolds, PTL DEF Spec
=============================================================================
