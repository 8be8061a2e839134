---------------------------- MODULE EgressProofs ----------------------------
(***************************************************************************)
(* Egress operations beside each other: who is refused by whom, and what   *)
(* the tables of the containers hold against what callers were told, for   *)
(* any number of containers, operations, policies and faults, and any      *)
(* kinds of late calls.                                                    *)
(***************************************************************************)
EXTENDS DaemonReservationsProofs

(***************************************************************************)
(* The order of the reservations.                                          *)
(***************************************************************************)
(* e has the reservation of c, or a call that was given up may bring it.   *)
Claims(e, c) == held[EgressSlot(c)] = e \/ <<"reserve", EgressSlot(c), e>> \in late

(* e will not ask for c or for a target before it any more.                *)
Past(e, c) ==
  /\ epc[e] # "idle"
  /\ epc[e] = "reserve" => \A d \in job[e].todo : Rank[c] < Rank[d]
  /\ epc[e] \in {"barrier", "join"} => \A d \in job[e].todo : Rank[c] <= Rank[d]

Climbs(e) == \A c \in Names : Claims(e, c) => Past(e, c)

(* Whoever was refused ends below the target it was refused, which the     *)
(* other one has behind it.                                                *)
Yields(e) ==
  refused[e] \in Egressers =>
    /\ epc[e] \in {"close", "done"}
    /\ refused[refused[e]] # e
    /\ \E c \in Names : /\ Past(refused[e], c)
                        /\ \A d \in Names : Claims(e, d) => Rank[d] < Rank[c]

Orderly == \A e \in Egressers : Climbs(e) /\ Yields(e)

(***************************************************************************)
(* Tables, and what callers were told of them.                             *)
(***************************************************************************)
Even(c)     == Filtered(c, table[c]) <=> Filtered(c, told[c])
Promised(c) == \E q \in Policies : active[q] /\ Filtered(c, reported[q][c])

(* Nothing is about an instance that is yet to come.                       *)
Dated(c) ==
  /\ box[c].up => box[c].starts > 0
  /\ table[c] <= box[c].starts /\ told[c] <= box[c].starts
  /\ \A q \in Policies : reported[q][c] <= box[c].starts
  /\ abandoned[c][2] <= box[c].starts /\ abandoned[c][3] \in {0, abandoned[c][2]}

(* What was reported is in force, of a container the policy covers, and no *)
(* command that is still running takes it away.                            *)
Honoured(c) ==
  /\ \A q \in Policies : reported[q][c] # 0 => c \in Covers[q]
  /\ Promised(c) => Filtered(c, table[c])
  /\ Promised(c) /\ Filtered(c, abandoned[c][2]) =>
       /\ abandoned[c][1] # "remove"
       /\ abandoned[c][1] = "restore" => Filtered(c, abandoned[c][3])

(* A container nobody has reserved is settled for good.                    *)
Released(c) == held[EgressSlot(c)] = NoOne => Even(c) /\ abandoned[c] = Idle[c]

Acquiring == {"reserve", "barrier", "join"}
Changes   == {"mutate", "recheck"}

(* e has checked that its target c is the instance it took it for; and has *)
(* seen, to put it back, what table that instance had.                     *)
Joined(e, c)  == c \in Targets(e) /\ (epc[e] \in Acquiring => c \notin job[e].todo)
Snapped(e, c) ==
  /\ c \in Targets(e) /\ job[e].kind = "apply"
  /\ epc[e] \in Changes \cup {"rollback"} \/ (epc[e] = "snapshot" /\ c \notin job[e].todo)

(* What the steps of an operation make of its job.                         *)
Shape(e) ==
  /\ job[e].todo \subseteq Targets(e) /\ job[e].tried \subseteq Targets(e)
  /\ \A c \in Names : job[e].inst[c] <= box[c].starts /\ job[e].found[c] \in {0, job[e].inst[c]}
  /\ job[e].kind = "apply" => job[e].policy \in Policies /\ Targets(e) \subseteq Covers[job[e].policy]
  /\ job[e].kind # "apply" => \A c, d \in Targets(e) : c = d
  /\ epc[e] = "policies" => job[e].kind = "remove" /\ Targets(e) \subseteq job[e].todo
  /\ epc[e] \in Changes => job[e].kind \in {"apply", "remove"}
  /\ epc[e] = "rollback" => job[e].kind = "apply"
  /\ epc[e] \in {"idle", "close", "done"} => job[e].inst = Nowhere
  /\ epc[e] \notin {"rollback", "close"} => job[e].unsure = {}
  /\ epc[e] \notin Changes \cup {"rollback"} => job[e].tried = {}
  /\ epc[e] \in Changes => Targets(e) \ job[e].todo \subseteq job[e].tried
  /\ epc[e] = "recheck" => Next1(e) \subseteq job[e].tried
  /\ \A c \in Names : Joined(e, c) => c \in job[e].open
  /\ epc[e] \in {"barrier", "join"} => Next1(e) \subseteq job[e].open

(* How a container that e has reserved stands.                             *)
Owned(e, c) ==
  /\ Even(c) \/ c \in job[e].unsure \cup job[e].tried
  /\ abandoned[c] # Idle[c] => /\ c \in job[e].unsure
                               /\ c \in Targets(e) => abandoned[c][2] = job[e].inst[c]
  /\ Joined(e, c) /\ job[e].inst[c] # box[c].starts =>
       ~Filtered(c, table[c]) /\ ~Filtered(c, told[c])
  /\ Snapped(e, c) /\ job[e].inst[c] = box[c].starts =>
       /\ Filtered(c, told[c]) <=> Filtered(c, job[e].found[c])
       /\ Promised(c) => Filtered(c, job[e].found[c])
  /\ epc[e] \in Changes /\ job[e].kind = "apply" /\ c \in job[e].tried
       /\ job[e].inst[c] = box[c].starts => Filtered(c, table[c])
  /\ epc[e] \in Changes /\ job[e].kind = "remove" /\ c \in Targets(e)
       /\ job[e].inst[c] = box[c].starts => ~Promised(c)
  /\ job[e].kind = "remove" => Even(c) \/ c \in job[e].unsure

Enforcement ==
  /\ \A c \in Names : Dated(c) /\ Honoured(c) /\ Released(c)
  /\ \A e \in Egressers : Shape(e) /\ \A c \in job[e].open : Owned(e, c)

(***************************************************************************)
(* The order of the reservations: what one step of e asks for.             *)
(***************************************************************************)
Reaches(e) ==
  /\ Alone(e) /\ \A f \in Egressers \ {e} : refused'[f] = refused[f]
  /\ \A f \in Egressers, c \in Names :
       Claims(f, c)' => \/ Claims(f, c)
                        \/ /\ f = e /\ epc[e] = "reserve" /\ c \in Next1(e)
                           /\ epc'[e] \in {"barrier", "close"} /\ refused'[e] = refused[e]
  /\ epc[e] # "done" /\ epc'[e] # "idle" /\ (epc[e] = "close" => epc'[e] \in {"close", "done"})
  /\ epc'[e] = "reserve" =>
       \/ epc[e] = "idle"
       \/ epc[e] = "join" /\ \E c \in Next1(e) : job'[e].todo = job[e].todo \ {c}
  /\ epc'[e] = "barrier" => epc[e] = "reserve" /\ job'[e].todo = job[e].todo
  /\ epc'[e] = "join" => epc[e] = "barrier" /\ job'[e].todo = job[e].todo
  /\ \/ refused'[e] = refused[e]
     \/ /\ epc[e] = "reserve" /\ epc'[e] = "close"
        /\ \E c \in Next1(e) : refused'[e] = held[EgressSlot(c)]

(* A step that asks for nothing.                                           *)
LEMMA NoClaim ==
  ASSUME EgressTypeOK, NEW e \in Egressers, Alone(e), late' = late, refused' = refused,
         \A c \in Names : held'[EgressSlot(c)] \in {held[EgressSlot(c)], NoOne},
         NEW step \in EgressSteps \ {"idle", "barrier"}, EGo(e, step),
         epc[e] # "done", epc[e] = "close" => step \in {"close", "done"},
         step = "reserve" => \/ epc[e] = "idle"
                             \/ epc[e] = "join" /\ \E c \in Next1(e) : job'[e].todo = job[e].todo \ {c},
         step = "join" => epc[e] = "barrier" /\ job'[e].todo = job[e].todo
  PROVE  Reaches(e)
<1>1. epc'[e] = step BY DEF EGo, EgressTypeOK
<1>2. \A f \in Egressers, c \in Names : Claims(f, c)' => Claims(f, c)
  BY ActorFacts DEF Claims, EgressSlot
<1> QED BY <1>1, <1>2 DEF Reaches

LEMMA ReserveTargetReaches ==
  ASSUME DaemonTypeOK, EgressTypeOK, NEW e \in Egressers, ReserveTarget(e), Alone(e)
  PROVE  Reaches(e)
<1>1. PICK c \in Next1(e) :
        \/ /\ Reserved(EgressSlot(c), e) /\ EGo(e, "barrier")
           /\ job' = [job EXCEPT ![e].open = @ \cup {c}] /\ UNCHANGED refused
        \/ /\ Conflict(EgressSlot(c)) /\ Close(e, {})
           /\ refused' = [refused EXCEPT ![e] = held[EgressSlot(c)]]
        \/ ReserveLost(EgressSlot(c), e) /\ Close(e, {}) /\ UNCHANGED refused
  BY Zenon DEF ReserveTarget
<1>2. c \in Names /\ epc[e] = "reserve" BY JobTypes DEF Next1, ReserveTarget
<1>3. \A f \in Egressers \ {e} : refused'[f] = refused[f] BY <1>1 DEF EgressTypeOK
<1>4. ASSUME NEW f \in Egressers, NEW d \in Names, Claims(f, d)' PROVE Claims(f, d) \/ (f = e /\ d = c)
  <2>1. EgressSlot(d) \in Slots /\ (EgressSlot(d) = EgressSlot(c) => d = c) /\ EgressSlot(c) \in Slots
    BY <1>2, SlotFacts
  <2>2. CASE held'[EgressSlot(d)] = f
    BY <1>1, <1>2, <2>1, <2>2, ActorFacts
    DEF Claims, Reserved, Conflict, ReserveLost, daemon, DaemonTypeOK
  <2>3. CASE <<"reserve", EgressSlot(d), f>> \in late'
    <3>1. late' = late \/ late' = late \cup {<<"reserve", EgressSlot(c), e>>}
      BY <1>1 DEF Reserved, Conflict, ReserveLost, daemon
    <3> QED BY <2>1, <2>3, <3>1 DEF Claims
  <2> QED BY <1>4, <2>2, <2>3 DEF Claims, EgressSlot
<1>5. CASE Reserved(EgressSlot(c), e) /\ EGo(e, "barrier")
           /\ job' = [job EXCEPT ![e].open = @ \cup {c}] /\ UNCHANGED refused
  <2>1. epc'[e] = "barrier" /\ job'[e].todo = job[e].todo
    BY <1>5, JobTypes DEF EGo, EgressTypeOK, JobRecs
  <2> QED BY <1>2, <1>3, <1>4, <1>5, <2>1 DEF Reaches
<1>6. CASE ReserveLost(EgressSlot(c), e) /\ Close(e, {}) /\ UNCHANGED refused
  <2>1. epc'[e] = "close" BY <1>6 DEF Close, EGo, EgressTypeOK
  <2> QED BY <1>2, <1>3, <1>4, <1>6, <2>1 DEF Reaches
<1>7. CASE Conflict(EgressSlot(c)) /\ Close(e, {}) /\ refused' = [refused EXCEPT ![e] = held[EgressSlot(c)]]
  <2>1. epc'[e] = "close" /\ refused'[e] = held[EgressSlot(c)] BY <1>7 DEF Close, EGo, EgressTypeOK
  <2>2. \A f \in Egressers, d \in Names : Claims(f, d)' => Claims(f, d)
    BY <1>7 DEF Conflict, daemon, Claims, EgressSlot
  <2> QED BY <1>2, <1>3, <2>1, <2>2 DEF Reaches
<1> QED BY <1>1, <1>5, <1>6, <1>7

LEMMA EgressReaches ==
  ASSUME DaemonTypeOK, EgressTypeOK, EgressInv, NEW e \in Egressers, EgressStep(e)
  PROVE  Reaches(e)
<1>1. Alone(e) BY EgressStepsKeep DEF EgressEffect
<1> DEFINE Same1 == held' = held /\ late' = late /\ refused' = refused
<1>2. Same1 => /\ late' = late /\ refused' = refused
               /\ \A c \in Names : held'[EgressSlot(c)] \in {held[EgressSlot(c)], NoOne}
  OBVIOUS
<1>3. {"reserve", "join", "snapshot", "policies", "mutate", "recheck", "rollback", "close", "done"}
        = EgressSteps \ {"idle", "barrier"}
  BY DEF EgressSteps
<1>4. ASSUME Same1, epc[e] \notin {"done", "close"},
             NEW step \in {"snapshot", "policies", "mutate", "recheck", "rollback", "close"}, EGo(e, step)
      PROVE  Reaches(e)
  BY <1>1, <1>2, <1>3, <1>4, NoClaim
<1>5. \A u \in SUBSET Names : Close(e, u) => EGo(e, "close") BY DEF Close
<1>6. CASE Ask(e)
  <2>1. Same1 /\ epc[e] = "idle" /\ EGo(e, "reserve") BY <1>6 DEF Ask, daemon, records
  <2> QED BY <1>1, <1>2, <1>3, <2>1, NoClaim
<1>7. CASE ReserveTarget(e) BY <1>1, <1>7, ReserveTargetReaches
<1>8. CASE NoPrune(e)
  <2>1. Same1 /\ epc[e] = "barrier" BY <1>8 DEF NoPrune, Glitch, daemon, records
  <2>2. CASE EGo(e, "join") /\ UNCHANGED job BY <1>1, <1>2, <1>3, <2>1, <2>2, NoClaim
  <2>3. CASE Close(e, {}) BY <1>4, <1>5, <2>1, <2>3
  <2> QED BY <1>8, <2>2, <2>3 DEF NoPrune
<1>9. CASE Join(e)
  <2>1. Same1 /\ epc[e] = "join" BY <1>9 DEF Join, CheckFails, Glitch, daemon, records
  <2>2. PICK c \in Next1(e) :
       \/ LET left == job[e].todo \ {c}
          IN /\ EGo(e, IF left = {} THEN "snapshot" ELSE "reserve")
             /\ job' = [job EXCEPT ![e].todo = IF left = {} THEN Targets(e) ELSE left]
       \/ Close(e, {}) \/ Close(e, {c})
    BY <1>9, Zenon DEF Join
  <2>3. CASE Close(e, {}) \/ Close(e, {c})
    <3>1. EGo(e, "close") BY <2>3 DEF Close
    <3> QED BY <1>4, <2>1, <3>1
  <2>4. CASE job[e].todo \ {c} = {} /\ EGo(e, "snapshot") BY <1>4, <2>1, <2>4
  <2>5. CASE job[e].todo \ {c} # {} /\ EGo(e, "reserve") /\ job' = [job EXCEPT ![e].todo = job[e].todo \ {c}]
    <3>1. job'[e].todo = job[e].todo \ {c} BY <2>5, JobTypes DEF JobRecs
    <3> QED BY <1>1, <1>2, <1>3, <2>1, <2>2, <2>5, <3>1, NoClaim
  <2> QED BY <2>2, <2>3, <2>4, <2>5
<1>10. CASE Snapshot(e)
  <2>1. Same1 /\ epc[e] = "snapshot" BY <1>10 DEF Snapshot, CheckFails, Glitch, daemon, records
  <2>2. EGo(e, "mutate") \/ EGo(e, "snapshot") \/ EGo(e, "policies") \/ EGo(e, "close")
    BY <1>10 DEF Snapshot, Close
  <2> QED BY <1>4, <2>1, <2>2
<1>11. CASE RemainingPolicies(e)
  <2>1. Same1 /\ epc[e] = "policies" BY <1>11 DEF RemainingPolicies, daemon
  <2>2. EGo(e, "mutate") \/ EGo(e, "close") BY <1>11 DEF RemainingPolicies, Close
  <2> QED BY <1>4, <2>1, <2>2
<1>12. CASE Mutate(e)
  <2>1. Same1 /\ epc[e] = "mutate" BY <1>12 DEF Mutate, Ran, Exited, Unknown, Glitch, daemon
  <2>2. EGo(e, "recheck") \/ EGo(e, "rollback") \/ EGo(e, "close")
    BY <1>12 DEF Mutate, Fallback, Close
  <2> QED BY <1>4, <2>1, <2>2
<1>13. CASE Recheck(e)
  <2>1. Same1 /\ epc[e] = "recheck" BY <1>13 DEF Recheck, CheckFails, Glitch, daemon
  <2>2. EGo(e, "mutate") \/ EGo(e, "rollback") \/ EGo(e, "close")
    BY <1>13 DEF Recheck, Fallback, Close
  <2> QED BY <1>4, <2>1, <2>2
<1>14. CASE Rollback(e)
  <2>1. Same1 /\ epc[e] = "rollback" BY <1>14 DEF Rollback, Ran, Exited, Unknown, Glitch, daemon, records
  <2>2. EGo(e, "rollback") BY <1>14, <2>1 DEF Rollback, EGo, EgressTypeOK
  <2> QED BY <1>4, <2>1, <2>2
<1>15. CASE RollbackEnds(e)
  <2>1. Same1 /\ epc[e] = "rollback" /\ EGo(e, "close") BY <1>15 DEF RollbackEnds, Close, daemon, records
  <2> QED BY <1>4, <2>1
<1>16. CASE CloseSession(e)
  <2>1. late' = late /\ refused' = refused /\ epc[e] = "close" /\ EGo(e, "close")
    BY <1>16 DEF CloseSession, Freed, FreeFailed, Glitch, daemon, records, EGo, EgressTypeOK
  <2>2. \A t \in Slots : held'[t] \in {held[t], NoOne}
    BY <1>16, SlotFacts, JobTypes DEF CloseSession, Freed, FreeFailed, Glitch, daemon, DaemonTypeOK
  <2>3. \A c \in Names : held'[EgressSlot(c)] \in {held[EgressSlot(c)], NoOne} BY <2>2, SlotFacts
  <2> QED BY <1>1, <1>3, <2>1, <2>3, NoClaim
<1>17. CASE Closed(e) \/ EgressCrash(e)
  <2>1. Same1 /\ epc[e] \notin {"idle", "done"} /\ EGo(e, "done")
    BY <1>17 DEF Closed, EgressCrash, Finish, Glitch, daemon, records
  <2> QED BY <1>1, <1>2, <1>3, <2>1, NoClaim
<1> QED
  BY <1>6, <1>7, <1>8, <1>9, <1>10, <1>11, <1>12, <1>13, <1>14, <1>15, <1>16, <1>17 DEF EgressStep

(* Whoever is past a target stays so.                                      *)
LEMMA PastStays ==
  ASSUME EgressTypeOK, NEW e \in Egressers, Reaches(e), NEW c \in Names, Past(e, c)
  PROVE  Past(e, c)'
<1>1. epc[e] # "idle" /\ epc'[e] # "idle" BY DEF Past, Reaches
<1>2. \A d \in job[e].todo : Rank[d] \in Nat /\ Rank[c] \in Nat BY EgressAssumption, JobTypes
<1>3. CASE epc'[e] = "reserve"
  <2>1. PICK x \in Next1(e) : epc[e] = "join" /\ job'[e].todo = job[e].todo \ {x}
    BY <1>1, <1>3 DEF Reaches
  <2>2. x \in job[e].todo /\ \A d \in job[e].todo : Rank[x] <= Rank[d] BY <2>1 DEF Next1
  <2>3. \A d \in job[e].todo \ {x} : Rank[x] # Rank[d]
    BY <2>2, EgressAssumption, JobTypes
  <2>4. Rank[c] <= Rank[x] BY <2>1, <2>2 DEF Past
  <2>5. \A d \in job[e].todo \ {x} : Rank[c] < Rank[d] BY <1>2, <2>2, <2>3, <2>4
  <2> QED BY <1>3, <2>1, <2>5 DEF Past
<1>4. CASE epc'[e] = "barrier"
  <2>1. epc[e] = "reserve" /\ job'[e].todo = job[e].todo BY <1>4 DEF Reaches
  <2>2. \A d \in job[e].todo : Rank[c] < Rank[d] BY <2>1 DEF Past
  <2>3. \A d \in job[e].todo : Rank[c] <= Rank[d] BY <1>2, <2>2
  <2> QED BY <1>4, <2>1, <2>3 DEF Past
<1>5. CASE epc'[e] = "join"
  BY <1>5 DEF Past, Reaches
<1>6. CASE epc'[e] \notin {"reserve", "barrier", "join"} BY <1>1, <1>6 DEF Past
<1> QED BY <1>3, <1>4, <1>5, <1>6

(* A step of another one changes nothing of it.                            *)
LEMMA PastUntouched ==
  ASSUME NEW f \in Egressers, NEW c \in Names, epc'[f] = epc[f], job'[f] = job[f]
  PROVE  Past(f, c)' <=> Past(f, c)
BY DEF Past

LEMMA EgressOrderly ==
  ASSUME EgressTypeOK, Orderly, NEW e \in Egressers, Reaches(e)
  PROVE  Orderly'
<1>1. \A f \in Egressers, c \in Names : Past(f, c) => Past(f, c)'
  BY PastStays, PastUntouched DEF Reaches, Alone
<1>2. ASSUME NEW f \in Egressers PROVE Climbs(f)'
  <2> SUFFICES ASSUME NEW c \in Names, Claims(f, c)' PROVE Past(f, c)' BY DEF Climbs
  <2>1. CASE Claims(f, c) BY <1>1, <2>1 DEF Orderly, Climbs
  <2>2. CASE f = e /\ epc[e] = "reserve" /\ c \in Next1(e) /\ epc'[e] \in {"barrier", "close"}
    <3>1. \A d \in job[e].todo : Rank[c] <= Rank[d] BY <2>2 DEF Next1
    <3> QED BY <2>2, <3>1 DEF Past, Reaches
  <2> QED BY <2>1, <2>2 DEF Reaches
<1>3. ASSUME NEW f \in Egressers, refused'[f] \in Egressers, refused'[f] = refused[f]
      PROVE  /\ epc'[f] \in {"close", "done"}
             /\ \E c \in Names : /\ Past(refused[f], c)'
                                 /\ \A d \in Names : Claims(f, d)' => Rank[d] < Rank[c]
  <2>1. epc[f] \in {"close", "done"} BY <1>3 DEF Orderly, Yields
  <2>2. PICK c \in Names : /\ Past(refused[f], c)
                           /\ \A d \in Names : Claims(f, d) => Rank[d] < Rank[c]
    BY <1>3 DEF Orderly, Yields
  <2>3. Past(refused[f], c)' BY <1>1, <1>3, <2>2
  <2>4. \A d \in Names : Claims(f, d)' => Claims(f, d) BY <2>1 DEF Reaches
  <2>5. epc'[f] \in {"close", "done"} BY <2>1 DEF Reaches, Alone
  <2> QED BY <2>2, <2>3, <2>4, <2>5
<1>4. CASE refused'[e] = refused[e]
  <2>1. \A f \in Egressers : refused'[f] = refused[f] BY <1>4 DEF Reaches
  <2>2. \A f \in Egressers : Yields(f)' BY <1>3, <2>1 DEF Orderly, Yields
  <2> QED BY <1>2, <2>2 DEF Orderly
<1>5. CASE refused'[e] # refused[e]
  <2>1. PICK c \in Next1(e) : /\ epc[e] = "reserve" /\ epc'[e] = "close"
                              /\ refused'[e] = held[EgressSlot(c)]
    BY <1>5 DEF Reaches
  <2>2. c \in Names /\ c \in job[e].todo BY <2>1, JobTypes DEF Next1
  <2>3. \A f \in Egressers, d \in Names : Claims(f, d)' => Claims(f, d) BY <1>5 DEF Reaches
  <2>4. \A d \in Names : Claims(e, d) => Rank[d] < Rank[c]
    BY <2>1, <2>2 DEF Orderly, Climbs, Past
  <2>5. ASSUME NEW f \in Egressers, refused'[e] = f
        PROVE  Past(f, c) /\ f # e /\ refused[f] # e
    <3>1. Claims(f, c) BY <2>1, <2>5 DEF Claims
    <3>2. Past(f, c) BY <2>2, <3>1 DEF Orderly, Climbs
    <3>3. Rank[c] \in Nat BY <2>2, EgressAssumption
    <3>4. f # e BY <2>2, <2>4, <3>1, <3>3
    <3>5. ASSUME refused[f] = e PROVE FALSE
      <4>1. PICK x \in Names : Past(e, x) /\ \A d \in Names : Claims(f, d) => Rank[d] < Rank[x]
        BY <3>5 DEF Orderly, Yields
      <4>2. Rank[x] < Rank[c] BY <2>1, <2>2, <4>1 DEF Past
      <4>3. Rank[c] < Rank[x] BY <2>2, <3>1, <4>1
      <4>4. Rank[x] \in Nat BY EgressAssumption
      <4> QED BY <3>3, <4>2, <4>3, <4>4
    <3> QED BY <3>2, <3>4, <3>5
  <2>6. Yields(e)'
    <3> SUFFICES ASSUME NEW f \in Egressers, refused'[e] = f PROVE Yields(e)' BY DEF Yields
    <3>1. Past(f, c)' BY <1>1, <2>2, <2>5
    <3>2. refused'[f] # e BY <2>5 DEF Reaches
    <3> QED BY <2>1, <2>2, <2>3, <2>4, <3>1, <3>2 DEF Yields
  <2>7. ASSUME NEW f \in Egressers, f # e PROVE Yields(f)'
    <3> SUFFICES ASSUME refused'[f] \in Egressers PROVE Yields(f)' BY DEF Yields
    <3>1. refused'[f] = refused[f] BY <2>7 DEF Reaches
    <3>2. refused'[refused'[f]] # f
      <4>1. CASE refused[f] = e
        BY <2>5, <2>7, <3>1, <4>1
      <4>2. CASE refused[f] # e
        BY <3>1, <4>2 DEF Reaches, Orderly, Yields
      <4> QED BY <4>1, <4>2
    <3> QED BY <1>3, <3>1, <3>2 DEF Yields
  <2> QED BY <1>2, <2>6, <2>7 DEF Orderly
<1> QED BY <1>4, <1>5

(* Nobody else gives or takes a target.                                    *)
LEMMA OthersOrderly ==
  ASSUME Orderly, UNCHANGED <<epc, job, refused>>,
         \A f \in Egressers, c \in Names : Claims(f, c)' => Claims(f, c)
  PROVE  Orderly'
<1>1. \A f \in Egressers, c \in Names : Past(f, c)' <=> Past(f, c) BY PastUntouched
<1>2. \A f \in Egressers : Climbs(f)' BY <1>1 DEF Orderly, Climbs
<1>3. \A f \in Egressers : Yields(f)' BY <1>1 DEF Orderly, Yields
<1> QED BY <1>2, <1>3 DEF Orderly

(***************************************************************************)
(* What everybody else does to the containers and reservations of egress.  *)
(***************************************************************************)
(* Instances only follow each other: no name is created a second time.     *)
NamesAreOld == \A c \in Names : <<"create", c>> \notin late

(* What runs has been running, or is a new instance.                       *)
Ages == \A c \in Names : /\ box'[c].starts >= box[c].starts
                         /\ box'[c].up => box[c].up \/ box'[c].starts > box[c].starts

Elsewhere ==
  /\ \A f \in Egressers, c \in Names : Claims(f, c)' => Claims(f, c)
  /\ \A c \in Names : held'[EgressSlot(c)] = NoOne => held[EgressSlot(c)] = NoOne
  /\ Ages
  /\ NamesAreOld'

LEMMA StartsFacts ==
  ASSUME DaemonTypeOK
  PROVE  \A i \in Ids : box[i] \in Boxes /\ box[i].starts \in Nat /\ box[i].starts >= box[i].starts
<1>1. \A i \in Ids : box[i] \in Boxes /\ box[i].starts \in Nat BY DEF DaemonTypeOK, Boxes
<1> QED BY <1>1

LEMMA EffectAges ==
  ASSUME DaemonTypeOK, NEW k \in Kinds, NEW i \in Ids, k = "create" => i \notin Names,
         box' = Effect(k, i)
  PROVE  Ages
<1> USE DEF DaemonTypeOK, Effect, Boxes, Ages
<1>1. \A c \in Names : c \in Ids /\ box[c].starts \in Nat BY DEF Ids
<1>2. CASE k = "create" BY <1>1, <1>2
<1>3. CASE k \in {"remove", "reclaim"} BY <1>1, <1>3 DEF Removed, Gone
<1>4. CASE k = "start" BY <1>1, <1>4 DEF Started
<1>5. CASE k = "rename" BY <1>1, <1>5
<1>6. CASE k = "homeward" BY <1>1, <1>6
<1>7. CASE k = "stop" BY <1>1, <1>7
<1>8. CASE k = "policy" BY <1>1, <1>8
<1>9. CASE k = "repolicy" BY <1>1, <1>9
<1>10. CASE k = "disconnect" BY <1>1, <1>10
<1>11. CASE k = "reconnect" BY <1>1, <1>11
<1> QED BY <1>2, <1>3, <1>4, <1>5, <1>6, <1>7, <1>8, <1>9, <1>10, <1>11 DEF Kinds

LEMMA StandsStill ==
  ASSUME DaemonTypeOK, NamesAreOld, box' = box,
         \A c \in Names : held'[EgressSlot(c)] = held[EgressSlot(c)],
         NEW call, late' = late \/ late' = late \cup {call},
         \A c \in Names : call # <<"create", c>>,
         \A f \in Egressers, c \in Names : call # <<"reserve", EgressSlot(c), f>>
  PROVE  Elsewhere
<1>1. Ages BY StartsFacts DEF Ids, Ages
<1>2. \A f \in Egressers, c \in Names : Claims(f, c)' => Claims(f, c) BY DEF Claims, EgressSlot
<1> QED BY <1>1, <1>2 DEF Elsewhere, NamesAreOld

LEMMA CallElsewhere ==
  ASSUME DaemonTypeOK, NamesAreOld, NEW k \in Kinds, NEW i \in Ids, k = "create" => i \notin Names,
         Done(k, i) \/ Failed(k, i)
  PROVE  Elsewhere
<1>1. box' = box \/ box' = Effect(k, i) BY DEF Done, Failed, Refused, Lost
<1>2. held' = held /\ (late' = late \/ late' = late \cup {<<k, i>>}) BY DEF Done, Failed, Refused, Lost
<1>3. Ages BY <1>1, EffectAges, StartsFacts DEF Ids, Ages
<1>4. k # "reserve" BY DEF Kinds
<1>5. \A f \in Egressers, c \in Names : Claims(f, c)' => Claims(f, c)
  BY <1>2, <1>4 DEF Claims, EgressSlot
<1> QED BY <1>2, <1>3, <1>5 DEF Elsewhere, NamesAreOld

LEMMA IdleElsewhere ==
  ASSUME DaemonTypeOK, NamesAreOld, Glitch \/ UNCHANGED daemon
  PROVE  Elsewhere
<1>1. box' = box /\ held' = held /\ late' = late BY DEF Glitch, daemon
<1>2. Ages BY <1>1, StartsFacts DEF Ids, Ages
<1>3. \A f \in Egressers, c \in Names : Claims(f, c)' => Claims(f, c)
  BY <1>1 DEF Claims, EgressSlot
<1> QED BY <1>1, <1>2, <1>3 DEF Elsewhere, NamesAreOld

LEMMA ReserveElsewhere ==
  ASSUME DaemonTypeOK, NamesAreOld, NEW s \in Slots, NEW a \in Actors,
         \A c \in Names : s # EgressSlot(c),
         \/ Reserved(s, a) \/ Conflict(s) \/ ReserveLost(s, a) \/ Freed(s) \/ FreeFailed(s)
  PROVE  Elsewhere
<1>1. box' = box /\ (late' = late \/ late' = late \cup {<<"reserve", s, a>>})
  BY DEF Reserved, Conflict, ReserveLost, Freed, FreeFailed, daemon
<1>2. \A c \in Names : held'[EgressSlot(c)] = held[EgressSlot(c)]
  BY SlotFacts DEF Reserved, Conflict, ReserveLost, Freed, FreeFailed, daemon, DaemonTypeOK
<1>3. \A c \in Names : <<"reserve", s, a>> # <<"create", c>> OBVIOUS
<1>4. \A f \in Egressers, c \in Names : <<"reserve", s, a>> # <<"reserve", EgressSlot(c), f>> OBVIOUS
<1> QED BY <1>1, <1>2, <1>3, <1>4, StandsStill

LEMMA ReplacementElsewhere ==
  ASSUME DaemonTypeOK, NamesAreOld, ReplacementInv, NEW r \in Replacers, ReplacementStep(r)
  PROVE  Elsewhere
<1>1. {"create", "rename", "homeward", "stop", "start", "policy", "repolicy", "disconnect",
       "reconnect", "remove"} \subseteq Kinds
  BY DEF Kinds
<1>2. r \in Ids /\ r \notin Names /\ Lock(r) \in Slots /\ r \in Actors /\ \A c \in Names : Lock(r) # EgressSlot(c)
  BY LockFacts, SlotFacts, DaemonAssumption DEF Lock
<1>3. {"policy", "rename", "stop", "disconnect", "create", "lookup", "start", "verify", "commit",
       "discard", "homeward", "reconnect", "repolicy", "restart", "reverify", "remove"} \subseteq AtWork
  BY DEF AtWork, Forward, Backward
<1>4. rpc[r] \in AtWork => Old(r) \in Ids BY DEF ReplacementInv, Handles, Old
<1>5. \A k \in Kinds, i \in Ids : (k # "create" \/ i = r) /\ (Done(k, i) \/ Failed(k, i)) => Elsewhere
  BY <1>2, CallElsewhere
<1>6. \A k, i, phase, step : Forth(r, k, i, phase, step) => Done(k, i) \/ Failed(k, i)
  BY DEF Forth
<1>7. \A needed, k, i, step : Back(r, needed, k, i, step) =>
        Done(k, i) \/ Failed(k, i) \/ Glitch \/ UNCHANGED daemon
  BY DEF Back
<1>8. Glitch \/ UNCHANGED daemon => Elsewhere BY IdleElsewhere
<1>9. CASE Begin(r) \/ AssertNoPrune(r) \/ Fingerprint(r) \/ Lookup(r) \/ Verify(r) \/ Commit(r)
           \/ Reverify(r) \/ Crash(r)
  BY <1>8, <1>9 DEF Begin, AssertNoPrune, Fingerprint, Lookup, Verify, Commit, Reverify, Crash
<1>10. CASE Reserve(r) BY <1>2, <1>10, ReserveElsewhere DEF Reserve
<1>11. CASE Release(r) BY <1>2, <1>8, <1>11, ReserveElsewhere DEF Release
<1>12. CASE DropPolicy(r) BY <1>1, <1>3, <1>4, <1>5, <1>6, <1>12 DEF DropPolicy
<1>13. CASE Rename(r) BY <1>1, <1>3, <1>4, <1>5, <1>6, <1>13 DEF Rename
<1>14. CASE Stop(r) BY <1>1, <1>3, <1>4, <1>5, <1>6, <1>8, <1>14 DEF Stop
<1>15. CASE Disconnect(r) BY <1>1, <1>3, <1>4, <1>5, <1>15 DEF Disconnect
<1>16. CASE Create(r) BY <1>1, <1>2, <1>5, <1>16 DEF Create
<1>17. CASE Start(r) BY <1>1, <1>2, <1>5, <1>6, <1>8, <1>17 DEF Start
<1>18. CASE RemoveOld(r) BY <1>1, <1>3, <1>4, <1>5, <1>18 DEF RemoveOld
<1>19. CASE Discard(r) BY <1>1, <1>2, <1>5, <1>7, <1>8, <1>19 DEF Discard
<1>20. CASE Homeward(r) BY <1>1, <1>3, <1>4, <1>5, <1>7, <1>8, <1>20 DEF Homeward
<1>21. CASE Reconnect(r) BY <1>1, <1>3, <1>4, <1>5, <1>7, <1>8, <1>21 DEF Reconnect
<1>22. CASE Repolicy(r)
  <2>1. "policy" \in Kinds /\ "repolicy" \in Kinds BY <1>1
  <2> QED BY <1>3, <1>4, <1>5, <1>7, <1>8, <1>22, <2>1 DEF Repolicy
<1>23. CASE Restart(r) BY <1>1, <1>3, <1>4, <1>5, <1>7, <1>8, <1>23 DEF Restart
<1> QED
  BY <1>9, <1>10, <1>11, <1>12, <1>13, <1>14, <1>15, <1>16, <1>17, <1>18, <1>19, <1>20, <1>21, <1>22,
     <1>23 DEF ReplacementStep

LEMMA SweptAges == ASSUME DaemonTypeOK, box' = Swept PROVE Ages
BY StartsFacts DEF Swept, Removed, Gone, Ids, Ages

LEMMA PruneElsewhere ==
  ASSUME DaemonTypeOK, PruneTypeOK, NamesAreOld, NEW p \in Pruners, PruneStep(p)
  PROVE  Elsewhere
<1>1. PruneSlot \in Slots /\ p \in Actors /\ \A c \in Names : PruneSlot # EgressSlot(c)
  BY SlotFacts, ActorFacts
<1>2. Glitch \/ UNCHANGED daemon => Elsewhere BY IdleElsewhere
<1>3. CASE Request(p) \/ FirstSurvey(p) \/ SecondSurvey(p) \/ ReclaimEnds(p) \/ PruneCrash(p)
  BY <1>2, <1>3 DEF Request, FirstSurvey, SecondSurvey, ReclaimEnds, PruneCrash
<1>4. CASE ReserveGuard(p) BY <1>1, <1>4, ReserveElsewhere DEF ReserveGuard
<1>5. CASE ReleaseGuard(p) BY <1>1, <1>5, ReserveElsewhere DEF ReleaseGuard
<1>6. CASE SweepDone(p) \/ SweepLost(p)
  <2>1. held' = held /\ (box' = box \/ box' = Swept)
        /\ (late' = late \/ late' = late \cup {<<"sweep", p>>})
    BY <1>6 DEF SweepDone, SweepLost
  <2>2. Ages
    BY <2>1, SweptAges, StartsFacts DEF Ids, Ages
  <2>3. \A f \in Egressers, c \in Names : Claims(f, c)' => Claims(f, c)
    BY <2>1 DEF Claims, EgressSlot
  <2> QED BY <2>1, <2>2, <2>3 DEF Elsewhere, NamesAreOld
<1>7. CASE Reclaim(p)
  <2>1. PICK i \in chosen[p] : Done("reclaim", i) \/ Failed("reclaim", i)
    BY <1>7 DEF Reclaim, Failed
  <2>2. i \in Ids /\ "reclaim" \in Kinds BY <2>1 DEF PruneTypeOK, Kinds
  <2> QED BY <2>1, <2>2, CallElsewhere
<1> QED BY <1>3, <1>4, <1>5, <1>6, <1>7 DEF PruneStep

LEMMA DaemonElsewhere ==
  ASSUME DaemonTypeOK, NamesAreOld, DaemonNext
  PROVE  Elsewhere
<1>1. late' \subseteq late /\ \A t \in Slots : Kept(t) BY DaemonKeeps
<1>2. NamesAreOld' BY <1>1 DEF NamesAreOld
<1>3. \A c \in Names : held'[EgressSlot(c)] = NoOne => held[EgressSlot(c)] = NoOne
  BY <1>1, SlotFacts DEF Kept
<1>4. ASSUME held' = held, Ages PROVE Elsewhere
  <2>1. \A f \in Egressers, c \in Names : Claims(f, c)' => Claims(f, c)
    BY <1>1, <1>4 DEF Claims, EgressSlot
  <2> QED BY <1>2, <1>3, <1>4, <2>1 DEF Elsewhere
<1>5. CASE ExecuteLate
  <2>1. PICK call \in late :
          /\ late' = late \ {call} /\ UNCHANGED faults
          /\ \/ /\ call[1] = "reserve" /\ UNCHANGED box
                /\ held' = IF held[call[2]] = NoOne THEN [held EXCEPT ![call[2]] = call[3]] ELSE held
             \/ call[1] = "sweep" /\ box' = Swept /\ UNCHANGED held
             \/ /\ call[1] \in Kinds /\ UNCHANGED held
                /\ box' = IF Accepts(call[1], call[2]) THEN Effect(call[1], call[2]) ELSE box
    BY <1>5, Zenon DEF ExecuteLate
  <2>2. CASE call \in {"reserve"} \X Slots \X Actors
    <3>1. call = <<"reserve", call[2], call[3]>> /\ call[2] \in Slots /\ "reserve" \notin Kinds
      BY <2>2 DEF Kinds
    <3>2. box' = box /\ held' = IF held[call[2]] = NoOne THEN [held EXCEPT ![call[2]] = call[3]] ELSE held
      BY <2>1, <3>1
    <3>3. \A f \in Egressers, c \in Names : Claims(f, c)' => Claims(f, c)
      BY <1>1, <3>1, <3>2, SlotFacts DEF Claims, EgressSlot, DaemonTypeOK
    <3> QED BY <1>2, <1>3, <3>2, <3>3, StartsFacts DEF Elsewhere, Ids, Ages
  <2>3. CASE call \in {"sweep"} \X Pruners
    <3>1. call[1] = "sweep" /\ "sweep" \notin Kinds BY <2>3 DEF Kinds
    <3> QED BY <1>4, <2>1, <3>1, SweptAges
  <2>4. CASE call \in Kinds \X Ids
    <3>1. /\ call = <<call[1], call[2]>> /\ call[1] \in Kinds /\ call[2] \in Ids
          /\ "reserve" \notin Kinds /\ "sweep" \notin Kinds
      BY <2>4 DEF Kinds
    <3>2. call[1] = "create" => call[2] \notin Names BY <3>1 DEF NamesAreOld
    <3>3. held' = held /\ (box' = box \/ box' = Effect(call[1], call[2])) BY <2>1, <3>1
    <3>4. Ages
      BY <3>1, <3>2, <3>3, EffectAges, StartsFacts DEF Ids, Ages
    <3> QED BY <1>4, <3>3, <3>4
  <2> QED BY <2>1, <2>2, <2>3, <2>4 DEF DaemonTypeOK, Abandoned
<1>6. CASE DaemonRestart
  <2>1. box' = [i \in Ids |-> IF Exists(i) /\ box[i].policy /\ box[i].starts > 0
                             THEN Started(box[i]) ELSE [box[i] EXCEPT !.up = FALSE]]
    BY <1>6 DEF DaemonRestart
  <2>2. ASSUME NEW c \in Names
        PROVE  /\ box'[c].starts >= box[c].starts
               /\ box'[c].up => box[c].up \/ box'[c].starts > box[c].starts
    <3>1. box[c] \in Boxes /\ c \in Ids BY StartsFacts DEF Ids
    <3>2. box'[c] = Started(box[c]) \/ box'[c] = [box[c] EXCEPT !.up = FALSE] BY <2>1, <3>1
    <3>3. CASE box'[c] = Started(box[c]) BY <3>1, <3>3 DEF Boxes, Started
    <3>4. CASE box'[c] = [box[c] EXCEPT !.up = FALSE] BY <3>1, <3>4 DEF Boxes
    <3> QED BY <3>2, <3>3, <3>4
  <2> QED BY <1>4, <1>6, <2>2 DEF DaemonRestart, Ages
<1>7. CASE \E i \in Ids : Exits(i)
  <2>1. PICK i \in Ids : Exits(i) BY <1>7
  <2>2. Ages BY <2>1, StartsFacts DEF Exits, Started, Boxes, Ids, DaemonTypeOK, Ages
  <2> QED BY <1>4, <2>1, <2>2 DEF Exits
<1> QED BY <1>5, <1>6, <1>7 DEF DaemonNext

(***************************************************************************)
(* Tables: what happens elsewhere.  A new instance has no table and was    *)
(* promised nothing.                                                       *)
(***************************************************************************)
LEMMA EgressNumbers ==
  ASSUME EgressTypeOK, DaemonTypeOK, NEW c \in Names
  PROVE  /\ table[c] \in Nat /\ told[c] \in Nat /\ box[c].starts \in Nat
         /\ \A q \in Policies : reported[q][c] \in Nat
         /\ abandoned[c] \in Commands /\ abandoned[c][2] \in Nat /\ abandoned[c][3] \in Nat
         /\ \A e \in Egressers : job[e].inst[c] \in Nat /\ job[e].found[c] \in Nat
<1>1. abandoned[c] \in Commands BY DEF EgressTypeOK
<1>2. abandoned[c][2] \in Nat /\ abandoned[c][3] \in Nat BY <1>1 DEF Commands
<1>3. \A e \in Egressers : job[e].inst[c] \in Nat /\ job[e].found[c] \in Nat BY JobTypes
<1>4. box[c].starts \in Nat BY StartsFacts DEF Ids
<1> QED BY <1>1, <1>2, <1>3, <1>4 DEF EgressTypeOK

LEMMA EnforcedElsewhere ==
  ASSUME EgressTypeOK, DaemonTypeOK, DaemonTypeOK', Enforcement, Elsewhere, UNCHANGED egress
  PROVE  Enforcement'
<1>1. /\ epc' = epc /\ job' = job /\ table' = table /\ abandoned' = abandoned /\ active' = active
      /\ told' = told /\ reported' = reported
  BY DEF egress
<1>2. ASSUME NEW c \in Names
      PROVE  /\ box[c].starts \in Nat /\ box'[c].starts \in Nat /\ box'[c].starts >= box[c].starts
             /\ box'[c].up => box[c].up \/ box'[c].starts > box[c].starts
  <2>1. box' \in [Ids -> Boxes] BY DEF DaemonTypeOK
  <2> QED BY <2>1, EgressNumbers DEF Elsewhere, Ids, Boxes, Ages
<1>3. ASSUME NEW c \in Names, NEW n \in Nat, n <= box[c].starts
      PROVE  /\ box'[c].starts = box[c].starts => (Filtered(c, n)' <=> Filtered(c, n))
             /\ box'[c].starts # box[c].starts => ~Filtered(c, n)'
  BY <1>2, <1>3 DEF Filtered
<1>4. ASSUME NEW c \in Names PROVE Dated(c)' /\ Honoured(c)' /\ Released(c)'
  <2>1. Dated(c) /\ Honoured(c) /\ Released(c) BY DEF Enforcement
  <2>2. Dated(c)' BY <1>1, <1>2, <2>1, EgressNumbers DEF Dated
  <2>3. CASE box'[c].starts = box[c].starts
    <3>1. Honoured(c)' BY <1>1, <2>1, <2>3 DEF Honoured, Promised, Filtered
    <3>2. Released(c)'
      BY <1>1, <2>1, <2>3 DEF Released, Even, Filtered, Elsewhere, EgressSlot, Idle
    <3> QED BY <2>2, <3>1, <3>2
  <2>4. CASE box'[c].starts # box[c].starts
    <3>1. ~Promised(c)' BY <1>1, <1>3, <2>1, <2>4, EgressNumbers DEF Promised, Dated
    <3>2. Even(c)' BY <1>1, <1>3, <2>1, <2>4, EgressNumbers DEF Even, Dated
    <3>3. Honoured(c)' BY <1>1, <2>1, <3>1 DEF Honoured
    <3>4. Released(c)' BY <1>1, <2>1, <3>2 DEF Released, Elsewhere, EgressSlot, Idle
    <3> QED BY <2>2, <3>3, <3>4
  <2> QED BY <2>3, <2>4
<1>5. ASSUME NEW e \in Egressers PROVE Shape(e)'
  <2>1. Shape(e) BY DEF Enforcement
  <2>2. \A c \in Names : job[e].inst[c] <= box'[c].starts BY <1>2, <2>1, EgressNumbers DEF Shape
  <2> QED BY <1>1, <2>1, <2>2 DEF Shape, Targets, Next1, Joined
<1>6. ASSUME NEW e \in Egressers, NEW c \in job[e].open PROVE Owned(e, c)'
  <2>1. Owned(e, c) /\ c \in Names BY JobTypes DEF Enforcement
  <2>2. Dated(c) /\ job[e].inst[c] <= box[c].starts BY <2>1 DEF Enforcement, Shape
  <2>3. CASE box'[c].starts = box[c].starts
    BY <1>1, <2>1, <2>3 DEF Owned, Even, Promised, Filtered, Joined, Snapped, Targets, Idle
  <2>4. CASE box'[c].starts # box[c].starts
    <3>1. Even(c)' /\ ~Filtered(c, table[c])' /\ ~Filtered(c, told[c])'
      BY <1>1, <1>3, <2>1, <2>2, <2>4, EgressNumbers DEF Even, Dated
    <3>2. job[e].inst[c] # box'[c].starts BY <1>2, <2>1, <2>2, <2>4, EgressNumbers
    <3> QED BY <1>1, <2>1, <3>1, <3>2 DEF Owned, Idle, Targets
  <2> QED BY <2>3, <2>4
<1> QED BY <1>1, <1>4, <1>5, <1>6 DEF Enforcement

(***************************************************************************)
(* Tables: the steps of an operation.                                      *)
(***************************************************************************)
(* Nothing happens to a container, and nothing is promised of it.          *)
Untouched(c) ==
  /\ table'[c] = table[c] /\ told'[c] = told[c] /\ abandoned'[c] = abandoned[c]
  /\ \A q \in Policies : /\ active'[q] => active[q] \/ reported'[q][c] = 0
                         /\ reported'[q][c] \in {reported[q][c], 0}

LEMMA UntouchedFacts ==
  ASSUME DaemonTypeOK, NEW c \in Names, box' = box, Untouched(c)
  PROVE  /\ Promised(c)' => Promised(c)
         /\ Even(c)' <=> Even(c)
         /\ \A n : Filtered(c, n)' <=> Filtered(c, n)
         /\ Dated(c) => Dated(c)'
         /\ Honoured(c) => Honoured(c)'
<1>1. \A n : Filtered(c, n)' <=> Filtered(c, n) BY DEF Filtered
<1>2. Promised(c)' => Promised(c) BY DEF Promised, Untouched, Filtered
<1>3. Even(c)' <=> Even(c) BY DEF Even, Untouched, Filtered
<1>4. Dated(c) => Dated(c)'
  <2>1. box[c] \in Boxes BY DEF DaemonTypeOK, Ids
  <2>2. 0 <= box[c].starts BY <2>1 DEF Boxes
  <2>3. SUFFICES ASSUME Dated(c) PROVE Dated(c)' OBVIOUS
  <2>4. \A q \in Policies : reported'[q][c] <= box'[c].starts BY <2>2, <2>3 DEF Dated, Untouched
  <2> QED BY <2>3, <2>4 DEF Dated, Untouched
<1>5. Honoured(c) => Honoured(c)' BY <1>2 DEF Honoured, Untouched, Filtered
<1> QED BY <1>1, <1>2, <1>3, <1>4, <1>5

(* Nothing happens to any container, and nobody is told anything.          *)
Still == box' = box /\ UNCHANGED <<ruleset, active, told, reported>>

LEMMA StillFacts ==
  ASSUME DaemonTypeOK, EgressTypeOK, Enforcement, Still, NEW c \in Names
  PROVE  /\ Untouched(c)
         /\ Dated(c)' /\ Honoured(c)' /\ (Released(c) /\ held'[EgressSlot(c)] = held[EgressSlot(c)] => Released(c)')
         /\ Promised(c)' <=> Promised(c)
         /\ Even(c)' <=> Even(c)
         /\ \A n : Filtered(c, n)' <=> Filtered(c, n)
         /\ table'[c] = table[c] /\ told'[c] = told[c] /\ abandoned'[c] = abandoned[c]
<1>1. /\ box' = box /\ table' = table /\ told' = told /\ abandoned' = abandoned
      /\ active' = active /\ reported' = reported
  BY DEF Still, ruleset
<1>2. Untouched(c) BY <1>1 DEF Untouched
<1>3. Dated(c)' /\ Honoured(c)' /\ (Even(c)' <=> Even(c)) /\ \A n : Filtered(c, n)' <=> Filtered(c, n)
  BY <1>1, <1>2, UntouchedFacts DEF Enforcement
<1>4. Promised(c)' <=> Promised(c) BY <1>1 DEF Promised, Filtered
<1>5. Released(c) /\ held'[EgressSlot(c)] = held[EgressSlot(c)] => Released(c)'
  BY <1>1, <1>3 DEF Released, EgressSlot, Idle
<1> QED BY <1>1, <1>2, <1>3, <1>4, <1>5

(* What a step of e has to leave behind.                                   *)
Keeps(e) ==
  /\ Shape(e)'
  /\ \A c \in Names \ job[e].open : Untouched(c)
  /\ \A c \in job[e].open : Dated(c)' /\ Honoured(c)'
  /\ \A c \in job'[e].open : Owned(e, c)'
  /\ \A c \in Names : held'[EgressSlot(c)] = NoOne /\ held[EgressSlot(c)] # NoOne =>
       Even(c)' /\ abandoned'[c] = Idle[c]

LEMMA KeepsEnforcement ==
  ASSUME DaemonTypeOK, EgressTypeOK, EgressInv, Enforcement, NEW e \in Egressers,
         box' = box, Alone(e), Keeps(e)
  PROVE  Enforcement'
<1>1. \A c \in Names \ job[e].open :
        /\ Untouched(c) /\ (Promised(c)' => Promised(c)) /\ (Even(c)' <=> Even(c))
        /\ \A n : Filtered(c, n)' <=> Filtered(c, n)
        /\ Dated(c)' /\ Honoured(c)'
  BY UntouchedFacts DEF Keeps, Enforcement
<1>2. ASSUME NEW c \in Names PROVE Dated(c)' /\ Honoured(c)'
  BY <1>1 DEF Keeps
<1>3. ASSUME NEW c \in Names PROVE Released(c)'
  <2>1. CASE held[EgressSlot(c)] = NoOne
    <3>1. c \notin job[e].open BY <2>1, ActorFacts DEF EgressInv, Sessions
    <3>2. Even(c) /\ abandoned[c] = Idle[c] BY <2>1 DEF Enforcement, Released
    <3> QED BY <1>1, <3>1, <3>2 DEF Released, Untouched, Idle
  <2>2. CASE held[EgressSlot(c)] # NoOne BY <2>2 DEF Keeps, Released, EgressSlot, Idle
  <2> QED BY <2>1, <2>2
<1>4. ASSUME NEW f \in Egressers \ {e} PROVE Shape(f)' /\ \A c \in job'[f].open : Owned(f, c)'
  <2>1. epc'[f] = epc[f] /\ job'[f] = job[f] BY DEF Alone
  <2>2. Shape(f) BY DEF Enforcement
  <2>3. Shape(f)' BY <2>1, <2>2 DEF Shape, Targets, Next1, Joined
  <2>4. ASSUME NEW c \in job[f].open PROVE Owned(f, c)'
    <3>1. c \in Names /\ c \notin job[e].open BY JobTypes DEF EgressInv, Sessions
    <3>2. Owned(f, c) BY DEF Enforcement
    <3>3. table'[c] = table[c] /\ told'[c] = told[c] /\ abandoned'[c] = abandoned[c]
      BY <1>1, <3>1 DEF Untouched
    <3>4. (Promised(c)' => Promised(c)) /\ (Even(c)' <=> Even(c)) BY <1>1, <3>1
    <3>5. (Joined(f, c)' <=> Joined(f, c)) /\ (Snapped(f, c)' <=> Snapped(f, c))
          /\ (c \in Targets(f)' <=> c \in Targets(f))
      BY <2>1 DEF Joined, Snapped, Targets
    <3> QED BY <2>1, <3>2, <3>3, <3>4, <3>5 DEF Owned, Filtered, Idle
  <2> QED BY <2>1, <2>3, <2>4
<1>5. Shape(e)' /\ \A c \in job'[e].open : Owned(e, c)' BY DEF Keeps
<1>6. \A f \in Egressers : Shape(f)' /\ \A c \in job'[f].open : Owned(f, c)' BY <1>4, <1>5
<1> QED BY <1>2, <1>3, <1>6 DEF Enforcement

(* The end of the work.                                                    *)
LEMMA CloseKeeps ==
  ASSUME EgressTypeOK, DaemonTypeOK, box' = box, NEW e \in Egressers, NEW unsure \in SUBSET Names,
         Close(e, unsure),
         \A c \in job[e].open : c \notin job[e].unsure \cup unsure => Even(c)' /\ abandoned'[c] = Idle[c]
  PROVE  Shape(e)' /\ job'[e].open = job[e].open /\ \A c \in job'[e].open : Owned(e, c)'
<1>1. /\ job'[e] = [NoJob EXCEPT !.open = job[e].open, !.unsure = job[e].unsure \cup unsure]
      /\ epc'[e] = "close"
  BY JobTypes DEF Close, EGo, EgressTypeOK
<1>2. /\ job'[e].kind = "none" /\ job'[e].inst = Nowhere /\ job'[e].todo = {} /\ job'[e].tried = {}
      /\ job'[e].found = Nowhere
      /\ job'[e].open = job[e].open /\ job'[e].unsure = job[e].unsure \cup unsure
  BY <1>1 DEF NoJob
<1>3. Targets(e)' = {} BY <1>2 DEF Targets, Nowhere
<1>4. \A c \in Names : box'[c].starts \in Nat BY EgressNumbers
<1>5. \A c \in Names : job'[e].inst[c] = 0 /\ job'[e].found[c] = 0 BY <1>2 DEF Nowhere
<1>6. \A c \in Names : job'[e].inst[c] <= box'[c].starts /\ job'[e].found[c] \in {0, job'[e].inst[c]}
  BY <1>4, <1>5
<1>7. Next1(e)' = {} BY <1>2 DEF Next1
<1>8. \A c : ~Joined(e, c)' /\ ~Snapped(e, c)' BY <1>3 DEF Joined, Snapped
<1>9. Shape(e)' BY <1>1, <1>2, <1>3, <1>6, <1>7, <1>8 DEF Shape, Changes
<1>10. ASSUME NEW c \in job[e].open PROVE Owned(e, c)'
  <2>1. Even(c)' \/ c \in job'[e].unsure BY <1>2
  <2>2. abandoned'[c] # Idle[c] => c \in job'[e].unsure /\ c \notin Targets(e)' BY <1>2, <1>3
  <2> QED BY <1>1, <1>2, <1>8, <2>1, <2>2 DEF Owned, Changes, Idle
<1> QED BY <1>2, <1>9, <1>10

(* After a failure: the targets tried are those that may have to be put    *)
(* back.                                                                   *)
LEMMA FallbackKeeps ==
  ASSUME EgressTypeOK, DaemonTypeOK, Enforcement, box' = box, NEW e \in Egressers, epc[e] \in Changes,
         NEW tried \in SUBSET Targets(e), NEW unsure \in SUBSET tried, Fallback(e, tried, unsure),
         \A c \in job[e].open :
           /\ c \notin unsure => Even(c)' \/ (job[e].kind = "apply" /\ c \in job[e].tried \cup tried)
           /\ abandoned'[c] = Idle[c] \/ (c \in unsure /\ abandoned'[c][2] = job[e].inst[c])
           /\ job[e].inst[c] # box[c].starts => table'[c] = table[c]
           /\ told'[c] = told[c] /\ (Promised(c)' => Promised(c))
  PROVE  Shape(e)' /\ job'[e].open = job[e].open /\ \A c \in job'[e].open : Owned(e, c)'
<1>1. unsure \in SUBSET Names BY DEF Targets
<1>2. Shape(e) /\ job[e].unsure = {} BY DEF Enforcement, Shape, Changes
<1>3. CASE job[e].kind # "apply" /\ Close(e, unsure) BY <1>1, <1>2, <1>3, CloseKeeps
<1>4. CASE /\ job[e].kind = "apply" /\ EGo(e, "rollback")
           /\ job' = [job EXCEPT ![e].tried = @ \cup tried, ![e].unsure = @ \cup unsure]
  <2>1. epc'[e] = "rollback" BY <1>4 DEF EGo, EgressTypeOK
  <2>2. /\ job'[e].kind = "apply" /\ job'[e].inst = job[e].inst /\ job'[e].todo = job[e].todo
        /\ job'[e].tried = job[e].tried \cup tried /\ job'[e].found = job[e].found
        /\ job'[e].open = job[e].open /\ job'[e].unsure = unsure /\ job'[e].policy = job[e].policy
    BY <1>2, <1>4, JobTypes DEF JobRecs
  <2>3. Targets(e)' = Targets(e) BY <2>2 DEF Targets
  <2>4. \A c \in Names : Joined(e, c)' => Joined(e, c)
    BY <2>1, <2>3 DEF Joined, Acquiring, Changes
  <2>5. Shape(e)'
    <3>1. \A c \in Names : job'[e].inst[c] <= box'[c].starts /\ job'[e].found[c] \in {0, job'[e].inst[c]}
      BY <1>2, <2>2 DEF Shape
    <3>2. /\ job'[e].todo \subseteq Targets(e)' /\ job'[e].tried \subseteq Targets(e)'
          /\ job'[e].policy \in Policies /\ Targets(e)' \subseteq Covers[job'[e].policy]
      <4>1. job[e].todo \subseteq Targets(e) /\ job[e].tried \subseteq Targets(e)
        BY <1>2 DEF Shape
      <4>2. job[e].policy \in Policies /\ Targets(e) \subseteq Covers[job[e].policy]
        BY <1>2, <1>4 DEF Shape
      <4> QED BY <2>2, <2>3, <4>1, <4>2
    <3>3. \A c \in Names : Joined(e, c)' => c \in job'[e].open BY <1>2, <2>2, <2>4 DEF Shape
    <3> QED BY <2>1, <2>2, <3>1, <3>2, <3>3 DEF Shape, Changes
  <2>6. ASSUME NEW c \in job[e].open PROVE Owned(e, c)'
    <3>1. Owned(e, c) BY DEF Enforcement
    <3>2. Even(c)' \/ c \in job'[e].unsure \cup job'[e].tried BY <2>2
    <3>3. abandoned'[c] # Idle[c] => /\ c \in job'[e].unsure
                                     /\ abandoned'[c][2] = job'[e].inst[c]
      BY <2>2
    <3>4. Joined(e, c)' => Joined(e, c) BY <2>4, JobTypes
    <3>5. Joined(e, c)' /\ job'[e].inst[c] # box'[c].starts =>
            ~Filtered(c, table[c])' /\ ~Filtered(c, told[c])'
      BY <2>2, <3>1, <3>4 DEF Owned, Filtered
    <3>6. Snapped(e, c)' => Snapped(e, c) BY <1>4, <2>3 DEF Snapped
    <3>7. Snapped(e, c)' /\ job'[e].inst[c] = box'[c].starts =>
            /\ Filtered(c, told[c])' <=> Filtered(c, job[e].found[c])'
            /\ Promised(c)' => Filtered(c, job[e].found[c])'
      BY <2>2, <3>1, <3>6 DEF Owned, Filtered
    <3> QED BY <2>1, <2>2, <3>2, <3>3, <3>5, <3>7 DEF Owned, Changes, Idle
  <2> QED BY <2>2, <2>5, <2>6
<1> QED BY <1>3, <1>4 DEF Fallback

(***************************************************************************)
(* The steps of an operation one by one.                                   *)
(***************************************************************************)
(* A step after which everything is as it was, except what e remembers.    *)
LEMMA StillKeeps ==
  ASSUME DaemonTypeOK, EgressTypeOK, Enforcement, NEW e \in Egressers, Still,
         \A c \in Names : held'[EgressSlot(c)] = NoOne => held[EgressSlot(c)] = NoOne,
         Shape(e)', \A c \in job'[e].open : Owned(e, c)'
  PROVE  Keeps(e)
BY StillFacts, JobTypes DEF Keeps

(* The end of the work while nothing is amiss.                             *)
LEMMA StillClose ==
  ASSUME DaemonTypeOK, EgressTypeOK, Enforcement, NEW e \in Egressers, Still, held' = held,
         job[e].tried = {}, NEW unsure \in SUBSET Names, Close(e, unsure)
  PROVE  Keeps(e)
<1>1. box' = box BY DEF Still
<1>2. ASSUME NEW c \in job[e].open, c \notin job[e].unsure PROVE Even(c)' /\ abandoned'[c] = Idle[c]
  <2>1. c \in Names /\ Owned(e, c) BY JobTypes DEF Enforcement
  <2>2. Even(c) /\ abandoned[c] = Idle[c] BY <1>2, <2>1 DEF Owned
  <2> QED BY <2>1, <2>2, StillFacts
<1>3. Shape(e)' /\ \A c \in job'[e].open : Owned(e, c)' BY <1>1, <1>2, CloseKeeps
<1> QED BY <1>3, StillKeeps DEF EgressSlot

LEMMA AskKeeps ==
  ASSUME DaemonTypeOK, EgressTypeOK, Enforcement, NEW e \in Egressers, Ask(e)
  PROVE  Keeps(e)
<1>1. PICK q \in Policies, kind \in {"apply", "remove", "status"} :
      \E targets \in IF kind = "apply" THEN {{c \in Covers[q] : box[c].up}}
                                       ELSE {{c} : c \in {d \in Covers[q] : box[d].up}} :
         /\ targets # {}
         /\ kind = "apply" => active[q]
         /\ job' = [job EXCEPT ![e] = [NoJob EXCEPT
                !.kind = kind, !.policy = q, !.todo = targets,
                !.inst = [c \in Names |-> IF c \in targets THEN box[c].starts ELSE 0]]]
  BY Zenon DEF Ask
<1>2. PICK targets \in IF kind = "apply" THEN {{c \in Covers[q] : box[c].up}}
                                         ELSE {{c} : c \in {d \in Covers[q] : box[d].up}} :
         /\ targets # {}
         /\ kind = "apply" => active[q]
         /\ job' = [job EXCEPT ![e] = [NoJob EXCEPT
                !.kind = kind, !.policy = q, !.todo = targets,
                !.inst = [c \in Names |-> IF c \in targets THEN box[c].starts ELSE 0]]]
  BY <1>1
<1>3. Covers[q] \subseteq Names BY EgressAssumption
<1>4. /\ targets \subseteq Covers[q] /\ \A c \in targets : box[c].up
      /\ kind # "apply" => \A c, d \in targets : c = d
  BY <1>2
<1> DEFINE inst == [c \in Names |-> IF c \in targets THEN box[c].starts ELSE 0]
<1>5. job'[e] = [NoJob EXCEPT !.kind = kind, !.policy = q, !.todo = targets, !.inst = inst]
  BY <1>2, JobTypes
<1>6. \A c \in Names : inst[c] = IF c \in targets THEN box[c].starts ELSE 0 OBVIOUS
<1> HIDE DEF inst
<1>7. /\ job'[e].kind = kind /\ job'[e].policy = q /\ job'[e].todo = targets /\ job'[e].inst = inst
      /\ job'[e].tried = {} /\ job'[e].unsure = {} /\ job'[e].open = {} /\ job'[e].found = Nowhere
  BY <1>5 DEF NoJob
<1>8. Still /\ held' = held /\ epc'[e] = "reserve"
  BY DEF Ask, Still, daemon, records, EGo, EgressTypeOK
<1>9. \A c \in Names : box[c].starts \in Nat /\ (box[c].up => box[c].starts > 0)
  BY EgressNumbers DEF Enforcement, Dated
<1>10. Targets(e)' = targets
  <2>1. \A c \in targets : c \in Names /\ inst[c] # 0 BY <1>3, <1>4, <1>6, <1>9
  <2>2. \A c \in Names : inst[c] # 0 => c \in targets BY <1>6
  <2> QED BY <1>7, <2>1, <2>2 DEF Targets
<1>11. \A c \in Names : job'[e].inst[c] <= box'[c].starts /\ job'[e].found[c] \in {0, job'[e].inst[c]}
  BY <1>6, <1>7, <1>8, <1>9 DEF Nowhere, Still
<1>12. \A c : ~Joined(e, c)' BY <1>7, <1>8, <1>10 DEF Joined, Acquiring
<1>13. Shape(e)' BY <1>4, <1>7, <1>8, <1>10, <1>11, <1>12 DEF Shape, Changes
<1> QED BY <1>7, <1>8, <1>13, StillKeeps DEF EgressSlot

(* Only one target comes next.                                             *)
LEMMA NextIsOne ==
  ASSUME EgressTypeOK, NEW e \in Egressers, NEW c \in Next1(e)
  PROVE  c \in Names /\ c \in job[e].todo /\ Next1(e) = {c}
<1>1. c \in Names /\ c \in job[e].todo BY JobTypes DEF Next1
<1>2. \A d \in Next1(e) : d \in Names /\ Rank[c] <= Rank[d] /\ Rank[d] <= Rank[c] BY <1>1, JobTypes DEF Next1
<1>3. \A d \in Next1(e) : Rank[c] = Rank[d] BY <1>1, <1>2, EgressAssumption
<1>4. \A d \in Next1(e) : d = c BY <1>1, <1>2, <1>3, EgressAssumption
<1> QED BY <1>1, <1>4

LEMMA ReserveTargetKeeps ==
  ASSUME DaemonTypeOK, EgressTypeOK, EgressInv, Enforcement, NEW e \in Egressers, ReserveTarget(e)
  PROVE  Keeps(e)
<1>1. PICK c \in Next1(e) :
        \/ /\ Reserved(EgressSlot(c), e) /\ EGo(e, "barrier")
           /\ job' = [job EXCEPT ![e].open = @ \cup {c}] /\ UNCHANGED refused
        \/ Conflict(EgressSlot(c)) /\ Close(e, {})
        \/ ReserveLost(EgressSlot(c), e) /\ Close(e, {})
  BY Zenon DEF ReserveTarget
<1>2. /\ c \in Names /\ c \in job[e].todo /\ Next1(e) = {c} /\ epc[e] = "reserve" /\ EgressSlot(c) \in Slots
  BY NextIsOne, SlotFacts DEF ReserveTarget
<1>3. Still BY <1>1 DEF ReserveTarget, Still, Reserved, Conflict, ReserveLost, daemon
<1>4. \A d \in Names : held'[EgressSlot(d)] = NoOne => held[EgressSlot(d)] = NoOne
  BY <1>1, <1>2, ActorFacts, SlotFacts DEF Reserved, Conflict, ReserveLost, daemon, DaemonTypeOK
<1>5. Shape(e) /\ job[e].tried = {} /\ job[e].unsure = {} BY <1>2 DEF Enforcement, Shape, Changes
<1>6. CASE Close(e, {})
  <2>1. box' = box BY <1>3 DEF Still
  <2>2. \A d \in job[e].open : Even(d)' /\ abandoned'[d] = Idle[d]
    BY <1>3, <1>5, StillFacts, JobTypes DEF Enforcement, Owned
  <2>3. Shape(e)' /\ \A d \in job'[e].open : Owned(e, d)' BY <1>6, <2>1, <2>2, CloseKeeps
  <2> QED BY <1>3, <1>4, <2>3, StillKeeps
<1>7. CASE /\ Reserved(EgressSlot(c), e) /\ EGo(e, "barrier")
           /\ job' = [job EXCEPT ![e].open = @ \cup {c}]
  <2>1. epc'[e] = "barrier" /\ box' = box /\ held[EgressSlot(c)] = NoOne
    BY <1>7 DEF EGo, EgressTypeOK, Reserved
  <2>2. /\ job'[e].kind = job[e].kind /\ job'[e].inst = job[e].inst /\ job'[e].todo = job[e].todo
        /\ job'[e].tried = {} /\ job'[e].found = job[e].found
        /\ job'[e].open = job[e].open \cup {c} /\ job'[e].unsure = {} /\ job'[e].policy = job[e].policy
    BY <1>5, <1>7, JobTypes DEF JobRecs
  <2>3. Targets(e)' = Targets(e) /\ Next1(e)' = Next1(e) BY <2>2 DEF Targets, Next1
  <2>4. \A d \in Names : Joined(e, d)' <=> Joined(e, d)
    BY <1>2, <2>1, <2>2, <2>3 DEF Joined, Acquiring
  <2>5. Shape(e)' BY <1>2, <1>5, <2>1, <2>2, <2>3, <2>4 DEF Shape, Changes
  <2>6. ASSUME NEW d \in Names, d \in job'[e].open PROVE Owned(e, d)'
    <3>1. Even(d) /\ abandoned[d] = Idle[d]
      <4>1. CASE d = c BY <2>1, <4>1 DEF Enforcement, Released
      <4>2. CASE d # c
        <5>1. d \in job[e].open BY <2>2, <2>6, <4>2
        <5> QED BY <1>5, <5>1 DEF Enforcement, Owned
      <4> QED BY <4>1, <4>2
    <3>2. Joined(e, d)' /\ job'[e].inst[d] # box'[d].starts => ~Filtered(d, table[d])' /\ ~Filtered(d, told[d])'
      <4>1. CASE d = c BY <1>2, <2>4, <4>1 DEF Joined, Acquiring
      <4>2. CASE d # c
        <5>1. Owned(e, d) BY <2>2, <2>6, <4>2 DEF Enforcement
        <5> QED BY <1>3, <2>1, <2>2, <2>4, <5>1, StillFacts DEF Owned, Filtered
      <4> QED BY <4>1, <4>2
    <3>3. Even(d)' /\ abandoned'[d] = Idle[d] BY <1>3, <3>1, StillFacts
    <3>4. ~Snapped(e, d)' BY <2>1 DEF Snapped, Changes
    <3> QED BY <2>1, <3>2, <3>3, <3>4 DEF Owned, Changes, Idle
  <2>7. \A d \in job'[e].open : Owned(e, d)' BY <2>2, <2>6, <1>2, JobTypes
  <2> QED BY <1>3, <1>4, <2>5, <2>7, StillKeeps
<1> QED BY <1>1, <1>6, <1>7

LEMMA NoPruneKeeps ==
  ASSUME DaemonTypeOK, EgressTypeOK, Enforcement, NEW e \in Egressers, NoPrune(e)
  PROVE  Keeps(e)
<1>1. Still /\ held' = held /\ epc[e] = "barrier" BY DEF NoPrune, Still, Glitch, daemon, records
<1>2. Shape(e) /\ job[e].tried = {} BY <1>1 DEF Enforcement, Shape, Changes
<1>3. CASE Close(e, {}) BY <1>1, <1>2, <1>3, StillClose
<1>4. CASE EGo(e, "join") /\ UNCHANGED job
  <2>1. epc'[e] = "join" /\ job'[e] = job[e] /\ box' = box BY <1>1, <1>4 DEF EGo, EgressTypeOK, Still
  <2>2. Targets(e)' = Targets(e) /\ Next1(e)' = Next1(e) BY <2>1 DEF Targets, Next1
  <2>3. \A d \in Names : Joined(e, d)' <=> Joined(e, d) BY <1>1, <2>1, <2>2 DEF Joined, Acquiring
  <2>4. Shape(e)' BY <1>1, <1>2, <2>1, <2>2, <2>3 DEF Shape, Changes
  <2>5. ASSUME NEW d \in job'[e].open PROVE Owned(e, d)'
    <3>1. Owned(e, d) /\ d \in Names BY <2>1, <2>5, JobTypes DEF Enforcement
    <3>2. ~Snapped(e, d)' BY <2>1 DEF Snapped, Changes
    <3>3. /\ Even(d)' <=> Even(d)
          /\ Joined(e, d)' <=> Joined(e, d)
          /\ \A n : Filtered(d, n)' <=> Filtered(d, n)
          /\ table'[d] = table[d] /\ told'[d] = told[d] /\ abandoned'[d] = abandoned[d]
      BY <1>1, <2>3, <3>1, StillFacts
    <3> QED BY <2>1, <2>2, <3>1, <3>2, <3>3 DEF Owned, Changes, Idle, Filtered
  <2> QED BY <1>1, <2>4, <2>5, StillKeeps DEF EgressSlot
<1> QED BY <1>3, <1>4 DEF NoPrune

LEMMA JoinKeeps ==
  ASSUME DaemonTypeOK, EgressTypeOK, Enforcement, NEW e \in Egressers, Join(e)
  PROVE  Keeps(e)
<1>1. Still /\ held' = held /\ epc[e] = "join" BY DEF Join, Still, CheckFails, Glitch, daemon, records
<1>2. Shape(e) /\ job[e].tried = {} /\ job[e].unsure = {} BY <1>1 DEF Enforcement, Shape, Changes
<1>3. PICK c \in Next1(e) :
       \/ /\ Same(e, c)
          /\ LET left == job[e].todo \ {c}
             IN /\ EGo(e, IF left = {} THEN "snapshot" ELSE "reserve")
                /\ job' = [job EXCEPT ![e].todo = IF left = {} THEN Targets(e) ELSE left]
       \/ Close(e, {}) \/ Close(e, {c})
  BY Zenon DEF Join
<1>4. c \in Names /\ c \in job[e].todo /\ c \in job[e].open BY <1>1, <1>2, NextIsOne DEF Shape
<1>5. CASE Close(e, {}) \/ Close(e, {c}) BY <1>1, <1>2, <1>4, <1>5, StillClose
<1> DEFINE left == job[e].todo \ {c}
           S    == IF left = {} THEN Targets(e) ELSE left
           step == IF left = {} THEN "snapshot" ELSE "reserve"
<1>6. CASE Same(e, c) /\ EGo(e, step) /\ job' = [job EXCEPT ![e].todo = S]
  <2>1. epc'[e] = step /\ box' = box BY <1>1, <1>6 DEF EGo, EgressTypeOK, Still
  <2>2. /\ job'[e].kind = job[e].kind /\ job'[e].inst = job[e].inst /\ job'[e].todo = S
        /\ job'[e].tried = {} /\ job'[e].found = job[e].found
        /\ job'[e].open = job[e].open /\ job'[e].unsure = {} /\ job'[e].policy = job[e].policy
    BY <1>2, <1>6, JobTypes DEF JobRecs
  <2>3. Targets(e)' = Targets(e) BY <2>2 DEF Targets
  <2>4. job[e].inst[c] = box[c].starts BY <1>6 DEF Same
  <2>5. \A d \in Names : Joined(e, d)' => Joined(e, d) \/ d = c
    BY <1>1, <2>1, <2>2, <2>3 DEF Joined, Acquiring
  <2>6. step \notin {"policies", "rollback", "barrier", "join", "idle", "close", "done"} \cup Changes
    BY DEF Changes
  <2>7. S \subseteq Targets(e) BY <1>2 DEF Shape
  <2>8. \A d \in Names : ~Snapped(e, d)'
    BY <2>1, <2>2, <2>3, <2>6 DEF Snapped
  <2> HIDE DEF S, step, left
  <2>9. Shape(e)'
    BY <1>2, <1>4, <2>1, <2>2, <2>3, <2>5, <2>6, <2>7 DEF Shape, Changes
  <2>10. ASSUME NEW d \in job'[e].open PROVE Owned(e, d)'
    <3>1. Owned(e, d) /\ d \in Names BY <2>2, <2>10, JobTypes DEF Enforcement
    <3>2. Even(d)' /\ abandoned'[d] = Idle[d] BY <1>1, <1>2, <3>1, StillFacts DEF Owned
    <3>3. Joined(e, d)' /\ job'[e].inst[d] # box'[d].starts => ~Filtered(d, table[d])' /\ ~Filtered(d, told[d])'
      BY <1>1, <2>1, <2>2, <2>4, <2>5, <3>1, StillFacts DEF Owned, Filtered
    <3> QED BY <2>1, <2>2, <2>6, <2>8, <3>1, <3>2, <3>3 DEF Owned, Idle
  <2> QED BY <1>1, <2>9, <2>10, StillKeeps DEF EgressSlot
<1> QED BY <1>3, <1>5, <1>6

LEMMA SnapshotKeeps ==
  ASSUME DaemonTypeOK, EgressTypeOK, Enforcement, NEW e \in Egressers, Snapshot(e)
  PROVE  Keeps(e)
<1>1. Still /\ held' = held /\ epc[e] = "snapshot"
  BY DEF Snapshot, Still, CheckFails, Glitch, daemon, records
<1>2. Shape(e) /\ job[e].tried = {} /\ job[e].unsure = {} BY <1>1 DEF Enforcement, Shape, Changes
<1>3. PICK c \in Next1(e) :
       LET left  == job[e].todo \ {c}
           taken == [job EXCEPT ![e].todo = IF left = {} THEN Targets(e) ELSE left,
                                ![e].found[c] = IF table[c] = box[c].starts THEN table[c] ELSE 0]
       IN \/ /\ Same(e, c) /\ job[e].kind = "apply" /\ job' = taken
             /\ EGo(e, IF left = {} THEN "mutate" ELSE "snapshot")
          \/ job[e].kind = "remove" /\ EGo(e, "policies") /\ UNCHANGED job
          \/ Close(e, {}) \/ Close(e, {c})
  BY Zenon DEF Snapshot
<1>4. c \in Names /\ c \in job[e].todo /\ c \in Targets(e) /\ c \in job[e].open
  BY <1>1, <1>2, NextIsOne DEF Shape, Joined, Acquiring
<1>5. CASE Close(e, {}) \/ Close(e, {c}) BY <1>1, <1>2, <1>4, <1>5, StillClose
<1>6. CASE job[e].kind = "remove" /\ EGo(e, "policies") /\ UNCHANGED job
  <2>1. epc'[e] = "policies" /\ job'[e] = job[e] /\ box' = box
    BY <1>1, <1>6 DEF EGo, EgressTypeOK, Still
  <2>2. Targets(e)' = Targets(e) /\ Next1(e)' = Next1(e) BY <2>1 DEF Targets, Next1
  <2>3. \A d \in Names : Joined(e, d)' <=> Joined(e, d) BY <1>1, <2>1, <2>2 DEF Joined, Acquiring
  <2>4. Targets(e) \subseteq job[e].todo BY <1>2, <1>4, <1>6 DEF Shape
  <2>5. Shape(e)' BY <1>1, <1>2, <1>6, <2>1, <2>2, <2>3, <2>4 DEF Shape, Changes
  <2>6. ASSUME NEW d \in job'[e].open PROVE Owned(e, d)'
    <3>1. Owned(e, d) /\ d \in Names BY <2>1, <2>6, JobTypes DEF Enforcement
    <3>2. ~Snapped(e, d)' BY <1>6, <2>1 DEF Snapped
    <3>3. /\ Even(d)' <=> Even(d)
          /\ Joined(e, d)' <=> Joined(e, d)
          /\ \A n : Filtered(d, n)' <=> Filtered(d, n)
          /\ table'[d] = table[d] /\ told'[d] = told[d] /\ abandoned'[d] = abandoned[d]
      BY <1>1, <2>3, <3>1, StillFacts
    <3> QED BY <2>1, <2>2, <3>1, <3>2, <3>3 DEF Owned, Changes, Idle, Filtered
  <2> QED BY <1>1, <2>5, <2>6, StillKeeps DEF EgressSlot
<1> DEFINE left == job[e].todo \ {c}
           S    == IF left = {} THEN Targets(e) ELSE left
           n    == IF table[c] = box[c].starts THEN table[c] ELSE 0
           step == IF left = {} THEN "mutate" ELSE "snapshot"
<1>7. CASE /\ Same(e, c) /\ job[e].kind = "apply" /\ EGo(e, step)
           /\ job' = [job EXCEPT ![e].todo = S, ![e].found[c] = n]
  <2>1. epc'[e] = step /\ box' = box BY <1>1, <1>7 DEF EGo, EgressTypeOK, Still
  <2>2. /\ job'[e].kind = "apply" /\ job'[e].inst = job[e].inst /\ job'[e].todo = S
        /\ job'[e].tried = {} /\ job'[e].found = [job[e].found EXCEPT ![c] = n]
        /\ job'[e].open = job[e].open /\ job'[e].unsure = {} /\ job'[e].policy = job[e].policy
    <3> HIDE DEF S, n
    <3> QED BY <1>2, <1>7, JobTypes DEF JobRecs
  <2>3. Targets(e)' = Targets(e) BY <2>2 DEF Targets
  <2>4. job[e].inst[c] = box[c].starts /\ job[e].inst[c] # 0 BY <1>4, <1>7 DEF Same, Targets
  <2>5. \A d \in Names : Joined(e, d)' <=> Joined(e, d)
    BY <1>1, <2>1, <2>3 DEF Joined, Acquiring
  <2>6. S \subseteq Targets(e) /\ (step \in Changes => S = Targets(e)) BY <1>2 DEF Shape, Changes
  <2>7. step \notin {"policies", "rollback", "barrier", "join", "idle", "close", "done", "recheck"}
    OBVIOUS
  <2>8. \A d \in Names : d # c => job'[e].found[d] = job[e].found[d] BY <2>2, JobTypes
  <2>9. job'[e].found[c] = n BY <1>4, <2>2, JobTypes
  <2>10. n \in {0, job[e].inst[c]} /\ (Filtered(c, n) <=> Filtered(c, table[c])) BY <2>4 DEF Filtered
  <2>11. \A d \in Names : Snapped(e, d)' => Snapped(e, d) \/ d = c
    BY <1>1, <1>7, <2>1, <2>2, <2>3 DEF Snapped, Changes
  <2> HIDE DEF S, n, step, left
  <2>12. \A d \in Names : job'[e].inst[d] <= box'[d].starts /\ job'[e].found[d] \in {0, job'[e].inst[d]}
    BY <1>2, <2>1, <2>2, <2>8, <2>9, <2>10 DEF Shape
  <2>13. Shape(e)'
    <3>1. \A d \in Names : Joined(e, d)' => d \in job'[e].open BY <1>2, <2>2, <2>5 DEF Shape
    <3>2. job'[e].policy \in Policies /\ Targets(e)' \subseteq Covers[job'[e].policy]
      BY <1>2, <1>7, <2>2, <2>3 DEF Shape
    <3> QED BY <2>1, <2>2, <2>3, <2>6, <2>7, <2>12, <3>1, <3>2 DEF Shape, Changes
  <2>14. ASSUME NEW d \in job'[e].open PROVE Owned(e, d)'
    <3>1. Owned(e, d) /\ d \in Names BY <2>2, <2>14, JobTypes DEF Enforcement
    <3>2. /\ Even(d) /\ abandoned[d] = Idle[d]
          /\ Promised(d) => Filtered(d, table[d])
      BY <1>2, <3>1 DEF Owned, Enforcement, Honoured
    <3>3. /\ (Even(d)' <=> Even(d)) /\ (Promised(d)' <=> Promised(d))
          /\ Joined(e, d)' <=> Joined(e, d)
          /\ \A m : Filtered(d, m)' <=> Filtered(d, m)
          /\ table'[d] = table[d] /\ told'[d] = told[d] /\ abandoned'[d] = abandoned[d]
      BY <1>1, <2>5, <3>1, StillFacts
    <3>4. Snapped(e, d)' /\ job'[e].inst[d] = box'[d].starts =>
            /\ Filtered(d, told[d])' <=> Filtered(d, job[e].found[d])'
            /\ Promised(d)' => Filtered(d, job[e].found[d])'
      <4>1. CASE d = c BY <2>9, <2>10, <3>2, <3>3, <4>1 DEF Even, Filtered
      <4>2. CASE d # c BY <2>1, <2>2, <2>8, <2>11, <3>1, <3>3, <4>2 DEF Owned, Filtered
      <4> QED BY <4>1, <4>2
    <3>5. Joined(e, d)' /\ job'[e].inst[d] # box'[d].starts => ~Filtered(d, table[d])' /\ ~Filtered(d, told[d])'
      BY <2>1, <2>2, <3>1, <3>3 DEF Owned, Filtered
    <3>6. Even(d)' /\ abandoned'[d] = Idle[d] BY <3>2, <3>3
    <3> QED BY <2>2, <3>4, <3>5, <3>6 DEF Owned, Idle
  <2> QED BY <1>1, <2>13, <2>14, StillKeeps DEF EgressSlot
<1> QED BY <1>3, <1>5, <1>6, <1>7

(* A policy that ends without another one promises nothing any more.       *)
LEMMA RemainingPoliciesKeeps ==
  ASSUME DaemonTypeOK, EgressTypeOK, Enforcement, NEW e \in Egressers, RemainingPolicies(e)
  PROVE  Keeps(e)
<1>1. /\ held' = held /\ box' = box /\ epc[e] = "policies" /\ table' = table /\ told' = told
      /\ abandoned' = abandoned /\ active' = active
  BY DEF RemainingPolicies, daemon, ruleset
<1>2. Shape(e) /\ job[e].tried = {} /\ job[e].unsure = {} /\ job[e].kind = "remove"
  BY <1>1 DEF Enforcement, Shape, Changes
<1>3. PICK c \in Targets(e) :
       \/ Close(e, {}) /\ UNCHANGED reported
       \/ /\ Remaining(e, c) = {} /\ EGo(e, "mutate") /\ UNCHANGED job
          /\ reported' = [reported EXCEPT ![job[e].policy][c] = 0]
  BY Zenon DEF RemainingPolicies
<1>4. CASE Close(e, {}) /\ UNCHANGED reported
  BY <1>1, <1>2, <1>4, StillClose DEF Still, ruleset
<1>5. CASE /\ Remaining(e, c) = {} /\ EGo(e, "mutate") /\ UNCHANGED job
           /\ reported' = [reported EXCEPT ![job[e].policy][c] = 0]
  <2>1. epc'[e] = "mutate" /\ job'[e] = job[e] BY <1>5 DEF EGo, EgressTypeOK
  <2>2. Targets(e)' = Targets(e) /\ c \in Names BY <2>1 DEF Targets
  <2>3. \A d \in Names : Joined(e, d)' <=> Joined(e, d) BY <1>1, <2>1, <2>2 DEF Joined, Acquiring
  <2>4. Shape(e)' BY <1>1, <1>2, <2>1, <2>2, <2>3 DEF Shape, Changes
  <2>5. \A q \in Policies, d \in Names : reported'[q][d] \in {reported[q][d], 0}
    BY <1>5, <2>2 DEF EgressTypeOK
  <2>6. \A d \in Names : Untouched(d) BY <1>1, <2>5 DEF Untouched
  <2>7. ~Promised(c)'
    <3> SUFFICES ASSUME NEW q \in Policies, active[q], Filtered(c, reported'[q][c]) PROVE FALSE
      BY <1>1 DEF Promised, Filtered
    <3>1. reported'[q][c] # 0 BY DEF Filtered
    <3>2. reported'[q][c] = reported[q][c] BY <2>2, <2>5, <3>1
    <3>3. c \in Covers[q] BY <2>2, <3>1, <3>2 DEF Enforcement, Honoured
    <3>4. q = job[e].policy BY <1>5, <3>3 DEF Remaining
    <3> QED BY <1>5, <2>2, <3>1, <3>4 DEF EgressTypeOK
  <2>8. \A d \in Names : /\ Dated(d)' /\ Honoured(d)' /\ (Even(d)' <=> Even(d))
                         /\ \A m : Filtered(d, m)' <=> Filtered(d, m)
    BY <1>1, <2>6, UntouchedFacts DEF Enforcement
  <2>9. ASSUME NEW d \in job'[e].open PROVE Owned(e, d)'
    <3>1. Owned(e, d) /\ d \in Names BY <2>1, <2>9, JobTypes DEF Enforcement
    <3>2. ~Snapped(e, d)' BY <1>2, <2>1 DEF Snapped
    <3>3. d \in Targets(e) => d = c BY <1>2 DEF Shape
    <3>4. Even(d)' /\ abandoned'[d] = Idle[d] BY <1>1, <1>2, <2>8, <3>1 DEF Owned
    <3>5. Joined(e, d)' /\ job'[e].inst[d] # box'[d].starts => ~Filtered(d, table[d])' /\ ~Filtered(d, told[d])'
      BY <1>1, <2>1, <2>3, <3>1 DEF Owned, Filtered
    <3> QED BY <1>2, <2>1, <2>2, <2>7, <3>2, <3>3, <3>4, <3>5 DEF Owned, Changes, Idle
  <2> QED BY <1>1, <2>1, <2>4, <2>6, <2>8, <2>9, JobTypes DEF Keeps, EgressSlot
<1> QED BY <1>3, <1>4, <1>5

(* What a command does to the table of its own container.                  *)
Becomes(c, command) ==
  IF command[2] # box[c].starts THEN table[c]
  ELSE CASE command[1] = "apply"   -> command[2]
         [] command[1] = "remove"  -> 0
         [] command[1] = "restore" -> command[3]
         [] OTHER                  -> table[c]

LEMMA RuledFacts ==
  ASSUME EgressTypeOK, NEW c \in Names, NEW command
  PROVE  /\ Ruled(c, command)[c] = Becomes(c, command)
         /\ \A d \in Names : d # c => Ruled(c, command)[d] = table[d]
<1>1. table \in [Names -> Nat] BY DEF EgressTypeOK
<1>2. CASE command[2] # box[c].starts BY <1>1, <1>2 DEF Ruled, Becomes
<1>3. CASE command[2] = box[c].starts /\ command[1] = "apply" BY <1>1, <1>3 DEF Ruled, Becomes
<1>4. CASE command[2] = box[c].starts /\ command[1] = "remove" BY <1>1, <1>4 DEF Ruled, Becomes
<1>5. CASE command[2] = box[c].starts /\ command[1] = "restore" BY <1>1, <1>5 DEF Ruled, Becomes
<1>6. CASE command[2] = box[c].starts /\ command[1] \notin {"apply", "remove", "restore"}
  BY <1>1, <1>6 DEF Ruled, Becomes
<1> QED BY <1>2, <1>3, <1>4, <1>5, <1>6

LEMMA CommandFacts ==
  ASSUME EgressTypeOK, NEW c \in Names, NEW command,
         Ran(c, command) \/ Exited \/ Unknown(c, command)
  PROVE  /\ box' = box /\ held' = held
         /\ \A d \in Names : d # c => table'[d] = table[d] /\ abandoned'[d] = abandoned[d]
         /\ table'[c] \in {table[c], Becomes(c, command)}
         /\ abandoned'[c] \in {abandoned[c], command}
         /\ Ran(c, command) => table'[c] = Becomes(c, command) /\ abandoned'[c] = abandoned[c]
         /\ Exited => table'[c] = table[c] /\ abandoned'[c] = abandoned[c]
<1>1. box' = box /\ held' = held BY DEF Ran, Exited, Unknown, Glitch, daemon
<1>2. CASE Ran(c, command) /\ ~Exited BY <1>1, <1>2, RuledFacts DEF Ran
<1>3. CASE Exited
  <2>1. table' = table /\ abandoned' = abandoned /\ faults' # faults
    BY <1>3 DEF Exited, ruleset, Glitch, Fault
  <2>2. ~Ran(c, command) BY <2>1 DEF Ran, daemon
  <2> QED BY <1>1, <2>1, <2>2
<1>4. CASE Unknown(c, command) /\ ~Ran(c, command) /\ ~Exited
  BY <1>1, <1>4, RuledFacts DEF Unknown, ruleset, EgressTypeOK
<1> QED BY <1>2, <1>3, <1>4

(* Whoever is not the target of the command sees nothing of it.            *)
LEMMA CommandSpares ==
  ASSUME EgressTypeOK, DaemonTypeOK, Enforcement, NEW c \in Names, NEW command,
         Ran(c, command) \/ Exited \/ Unknown(c, command),
         UNCHANGED <<active, reported>>,
         \A d \in Names : d # c => told'[d] = told[d]
  PROVE  \A d \in Names : d # c =>
           /\ Untouched(d) /\ Dated(d)' /\ Honoured(d)'
           /\ Even(d)' <=> Even(d)
           /\ Promised(d)' => Promised(d)
           /\ \A n : Filtered(d, n)' <=> Filtered(d, n)
<1> SUFFICES ASSUME NEW d \in Names, d # c
             PROVE  /\ Untouched(d) /\ Dated(d)' /\ Honoured(d)'
                    /\ Even(d)' <=> Even(d)
                    /\ Promised(d)' => Promised(d)
                    /\ \A n : Filtered(d, n)' <=> Filtered(d, n)
  OBVIOUS
<1>1. box' = box /\ Untouched(d) BY CommandFacts DEF Untouched
<1> QED BY <1>1, UntouchedFacts DEF Enforcement

(* What an operation commands while it works on a target keeps what was    *)
(* promised, whether or not anybody waits for it.                          *)
LEMMA TargetKept ==
  ASSUME EgressTypeOK, DaemonTypeOK, Enforcement, NEW c \in Names, NEW kind, NEW n \in Nat, NEW m \in {0, n},
         Ran(c, <<kind, n, m>>) \/ Exited \/ Unknown(c, <<kind, n, m>>),
         UNCHANGED <<active, reported>>, told'[c] \in {told[c], 0},
         n <= box[c].starts, kind \in {"apply", "remove", "restore"}, n # 0,
         kind = "remove" /\ n = box[c].starts => ~Promised(c),
         kind = "restore" /\ n = box[c].starts => (Promised(c) => Filtered(c, m))
  PROVE  Dated(c)' /\ Honoured(c)' /\ (Promised(c)' => Promised(c))
<1> DEFINE command == <<kind, n, m>>
<1>1. command[1] = kind /\ command[2] = n /\ command[3] = m OBVIOUS
<1>2. /\ box' = box /\ table'[c] \in {table[c], Becomes(c, command)}
      /\ abandoned'[c] \in {abandoned[c], command}
  BY CommandFacts
<1> HIDE DEF command
<1>3. table'[c] = table[c] \/ (n = box[c].starts /\ kind = "apply" /\ table'[c] = n)
      \/ (n = box[c].starts /\ kind = "remove" /\ table'[c] = 0)
      \/ (n = box[c].starts /\ kind = "restore" /\ table'[c] = m)
  BY <1>1, <1>2 DEF Becomes
<1>4. Dated(c) /\ Honoured(c) BY DEF Enforcement
<1>5. box[c].starts \in Nat BY EgressNumbers
<1>6. Dated(c)'
  <2>1. table'[c] <= box[c].starts /\ told'[c] <= box[c].starts BY <1>3, <1>4, <1>5 DEF Dated
  <2>2. abandoned'[c][2] <= box[c].starts /\ abandoned'[c][3] \in {0, abandoned'[c][2]}
    BY <1>1, <1>2, <1>4 DEF Dated
  <2> QED BY <1>2, <1>4, <2>1, <2>2 DEF Dated
<1>7. Promised(c)' <=> Promised(c) BY <1>2 DEF Promised, Filtered
<1>8. Promised(c) => Filtered(c, table'[c]) BY <1>3, <1>4 DEF Honoured, Filtered
<1>9. Promised(c) /\ Filtered(c, abandoned'[c][2]) =>
        /\ abandoned'[c][1] # "remove"
        /\ abandoned'[c][1] = "restore" => Filtered(c, abandoned'[c][3])
  BY <1>1, <1>2, <1>4 DEF Honoured, Filtered
<1>10. Honoured(c)' BY <1>2, <1>4, <1>7, <1>8, <1>9 DEF Honoured, Filtered
<1> QED BY <1>6, <1>7, <1>10

(* A command that ran, on the next target.                                 *)
LEMMA MutateRan ==
  ASSUME DaemonTypeOK, EgressTypeOK, Enforcement, NEW e \in Egressers, epc[e] = "mutate",
         NEW c \in Next1(e), UNCHANGED <<active, reported>>,
         Ran(c, <<job[e].kind, job[e].inst[c], 0>>), EGo(e, "recheck"),
         job' = [job EXCEPT ![e].tried = @ \cup {c}],
         told' = IF job[e].kind = "apply" THEN told ELSE [told EXCEPT ![c] = 0]
  PROVE  Keeps(e)
<1> DEFINE command == <<job[e].kind, job[e].inst[c], 0>>
<1>1. /\ c \in Names /\ Next1(e) = {c} /\ Shape(e) /\ job[e].unsure = {}
      /\ c \in Targets(e) /\ c \in job[e].open /\ job[e].kind \in {"apply", "remove"}
      /\ job[e].tried \subseteq Targets(e)
  BY NextIsOne DEF Enforcement, Shape, Changes, Joined, Acquiring
<1>2. /\ box' = box /\ held' = held
      /\ \A d \in Names : d # c => table'[d] = table[d] /\ abandoned'[d] = abandoned[d]
      /\ table'[c] = Becomes(c, command) /\ abandoned'[c] = abandoned[c]
  BY <1>1, CommandFacts
<1>3. /\ epc'[e] = "recheck"
      /\ job'[e].kind = job[e].kind /\ job'[e].inst = job[e].inst /\ job'[e].todo = job[e].todo
      /\ job'[e].tried = job[e].tried \cup {c} /\ job'[e].found = job[e].found
      /\ job'[e].open = job[e].open /\ job'[e].unsure = {} /\ job'[e].policy = job[e].policy
  BY <1>1, JobTypes DEF JobRecs, EGo, EgressTypeOK
<1>4. Targets(e)' = Targets(e) /\ Next1(e)' = Next1(e) BY <1>3 DEF Targets, Next1
<1>5. \A d \in Names : (Joined(e, d)' <=> Joined(e, d)) /\ (Snapped(e, d)' <=> Snapped(e, d))
  BY <1>3, <1>4 DEF Joined, Snapped, Acquiring, Changes
<1>6. Shape(e)' BY <1>1, <1>2, <1>3, <1>4, <1>5 DEF Shape, Changes
<1>7. /\ told'[c] = IF job[e].kind = "apply" THEN told[c] ELSE 0
      /\ \A d \in Names : d # c => told'[d] = told[d]
  BY <1>1 DEF EgressTypeOK
<1>8. Owned(e, c) /\ job[e].inst[c] # 0 /\ Joined(e, c) /\ Snapped(e, c) = (job[e].kind = "apply")
  BY <1>1 DEF Enforcement, Targets, Joined, Snapped, Acquiring, Changes
<1>9. job[e].inst[c] \in Nat /\ box[c].starts \in Nat /\ job[e].inst[c] <= box[c].starts
  BY <1>1, EgressNumbers DEF Shape
<1>10. \A d \in Names : d # c =>
           /\ Untouched(d) /\ Dated(d)' /\ Honoured(d)'
           /\ Even(d)' <=> Even(d)
           /\ Promised(d)' => Promised(d)
           /\ \A n : Filtered(d, n)' <=> Filtered(d, n)
  BY <1>1, <1>7, CommandSpares
<1>11. Dated(c)' /\ Honoured(c)' /\ (Promised(c)' => Promised(c))
  <2>1. job[e].kind = "remove" /\ job[e].inst[c] = box[c].starts => ~Promised(c)
    BY <1>1, <1>8 DEF Owned, Changes
  <2> HIDE DEF Next1
  <2> QED BY <1>1, <1>7, <1>8, <1>9, <2>1, TargetKept
<1>12. Owned(e, c)'
  <2>1. table'[c] = IF job[e].inst[c] # box[c].starts THEN table[c]
                    ELSE IF job[e].kind = "apply" THEN job[e].inst[c] ELSE 0
    BY <1>1, <1>2 DEF Becomes
  <2>2. abandoned'[c] = Idle[c] BY <1>1, <1>2, <1>8 DEF Owned
  <2>3. Joined(e, c)' /\ job'[e].inst[c] # box'[c].starts =>
          ~Filtered(c, table[c])' /\ ~Filtered(c, told[c])'
    BY <1>2, <1>3, <1>5, <1>7, <1>8, <2>1 DEF Owned, Filtered
  <2>4. Snapped(e, c)' /\ job'[e].inst[c] = box'[c].starts =>
            /\ Filtered(c, told[c])' <=> Filtered(c, job[e].found[c])'
            /\ Promised(c)' => Filtered(c, job[e].found[c])'
    <3>1. CASE job[e].kind = "apply"
      BY <1>2, <1>3, <1>5, <1>7, <1>8, <1>11, <3>1 DEF Owned, Filtered
    <3>2. CASE job[e].kind # "apply" BY <1>3, <3>2 DEF Snapped
    <3> QED BY <3>1, <3>2
  <2>5. job[e].kind = "apply" /\ job'[e].inst[c] = box'[c].starts => Filtered(c, table[c])'
    BY <1>2, <1>3, <1>8, <2>1 DEF Filtered
  <2>6. job[e].kind = "remove" /\ job'[e].inst[c] = box'[c].starts => ~Promised(c)'
    BY <1>1, <1>2, <1>3, <1>8, <1>11 DEF Owned, Changes
  <2>7. job[e].kind = "remove" => Even(c)'
    BY <1>2, <1>7, <1>8, <2>1 DEF Owned, Even, Filtered
  <2>8. c \in job'[e].tried BY <1>3
  <2> QED BY <1>1, <1>3, <2>2, <2>3, <2>4, <2>5, <2>6, <2>7, <2>8 DEF Owned, Idle
<1>13. ASSUME NEW d \in job[e].open, d # c PROVE Owned(e, d)'
  <2>1. d \in Names /\ Owned(e, d) BY JobTypes DEF Enforcement
  <2>2. d \in job'[e].tried <=> d \in job[e].tried BY <1>3, <1>13
  <2>3. /\ table'[d] = table[d] /\ told'[d] = told[d] /\ abandoned'[d] = abandoned[d]
        /\ Even(d)' <=> Even(d)
        /\ Promised(d)' => Promised(d)
        /\ \A n : Filtered(d, n)' <=> Filtered(d, n)
        /\ Joined(e, d)' <=> Joined(e, d)
        /\ Snapped(e, d)' <=> Snapped(e, d)
    BY <1>2, <1>5, <1>7, <1>10, <1>13, <2>1
  <2> QED BY <1>1, <1>2, <1>3, <1>4, <2>1, <2>2, <2>3 DEF Owned, Changes, Idle, Filtered
<1>14. \A d \in job[e].open : Dated(d)' /\ Honoured(d)' BY <1>10, <1>11, JobTypes
<1>15. \A d \in Names \ job[e].open : Untouched(d) BY <1>1, <1>10
<1>16. \A d \in job'[e].open : Owned(e, d)' BY <1>3, <1>12, <1>13
<1> QED BY <1>2, <1>6, <1>14, <1>15, <1>16 DEF Keeps, EgressSlot

(* A command that failed, or that nobody knows the outcome of.             *)
LEMMA MutateFailed ==
  ASSUME DaemonTypeOK, EgressTypeOK, Enforcement, NEW e \in Egressers, epc[e] = "mutate",
         NEW c \in Next1(e), UNCHANGED <<active, reported, told>>,
         \/ Exited /\ Fallback(e, {c}, {})
         \/ Unknown(c, <<job[e].kind, job[e].inst[c], 0>>) /\ Fallback(e, {c}, {c})
  PROVE  Keeps(e)
<1> DEFINE command == <<job[e].kind, job[e].inst[c], 0>>
<1>1. /\ c \in Names /\ Next1(e) = {c} /\ Shape(e) /\ job[e].unsure = {}
      /\ c \in Targets(e) /\ c \in job[e].open /\ job[e].kind \in {"apply", "remove"}
  BY NextIsOne DEF Enforcement, Shape, Changes, Joined, Acquiring
<1>2. /\ box' = box /\ held' = held
      /\ \A d \in Names : d # c => table'[d] = table[d] /\ abandoned'[d] = abandoned[d]
      /\ table'[c] \in {table[c], Becomes(c, command)}
      /\ Exited => table'[c] = table[c] /\ abandoned'[c] = abandoned[c]
  BY <1>1, CommandFacts
<1>3. Owned(e, c) /\ job[e].inst[c] # 0
  BY <1>1 DEF Enforcement, Targets
<1>4. job[e].inst[c] \in Nat /\ job[e].inst[c] <= box[c].starts
  BY <1>1, EgressNumbers DEF Shape
<1>5. \A d \in Names : d # c =>
           /\ Untouched(d) /\ Dated(d)' /\ Honoured(d)'
           /\ Even(d)' <=> Even(d)
           /\ Promised(d)' => Promised(d)
  BY <1>1, CommandSpares
<1>6. Dated(c)' /\ Honoured(c)' /\ (Promised(c)' => Promised(c))
  <2>1. job[e].kind = "remove" /\ job[e].inst[c] = box[c].starts => ~Promised(c)
    BY <1>1, <1>3 DEF Owned, Changes
  <2> HIDE DEF Next1
  <2> QED BY <1>1, <1>3, <1>4, <2>1, TargetKept
<1>7. ASSUME NEW d \in job[e].open
      PROVE  /\ job[e].inst[d] # box[d].starts => table'[d] = table[d]
             /\ told'[d] = told[d] /\ (Promised(d)' => Promised(d))
             /\ d # c => (Even(d)' <=> Even(d)) /\ abandoned'[d] = abandoned[d]
             /\ Exited => (Even(d)' <=> Even(d)) /\ abandoned'[d] = abandoned[d]
             /\ abandoned'[d] = abandoned[d] \/ abandoned'[d][2] = job[e].inst[d]
             /\ Owned(e, d)
  <2>1. d \in Names /\ Owned(e, d) BY JobTypes DEF Enforcement
  <2>2. job[e].inst[d] # box[d].starts => table'[d] = table[d]
    BY <1>2, <2>1 DEF Becomes
  <2>3. Exited => (Even(d)' <=> Even(d)) /\ abandoned'[d] = abandoned[d]
    BY <1>2, <1>5, <2>1 DEF Even, Filtered
  <2>4. abandoned'[d] = abandoned[d] \/ abandoned'[d][2] = job[e].inst[d]
    <3>1. abandoned'[c] \in {abandoned[c], command} /\ command[2] = job[e].inst[c] BY <1>1, CommandFacts
    <3> QED BY <1>2, <2>1, <3>1
  <2> QED BY <1>2, <1>5, <1>6, <2>1, <2>2, <2>3, <2>4
<1>8. {c} \in SUBSET Targets(e) /\ {} \in SUBSET {c} /\ {c} \in SUBSET {c} /\ epc[e] \in Changes
  BY <1>1 DEF Changes
<1>9. Shape(e)' /\ job'[e].open = job[e].open /\ \A d \in job'[e].open : Owned(e, d)'
  <2>1. CASE Exited /\ Fallback(e, {c}, {})
    <3>1. \A d \in job[e].open :
           /\ Even(d)' \/ (job[e].kind = "apply" /\ d \in job[e].tried \cup {c})
           /\ abandoned'[d] = Idle[d]
      BY <1>1, <1>7, <2>1 DEF Owned
    <3> QED BY <1>2, <1>7, <1>8, <2>1, <3>1, FallbackKeeps
  <2>2. CASE Fallback(e, {c}, {c})
    <3>1. \A d \in job[e].open : d # c =>
           /\ Even(d)' \/ (job[e].kind = "apply" /\ d \in job[e].tried \cup {c})
           /\ abandoned'[d] = Idle[d]
      BY <1>1, <1>7 DEF Owned
    <3>2. abandoned'[c] = Idle[c] \/ abandoned'[c][2] = job[e].inst[c]
      BY <1>1, <1>3, <1>7 DEF Owned
    <3> QED BY <1>2, <1>7, <1>8, <2>2, <3>1, <3>2, FallbackKeeps
  <2> QED BY <2>1, <2>2
<1>10. \A d \in job[e].open : Dated(d)' /\ Honoured(d)' BY <1>5, <1>6, JobTypes
<1>11. \A d \in Names \ job[e].open : Untouched(d) BY <1>1, <1>5
<1> QED BY <1>2, <1>9, <1>10, <1>11 DEF Keeps, EgressSlot

LEMMA MutateKeeps ==
  ASSUME DaemonTypeOK, EgressTypeOK, Enforcement, NEW e \in Egressers, Mutate(e)
  PROVE  Keeps(e)
<1>1. epc[e] = "mutate" /\ UNCHANGED <<active, reported>> /\ epc[e] \in Changes BY DEF Mutate, Changes
<1>2. PICK c \in Next1(e) :
        \/ Fallback(e, {}, {}) /\ UNCHANGED <<ruleset, told, daemon>>
        \/ /\ Ran(c, <<job[e].kind, job[e].inst[c], 0>>) /\ EGo(e, "recheck")
           /\ job' = [job EXCEPT ![e].tried = @ \cup {c}]
           /\ told' = IF job[e].kind = "apply" THEN told ELSE [told EXCEPT ![c] = 0]
        \/ Exited /\ Fallback(e, {c}, {}) /\ UNCHANGED told
        \/ Unknown(c, <<job[e].kind, job[e].inst[c], 0>>) /\ Fallback(e, {c}, {c}) /\ UNCHANGED told
  BY Zenon DEF Mutate
<1>3. CASE Fallback(e, {}, {}) /\ UNCHANGED <<ruleset, told, daemon>>
  <2>1. Still /\ held' = held /\ box' = box BY <1>1, <1>3 DEF Still, daemon
  <2>2. ASSUME NEW d \in job[e].open
        PROVE  /\ Even(d)' \/ (job[e].kind = "apply" /\ d \in job[e].tried \cup {})
               /\ abandoned'[d] = Idle[d] /\ table'[d] = table[d] /\ told'[d] = told[d]
               /\ Promised(d)' => Promised(d)
    <3>1. d \in Names /\ Owned(e, d) /\ Shape(e) BY JobTypes DEF Enforcement
    <3>2. job[e].unsure = {} /\ job[e].kind \in {"apply", "remove"} BY <1>1, <3>1 DEF Shape, Changes
    <3> QED BY <2>1, <3>1, <3>2, StillFacts DEF Owned
  <2>3. {} \in SUBSET Targets(e) /\ {} \in SUBSET {} OBVIOUS
  <2>4. Shape(e)' /\ job'[e].open = job[e].open /\ \A d \in job'[e].open : Owned(e, d)'
    BY <1>1, <1>3, <2>1, <2>2, <2>3, FallbackKeeps
  <2> QED BY <2>1, <2>4, StillKeeps DEF EgressSlot
<1> HIDE DEF Next1
<1>4. CASE /\ Ran(c, <<job[e].kind, job[e].inst[c], 0>>) /\ EGo(e, "recheck")
           /\ job' = [job EXCEPT ![e].tried = @ \cup {c}]
           /\ told' = IF job[e].kind = "apply" THEN told ELSE [told EXCEPT ![c] = 0]
  BY <1>1, <1>4, MutateRan
<1>5. CASE \/ Exited /\ Fallback(e, {c}, {}) /\ UNCHANGED told
           \/ Unknown(c, <<job[e].kind, job[e].inst[c], 0>>) /\ Fallback(e, {c}, {c}) /\ UNCHANGED told
  BY <1>1, <1>5, MutateFailed
<1> QED BY <1>2, <1>3, <1>4, <1>5

(* Every target was attempted and checked: now it is what callers are told.*)
LEMMA RecheckSucceeds ==
  ASSUME DaemonTypeOK, EgressTypeOK, Enforcement, NEW e \in Egressers, epc[e] = "recheck",
         Targets(e) \subseteq job[e].tried, job[e].kind = "apply", Close(e, {}),
         UNCHANGED <<ruleset, active, daemon>>,
         told' = [d \in Names |-> IF d \in Targets(e) THEN job[e].inst[d] ELSE told[d]],
         reported' = [reported EXCEPT ![job[e].policy] =
                        [d \in Names |-> IF d \in Targets(e) THEN job[e].inst[d] ELSE @[d]]]
  PROVE  Keeps(e)
<1>1. /\ table' = table /\ abandoned' = abandoned /\ active' = active /\ box' = box /\ held' = held
  BY DEF ruleset, daemon
<1>2. Shape(e) /\ job[e].unsure = {} /\ job[e].policy \in Policies
  BY DEF Enforcement, Shape, Changes
<1>3. /\ \A d \in Names : told'[d] = IF d \in Targets(e) THEN job[e].inst[d] ELSE told[d]
      /\ \A d \in Names, q \in Policies : reported'[q][d] =
           IF q = job[e].policy /\ d \in Targets(e) THEN job[e].inst[d] ELSE reported[q][d]
  BY <1>2 DEF EgressTypeOK
<1>4. \A d \in Targets(e) : d \in job[e].open /\ Joined(e, d) /\ d \in Names
  BY <1>2 DEF Shape, Joined, Acquiring, Targets
<1>5. \A d \in Names \ Targets(e) : Untouched(d) BY <1>1, <1>3 DEF Untouched
<1>6. ASSUME NEW d \in Targets(e)
      PROVE  Dated(d)' /\ Honoured(d)' /\ Even(d)' /\ abandoned'[d] = Idle[d]
  <2>1. /\ d \in Names /\ Owned(e, d) /\ Dated(d) /\ Honoured(d) /\ job[e].inst[d] # 0
        /\ job[e].inst[d] <= box[d].starts /\ d \in Covers[job[e].policy]
    BY <1>2, <1>4 DEF Enforcement, Shape, Targets
  <2>2. abandoned[d] = Idle[d] BY <1>2, <2>1 DEF Owned
  <2>3. job[e].inst[d] = box[d].starts => Filtered(d, table[d]) BY <2>1 DEF Owned, Changes
  <2>4. job[e].inst[d] # box[d].starts => ~Filtered(d, table[d]) BY <1>4, <2>1 DEF Owned
  <2>5. Even(d)' BY <1>1, <1>3, <2>1, <2>3, <2>4 DEF Even, Filtered
  <2>6. Dated(d)' BY <1>1, <1>3, <2>1 DEF Dated
  <2>7. Promised(d)' => Filtered(d, table[d])
    <3> SUFFICES ASSUME NEW q \in Policies, active[q], Filtered(d, reported'[q][d])
                 PROVE  Filtered(d, table[d])
      BY <1>1 DEF Promised, Filtered
    <3>1. CASE q = job[e].policy BY <1>3, <2>1, <2>3, <3>1 DEF Filtered
    <3>2. CASE q # job[e].policy BY <1>3, <2>1, <3>2 DEF Honoured, Promised
    <3> QED BY <3>1, <3>2
  <2>8. \A q \in Policies : reported'[q][d] # 0 => d \in Covers[q] BY <1>3, <2>1 DEF Honoured
  <2>9. abandoned'[d] = <<"none", 0, 0>> BY <1>1, <2>1, <2>2 DEF Idle
  <2>10. Honoured(d)' BY <1>1, <2>7, <2>8, <2>9 DEF Honoured, Filtered
  <2> QED BY <1>1, <2>2, <2>5, <2>6, <2>10 DEF Idle
<1>7. ASSUME NEW d \in Names \ Targets(e)
      PROVE  Dated(d)' /\ Honoured(d)' /\ (d \in job[e].open => Even(d)' /\ abandoned'[d] = Idle[d])
  <2>1. Dated(d)' /\ Honoured(d)' /\ (Even(d)' <=> Even(d))
    BY <1>1, <1>5, UntouchedFacts DEF Enforcement
  <2>2. d \in job[e].open => Even(d) /\ abandoned[d] = Idle[d]
    BY <1>2 DEF Enforcement, Owned, Shape
  <2> QED BY <1>1, <2>1, <2>2
<1>8. Shape(e)' /\ job'[e].open = job[e].open /\ \A d \in job'[e].open : Owned(e, d)'
  BY <1>1, <1>6, <1>7, CloseKeeps, JobTypes
<1> QED BY <1>1, <1>4, <1>5, <1>6, <1>7, <1>8, JobTypes DEF Keeps, EgressSlot

LEMMA RecheckKeeps ==
  ASSUME DaemonTypeOK, EgressTypeOK, Enforcement, NEW e \in Egressers, Recheck(e)
  PROVE  Keeps(e)
<1>1. /\ epc[e] = "recheck" /\ UNCHANGED <<ruleset, active>> /\ epc[e] \in Changes
      /\ box' = box /\ held' = held
  BY DEF Recheck, Changes, CheckFails, Glitch, daemon
<1>2. PICK c \in Next1(e) :
     LET left    == job[e].todo \ {c}
         applied == [d \in Names |-> left = {} /\ job[e].kind = "apply" /\ d \in Targets(e)]
     IN \/ /\ UNCHANGED daemon
           /\ IF left = {} THEN Close(e, {})
              ELSE EGo(e, "mutate") /\ job' = [job EXCEPT ![e].todo = left]
           /\ told' = [d \in Names |-> IF applied[d] THEN job[e].inst[d] ELSE told[d]]
           /\ reported' = [reported EXCEPT ![job[e].policy] =
                [d \in Names |-> IF applied[d] THEN job[e].inst[d] ELSE @[d]]]
        \/ Fallback(e, {}, {}) /\ UNCHANGED <<told, reported>>
  BY Zenon DEF Recheck
<1>3. /\ Shape(e) /\ c \in Names /\ Next1(e) = {c} /\ c \in job[e].tried /\ job[e].unsure = {}
      /\ job[e].kind \in {"apply", "remove"} /\ Targets(e) \ job[e].todo \subseteq job[e].tried
  BY <1>1, NextIsOne DEF Enforcement, Shape, Changes
<1> DEFINE left    == job[e].todo \ {c}
           applied == [d \in Names |-> left = {} /\ job[e].kind = "apply" /\ d \in Targets(e)]
<1>4. ASSUME Still
      PROVE  \A d \in job[e].open :
               /\ Even(d)' \/ (job[e].kind = "apply" /\ d \in job[e].tried \cup {})
               /\ abandoned'[d] = Idle[d] /\ table'[d] = table[d] /\ told'[d] = told[d]
               /\ Promised(d)' => Promised(d)
  <2> SUFFICES ASSUME NEW d \in job[e].open
               PROVE  /\ Even(d)' \/ (job[e].kind = "apply" /\ d \in job[e].tried \cup {})
                      /\ abandoned'[d] = Idle[d] /\ table'[d] = table[d] /\ told'[d] = told[d]
                      /\ Promised(d)' => Promised(d)
    OBVIOUS
  <2>1. d \in Names /\ Owned(e, d) BY JobTypes DEF Enforcement
  <2> QED BY <1>3, <1>4, <2>1, StillFacts DEF Owned
<1>5. CASE Fallback(e, {}, {}) /\ UNCHANGED <<told, reported>>
  <2>1. Still BY <1>1, <1>5 DEF Still
  <2>2. {} \in SUBSET Targets(e) /\ {} \in SUBSET {} OBVIOUS
  <2>3. Shape(e)' /\ job'[e].open = job[e].open /\ \A d \in job'[e].open : Owned(e, d)'
    BY <1>1, <1>4, <1>5, <2>1, <2>2, FallbackKeeps
  <2> QED BY <1>1, <2>1, <2>3, StillKeeps DEF EgressSlot
<1>6. CASE /\ UNCHANGED daemon
           /\ IF left = {} THEN Close(e, {})
              ELSE EGo(e, "mutate") /\ job' = [job EXCEPT ![e].todo = left]
           /\ told' = [d \in Names |-> IF applied[d] THEN job[e].inst[d] ELSE told[d]]
           /\ reported' = [reported EXCEPT ![job[e].policy] =
                [d \in Names |-> IF applied[d] THEN job[e].inst[d] ELSE @[d]]]
  <2>1. CASE left = {} /\ job[e].kind = "apply"
    <3>1. Targets(e) \subseteq job[e].tried BY <1>3, <2>1
    <3>2. \A d \in Names : applied[d] <=> d \in Targets(e) BY <2>1
    <3> HIDE DEF applied
    <3>3. told' = [d \in Names |-> IF d \in Targets(e) THEN job[e].inst[d] ELSE told[d]] BY <1>6, <3>2
    <3>4. reported' = [reported EXCEPT ![job[e].policy] =
                        [d \in Names |-> IF d \in Targets(e) THEN job[e].inst[d] ELSE @[d]]]
      BY <1>6, <3>2
    <3> QED BY <1>1, <1>6, <2>1, <3>1, <3>3, <3>4, RecheckSucceeds
  <2>2. CASE ~(left = {} /\ job[e].kind = "apply")
    <3>1. \A d \in Names : applied[d] = FALSE BY <2>2
    <3> HIDE DEF applied
    <3>2. told' = told BY <1>6, <3>1 DEF EgressTypeOK
    <3>3. reported' = reported
      <4>1. reported' = [reported EXCEPT ![job[e].policy] = [d \in Names |-> @[d]]] BY <1>6, <3>1
      <4>2. reported \in [Policies -> [Names -> Nat]] BY DEF EgressTypeOK
      <4> QED BY <4>1, <4>2
    <3>4. Still BY <1>1, <3>2, <3>3 DEF Still
    <3>5. CASE left = {}
      <4>1. Close(e, {}) /\ job[e].kind # "apply" BY <1>6, <2>2, <3>5
      <4>2. Shape(e)' /\ \A d \in job'[e].open : Owned(e, d)'
        BY <1>1, <1>4, <3>4, <4>1, CloseKeeps
      <4> QED BY <1>1, <3>4, <4>2, StillKeeps DEF EgressSlot
    <3>6. CASE left # {}
      <4>1. epc'[e] = "mutate" /\ job' = [job EXCEPT ![e].todo = left]
        BY <1>6, <3>6 DEF EGo, EgressTypeOK
      <4>2. left \subseteq job[e].todo /\ Targets(e) \ left \subseteq job[e].tried BY <1>3
      <4> HIDE DEF left
      <4>3. /\ job'[e].kind = job[e].kind /\ job'[e].inst = job[e].inst /\ job'[e].todo = left
            /\ job'[e].tried = job[e].tried /\ job'[e].found = job[e].found
            /\ job'[e].open = job[e].open /\ job'[e].unsure = {} /\ job'[e].policy = job[e].policy
        BY <1>3, <4>1, JobTypes DEF JobRecs
      <4>4. Targets(e)' = Targets(e) BY <4>3 DEF Targets
      <4>5. \A d \in Names : (Joined(e, d)' <=> Joined(e, d)) /\ (Snapped(e, d)' <=> Snapped(e, d))
        BY <1>1, <4>1, <4>3, <4>4 DEF Joined, Snapped, Acquiring, Changes
      <4>6. left \subseteq Targets(e)' /\ job[e].tried \subseteq Targets(e)'
        BY <1>3, <4>2, <4>4 DEF Shape
      <4>7. Shape(e)' BY <1>1, <1>3, <4>1, <4>2, <4>3, <4>4, <4>5, <4>6 DEF Shape, Changes
      <4>8. ASSUME NEW d \in job'[e].open PROVE Owned(e, d)'
        <5>1. d \in Names /\ Owned(e, d) BY <4>3, <4>8, JobTypes DEF Enforcement
        <5>2. /\ table'[d] = table[d] /\ told'[d] = told[d] /\ abandoned'[d] = abandoned[d]
              /\ Even(d)' <=> Even(d)
              /\ Promised(d)' <=> Promised(d)
              /\ \A n : Filtered(d, n)' <=> Filtered(d, n)
              /\ Joined(e, d)' <=> Joined(e, d)
              /\ Snapped(e, d)' <=> Snapped(e, d)
          BY <3>4, <4>5, <5>1, StillFacts
        <5> QED BY <1>1, <1>3, <4>1, <4>3, <4>4, <5>1, <5>2 DEF Owned, Changes, Idle, Filtered
      <4> QED BY <1>1, <3>4, <4>7, <4>8, StillKeeps DEF EgressSlot
    <3> QED BY <3>5, <3>6
  <2> QED BY <2>1, <2>2
<1> QED BY <1>2, <1>5, <1>6

(* Putting back what the snapshot found.                                   *)
LEMMA RollbackKeeps ==
  ASSUME DaemonTypeOK, EgressTypeOK, Enforcement, NEW e \in Egressers, Rollback(e)
  PROVE  Keeps(e)
<1>1. PICK c \in job[e].tried :
        \/ c \in job[e].unsure /\ job' = [job EXCEPT ![e].tried = @ \ {c}] /\ UNCHANGED <<ruleset, daemon>>
        \/ /\ c \notin job[e].unsure /\ Ran(c, <<"restore", job[e].inst[c], job[e].found[c]>>)
           /\ job' = [job EXCEPT ![e].tried = @ \ {c}]
        \/ /\ c \notin job[e].unsure
           /\ Exited \/ Unknown(c, <<"restore", job[e].inst[c], job[e].found[c]>>)
           /\ job' = [[job EXCEPT ![e].tried = @ \ {c}] EXCEPT ![e].unsure = @ \cup {c}]
  BY Zenon DEF Rollback
<1> DEFINE command == <<"restore", job[e].inst[c], job[e].found[c]>>
<1>2. /\ epc[e] = "rollback" /\ epc' = epc /\ active' = active /\ reported' = reported /\ told' = told
      /\ c \in Names
  BY JobTypes DEF Rollback, records
<1>3. Shape(e) /\ job[e].kind = "apply" /\ c \in Targets(e) /\ Joined(e, c) /\ Snapped(e, c) /\ c \in job[e].open
  BY <1>2 DEF Enforcement, Shape, Joined, Snapped, Acquiring
<1>4. Owned(e, c) /\ job[e].inst[c] # 0 BY <1>3 DEF Enforcement, Targets
<1>5. /\ job'[e].kind = "apply" /\ job'[e].inst = job[e].inst /\ job'[e].todo = job[e].todo
      /\ job'[e].tried = job[e].tried \ {c} /\ job'[e].found = job[e].found
      /\ job'[e].open = job[e].open /\ job'[e].policy = job[e].policy
      /\ job'[e].unsure \in {job[e].unsure, job[e].unsure \cup {c}}
      /\ Ran(c, command) \/ c \in job'[e].unsure
  BY <1>1, <1>3, JobTypes DEF JobRecs
<1>6. Targets(e)' = Targets(e) BY <1>5 DEF Targets
<1>7. \A d \in Names : (Joined(e, d)' <=> Joined(e, d)) /\ (Snapped(e, d)' <=> Snapped(e, d))
  BY <1>2, <1>3, <1>5, <1>6 DEF Joined, Snapped, Acquiring, Changes
<1>8. box' = box /\ held' = held
  <2>1. CASE UNCHANGED <<ruleset, daemon>> BY <2>1 DEF daemon
  <2>2. CASE ~UNCHANGED <<ruleset, daemon>> BY <1>1, <1>2, <2>2, CommandFacts
  <2> QED BY <2>1, <2>2
<1>9. Shape(e)'
  <2>1. \A d \in Names : job'[e].inst[d] <= box'[d].starts /\ job'[e].found[d] \in {0, job'[e].inst[d]}
    BY <1>3, <1>5, <1>8 DEF Shape
  <2>2. /\ job'[e].todo \subseteq Targets(e)' /\ job'[e].tried \subseteq Targets(e)'
        /\ job'[e].policy \in Policies /\ Targets(e)' \subseteq Covers[job'[e].policy]
    <3>1. job[e].todo \subseteq Targets(e) /\ job[e].tried \subseteq Targets(e)
      BY <1>3 DEF Shape
    <3>2. job[e].policy \in Policies /\ Targets(e) \subseteq Covers[job[e].policy]
      BY <1>3 DEF Shape
    <3> QED BY <1>5, <1>6, <3>1, <3>2
  <2>3. \A d \in Names : Joined(e, d)' => d \in job'[e].open BY <1>3, <1>5, <1>7 DEF Shape
  <2> QED BY <1>2, <1>5, <2>1, <2>2, <2>3 DEF Shape, Changes
<1>10. /\ job[e].inst[c] \in Nat /\ job[e].inst[c] <= box[c].starts
       /\ job[e].found[c] \in {0, job[e].inst[c]}
       /\ job[e].inst[c] = box[c].starts =>
            /\ Filtered(c, told[c]) <=> Filtered(c, job[e].found[c])
            /\ Promised(c) => Filtered(c, job[e].found[c])
  BY <1>2, <1>3, <1>4, EgressNumbers DEF Shape, Owned
<1>11. \A d \in Names : d # c =>
         /\ Untouched(d) /\ Dated(d)' /\ Honoured(d)'
         /\ Even(d)' <=> Even(d)
         /\ Promised(d)' => Promised(d)
         /\ \A n : Filtered(d, n)' <=> Filtered(d, n)
         /\ table'[d] = table[d] /\ abandoned'[d] = abandoned[d]
  <2>1. CASE UNCHANGED <<ruleset, daemon>>
    <3>1. Still BY <1>2, <2>1 DEF Still, daemon
    <3> QED BY <3>1, StillFacts
  <2>2. CASE ~UNCHANGED <<ruleset, daemon>>
    <3>1. Ran(c, command) \/ Exited \/ Unknown(c, command) BY <1>1, <2>2
    <3> HIDE DEF command
    <3> QED BY <1>2, <3>1, CommandSpares, CommandFacts
  <2> QED BY <2>1, <2>2
<1>12. Dated(c)' /\ Honoured(c)' /\ (Promised(c)' => Promised(c))
  <2>1. CASE UNCHANGED <<ruleset, daemon>>
    <3>1. Still BY <1>2, <2>1 DEF Still, daemon
    <3> QED BY <1>2, <3>1, StillFacts
  <2>2. CASE ~UNCHANGED <<ruleset, daemon>>
    <3>1. Ran(c, command) \/ Exited \/ Unknown(c, command) BY <1>1, <2>2
    <3> QED BY <1>2, <1>4, <1>10, <3>1, TargetKept
  <2> QED BY <2>1, <2>2
<1>13. /\ abandoned'[c] # Idle[c] => c \in job'[e].unsure /\ abandoned'[c][2] = job[e].inst[c]
       /\ table'[c] = table[c] \/ job[e].inst[c] = box[c].starts
       /\ Even(c)' \/ c \in job'[e].unsure
  <2>1. CASE UNCHANGED <<ruleset, daemon>> /\ c \in job[e].unsure
    BY <1>3, <1>4, <1>5, <2>1 DEF ruleset, Owned
  <2>2. CASE c \notin job[e].unsure /\ Ran(c, command)
    <3>1. table'[c] = (IF job[e].inst[c] # box[c].starts THEN table[c] ELSE job[e].found[c])
          /\ abandoned'[c] = abandoned[c]
      BY <1>2, <2>2, CommandFacts DEF Becomes
    <3>2. Even(c)'
      BY <1>2, <1>3, <1>4, <1>8, <1>10, <3>1 DEF Owned, Even, Filtered
    <3> QED BY <1>4, <2>2, <3>1, <3>2 DEF Owned
  <2>3. CASE Exited \/ Unknown(c, command)
    <3>1. table'[c] \in {table[c], Becomes(c, command)} BY <1>2, <2>3, CommandFacts
    <3>2. table'[c] = table[c] \/ job[e].inst[c] = box[c].starts BY <3>1 DEF Becomes
    <3>3. c \in job'[e].unsure \/ Ran(c, command) BY <1>5
    <3>4. CASE c \in job'[e].unsure
      <4>1. abandoned'[c] \in {abandoned[c], command} /\ command[2] = job[e].inst[c] BY <1>2, <2>3, CommandFacts
      <4>2. abandoned[c] # Idle[c] => abandoned[c][2] = job[e].inst[c] BY <1>3, <1>4 DEF Owned
      <4> QED BY <3>2, <3>4, <4>1, <4>2
    <3>5. CASE Ran(c, command) /\ c \notin job'[e].unsure BY <1>5, <2>2, <3>5
    <3> QED BY <3>3, <3>4, <3>5
  <2> QED BY <1>1, <2>1, <2>2, <2>3
<1>14. Owned(e, c)'
  <2>1. Joined(e, c)' /\ job'[e].inst[c] # box'[c].starts =>
          ~Filtered(c, table[c])' /\ ~Filtered(c, told[c])'
    BY <1>2, <1>3, <1>4, <1>5, <1>8, <1>13 DEF Owned, Filtered
  <2>2. Snapped(e, c)' /\ job'[e].inst[c] = box'[c].starts =>
            /\ Filtered(c, told[c])' <=> Filtered(c, job[e].found[c])'
            /\ Promised(c)' => Filtered(c, job[e].found[c])'
    BY <1>2, <1>5, <1>8, <1>10, <1>12 DEF Filtered
  <2> QED BY <1>2, <1>5, <1>13, <2>1, <2>2 DEF Owned, Changes, Idle
<1>15. ASSUME NEW d \in job[e].open, d # c PROVE Owned(e, d)'
  <2>1. d \in Names /\ Owned(e, d) BY JobTypes DEF Enforcement
  <2>2. /\ d \in job'[e].tried <=> d \in job[e].tried
        /\ d \in job'[e].unsure <=> d \in job[e].unsure
    BY <1>5, <1>15
  <2>3. /\ table'[d] = table[d] /\ told'[d] = told[d] /\ abandoned'[d] = abandoned[d]
        /\ Even(d)' <=> Even(d)
        /\ Promised(d)' => Promised(d)
        /\ \A n : Filtered(d, n)' <=> Filtered(d, n)
        /\ Joined(e, d)' <=> Joined(e, d)
        /\ Snapped(e, d)' <=> Snapped(e, d)
    BY <1>2, <1>7, <1>11, <1>15, <2>1
  <2> QED BY <1>2, <1>3, <1>5, <1>6, <1>8, <2>1, <2>2, <2>3 DEF Owned, Changes, Idle, Filtered
<1>16. \A d \in job[e].open : Dated(d)' /\ Honoured(d)' BY <1>11, <1>12, JobTypes
<1>17. \A d \in Names \ job[e].open : Untouched(d) BY <1>3, <1>11
<1>18. \A d \in job'[e].open : Owned(e, d)' BY <1>5, <1>14, <1>15
<1> QED BY <1>8, <1>9, <1>16, <1>17, <1>18 DEF Keeps, EgressSlot

LEMMA FinishKeeps ==
  ASSUME DaemonTypeOK, EgressTypeOK, Enforcement, NEW e \in Egressers, Finish(e),
         Glitch \/ UNCHANGED daemon
  PROVE  Keeps(e)
<1>1. Still /\ held' = held /\ epc'[e] = "done" /\ job'[e] = NoJob
  BY JobTypes DEF Finish, Still, records, Glitch, daemon, EGo, EgressTypeOK
<1>2. /\ job'[e].kind = "none" /\ job'[e].inst = Nowhere /\ job'[e].todo = {} /\ job'[e].tried = {}
      /\ job'[e].found = Nowhere /\ job'[e].open = {} /\ job'[e].unsure = {}
  BY <1>1 DEF NoJob
<1>3. Targets(e)' = {} BY <1>2 DEF Targets, Nowhere
<1>4. \A d \in Names : box'[d].starts \in Nat BY <1>1, EgressNumbers DEF Still
<1>5. \A d \in Names : job'[e].inst[d] <= box'[d].starts /\ job'[e].found[d] \in {0, job'[e].inst[d]}
  BY <1>2, <1>4 DEF Nowhere
<1>6. \A d : ~Joined(e, d)' BY <1>3 DEF Joined
<1>7. Shape(e)' BY <1>1, <1>2, <1>3, <1>5, <1>6 DEF Shape, Changes
<1> QED BY <1>1, <1>2, <1>7, StillKeeps DEF EgressSlot

(* A reservation that goes leaves the table as it was told.                *)
LEMMA CloseSessionKeeps ==
  ASSUME DaemonTypeOK, EgressTypeOK, Enforcement, NEW e \in Egressers, CloseSession(e)
  PROVE  Keeps(e)
<1>1. /\ epc[e] = "close" /\ epc' = epc /\ active' = active /\ reported' = reported /\ told' = told
      /\ table' = table
  BY DEF CloseSession, records
<1>2. PICK c \in job[e].open :
       /\ job' = [job EXCEPT ![e].open = @ \ {c}]
       /\ \/ c \in job[e].unsure /\ abandoned' = [abandoned EXCEPT ![c] = Idle[c]] /\ UNCHANGED daemon
          \/ c \in job[e].unsure /\ Glitch /\ UNCHANGED abandoned
          \/ c \notin job[e].unsure /\ (Freed(EgressSlot(c)) \/ FreeFailed(EgressSlot(c))) /\ UNCHANGED abandoned
  BY DEF CloseSession
<1>3. c \in Names /\ Owned(e, c) /\ Shape(e) BY JobTypes DEF Enforcement
<1>4. /\ job'[e].kind = job[e].kind /\ job'[e].inst = job[e].inst /\ job'[e].todo = job[e].todo
      /\ job'[e].tried = job[e].tried /\ job'[e].found = job[e].found
      /\ job'[e].open = job[e].open \ {c} /\ job'[e].unsure = job[e].unsure /\ job'[e].policy = job[e].policy
  BY <1>2, JobTypes DEF JobRecs
<1>5. Targets(e)' = Targets(e) /\ Targets(e) = {} BY <1>1, <1>3, <1>4 DEF Targets, Shape, Nowhere
<1>6. box' = box BY <1>2 DEF daemon, Glitch, Freed, FreeFailed
<1>7. /\ \A d \in Names : d # c => abandoned'[d] = abandoned[d]
      /\ abandoned'[c] \in {abandoned[c], Idle[c]}
  BY <1>2 DEF EgressTypeOK
<1>8. \A d : ~Joined(e, d)' /\ ~Snapped(e, d)' BY <1>5 DEF Joined, Snapped
<1>9. Shape(e)' BY <1>1, <1>3, <1>4, <1>5, <1>6, <1>8 DEF Shape, Changes
<1>10. \A d \in Names : d # c => Untouched(d) BY <1>1, <1>7 DEF Untouched
<1>11. \A d \in Names : d # c => Dated(d)' /\ Honoured(d)' /\ (Even(d)' <=> Even(d))
  BY <1>6, <1>10, UntouchedFacts DEF Enforcement
<1>12. Dated(c)' /\ Honoured(c)'
  <2>1. Dated(c) /\ Honoured(c) /\ box[c].starts \in Nat BY <1>3, EgressNumbers DEF Enforcement
  <2>2. Idle[c] = <<"none", 0, 0>> BY <1>3 DEF Idle
  <2>3. Dated(c)' BY <1>1, <1>6, <1>7, <2>1, <2>2 DEF Dated
  <2>4. Honoured(c)' BY <1>1, <1>6, <1>7, <2>1, <2>2 DEF Honoured, Promised, Filtered
  <2> QED BY <2>3, <2>4
<1>13. ASSUME NEW d \in job'[e].open PROVE Owned(e, d)'
  <2>1. d \in job[e].open /\ d # c /\ d \in Names BY <1>4, <1>13, JobTypes
  <2>2. Owned(e, d) BY <2>1 DEF Enforcement
  <2> QED BY <1>1, <1>4, <1>5, <1>7, <1>8, <1>11, <2>1, <2>2 DEF Owned, Changes, Idle
<1>14. ASSUME NEW d \in Names, held'[EgressSlot(d)] = NoOne, held[EgressSlot(d)] # NoOne
       PROVE  Even(d)' /\ abandoned'[d] = Idle[d]
  <2>1. EgressSlot(d) \in Slots /\ EgressSlot(c) \in Slots BY <1>3, SlotFacts
  <2>2. /\ Freed(EgressSlot(c)) \/ FreeFailed(EgressSlot(c))
        /\ c \notin job[e].unsure /\ UNCHANGED abandoned
    BY <1>2, <1>14 DEF daemon, Glitch
  <2>3. EgressSlot(d) = EgressSlot(c) BY <1>14, <2>1, <2>2 DEF Freed, FreeFailed, DaemonTypeOK
  <2>4. d = c BY <1>3, <2>3, SlotFacts
  <2>5. Even(c) /\ abandoned[c] = Idle[c] BY <1>1, <1>3, <2>2 DEF Owned, Shape, Changes
  <2> QED BY <1>1, <1>6, <2>2, <2>4, <2>5 DEF Even, Filtered
<1> QED BY <1>9, <1>10, <1>11, <1>12, <1>13, <1>14, JobTypes DEF Keeps

LEMMA EgressKeeps ==
  ASSUME DaemonTypeOK, EgressTypeOK, EgressInv, Enforcement, NEW e \in Egressers, EgressStep(e)
  PROVE  Enforcement'
<1>1. Alone(e) BY EgressStepsKeep DEF EgressEffect
<1>2. box' = box
  <2>1. CASE Rollback(e)
    BY <2>1 DEF Rollback, Ran, Exited, Unknown, Glitch, daemon
  <2>2. CASE Mutate(e) BY <2>2 DEF Mutate, Ran, Exited, Unknown, Glitch, daemon
  <2>3. CASE CloseSession(e) BY <2>3 DEF CloseSession, Freed, FreeFailed, Glitch, daemon
  <2>4. CASE ReserveTarget(e)
    BY <2>4 DEF ReserveTarget, Reserved, Conflict, ReserveLost, daemon
  <2>5. CASE Ask(e) \/ NoPrune(e) \/ Join(e) \/ Snapshot(e) \/ RemainingPolicies(e)
    BY <2>5 DEF Ask, NoPrune, Join, Snapshot, RemainingPolicies, CheckFails, Glitch, daemon
  <2>6. CASE Recheck(e) \/ RollbackEnds(e) \/ Closed(e) \/ EgressCrash(e)
    BY <2>6 DEF Recheck, RollbackEnds, Closed, EgressCrash, CheckFails, Glitch, daemon
  <2> QED BY <2>1, <2>2, <2>3, <2>4, <2>5, <2>6 DEF EgressStep
<1>3. CASE RollbackEnds(e)
  <2>1. Still /\ held' = held /\ job[e].tried = {} /\ Close(e, {})
    BY <1>3 DEF RollbackEnds, Still, records, daemon
  <2>2. Keeps(e) BY <2>1, StillClose
  <2> QED BY <1>1, <1>2, <2>2, KeepsEnforcement
<1>4. CASE Closed(e) \/ EgressCrash(e)
  <2>1. Keeps(e) BY <1>4, FinishKeeps DEF Closed, EgressCrash
  <2> QED BY <1>1, <1>2, <2>1, KeepsEnforcement
<1>5. CASE ~(RollbackEnds(e) \/ Closed(e) \/ EgressCrash(e))
  <2>1. Keeps(e)
    BY <1>5, AskKeeps, ReserveTargetKeeps, NoPruneKeeps, JoinKeeps, SnapshotKeeps,
       RemainingPoliciesKeeps, MutateKeeps, RecheckKeeps, RollbackKeeps, CloseSessionKeeps
    DEF EgressStep
  <2> QED BY <1>1, <1>2, <2>1, KeepsEnforcement
<1> QED BY <1>3, <1>4, <1>5

(* Commands nobody waits for any more.                                     *)
LEMMA AbandonedKeeps ==
  ASSUME DaemonTypeOK, EgressTypeOK, EgressInv, Enforcement, NEW c \in Names, AbandonedRuns(c)
  PROVE  Enforcement'
<1> DEFINE command == abandoned[c]
<1>1. /\ box' = box /\ held' = held /\ epc' = epc /\ job' = job /\ told' = told /\ active' = active
      /\ reported' = reported /\ command # Idle[c]
  BY DEF AbandonedRuns, daemon, records
<1>2. /\ table'[c] = Becomes(c, command) /\ abandoned'[c] = Idle[c]
      /\ \A d \in Names : d # c => table'[d] = table[d] /\ abandoned'[d] = abandoned[d]
  BY RuledFacts DEF AbandonedRuns, EgressTypeOK
<1>3. \A d \in Names : d # c => Untouched(d) BY <1>1, <1>2 DEF Untouched
<1>4. \A d \in Names : d # c =>
         /\ Dated(d)' /\ Honoured(d)'
         /\ Even(d)' <=> Even(d)
         /\ Promised(d)' => Promised(d)
  BY <1>1, <1>3, UntouchedFacts DEF Enforcement
<1>5. /\ Dated(c) /\ Honoured(c) /\ box[c].starts \in Nat /\ Idle[c] = <<"none", 0, 0>>
      /\ Released(c)
  BY EgressNumbers DEF Enforcement, Idle
<1>6. table'[c] = table[c] \/ (command[2] = box[c].starts /\ command[1] = "apply" /\ table'[c] = command[2])
      \/ (command[2] = box[c].starts /\ command[1] = "remove" /\ table'[c] = 0)
      \/ (command[2] = box[c].starts /\ command[1] = "restore" /\ table'[c] = command[3])
  BY <1>2 DEF Becomes
<1>7. Dated(c)' BY <1>1, <1>2, <1>5, <1>6 DEF Dated
<1>8. Promised(c)' <=> Promised(c) BY <1>1 DEF Promised, Filtered
<1>9. Promised(c) => box[c].starts # 0 BY DEF Promised, Filtered
<1>10. Promised(c) => Filtered(c, table'[c]) BY <1>5, <1>6, <1>9 DEF Honoured, Filtered
<1>11. Honoured(c)' BY <1>1, <1>2, <1>5, <1>8, <1>10 DEF Honoured, Filtered
<1>12. held[EgressSlot(c)] # NoOne BY <1>1, <1>5 DEF Released
<1>13. ASSUME NEW d \in Names PROVE Released(d)'
  <2>1. Released(d) BY DEF Enforcement
  <2> QED BY <1>1, <1>2, <1>4, <1>12, <2>1 DEF Released, EgressSlot, Idle
<1>14. ASSUME NEW e \in Egressers PROVE Shape(e)'
  BY <1>1 DEF Enforcement, Shape, Targets, Next1, Joined
<1>15. ASSUME NEW e \in Egressers, NEW d \in job[e].open PROVE Owned(e, d)'
  <2>1. Owned(e, d) /\ d \in Names BY JobTypes DEF Enforcement
  <2>2. /\ Joined(e, d)' <=> Joined(e, d)
        /\ Snapped(e, d)' <=> Snapped(e, d)
        /\ d \in Targets(e)' <=> d \in Targets(e)
    BY <1>1 DEF Joined, Snapped, Targets
  <2>3. CASE d # c
    <3>1. /\ table'[d] = table[d] /\ told'[d] = told[d] /\ abandoned'[d] = abandoned[d]
          /\ Even(d)' <=> Even(d)
          /\ Promised(d)' => Promised(d)
      BY <1>1, <1>2, <1>4, <2>1, <2>3
    <3> QED BY <1>1, <2>1, <2>2, <3>1 DEF Owned, Idle, Filtered
  <2>4. CASE d = c
    <3>1. c \in job[e].unsure /\ (c \in Targets(e) => command[2] = job[e].inst[c])
      BY <1>1, <2>1, <2>4 DEF Owned
    <3>2. epc[e] \notin Changes BY <3>1 DEF Enforcement, Shape, Changes
    <3>3. Joined(e, c) /\ job[e].inst[c] # box[c].starts => table'[c] = table[c]
      BY <1>6, <3>1 DEF Joined
    <3> QED BY <1>1, <1>2, <1>8, <2>1, <2>2, <2>4, <3>1, <3>2, <3>3 DEF Owned, Idle, Filtered
  <2> QED BY <2>3, <2>4
<1>16. \A e \in Egressers : \A d \in job'[e].open : Owned(e, d)' BY <1>1, <1>15
<1>17. \A d \in Names : Dated(d)' /\ Honoured(d)' BY <1>4, <1>7, <1>11
<1> QED BY <1>13, <1>14, <1>16, <1>17 DEF Enforcement

(* Policies come and go without anything in force changing.                *)
LEMMA PolicyKeeps ==
  ASSUME DaemonTypeOK, EgressTypeOK, Enforcement, NEW q \in Policies, PolicyStep(q)
  PROVE  Enforcement'
<1>1. /\ box' = box /\ held' = held /\ epc' = epc /\ job' = job /\ told' = told /\ table' = table
      /\ abandoned' = abandoned /\ reported' = [reported EXCEPT ![q] = Nowhere]
      /\ \A p \in Policies : p # q => active'[p] = active[p]
  BY DEF PolicyStep, CreatePolicy, RemovePolicy, daemon, ruleset, EgressTypeOK
<1>2. \A d \in Names, p \in Policies :
        reported'[p][d] = IF p = q THEN 0 ELSE reported[p][d]
  BY <1>1 DEF EgressTypeOK, Nowhere
<1>3. \A d \in Names : Untouched(d) BY <1>1, <1>2 DEF Untouched
<1>4. \A d \in Names :
         /\ Dated(d)' /\ Honoured(d)'
         /\ Even(d)' <=> Even(d)
         /\ Promised(d)' => Promised(d)
  BY <1>1, <1>3, UntouchedFacts DEF Enforcement
<1>5. \A d \in Names : Released(d)' BY <1>1, <1>4 DEF Enforcement, Released, EgressSlot, Idle
<1>6. ASSUME NEW e \in Egressers PROVE Shape(e)'
  BY <1>1 DEF Enforcement, Shape, Targets, Next1, Joined
<1>7. ASSUME NEW e \in Egressers, NEW d \in job[e].open PROVE Owned(e, d)'
  <2>1. Owned(e, d) /\ d \in Names BY JobTypes DEF Enforcement
  <2>2. /\ Joined(e, d)' <=> Joined(e, d)
        /\ Snapped(e, d)' <=> Snapped(e, d)
        /\ d \in Targets(e)' <=> d \in Targets(e)
    BY <1>1 DEF Joined, Snapped, Targets
  <2> QED BY <1>1, <1>4, <2>1, <2>2 DEF Owned, Idle, Filtered
<1>8. \A e \in Egressers : \A d \in job'[e].open : Owned(e, d)' BY <1>1, <1>7
<1> QED BY <1>4, <1>5, <1>6, <1>8 DEF Enforcement

LEMMA EgressNames ==
  ASSUME NamesAreOld, NEW e \in Egressers, EgressStep(e)
  PROVE  NamesAreOld'
<1> SUFFICES ASSUME NEW c \in Names, <<"create", c>> \in late' PROVE <<"create", c>> \in late
  BY DEF NamesAreOld
<1>1. CASE ReserveTarget(e)
  <2>1. PICK d \in Next1(e) : late' = late \/ late' = late \cup {<<"reserve", EgressSlot(d), e>>}
    BY <1>1 DEF ReserveTarget, Reserved, Conflict, ReserveLost, daemon
  <2> QED BY <2>1
<1>2. CASE Rollback(e) \/ Mutate(e)
  BY <1>2 DEF Rollback, Mutate, Ran, Exited, Unknown, Glitch, daemon
<1>3. CASE CloseSession(e) BY <1>3 DEF CloseSession, Freed, FreeFailed, Glitch, daemon
<1>4. CASE Ask(e) \/ NoPrune(e) \/ Join(e) \/ Snapshot(e) \/ RemainingPolicies(e)
  BY <1>4 DEF Ask, NoPrune, Join, Snapshot, RemainingPolicies, CheckFails, Glitch, daemon
<1>5. CASE Recheck(e) \/ RollbackEnds(e) \/ Closed(e) \/ EgressCrash(e)
  BY <1>5 DEF Recheck, RollbackEnds, Closed, EgressCrash, CheckFails, Glitch, daemon
<1> QED BY <1>1, <1>2, <1>3, <1>4, <1>5 DEF EgressStep

(***************************************************************************)
(* All together.                                                           *)
(***************************************************************************)
EgressIInv == IInv /\ NamesAreOld /\ Orderly /\ Enforcement

LEMMA EgressInitHolds == Init => EgressIInv
<1> SUFFICES ASSUME Init PROVE EgressIInv OBVIOUS
<1>1. IInv /\ DaemonTypeOK /\ EgressTypeOK BY InitHolds DEF IInv, TypeOK
<1>2. NamesAreOld BY DEF Init, DaemonInit, NamesAreOld
<1>3. Orderly
  <2>1. \A e \in Egressers : refused[e] \notin Egressers BY ActorFacts DEF Init, EgressInit
  <2>2. \A e \in Egressers, c \in Names : ~Claims(e, c)
    BY ActorFacts, SlotFacts DEF Init, DaemonInit, Claims
  <2> QED BY <2>1, <2>2 DEF Orderly, Climbs, Yields
<1>4. ASSUME NEW c \in Names PROVE Dated(c) /\ Honoured(c) /\ Released(c)
  <2>1. /\ table[c] = 0 /\ told[c] = 0 /\ abandoned[c] = Idle[c] /\ Idle[c] = <<"none", 0, 0>>
        /\ \A q \in Policies : reported[q][c] = 0
    BY DEF Init, EgressInit, Nowhere, Idle
  <2>2. box[c].starts \in Nat /\ (box[c].up => box[c].starts > 0)
    <3>1. box[c] \in {Gone, Fresh, Started(Fresh)} /\ c \in Ids BY DEF Init, DaemonInit, Ids
    <3>2. box[c].starts \in Nat BY <1>1, StartsFacts, <3>1
    <3>3. CASE box[c] = Gone BY <3>2, <3>3 DEF Gone
    <3>4. CASE box[c] = Fresh BY <3>2, <3>4 DEF Gone, Fresh
    <3>5. CASE box[c] = Started(Fresh)
      <4>1. Fresh.starts = 0 BY DEF Fresh, Gone
      <4> QED BY <3>5, <4>1 DEF Started, Fresh, Gone
    <3> QED BY <3>1, <3>3, <3>4, <3>5
  <2>3. Dated(c) BY <2>1, <2>2 DEF Dated
  <2>4. ~Promised(c) BY <2>1 DEF Promised, Filtered
  <2>5. Honoured(c) BY <2>1, <2>4 DEF Honoured
  <2> QED BY <2>1, <2>3, <2>5 DEF Released, Even
<1>5. ASSUME NEW e \in Egressers PROVE Shape(e) /\ job[e].open = {}
  <2>1. job[e] = NoJob /\ epc[e] = "idle" BY DEF Init, EgressInit
  <2>2. /\ job[e].kind = "none" /\ job[e].inst = Nowhere /\ job[e].todo = {} /\ job[e].tried = {}
        /\ job[e].found = Nowhere /\ job[e].open = {} /\ job[e].unsure = {}
    BY <2>1 DEF NoJob
  <2>3. Targets(e) = {} BY <2>2 DEF Targets, Nowhere
  <2>4. \A d \in Names : job[e].inst[d] <= box[d].starts /\ job[e].found[d] \in {0, job[e].inst[d]}
    BY <1>1, <2>2, EgressNumbers DEF Nowhere
  <2> QED BY <2>1, <2>2, <2>3, <2>4 DEF Shape, Joined, Changes
<1> QED BY <1>1, <1>2, <1>3, <1>4, <1>5 DEF EgressIInv, Enforcement

(* Whatever somebody else does leaves all of it standing.                  *)
LEMMA OthersKeepEgress ==
  ASSUME EgressIInv, DaemonTypeOK', Elsewhere, UNCHANGED egress
  PROVE  (NamesAreOld /\ Orderly /\ Enforcement)'
<1>1. Orderly' BY OthersOrderly DEF EgressIInv, Elsewhere, egress
<1>2. Enforcement' BY EnforcedElsewhere DEF EgressIInv, IInv, TypeOK
<1> QED BY <1>1, <1>2 DEF Elsewhere

LEMMA EgressStepHolds == EgressIInv /\ [Next]_vars => EgressIInv'
<1> SUFFICES ASSUME EgressIInv, [Next]_vars PROVE EgressIInv' OBVIOUS
<1>1. IInv' BY StepHolds DEF EgressIInv
<1>2. DaemonTypeOK' /\ EgressTypeOK' BY <1>1 DEF IInv, TypeOK
<1>3. /\ DaemonTypeOK /\ EgressTypeOK /\ PruneTypeOK /\ EgressInv /\ ReplacementInv
      /\ NamesAreOld /\ Orderly /\ Enforcement
  BY DEF EgressIInv, IInv, TypeOK, Handling
<1>4. CASE ReplacementNext /\ UNCHANGED <<pruning, egress>>
  <2>1. PICK r \in Replacers : ReplacementStep(r) BY <1>4 DEF ReplacementNext
  <2>2. Elsewhere BY <1>3, <2>1, ReplacementElsewhere
  <2> QED BY <1>1, <1>2, <1>4, <2>2, OthersKeepEgress DEF EgressIInv
<1>5. CASE PruneNext /\ UNCHANGED <<replacement, egress>>
  <2>1. PICK p \in Pruners : PruneStep(p) BY <1>5 DEF PruneNext
  <2>2. Elsewhere BY <1>3, <2>1, PruneElsewhere
  <2> QED BY <1>1, <1>2, <1>5, <2>2, OthersKeepEgress DEF EgressIInv
<1>6. CASE DaemonNext /\ UNCHANGED <<replacement, pruning, egress>>
  <2>1. Elsewhere BY <1>3, <1>6, DaemonElsewhere
  <2> QED BY <1>1, <1>2, <1>6, <2>1, OthersKeepEgress DEF EgressIInv
<1>7. CASE \E e \in Egressers : EgressStep(e)
  <2>1. PICK e \in Egressers : EgressStep(e) BY <1>7
  <2>2. Orderly' BY <1>3, <2>1, EgressReaches, EgressOrderly
  <2>3. Enforcement' BY <1>3, <2>1, EgressKeeps
  <2>4. NamesAreOld' BY <1>3, <2>1, EgressNames
  <2> QED BY <1>1, <2>2, <2>3, <2>4 DEF EgressIInv
<1>8. CASE (\E c \in Names : AbandonedRuns(c)) \/ (\E q \in Policies : PolicyStep(q))
  <2>1. UNCHANGED <<daemon, epc, job, refused>>
    BY <1>3, <1>8, Bystanders DEF AbandonedRuns, PolicyStep, CreatePolicy, RemovePolicy, records
  <2>2. Orderly' BY <1>3, <2>1, OthersOrderly DEF daemon, Claims, EgressSlot
  <2>3. Enforcement' BY <1>3, <1>8, AbandonedKeeps, PolicyKeeps
  <2> QED BY <1>1, <1>3, <2>1, <2>2, <2>3 DEF EgressIInv, NamesAreOld, daemon
<1>9. CASE UNCHANGED vars
  <2>1. Elsewhere BY <1>3, <1>9, IdleElsewhere DEF vars
  <2> QED BY <1>1, <1>2, <1>9, <2>1, OthersKeepEgress DEF EgressIInv, vars
<1> QED BY <1>4, <1>5, <1>6, <1>7, <1>8, <1>9 DEF Next, EgressNext

(* Of two egress operations that overlap at most one is refused because of *)
(* the other: they reserve their targets in the order of the ids, so the   *)
(* one that is refused is behind the one that refuses it.                  *)
THEOREM RefusalsAreOneSided == Spec => []NoMutualRefusal
<1>1. EgressIInv => NoMutualRefusal
  BY DEF EgressIInv, Orderly, Yields, NoMutualRefusal
<1> QED BY <1>1, EgressInitHolds, EgressStepHolds, PTL DEF Spec

(* A container that nobody has reserved has the table that the last        *)
(* operation on it reported to have left, whatever failed, timed out or    *)
(* crashed: a rollback put the table of the snapshot back, or the          *)
(* reservation stayed.                                                     *)
THEOREM UnreservedTablesAreSettled == Spec => []UnreservedIsSettled
<1>1. EgressIInv => UnreservedIsSettled
  BY DEF EgressIInv, Enforcement, Released, Even, UnreservedIsSettled
<1> QED BY <1>1, EgressInitHolds, EgressStepHolds, PTL DEF Spec

(* While a policy that was reported applied stays configured, the running  *)
(* instances it was applied to keep their table: no removal for another    *)
(* policy, no rollback and no command nobody waits for takes it away.      *)
THEOREM ReportsAreEnforced == Spec => []ReportedIsEnforced
<1>1. EgressIInv => ReportedIsEnforced
  BY DEF EgressIInv, Enforcement, Honoured, Promised, ReportedIsEnforced
<1> QED BY <1>1, EgressInitHolds, EgressStepHolds, PTL DEF Spec
=============================================================================
