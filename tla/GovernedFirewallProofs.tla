----------------------- MODULE GovernedFirewallProofs -----------------------
(***************************************************************************)
(* Proofs about GovernedFirewall, for any number of users, approvals,      *)
(* changes, sweeps and faults.                                             *)
(***************************************************************************)
EXTENDS GovernedFirewall, TLAPS

(***************************************************************************)
(* The inductive invariant.                                                *)
(***************************************************************************)
InFlight == {"read", "exec", "record", "answer", "dead"}

(* An approval is executing while a change is at work under it or died,    *)
(* and never open again once its command was sent.                         *)
HoldInv ==
  \A c \in Changes :
    /\ call[c].at = "idle" => claim[c] = None
    /\ call[c].at \in {"idle", "read", "exec"} => call[c].sent = "no"
    /\ claim[c] # None =>
         /\ call[c].at \in InFlight => request[claim[c]].state = "executing"
         /\ call[c].sent # "no" => request[claim[c]].state \in {"executing", "consumed"}

(* The decisions on a request agree with its state.                        *)
DecisionInv ==
  \A q \in Requests :
    /\ request[q].state = "none" => \A u \in Users : decision[q][u] = "none"
    /\ request[q].state = "pending" => /\ \A u \in Users : decision[q][u] # "reject"
                                       /\ request[q].sod => request[q].by \notin Approving(q)
    /\ request[q].state \in Usable => Agreed(q)

(* What was claimed is decided for good.                                   *)
ClaimInv ==
  \A c \in Changes : claim[c] # None =>
    /\ request[claim[c]].state \notin {"none", "pending", "rejected"}
    /\ Agreed(claim[c]) /\ request[claim[c]].action = Spec[c]

IInv == TypeOK /\ HoldInv /\ SingleUse /\ DecisionInv /\ ClaimInv

LEMMA InitInv == ASSUME Init PROVE IInv
<1> USE DEF Init, ApprovalsInit, FirewallInit, Unasked
<1>1. ApprovalsTypeOK BY DEF ApprovalsTypeOK, States
<1>2. FirewallTypeOK BY FirewallAssumption DEF FirewallTypeOK, Idle
<1>3. claim \in [Changes -> Requests \cup {None}] OBVIOUS
<1>4. HoldInv BY DEF HoldInv
<1>5. SingleUse BY ApprovalsAssumption DEF SingleUse, Holds
<1>6. DecisionInv BY DEF DecisionInv, Usable
<1>7. ClaimInv BY DEF ClaimInv
<1> QED BY <1>1, <1>2, <1>3, <1>4, <1>5, <1>6, <1>7 DEF IInv, TypeOK

(***************************************************************************)
(* Types of the steps.                                                     *)
(***************************************************************************)
LEMMA FaultTypes ==
  /\ faults \in 0..MaxFaults /\ Fault => faults' \in 0..MaxFaults
  /\ faults \in 0..MaxFaults /\ Unanswered => faults' \in 0..MaxFaults
BY FirewallAssumption DEF Fault, Unanswered

LEMMA WrittenTypes ==
  ASSUME FirewallTypeOK, NEW c \in Changes, NEW op
  PROVE  Written(op, Spec[c].ip) \subseteq Ips
BY FirewallAssumption DEF FirewallTypeOK, Written

LEMMA MovedTypes ==
  ASSUME FirewallTypeOK, NEW c \in Changes, NEW s \in {"confirmed", "reverted"}, Moved(c, s)
  PROVE  row' \in [Changes -> [state : {"none", "provisional", "confirmed", "reverted", "failed"}, overdue : BOOLEAN]]
BY DEF FirewallTypeOK, Moved

LEMMA NextRowTypes ==
  ASSUME FirewallTypeOK, NEW w \in Workers, NEW c \in Changes, Next1(w, c)
  PROVE  worker' \in [Workers -> [at : {"idle", "undo"} \cup Changes, queue : SUBSET Changes]]
BY DEF FirewallTypeOK, Next1, Idle

LEMMA RevertTypes ==
  ASSUME FirewallTypeOK, RevertNext
  PROVE  FirewallTypeOK' /\ UNCHANGED call
<1> USE DEF FirewallTypeOK
<1>1. ASSUME NEW c \in Changes, Deadline(c) PROVE FirewallTypeOK' /\ UNCHANGED call
  BY <1>1 DEF Deadline
<1>2. ASSUME NEW c \in Changes, ConfirmPlatformChange(c) PROVE FirewallTypeOK' /\ UNCHANGED call
  BY <1>2, MovedTypes DEF ConfirmPlatformChange
<1>3. ASSUME NEW w \in Workers, NEW rows \in SUBSET Changes, Begin(w, rows) PROVE FirewallTypeOK' /\ UNCHANGED call
  <2>1. worker' = [worker EXCEPT ![w] = [at |-> "undo", queue |-> rows]] BY <1>3 DEF Begin
  <2>2. [at |-> "undo", queue |-> rows] \in [at : {"idle", "undo"} \cup Changes, queue : SUBSET Changes] OBVIOUS
  <2>3. worker' \in [Workers -> [at : {"idle", "undo"} \cup Changes, queue : SUBSET Changes]] BY <2>1, <2>2
  <2> QED BY <1>3, <2>3 DEF Begin
<1>4. ASSUME NEW m \in Reverts, NEW c \in Changes, RevertPlatformChange(m, c) PROVE FirewallTypeOK' /\ UNCHANGED call
  BY <1>3, <1>4 DEF RevertPlatformChange, Workers
<1>5. ASSUME NEW s \in Sweeps, SweepExpired(s) PROVE FirewallTypeOK' /\ UNCHANGED call
  BY <1>3, <1>5 DEF SweepExpired, Workers
<1>6. ASSUME NEW w \in Workers, NEW c \in Changes, Undo(w, c) PROVE FirewallTypeOK' /\ UNCHANGED call
  <2>1. allowed' \subseteq Ips
    <3>1. allowed' = allowed \/ allowed' = Written(Inverse(Spec[c].op), Spec[c].ip) BY <1>6 DEF Undo
    <3>2. Written(Inverse(Spec[c].op), Spec[c].ip) \subseteq Ips BY WrittenTypes
    <3> QED BY <3>1, <3>2
  <2>2. faults' \in 0..MaxFaults BY <1>6, FaultTypes DEF Undo
  <2>3. worker' \in [Workers -> [at : {"idle", "undo"} \cup Changes, queue : SUBSET Changes]]
    BY <1>6, NextRowTypes DEF Undo
  <2> QED BY <1>6, <2>1, <2>2, <2>3 DEF Undo
<1>7. ASSUME NEW w \in Workers, NEW c \in Changes, Mark(w, c) PROVE FirewallTypeOK' /\ UNCHANGED call
  BY <1>7, MovedTypes, NextRowTypes DEF Mark
<1> QED BY <1>1, <1>2, <1>4, <1>5, <1>6, <1>7 DEF RevertNext

LEMMA DecisionTypes ==
  ASSUME ApprovalsTypeOK, DecisionNext
  PROVE  ApprovalsTypeOK'
<1> USE DEF ApprovalsTypeOK, States, Open
<1>1. ASSUME NEW q \in Requests, NEW u \in Requesters, NEW a \in Actions, NEW policy \in Policies,
             CreateRequest(q, u, a, policy)
      PROVE  ApprovalsTypeOK'
  BY <1>1, ApprovalsAssumption DEF CreateRequest
<1>2. ASSUME NEW q \in Requests, NEW u \in Users, Approve(q, u) PROVE ApprovalsTypeOK'
  BY <1>2 DEF Approve
<1>3. ASSUME NEW q \in Requests, NEW u \in Users, Reject(q, u) PROVE ApprovalsTypeOK'
  BY <1>3 DEF Reject
<1>4. ASSUME NEW q \in Requests, Lapse(q) PROVE ApprovalsTypeOK'
  BY <1>4 DEF Lapse
<1>5. ASSUME Expire PROVE ApprovalsTypeOK'
  BY <1>5 DEF Expire
<1> QED BY <1>1, <1>2, <1>3, <1>4, <1>5 DEF DecisionNext

(***************************************************************************)
(* Decisions.                                                              *)
(***************************************************************************)
(* A step after which no request is claimed, finished or decided: what it  *)
(* leaves alone.                                                           *)
SameAsk(q) ==
  /\ request'[q].required = request[q].required /\ request'[q].sod = request[q].sod
  /\ request'[q].by = request[q].by /\ request'[q].action = request[q].action

LEMMA AgreedStays ==
  ASSUME NEW q \in Requests, SameAsk(q), decision'[q] = decision[q]
  PROVE  /\ Approving(q)' = Approving(q)
         /\ Agreed(q) => Agreed(q)'
BY DEF SameAsk, Agreed, Approving

(* A decision step leaves every claimed request alone.                     *)
LEMMA DecisionInvs ==
  ASSUME IInv, DecisionNext, UNCHANGED claim, UNCHANGED call
  PROVE  HoldInv' /\ DecisionInv' /\ ClaimInv'
<1> USE DEF IInv, TypeOK
<1> DEFINE Fine(q) ==
      /\ request'[q].state = "none" => \A u \in Users : decision'[q][u] = "none"
      /\ request'[q].state = "pending" => /\ \A u \in Users : decision'[q][u] # "reject"
                                          /\ request'[q].sod => request'[q].by \notin Approving(q)'
      /\ request'[q].state \in Usable => Agreed(q)'
      Left(q) ==
      /\ request[q].state \notin {"none", "pending", "rejected"} =>
           /\ request'[q].state \notin {"none", "pending", "rejected"}
           /\ SameAsk(q) /\ decision'[q] = decision[q]
      /\ request[q].state \in {"executing", "consumed"} => request'[q].state = request[q].state
<1>1. ASSUME NEW q \in Requests, NEW u \in Requesters, NEW a \in Actions, NEW policy \in Policies,
             CreateRequest(q, u, a, policy), NEW r \in Requests
      PROVE  Fine(r) /\ Left(r)
  <2>1. CASE r = q
    <3>1. request[q].state = "none" /\ request'[q].state = "pending"
      BY <1>1 DEF CreateRequest, ApprovalsTypeOK
    <3>2. \A v \in Users : decision'[q][v] = "none" BY <1>1, <3>1 DEF CreateRequest, DecisionInv
    <3> QED BY <2>1, <3>1, <3>2 DEF Approving, Usable
  <2>2. CASE r # q
    <3>1. request'[r] = request[r] /\ decision' = decision BY <1>1, <2>2 DEF CreateRequest, ApprovalsTypeOK
    <3> QED BY <3>1, AgreedStays DEF DecisionInv, SameAsk, Approving
  <2> QED BY <2>1, <2>2
<1>2. ASSUME NEW q \in Requests, NEW u \in Users, Approve(q, u), NEW r \in Requests
      PROVE  Fine(r) /\ Left(r)
  <2>0. request[q].state = "pending" /\ (request[q].sod => request[q].by # u) BY <1>2 DEF Approve, MayDecide
  <2>1. CASE r = q
    <3>1. decision'[q] = [decision[q] EXCEPT ![u] = "approve"] BY <1>2 DEF Approve, ApprovalsTypeOK
    <3>2. SameAsk(q) /\ request'[q].state \in {"pending", "approved"}
      BY <1>2, <2>0 DEF Approve, SameAsk, ApprovalsTypeOK
    <3>3. Approving(q)' = Approving(q) \cup {u} BY <3>1 DEF Approving, ApprovalsTypeOK
    <3>4. \A v \in Users : decision'[q][v] # "reject" BY <2>0, <3>1 DEF DecisionInv, ApprovalsTypeOK
    <3>5. request[q].sod => request[q].by \notin Approving(q)' BY <2>0, <3>3 DEF DecisionInv
    <3>6. request'[q].state = "approved" => Cardinality(Approving(q)') >= request[q].required
      <4>1. request'[q].state = "approved" => Cardinality(Approving(q) \cup {u}) >= request[q].required
        BY <1>2, <2>0 DEF Approve, ApprovalsTypeOK
      <4> QED BY <4>1, <3>3
    <3> QED BY <2>0, <2>1, <3>2, <3>4, <3>5, <3>6 DEF SameAsk, Agreed, Usable
  <2>2. CASE r # q
    <3>1. request'[r] = request[r] /\ decision'[r] = decision[r] BY <1>2, <2>2 DEF Approve, ApprovalsTypeOK
    <3> QED BY <3>1, AgreedStays DEF DecisionInv, SameAsk, Approving
  <2> QED BY <2>1, <2>2
<1>3. ASSUME NEW q \in Requests, NEW u \in Users, Reject(q, u), NEW r \in Requests
      PROVE  Fine(r) /\ Left(r)
  <2>1. CASE r = q
    <3>1. request[q].state = "pending" /\ request'[q].state = "rejected"
      BY <1>3 DEF Reject, MayDecide, ApprovalsTypeOK
    <3> QED BY <2>1, <3>1 DEF Usable
  <2>2. CASE r # q
    <3>1. request'[r] = request[r] /\ decision'[r] = decision[r] BY <1>3, <2>2 DEF Reject, ApprovalsTypeOK
    <3> QED BY <3>1, AgreedStays DEF DecisionInv, SameAsk, Approving
  <2> QED BY <2>1, <2>2
<1>4. ASSUME NEW q \in Requests, Lapse(q), NEW r \in Requests PROVE Fine(r) /\ Left(r)
  <2>1. request'[r].state = request[r].state /\ SameAsk(r) /\ decision' = decision
    BY <1>4 DEF Lapse, SameAsk, ApprovalsTypeOK
  <2> QED BY <2>1, AgreedStays DEF DecisionInv, SameAsk
<1>5. ASSUME Expire, NEW r \in Requests PROVE Fine(r) /\ Left(r)
  <2>1. SameAsk(r) /\ decision' = decision BY <1>5 DEF Expire, SameAsk, ApprovalsTypeOK
  <2>2. \/ request'[r].state = request[r].state
        \/ request[r].state \in {"pending", "approved"} /\ request'[r].state = "expired"
    BY <1>5 DEF Expire, Open, ApprovalsTypeOK
  <2> QED BY <2>1, <2>2, AgreedStays DEF DecisionInv, SameAsk, Usable
<1>6. \A r \in Requests : Fine(r) /\ Left(r) BY <1>1, <1>2, <1>3, <1>4, <1>5 DEF DecisionNext
<1>7. DecisionInv'
  <2> SUFFICES ASSUME NEW r \in Requests
               PROVE  /\ request'[r].state = "none" => \A u \in Users : decision'[r][u] = "none"
                      /\ request'[r].state = "pending" => /\ \A u \in Users : decision'[r][u] # "reject"
                                                          /\ request'[r].sod => request'[r].by \notin Approving(r)'
                      /\ request'[r].state \in Usable => Agreed(r)'
    BY DEF DecisionInv
  <2> QED BY <1>6
<1>8. HoldInv' BY <1>6 DEF HoldInv
<1>9. ClaimInv'
  <2> SUFFICES ASSUME NEW c \in Changes, claim[c] # None
               PROVE  /\ request'[claim[c]].state \notin {"none", "pending", "rejected"}
                      /\ Agreed(claim[c])' /\ request'[claim[c]].action = Spec[c]
    BY DEF ClaimInv
  <2>1. claim[c] \in Requests OBVIOUS
  <2>2. Left(claim[c]) BY <1>6, <2>1
  <2>3. SameAsk(claim[c]) /\ decision'[claim[c]] = decision[claim[c]] BY <2>2 DEF ClaimInv
  <2>4. Agreed(claim[c])' BY <2>1, <2>3, AgreedStays DEF ClaimInv
  <2> QED BY <2>2, <2>3, <2>4 DEF ClaimInv, SameAsk
<1> QED BY <1>7, <1>8, <1>9

(***************************************************************************)
(* Steps of one change on the host.                                        *)
(***************************************************************************)
LEMMA RanTypes ==
  ASSUME FirewallTypeOK, NEW c \in Changes, NEW sent \in {"vain", "hit"}, NEW ok \in BOOLEAN, Ran(c, sent, ok)
  PROVE  /\ call' \in [Changes -> [at : {"idle", "read", "exec", "record", "answer", "done", "dead"},
                                   sent : {"no", "vain", "hit"}, ok : BOOLEAN]]
         /\ call'[c].at = "record"
         /\ \A d \in Changes : d # c => call'[d] = call[d]
<1> DEFINE new == [at |-> "record", sent |-> sent, ok |-> ok]
<1>1. call' = [call EXCEPT ![c] = new] BY DEF Ran
<1>2. new \in [at : {"idle", "read", "exec", "record", "answer", "done", "dead"}, sent : {"no", "vain", "hit"}, ok : BOOLEAN]
  OBVIOUS
<1>3. new.at = "record" OBVIOUS
<1> HIDE DEF new
<1> QED BY <1>1, <1>2, <1>3 DEF FirewallTypeOK

LEMMA AtTypes ==
  ASSUME FirewallTypeOK, NEW c \in Changes, NEW step \in {"read", "exec", "answer", "done"}, At(c, step)
  PROVE  /\ call' \in [Changes -> [at : {"idle", "read", "exec", "record", "answer", "done", "dead"},
                                   sent : {"no", "vain", "hit"}, ok : BOOLEAN]]
         /\ call'[c].at = step /\ call'[c].sent = call[c].sent
         /\ \A d \in Changes : d # c => call'[d] = call[d]
BY DEF At, FirewallTypeOK

(* What a step of c does to its call, as far as approvals are concerned.   *)
Works(c) ==
  /\ call[c].at \in InFlight /\ call'[c].at \in {"exec", "record", "answer"}
  /\ call'[c].at = "exec" => call'[c].sent = call[c].sent /\ call[c].at = "read"
  /\ \A d \in Changes : d # c => call'[d] = call[d]

LEMMA WorkTypes ==
  ASSUME FirewallTypeOK, NEW c \in Changes, ReadRuleset(c) \/ ExecEsxiChange(c) \/ Record(c)
  PROVE  FirewallTypeOK' /\ Works(c)
<1>1. CASE ReadRuleset(c)
  <2>1. call[c].at = "read" /\ UNCHANGED <<allowed, row, worker>> /\ (At(c, "exec") \/ At(c, "answer"))
    BY <1>1 DEF ReadRuleset
  <2>2. faults' \in 0..MaxFaults BY <1>1, FaultTypes DEF ReadRuleset, FirewallTypeOK
  <2>3. CASE At(c, "exec") BY <2>1, <2>2, <2>3, AtTypes DEF FirewallTypeOK, Works, InFlight
  <2>4. CASE At(c, "answer") BY <2>1, <2>2, <2>4, AtTypes DEF FirewallTypeOK, Works, InFlight
  <2> QED BY <2>1, <2>3, <2>4
<1>2. CASE ExecEsxiChange(c)
  <2>1. call[c].at = "exec" /\ UNCHANGED <<row, worker>>
    BY <1>2 DEF ExecEsxiChange
  <2>2. \E sent \in {"vain", "hit"}, ok \in BOOLEAN : Ran(c, sent, ok)
    BY <1>2 DEF ExecEsxiChange
  <2>3. faults' \in 0..MaxFaults BY <1>2, FaultTypes DEF ExecEsxiChange, FirewallTypeOK
  <2>4. allowed' = allowed \/ allowed' = Written(Spec[c].op, Spec[c].ip) BY <1>2 DEF ExecEsxiChange
  <2>5. Written(Spec[c].op, Spec[c].ip) \subseteq Ips BY WrittenTypes
  <2> QED BY <2>1, <2>2, <2>3, <2>4, <2>5, RanTypes DEF FirewallTypeOK, Works, InFlight
<1>3. CASE Record(c)
  <2>1. call[c].at = "record" /\ At(c, "answer") /\ UNCHANGED <<allowed, worker, faults>> BY <1>3 DEF Record
  <2>2. row' \in [Changes -> [state : {"none", "provisional", "confirmed", "reverted", "failed"}, overdue : BOOLEAN]]
    BY <1>3 DEF Record, FirewallTypeOK
  <2> QED BY <2>1, <2>2, AtTypes DEF FirewallTypeOK, Works, InFlight
<1> QED BY <1>1, <1>2, <1>3

LEMMA CrashTypes ==
  ASSUME FirewallTypeOK, Crash
  PROVE  /\ FirewallTypeOK'
         /\ \A c \in Changes : \/ call'[c] = call[c]
                               \/ /\ call[c].at \in InFlight /\ call'[c].at = "dead"
                                  /\ call'[c].sent = call[c].sent
<1>1. faults' \in 0..MaxFaults BY FaultTypes DEF Crash, FirewallTypeOK
<1>2. /\ call' \in [Changes -> [at : {"idle", "read", "exec", "record", "answer", "done", "dead"},
                                sent : {"no", "vain", "hit"}, ok : BOOLEAN]]
      /\ \A c \in Changes : \/ call'[c] = call[c]
                            \/ /\ call[c].at \in InFlight /\ call'[c].at = "dead"
                               /\ call'[c].sent = call[c].sent
  BY DEF Crash, FirewallTypeOK, InFlight
<1>3. worker' \in [Workers -> [at : {"idle", "undo"} \cup Changes, queue : SUBSET Changes]]
  BY DEF Crash, Idle
<1> QED BY <1>1, <1>2, <1>3 DEF Crash, FirewallTypeOK

(* Steps that leave the approvals alone keep the invariant.                *)
LEMMA WorkInvs ==
  ASSUME IInv, UNCHANGED <<approvals, claim>>,
         \A c \in Changes :
           \/ call'[c] = call[c]
           \/ Works(c)
           \/ call[c].at \in InFlight /\ call'[c].at = "dead" /\ call'[c].sent = call[c].sent
           \/ call[c].at = "answer" /\ call'[c].at = "done" /\ call'[c].sent = call[c].sent
  PROVE  HoldInv' /\ SingleUse' /\ DecisionInv' /\ ClaimInv'
<1> USE DEF IInv, TypeOK
<1>1. HoldInv'
  <2> SUFFICES ASSUME NEW c \in Changes
               PROVE  /\ call'[c].at = "idle" => claim[c] = None
                      /\ call'[c].at \in {"idle", "read", "exec"} => call'[c].sent = "no"
                      /\ claim[c] # None =>
                           /\ call'[c].at \in InFlight => request[claim[c]].state = "executing"
                           /\ call'[c].sent # "no" => request[claim[c]].state \in {"executing", "consumed"}
    BY DEF HoldInv, approvals
  <2> QED BY DEF HoldInv, Works, InFlight
<1>2. \A c \in Changes, q \in Requests : Holds(c, q)' => Holds(c, q)
  BY DEF HoldInv, Works, InFlight, Holds
<1>3. SingleUse' BY <1>2 DEF SingleUse
<1>4. DecisionInv' BY DEF DecisionInv, approvals, Agreed, Approving
<1>5. ClaimInv' BY DEF ClaimInv, approvals, Agreed, Approving
<1> QED BY <1>1, <1>3, <1>4, <1>5

(***************************************************************************)
(* Steps that claim and settle approvals.                                  *)
(***************************************************************************)
(* An approved request can be claimed: whoever ran under it before was     *)
(* turned away.                                                            *)
LEMMA Unheld ==
  ASSUME IInv, NEW q \in Requests, request[q].state = "approved", NEW d \in Changes, claim[d] = q
  PROVE  call[d].at = "done" /\ call[d].sent = "no"
<1>1. q # None BY ApprovalsAssumption
<1>2. call[d].at \notin InFlight /\ call[d].at # "idle" /\ call[d].sent = "no" BY <1>1 DEF IInv, HoldInv
<1>3. call[d].at \in {"idle", "read", "exec", "record", "answer", "done", "dead"}
  BY DEF IInv, TypeOK, FirewallTypeOK
<1> QED BY <1>2, <1>3 DEF InFlight

LEMMA SubmitInv == ASSUME IInv, NEW c \in Changes, Submit(c) PROVE IInv'
<1> USE DEF IInv, TypeOK
<1>1. call[c].at = "idle" /\ At(c, "read") /\ UNCHANGED <<allowed, row, worker, faults>>
  BY DEF Submit, Arrive
<1>2. /\ FirewallTypeOK' /\ call'[c].at = "read" /\ call'[c].sent = "no"
      /\ \A d \in Changes : d # c => call'[d] = call[d]
  BY <1>1, AtTypes DEF FirewallTypeOK, HoldInv
<1>3. claim[c] = None BY <1>1 DEF HoldInv
<1>4. CASE UNCHANGED <<approvals, claim>>
  <2>1. TypeOK' BY <1>2, <1>4 DEF ApprovalsTypeOK, approvals
  <2>2. HoldInv' BY <1>2, <1>3, <1>4 DEF HoldInv, approvals
  <2>3. \A d \in Changes, r \in Requests : Holds(d, r)' => Holds(d, r)
    BY <1>2, <1>3, <1>4, ApprovalsAssumption DEF Holds
  <2>4. SingleUse' BY <2>3 DEF SingleUse
  <2>5. DecisionInv' BY <1>4 DEF DecisionInv, approvals, Agreed, Approving
  <2>6. ClaimInv' BY <1>4 DEF ClaimInv, approvals, Agreed, Approving
  <2> QED BY <2>1, <2>2, <2>4, <2>5, <2>6
<1>5. ASSUME NEW q \in Requests, Claim(q, Spec[c]), claim' = [claim EXCEPT ![c] = q]
      PROVE  IInv'
  <2>1. /\ request[q].state = "approved" /\ request[q].action = Spec[c] /\ decision' = decision
        /\ request' = [request EXCEPT ![q].state = "executing"]
    BY <1>5 DEF Claim
  <2>2. ApprovalsTypeOK' BY <2>1 DEF ApprovalsTypeOK, States, Usable
  <2>3. request'[q].state = "executing" /\ SameAsk(q) BY <2>1 DEF ApprovalsTypeOK, SameAsk
  <2>4. \A r \in Requests : r # q => request'[r] = request[r] BY <2>1 DEF ApprovalsTypeOK
  <2>5. claim' \in [Changes -> Requests \cup {None}] /\ claim'[c] = q BY <1>5
  <2>6. \A d \in Changes : d # c => claim'[d] = claim[d] BY <1>5
  <2>7. TypeOK' BY <1>2, <2>2, <2>5
  <2>8. HoldInv'
    <3> SUFFICES ASSUME NEW d \in Changes
                 PROVE  /\ call'[d].at = "idle" => claim'[d] = None
                        /\ call'[d].at \in {"idle", "read", "exec"} => call'[d].sent = "no"
                        /\ claim'[d] # None =>
                             /\ call'[d].at \in InFlight => request'[claim'[d]].state = "executing"
                             /\ call'[d].sent # "no" => request'[claim'[d]].state \in {"executing", "consumed"}
      BY DEF HoldInv
    <3>1. CASE d = c BY <1>2, <2>3, <2>5, <3>1 DEF InFlight
    <3>2. CASE d # c /\ claim[d] = q
      BY <1>2, <2>1, <2>6, <3>2, Unheld DEF InFlight
    <3>3. CASE d # c /\ claim[d] # q BY <1>2, <2>4, <2>6, <3>3 DEF HoldInv
    <3> QED BY <3>1, <3>2, <3>3
  <2>9. SingleUse'
    <3>1. \A d \in Changes : d # c => ~Holds(d, q)' BY <1>2, <2>1, <2>6, Unheld DEF Holds
    <3>2. \A d \in Changes, r \in Requests : r # q /\ Holds(d, r)' => Holds(d, r)
      BY <1>2, <2>5, <2>6 DEF Holds
    <3> QED BY <3>1, <3>2 DEF SingleUse
  <2>10. DecisionInv'
    <3> SUFFICES ASSUME NEW r \in Requests
                 PROVE  /\ request'[r].state = "none" => \A u \in Users : decision'[r][u] = "none"
                        /\ request'[r].state = "pending" =>
                             /\ \A u \in Users : decision'[r][u] # "reject"
                             /\ request'[r].sod => request'[r].by \notin Approving(r)'
                        /\ request'[r].state \in Usable => Agreed(r)'
      BY DEF DecisionInv
    <3>1. CASE r = q BY <2>1, <2>3, <3>1, AgreedStays DEF DecisionInv, Usable
    <3>2. CASE r # q BY <2>1, <2>4, <3>2, AgreedStays DEF DecisionInv, SameAsk, Approving
    <3> QED BY <3>1, <3>2
  <2>11. ClaimInv'
    <3> SUFFICES ASSUME NEW d \in Changes, NEW r \in Requests, claim'[d] = r
                 PROVE  /\ request'[r].state \notin {"none", "pending", "rejected"}
                        /\ Agreed(r)' /\ request'[r].action = Spec[d]
      BY <2>5 DEF ClaimInv, Agreed, Approving
    <3>1. CASE r = q
      <4>1. Agreed(q)' BY <2>1, <2>3, AgreedStays DEF DecisionInv, Usable
      <4>2. request[q].action = Spec[d]
        BY <2>1, <2>6, <3>1, ApprovalsAssumption DEF ClaimInv
      <4> QED BY <2>3, <3>1, <4>1, <4>2 DEF SameAsk
    <3>2. CASE r # q
      <4>1. claim[d] = r /\ r # None BY <2>5, <2>6, <3>2, ApprovalsAssumption
      <4>2. request'[r] = request[r] /\ decision' = decision BY <2>1, <2>4, <3>2
      <4>3. Agreed(r) /\ request[r].state \notin {"none", "pending", "rejected"} /\ request[r].action = Spec[d]
        BY <4>1 DEF ClaimInv
      <4> QED BY <4>2, <4>3, AgreedStays DEF SameAsk
    <3> QED BY <3>1, <3>2
  <2> QED BY <2>7, <2>8, <2>9, <2>10, <2>11
<1> QED BY <1>4, <1>5 DEF Submit

LEMMA StateTypes ==
  ASSUME ApprovalsTypeOK, NEW q \in Requests, NEW s \in States,
         request' = [request EXCEPT ![q].state = s], decision' = decision
  PROVE  ApprovalsTypeOK'
<1> DEFINE Rows == [state : States, by : Users \cup {None}, action : Actions \cup {None},
                    required : 1..2, sod : BOOLEAN, due : BOOLEAN]
<1>1. request[q] \in Rows BY DEF ApprovalsTypeOK
<1>2. [request[q] EXCEPT !.state = s] \in Rows BY <1>1
<1>3. request' = [request EXCEPT ![q] = [request[q] EXCEPT !.state = s]] OBVIOUS
<1> HIDE DEF Rows
<1>4. request \in [Requests -> Rows] BY DEF ApprovalsTypeOK, Rows
<1>5. request' \in [Requests -> Rows] BY <1>2, <1>3, <1>4
<1> QED BY <1>5 DEF ApprovalsTypeOK, Rows

(* The response settles the approval: it is given back only by a change    *)
(* that has not sent its command.                                          *)
LEMMA SettleInvs ==
  ASSUME IInv, NEW c \in Changes, NEW success \in BOOLEAN, Settle(c, success), UNCHANGED claim,
         call[c].at \in {"read", "answer"}, call'[c].at = "done", call'[c].sent = call[c].sent,
         \A d \in Changes : d # c => call'[d] = call[d],
         success \/ call[c].sent = "no"
  PROVE  ApprovalsTypeOK' /\ HoldInv' /\ SingleUse' /\ DecisionInv' /\ ClaimInv'
<1> USE DEF IInv, TypeOK
<1>1. CASE claim[c] = None
  <2>1. UNCHANGED <<approvals, claim>> BY <1>1 DEF Settle
  <2>2. call[c].at = "read" => call[c].sent = "no" BY DEF HoldInv
  <2>3. ApprovalsTypeOK' BY <2>1 DEF approvals, ApprovalsTypeOK
  <2>4. HoldInv' BY <1>1, <2>1 DEF HoldInv, approvals
  <2>5. \A d \in Changes, q \in Requests : Holds(d, q)' => Holds(d, q)
    BY <1>1, <2>1, ApprovalsAssumption DEF Holds
  <2>6. SingleUse' BY <2>5 DEF SingleUse
  <2>7. DecisionInv' BY <2>1 DEF DecisionInv, approvals, Agreed, Approving
  <2>8. ClaimInv' BY <2>1 DEF ClaimInv, approvals, Agreed, Approving
  <2> QED BY <2>3, <2>4, <2>6, <2>7, <2>8
<1>2. CASE claim[c] # None
  <2> PICK q \in Requests : claim[c] = q BY <1>2
  <2>1. q # None /\ request[q].state = "executing" BY <1>2 DEF HoldInv, InFlight
  <2>2. /\ request' = [request EXCEPT ![q].state = IF success THEN "consumed" ELSE "approved"]
        /\ decision' = decision
    BY <1>2, <2>1 DEF Settle, FinishClaim
  <2>3. ApprovalsTypeOK'
    <3>1. PICK s \in {"consumed", "approved"} : request' = [request EXCEPT ![q].state = s]
      BY <2>2, Zenon
    <3>2. s \in States BY <3>1 DEF States, Open, Usable
    <3>3. decision' = decision BY <2>2
    <3> QED BY <3>1, <3>2, <3>3, StateTypes
  <2>4. /\ request'[q].state = IF success THEN "consumed" ELSE "approved"
        /\ SameAsk(q)
        /\ \A r \in Requests : r # q => request'[r] = request[r]
    BY <2>1, <2>2 DEF ApprovalsTypeOK, SameAsk
  <2>5. Holds(c, q) BY DEF Holds
  <2>6. \A d \in Changes : d # c /\ claim[d] = q => call'[d].at = "done" /\ call'[d].sent = "no"
    BY <2>1, <2>5 DEF SingleUse, Holds
  <2>7. HoldInv'
    <3> SUFFICES ASSUME NEW d \in Changes
                 PROVE  /\ call'[d].at = "idle" => claim[d] = None
                        /\ call'[d].at \in {"idle", "read", "exec"} => call'[d].sent = "no"
                        /\ claim[d] # None =>
                             /\ call'[d].at \in InFlight => request'[claim[d]].state = "executing"
                             /\ call'[d].sent # "no" => request'[claim[d]].state \in {"executing", "consumed"}
      BY DEF HoldInv
    <3>1. CASE d = c BY <2>4, <3>1 DEF InFlight
    <3>2. CASE d # c /\ claim[d] = q BY <2>6, <3>2 DEF InFlight
    <3>3. CASE d # c /\ claim[d] # q BY <2>4, <3>3 DEF HoldInv
    <3> QED BY <3>1, <3>2, <3>3
  <2>8. \A d \in Changes, r \in Requests : Holds(d, r)' => Holds(d, r) BY <2>5 DEF Holds
  <2>9. SingleUse' BY <2>8 DEF SingleUse
  <2>10. Agreed(q)' BY <2>1, <2>2, <2>4, AgreedStays DEF ClaimInv
  <2>11. DecisionInv'
    <3> SUFFICES ASSUME NEW r \in Requests
                 PROVE  /\ request'[r].state = "none" => \A u \in Users : decision'[r][u] = "none"
                        /\ request'[r].state = "pending" =>
                             /\ \A u \in Users : decision'[r][u] # "reject"
                             /\ request'[r].sod => request'[r].by \notin Approving(r)'
                        /\ request'[r].state \in Usable => Agreed(r)'
      BY DEF DecisionInv
    <3>1. CASE r = q BY <2>4, <2>10, <3>1
    <3>2. CASE r # q BY <2>2, <2>4, <3>2, AgreedStays DEF DecisionInv, SameAsk, Approving
    <3> QED BY <3>1, <3>2
  <2>12. ClaimInv'
    <3> SUFFICES ASSUME NEW d \in Changes, NEW r \in Requests, r # None, claim[d] = r
                 PROVE  /\ request'[r].state \notin {"none", "pending", "rejected"}
                        /\ Agreed(r)' /\ request'[r].action = Spec[d]
      BY DEF ClaimInv, Agreed, Approving
    <3>1. Agreed(r) /\ request[r].state \notin {"none", "pending", "rejected"} /\ request[r].action = Spec[d]
      BY DEF ClaimInv
    <3>2. CASE r = q BY <2>4, <2>10, <3>1, <3>2 DEF SameAsk
    <3>3. CASE r # q BY <2>2, <2>4, <3>1, <3>3, AgreedStays DEF SameAsk
    <3> QED BY <3>2, <3>3
  <2> QED BY <2>3, <2>7, <2>9, <2>11, <2>12
<1> QED BY <1>1, <1>2

(***************************************************************************)
(* What the host lists, against what the rows tell.                        *)
(*                                                                         *)
(* That a row accounts for an address is not inductive: a sweep that has   *)
(* sent the inverse command marks the row later, whatever happened in      *)
(* between.  The change that ran last on an address is one that nobody is  *)
(* about to mark (Standing), for a sweep only takes rows that have run     *)
(* (RowInv), and its inverse command puts the address back (Reverting).    *)
(***************************************************************************)
Written1 == {"provisional", "confirmed", "reverted"}

(* Rows and the queues of the sweeps are about changes that took effect.   *)
RowInv ==
  /\ \A c \in Changes :
       /\ call[c].at \in {"idle", "read", "exec", "record"} => row[c].state = "none"
       /\ row[c].state \in Written1 => call[c].sent = "hit"
       /\ call[c].ok => call[c].sent = "hit"
  /\ \A w \in Workers :
       /\ \A c \in worker[w].queue : row[c].state \in Written1
       /\ worker[w].at \in Changes => worker[w].at \in worker[w].queue

(* c would list what is listed at first, or the other way round.           *)
Idem(c) == (Spec[c].ip \in Listed) <=> (Spec[c].op = "add")

(* Where all changes agree, one that asks for what was there at first      *)
(* never takes effect.                                                     *)
IdemInv ==
  \A c \in Changes : OneWay(Spec[c].ip) /\ Idem(c) =>
    call[c].sent # "hit" /\ (Spec[c].ip \in allowed <=> Spec[c].ip \in Listed)

Standing(c) == Accounts(c) /\ \A w \in Workers : worker[w].at # c

Differs(ip) == (ip \in allowed) # (ip \in Listed)

StandInv ==
  \A ip \in Ips : OneWay(ip) /\ Differs(ip) => \E c \in Changes : Spec[c].ip = ip /\ Standing(c)

EffectInv == RowInv /\ IdemInv /\ StandInv

Busy == {"idle", "read", "exec", "record"}

LEMMA EffectInit == ASSUME Init PROVE EffectInv
<1> USE DEF Init, FirewallInit, Idle
<1>1. RowInv BY FirewallAssumption DEF RowInv, Written1
<1>2. IdemInv BY DEF IdemInv
<1>3. StandInv BY DEF StandInv, Differs
<1> QED BY <1>1, <1>2, <1>3 DEF EffectInv

(* Steps of the requests and the process that reach neither the host nor   *)
(* the table, nor the sweeps unless these die.                             *)
LEMMA StayEffect ==
  ASSUME FirewallTypeOK, EffectInv, UNCHANGED <<allowed, row>>,
         worker' = worker \/ worker' = [w \in Workers |-> Idle],
         \A c \in Changes :
           /\ call'[c].sent = call[c].sent /\ (call'[c].ok => call[c].ok)
           /\ call'[c].at \in Busy => call[c].at \in Busy
           /\ call[c].at \in {"record", "dead"} => call'[c].at \in {"record", "dead"}
  PROVE  EffectInv'
<1>1. \A w \in Workers :
        /\ worker'[w].queue \subseteq worker[w].queue
        /\ worker'[w].at \in Changes => worker'[w] = worker[w]
  BY FirewallAssumption DEF Idle
<1>2. RowInv' BY <1>1 DEF EffectInv, RowInv, Busy, FirewallTypeOK
<1>3. IdemInv' BY DEF EffectInv, IdemInv, OneWay, Idem
<1>4. \A c \in Changes : Standing(c) => Standing(c)' BY <1>1 DEF Standing, Accounts
<1>5. StandInv' BY <1>4 DEF EffectInv, StandInv, OneWay, Differs
<1> QED BY <1>2, <1>3, <1>5 DEF EffectInv

(* A row moves on, or its deadline passes; and no worker comes to mark it. *)
LEMMA RowEffect ==
  ASSUME FirewallTypeOK, EffectInv, UNCHANGED <<allowed, call, worker>>, NEW c \in Changes,
         row[c].state \in {"provisional", "confirmed"},
         row'[c].state \in {"provisional", "confirmed"},
         \A d \in Changes \ {c} : row'[d] = row[d]
  PROVE  EffectInv'
<1>1. RowInv'
  <2>1. \A d \in Changes : row'[d].state = "none" <=> row[d].state = "none" OBVIOUS
  <2>2. \A d \in Changes : row'[d].state \in Written1 <=> row[d].state \in Written1 BY DEF Written1
  <2> QED BY <2>1, <2>2 DEF EffectInv, RowInv, FirewallTypeOK
<1>2. IdemInv' BY DEF EffectInv, IdemInv, OneWay, Idem
<1>3. \A d \in Changes : Standing(d) => Standing(d)' BY DEF Standing, Accounts
<1>4. StandInv' BY <1>3 DEF EffectInv, StandInv, OneWay, Differs
<1> QED BY <1>1, <1>2, <1>4 DEF EffectInv

(* A sweep or a manual revert starts with rows that have run.              *)
LEMMA BeginEffect ==
  ASSUME FirewallTypeOK, EffectInv, NEW w \in Workers, NEW rows \in SUBSET Changes, Begin(w, rows),
         \A c \in rows : row[c].state \in {"provisional", "confirmed"}
  PROVE  EffectInv'
<1>1. /\ UNCHANGED <<allowed, call, row>>
      /\ worker'[w].at = "undo" /\ worker'[w].queue = rows
      /\ \A v \in Workers \ {w} : worker'[v] = worker[v]
  BY DEF Begin, FirewallTypeOK
<1>2. worker'[w].at \notin Changes BY <1>1, FirewallAssumption
<1>3. RowInv'
  <2> SUFFICES ASSUME NEW v \in Workers
               PROVE  /\ \A c \in worker'[v].queue : row[c].state \in Written1
                      /\ worker'[v].at \in Changes => worker'[v].at \in worker'[v].queue
    BY <1>1 DEF EffectInv, RowInv
  <2> QED BY <1>1, <1>2 DEF EffectInv, RowInv, Written1
<1>4. IdemInv' BY <1>1 DEF EffectInv, IdemInv, OneWay, Idem
<1>5. \A c \in Changes : Standing(c) => Standing(c)' BY <1>1, <1>2 DEF Standing, Accounts
<1>6. StandInv' BY <1>1, <1>5 DEF EffectInv, StandInv, OneWay, Differs
<1> QED BY <1>3, <1>4, <1>6 DEF EffectInv

(* What Next1 leaves of a worker's queue.                                  *)
LEMMA NextRow ==
  ASSUME FirewallTypeOK, NEW w \in Workers, NEW c \in Changes, Next1(w, c)
  PROVE  /\ worker'[w].queue \subseteq worker[w].queue /\ worker'[w].at \notin Changes
         /\ \A v \in Workers \ {w} : worker'[v] = worker[v]
BY FirewallAssumption DEF FirewallTypeOK, Next1, Idle

(* The inverse of a command that took effect makes its address what it was.*)
LEMMA Reverting ==
  ASSUME FirewallTypeOK, EffectInv, NEW c \in Changes, call[c].sent = "hit", OneWay(Spec[c].ip)
  PROVE  /\ Spec[c].ip \in Written(Inverse(Spec[c].op), Spec[c].ip) <=> Spec[c].ip \in Listed
         /\ \A ip \in Ips \ {Spec[c].ip} :
              ip \in Written(Inverse(Spec[c].op), Spec[c].ip) <=> ip \in allowed
<1>1. ~Idem(c) BY DEF EffectInv, IdemInv
<1>2. Spec[c].op \in {"add", "remove"} BY FirewallAssumption
<1> QED BY <1>1, <1>2 DEF Idem, Written, Inverse

LEMMA UndoEffect ==
  ASSUME FirewallTypeOK, EffectInv, NEW w \in Workers, NEW c \in Changes, Undo(w, c)
  PROVE  EffectInv'
<1>1. UNCHANGED <<call, row>> /\ c \in worker[w].queue BY DEF Undo
<1>2. call[c].sent = "hit" BY <1>1 DEF EffectInv, RowInv
<1>3. \/ allowed' = Written(Inverse(Spec[c].op), Spec[c].ip)
      \/ allowed' = allowed /\ Next1(w, c)
  BY DEF Undo
<1>4. /\ worker'[w].queue \subseteq worker[w].queue
      /\ worker'[w].at \in Changes => worker'[w].at = c /\ c \in worker'[w].queue
      /\ \A v \in Workers \ {w} : worker'[v] = worker[v]
  <2>1. CASE worker' = [worker EXCEPT ![w].at = c] BY <1>1, <2>1 DEF FirewallTypeOK
  <2>2. CASE Next1(w, c) BY <2>2, NextRow
  <2> QED BY <2>1, <2>2 DEF Undo
<1>5. RowInv'
  <2> SUFFICES ASSUME NEW v \in Workers
               PROVE  /\ \A d \in worker'[v].queue : row[d].state \in Written1
                      /\ worker'[v].at \in Changes => worker'[v].at \in worker'[v].queue
    BY <1>1 DEF EffectInv, RowInv
  <2> QED BY <1>4 DEF EffectInv, RowInv
<1>6. \A d \in Changes : Standing(d) /\ (d # c \/ worker'[w].at # c) => Standing(d)'
  <2> SUFFICES ASSUME NEW d \in Changes, Standing(d), d # c \/ worker'[w].at # c, NEW v \in Workers
               PROVE  worker'[v].at # d
    BY <1>1 DEF Standing, Accounts
  <2> QED BY <1>4 DEF Standing
<1>7. CASE allowed' = Written(Inverse(Spec[c].op), Spec[c].ip)
  <2>1. Spec[c].ip \in Ips /\ \A d \in Changes : Spec[d].ip \in Ips BY FirewallAssumption
  <2>2. \A ip \in Ips : OneWay(ip) => \/ ip = Spec[c].ip /\ ~Differs(ip)'
                                      \/ ip # Spec[c].ip /\ (ip \in allowed' <=> ip \in allowed)
    <3> SUFFICES ASSUME NEW ip \in Ips, OneWay(ip)
                 PROVE  \/ ip = Spec[c].ip /\ ~Differs(ip)'
                        \/ ip # Spec[c].ip /\ (ip \in allowed' <=> ip \in allowed)
      OBVIOUS
    <3>1. CASE ip = Spec[c].ip BY <1>2, <1>7, <3>1, Reverting DEF Differs
    <3>2. CASE ip # Spec[c].ip BY <1>7, <3>2 DEF Written
    <3> QED BY <3>1, <3>2
  <2>3. IdemInv' BY <1>1, <2>1, <2>2 DEF EffectInv, IdemInv, OneWay, Idem, Differs
  <2>4. StandInv'
    <3> SUFFICES ASSUME NEW ip \in Ips, OneWay(ip), Differs(ip)'
                 PROVE  \E d \in Changes : Spec[d].ip = ip /\ Standing(d)'
      BY DEF StandInv, OneWay
    <3>1. ip # Spec[c].ip /\ Differs(ip) BY <2>2 DEF Differs
    <3>2. PICK d \in Changes : Spec[d].ip = ip /\ Standing(d) BY <3>1 DEF EffectInv, StandInv
    <3> QED BY <1>6, <3>1, <3>2
  <2> QED BY <1>5, <2>3, <2>4 DEF EffectInv
<1>8. CASE allowed' = allowed /\ Next1(w, c)
  <2>1. worker'[w].at # c BY <1>8, NextRow
  <2>2. IdemInv' BY <1>1, <1>8 DEF EffectInv, IdemInv, OneWay, Idem
  <2>3. StandInv' BY <1>6, <1>8, <2>1 DEF EffectInv, StandInv, OneWay, Differs
  <2> QED BY <1>5, <2>2, <2>3 DEF EffectInv
<1> QED BY <1>3, <1>7, <1>8

(* A row is marked by a worker that had sent its inverse command: the      *)
(* change that accounts for the address is another one.                    *)
LEMMA MarkEffect ==
  ASSUME FirewallTypeOK, EffectInv, NEW w \in Workers, NEW c \in Changes, Mark(w, c)
  PROVE  EffectInv'
<1>1. /\ UNCHANGED <<allowed, call>> /\ worker[w].at = c /\ Next1(w, c)
      /\ row'[c].state = "reverted" /\ \A d \in Changes \ {c} : row'[d] = row[d]
  BY DEF Mark, Moved, FirewallTypeOK
<1>2. /\ worker'[w].queue \subseteq worker[w].queue /\ worker'[w].at \notin Changes
      /\ \A v \in Workers \ {w} : worker'[v] = worker[v]
  BY <1>1, NextRow
<1>3. row[c].state \in Written1 BY <1>1 DEF EffectInv, RowInv
<1>4. \A d \in Changes :
        /\ row'[d].state = "none" <=> row[d].state = "none"
        /\ row'[d].state \in Written1 <=> row[d].state \in Written1
  BY <1>1, <1>3 DEF Written1
<1>5. RowInv'
  <2>1. \A v \in Workers : /\ worker'[v].queue \subseteq worker[v].queue
                           /\ worker'[v].at \in Changes => worker'[v] = worker[v]
    BY <1>2
  <2>2. \A v \in Workers : worker[v].queue \subseteq Changes BY DEF FirewallTypeOK
  <2> QED BY <1>1, <1>4, <2>1, <2>2 DEF EffectInv, RowInv
<1>6. IdemInv' BY <1>1 DEF EffectInv, IdemInv, OneWay, Idem
<1>7. \A d \in Changes : Standing(d) => Standing(d)'
  <2> SUFFICES ASSUME NEW d \in Changes, Standing(d) PROVE Standing(d)'
    OBVIOUS
  <2>1. d # c BY <1>1 DEF Standing
  <2> QED BY <1>1, <1>2, <2>1 DEF Standing, Accounts
<1>8. StandInv' BY <1>1, <1>7 DEF EffectInv, StandInv, OneWay, Differs
<1> QED BY <1>5, <1>6, <1>8 DEF EffectInv

(* A command that takes effect changes its address; nobody is about to     *)
(* take it back.                                                           *)
LEMMA ExecEffect ==
  ASSUME FirewallTypeOK, HoldInv, EffectInv, NEW c \in Changes, ExecEsxiChange(c)
  PROVE  EffectInv'
<1>0. /\ call[c].at = "exec" /\ UNCHANGED <<row, worker>> /\ row[c].state = "none" /\ call[c].sent = "no"
  BY DEF ExecEsxiChange, EffectInv, RowInv, HoldInv
<1>1. PICK sent \in {"vain", "hit"}, ok \in BOOLEAN :
        /\ Ran(c, sent, ok)
        /\ sent = "vain" => allowed' = allowed /\ ~ok
        /\ sent = "hit" => /\ ~AlreadyDone(Spec[c].op, Spec[c].ip)
                           /\ allowed' = Written(Spec[c].op, Spec[c].ip)
  BY DEF ExecEsxiChange
<1>2. /\ call'[c].at = "record" /\ call'[c].sent = sent /\ call'[c].ok = ok
      /\ \A d \in Changes \ {c} : call'[d] = call[d]
  BY <1>1 DEF Ran, FirewallTypeOK
<1>3. \A w \in Workers : worker[w].at # c
  BY <1>0 DEF EffectInv, RowInv, Written1
<1>4. RowInv'
  <2> SUFFICES ASSUME NEW d \in Changes
               PROVE  /\ call'[d].at \in Busy => row[d].state = "none"
                      /\ row[d].state \in Written1 => call'[d].sent = "hit"
                      /\ call'[d].ok => call'[d].sent = "hit"
    BY <1>0 DEF EffectInv, RowInv, Busy
  <2>1. CASE d = c BY <1>0, <1>1, <1>2, <2>1 DEF Written1
  <2>2. CASE d # c BY <1>2, <2>2 DEF EffectInv, RowInv, Busy
  <2> QED BY <2>1, <2>2
<1>5. \A d \in Changes \ {c} : Standing(d) => Standing(d)'
  BY <1>0, <1>2 DEF Standing, Accounts
<1>6. ~Standing(c) BY <1>0 DEF Standing, Accounts
<1>7. CASE sent = "vain"
  <2>1. IdemInv'
    <3> SUFFICES ASSUME NEW d \in Changes, OneWay(Spec[d].ip), Idem(d)
                 PROVE  call'[d].sent # "hit" /\ (Spec[d].ip \in allowed' <=> Spec[d].ip \in Listed)
      BY DEF IdemInv, OneWay, Idem
    <3> QED BY <1>1, <1>2, <1>7 DEF EffectInv, IdemInv
  <2>2. StandInv' BY <1>1, <1>5, <1>6, <1>7 DEF EffectInv, StandInv, OneWay, Differs
  <2> QED BY <1>4, <2>1, <2>2 DEF EffectInv
<1>8. CASE sent = "hit"
  <2>0. Spec[c].ip \in Ips /\ Spec[c].op \in {"add", "remove"} BY FirewallAssumption
  <2>1. \A ip \in Ips \ {Spec[c].ip} : ip \in allowed' <=> ip \in allowed
    BY <1>1, <1>8 DEF Written
  <2>2. Standing(c)' BY <1>0, <1>2, <1>3, <1>8 DEF Standing, Accounts
  <2>3. OneWay(Spec[c].ip) => ~Idem(c)
    BY <1>1, <1>8, <2>0 DEF AlreadyDone, EffectInv, IdemInv, Idem
  <2>4. IdemInv'
    <3> SUFFICES ASSUME NEW d \in Changes, OneWay(Spec[d].ip), Idem(d)
                 PROVE  call'[d].sent # "hit" /\ (Spec[d].ip \in allowed' <=> Spec[d].ip \in Listed)
      BY DEF IdemInv, OneWay, Idem
    <3>1. Spec[d].ip \in Ips BY FirewallAssumption
    <3>2. Spec[d].ip # Spec[c].ip
      BY <2>3 DEF OneWay, Idem
    <3> QED BY <1>2, <2>1, <3>1, <3>2 DEF EffectInv, IdemInv
  <2>5. StandInv'
    <3> SUFFICES ASSUME NEW ip \in Ips, OneWay(ip), Differs(ip)'
                 PROVE  \E d \in Changes : Spec[d].ip = ip /\ Standing(d)'
      BY DEF StandInv, OneWay
    <3>1. CASE ip = Spec[c].ip BY <2>2, <3>1
    <3>2. CASE ip # Spec[c].ip
      <4>1. Differs(ip) BY <2>1, <3>2 DEF Differs
      <4>2. PICK d \in Changes : Spec[d].ip = ip /\ Standing(d) BY <4>1 DEF EffectInv, StandInv
      <4> QED BY <1>5, <3>2, <4>2
    <3> QED BY <3>1, <3>2
  <2> QED BY <1>4, <2>4, <2>5 DEF EffectInv
<1> QED BY <1>7, <1>8

LEMMA RecordEffect ==
  ASSUME FirewallTypeOK, EffectInv, NEW c \in Changes, Record(c)
  PROVE  EffectInv'
<1>0. /\ call[c].at = "record" /\ UNCHANGED <<allowed, worker>> /\ row[c].state = "none"
      /\ At(c, "answer")
      /\ row'[c].state = IF call[c].ok THEN "provisional" ELSE "failed"
      /\ \A d \in Changes \ {c} : row'[d] = row[d]
  BY DEF Record, EffectInv, RowInv, FirewallTypeOK
<1>1. /\ call'[c].at = "answer" /\ call'[c].sent = call[c].sent /\ call'[c].ok = call[c].ok
      /\ \A d \in Changes \ {c} : call'[d] = call[d]
  BY <1>0 DEF At, FirewallTypeOK
<1>2. \A w \in Workers : c \notin worker[w].queue BY <1>0 DEF EffectInv, RowInv, Written1
<1>3. RowInv'
  <2>1. ASSUME NEW d \in Changes
        PROVE  /\ call'[d].at \in Busy => row'[d].state = "none"
               /\ row'[d].state \in Written1 => call'[d].sent = "hit"
               /\ call'[d].ok => call'[d].sent = "hit"
    BY <1>0, <1>1 DEF EffectInv, RowInv, Busy, Written1
  <2>2. ASSUME NEW w \in Workers, NEW d \in worker[w].queue PROVE row'[d].state \in Written1
    BY <1>0, <1>2, <2>2 DEF EffectInv, RowInv, FirewallTypeOK
  <2> QED BY <1>0, <2>1, <2>2 DEF EffectInv, RowInv, Busy
<1>4. IdemInv' BY <1>0, <1>1 DEF EffectInv, IdemInv, OneWay, Idem
<1>5. \A d \in Changes : Standing(d) => Standing(d)' BY <1>0, <1>1 DEF Standing, Accounts
<1>6. StandInv' BY <1>0, <1>5 DEF EffectInv, StandInv, OneWay, Differs
<1> QED BY <1>3, <1>4, <1>6 DEF EffectInv

LEMMA EffectStep == IInv /\ EffectInv /\ [Next]_vars => EffectInv'
<1> SUFFICES ASSUME IInv, EffectInv, [Next]_vars PROVE EffectInv'
  OBVIOUS
<1>0. FirewallTypeOK /\ HoldInv BY DEF IInv, TypeOK
<1>1. ASSUME UNCHANGED firewall PROVE EffectInv'
  BY <1>0, <1>1, StayEffect DEF firewall
<1>2. ASSUME NEW c \in Changes, NEW step \in {"read", "exec", "answer", "done"}, At(c, step),
             UNCHANGED <<allowed, row, worker>>,
             call[c].at \in {"idle", "read"}
      PROVE  EffectInv'
  <2>1. /\ call'[c].at = step /\ call'[c].sent = call[c].sent /\ call'[c].ok = call[c].ok
        /\ \A d \in Changes \ {c} : call'[d] = call[d]
    BY <1>0, <1>2 DEF At, FirewallTypeOK
  <2> QED BY <1>0, <1>2, <2>1, StayEffect DEF Busy
<1>3. ASSUME NEW c \in Changes, Submit(c) \/ Deny(c) \/ ReadRuleset(c) PROVE EffectInv'
  BY <1>2, <1>3 DEF Submit, Arrive, Deny, ReadRuleset
<1>4. ASSUME NEW c \in Changes, Respond(c) \/ HangUp(c) PROVE EffectInv'
  <2>1. Answered(c) BY <1>4 DEF Respond, HangUp
  <2>2. /\ call[c].at = "answer" /\ call'[c].at = "done" /\ call'[c].sent = call[c].sent /\ ~call'[c].ok
        /\ \A d \in Changes \ {c} : call'[d] = call[d]
        /\ UNCHANGED <<allowed, row, worker>>
    BY <1>0, <2>1 DEF Answered, FirewallTypeOK
  <2> QED BY <1>0, <2>2, StayEffect DEF Busy
<1>5. ASSUME Crash PROVE EffectInv'
  <2>1. \A c \in Changes :
          /\ call'[c].sent = call[c].sent /\ call'[c].ok = call[c].ok
          /\ call'[c] = call[c] \/ (call'[c].at = "dead" /\ call[c].at # "idle")
    BY <1>0, <1>5 DEF Crash, FirewallTypeOK
  <2> QED BY <1>0, <1>5, <2>1, StayEffect DEF Crash, Busy
<1>6. ASSUME NEW c \in Changes, Deadline(c) \/ ConfirmPlatformChange(c) PROVE EffectInv'
  <2>1. /\ UNCHANGED <<allowed, call, worker>> /\ row[c].state = "provisional"
        /\ row'[c].state \in {"provisional", "confirmed"}
        /\ \A d \in Changes \ {c} : row'[d] = row[d]
    BY <1>0, <1>6 DEF Deadline, ConfirmPlatformChange, Moved, FirewallTypeOK
  <2> QED BY <1>0, <2>1, RowEffect
<1>7. ASSUME NEW m \in Reverts, NEW c \in Changes, RevertPlatformChange(m, c) PROVE EffectInv'
  BY <1>0, <1>7, BeginEffect DEF RevertPlatformChange, Workers
<1>8. ASSUME NEW s \in Sweeps, SweepExpired(s) PROVE EffectInv'
  BY <1>0, <1>8, BeginEffect DEF SweepExpired, Overdue, Workers
<1>9. CASE RevertNext
  BY <1>0, <1>6, <1>7, <1>8, <1>9, UndoEffect, MarkEffect DEF RevertNext
<1> QED
  BY <1>0, <1>1, <1>3, <1>4, <1>5, <1>9, ExecEffect, RecordEffect DEF Next, vars

(***************************************************************************)
(* The invariant.                                                          *)
(***************************************************************************)
LEMMA AnsweredTypes ==
  ASSUME FirewallTypeOK, NEW c \in Changes, Answered(c)
  PROVE  /\ FirewallTypeOK' /\ call[c].at = "answer"
         /\ call'[c].at = "done" /\ call'[c].sent = call[c].sent
         /\ \A d \in Changes : d # c => call'[d] = call[d]
BY DEF Answered, FirewallTypeOK

LEMMA NextInv == IInv /\ [Next]_vars => IInv'
<1> SUFFICES ASSUME IInv, [Next]_vars PROVE IInv'
  OBVIOUS
<1> USE DEF IInv, TypeOK
<1>1. CASE DecisionNext /\ UNCHANGED <<firewall, claim>>
  <2>1. ApprovalsTypeOK' BY <1>1, DecisionTypes
  <2>2. FirewallTypeOK' BY <1>1 DEF FirewallTypeOK, firewall
  <2>3. UNCHANGED <<call, claim>> BY <1>1 DEF firewall
  <2>4. HoldInv' /\ DecisionInv' /\ ClaimInv' BY <1>1, <2>3, DecisionInvs
  <2>5. SingleUse' BY <2>3 DEF SingleUse, Holds
  <2> QED BY <1>1, <2>1, <2>2, <2>4, <2>5
<1>2. ASSUME NEW c \in Changes, Submit(c) PROVE IInv'
  BY <1>2, SubmitInv
<1>3. ASSUME NEW c \in Changes, Deny(c) PROVE IInv'
  <2>1. call[c].at = "read" /\ At(c, "done") /\ Settle(c, FALSE) /\ UNCHANGED <<allowed, row, worker, faults, claim>>
    BY <1>3 DEF Deny
  <2>2. FirewallTypeOK' BY <2>1, AtTypes DEF FirewallTypeOK
  <2>3. /\ call'[c].at = "done" /\ call'[c].sent = call[c].sent
        /\ \A d \in Changes : d # c => call'[d] = call[d]
    BY <2>1, AtTypes
  <2>4. call[c].sent = "no" BY <2>1 DEF HoldInv
  <2>5. ApprovalsTypeOK' /\ HoldInv' /\ SingleUse' /\ DecisionInv' /\ ClaimInv'
    BY <2>1, <2>3, <2>4, SettleInvs
  <2> QED BY <2>1, <2>2, <2>5
<1>4. ASSUME NEW c \in Changes, ReadRuleset(c) \/ ExecEsxiChange(c) \/ Record(c), UNCHANGED <<approvals, claim>>
      PROVE  IInv'
  <2>1. FirewallTypeOK' /\ Works(c) BY <1>4, WorkTypes
  <2>2. \A d \in Changes : call'[d] = call[d] \/ Works(d) BY <2>1 DEF Works
  <2>3. HoldInv' /\ SingleUse' /\ DecisionInv' /\ ClaimInv' BY <1>4, <2>2, WorkInvs
  <2> QED BY <1>4, <2>1, <2>3 DEF ApprovalsTypeOK, approvals
<1>5. ASSUME NEW c \in Changes, Respond(c) PROVE IInv'
  <2>1. Answered(c) /\ Settle(c, TRUE) /\ UNCHANGED claim BY <1>5 DEF Respond
  <2>2. ApprovalsTypeOK' /\ HoldInv' /\ SingleUse' /\ DecisionInv' /\ ClaimInv'
    BY <2>1, AnsweredTypes, SettleInvs
  <2> QED BY <2>1, <2>2, AnsweredTypes
<1>6. ASSUME NEW c \in Changes, HangUp(c) PROVE IInv'
  <2>1. Answered(c) /\ UNCHANGED <<approvals, claim>> BY <1>6 DEF HangUp
  <2>2. \A d \in Changes :
          call'[d] = call[d] \/ (call[d].at = "answer" /\ call'[d].at = "done" /\ call'[d].sent = call[d].sent)
    BY <2>1, AnsweredTypes
  <2>3. HoldInv' /\ SingleUse' /\ DecisionInv' /\ ClaimInv' BY <2>1, <2>2, WorkInvs
  <2> QED BY <2>1, <2>3, AnsweredTypes DEF ApprovalsTypeOK, approvals
<1>7. CASE RevertNext /\ UNCHANGED <<approvals, claim>>
  <2>1. FirewallTypeOK' /\ UNCHANGED call BY <1>7, RevertTypes
  <2>2. HoldInv' /\ SingleUse' /\ DecisionInv' /\ ClaimInv' BY <1>7, <2>1, WorkInvs
  <2> QED BY <1>7, <2>1, <2>2 DEF ApprovalsTypeOK, approvals
<1>8. CASE Crash /\ UNCHANGED <<approvals, claim>>
  <2>1. HoldInv' /\ SingleUse' /\ DecisionInv' /\ ClaimInv' BY <1>8, CrashTypes, WorkInvs
  <2> QED BY <1>8, <2>1, CrashTypes DEF ApprovalsTypeOK, approvals
<1>9. CASE UNCHANGED vars
  <2>1. UNCHANGED <<approvals, claim, call>> /\ TypeOK'
    BY <1>9 DEF vars, firewall, approvals, ApprovalsTypeOK, FirewallTypeOK
  <2>2. HoldInv' /\ SingleUse' /\ DecisionInv' /\ ClaimInv' BY <2>1, WorkInvs
  <2> QED BY <2>1, <2>2
<1> QED BY <1>1, <1>2, <1>3, <1>4, <1>5, <1>6, <1>7, <1>8, <1>9 DEF Next

LEMMA Invariant == GovernedSpec => []IInv
<1>1. Init => IInv BY InitInv
<1> QED BY <1>1, NextInv, PTL DEF GovernedSpec

(* The variables of the approvals, of the changes and of the sweeps keep   *)
(* their types for any number of users, approvals, changes and faults.     *)
THEOREM TypesHold == GovernedSpec => []TypeOK
<1>1. IInv => TypeOK BY DEF IInv
<1> QED BY <1>1, Invariant, PTL

(* authorizeHttp and finishHttpClaim let an approval be used for one       *)
(* attempt on the host: however often it is given back and claimed again,  *)
(* and wherever the process dies or the client hangs up, no two changes    *)
(* hold it, and none that has sent its command ever gives it up.           *)
THEOREM OneAttempt == GovernedSpec => []SingleUse
<1>1. IInv => SingleUse BY DEF IInv
<1> QED BY <1>1, Invariant, PTL

(* decide and authorizeHttp run a change only under an approval of exactly *)
(* that change, on which the quorum of its policy agreed, nobody objected, *)
(* and the requester had no vote where the policy separates the duties.    *)
THEOREM QuorumAgreed == GovernedSpec => []DualControl
<1>1. IInv => DualControl BY DEF IInv, ClaimInv, DualControl
<1> QED BY <1>1, Invariant, PTL

(* An address on which all changes agree is listed other than at first     *)
(* only by a change whose row is not reverted: overlapping sweeps and      *)
(* manual reverts, lost answers and crashes change nothing silently, for   *)
(* any number of changes, sweeps and faults.                               *)
THEOREM EffectsHaveRows == GovernedSpec => []EffectsAreAccounted
<1>1. Init => IInv /\ EffectInv BY InitInv, EffectInit
<1>2. IInv /\ EffectInv /\ [Next]_vars => IInv' /\ EffectInv' BY NextInv, EffectStep
<1>3. EffectInv => EffectsAreAccounted
  BY DEF EffectInv, StandInv, Standing, Differs, EffectsAreAccounted
<1> QED BY <1>1, <1>2, <1>3, PTL DEF GovernedSpec
=============================================================================
