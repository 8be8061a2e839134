-------------------------- MODULE GovernedFirewall --------------------------
(***************************************************************************)
(* Firewall changes that need an approval: the middleware writeable claims *)
(* the approval before the route runs and settles it by the status of the  *)
(* response (middleware/auth.js, routes/firewall.js), while approvers      *)
(* decide, sweeps and administrators take changes back, and the process    *)
(* dies.                                                                   *)
(***************************************************************************)
EXTENDS GovernanceApprovals, PlatformFirewall

VARIABLE claim      \* claim[c]: the approval that c runs under

vars == <<approvals, firewall, claim>>

Init == ApprovalsInit /\ FirewallInit /\ claim = [c \in Changes |-> None]

(* writeable lets a request pass: it claimed an approval of exactly this   *)
(* change, or no policy in force matches its path and its risk.            *)
Submit(c) ==
  /\ Arrive(c)
  /\ \/ \E q \in Requests : Claim(q, Spec[c]) /\ claim' = [claim EXCEPT ![c] = q]
     \/ UNCHANGED <<approvals, claim>>

Settle(c, success) ==
  IF claim[c] = None THEN UNCHANGED approvals ELSE FinishClaim(claim[c], success)

(* Not an administrator, or no such host: status 403 or 404.               *)
Deny(c) ==
  /\ call[c].at = "read" /\ At(c, "done") /\ Settle(c, FALSE)
  /\ UNCHANGED <<allowed, row, worker, faults, claim>>

(* The answer of a failed change would be a status of 400 or more.         *)
BugRespond(c) == Answered(c) /\ Settle(c, call[c].ok) /\ UNCHANGED claim

Respond(c) == Answered(c) /\ Settle(c, TRUE) /\ UNCHANGED claim

(* The client is gone: the response never emits finish.                    *)
HangUp(c) == Answered(c) /\ UNCHANGED <<approvals, claim>>

Next ==
  \/ DecisionNext /\ UNCHANGED <<firewall, claim>>
  \/ \E c \in Changes :
       \/ Submit(c)
       \/ Deny(c)
       \/ (ReadRuleset(c) \/ ExecEsxiChange(c) \/ Record(c)) /\ UNCHANGED <<approvals, claim>>
       \/ Respond(c)
       \/ HangUp(c)
  \/ (RevertNext \/ Crash) /\ UNCHANGED <<approvals, claim>>

(* The timer fires and the event loop runs what it started; nobody has to  *)
(* ask, decide, confirm or revert.                                         *)
Fairness ==
  \A s \in Sweeps :
    /\ WF_vars(SweepExpired(s) /\ UNCHANGED <<approvals, claim>>)
    /\ WF_vars(\E c \in Changes : Undo(s, c) /\ UNCHANGED <<approvals, claim>>)
    /\ WF_vars(\E c \in Changes : Mark(s, c) /\ UNCHANGED <<approvals, claim>>)

GovernedSpec == Init /\ [][Next]_vars /\ Fairness

(* Types of everything.                                                    *)
TypeOK == ApprovalsTypeOK /\ FirewallTypeOK /\ claim \in [Changes -> Requests \cup {None}]

(***************************************************************************)
(* Approvals.                                                              *)
(***************************************************************************)
(* The quorum of the policy under which q was created agreed, nobody       *)
(* objected, and where the policy says so the requester had no part in it. *)
Agreed(q) ==
  /\ Cardinality(Approving(q)) >= request[q].required
  /\ \A u \in Users : decision[q][u] # "reject"
  /\ request[q].sod => request[q].by \notin Approving(q)

(* A change that runs or ran under an approval had the agreement of its    *)
(* quorum to exactly this change, whatever was decided, refused, given     *)
(* back and claimed again in between.                                      *)
DualControl ==
  \A c \in Changes : claim[c] # None => Agreed(claim[c]) /\ request[claim[c]].action = Spec[c]

Holds(c, q) == claim[c] = q /\ ~(call[c].at = "done" /\ call[c].sent = "no")

(* An approval is good for one attempt on the host: while one change runs  *)
(* under it, and ever after it sent its command, also when that failed,    *)
(* got lost or the process died, no other change runs under it.  It is     *)
(* given back only by requests that were turned away before.               *)
SingleUse ==
  \A q \in Requests : \A c, d \in Changes : c # d => ~(Holds(c, q) /\ Holds(d, q))

(***************************************************************************)
(* Changes of the firewall.                                                *)
(***************************************************************************)
(* c took effect when it ran, and nobody has taken it back yet: its row is *)
(* not reverted, or not written between the answer and the INSERT.         *)
Accounts(c) ==
  /\ call[c].sent = "hit"
  /\ \/ row[c].state \in {"provisional", "confirmed", "failed"}
     \/ row[c].state = "none" /\ call[c].at \in {"record", "dead"}

(* All changes of address ip are of the same kind.  Of changes that oppose *)
(* each other, reverted in the order in which they were made, the last     *)
(* inverse command leaves what neither had found.                          *)
OneWay(ip) == \A c, d \in Changes : Spec[c].ip = ip /\ Spec[d].ip = ip => Spec[c].op = Spec[d].op

(* An address that is listed or not listed other than at first is so by a  *)
(* change with a row that is not reverted, although overlapping sweeps and *)
(* manual reverts work from rows they read earlier, lose answers and die   *)
(* between the command and the UPDATE: nothing is changed silently, and    *)
(* when every row is reverted the address is as it was.  Only a process    *)
(* that dies before the INSERT leaves a change without a row.              *)
EffectsAreAccounted ==
  \A ip \in Ips : OneWay(ip) /\ (ip \in allowed) # (ip \in Listed) =>
    \E c \in Changes : Spec[c].ip = ip /\ Accounts(c)

(* A provisional change whose deadline passed is confirmed or reverted in  *)
(* the end, unless the ruleset locks this server out of the host.          *)
AutoReverts ==
  \A c \in Changes : Overdue(c) ~> (row[c].state \in {"confirmed", "reverted"} \/ ~Reachable)
=============================================================================
