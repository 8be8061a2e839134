------------------------ MODULE GovernanceApprovals ------------------------
(***************************************************************************)
(* Requests for approval (governance-approvals.js): created under the      *)
(* policy in force, decided by approvers, claimed by the HTTP request they *)
(* are meant for (authorizeHttp) and settled by its status                 *)
(* (finishHttpClaim).  Every handler is synchronous, most are one UPDATE.  *)
(***************************************************************************)
EXTENDS Naturals, FiniteSets

CONSTANTS Users, Approvers,  \* everybody; the users with role admin or operator
          Requesters,        \* users who ask for approvals
          Requests,          \* rows of governance_approval_requests
          Actions,           \* an action key with the hash of its payload
          Policies,          \* the approval policies an administrator may have in force
          None

ASSUME ApprovalsAssumption ==
  /\ Requesters \subseteq Users
  /\ Policies \subseteq [required : 1..2, sod : BOOLEAN]
  /\ None \notin Requests

VARIABLES request,   \* request[q]: row q
          decision   \* decision[q][u]: what u decided on q, one row per approver

approvals == <<request, decision>>

Open   == {"pending", "approved"}
Usable == {"approved", "executing", "consumed"}
States == {"none", "rejected", "expired"} \cup Open \cup Usable

Unasked == [state |-> "none", by |-> None, action |-> None, required |-> 1, sod |-> TRUE, due |-> FALSE]

ApprovalsInit ==
  /\ request = [q \in Requests |-> Unasked]
  /\ decision = [q \in Requests |-> [u \in Users |-> "none"]]

ApprovalsTypeOK ==
  /\ request \in [Requests -> [state : States, by : Users \cup {None}, action : Actions \cup {None},
                               required : 1..2, sod : BOOLEAN, due : BOOLEAN]]
  /\ decision \in [Requests -> [Users -> {"none", "approve", "reject"}]]

Approving(q) == {u \in Users : decision[q][u] = "approve"}

(* A count of the approvals that starts with the requester.                *)
BugCreateRequest(q, u, a, policy) ==
  /\ request[q].state = "none"
  /\ request' = [request EXCEPT ![q] = [state |-> "pending", by |-> u, action |-> a, due |-> FALSE,
                                        required |-> policy.required + 1, sod |-> policy.sod]]
  /\ UNCHANGED decision

(* The policy is copied: later changes of it do not reach the request.     *)
CreateRequest(q, u, a, policy) ==
  /\ request[q].state = "none"
  /\ request' = [request EXCEPT ![q] = [state |-> "pending", by |-> u, action |-> a, due |-> FALSE,
                                        required |-> policy.required, sod |-> policy.sod]]
  /\ UNCHANGED decision

(* A policy that forgot the separation of duties.                          *)
BugMayDecide(q, u) ==
  /\ u \in Approvers /\ request[q].state = "pending" /\ ~request[q].due
  /\ decision[q][u] = "none"

(* The checks of decide.  It also marks an overdue request expired, but in *)
(* the transaction that its refusal rolls back.                            *)
MayDecide(q, u) ==
  /\ u \in Approvers /\ request[q].state = "pending" /\ ~request[q].due
  /\ request[q].sod => request[q].by # u
  /\ decision[q][u] = "none"

Approve(q, u) ==
  /\ MayDecide(q, u)
  /\ decision' = [decision EXCEPT ![q][u] = "approve"]
  /\ request' = IF Cardinality(Approving(q) \cup {u}) >= request[q].required
                THEN [request EXCEPT ![q].state = "approved"] ELSE request

Reject(q, u) ==
  /\ MayDecide(q, u)
  /\ decision' = [decision EXCEPT ![q][u] = "reject"]
  /\ request' = [request EXCEPT ![q].state = "rejected"]

(* expires_at passes.                                                      *)
Lapse(q) ==
  /\ request[q].state \in Open \cup {"executing"} /\ ~request[q].due
  /\ request' = [request EXCEPT ![q].due = TRUE] /\ UNCHANGED decision

(* _expire, on every listing: all overdue requests, but not one that is    *)
(* executing.                                                              *)
Expire ==
  /\ \E q \in Requests : request[q].state \in Open /\ request[q].due
  /\ request' = [q \in Requests |-> IF request[q].state \in Open /\ request[q].due
                                    THEN [request[q] EXCEPT !.state = "expired"] ELSE request[q]]
  /\ UNCHANGED decision

(* The UPDATE of authorizeHttp.                                            *)
Claim(q, a) ==
  /\ request[q].state = "approved" /\ request[q].action = a /\ ~request[q].due
  /\ request' = [request EXCEPT ![q].state = "executing"] /\ UNCHANGED decision

(* finishHttpClaim, when the response has been sent.                       *)
FinishClaim(q, success) ==
  /\ request' = IF request[q].state # "executing" THEN request
                ELSE [request EXCEPT ![q].state = IF success THEN "consumed" ELSE "approved"]
  /\ UNCHANGED decision

DecisionNext ==
  \/ \E q \in Requests :
       \/ \E u \in Requesters, a \in Actions, policy \in Policies : CreateRequest(q, u, a, policy)
       \/ \E u \in Users : Approve(q, u) \/ Reject(q, u)
       \/ Lapse(q)
  \/ Expire
=============================================================================
