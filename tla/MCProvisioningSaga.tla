-------------------------- MODULE MCProvisioningSaga --------------------------
(* Small instances of ProvisioningSaga for TLC.                            *)
EXTENDS ProvisioningSaga, TLC

CONSTANTS q1, q2

OneRequest  == {q1}
TwoRequests == {q1, q2}
Symmetric   == Permutations(Requests)

\* the tenant, its settings, two hosts, two users
FullPlan == 1 :> {1} @@ 2 :> {2} @@ 3 :> {3, 4} @@ 4 :> {5, 6}
SixRows  == 1..6
\* the tenant, two hosts, a user
HostPlan == 1 :> {1} @@ 2 :> {2, 3} @@ 3 :> {4}
FourRows == 1..4
=============================================================================
