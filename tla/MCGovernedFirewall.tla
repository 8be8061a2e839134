------------------------- MODULE MCGovernedFirewall -------------------------
(* An instance of GovernedFirewall for TLC: two requests to add a second   *)
(* range, which one approval covers, and one to remove the first.          *)
EXTENDS GovernedFirewall

CONSTANTS alice, bob, carol, add, again, remove, old, new

Staff     == {alice, bob, carol}
Addresses == {old, new}
Attempts  == {add, again, remove}
Asked     == [c \in Attempts |-> IF c = remove THEN [op |-> "remove", ip |-> old]
                                 ELSE [op |-> "add", ip |-> new]]
Keys      == {Asked[add]}
TwoOthers == {[required |-> 2, sod |-> TRUE]}

(* Who acts in one behaviour: requests under an approval and without, with *)
(* the sweep; or requests without, the sweep and a manual revert.  No step *)
(* of a sweep leaves the cast, so the constraint takes nothing away from   *)
(* the steps whose fairness is assumed.                                    *)
InCast ==
  (\E q \in Requests : request[q].state # "none") =>
    /\ \A c \in Changes : Spec[c].op = "remove" => call[c].at = "idle"
    /\ \A m \in Reverts : worker[m] = Idle
=============================================================================
