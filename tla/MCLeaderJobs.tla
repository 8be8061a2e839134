---------------------------- MODULE MCLeaderJobs ----------------------------
(* Small instances of LeaderJobs for TLC.                                  *)
EXTENDS LeaderJobs, TLC

CONSTANTS a, b

TwoNodes == {a, b}
Replicas == Permutations(Nodes)
=============================================================================
