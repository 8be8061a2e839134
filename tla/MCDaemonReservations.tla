------------------------ MODULE MCDaemonReservations ------------------------
(* Instances of DaemonReservations for TLC.                                *)
EXTENDS DaemonReservations, TLC

CONSTANTS web, db, r1, r2, e1, e2, p1, stack, single

TwoNames  == {web, db}
TwoReplacements == {r1, r2}
TwoEgressOps    == {e1, e2}
OnePrune        == {p1}

TargetWeb == [r \in Replacers |-> web]

(* One policy of the whole stack, one of a single container of it.         *)
TwoPolicies == {stack, single}
StackScope  == [q \in Policies |-> IF q = stack THEN Names ELSE {web}]
RankOf      == [c \in Names |-> IF c = web THEN 1 ELSE 2]

(* Who acts in one behaviour: two replacements and a prune, next to a      *)
(* container that just runs; two egress operations; or one of each kind,   *)
(* without faults.  Both faults fall on an operation that is alone with    *)
(* the daemon, or next to a prune; two operations share one fault.         *)
InCast ==
  LET R == {r \in Replacers : rpc[r] # "idle"}
      E == {e \in Egressers : epc[e] # "idle"}
      P == {p \in Pruners : ppc[p] # "idle"}
      AllServed == \A n \in Names : Served(n)
  IN \/ /\ E = {} /\ active = [q \in Policies |-> FALSE]
        /\ box[db] = Started(Fresh) /\ (Cardinality(R) = 2 => faults <= 1)
     \/ R \cup P = {} /\ AllServed /\ (Cardinality(E) = 2 => faults <= 1)
     \/ /\ Cardinality(R) <= 1 /\ Cardinality(E) <= 1 /\ faults = 0
        /\ AllServed /\ \A q \in Policies : active[q]

Symmetric == Permutations(TwoReplacements) \cup Permutations(TwoEgressOps)
=============================================================================
