---------------------------- MODULE DockerDaemon ----------------------------
(***************************************************************************)
(* One Docker daemon, as the services that replace containers, filter      *)
(* their egress and prune the daemon rely on it (external code: modelled   *)
(* from the calls those services make).                                    *)
(*                                                                         *)
(* Container names are unique on a daemon, and creating a container is an  *)
(* atomic test-and-set of its name.  Every reservation is such a name:     *)
(*                                                                         *)
(*   <<"prune">>        dd-maintenance-prune-lock                          *)
(*   <<"replace", n>>   dd-replacement-lock-<hash of container name n>     *)
(*   <<"egress", c>>    dd-egress-lock-<container id c>                    *)
(*                                                                         *)
(* A container is identified by a name (the original that carried it) or   *)
(* by the replacement that created it.  A client that gives up on a call   *)
(* does not stop the daemon: calls of the kinds in LateCalls may be        *)
(* executed after their client was told that they failed.                  *)
(***************************************************************************)
EXTENDS Naturals, FiniteSets

CONSTANTS Names,        \* container names in use, and the originals that carry them
          Replacers,    \* replacement operations
          Egressers,    \* egress operations
          Pruners,      \* prune operations
          Target,       \* Target[r]: the container name operation r replaces
          LateCalls,    \* kinds of calls a client may have given up on
          MaxFaults,    \* bound on refused and lost calls, crashes and restarts
          NoOne         \* the holder of a name that is free

Ids    == Names \cup Replacers
Actors == Replacers \cup Egressers \cup Pruners

ASSUME DaemonAssumption ==
  /\ Target \in [Replacers -> Names]
  /\ Names \cap Replacers = {}
  /\ Replacers \cap Egressers = {} /\ Replacers \cap Pruners = {}
  /\ Egressers \cap Pruners = {}
  /\ NoOne \notin Actors
  /\ MaxFaults \in Nat

PruneSlot      == <<"prune">>
ReplaceSlot(n) == <<"replace", n>>
EgressSlot(c)  == <<"egress", c>>
Slots == {PruneSlot} \cup {ReplaceSlot(n) : n \in Names} \cup {EgressSlot(c) : c \in Names}

VARIABLES held,   \* held[s]: the operation whose reservation carries name s
          box,    \* box[i]: the container i
          late,   \* calls that were given up and that the daemon may still execute
          faults  \* faults that happened

daemon == <<held, box, late, faults>>

(* A container: the name it carries, whether its process runs, whether it  *)
(* has its own restart policy (rather than "no") and its own networks, and *)
(* how often it was started, which identifies the running instance.        *)
Boxes == [at : {"home", "recovery", "gone"}, up : BOOLEAN,
          policy : BOOLEAN, net : BOOLEAN, starts : Nat]

Home(i)    == IF i \in Names THEN i ELSE Target[i]
Exists(i)  == box[i].at # "gone"
AtHome(n)  == {i \in Ids : Home(i) = n /\ box[i].at = "home"}
Gone       == [at |-> "gone", up |-> FALSE, policy |-> TRUE, net |-> TRUE, starts |-> 0]
Fresh      == [Gone EXCEPT !.at = "home"]
Started(b) == [b EXCEPT !.up = TRUE, !.starts = @ + 1]
Removed(b) == [Gone EXCEPT !.starts = b.starts]

DaemonInit ==
  /\ held = [s \in Slots |-> NoOne]
  /\ box \in [Ids -> {Gone, Fresh, Started(Fresh)}]
  /\ \A n \in Names : box[n] # Gone
  /\ \A r \in Replacers : box[r] = Gone
  /\ late = {}
  /\ faults = 0

(* Calls on containers, and whatever the daemon may still execute.         *)
Kinds == {"create", "rename", "homeward", "stop", "start", "policy", "repolicy",
          "disconnect", "reconnect", "remove", "reclaim"}
Abandoned == ({"reserve"} \X Slots \X Actors) \cup ({"sweep"} \X Pruners) \cup (Kinds \X Ids)

DaemonTypeOK ==
  /\ held \in [Slots -> Actors \cup {NoOne}]
  /\ box \in [Ids -> Boxes]
  /\ late \subseteq Abandoned
  /\ faults \in 0 .. MaxFaults

Fault == faults < MaxFaults /\ faults' = faults + 1

(***************************************************************************)
(* Calls on containers.  A call names what the daemon is asked to do and   *)
(* the container; Accepts is the daemon's own check, Effect the new table. *)
(***************************************************************************)
Accepts(k, i) ==
  CASE k = "create"   -> AtHome(Home(i)) = {} /\ ~Exists(i)
    [] k = "homeward" -> Exists(i) /\ AtHome(Home(i)) = {}
    [] k = "stop"     -> box[i].up
    [] k = "start"    -> Exists(i) /\ ~box[i].up
    [] k = "reclaim"  -> Exists(i) /\ ~box[i].up    \* removal without force
    [] OTHER          -> Exists(i)

Effect(k, i) ==
  CASE k = "create"     -> [box EXCEPT ![i] = Fresh]
    [] k = "rename"     -> [box EXCEPT ![i].at = "recovery"]
    [] k = "homeward"   -> [box EXCEPT ![i].at = "home"]
    [] k = "stop"       -> [box EXCEPT ![i].up = FALSE]
    [] k = "start"      -> [box EXCEPT ![i] = Started(@)]
    [] k = "policy"     -> [box EXCEPT ![i].policy = FALSE]
    [] k = "repolicy"   -> [box EXCEPT ![i].policy = TRUE]
    [] k = "disconnect" -> [box EXCEPT ![i].net = FALSE]
    [] k = "reconnect"  -> [box EXCEPT ![i].net = TRUE]
    [] k \in {"remove", "reclaim"} -> [box EXCEPT ![i] = Removed(@)]

(* docker container prune: every stopped container goes, except those that *)
(* carry the protection label, which are the reservations themselves.      *)
Swept == [i \in Ids |-> IF box[i].up THEN box[i] ELSE Removed(box[i])]

(* The three ways a call on a container ends for its client: carried out,  *)
(* refused (nothing happened), or lost: the client sees an error, and the  *)
(* call was carried out, was not, or will be.                              *)
Done(k, i)    == Accepts(k, i) /\ box' = Effect(k, i) /\ UNCHANGED <<held, late, faults>>
Refused(k, i) == /\ \/ ~Accepts(k, i) /\ UNCHANGED faults
                    \/ Fault
                 /\ UNCHANGED <<held, box, late>>
Lost(k, i)    == /\ Accepts(k, i) /\ Fault
                 /\ \/ box' = Effect(k, i) /\ UNCHANGED late
                    \/ k \in LateCalls /\ late' = late \cup {<<k, i>>} /\ UNCHANGED box
                 /\ UNCHANGED held
Failed(k, i)  == Refused(k, i) \/ Lost(k, i)

(* A call that only reads fails, or one of the caller's own writes.        *)
Glitch == Fault /\ UNCHANGED <<held, box, late>>

(* Creating the container that carries reservation s for operation a.      *)
Reserved(s, a)     == held[s] = NoOne /\ held' = [held EXCEPT ![s] = a] /\ UNCHANGED <<box, late, faults>>
Conflict(s)        == held[s] # NoOne /\ UNCHANGED daemon
ReserveLost(s, a)  == /\ Fault
                      /\ \/ held[s] = NoOne /\ held' = [held EXCEPT ![s] = a] /\ UNCHANGED late
                         \/ "reserve" \in LateCalls /\ late' = late \cup {<<"reserve", s, a>>} /\ UNCHANGED held
                         \/ UNCHANGED <<held, late>>
                      /\ UNCHANGED box

(* Removing it again; when the call is lost the name may still be taken.   *)
Freed(s)           == held' = [held EXCEPT ![s] = NoOne] /\ UNCHANGED <<box, late, faults>>
FreeFailed(s)      == Fault /\ held' \in {held, [held EXCEPT ![s] = NoOne]} /\ UNCHANGED <<box, late>>

(***************************************************************************)
(* What the daemon does by itself: it executes calls that were given up,   *)
(* containers exit and are restarted by their policy, and the daemon       *)
(* restarts, which starts every container whose policy says so and leaves  *)
(* the others down; requests in flight die with it.                        *)
(***************************************************************************)
ExecuteLate ==
  \E call \in late :
    /\ late' = late \ {call}
    /\ UNCHANGED faults
    /\ \/ /\ call[1] = "reserve" /\ UNCHANGED box
          /\ held' = IF held[call[2]] = NoOne THEN [held EXCEPT ![call[2]] = call[3]] ELSE held
       \/ call[1] = "sweep" /\ box' = Swept /\ UNCHANGED held
       \/ /\ call[1] \in Kinds /\ UNCHANGED held
          /\ box' = IF Accepts(call[1], call[2]) THEN Effect(call[1], call[2]) ELSE box

Exits(i) ==
  /\ box[i].up /\ Fault
  /\ box' = [box EXCEPT ![i] = IF @.policy THEN Started(@) ELSE [@ EXCEPT !.up = FALSE]]
  /\ UNCHANGED <<held, late>>

DaemonRestart ==
  /\ Fault
  /\ box' = [i \in Ids |-> IF Exists(i) /\ box[i].policy /\ box[i].starts > 0
                           THEN Started(box[i]) ELSE [box[i] EXCEPT !.up = FALSE]]
  /\ late' = {}
  /\ UNCHANGED held

DaemonNext == ExecuteLate \/ DaemonRestart \/ \E i \in Ids : Exits(i)
=============================================================================
