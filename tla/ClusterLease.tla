---------------------------- MODULE ClusterLease ----------------------------
(***************************************************************************)
(* Leader election between the replicas of Docker Dash                     *)
(* (src/services/cluster-lease.js, and its use in src/services/cluster.js).*)
(*                                                                         *)
(* The replicas compete for one Redis key with a time to live.  A node     *)
(* polls every Interval with a script that renews the key if the node owns *)
(* it and, on the reader path only, takes it if it is absent.  The node    *)
(* believes itself leader until a local deadline counted from before the   *)
(* request, a Margin shorter than the key's life.  Replies may be late or  *)
(* lost, commands may reach Redis after the node has given them up, a      *)
(* process may pause, and its clock may lose up to a Margin against that   *)
(* of Redis during one lease.  A node is one incarnation of a process: the *)
(* token is random.  Time is kept as countdowns, which Elapse moves.       *)
(***************************************************************************)
EXTENDS Integers

CONSTANTS
  Nodes,     \* incarnations of replicas
  Ttl,       \* life of the key (30 s)
  Margin,    \* safety margin subtracted from it (1 s)
  Interval,  \* heartbeat interval (10 s)
  Timeout,   \* bound on one request (3 s)
  Punctual,  \* is no process paused past its timers?
  MaxFaults  \* bound on failed requests and lost connections explored

ASSUME LeaseAssumption ==
  /\ Ttl \in Nat \ {0} /\ Margin \in Nat /\ Margin < Ttl
  /\ Interval \in Nat \ {0} /\ Timeout \in Nat \ {0}
  /\ Punctual \in BOOLEAN /\ MaxFaults \in Nat

VARIABLES
  key,       \* the Redis key: its owner, or nobody, and its remaining life
  role,      \* role of each node
  left,      \* time left until the local deadline
  lag,       \* what the node's clock has lost since the confirmed request began
  due,       \* time left until the interval timer fires
  req,       \* the single request a node has pending
  late,      \* commands given up by their node that Redis may still receive
  releasing, \* nodes whose release command is on its way
  closed,    \* nodes that were shut down or have died
  faults     \* number of faults so far

vars == <<key, role, left, lag, due, req, late, releasing, closed, faults>>

Nobody  == "nobody"
Modes   == {"renew", "elect"}  \* renewOnly or not
Phases  == {"none", "connecting", "sent", "answered"}
Request == [phase : Phases, mode : Modes, age : 0..Ttl, lag : 0..Margin,
            current : BOOLEAN, won : BOOLEAN]
NoRequest == [phase |-> "none", mode |-> "elect", age |-> 0, lag |-> 0,
              current |-> FALSE, won |-> FALSE]
NoKey == [owner |-> Nobody, ttl |-> 0]

ASSUME NobodyAssumption == Nobody \notin Nodes

Init ==
  /\ key = NoKey /\ role = [n \in Nodes |-> "unknown"]
  /\ left = [n \in Nodes |-> 0] /\ lag = [n \in Nodes |-> 0]
  /\ due = [n \in Nodes |-> 0] /\ req = [n \in Nodes |-> NoRequest]
  /\ late = [n \in Nodes |-> [m \in Modes |-> 0]]
  /\ releasing = {} /\ closed = {} /\ faults = 0

-----------------------------------------------------------------------------
(* The scripts, as Redis executes them.                                     *)

BugUnrenewed(n, mode) == key.owner = Nobody /\ mode = "elect"
BugGranted(n, mode) == key.owner = n \/ mode = "elect"
Granted(n, mode) == key.owner = n \/ (key.owner = Nobody /\ mode = "elect")

Heartbeat(n, mode) ==
  key' = IF Granted(n, mode) THEN [owner |-> n, ttl |-> Ttl] ELSE key

BugRelease(n) == key' = NoKey
Release(n)    == key' = IF key.owner = n THEN NoKey ELSE key

-----------------------------------------------------------------------------
(* The role of a node.                                                      *)

BugLeads(n) == n \notin closed /\ role[n] = "leader"
Leads(n) == n \notin closed /\ role[n] = "leader" /\ left[n] > 0

\* invalidate(): the node is a reader, and the pending request belongs to an
\* older generation; r is the pending request after the step
Invalidate(n, r) ==
  /\ role' = [role EXCEPT ![n] = "reader"]
  /\ left' = [left EXCEPT ![n] = 0] /\ lag' = [lag EXCEPT ![n] = 0]
  /\ req' = [req EXCEPT ![n] = [r EXCEPT !.current = FALSE]]

\* what every isLeader() call and the watchdog do with an expired role
Expired(n) == role[n] = "leader" /\ left[n] = 0

Expire(n) ==
  /\ n \notin closed /\ Expired(n) /\ Invalidate(n, req[n])
  /\ UNCHANGED <<key, due, late, releasing, closed, faults>>

-----------------------------------------------------------------------------
(* One heartbeat of a node.                                                 *)

\* renewOnly, decided when the request begins
BugModeOf(n) == IF role[n] # "unknown" THEN "renew" ELSE "elect"
ModeOf(n)    == IF Leads(n) THEN "renew" ELSE "elect"

\* tick(), from start() or from the interval; a pending request is left alone
Tick(n) ==
  LET opened == [phase |-> "connecting", mode |-> ModeOf(n), age |-> 0,
                 lag |-> 0, current |-> TRUE, won |-> FALSE]
  IN  /\ n \notin closed /\ due[n] = 0
      /\ due' = [due EXCEPT ![n] = Interval]
      /\ IF req[n].phase # "none"
         THEN UNCHANGED <<role, left, lag, req>>
         ELSE /\ role' = IF Expired(n) THEN [role EXCEPT ![n] = "reader"] ELSE role
              /\ req' = [req EXCEPT ![n] = opened]
              /\ UNCHANGED <<left, lag>>
      /\ UNCHANGED <<key, late, releasing, closed, faults>>

\* the connection is there: the command is sent, unless the request is cancelled
Send(n) ==
  /\ req[n].phase = "connecting"
  /\ req' = [req EXCEPT ![n] = IF n \notin closed /\ @.current
                               THEN [@ EXCEPT !.phase = "sent"] ELSE NoRequest]
  /\ UNCHANGED <<key, role, left, lag, due, late, releasing, closed, faults>>

Execute(n) ==
  /\ req[n].phase = "sent" /\ Heartbeat(n, req[n].mode)
  /\ req' = [req EXCEPT ![n] = [@ EXCEPT !.phase = "answered",
                                         !.won = Granted(n, req[n].mode)]]
  /\ UNCHANGED <<role, left, lag, due, late, releasing, closed, faults>>

\* local life of a lease that is confirmed a given time after its request began
BugRemaining(age) == Ttl - age
Remaining(age)    == Ttl - Margin - age

Answer(n) ==
  /\ req[n].phase = "answered"
  /\ IF n \in closed \/ ~req[n].current
     THEN req' = [req EXCEPT ![n] = NoRequest] /\ UNCHANGED <<role, left, lag>>
     ELSE IF req[n].won /\ Remaining(req[n].age) > 0
          THEN /\ role' = [role EXCEPT ![n] = "leader"]
               /\ left' = [left EXCEPT ![n] = Remaining(req[n].age)]
               /\ lag' = [lag EXCEPT ![n] = req[n].lag]
               /\ req' = [req EXCEPT ![n] = NoRequest]
          ELSE Invalidate(n, NoRequest)
  /\ UNCHANGED <<key, due, late, releasing, closed, faults>>

\* a command that was sent may reach Redis although its node gave it up
Abandoned(n) ==
  late' = IF req[n].phase = "sent" THEN [late EXCEPT ![n][req[n].mode] = @ + 1] ELSE late

\* the request times out, or its command is rejected
Fail(n) ==
  /\ req[n].phase # "none" /\ faults < MaxFaults /\ faults' = faults + 1
  /\ Abandoned(n)
  /\ IF n \notin closed /\ req[n].current
     THEN Invalidate(n, NoRequest)
     ELSE req' = [req EXCEPT ![n] = NoRequest] /\ UNCHANGED <<role, left, lag>>
  /\ UNCHANGED <<key, due, releasing, closed>>

\* the connection reports an error or is closed
Disconnect(n) ==
  /\ n \notin closed /\ faults < MaxFaults /\ faults' = faults + 1
  /\ Invalidate(n, req[n])
  /\ UNCHANGED <<key, due, late, releasing, closed>>

ExecuteLate(n, mode) ==
  /\ late[n][mode] > 0 /\ late' = [late EXCEPT ![n][mode] = @ - 1]
  /\ Heartbeat(n, mode)
  /\ UNCHANGED <<role, left, lag, due, req, releasing, closed, faults>>

Lose(n, mode) ==
  /\ late[n][mode] > 0 /\ late' = [late EXCEPT ![n][mode] = @ - 1]
  /\ UNCHANGED <<key, role, left, lag, due, req, releasing, closed, faults>>

-----------------------------------------------------------------------------
(* The end of a process.                                                    *)

\* shutdown(): closed before any I/O, then the release command, if there is a client
Stop(n) ==
  /\ n \notin closed /\ closed' = closed \cup {n}
  /\ Invalidate(n, req[n])
  /\ releasing' \in {releasing, releasing \cup {n}}
  /\ UNCHANGED <<key, due, late, faults>>

\* a connection serves its commands in order
ExecuteRelease(n) ==
  /\ n \in releasing /\ req[n].phase # "sent"
  /\ releasing' = releasing \ {n} /\ Release(n)
  /\ UNCHANGED <<role, left, lag, due, req, late, closed, faults>>

LoseRelease(n) ==
  /\ n \in releasing /\ releasing' = releasing \ {n}
  /\ UNCHANGED <<key, role, left, lag, due, req, late, closed, faults>>

Crash(n) ==
  /\ n \notin closed /\ closed' = closed \cup {n}
  /\ Abandoned(n) /\ Invalidate(n, NoRequest)
  /\ UNCHANGED <<key, due, releasing, faults>>

-----------------------------------------------------------------------------
(* Time.  The clocks of the nodes in slow stand still for this unit.        *)

Earlier(t) == IF t = 0 THEN 0 ELSE t - 1

MayLag(n) ==
  /\ role[n] = "leader" => lag[n] < Margin
  /\ req[n].phase # "none" => req[n].lag < Margin

\* timers fire before another unit passes, and a request is bounded by its timeout
OnTime(n) ==
  /\ req[n].phase # "none" => req[n].age < Timeout
  /\ n \notin closed => due[n] > 0 /\ ~Expired(n)

Elapse(slow) ==
  /\ \A n \in slow : MayLag(n)
  /\ Punctual => \A n \in Nodes : OnTime(n)
  /\ key' = IF key.ttl <= 1 THEN NoKey ELSE [key EXCEPT !.ttl = @ - 1]
  /\ left' = [n \in Nodes |-> IF n \in slow THEN left[n] ELSE Earlier(left[n])]
  /\ due' = [n \in Nodes |-> IF n \in slow THEN due[n] ELSE Earlier(due[n])]
  /\ lag' = [n \in Nodes |-> IF n \in slow /\ role[n] = "leader"
                             THEN lag[n] + 1 ELSE lag[n]]
  /\ req' = [n \in Nodes |->
               IF req[n].phase = "none" THEN req[n]
               ELSE IF n \in slow THEN [req[n] EXCEPT !.lag = @ + 1]
               ELSE [req[n] EXCEPT !.age = IF @ < Ttl THEN @ + 1 ELSE @]]
  /\ UNCHANGED <<role, late, releasing, closed, faults>>

-----------------------------------------------------------------------------
NodeStep(n) ==
  \/ Expire(n) \/ Tick(n) \/ Send(n) \/ Answer(n) \/ Fail(n) \/ Disconnect(n)
  \/ Stop(n) \/ Crash(n)

RedisStep(n) ==
  \/ Execute(n) \/ ExecuteRelease(n) \/ LoseRelease(n)
  \/ \E mode \in Modes : ExecuteLate(n, mode) \/ Lose(n, mode)

Next ==
  \/ \E n \in Nodes : NodeStep(n) \/ RedisStep(n)
  \/ \E slow \in SUBSET Nodes : Elapse(slow)

Spec == Init /\ [][Next]_vars

\* Timers fire, Redis serves what it receives, clocks advance.
Fairness ==
  /\ \A n \in Nodes : /\ WF_vars(Tick(n)) /\ WF_vars(Send(n)) /\ WF_vars(Execute(n))
                      /\ WF_vars(Answer(n)) /\ WF_vars(Expire(n))
  /\ WF_vars(Elapse({}))

FairSpec == Spec /\ Fairness

-----------------------------------------------------------------------------
(* Correctness.                                                             *)

\* Every variable has the values the code and Redis can give it.
TypeOK ==
  /\ key \in [owner : Nodes \cup {Nobody}, ttl : 0..Ttl]
  /\ role \in [Nodes -> {"unknown", "reader", "leader"}]
  /\ left \in [Nodes -> 0..(Ttl - Margin)] /\ lag \in [Nodes -> 0..Margin]
  /\ due \in [Nodes -> 0..Interval] /\ req \in [Nodes -> Request]
  /\ late \in [Nodes -> [Modes -> Nat]]
  /\ releasing \subseteq Nodes /\ closed \subseteq Nodes /\ faults \in Nat

\* At any time isLeader() answers true on at most one replica.
AtMostOneLeader == \A m, n \in Nodes : Leads(m) /\ Leads(n) => m = n

\* The leader owns the key, and will be a reader by its own clock before the key
\* can expire.
LeaderOwnsKey == \A n \in Nodes : Leads(n) => key.owner = n /\ key.ttl >= left[n]

\* With timers on time and a healthy connection, a leader stays leader until it
\* is shut down: the heartbeat renews the lease before its local deadline.
LeaderIsStable ==
  [][\A n \in Nodes :
       Leads(n) /\ faults' = faults /\ n \notin closed' => Leads(n)']_vars

\* While a replica is up, there is a leader again and again: neither a crash, nor
\* a late command of a dead replica, nor failed requests end the election.
SomeoneLeads == []<>((\E n \in Nodes : Leads(n)) \/ closed = Nodes)
=============================================================================
