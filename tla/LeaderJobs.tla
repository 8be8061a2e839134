----------------------------- MODULE LeaderJobs -----------------------------
(***************************************************************************)
(* A scheduled job behind the leader gate (src/jobs/index.js, function _m) *)
(* on the replicas of ClusterLease.  Every replica's timer fires; the gate *)
(* asks isLeader(), which waits for a pending heartbeat, and starts the    *)
(* job on the leader only.  A run that was started is not stopped when the *)
(* node loses the lease.                                                   *)
(***************************************************************************)
EXTENDS ClusterLease

VARIABLE gate  \* where the job stands on each node

jobVars == <<vars, gate>>

Gates == {"idle", "waiting", "running"}

JobsInit == Init /\ gate = [n \in Nodes |-> "idle"]

\* the answer of isLeader() to a caller that had to wait: the role now
MayStart(n)    == Leads(n)'

\* only a caller that finds its node leading is woken up
BugResume ==
  gate' = [n \in Nodes |-> IF gate[n] = "waiting" /\ MayStart(n) THEN "running" ELSE gate[n]]

\* callers resume when the pending request settles, whatever its outcome
Resume ==
  gate' = [n \in Nodes |->
             IF gate[n] = "waiting" /\ req'[n].phase = "none"
             THEN IF MayStart(n) THEN "running" ELSE "idle"
             ELSE gate[n]]

\* the timer of the job fires
Fire(n) ==
  /\ n \notin closed /\ gate[n] = "idle"
  /\ IF req[n].phase # "none"
     THEN gate' = [gate EXCEPT ![n] = "waiting"] /\ UNCHANGED vars
     ELSE /\ IF Expired(n)
             THEN Invalidate(n, req[n])
                  /\ UNCHANGED <<key, due, late, releasing, closed, faults>>
             ELSE UNCHANGED vars
          /\ gate' = [gate EXCEPT ![n] = IF Leads(n) THEN "running" ELSE "idle"]

Finish(n) ==
  /\ gate[n] = "running" /\ gate' = [gate EXCEPT ![n] = "idle"] /\ UNCHANGED vars

Die(n) == Crash(n) /\ gate' = [gate EXCEPT ![n] = "idle"]

LeaseStep ==
  \/ \E n \in Nodes : \/ Expire(n) \/ Tick(n) \/ Send(n) \/ Answer(n) \/ Fail(n)
                      \/ Disconnect(n) \/ Stop(n) \/ RedisStep(n)
  \/ \E slow \in SUBSET Nodes : Elapse(slow)

JobsNext ==
  \/ LeaseStep /\ Resume
  \/ \E n \in Nodes : Fire(n) \/ Finish(n) \/ Die(n)

JobsSpec == JobsInit /\ [][JobsNext]_jobVars

\* the timers, Redis and the clocks are those of ClusterLease
JobsFairSpec == JobsSpec /\ Fairness

-----------------------------------------------------------------------------
\* A job starts only on the replica that owns the lease at that moment, however
\* long it waited for a heartbeat and whatever happened to its role meanwhile.
JobsStartUnderLease ==
  [][\A n \in Nodes :
       gate[n] # "running" /\ gate'[n] = "running" =>
         n \notin closed' /\ key'.owner = n /\ key'.ttl > 0]_jobVars

\* A caller of isLeader() is answered: neither a lost reply nor a demotion, a
\* shutdown or the death of its process leaves a job waiting for ever.
CallersAreAnswered == \A n \in Nodes : []<>(gate[n] # "waiting")
=============================================================================
