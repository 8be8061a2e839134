--------------------------- MODULE LeadershipProofs ---------------------------
(***************************************************************************)
(* Mutual exclusion of leaders, and the gate of the jobs that only a       *)
(* leader runs, for any number of replicas and whatever the time to live,  *)
(* the margin and the faults.                                              *)
(*                                                                         *)
(* That a leader owns the key (LeaderOwnsKey) is not inductive: a node     *)
(* becomes leader when the answer to a request arrives, so the ownership   *)
(* that Redis granted must be known to last until then (GrantLasts), as    *)
(* long as the request is current; a release command is only sent by a     *)
(* node that is closed for good, so it cannot take the key away            *)
(* (ReleasesAreFinal), and the key must last as long as the local deadline *)
(* plus what the node's clock may still lose (LeaseLasts).                 *)
(***************************************************************************)
EXTENDS LeaderJobs, TLAPS

LeaseOf(n) ==
  Leads(n) => key.owner = n /\ key.ttl >= left[n] + Margin - lag[n]

\* the reply under way will make n the leader
Wins(n) ==
  /\ req[n].phase = "answered" /\ req[n].won /\ req[n].current
  /\ n \notin closed /\ Remaining(req[n].age) > 0

GrantOf(n) ==
  Wins(n) => key.owner = n /\ key.ttl >= Ttl - req[n].age - req[n].lag

LeaseLasts       == \A n \in Nodes : LeaseOf(n)
GrantLasts       == \A n \in Nodes : GrantOf(n)
ReleasesAreFinal == releasing \subseteq closed

LeaseInv == TypeOK /\ LeaseLasts /\ GrantLasts /\ ReleasesAreFinal

\* The columns of a request are of their types.
LEMMA RequestFields ==
  ASSUME TypeOK, NEW n \in Nodes
  PROVE  /\ req[n] \in Request /\ req[n].phase \in Phases /\ req[n].mode \in Modes
         /\ req[n].age \in 0..Ttl /\ req[n].lag \in 0..Margin
         /\ req[n].current \in BOOLEAN /\ req[n].won \in BOOLEAN
BY DEF TypeOK, Request

LEMMA NoRequestType == NoRequest \in Request
BY LeaseAssumption DEF NoRequest, Request, Phases, Modes

LEMMA NoKeyType == NoKey \in [owner : Nodes \cup {Nobody}, ttl : 0..Ttl]
BY LeaseAssumption DEF NoKey

LEMMA HeartbeatType ==
  ASSUME TypeOK, NEW n \in Nodes, NEW m, Heartbeat(n, m)
  PROVE  key' \in [owner : Nodes \cup {Nobody}, ttl : 0..Ttl]
BY LeaseAssumption DEF TypeOK, Heartbeat

\* invalidate() leaves a reader whose request, if any, is not current.
LEMMA InvalidateType ==
  ASSUME TypeOK, NEW n \in Nodes, NEW r \in Request, Invalidate(n, r)
  PROVE  /\ role' \in [Nodes -> {"unknown", "reader", "leader"}]
         /\ left' \in [Nodes -> 0..(Ttl - Margin)] /\ lag' \in [Nodes -> 0..Margin]
         /\ req' \in [Nodes -> Request]
         /\ role'[n] = "reader" /\ ~req'[n].current
         /\ \A v \in Nodes \ {n} : /\ role'[v] = role[v] /\ left'[v] = left[v]
                                   /\ lag'[v] = lag[v] /\ req'[v] = req[v]
<1>1. [r EXCEPT !.current = FALSE] \in Request
  BY DEF Request
<1>2. 0 \in 0..(Ttl - Margin) /\ 0 \in 0..Margin
  BY LeaseAssumption
<1> QED BY <1>1, <1>2 DEF TypeOK, Invalidate, Request

LEMMA StepType == TypeOK /\ [Next]_vars => TypeOK'
<1> SUFFICES ASSUME TypeOK, [Next]_vars PROVE TypeOK'
  OBVIOUS
<1> USE LeaseAssumption
<1>1. ASSUME NEW n \in Nodes, Expire(n) PROVE TypeOK'
  BY <1>1, InvalidateType, RequestFields DEF Expire, TypeOK
<1>2. ASSUME NEW n \in Nodes, Tick(n) PROVE TypeOK'
  <2> DEFINE opened == [phase |-> "connecting", mode |-> ModeOf(n), age |-> 0,
                        lag |-> 0, current |-> TRUE, won |-> FALSE]
  <2>1. opened \in Request
    BY DEF Request, Phases, Modes, ModeOf
  <2>2. req' \in [Nodes -> Request]
    BY <1>2, <2>1 DEF Tick, TypeOK
  <2>3. role' \in [Nodes -> {"unknown", "reader", "leader"}]
    BY <1>2 DEF Tick, TypeOK
  <2>4. /\ due' = [due EXCEPT ![n] = Interval]
        /\ UNCHANGED <<key, left, lag, late, releasing, closed, faults>>
    BY <1>2 DEF Tick
  <2>5. due' \in [Nodes -> 0..Interval]
    BY <2>4 DEF TypeOK
  <2> QED BY <2>2, <2>3, <2>4, <2>5 DEF TypeOK
<1>3. ASSUME NEW n \in Nodes, Send(n) PROVE TypeOK'
  <2>1. [req[n] EXCEPT !.phase = "sent"] \in Request
    BY RequestFields DEF Request, Phases
  <2> QED BY <1>3, <2>1, NoRequestType DEF Send, TypeOK
<1>4. ASSUME NEW n \in Nodes, Answer(n) PROVE TypeOK'
  <2>1. CASE n \in closed \/ ~req[n].current
    BY <1>4, <2>1, NoRequestType DEF Answer, TypeOK
  <2>2. CASE /\ ~(n \in closed \/ ~req[n].current)
             /\ req[n].won /\ Remaining(req[n].age) > 0
    <3>1. Remaining(req[n].age) \in 0..(Ttl - Margin)
      BY <2>2, RequestFields DEF Remaining
    <3>2. /\ role' = [role EXCEPT ![n] = "leader"]
          /\ left' = [left EXCEPT ![n] = Remaining(req[n].age)]
          /\ lag' = [lag EXCEPT ![n] = req[n].lag]
          /\ req' = [req EXCEPT ![n] = NoRequest]
          /\ UNCHANGED <<key, due, late, releasing, closed, faults>>
      BY <1>4, <2>2 DEF Answer
    <3>3. left' \in [Nodes -> 0..(Ttl - Margin)]
      BY <3>1, <3>2 DEF TypeOK
    <3>4. lag' \in [Nodes -> 0..Margin] /\ req' \in [Nodes -> Request]
      BY <3>2, NoRequestType, RequestFields DEF TypeOK
    <3> QED BY <3>2, <3>3, <3>4 DEF TypeOK
  <2>3. CASE /\ ~(n \in closed \/ ~req[n].current)
             /\ ~(req[n].won /\ Remaining(req[n].age) > 0)
    BY <1>4, <2>3, NoRequestType, InvalidateType DEF Answer, TypeOK
  <2> QED BY <2>1, <2>2, <2>3
<1>5. ASSUME NEW n \in Nodes, Abandoned(n)
      PROVE  late' \in [Nodes -> [Modes -> Nat]]
  BY <1>5, RequestFields DEF Abandoned, TypeOK
<1>6. ASSUME NEW n \in Nodes, Fail(n) PROVE TypeOK'
  <2>1. late' \in [Nodes -> [Modes -> Nat]]
    BY <1>5, <1>6 DEF Fail
  <2>2. CASE n \notin closed /\ req[n].current
    BY <1>6, <2>1, <2>2, NoRequestType, InvalidateType DEF Fail, TypeOK
  <2>3. CASE ~(n \notin closed /\ req[n].current)
    <3>1. /\ req' = [req EXCEPT ![n] = NoRequest] /\ faults' = faults + 1
          /\ UNCHANGED <<key, role, left, lag, due, releasing, closed>>
      BY <1>6, <2>3 DEF Fail
    <3>2. req' \in [Nodes -> Request]
      BY <3>1, NoRequestType DEF TypeOK
    <3> QED BY <2>1, <3>1, <3>2 DEF TypeOK
  <2> QED BY <2>2, <2>3
<1>7. ASSUME NEW n \in Nodes, Disconnect(n) PROVE TypeOK'
  BY <1>7, InvalidateType, RequestFields DEF Disconnect, TypeOK
<1>8. ASSUME NEW n \in Nodes, Stop(n) PROVE TypeOK'
  BY <1>8, InvalidateType, RequestFields DEF Stop, TypeOK
<1>9. ASSUME NEW n \in Nodes, Crash(n) PROVE TypeOK'
  <2>1. late' \in [Nodes -> [Modes -> Nat]]
    BY <1>5, <1>9 DEF Crash
  <2> QED BY <1>9, <2>1, NoRequestType, InvalidateType DEF Crash, TypeOK
<1>10. ASSUME NEW n \in Nodes, Execute(n) PROVE TypeOK'
  <2>1. key' \in [owner : Nodes \cup {Nobody}, ttl : 0..Ttl]
    BY <1>10, HeartbeatType DEF Execute
  <2>2. Granted(n, req[n].mode) \in BOOLEAN
    BY DEF Granted
  <2>3. [[req[n] EXCEPT !.phase = "answered"] EXCEPT !.won = Granted(n, req[n].mode)]
          \in Request
    BY <2>2, RequestFields DEF Request, Phases
  <2> QED BY <1>10, <2>1, <2>3 DEF Execute, TypeOK
<1>11. ASSUME NEW n \in Nodes, ExecuteRelease(n) \/ LoseRelease(n) PROVE TypeOK'
  BY <1>11, NoKeyType DEF ExecuteRelease, LoseRelease, Release, TypeOK
<1>12. ASSUME NEW n \in Nodes, NEW m \in Modes, ExecuteLate(n, m) \/ Lose(n, m)
       PROVE  TypeOK'
  <2>1. late' \in [Nodes -> [Modes -> Nat]]
    BY <1>12 DEF ExecuteLate, Lose, TypeOK
  <2> QED BY <1>12, <2>1, HeartbeatType DEF ExecuteLate, Lose, TypeOK
<1>13. ASSUME NEW slow \in SUBSET Nodes, Elapse(slow) PROVE TypeOK'
  <2>1. key' \in [owner : Nodes \cup {Nobody}, ttl : 0..Ttl]
    BY <1>13, NoKeyType DEF Elapse, TypeOK
  <2>2. left' \in [Nodes -> 0..(Ttl - Margin)] /\ due' \in [Nodes -> 0..Interval]
    <3>1. /\ \A t \in 0..(Ttl - Margin) : Earlier(t) \in 0..(Ttl - Margin)
          /\ \A t \in 0..Interval : Earlier(t) \in 0..Interval
      BY DEF Earlier
    <3>2. /\ left' = [n \in Nodes |-> IF n \in slow THEN left[n] ELSE Earlier(left[n])]
          /\ due' = [n \in Nodes |-> IF n \in slow THEN due[n] ELSE Earlier(due[n])]
      BY <1>13 DEF Elapse
    <3> HIDE DEF Earlier
    <3> QED BY <3>1, <3>2 DEF TypeOK
  <2>3. lag' \in [Nodes -> 0..Margin]
    BY <1>13 DEF Elapse, TypeOK, MayLag
  <2>4. ASSUME NEW n \in Nodes PROVE req'[n] \in Request
    <3>1. CASE n \in slow /\ req[n].phase # "none"
      <4>1. req[n].lag + 1 \in 0..Margin
        BY <1>13, <3>1, RequestFields DEF Elapse, MayLag
      <4> QED BY <1>13, <3>1, <4>1, RequestFields DEF Elapse, Request
    <3>2. CASE n \notin slow \/ req[n].phase = "none"
      BY <1>13, <3>2, RequestFields DEF Elapse, Request
    <3> QED BY <3>1, <3>2
  <2>5. req' \in [Nodes -> Request]
    BY <1>13, <2>4 DEF Elapse
  <2> QED BY <1>13, <2>1, <2>2, <2>3, <2>5 DEF Elapse, TypeOK
<1>14. CASE UNCHANGED vars
  BY <1>14 DEF vars, TypeOK
<1> QED BY <1>1, <1>2, <1>3, <1>4, <1>6, <1>7, <1>8, <1>9, <1>10, <1>11, <1>12, <1>13,
           <1>14 DEF Next, NodeStep, RedisStep

\* A heartbeat command, current or late, never shortens the lease of another node.
LEMMA HeartbeatKeeps ==
  ASSUME TypeOK, NEW m \in Nodes, NEW mode, Heartbeat(m, mode),
         NEW n \in Nodes, NEW t \in Int, t <= Ttl, key.owner = n, key.ttl >= t
  PROVE  key'.owner = n /\ key'.ttl >= t
BY LeaseAssumption, NobodyAssumption DEF TypeOK, Heartbeat, Granted

\* What a node holds is kept by a step that keeps its lease and its request, and
\* takes the key from nobody who is not closed.
LEMMA Kept ==
  ASSUME TypeOK, NEW n \in Nodes,
         key' = key, closed \subseteq closed',
         role'[n] = role[n], left'[n] = left[n], lag'[n] = lag[n]
  PROVE  LeaseOf(n) => LeaseOf(n)'
BY DEF LeaseOf, Leads

LEMMA KeptRequest ==
  ASSUME TypeOK, NEW n \in Nodes,
         key' = key, closed \subseteq closed', req'[n] = req[n]
  PROVE  GrantOf(n) => GrantOf(n)'
BY DEF GrantOf, Wins, Remaining

\* A node that has invalidated its role holds nothing and expects nothing.
LEMMA Invalidated ==
  ASSUME LeaseInv, NEW n \in Nodes, NEW r \in Request, Invalidate(n, r),
         key' = key, closed \subseteq closed'
  PROVE  LeaseLasts' /\ GrantLasts'
<1>1. TypeOK /\ LeaseLasts /\ GrantLasts
  BY DEF LeaseInv
<1>2. LeaseOf(n)' /\ GrantOf(n)'
  BY <1>1, InvalidateType DEF LeaseOf, Leads, GrantOf, Wins
<1>3. ASSUME NEW v \in Nodes \ {n} PROVE LeaseOf(v)' /\ GrantOf(v)'
  BY <1>1, <1>3, InvalidateType, Kept, KeptRequest DEF LeaseLasts, GrantLasts
<1> QED BY <1>2, <1>3 DEF LeaseLasts, GrantLasts

\* Redis executes a heartbeat command of n, which has no answer under way.
LEMMA Executed ==
  ASSUME LeaseInv, NEW n \in Nodes, NEW mode, Heartbeat(n, mode),
         UNCHANGED <<role, left, lag, closed>>,
         \/ req' = req
         \/ /\ \A v \in Nodes \ {n} : req'[v] = req[v]
            /\ req'[n].age = req[n].age /\ req'[n].lag = req[n].lag
            /\ req'[n].won => Granted(n, mode)
  PROVE  LeaseLasts' /\ GrantLasts'
<1>1. TypeOK /\ LeaseLasts /\ GrantLasts
  BY DEF LeaseInv
<1>2. ASSUME NEW v \in Nodes PROVE LeaseOf(v)'
  <2> SUFFICES ASSUME Leads(v)'
               PROVE  key'.owner = v /\ key'.ttl >= left'[v] + Margin - lag'[v]
    BY DEF LeaseOf
  <2>1. Leads(v)
    BY DEF Leads
  <2>2. key.owner = v /\ key.ttl >= left[v] + Margin - lag[v]
    BY <1>1, <2>1 DEF LeaseLasts, LeaseOf
  <2>3. left[v] + Margin - lag[v] \in Int /\ left[v] + Margin - lag[v] <= Ttl
    BY <1>1, LeaseAssumption DEF TypeOK
  <2> QED BY <1>1, <2>2, <2>3, HeartbeatKeeps
<1>3. ASSUME NEW v \in Nodes PROVE GrantOf(v)'
  <2> SUFFICES ASSUME Wins(v)'
               PROVE  key'.owner = v /\ key'.ttl >= Ttl - req'[v].age - req'[v].lag
    BY DEF GrantOf
  <2>1. req[v].age \in 0..Ttl /\ req[v].lag \in 0..Margin
    BY <1>1, RequestFields
  <2>2. CASE req'[v] = req[v]
    <3>1. Wins(v)
      BY <2>2 DEF Wins, Remaining
    <3>2. key.owner = v /\ key.ttl >= Ttl - req[v].age - req[v].lag
      BY <1>1, <3>1 DEF GrantLasts, GrantOf
    <3>3. /\ Ttl - req[v].age - req[v].lag \in Int
          /\ Ttl - req[v].age - req[v].lag <= Ttl
      BY <2>1, LeaseAssumption
    <3> QED BY <1>1, <2>2, <3>2, <3>3, HeartbeatKeeps
  <2>3. CASE v = n /\ req' # req
    <3>1. Granted(n, mode)
      BY <2>3 DEF Wins
    <3>2. key' = [owner |-> n, ttl |-> Ttl]
      BY <3>1 DEF Heartbeat
    <3> QED BY <2>1, <2>3, <3>2, LeaseAssumption
  <2> QED BY <2>2, <2>3
<1> QED BY <1>2, <1>3 DEF LeaseLasts, GrantLasts

\* A unit of time shortens the key's life by one; the node's clock has either
\* moved too, or lost one unit more.
LEMMA Elapsed ==
  ASSUME LeaseInv, NEW slow \in SUBSET Nodes, Elapse(slow)
  PROVE  LeaseLasts' /\ GrantLasts'
<1> USE LeaseAssumption
<1>1. TypeOK /\ LeaseLasts /\ GrantLasts
  BY DEF LeaseInv
<1>2. /\ key' = IF key.ttl <= 1 THEN NoKey ELSE [key EXCEPT !.ttl = @ - 1]
      /\ UNCHANGED <<role, closed>>
  BY DEF Elapse
<1>3. ASSUME NEW n \in Nodes, key.owner = n, NEW t \in Int, t >= 1, key.ttl >= t + 1
      PROVE  key'.owner = n /\ key'.ttl >= t
  BY <1>1, <1>2, <1>3 DEF TypeOK
<1>4. ASSUME NEW n \in Nodes PROVE LeaseOf(n)'
  <2> SUFFICES ASSUME Leads(n)'
               PROVE  key'.owner = n /\ key'.ttl >= left'[n] + Margin - lag'[n]
    BY DEF LeaseOf
  <2>1. left[n] \in 0..(Ttl - Margin) /\ lag[n] \in 0..Margin
    BY <1>1 DEF TypeOK
  <2>2. role[n] = "leader" /\ n \notin closed /\ left'[n] > 0
    BY <1>2 DEF Leads
  <2>3. CASE n \in slow
    <3>1. left'[n] = left[n] /\ lag'[n] = lag[n] + 1 /\ lag[n] < Margin
      BY <2>2, <2>3 DEF Elapse, MayLag
    <3>2. Leads(n)
      BY <2>2, <3>1 DEF Leads
    <3>3. key.owner = n /\ key.ttl >= left[n] + Margin - lag[n]
      BY <1>1, <3>2 DEF LeaseLasts, LeaseOf
    <3>4. key'.owner = n /\ key'.ttl >= left[n] + Margin - lag[n] - 1
      BY <1>3, <2>1, <2>2, <3>1, <3>3
    <3> QED BY <2>1, <3>1, <3>4
  <2>4. CASE n \notin slow
    <3>1. left'[n] = left[n] - 1 /\ lag'[n] = lag[n]
      BY <2>1, <2>2, <2>4 DEF Elapse, Earlier
    <3>2. Leads(n)
      BY <2>1, <2>2, <3>1 DEF Leads
    <3>3. key.owner = n /\ key.ttl >= left[n] + Margin - lag[n]
      BY <1>1, <3>2 DEF LeaseLasts, LeaseOf
    <3>4. key'.owner = n /\ key'.ttl >= left[n] + Margin - lag[n] - 1
      BY <1>3, <2>1, <2>2, <3>1, <3>3
    <3> QED BY <2>1, <3>1, <3>4
  <2> QED BY <2>3, <2>4
<1>5. ASSUME NEW n \in Nodes PROVE GrantOf(n)'
  <2> SUFFICES ASSUME Wins(n)'
               PROVE  key'.owner = n /\ key'.ttl >= Ttl - req'[n].age - req'[n].lag
    BY DEF GrantOf
  <2>1. req[n].age \in 0..Ttl /\ req[n].lag \in 0..Margin
    BY <1>1, RequestFields
  <2>2. req[n].phase # "none"
    BY DEF Wins, Elapse
  <2>3. \/ /\ req'[n] = [req[n] EXCEPT !.lag = @ + 1] /\ req[n].lag < Margin
        \/ req'[n] = [req[n] EXCEPT !.age = IF @ < Ttl THEN @ + 1 ELSE @]
    BY <2>2 DEF Elapse, MayLag
  <2>4. /\ req'[n].age >= req[n].age /\ req'[n].age <= Ttl
        /\ \/ /\ req'[n].age + req'[n].lag = req[n].age + req[n].lag + 1
           \/ req[n].age = Ttl
        /\ req'[n].lag \in 0..Margin /\ req'[n].age \in 0..Ttl
    BY <1>1, <2>1, <2>3, RequestFields DEF Request
  <2>5. Ttl - Margin - req'[n].age > 0
    BY DEF Wins, Remaining
  <2>6. Wins(n)
    BY <1>1, <1>2, <2>1, <2>3, <2>4, <2>5, RequestFields DEF Wins, Remaining, Request
  <2>7. key.owner = n /\ key.ttl >= Ttl - req[n].age - req[n].lag
    BY <1>1, <2>6 DEF GrantLasts, GrantOf
  <2>8. req'[n].age + req'[n].lag = req[n].age + req[n].lag + 1
    BY <2>1, <2>4, <2>5
  <2>9. key'.owner = n /\ key'.ttl >= Ttl - req[n].age - req[n].lag - 1
    BY <1>3, <2>1, <2>4, <2>5, <2>7, <2>8
  <2> QED BY <2>1, <2>4, <2>8, <2>9
<1> QED BY <1>4, <1>5 DEF LeaseLasts, GrantLasts

LEMMA LeaseKept ==
  ASSUME LeaseInv, [Next]_vars
  PROVE  LeaseLasts' /\ GrantLasts' /\ ReleasesAreFinal'
<1> USE LeaseAssumption
<1>1. TypeOK /\ LeaseLasts /\ GrantLasts /\ ReleasesAreFinal
  BY DEF LeaseInv
<1>2. ReleasesAreFinal'
  BY <1>1 DEF ReleasesAreFinal, Next, NodeStep, RedisStep, Expire, Tick, Send, Execute,
              Answer, Fail, Disconnect, ExecuteLate, Lose, Stop, ExecuteRelease,
              LoseRelease, Crash, Elapse, vars
<1>3. ASSUME \A n \in Nodes : LeaseOf(n)' /\ GrantOf(n)'
      PROVE  LeaseLasts' /\ GrantLasts'
  BY <1>3 DEF LeaseLasts, GrantLasts
<1>4. ASSUME NEW n \in Nodes, Expire(n) \/ Disconnect(n) \/ Stop(n) \/ Crash(n)
      PROVE  LeaseLasts' /\ GrantLasts'
  <2>1. Invalidate(n, req[n]) \/ Invalidate(n, NoRequest)
    BY <1>4 DEF Expire, Disconnect, Stop, Crash
  <2>2. key' = key /\ closed \subseteq closed'
    BY <1>4 DEF Expire, Disconnect, Stop, Crash
  <2> QED BY <1>1, <2>1, <2>2, Invalidated, RequestFields, NoRequestType
<1>5. ASSUME NEW n \in Nodes, Tick(n) PROVE LeaseLasts' /\ GrantLasts'
  <2>1. UNCHANGED <<key, left, lag, closed>>
    BY <1>5 DEF Tick
  <2>2. \A v \in Nodes : role'[v] = "leader" => role[v] = "leader"
    BY <1>1, <1>5 DEF Tick, TypeOK
  <2>3. \A v \in Nodes : req'[v] = req[v] \/ req'[v].phase = "connecting"
    BY <1>1, <1>5 DEF Tick, TypeOK
  <2>4. \A v \in Nodes : LeaseOf(v)'
    BY <1>1, <2>1, <2>2 DEF LeaseLasts, LeaseOf, Leads
  <2>5. \A v \in Nodes : GrantOf(v)'
    BY <1>1, <2>1, <2>3, KeptRequest DEF GrantLasts, GrantOf, Wins
  <2> QED BY <1>3, <2>4, <2>5
<1>6. ASSUME NEW n \in Nodes, Send(n) PROVE LeaseLasts' /\ GrantLasts'
  <2>1. UNCHANGED <<key, role, left, lag, closed>>
    BY <1>6 DEF Send
  <2>2. \A v \in Nodes : req'[v] = req[v] \/ req'[v].phase \in {"sent", "none"}
    BY <1>1, <1>6, RequestFields DEF Send, TypeOK, NoRequest, Request
  <2>3. \A v \in Nodes : LeaseOf(v)'
    BY <1>1, <2>1, Kept DEF LeaseLasts
  <2>4. \A v \in Nodes : GrantOf(v)'
    BY <1>1, <2>1, <2>2, KeptRequest DEF GrantLasts, GrantOf, Wins
  <2> QED BY <1>3, <2>3, <2>4
<1>7. ASSUME NEW n \in Nodes, UNCHANGED <<key, role, left, lag, closed>>,
             req' = [req EXCEPT ![n] = NoRequest]
      PROVE  LeaseLasts' /\ GrantLasts'
  <2>1. \A v \in Nodes : LeaseOf(v)'
    BY <1>1, <1>7, Kept DEF LeaseLasts
  <2>2. \A v \in Nodes : req'[v] = req[v] \/ req'[v] = NoRequest
    BY <1>1, <1>7 DEF TypeOK
  <2>3. \A v \in Nodes : GrantOf(v)'
    BY <1>1, <1>7, <2>2, KeptRequest DEF GrantLasts, GrantOf, Wins, NoRequest
  <2> QED BY <1>3, <2>1, <2>3
<1>8. ASSUME NEW n \in Nodes, Answer(n) PROVE LeaseLasts' /\ GrantLasts'
  <2>0. UNCHANGED <<key, closed>> /\ req[n].phase = "answered"
    BY <1>8 DEF Answer
  <2>1. CASE n \in closed \/ ~req[n].current
    <3>1. req' = [req EXCEPT ![n] = NoRequest] /\ UNCHANGED <<role, left, lag>>
      BY <1>8, <2>1 DEF Answer
    <3> QED BY <1>7, <2>0, <3>1
  <2>2. CASE /\ ~(n \in closed \/ ~req[n].current)
             /\ ~(req[n].won /\ Remaining(req[n].age) > 0)
    <3>1. Invalidate(n, NoRequest)
      BY <1>8, <2>2 DEF Answer
    <3> QED BY <2>0, <3>1, Invalidated, NoRequestType
  <2>3. CASE /\ ~(n \in closed \/ ~req[n].current)
             /\ req[n].won /\ Remaining(req[n].age) > 0
    <3>1. /\ role' = [role EXCEPT ![n] = "leader"]
          /\ left' = [left EXCEPT ![n] = Remaining(req[n].age)]
          /\ lag' = [lag EXCEPT ![n] = req[n].lag]
          /\ req' = [req EXCEPT ![n] = NoRequest]
      BY <1>8, <2>3 DEF Answer
    <3>2. key.owner = n /\ key.ttl >= Ttl - req[n].age - req[n].lag
      BY <1>1, <2>0, <2>3 DEF GrantLasts, GrantOf, Wins
    <3>3. LeaseOf(n)'
      <4>1. left'[n] = Ttl - Margin - req[n].age /\ lag'[n] = req[n].lag
        BY <1>1, <3>1 DEF TypeOK, Remaining
      <4>2. req[n].age \in 0..Ttl /\ req[n].lag \in 0..Margin
        BY <1>1, RequestFields
      <4> QED BY <2>0, <3>2, <4>1, <4>2 DEF LeaseOf
    <3>4. \A v \in Nodes \ {n} : LeaseOf(v)'
      BY <1>1, <2>0, <3>1, Kept DEF LeaseLasts, TypeOK
    <3>5. \A v \in Nodes : req'[v] = req[v] \/ req'[v] = NoRequest
      BY <1>1, <3>1 DEF TypeOK
    <3>6. \A v \in Nodes : GrantOf(v)'
      BY <1>1, <2>0, <3>5, KeptRequest DEF GrantLasts, GrantOf, Wins, NoRequest
    <3> QED BY <1>3, <3>3, <3>4, <3>6
  <2> QED BY <2>1, <2>2, <2>3
<1>9. ASSUME NEW n \in Nodes, Fail(n) PROVE LeaseLasts' /\ GrantLasts'
  <2>1. CASE n \notin closed /\ req[n].current
    <3>1. Invalidate(n, NoRequest) /\ UNCHANGED <<key, closed>>
      BY <1>9, <2>1 DEF Fail
    <3> QED BY <3>1, Invalidated, NoRequestType
  <2>2. CASE ~(n \notin closed /\ req[n].current)
    <3>1. /\ req' = [req EXCEPT ![n] = NoRequest]
          /\ UNCHANGED <<key, role, left, lag, closed>>
      BY <1>9, <2>2 DEF Fail
    <3> QED BY <1>7, <3>1
  <2> QED BY <2>1, <2>2
<1>10. ASSUME NEW n \in Nodes, Execute(n) PROVE LeaseLasts' /\ GrantLasts'
  <2>1. /\ req' = [req EXCEPT ![n] = [[@ EXCEPT !.phase = "answered"] EXCEPT
                                        !.won = Granted(n, req[n].mode)]]
        /\ Heartbeat(n, req[n].mode) /\ UNCHANGED <<role, left, lag, closed>>
    BY <1>10 DEF Execute
  <2>2. /\ \A v \in Nodes \ {n} : req'[v] = req[v]
        /\ req'[n].age = req[n].age /\ req'[n].lag = req[n].lag
        /\ req'[n].won => Granted(n, req[n].mode)
    BY <1>1, <2>1, RequestFields DEF TypeOK, Request
  <2> QED BY <2>1, <2>2, Executed
<1>11. ASSUME NEW n \in Nodes, ExecuteRelease(n) PROVE LeaseLasts' /\ GrantLasts'
  <2>1. /\ n \in closed /\ UNCHANGED <<role, left, lag, req, closed>>
        /\ key' = IF key.owner = n THEN NoKey ELSE key
    BY <1>1, <1>11 DEF ExecuteRelease, Release, ReleasesAreFinal
  <2>2. \A v \in Nodes : LeaseOf(v)'
    BY <1>1, <2>1 DEF LeaseLasts, LeaseOf, Leads
  <2>3. \A v \in Nodes : GrantOf(v)'
    BY <1>1, <2>1 DEF GrantLasts, GrantOf, Wins, Remaining
  <2> QED BY <1>3, <2>2, <2>3
<1>12. ASSUME NEW n \in Nodes, NEW m \in Modes, ExecuteLate(n, m)
       PROVE  LeaseLasts' /\ GrantLasts'
  BY <1>12, Executed DEF ExecuteLate
<1>13. ASSUME UNCHANGED <<key, role, left, lag, req, closed>>
       PROVE  LeaseLasts' /\ GrantLasts'
  BY <1>1, <1>13 DEF LeaseLasts, LeaseOf, Leads, GrantLasts, GrantOf, Wins, Remaining
<1>14. ASSUME NEW n \in Nodes, LoseRelease(n) \/ \E m \in Modes : Lose(n, m)
       PROVE  LeaseLasts' /\ GrantLasts'
  BY <1>13, <1>14 DEF LoseRelease, Lose
<1>15. ASSUME UNCHANGED vars PROVE LeaseLasts' /\ GrantLasts'
  BY <1>13, <1>15 DEF vars
<1>16. LeaseLasts' /\ GrantLasts'
  BY <1>4, <1>5, <1>6, <1>8, <1>9, <1>10, <1>11, <1>12, <1>14, <1>15, Elapsed
     DEF Next, NodeStep, RedisStep
<1> QED BY <1>2, <1>16

LEMMA LeaseInvInit == Init => LeaseInv
<1> SUFFICES ASSUME Init PROVE LeaseInv
  OBVIOUS
<1>1. 0 \in 0..(Ttl - Margin) /\ 0 \in 0..Margin /\ 0 \in 0..Interval
  BY LeaseAssumption
<1>2. TypeOK
  BY <1>1, NoKeyType, NoRequestType DEF Init, TypeOK
<1>3. LeaseLasts /\ GrantLasts
  BY DEF Init, LeaseLasts, LeaseOf, Leads, GrantLasts, GrantOf, Wins, NoRequest
<1> QED BY <1>2, <1>3 DEF Init, LeaseInv, ReleasesAreFinal

LEMMA LeaseInvStep == LeaseInv /\ [Next]_vars => LeaseInv'
BY StepType, LeaseKept DEF LeaseInv

\* Every variable of the election keeps its type.
THEOREM ElectionTypes == Spec => []TypeOK
<1>1. LeaseInv => TypeOK
  BY DEF LeaseInv
<1> QED BY <1>1, LeaseInvInit, LeaseInvStep, PTL DEF Spec

\* The replica that isLeader() answers true on owns the Redis key, for at least
\* as long as its local deadline lies ahead.
THEOREM LeaderOwnsTheKey == Spec => []LeaderOwnsKey
<1>1. LeaseInv => LeaderOwnsKey
  BY LeaseAssumption DEF LeaseInv, LeaseLasts, LeaseOf, LeaderOwnsKey, TypeOK
<1> QED BY <1>1, LeaseInvInit, LeaseInvStep, PTL DEF Spec

\* However many replicas there are, whatever is lost, late or paused, isLeader()
\* is true on at most one at a time, if no clock loses more than the margin.
THEOREM OneLeader == Spec => []AtMostOneLeader
<1>1. LeaseInv => AtMostOneLeader
  BY DEF LeaseInv, LeaseLasts, LeaseOf, AtMostOneLeader
<1> QED BY <1>1, LeaseInvInit, LeaseInvStep, PTL DEF Spec

-----------------------------------------------------------------------------
(* The gate of LeaderJobs.                                                  *)

\* A step of the job system is a step of the election or leaves it alone.
LEMMA JobsStepIsLeaseStep ==
  ASSUME [JobsNext]_jobVars
  PROVE  [Next]_vars
<1>1. ASSUME LeaseStep PROVE Next
  BY <1>1 DEF LeaseStep, Next, NodeStep
<1>2. ASSUME NEW n \in Nodes, Die(n) PROVE Next
  BY <1>2 DEF Die, Next, NodeStep
<1>3. ASSUME NEW n \in Nodes, Fire(n) PROVE [Next]_vars
  <2>1. CASE req[n].phase = "none" /\ Expired(n)
    <3>1. n \notin closed /\ Invalidate(n, req[n])
          /\ UNCHANGED <<key, due, late, releasing, closed, faults>>
      BY <1>3, <2>1 DEF Fire
    <3>2. Expire(n)
      BY <2>1, <3>1 DEF Expire
    <3> QED BY <3>2 DEF Next, NodeStep
  <2>2. CASE ~(req[n].phase = "none" /\ Expired(n))
    BY <1>3, <2>2, Zenon DEF Fire
  <2> QED BY <2>1, <2>2
<1>4. ASSUME NEW n \in Nodes, Finish(n) PROVE UNCHANGED vars
  BY <1>4 DEF Finish
<1>5. ASSUME UNCHANGED jobVars PROVE UNCHANGED vars
  BY <1>5 DEF jobVars
<1> QED BY <1>1, <1>2, <1>3, <1>4, <1>5 DEF JobsNext

\* The gate opens only on a node that leads in the resulting state.
LEMMA GateOpens ==
  ASSUME gate \in [Nodes -> Gates], [JobsNext]_jobVars, NEW n \in Nodes,
         gate[n] # "running", gate'[n] = "running"
  PROVE  Leads(n)'
<1>1. CASE LeaseStep /\ Resume
  BY <1>1 DEF Resume, MayStart
<1>2. ASSUME NEW v \in Nodes, Fire(v) PROVE Leads(n)'
  <2>1. /\ v = n /\ req[n].phase = "none" /\ Leads(n)
    BY <1>2 DEF Fire
  <2>2. UNCHANGED vars
    <3>1. ~Expired(n)
      BY <2>1 DEF Expired, Leads
    <3> QED BY <1>2, <2>1, <3>1 DEF Fire
  <2> QED BY <2>1, <2>2 DEF vars, Leads
<1>3. ASSUME NEW v \in Nodes, Finish(v) \/ Die(v) PROVE FALSE
  BY <1>3 DEF Finish, Die
<1>4. ASSUME UNCHANGED jobVars PROVE FALSE
  BY <1>4 DEF jobVars
<1> QED BY <1>1, <1>2, <1>3, <1>4 DEF JobsNext

GateType == gate \in [Nodes -> Gates]

LEMMA GateTypeStep == GateType /\ [JobsNext]_jobVars => GateType'
BY DEF GateType, Gates, JobsNext, Resume, Fire, Finish, Die, jobVars

\* On any number of replicas, a leader-gated job starts only on the replica that
\* owns the Redis key, whether its timer found the role settled or had to wait.
THEOREM GatedJobsRunOnTheOwner == JobsSpec => JobsStartUnderLease
<1>1. JobsInit => LeaseInv /\ GateType
  BY LeaseInvInit DEF JobsInit, GateType, Gates
<1>2. LeaseInv /\ GateType /\ [JobsNext]_jobVars => LeaseInv' /\ GateType'
  BY JobsStepIsLeaseStep, LeaseInvStep, GateTypeStep
<1>3. LeaseInv /\ LeaseInv' /\ GateType /\ [JobsNext]_jobVars =>
        [\A n \in Nodes : gate[n] # "running" /\ gate'[n] = "running" =>
           n \notin closed' /\ key'.owner = n /\ key'.ttl > 0]_jobVars
  <2> SUFFICES ASSUME LeaseInv', GateType, [JobsNext]_jobVars,
                      NEW n \in Nodes, gate[n] # "running", gate'[n] = "running"
               PROVE  n \notin closed' /\ key'.owner = n /\ key'.ttl > 0
    OBVIOUS
  <2>1. Leads(n)'
    BY GateOpens DEF GateType
  <2>2. key'.owner = n /\ key'.ttl >= left'[n] + Margin - lag'[n]
    BY <2>1 DEF LeaseInv, LeaseLasts, LeaseOf
  <2>3. left'[n] \in Nat /\ left'[n] > 0 /\ lag'[n] \in 0..Margin /\ key'.ttl \in Nat
    BY <2>1, LeaseAssumption DEF LeaseInv, TypeOK, Leads
  <2> QED BY <2>1, <2>2, <2>3, LeaseAssumption DEF Leads
<1> QED BY <1>1, <1>2, <1>3, PTL DEF JobsSpec, JobsStartUnderLease

-----------------------------------------------------------------------------
(* A leader stays leader when timers are on time and nothing fails: the     *)
(* heartbeat begins at least a timeout before the local deadline, and the   *)
(* answer to a leader's command always renews (StaysWith).                  *)

\* timers are on time, and a lease outlives an interval and a request (30, 10, 3, 1 s)
InTime == Punctual /\ Timeout < Interval /\ Interval + Timeout + Margin < Ttl

\* what is left of a lease, at least, when the next heartbeat begins
Reserve == Ttl - Margin - Interval

\* a request under way began when the interval did, and is not over its time
BegunOf(n) ==
  n \notin closed /\ req[n].phase # "none" => due[n] + req[n].age = Interval /\ req[n].age <= Timeout

StaysWith(n) ==
  Leads(n) =>
    IF req[n].phase = "none" THEN left[n] >= due[n] + Reserve
    ELSE /\ req[n].current /\ left[n] + req[n].age >= Reserve
         /\ req[n].phase = "answered" => req[n].won

StableInv == \A n \in Nodes : BegunOf(n) /\ StaysWith(n)

\* A node whose role, timers and request stay is where it was.
LEMMA StableKept ==
  ASSUME NEW n \in Nodes, BegunOf(n), StaysWith(n), closed \subseteq closed',
         role'[n] = role[n], left'[n] = left[n], due'[n] = due[n], req'[n] = req[n]
  PROVE  BegunOf(n)' /\ StaysWith(n)' /\ (Leads(n) /\ n \notin closed' => Leads(n)')
BY DEF BegunOf, StaysWith, Leads

\* A node that is a reader, and whose request if it has one is the one it had.
LEMMA StableReader ==
  ASSUME NEW n \in Nodes, BegunOf(n), closed \subseteq closed', due'[n] = due[n], role'[n] = "reader",
         req'[n].phase = "none" \/ (req'[n].phase = req[n].phase /\ req'[n].age = req[n].age)
  PROVE  BegunOf(n)' /\ StaysWith(n)'
BY DEF BegunOf, StaysWith, Leads

Stays(n) == BegunOf(n)' /\ StaysWith(n)' /\ (Leads(n) /\ faults' = faults /\ n \notin closed' => Leads(n)')

LEMMA StableInvalidates ==
  ASSUME TypeOK, StableInv, NEW n \in Nodes, NEW r \in {req[n], NoRequest}, Invalidate(n, r),
         due' = due, closed \subseteq closed', ~Leads(n) \/ faults' # faults \/ n \in closed'
  PROVE  \A v \in Nodes : Stays(v)
<1>1. r \in Request BY NoRequestType, RequestFields
<1>2. /\ role'[n] = "reader" /\ req'[n].phase = r.phase /\ req'[n].age = r.age
      /\ \A v \in Nodes \ {n} : role'[v] = role[v] /\ left'[v] = left[v] /\ req'[v] = req[v]
  BY <1>1 DEF TypeOK, Invalidate, Request
<1>3. Stays(n) BY <1>2, StableReader DEF StableInv, Stays, NoRequest
<1>4. ASSUME NEW v \in Nodes \ {n} PROVE Stays(v)
  BY <1>2, StableKept DEF StableInv, Stays
<1> QED BY <1>3, <1>4

\* tick() finds no request pending, and the reserve in hand.
LEMMA StableTick ==
  ASSUME InTime, TypeOK, StableInv, NEW n \in Nodes, Tick(n)
  PROVE  \A v \in Nodes : Stays(v)
<1> USE LeaseAssumption
<1>1. /\ n \notin closed /\ due[n] = 0 /\ due' = [due EXCEPT ![n] = Interval]
      /\ left' = left /\ closed' = closed
  BY DEF Tick
<1>2. req[n].phase = "none"
  <2>1. BegunOf(n) /\ req[n].age \in 0..Ttl BY RequestFields DEF StableInv
  <2> QED BY <1>1, <2>1 DEF BegunOf, InTime
<1>3. /\ role' = IF Expired(n) THEN [role EXCEPT ![n] = "reader"] ELSE role
      /\ req' = [req EXCEPT ![n] = [phase |-> "connecting", mode |-> ModeOf(n), age |-> 0,
                                    lag |-> 0, current |-> TRUE, won |-> FALSE]]
  BY <1>2 DEF Tick
<1>4. /\ req'[n].phase = "connecting" /\ req'[n].age = 0 /\ req'[n].current /\ due'[n] = Interval
      /\ \A v \in Nodes \ {n} : role'[v] = role[v] /\ req'[v] = req[v] /\ due'[v] = due[v]
  BY <1>1, <1>3 DEF TypeOK
<1>5. Stays(n)
  <2>1. BegunOf(n)' BY <1>4 DEF BegunOf
  <2>2. Leads(n)' <=> Leads(n) BY <1>1, <1>3 DEF Leads, Expired, TypeOK
  <2>3. Leads(n) => left[n] >= Reserve
    <3>1. left[n] \in Nat BY DEF TypeOK
    <3> QED BY <1>1, <1>2, <3>1 DEF StableInv, StaysWith, Reserve
  <2>4. StaysWith(n)' BY <1>1, <1>4, <2>2, <2>3 DEF StaysWith, TypeOK, Reserve
  <2> QED BY <2>1, <2>2, <2>4 DEF Stays
<1>6. ASSUME NEW v \in Nodes \ {n} PROVE Stays(v)
  BY <1>1, <1>4, StableKept DEF StableInv, Stays
<1> QED BY <1>5, <1>6

\* The answer to a request that began with the interval renews the reserve.
LEMMA StableAnswer ==
  ASSUME InTime, TypeOK, StableInv, NEW n \in Nodes, Answer(n)
  PROVE  \A v \in Nodes : Stays(v)
<1> USE LeaseAssumption
<1>0. /\ req[n].phase = "answered" /\ UNCHANGED <<due, closed, faults>>
      /\ BegunOf(n) /\ StaysWith(n) /\ req[n].age \in 0..Ttl
      /\ left[n] \in Nat /\ due[n] \in 0..Interval
  BY RequestFields DEF Answer, StableInv, TypeOK
<1>1. CASE n \in closed \/ ~req[n].current
  <2>1. /\ req' = [req EXCEPT ![n] = NoRequest] /\ UNCHANGED <<role, left>>
    BY <1>1 DEF Answer
  <2>2. ~Leads(n) BY <1>0, <1>1 DEF StaysWith, Leads
  <2>3. Stays(n)
    BY <1>0, <2>1, <2>2 DEF Stays, StaysWith, BegunOf, Leads, TypeOK, NoRequest
  <2>4. ASSUME NEW v \in Nodes \ {n} PROVE Stays(v)
    <3>1. req'[v] = req[v] BY <2>1 DEF TypeOK
    <3> QED BY <1>0, <2>1, <3>1, StableKept DEF StableInv, Stays
  <2> QED BY <2>3, <2>4
<1>2. CASE n \notin closed /\ req[n].current /\ req[n].won /\ Remaining(req[n].age) > 0
  <2>1. /\ role' = [role EXCEPT ![n] = "leader"]
        /\ left' = [left EXCEPT ![n] = Remaining(req[n].age)]
        /\ req' = [req EXCEPT ![n] = NoRequest]
    BY <1>2 DEF Answer
  <2>2. /\ role'[n] = "leader" /\ left'[n] = Remaining(req[n].age) /\ req'[n].phase = "none"
        /\ \A v \in Nodes \ {n} : role'[v] = role[v] /\ left'[v] = left[v] /\ req'[v] = req[v]
    BY <2>1 DEF TypeOK, NoRequest
  <2>3. due[n] + req[n].age = Interval BY <1>0, <1>2 DEF BegunOf
  <2>4. Ttl - Margin - req[n].age >= due[n] + (Ttl - Margin - Interval) BY <1>0, <2>3
  <2>5. StaysWith(n)' BY <1>0, <2>2, <2>4 DEF StaysWith, Remaining, Reserve
  <2>6. Leads(n)' BY <1>0, <1>2, <2>2 DEF Leads
  <2>7. BegunOf(n)' BY <2>2 DEF BegunOf
  <2>8. ASSUME NEW v \in Nodes \ {n} PROVE Stays(v)
    BY <1>0, <2>2, StableKept DEF StableInv, Stays
  <2> QED BY <2>5, <2>6, <2>7, <2>8 DEF Stays
<1>3. CASE n \notin closed /\ req[n].current /\ ~(req[n].won /\ Remaining(req[n].age) > 0)
  <2>1. Invalidate(n, NoRequest) BY <1>3 DEF Answer
  <2>2. Remaining(req[n].age) > 0 BY <1>0, <1>3 DEF BegunOf, Remaining, InTime
  <2>3. ~Leads(n) BY <1>0, <1>3, <2>2 DEF StaysWith
  <2> QED BY <1>0, <2>1, <2>3, StableInvalidates
<1> QED BY <1>1, <1>2, <1>3

\* Redis executes the command of a leader, which owns the key: it renews.
LEMMA StableExecute ==
  ASSUME TypeOK, LeaseLasts, StableInv, NEW n \in Nodes, Execute(n)
  PROVE  \A v \in Nodes : Stays(v)
<1>1. /\ UNCHANGED <<role, left, due, closed, faults>> /\ req[n].phase = "sent"
      /\ req' = [req EXCEPT ![n] = [@ EXCEPT !.phase = "answered", !.won = Granted(n, req[n].mode)]]
  BY DEF Execute
<1>2. /\ req'[n].won <=> Granted(n, req[n].mode)
      /\ req'[n].phase = "answered" /\ req'[n].age = req[n].age /\ req'[n].current = req[n].current
      /\ \A v \in Nodes \ {n} : req'[v] = req[v]
  BY <1>1 DEF TypeOK, Request
<1>3. Leads(n) => Granted(n, req[n].mode) BY DEF LeaseLasts, LeaseOf, Granted
<1>4. Stays(n)
  <2>1. BegunOf(n)' BY <1>1, <1>2 DEF StableInv, BegunOf
  <2>2. Leads(n)' <=> Leads(n) BY <1>1 DEF Leads
  <2>3. StaysWith(n)' BY <1>1, <1>2, <1>3, <2>2 DEF StableInv, StaysWith
  <2> QED BY <2>1, <2>2, <2>3 DEF Stays
<1>5. ASSUME NEW v \in Nodes \ {n} PROVE Stays(v)
  BY <1>1, <1>2, StableKept DEF StableInv, Stays
<1> QED BY <1>4, <1>5

\* The connection is there: a leader's request is current, and is sent.
LEMMA StableSend ==
  ASSUME TypeOK, StableInv, NEW n \in Nodes, Send(n)
  PROVE  \A v \in Nodes : Stays(v)
<1>1. /\ UNCHANGED <<role, left, due, closed, faults>> /\ req[n].phase = "connecting"
      /\ req' = [req EXCEPT ![n] = IF n \notin closed /\ @.current
                                   THEN [@ EXCEPT !.phase = "sent"] ELSE NoRequest]
  BY DEF Send
<1>2. ASSUME NEW v \in Nodes \ {n} PROVE Stays(v)
  <2>1. req'[v] = req[v] BY <1>1 DEF TypeOK
  <2> QED BY <1>1, <2>1, StableKept DEF StableInv, Stays
<1>3. Stays(n)
  <2>1. Leads(n)' <=> Leads(n) BY <1>1 DEF Leads
  <2>2. BegunOf(n) /\ StaysWith(n) BY DEF StableInv
  <2>3. CASE n \notin closed /\ req[n].current
    <3>1. req'[n].phase = "sent" /\ req'[n].age = req[n].age /\ req'[n].current
      BY <1>1, <2>3 DEF TypeOK, Request
    <3> QED BY <1>1, <2>1, <2>2, <3>1 DEF Stays, BegunOf, StaysWith
  <2>4. CASE ~(n \notin closed /\ req[n].current)
    <3>1. ~Leads(n) BY <1>1, <2>2, <2>4 DEF StaysWith, Leads
    <3>2. req'[n].phase = "none" BY <1>1, <2>4 DEF TypeOK, NoRequest
    <3> QED BY <2>1, <3>1, <3>2 DEF Stays, BegunOf, StaysWith
  <2> QED BY <2>3, <2>4
<1> QED BY <1>2, <1>3

\* A unit of time takes as much from the deadline as from the interval; the clock
\* of a slow node takes from neither.
LEMMA StableElapse ==
  ASSUME InTime, TypeOK, StableInv, NEW slow \in SUBSET Nodes, Elapse(slow)
  PROVE  \A n \in Nodes : Stays(n)
<1> USE LeaseAssumption
<1> SUFFICES ASSUME NEW n \in Nodes PROVE Stays(n)
  OBVIOUS
<1>1. /\ UNCHANGED <<role, closed, faults>>
      /\ left'[n] = IF n \in slow THEN left[n] ELSE Earlier(left[n])
      /\ due'[n] = IF n \in slow THEN due[n] ELSE Earlier(due[n])
      /\ OnTime(n) /\ BegunOf(n) /\ StaysWith(n)
  BY DEF Elapse, InTime, StableInv
<1>2. /\ left[n] \in Nat /\ due[n] \in 0..Interval /\ req[n].age \in 0..Ttl
  BY RequestFields DEF TypeOK
<1>3. /\ req'[n].phase = req[n].phase /\ req'[n].current = req[n].current /\ req'[n].won = req[n].won
      /\ req[n].phase # "none" =>
           req'[n].age = IF n \in slow THEN req[n].age ELSE req[n].age + 1
  <2>1. req'[n] = IF req[n].phase = "none" THEN req[n]
                  ELSE IF n \in slow THEN [req[n] EXCEPT !.lag = @ + 1]
                  ELSE [req[n] EXCEPT !.age = IF @ < Ttl THEN @ + 1 ELSE @]
    BY DEF Elapse
  <2>2. req[n].phase # "none" => req[n].age < Ttl BY <1>1, <1>2 DEF OnTime, InTime
  <2>3. req[n] \in Request BY RequestFields
  <2> QED BY <2>1, <2>2, <2>3 DEF Request
<1>4. n \notin closed => due[n] > 0 BY <1>1 DEF OnTime
<1>5. req[n].phase # "none" => req[n].age < Timeout BY <1>1 DEF OnTime
<1>6. BegunOf(n)'
  <2> SUFFICES ASSUME n \notin closed, req[n].phase # "none"
               PROVE  due'[n] + req'[n].age = Interval /\ req'[n].age <= Timeout
    BY <1>1, <1>3 DEF BegunOf
  <2>1. due[n] + req[n].age = Interval BY <1>1 DEF BegunOf
  <2> QED BY <1>1, <1>2, <1>3, <1>4, <1>5, <2>1 DEF Earlier
<1>7. Leads(n)' => Leads(n) BY <1>1, <1>2 DEF Leads, Earlier
<1>8. ASSUME Leads(n) PROVE StaysWith(n)' /\ left'[n] > 0
  <2>0. n \notin closed BY <1>8 DEF Leads
  <2>1. CASE req[n].phase = "none"
    <3>1. left[n] >= due[n] + Reserve BY <1>1, <1>8, <2>1 DEF StaysWith
    <3>2. Reserve \in Int /\ Reserve > 0 BY DEF Reserve, InTime
    <3>3. left'[n] >= due'[n] + Reserve /\ left'[n] > 0
      BY <1>1, <1>2, <1>4, <2>0, <3>1, <3>2 DEF Earlier
    <3> QED BY <1>3, <2>1, <3>3 DEF StaysWith, Reserve
  <2>2. CASE req[n].phase # "none"
    <3>1. /\ req[n].current /\ left[n] + req[n].age >= Reserve
          /\ req[n].phase = "answered" => req[n].won
      BY <1>1, <1>8, <2>2 DEF StaysWith
    <3>2. Reserve \in Int /\ Reserve > Timeout BY DEF Reserve, InTime
    <3>3. left'[n] + req'[n].age >= Reserve /\ left'[n] > 0
      BY <1>1, <1>2, <1>3, <1>5, <2>2, <3>1, <3>2 DEF Earlier
    <3> QED BY <1>3, <2>2, <3>1, <3>3 DEF StaysWith, Reserve
  <2> QED BY <2>1, <2>2
<1>9. StaysWith(n)' BY <1>7, <1>8 DEF StaysWith
<1>10. Leads(n) => Leads(n)' BY <1>1, <1>8 DEF Leads
<1> QED BY <1>6, <1>9, <1>10 DEF Stays

LEMMA StableStep ==
  ASSUME InTime, LeaseInv, StableInv, [Next]_vars
  PROVE  \A v \in Nodes : Stays(v)
<1>0. TypeOK /\ LeaseLasts BY DEF LeaseInv
<1>1. ASSUME NEW n \in Nodes, Expire(n) PROVE \A v \in Nodes : Stays(v)
  <2>1. ~Leads(n) BY <1>1 DEF Expire, Expired, Leads
  <2> QED BY <1>0, <1>1, <2>1, StableInvalidates DEF Expire
<1>2. ASSUME NEW n \in Nodes, Fail(n) PROVE \A v \in Nodes : Stays(v)
  <2>0. faults' # faults BY <1>0, <1>2 DEF Fail, TypeOK
  <2>1. CASE n \notin closed /\ req[n].current
    BY <1>0, <1>2, <2>0, <2>1, StableInvalidates DEF Fail
  <2>2. CASE ~(n \notin closed /\ req[n].current)
    <3>1. /\ req' = [req EXCEPT ![n] = NoRequest] /\ UNCHANGED <<role, left, due, closed>>
          /\ req[n].phase # "none"
      BY <1>2, <2>2 DEF Fail
    <3>2. ~Leads(n) BY <2>2, <3>1 DEF StableInv, StaysWith, Leads
    <3>3. Stays(n)
      BY <1>0, <3>1, <3>2 DEF Stays, BegunOf, StaysWith, Leads, TypeOK, NoRequest
    <3>4. ASSUME NEW v \in Nodes \ {n} PROVE Stays(v)
      <4>1. req'[v] = req[v] BY <1>0, <3>1 DEF TypeOK
      <4> QED BY <3>1, <4>1, StableKept DEF StableInv, Stays
    <3> QED BY <3>3, <3>4
  <2> QED BY <2>1, <2>2
<1>3. ASSUME NEW n \in Nodes, Disconnect(n) PROVE \A v \in Nodes : Stays(v)
  <2>1. faults' # faults BY <1>0, <1>3 DEF Disconnect, TypeOK
  <2> QED BY <1>0, <1>3, <2>1, StableInvalidates DEF Disconnect
<1>4. ASSUME NEW n \in Nodes, Stop(n) PROVE \A v \in Nodes : Stays(v)
  <2>1. closed \subseteq closed' /\ n \in closed' BY <1>4 DEF Stop
  <2> QED BY <1>0, <1>4, <2>1, StableInvalidates DEF Stop
<1>5. ASSUME NEW n \in Nodes, Crash(n) PROVE \A v \in Nodes : Stays(v)
  <2>1. closed \subseteq closed' /\ n \in closed' BY <1>5 DEF Crash
  <2> QED BY <1>0, <1>5, <2>1, StableInvalidates DEF Crash
<1>6. ASSUME UNCHANGED <<role, left, due, req, closed>> PROVE \A v \in Nodes : Stays(v)
  BY <1>6, StableKept DEF StableInv, Stays
<1>7. ASSUME NEW n \in Nodes,
             \/ ExecuteRelease(n) \/ LoseRelease(n)
             \/ \E mode \in Modes : ExecuteLate(n, mode) \/ Lose(n, mode)
      PROVE  UNCHANGED <<role, left, due, req, closed>>
  BY <1>7 DEF ExecuteRelease, LoseRelease, ExecuteLate, Lose
<1>8. CASE UNCHANGED vars BY <1>6, <1>8 DEF vars
<1> QED
  BY <1>0, <1>1, <1>2, <1>3, <1>4, <1>5, <1>6, <1>7, <1>8, StableTick, StableAnswer, StableExecute,
     StableSend, StableElapse DEF Next, NodeStep, RedisStep

\* On any number of replicas, when timers are on time and a lease outlives an
\* interval and a request, a leader whose requests do not fail stays leader until
\* it is shut down, although its clock may lose up to the margin.
THEOREM LeadersStay == InTime => (Spec => LeaderIsStable)
<1> SUFFICES ASSUME InTime PROVE Spec => LeaderIsStable
  OBVIOUS
<1>1. Init => LeaseInv /\ StableInv
  <2>1. ASSUME Init, NEW n \in Nodes PROVE BegunOf(n) /\ StaysWith(n)
    <3>1. role[n] = "unknown" /\ req[n].phase = "none" BY <2>1 DEF Init, NoRequest
    <3> QED BY <3>1 DEF BegunOf, StaysWith, Leads
  <2> QED BY <2>1, LeaseInvInit DEF StableInv
<1>2. LeaseInv /\ StableInv /\ [Next]_vars => LeaseInv' /\ StableInv'
  BY LeaseInvStep, StableStep DEF StableInv, Stays
<1>3. LeaseInv /\ StableInv /\ [Next]_vars =>
        [\A n \in Nodes : Leads(n) /\ faults' = faults /\ n \notin closed' => Leads(n)']_vars
  BY StableStep DEF Stays
<1> QED BY <1>1, <1>2, <1>3, PTL DEF Spec, LeaderIsStable
=============================================================================
