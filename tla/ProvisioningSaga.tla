--------------------------- MODULE ProvisioningSaga ---------------------------
(***************************************************************************)
(* One run of the provisioning engine                                      *)
(* (src/services/provisioning/engine.js and its steps): an ordered list of *)
(* steps with checkpoints, resumed after a failure or a crash and undone   *)
(* by compensations in reverse order.                                      *)
(*                                                                         *)
(* A step finds or creates rows by their natural keys.  A db step commits  *)
(* its rows together with its checkpoint; an external step writes them one *)
(* by one, and its checkpoint afterwards.  Requests that name the run are  *)
(* served by one event loop, which a request gives up only while the       *)
(* password of a new user is checked and hashed; the process may crash at  *)
(* any moment.  Of a row the model keeps who created it, not its content.  *)
(***************************************************************************)
EXTENDS Integers

CONSTANTS
  N,         \* number of steps; step 1 creates the tenant
  Rows,      \* natural keys, numbered in the order of the declaration
  RowsOf,    \* the rows that each step finds or creates
  External,  \* steps that write outside a transaction
  Hashing,   \* external steps that await before they insert: create_users
  Owned,     \* db steps whose rows belong to the tenant
  Undoable,  \* steps with a compensation
  Requests   \* requests that may be served at once

Steps  == 1..N
Tenant == 1
Nobody == "nobody"

ASSUME PlanAssumption ==
  /\ N \in Nat \ {0} /\ Rows \subseteq Nat /\ Tenant \in Rows
  /\ RowsOf \in [Steps -> SUBSET Rows] /\ RowsOf[1] = {Tenant}
  /\ \A k \in Steps \ {1} : Tenant \notin RowsOf[k]
  /\ External \subseteq Steps \ {1} /\ Hashing \subseteq External
  /\ Owned \subseteq Steps \ (External \cup {1}) /\ Undoable \subseteq Steps

ASSUME RequestAssumption == Nobody \notin Requests

VARIABLES
  status,  \* status of the run, "absent" before its row exists
  cursor,  \* current_step
  step,    \* status of each step row
  made,    \* the rows that the checkpoint of each step calls created
  world,   \* of each row who created it, or that it is absent, deactivated or used
  loop,    \* the request that holds the event loop
  pc,      \* where each request is
  at,      \* the step it has come to
  todo,    \* rows that its step has still to visit
  acc,     \* rows that its step has created
  undo,    \* completed steps that its rollback has still to compensate
  undone   \* history: has a rollback begun?

run       == <<status, cursor, step, made>>
variables == <<loop, pc, at, todo, acc, undo>>
vars      == <<run, world, variables, undone>>

Makers == {"own", "other", "default"}
\* a row id: ids are never used again, so that a key and its maker say which row it is
Ids    == [row : Rows, by : Makers]

TenantRows == UNION {RowsOf[k] : k \in Owned}
HostRows   == UNION {RowsOf[k] : k \in External \ Hashing}
\* "used": inserted by the run, and rows of other features have come to refer to it
Values     == Makers \cup {"absent", "inactive", "used"}
Exists(i)  == world[i] # "absent"

\* The shared pool and the tenant may be there already; nobody owns the rows of no tenant.
Init ==
  /\ status = "absent" /\ cursor = 0
  /\ step = [k \in Steps |-> "pending"] /\ made = [k \in Steps |-> {}]
  /\ world \in [Rows -> {"absent", "other", "default"}]
  /\ \A i \in Rows \ {Tenant} : world[i] # "default"
  /\ world[Tenant] = "absent" => \A i \in TenantRows : world[i] = "absent"
  /\ loop = Nobody /\ pc = [q \in Requests |-> "idle"]
  /\ at = [q \in Requests |-> 1] /\ todo = [q \in Requests |-> {}]
  /\ acc = [q \in Requests |-> {}] /\ undo = [q \in Requests |-> {}]
  /\ undone = FALSE

-----------------------------------------------------------------------------
(* Executing the run.                                                       *)

Arrives(q)      == loop = Nobody /\ pc[q] = "idle"
Holds(q, where) == loop = q /\ pc[q] = where

Stays(q, where) == pc' = [pc EXCEPT ![q] = where] /\ UNCHANGED <<loop, undo>>

\* the request is answered, and its local variables are gone
Leave(q) ==
  /\ loop' = Nobody /\ pc' = [pc EXCEPT ![q] = "idle"]
  /\ at' = [at EXCEPT ![q] = 1] /\ todo' = [todo EXCEPT ![q] = {}]
  /\ acc' = [acc EXCEPT ![q] = {}] /\ undo' = [undo EXCEPT ![q] = {}]

\* apply() and resume() re-enter any run that has not ended, running ones included
Enter(q) ==
  /\ Arrives(q) /\ status \notin {"completed", "rolled_back"}
  /\ status' = "running"
  /\ loop' = q /\ pc' = [pc EXCEPT ![q] = "next"]
  /\ UNCHANGED <<cursor, step, made, world, at, todo, acc, undo, undone>>

BugPassed(k) == k <= cursor \/ step[k] \in {"completed", "running"}
Passed(k)    == k <= cursor \/ step[k] = "completed"

BugNextStep(q) == at' = [at EXCEPT ![q] = cursor + 2]
NextStep(q)    == at' = [at EXCEPT ![q] = @ + 1]

\* a step that is done is skipped, and the cursor follows
SkipStep(q) ==
  LET k == at[q]
  IN  /\ Holds(q, "next") /\ k \in Steps /\ Passed(k)
      /\ cursor' = IF k <= cursor THEN cursor ELSE k
      /\ NextStep(q)
      /\ UNCHANGED <<status, step, made, world, loop, pc, todo, acc, undo, undone>>

\* who has created a row once it has been visited
Provider(i) == IF Exists(i) THEN world[i] ELSE "own"

BugInserted(S) == {[row |-> i, by |-> Provider(i)] : i \in S}
\* the rows of a visit that the visit has inserted; the others are adopted
Inserted(S) == {[row |-> i, by |-> "own"] : i \in {j \in S : ~Exists(j)}}

Provide(S) == [i \in Rows |-> IF i \in S THEN Provider(i) ELSE world[i]]

\* the tenant that the run created or adopted is still there
Linked == IF made[1] = {} THEN Exists(Tenant) ELSE world[Tenant] = "own"

\* _recordStepDone() and _setCursor()
Checkpoint(k, ids) ==
  /\ made' = [made EXCEPT ![k] = ids]
  /\ step' = [step EXCEPT ![k] = "completed"] /\ cursor' = k
  /\ UNCHANGED status

\* a db step: its rows, its checkpoint and the cursor in one transaction
RunDbStep(q) ==
  LET k == at[q]
  IN  /\ Holds(q, "next") /\ k \in Steps \ External /\ ~Passed(k)
      /\ k \in Owned => Linked
      /\ world' = Provide(RowsOf[k]) /\ Checkpoint(k, Inserted(RowsOf[k]))
      /\ NextStep(q) /\ UNCHANGED <<loop, pc, todo, acc, undo, undone>>

\* the catch of _execute(), whatever the run has come to meanwhile
StepFails(q) ==
  /\ step' = [step EXCEPT ![at[q]] = "failed"] /\ status' = "failed"
  /\ Leave(q) /\ UNCHANGED <<cursor, made, undone>>

\* the transaction of a db step is rolled back
DbStepFails(q) ==
  LET k == at[q]
  IN  /\ Holds(q, "next") /\ k \in Steps \ External /\ ~Passed(k)
      /\ StepFails(q) /\ UNCHANGED world

BeginExternal(q) ==
  LET k == at[q]
  IN  /\ Holds(q, "next") /\ k \in External /\ ~Passed(k)
      /\ step' = [step EXCEPT ![k] = "running"]
      /\ Stays(q, "rows")
      /\ todo' = [todo EXCEPT ![q] = RowsOf[k]] /\ acc' = [acc EXCEPT ![q] = {}]
      /\ UNCHANGED <<status, cursor, made, world, at, undone>>

\* one row of an external step is done with
Visit(q, i) ==
  /\ world' = Provide({i})
  /\ acc' = [acc EXCEPT ![q] = @ \cup Inserted({i})]
  /\ todo' = [todo EXCEPT ![q] = @ \ {i}]
  /\ UNCHANGED <<run, at, undone>>

\* the row that a request has come to
First(q, i) == i \in todo[q] /\ \A j \in todo[q] : i <= j

\* a row is found or, if that takes no await, inserted
VisitRow(q) ==
  \E i \in todo[q] :
    /\ Holds(q, "rows") /\ First(q, i) /\ Visit(q, i) /\ Stays(q, "rows")
    /\ at[q] \in Hashing => Exists(i) /\ Linked

\* createUser() gives up the event loop
AwaitHash(q) ==
  /\ Holds(q, "rows") /\ at[q] \in Hashing
  /\ \E i \in todo[q] : First(q, i) /\ ~Exists(i)
  /\ loop' = Nobody /\ pc' = [pc EXCEPT ![q] = "hash"]
  /\ UNCHANGED <<run, world, at, todo, acc, undo, undone>>

Resumes(q) == loop = Nobody /\ pc[q] = "hash"

\* ... and inserts the user, then the row that ties it to the tenant
UserInserted(q) ==
  \E i \in todo[q] :
    /\ Resumes(q) /\ First(q, i) /\ ~Exists(i)
    /\ \/ /\ Linked /\ Visit(q, i)
          /\ loop' = q /\ pc' = [pc EXCEPT ![q] = "rows"] /\ UNCHANGED undo
       \/ /\ world' = Provide({i}) /\ ~Linked /\ StepFails(q)

\* the password is refused, or somebody has taken the name meanwhile
UserRefused(q) == Resumes(q) /\ StepFails(q) /\ UNCHANGED world

ExternalStepFails(q) == Holds(q, "rows") /\ StepFails(q) /\ UNCHANGED world

FinishExternal(q) ==
  /\ Holds(q, "rows") /\ todo[q] = {}
  /\ Checkpoint(at[q], acc[q])
  /\ Stays(q, "next") /\ NextStep(q)
  /\ UNCHANGED <<world, todo, acc, undone>>

Complete(q) ==
  /\ Holds(q, "next") /\ at[q] = N + 1
  /\ status' = "completed" /\ Leave(q)
  /\ UNCHANGED <<cursor, step, made, world, undone>>

-----------------------------------------------------------------------------
(* Undoing the run.                                                         *)

Rollback(q) ==
  /\ Arrives(q) /\ status \notin {"absent", "rolled_back"}
  /\ loop' = q /\ pc' = [pc EXCEPT ![q] = "undo"]
  /\ undo' = [undo EXCEPT ![q] = {k \in Steps : step[k] = "completed"}]
  /\ undone' = TRUE
  /\ UNCHANGED <<run, world, at, todo, acc>>

Last(q, k) == k \in undo[q] /\ \A j \in undo[q] : j <= k

\* compensate() goes by the ids of the checkpoint; the database refuses to delete a
\* host that is used, and the step takes no notice
Undoing(k, i) == k \in Undoable /\ [row |-> i, by |-> world[i]] \in made[k]

\* users are deactivated, other rows deleted, and those of a deleted tenant with it
Compensated(k) ==
  [i \in Rows |->
     IF Undoing(k, i) THEN IF k \in Hashing THEN "inactive" ELSE "absent"
     ELSE IF k = 1 /\ Undoing(1, Tenant) /\ i \in TenantRows THEN "absent"
     ELSE world[i]]

Refused(k) == k = 1 /\ k \in Undoable /\ world[Tenant] = "default"

Compensate(q) ==
  \E k \in Steps :
    /\ Holds(q, "undo") /\ Last(q, k) /\ ~Refused(k)
    /\ world' = Compensated(k) /\ Stays(q, "mark")
    /\ UNCHANGED <<run, at, todo, acc, undone>>

BugMarkStep(q) ==
  \E k \in Steps :
    /\ Last(q, k) /\ (Holds(q, "undo") \/ Holds(q, "mark"))
    /\ step' = [step EXCEPT ![k] = "compensated"]
    /\ pc' = [pc EXCEPT ![q] = "undo"] /\ undo' = [undo EXCEPT ![q] = @ \ {k}]
    /\ UNCHANGED <<status, cursor, made, world, loop, at, todo, acc, undone>>

\* the compensation has returned, or has thrown; the rollback goes on
MarkStep(q) ==
  \E k \in Steps :
    /\ Last(q, k)
    /\ \/ Holds(q, "mark") /\ step' = [step EXCEPT ![k] = "compensated"]
       \/ Holds(q, "undo") /\ Refused(k) /\ step' = [step EXCEPT ![k] = "failed"]
    /\ pc' = [pc EXCEPT ![q] = "undo"] /\ undo' = [undo EXCEPT ![q] = @ \ {k}]
    /\ UNCHANGED <<status, cursor, made, world, loop, at, todo, acc, undone>>

EndRollback(q) ==
  /\ Holds(q, "undo") /\ undo[q] = {}
  /\ status' = "rolled_back" /\ Leave(q)
  /\ UNCHANGED <<cursor, step, made, world, undone>>

-----------------------------------------------------------------------------
(* The environment.                                                         *)

\* somebody else, or another run, inserts a row under the same natural key
InsertedByOther(i) ==
  /\ loop = Nobody /\ ~Exists(i)
  /\ i \in TenantRows => Exists(Tenant)
  /\ world' = [world EXCEPT ![i] = "other"]
  /\ UNCHANGED <<run, variables, undone>>

\* a preview environment or an artifact deployment begins to refer to a host
Use(i) ==
  /\ loop = Nobody /\ world[i] = "own" /\ world' = [world EXCEPT ![i] = "used"]
  /\ UNCHANGED <<run, variables, undone>>

Crash ==
  /\ \E q \in Requests : pc[q] # "idle"
  /\ loop' = Nobody /\ pc' = [q \in Requests |-> "idle"]
  /\ at' = [q \in Requests |-> 1] /\ todo' = [q \in Requests |-> {}]
  /\ acc' = [q \in Requests |-> {}] /\ undo' = [q \in Requests |-> {}]
  /\ UNCHANGED <<run, world, undone>>

Next ==
  \/ \E q \in Requests :
       \/ Enter(q) \/ SkipStep(q) \/ RunDbStep(q) \/ DbStepFails(q) \/ BeginExternal(q)
       \/ VisitRow(q) \/ AwaitHash(q) \/ UserInserted(q) \/ UserRefused(q)
       \/ ExternalStepFails(q) \/ FinishExternal(q) \/ Complete(q)
       \/ Rollback(q) \/ Compensate(q) \/ MarkStep(q) \/ EndRollback(q)
  \/ \E i \in Rows : InsertedByOther(i)
  \/ \E i \in HostRows : Use(i)
  \/ Crash

Spec == Init /\ [][Next]_vars

-----------------------------------------------------------------------------
(* Correctness.                                                             *)

\* Every column and every local variable has a value that the code can store in it.
TypeOK ==
  /\ status \in {"absent", "running", "failed", "completed", "rolled_back"}
  /\ cursor \in 0..N
  /\ step \in [Steps -> {"pending", "running", "completed", "failed", "compensated"}]
  /\ made \in [Steps -> SUBSET Ids]
  /\ world \in [Rows -> Values]
  /\ loop \in Requests \cup {Nobody}
  /\ pc \in [Requests -> {"idle", "next", "rows", "hash", "undo", "mark"}]
  /\ at \in [Requests -> 1..(N + 1)]
  /\ todo \in [Requests -> SUBSET Rows]
  /\ acc \in [Requests -> SUBSET Ids]
  /\ undo \in [Requests -> SUBSET Steps] /\ undone \in BOOLEAN

\* A run that is called completed, and that nobody has begun to roll back, has all its
\* rows, whatever failed, crashed or was served next to it before (the skips and
\* checkpoints of _execute()).
CompletedIsProvisioned ==
  status = "completed" /\ ~undone => \A k \in Steps : \A i \in RowsOf[k] : Exists(i)

\* A row that the run has not created is never deleted or deactivated, though the run
\* has adopted it, except with the tenant that the run itself created (the checkpoints
\* of the steps and their compensations).
SharedRowsSurvive ==
  [][\A i \in Rows : world[i] \in {"other", "default"}
       => \/ world'[i] = world[i]
          \/ i \in TenantRows /\ world[Tenant] = "own" /\ world'[Tenant] = "absent"]_vars

\* A step that is marked as compensated has none of the rows left that its checkpoint
\* calls created, unless others use them, though the rollback crashed and was begun
\* again, or a request of the same run went on next to it.
CompensatedIsUndone ==
  \A k \in Undoable : step[k] = "compensated"
    => \A id \in made[k] : world[id.row] # id.by

\* Rolling back deletes or deactivates every row that the run has created and that
\* nobody has begun to use.
RollbackRemovesOwnRows ==
  status = "rolled_back" /\ (\A q \in Requests : pc[q] = "idle")
    => \A i \in Rows : world[i] # "own"
=============================================================================
