------------------------ MODULE ProvisioningSagaProofs ------------------------
(***************************************************************************)
(* What a provisioning run never does, for every plan of steps and rows    *)
(* and any number of requests, failures and crashes.                       *)
(*                                                                         *)
(* SharedRowsSurvive holds because every id that a checkpoint calls        *)
(* created was inserted by the run (OnlyInserted).  That a completed run   *)
(* is provisioned is not inductive: what lies behind the cursor, behind a  *)
(* completed step and behind each request has to be there too (Worked).    *)
(* A compensated step stays undone because only a step that runs again     *)
(* inserts its rows, and users are deactivated, never deleted (UndoInv).   *)
(***************************************************************************)
EXTENDS ProvisioningSaga, TLAPS

OnlyInserted ==
  /\ \A k \in Steps : \A id \in made[k] : id.by = "own"
  /\ \A q \in Requests : \A id \in acc[q] : id.by = "own"

\* a request begins with the first step, and visits rows only in an external one
Located ==
  \A q \in Requests : /\ pc[q] = "idle" => at[q] = 1
                      /\ pc[q] \in {"rows", "hash"} => at[q] \in External

Provided(k) == \A i \in RowsOf[k] : Exists(i)

Worked ==
  ~undone =>
    /\ \A q \in Requests : pc[q] \notin {"undo", "mark"}
    /\ \A k \in Steps : Passed(k) => Provided(k)
    /\ \A q \in Requests : \A k \in Steps :
         pc[q] \in {"next", "rows", "hash"} /\ k < at[q] => Provided(k)
    /\ \A q \in Requests :
         pc[q] \in {"rows", "hash"} => \A i \in RowsOf[at[q]] \ todo[q] : Exists(i)
    /\ status = "completed" => \A k \in Steps : Provided(k)

SagaInv == TypeOK /\ OnlyInserted /\ Located /\ Worked

\* Steps write different tables.
OwnTables == \A k, l \in Steps : k # l => RowsOf[k] \cap RowsOf[l] = {}

\* From one await to the next, a request has the event loop for itself.
Looped == \A q \in Requests : pc[q] \in {"next", "rows", "undo", "mark"} => loop = q

\* A checkpoint and a request name rows of their step only; a step whose rows are being
\* visited is still running, unless the visit may give up the event loop.
Confined ==
  /\ \A k \in Steps : \A id \in made[k] : id.row \in RowsOf[k]
  /\ \A q \in Requests :
       pc[q] \in {"rows", "hash"} =>
         /\ todo[q] \subseteq RowsOf[at[q]] /\ \A id \in acc[q] : id.row \in RowsOf[at[q]]
         /\ at[q] \in Hashing \/ (pc[q] = "rows" /\ step[at[q]] = "running")

\* Users that the run has inserted are never deleted.
UsersStay ==
  /\ \A k \in Hashing : \A id \in made[k] : Exists(id.row)
  /\ \A q \in Requests : \A id \in acc[q] :
       pc[q] \in {"rows", "hash"} /\ at[q] \in Hashing => Exists(id.row)

\* What a compensation removed stays removed, until its step is marked and afterwards.
Gone(k) == \A id \in made[k] : world[id.row] # "own"
Removed ==
  \A k \in Undoable :
    /\ step[k] = "compensated" => Gone(k)
    /\ \A q \in Requests : pc[q] = "mark" /\ Last(q, k) => Gone(k)

UndoInv == Looped /\ Confined /\ UsersStay /\ Removed

-----------------------------------------------------------------------------

LEMMA StepFacts ==
  /\ 1 \in Steps /\ External \subseteq Steps /\ 1 \notin Hashing
  /\ \A k \in Steps : k \in 0..N /\ k + 1 \in 1..(N + 1)
BY PlanAssumption DEF Steps

\* A request that is answered leaves variables of the right types.
LEMMA LeaveTypes ==
  ASSUME TypeOK, NEW q \in Requests, Leave(q)
  PROVE  /\ loop' \in Requests \cup {Nobody}
         /\ pc' \in [Requests -> {"idle", "next", "rows", "hash", "undo", "mark"}]
         /\ at' \in [Requests -> 1..(N + 1)] /\ todo' \in [Requests -> SUBSET Rows]
         /\ acc' \in [Requests -> SUBSET Ids] /\ undo' \in [Requests -> SUBSET Steps]
<1>1. 1 \in 1..(N + 1)
  BY PlanAssumption
<1> QED BY <1>1 DEF TypeOK, Leave

LEMMA FailTypes ==
  ASSUME TypeOK, NEW q \in Requests, StepFails(q),
         world' \in [Rows -> Values]
  PROVE  TypeOK'
<1>1. /\ status' \in {"absent", "running", "failed", "completed", "rolled_back"}
      /\ step' \in [Steps -> {"pending", "running", "completed", "failed", "compensated"}]
  BY DEF TypeOK, StepFails
<1>2. /\ cursor' = cursor /\ made' = made /\ undone' = undone
  BY DEF StepFails
<1> QED BY <1>1, <1>2, LeaveTypes DEF TypeOK, StepFails

LEMMA RowTypes ==
  ASSUME TypeOK, NEW S \in SUBSET Rows
  PROVE  /\ Inserted(S) \in SUBSET Ids
         /\ Provide(S) \in [Rows -> Values]
<1>1. \A i \in Rows : Provider(i) \in Values
  BY DEF TypeOK, Provider, Values, Makers
<1>2. Provide(S) \in [Rows -> Values]
  BY <1>1 DEF Provide, TypeOK
<1>3. Inserted(S) \in SUBSET Ids
  BY DEF Inserted, Ids, Makers
<1> QED BY <1>2, <1>3

LEMMA VisitTypes ==
  ASSUME TypeOK, NEW q \in Requests, NEW i \in todo[q], Visit(q, i)
  PROVE  /\ world' \in [Rows -> Values]
         /\ acc' \in [Requests -> SUBSET Ids] /\ todo' \in [Requests -> SUBSET Rows]
         /\ UNCHANGED <<run, at, undone>>
<1>1. {i} \in SUBSET Rows
  BY DEF TypeOK
<1>2. /\ Inserted({i}) \in SUBSET Ids
      /\ Provide({i}) \in [Rows -> Values]
  BY <1>1, RowTypes
<1> QED BY <1>2 DEF TypeOK, Visit

-----------------------------------------------------------------------------

LEMMA InitInv == Init => SagaInv
<1> SUFFICES ASSUME Init PROVE SagaInv
  OBVIOUS
<1>1. TypeOK
  <2>1. 0 \in 0..N /\ 1 \in 1..(N + 1)
    BY PlanAssumption
  <2>2. world \in [Rows -> Values]
    BY DEF Init, Values, Makers
  <2> QED BY <2>1, <2>2 DEF Init, TypeOK
<1>2. OnlyInserted /\ Located
  BY DEF Init, OnlyInserted, Located
<1>3. Worked
  BY PlanAssumption DEF Init, Worked, Passed, Steps
<1> QED BY <1>1, <1>2, <1>3 DEF SagaInv

LEMMA TypeStep == TypeOK /\ Located /\ [Next]_vars => TypeOK'
<1> SUFFICES ASSUME TypeOK, Located, [Next]_vars PROVE TypeOK'
  OBVIOUS
<1>1. ASSUME NEW q \in Requests, Enter(q) PROVE TypeOK'
  BY <1>1 DEF Enter, TypeOK
<1>2. ASSUME NEW q \in Requests, SkipStep(q) PROVE TypeOK'
  BY <1>2, StepFacts DEF SkipStep, NextStep, TypeOK
<1>3. ASSUME NEW q \in Requests, RunDbStep(q) PROVE TypeOK'
  <2>1. at[q] \in Steps /\ RowsOf[at[q]] \in SUBSET Rows
    BY <1>3, PlanAssumption DEF RunDbStep
  <2>2. /\ Inserted(RowsOf[at[q]]) \in SUBSET Ids
        /\ world' \in [Rows -> Values]
    BY <1>3, <2>1, RowTypes DEF RunDbStep
  <2> QED BY <1>3, <2>1, <2>2, StepFacts DEF RunDbStep, Checkpoint, NextStep, TypeOK
<1>4. ASSUME NEW q \in Requests, DbStepFails(q) PROVE TypeOK'
  BY <1>4, FailTypes DEF DbStepFails, TypeOK
<1>5. ASSUME NEW q \in Requests, BeginExternal(q) PROVE TypeOK'
  BY <1>5, StepFacts, PlanAssumption DEF BeginExternal, Stays, TypeOK
<1>6. ASSUME NEW q \in Requests, VisitRow(q) PROVE TypeOK'
  <2> PICK i \in todo[q] : Visit(q, i) /\ Stays(q, "rows")
    BY <1>6 DEF VisitRow
  <2> QED BY VisitTypes DEF Stays, run, TypeOK
<1>7. ASSUME NEW q \in Requests, AwaitHash(q) PROVE TypeOK'
  BY <1>7 DEF AwaitHash, run, TypeOK
<1>8. ASSUME NEW q \in Requests, UserInserted(q) PROVE TypeOK'
  <2> PICK i \in todo[q] :
        \/ Visit(q, i) /\ loop' = q /\ pc' = [pc EXCEPT ![q] = "rows"] /\ UNCHANGED undo
        \/ world' = Provide({i}) /\ StepFails(q)
    BY <1>8 DEF UserInserted
  <2>1. CASE Visit(q, i) /\ loop' = q /\ pc' = [pc EXCEPT ![q] = "rows"] /\ UNCHANGED undo
    BY <2>1, VisitTypes DEF run, TypeOK
  <2>2. CASE world' = Provide({i}) /\ StepFails(q)
    <3>1. {i} \in SUBSET Rows
      BY DEF TypeOK
    <3> QED BY <2>2, <3>1, RowTypes, FailTypes
  <2> QED BY <2>1, <2>2
<1>9. ASSUME NEW q \in Requests, UserRefused(q) \/ ExternalStepFails(q) PROVE TypeOK'
  BY <1>9, FailTypes DEF UserRefused, ExternalStepFails, TypeOK
<1>10. ASSUME NEW q \in Requests, FinishExternal(q) PROVE TypeOK'
  <2>1. at[q] \in Steps
    BY <1>10, StepFacts DEF FinishExternal, Holds, Located
  <2> QED BY <1>10, <2>1, StepFacts DEF FinishExternal, Checkpoint, Stays, NextStep, TypeOK
<1>11. ASSUME NEW q \in Requests, Complete(q) PROVE TypeOK'
  BY <1>11, LeaveTypes DEF Complete, TypeOK
<1>12. ASSUME NEW q \in Requests, Rollback(q) PROVE TypeOK'
  BY <1>12 DEF Rollback, run, TypeOK
<1>13. ASSUME NEW q \in Requests, Compensate(q) PROVE TypeOK'
  <2> PICK k \in Steps : world' = Compensated(k)
    BY <1>13 DEF Compensate
  <2>1. world' \in [Rows -> Values]
    BY DEF Compensated, Values, TypeOK
  <2> QED BY <1>13, <2>1 DEF Compensate, Stays, run, TypeOK
<1>14. ASSUME NEW q \in Requests, MarkStep(q) PROVE TypeOK'
  BY <1>14 DEF MarkStep, TypeOK
<1>15. ASSUME NEW q \in Requests, EndRollback(q) PROVE TypeOK'
  BY <1>15, LeaveTypes DEF EndRollback, TypeOK
<1>16. ASSUME NEW i \in Rows, InsertedByOther(i) PROVE TypeOK'
  BY <1>16 DEF InsertedByOther, run, variables, TypeOK, Values, Makers
<1>19. ASSUME NEW i \in HostRows, Use(i) PROVE TypeOK'
  BY <1>19 DEF Use, run, variables, TypeOK, Values, Makers
<1>17. CASE Crash
  <2>1. 1 \in 1..(N + 1)
    BY PlanAssumption
  <2> QED BY <1>17, <2>1 DEF Crash, run, TypeOK
<1>18. CASE UNCHANGED vars
  BY <1>18 DEF vars, run, variables, TypeOK
<1> QED
  BY <1>1, <1>2, <1>3, <1>4, <1>5, <1>6, <1>7, <1>8, <1>9, <1>10, <1>11, <1>12, <1>13,
     <1>14, <1>15, <1>16, <1>17, <1>18, <1>19 DEF Next

\* Only external steps visit rows, and only inserted rows are recorded.
LEMMA RecordStep ==
  TypeOK /\ OnlyInserted /\ Located /\ [Next]_vars => OnlyInserted' /\ Located'
<1> SUFFICES ASSUME TypeOK, OnlyInserted, Located, [Next]_vars
             PROVE  OnlyInserted' /\ Located'
  OBVIOUS
<1> USE DEF OnlyInserted, Located
<1>a. \A S : \A id \in Inserted(S) : id.by = "own"
  BY DEF Inserted
<1>b. ASSUME NEW q \in Requests, Leave(q), made' = made PROVE OnlyInserted' /\ Located'
  BY <1>b DEF Leave, TypeOK
<1>1. ASSUME NEW q \in Requests, Enter(q) PROVE OnlyInserted' /\ Located'
  BY <1>1 DEF Enter, TypeOK
<1>2. ASSUME NEW q \in Requests, SkipStep(q) PROVE OnlyInserted' /\ Located'
  BY <1>2 DEF SkipStep, Holds, NextStep, TypeOK
<1>3. ASSUME NEW q \in Requests, RunDbStep(q) PROVE OnlyInserted' /\ Located'
  <2>1. OnlyInserted'
    BY <1>3, <1>a DEF RunDbStep, Checkpoint, TypeOK
  <2>2. Located'
    BY <1>3 DEF RunDbStep, Holds, NextStep, TypeOK
  <2> QED BY <2>1, <2>2
<1>4. ASSUME NEW q \in Requests, DbStepFails(q) \/ UserRefused(q) \/ ExternalStepFails(q)
      PROVE  OnlyInserted' /\ Located'
  BY <1>4, <1>b DEF DbStepFails, UserRefused, ExternalStepFails, StepFails
<1>5. ASSUME NEW q \in Requests, BeginExternal(q) PROVE OnlyInserted' /\ Located'
  BY <1>5 DEF BeginExternal, Stays, TypeOK
<1>6. ASSUME NEW q \in Requests, NEW i \in todo[q], Visit(q, i), pc[q] \in {"rows", "hash"},
             pc' = [pc EXCEPT ![q] = "rows"]
      PROVE  OnlyInserted' /\ Located'
  <2>1. OnlyInserted'
    BY <1>6, <1>a DEF Visit, run, TypeOK
  <2>2. Located'
    BY <1>6 DEF Visit, TypeOK
  <2> QED BY <2>1, <2>2
<1>7. ASSUME NEW q \in Requests, VisitRow(q) PROVE OnlyInserted' /\ Located'
  BY <1>7, <1>6 DEF VisitRow, Holds, Stays
<1>8. ASSUME NEW q \in Requests, AwaitHash(q) PROVE OnlyInserted' /\ Located'
  BY <1>8 DEF AwaitHash, Holds, run, TypeOK
<1>9. ASSUME NEW q \in Requests, UserInserted(q) PROVE OnlyInserted' /\ Located'
  BY <1>9, <1>6, <1>b DEF UserInserted, Resumes, StepFails
<1>10. ASSUME NEW q \in Requests, FinishExternal(q) PROVE OnlyInserted' /\ Located'
  <2>1. OnlyInserted'
    BY <1>10 DEF FinishExternal, Checkpoint, TypeOK
  <2>2. Located'
    BY <1>10 DEF FinishExternal, Stays, NextStep, TypeOK
  <2> QED BY <2>1, <2>2
<1>11. ASSUME NEW q \in Requests, Complete(q) \/ EndRollback(q)
       PROVE  OnlyInserted' /\ Located'
  BY <1>11, <1>b DEF Complete, EndRollback
<1>12. ASSUME NEW q \in Requests, Rollback(q) PROVE OnlyInserted' /\ Located'
  BY <1>12 DEF Rollback, run, TypeOK
<1>13. ASSUME NEW q \in Requests, Compensate(q) \/ MarkStep(q)
       PROVE  OnlyInserted' /\ Located'
  BY <1>13 DEF Compensate, MarkStep, Stays, run, TypeOK
<1>14. ASSUME NEW i \in Rows, InsertedByOther(i) PROVE OnlyInserted' /\ Located'
  BY <1>14 DEF InsertedByOther, run, variables
<1>17. ASSUME NEW i \in HostRows, Use(i) PROVE OnlyInserted' /\ Located'
  BY <1>17 DEF Use, run, variables
<1>15. CASE Crash
  BY <1>15 DEF Crash, run
<1>16. CASE UNCHANGED vars
  BY <1>16 DEF vars, run, variables
<1> QED
  BY <1>1, <1>2, <1>3, <1>4, <1>5, <1>7, <1>8, <1>9, <1>10, <1>11, <1>12, <1>13, <1>14,
     <1>15, <1>16, <1>17 DEF Next

-----------------------------------------------------------------------------

\* A row stays there, and remains whose it was if the run has not inserted it.
Kept(i) ==
  Exists(i) => Exists(i)' /\ (world[i] \in {"other", "default"} => world'[i] = world[i])

\* Providing rows keeps those that are there, and all but compensations only provide.
LEMMA OnlyCompensationsRemove ==
  ASSUME TypeOK, [Next]_vars
  PROVE  (\E q \in Requests : Compensate(q)) \/ \A i \in Rows : Kept(i)
<1> SUFFICES ASSUME ~\E q \in Requests : Compensate(q)
             PROVE  \A i \in Rows : Kept(i)
  OBVIOUS
<1> USE DEF Kept, Exists
<1>1. ASSUME NEW S, world' = Provide(S) PROVE \A i \in Rows : Kept(i)
  BY <1>1 DEF Provide, Provider
<1>2. ASSUME NEW q \in Requests, RunDbStep(q) \/ VisitRow(q) \/ UserInserted(q)
      PROVE  (\E S : world' = Provide(S)) \/ world' = world
  BY <1>2 DEF RunDbStep, VisitRow, UserInserted, Visit
<1>3. ASSUME NEW i \in Rows, InsertedByOther(i) \/ Use(i) PROVE \A j \in Rows : Kept(j)
  BY <1>3 DEF InsertedByOther, Use, TypeOK
<1>4. ASSUME NEW q \in Requests,
             \/ Enter(q) \/ SkipStep(q) \/ DbStepFails(q) \/ BeginExternal(q)
             \/ AwaitHash(q) \/ UserRefused(q) \/ ExternalStepFails(q)
             \/ FinishExternal(q) \/ Complete(q) \/ Rollback(q) \/ MarkStep(q)
             \/ EndRollback(q)
      PROVE  world' = world
  BY <1>4 DEF Enter, SkipStep, DbStepFails, BeginExternal, AwaitHash, UserRefused,
     ExternalStepFails, FinishExternal, Complete, Rollback, MarkStep, EndRollback
<1>5. Crash \/ UNCHANGED vars => world' = world
  BY DEF Crash, vars
<1>6. HostRows \subseteq Rows
  BY PlanAssumption, StepFacts DEF HostRows
<1> QED BY <1>1, <1>2, <1>3, <1>4, <1>5, <1>6 DEF Next

\* A step deletes or deactivates nothing that the run has not inserted.
LEMMA SharedStep ==
  ASSUME TypeOK, OnlyInserted, [Next]_vars, NEW i \in Rows,
         world[i] \in {"other", "default"}
  PROVE  \/ world'[i] = world[i]
         \/ i \in TenantRows /\ world[Tenant] = "own" /\ world'[Tenant] = "absent"
<1>1. Exists(i)
  BY DEF Exists
<1>2. CASE \A j \in Rows : Kept(j)
  BY <1>1, <1>2 DEF Kept
<1>3. CASE \E q \in Requests : Compensate(q)
  <2> PICK k \in Steps : world' = Compensated(k)
    BY <1>3 DEF Compensate
  <2>1. \A j \in Rows : Undoing(k, j) => world[j] = "own"
    BY DEF Undoing, OnlyInserted
  <2>2. k = 1 => \A j \in Rows : Undoing(1, j) => world'[j] = "absent"
    BY StepFacts DEF Compensated
  <2>3. Tenant \in Rows
    BY PlanAssumption
  <2>4. ~Undoing(k, i)
    BY <2>1
  <2> QED BY <2>1, <2>2, <2>3, <2>4 DEF Compensated
<1> QED BY <1>2, <1>3, OnlyCompensationsRemove

-----------------------------------------------------------------------------

\* As long as nobody rolls the run back, what is provided stays provided.
LEMMA StaysProvided ==
  ASSUME TypeOK, [Next]_vars, \A i \in Rows : Kept(i)
  PROVE  /\ \A i \in Rows : Exists(i) => Exists(i)'
         /\ \A k \in Steps : Provided(k) => Provided(k)'
<1>1. \A k \in Steps : RowsOf[k] \subseteq Rows
  BY PlanAssumption
<1> QED BY <1>1 DEF Kept, Exists, Provided

LEMMA ProvideProvides ==
  ASSUME NEW S \in SUBSET Rows, world' = Provide(S)
  PROVE  \A i \in S : Exists(i)'
BY DEF Provide, Provider, Exists

\* Behind the cursor, behind completed steps and behind each request, rows exist.
LEMMA WorkedStep == SagaInv /\ [Next]_vars => Worked'
<1> SUFFICES ASSUME SagaInv, [Next]_vars, ~undone' PROVE Worked'
  BY DEF Worked
<1> USE DEF SagaInv
<1>1. ~undone
  BY DEF Next, Enter, SkipStep, RunDbStep, DbStepFails, BeginExternal, VisitRow, Visit,
     AwaitHash, UserInserted, UserRefused, ExternalStepFails, FinishExternal, Complete,
     StepFails, Rollback, Compensate, MarkStep, EndRollback, InsertedByOther, Use, Crash,
     vars
<1>2. /\ \A q \in Requests : pc[q] \notin {"undo", "mark"}
      /\ \A k \in Steps : Passed(k) => Provided(k)
      /\ \A q \in Requests : \A k \in Steps :
           pc[q] \in {"next", "rows", "hash"} /\ k < at[q] => Provided(k)
      /\ \A q \in Requests :
           pc[q] \in {"rows", "hash"} => \A i \in RowsOf[at[q]] \ todo[q] : Exists(i)
      /\ status = "completed" => \A k \in Steps : Provided(k)
  BY <1>1 DEF Worked
<1>3. \A q \in Requests : ~Compensate(q) /\ ~MarkStep(q) /\ ~EndRollback(q) /\ ~Rollback(q)
  BY <1>2 DEF Compensate, MarkStep, EndRollback, Rollback, Holds
<1>4. /\ \A i \in Rows : Exists(i) => Exists(i)'
      /\ \A k \in Steps : Provided(k) => Provided(k)'
  BY <1>3, OnlyCompensationsRemove, StaysProvided
<1>5. \A k \in Steps : RowsOf[k] \subseteq Rows
  BY PlanAssumption
<1>6. \A q \in Requests : at[q] \in 1..(N + 1)
  BY DEF TypeOK
<1>a. ASSUME NEW q \in Requests, Leave(q), cursor' = cursor,
             \A k \in Steps : step'[k] = "completed" => step[k] = "completed",
             status' = "completed" => \A k \in Steps : Provided(k)
      PROVE  Worked'
  <2>1. \A p \in Requests : /\ pc'[p] = "idle" \/ pc'[p] = pc[p]
                            /\ p # q => at'[p] = at[p] /\ todo'[p] = todo[p]
                            /\ pc'[q] = "idle"
    BY <1>a DEF Leave, TypeOK
  <2>2. \A k \in Steps : Passed(k)' => Passed(k)
    BY <1>a DEF Passed
  <2> QED BY <1>a, <1>2, <1>4, <1>5, <1>6, <2>1, <2>2, StepFacts DEF Worked, Located
<1>7. ASSUME NEW q \in Requests, Enter(q) PROVE Worked'
  <2>1. /\ at' = at /\ todo' = todo /\ at[q] = 1 /\ pc'[q] = "next"
        /\ \A p \in Requests \ {q} : pc'[p] = pc[p]
        /\ \A k \in Steps : Passed(k)' => Passed(k)
        /\ status' # "completed"
    BY <1>7 DEF Enter, Arrives, Located, Passed, TypeOK
  <2>2. \A k \in Steps : ~(k < 1)
    BY DEF Steps
  <2> QED BY <1>2, <1>4, <1>5, <2>1, <2>2, StepFacts DEF Worked, Located
<1>8. ASSUME NEW q \in Requests, SkipStep(q) PROVE Worked'
  <2>1. /\ at[q] \in Steps /\ Passed(at[q]) /\ pc[q] = "next" /\ pc' = pc /\ todo' = todo
        /\ at'[q] = at[q] + 1 /\ \A p \in Requests \ {q} : at'[p] = at[p]
        /\ step' = step /\ status' = status /\ cursor' \in {cursor, at[q]}
    BY <1>8 DEF SkipStep, Holds, NextStep, TypeOK
  <2>2. \A k \in Steps : k < at[q] + 1 => Provided(k)
    BY <1>2, <1>6, <2>1 DEF Steps
  <2>3. \A k \in Steps : Passed(k)' => Provided(k)
    BY <1>2, <2>1, <2>2 DEF Passed, Steps
  <2> QED BY <1>2, <1>4, <1>5, <2>1, <2>2, <2>3, StepFacts DEF Worked, Located
<1>b. ASSUME NEW q \in Requests, NEW j \in Steps, at[q] = j, pc[q] \in {"next", "rows"},
             Provided(j)', cursor' = j,
             \A k \in Steps : step'[k] = "completed" => k = j \/ step[k] = "completed",
             status' = status, pc' = [pc EXCEPT ![q] = "next"], todo' = todo, NextStep(q)
      PROVE  Worked'
  <2>1. /\ at'[q] = j + 1 /\ \A p \in Requests \ {q} : at'[p] = at[p]
        /\ pc'[q] = "next" /\ \A p \in Requests \ {q} : pc'[p] = pc[p]
    BY <1>b DEF NextStep, TypeOK
  <2>2. \A k \in Steps : k < j + 1 => Provided(k)'
    BY <1>2, <1>4, <1>6, <1>b DEF Steps
  <2>3. \A k \in Steps : Passed(k)' => Provided(k)'
    BY <1>2, <1>4, <1>b, <2>2 DEF Passed, Steps
  <2> QED BY <1>2, <1>4, <1>5, <1>b, <2>1, <2>2, <2>3, StepFacts DEF Worked, Located
<1>9. ASSUME NEW q \in Requests, RunDbStep(q) PROVE Worked'
  <2> PICK j \in Steps : at[q] = j
    BY <1>9 DEF RunDbStep
  <2>1. pc[q] = "next" /\ world' = Provide(RowsOf[j])
    BY <1>9 DEF RunDbStep, Holds
  <2>2. Provided(j)'
    BY <1>5, <2>1, ProvideProvides DEF Provided
  <2>3. pc' = [pc EXCEPT ![q] = "next"]
    BY <1>9, <2>1 DEF RunDbStep, TypeOK
  <2> QED BY <1>9, <1>b, <2>1, <2>2, <2>3 DEF RunDbStep, Checkpoint, TypeOK
<1>10. ASSUME NEW q \in Requests, FinishExternal(q) PROVE Worked'
  <2> PICK j \in Steps : at[q] = j
    BY <1>10, StepFacts DEF FinishExternal, Holds, Located
  <2>1. pc[q] = "rows" /\ todo[q] = {} /\ world' = world
    BY <1>10 DEF FinishExternal, Holds
  <2>2. Provided(j)'
    BY <1>2, <1>4, <2>1 DEF Provided
  <2> QED BY <1>10, <1>b, <2>1, <2>2 DEF FinishExternal, Checkpoint, Stays, TypeOK
<1>11. ASSUME NEW q \in Requests, DbStepFails(q) \/ UserRefused(q) \/ ExternalStepFails(q)
       PROVE  Worked'
  BY <1>11, <1>a DEF DbStepFails, UserRefused, ExternalStepFails, StepFails, TypeOK
<1>12. ASSUME NEW q \in Requests, BeginExternal(q) PROVE Worked'
  <2>1. /\ at' = at /\ pc[q] = "next" /\ pc'[q] = "rows" /\ todo'[q] = RowsOf[at[q]]
        /\ \A p \in Requests \ {q} : pc'[p] = pc[p] /\ todo'[p] = todo[p]
        /\ \A k \in Steps : Passed(k)' => Passed(k)
        /\ status' = status
    BY <1>12 DEF BeginExternal, Holds, Stays, Passed, TypeOK
  <2> QED BY <1>2, <1>4, <1>5, <2>1, StepFacts DEF Worked, Located
<1>13. ASSUME NEW q \in Requests, NEW i \in todo[q], Visit(q, i), pc[q] \in {"rows", "hash"},
              pc' = [pc EXCEPT ![q] = "rows"]
       PROVE  Worked'
  <2>1. Exists(i)'
    BY <1>13, ProvideProvides DEF Visit, TypeOK
  <2>2. /\ at' = at /\ pc'[q] = "rows" /\ todo'[q] = todo[q] \ {i}
        /\ \A p \in Requests \ {q} : pc'[p] = pc[p] /\ todo'[p] = todo[p]
        /\ \A k \in Steps : Passed(k)' => Passed(k)
        /\ status' = status
    BY <1>13 DEF Visit, run, Passed, TypeOK
  <2> QED BY <1>2, <1>4, <1>5, <1>13, <2>1, <2>2, StepFacts DEF Worked, Located
<1>14. ASSUME NEW q \in Requests, VisitRow(q) \/ UserInserted(q) PROVE Worked'
  BY <1>13, <1>14, <1>a DEF VisitRow, UserInserted, Resumes, Holds, Stays, StepFails, TypeOK
<1>15. ASSUME NEW q \in Requests, AwaitHash(q) PROVE Worked'
  <2>1. /\ at' = at /\ todo' = todo /\ pc[q] = "rows" /\ pc'[q] = "hash"
        /\ \A p \in Requests \ {q} : pc'[p] = pc[p]
        /\ \A k \in Steps : Passed(k)' => Passed(k)
        /\ status' = status
    BY <1>15 DEF AwaitHash, Holds, run, Passed, TypeOK
  <2> QED BY <1>2, <1>4, <1>5, <2>1, StepFacts DEF Worked, Located
<1>16. ASSUME NEW q \in Requests, Complete(q) PROVE Worked'
  <2>1. \A k \in Steps : Provided(k)
    BY <1>2, <1>16, PlanAssumption DEF Complete, Holds, Steps
  <2> QED BY <1>16, <1>a, <2>1 DEF Complete
<1>17. CASE \/ \E i \in Rows : InsertedByOther(i)
            \/ (\E i \in HostRows : Use(i)) \/ UNCHANGED vars
  <2>1. /\ at' = at /\ todo' = todo /\ pc' = pc /\ status' = status
        /\ \A k \in Steps : Passed(k)' => Passed(k)
    BY <1>17 DEF InsertedByOther, Use, vars, run, variables, Passed
  <2> QED BY <1>2, <1>4, <1>5, <2>1, StepFacts DEF Worked, Located
<1>18. CASE Crash
  <2>1. /\ \A q \in Requests : pc'[q] = "idle"
        /\ \A k \in Steps : Passed(k)' => Passed(k)
        /\ status' = status
    BY <1>18 DEF Crash, run, Passed
  <2> QED BY <1>2, <1>4, <2>1 DEF Worked
<1> QED
  BY <1>3, <1>7, <1>8, <1>9, <1>10, <1>11, <1>12, <1>14, <1>15, <1>16, <1>17, <1>18 DEF Next

-----------------------------------------------------------------------------

\* While q acts, everybody else is idle or waits for a hash.
LEMMA OthersWait ==
  ASSUME Looped, NEW q \in Requests, loop \in {q, Nobody}
  PROVE  \A p \in Requests \ {q} : pc[p] \notin {"next", "rows", "undo", "mark"}
BY RequestAssumption DEF Looped

LEMMA LoopStep ==
  ASSUME TypeOK, Looped, [Next]_vars
  PROVE  Looped'
<1>1. ASSUME NEW q \in Requests, loop \in {q, Nobody},
             \/ loop' = q /\ \A p \in Requests \ {q} : pc'[p] = pc[p]
             \/ /\ loop' = Nobody /\ pc'[q] \in {"idle", "hash"}
                /\ \A p \in Requests \ {q} : pc'[p] = pc[p]
      PROVE  Looped'
  BY <1>1, OthersWait DEF Looped
<1>2. ASSUME NEW q \in Requests, Leave(q), loop \in {q, Nobody} PROVE Looped'
  BY <1>1, <1>2 DEF Leave, TypeOK
<1>3. ASSUME NEW q \in Requests, Enter(q) \/ Rollback(q) \/ UserInserted(q)
      PROVE  Looped'
  BY <1>1, <1>2, <1>3 DEF Enter, Rollback, Arrives, UserInserted, Resumes, StepFails, TypeOK
<1>4. ASSUME NEW q \in Requests,
             SkipStep(q) \/ RunDbStep(q) \/ BeginExternal(q) \/ VisitRow(q) \/ AwaitHash(q)
             \/ FinishExternal(q) \/ Compensate(q) \/ MarkStep(q)
      PROVE  Looped'
  BY <1>1, <1>4 DEF SkipStep, RunDbStep, BeginExternal, VisitRow, AwaitHash,
     FinishExternal, Compensate, MarkStep, Holds, Stays, TypeOK
<1>5. ASSUME NEW q \in Requests, DbStepFails(q) \/ UserRefused(q) \/ ExternalStepFails(q)
                                 \/ Complete(q) \/ EndRollback(q)
      PROVE  Looped'
  BY <1>2, <1>5 DEF DbStepFails, UserRefused, ExternalStepFails, StepFails, Complete,
     EndRollback, Holds, Resumes
<1>6. CASE \/ \E i \in Rows : InsertedByOther(i)
           \/ (\E i \in HostRows : Use(i)) \/ UNCHANGED vars
  BY <1>6 DEF InsertedByOther, Use, vars, variables, Looped
<1>7. CASE Crash
  BY <1>7 DEF Crash, Looped
<1> QED BY <1>3, <1>4, <1>5, <1>6, <1>7 DEF Next

\* Rows are visited and recorded in the step they belong to.
LEMMA ConfinedStep ==
  ASSUME TypeOK, Located, Looped, Confined, [Next]_vars
  PROVE  Confined'
<1> USE DEF Confined
<1>1. \A S : \A id \in Inserted(S) : id.row \in S
  BY DEF Inserted
<1>2. \A q \in Requests :
        loop \in {q, Nobody} => \A p \in Requests \ {q} : pc[p] \notin {"next", "rows", "undo", "mark"}
  BY OthersWait
<1>3. ASSUME NEW q \in Requests, loop \in {q, Nobody}, Leave(q), made' = made PROVE Confined'
  BY <1>2, <1>3 DEF Leave, TypeOK
<1>4. ASSUME NEW q \in Requests, Enter(q) \/ Rollback(q) PROVE Confined'
  BY <1>4 DEF Enter, Rollback, Arrives, run, TypeOK
<1>5. ASSUME NEW q \in Requests, SkipStep(q) PROVE Confined'
  BY <1>5 DEF SkipStep, Holds, NextStep, TypeOK
<1>6. ASSUME NEW q \in Requests, RunDbStep(q) PROVE Confined'
  <2>1. /\ at[q] \in Steps /\ loop = q /\ pc[q] = "next" /\ UNCHANGED <<pc, todo, acc>>
        /\ made' = [made EXCEPT ![at[q]] = Inserted(RowsOf[at[q]])]
        /\ step' = [step EXCEPT ![at[q]] = "completed"]
        /\ \A p \in Requests \ {q} : at'[p] = at[p]
    BY <1>6 DEF RunDbStep, Holds, Checkpoint, NextStep, TypeOK
  <2>2. \A k \in Steps : \A id \in made'[k] : id.row \in RowsOf[k]
    BY <1>1, <2>1 DEF TypeOK
  <2> QED BY <1>2, <2>1, <2>2
<1>7. ASSUME NEW q \in Requests, DbStepFails(q) \/ UserRefused(q) \/ ExternalStepFails(q)
                                 \/ Complete(q) \/ EndRollback(q)
      PROVE  Confined'
  BY <1>3, <1>7 DEF DbStepFails, UserRefused, ExternalStepFails, StepFails, Complete,
     EndRollback, Holds, Resumes
<1>8. ASSUME NEW q \in Requests, BeginExternal(q) PROVE Confined'
  <2>1. /\ at[q] \in Steps /\ loop = q /\ UNCHANGED <<made, at>>
        /\ step' = [step EXCEPT ![at[q]] = "running"] /\ pc' = [pc EXCEPT ![q] = "rows"]
        /\ todo' = [todo EXCEPT ![q] = RowsOf[at[q]]] /\ acc' = [acc EXCEPT ![q] = {}]
    BY <1>8, StepFacts DEF BeginExternal, Holds, Stays
  <2> QED BY <1>2, <2>1 DEF TypeOK
<1>9. ASSUME NEW q \in Requests, NEW i \in todo[q], Visit(q, i), pc[q] \in {"rows", "hash"},
             pc' = [pc EXCEPT ![q] = "rows"]
      PROVE  Confined'
  <2>1. /\ UNCHANGED <<made, at, step>> /\ i \in RowsOf[at[q]]
        /\ acc' = [acc EXCEPT ![q] = @ \cup Inserted({i})]
        /\ todo' = [todo EXCEPT ![q] = @ \ {i}]
    BY <1>9 DEF Visit, run
  <2> QED BY <1>1, <1>9, <2>1 DEF TypeOK
<1>10. ASSUME NEW q \in Requests, VisitRow(q) \/ UserInserted(q) PROVE Confined'
  BY <1>3, <1>9, <1>10 DEF VisitRow, UserInserted, Holds, Resumes, Stays, StepFails
<1>11. ASSUME NEW q \in Requests, AwaitHash(q) PROVE Confined'
  BY <1>11 DEF AwaitHash, Holds, run, TypeOK
<1>12. ASSUME NEW q \in Requests, FinishExternal(q) PROVE Confined'
  <2>1. /\ at[q] \in Steps /\ loop = q /\ pc[q] = "rows" /\ pc' = [pc EXCEPT ![q] = "next"]
        /\ UNCHANGED <<todo, acc>> /\ made' = [made EXCEPT ![at[q]] = acc[q]]
        /\ \A p \in Requests \ {q} : at'[p] = at[p]
    BY <1>12, StepFacts DEF FinishExternal, Holds, Checkpoint, Stays, NextStep, TypeOK, Located
  <2>2. step' = [step EXCEPT ![at[q]] = "completed"]
    BY <1>12 DEF FinishExternal, Checkpoint
  <2>3. \A k \in Steps : \A id \in made'[k] : id.row \in RowsOf[k]
    BY <2>1 DEF TypeOK
  <2> QED BY <1>2, <2>1, <2>2, <2>3 DEF TypeOK
<1>13. ASSUME NEW q \in Requests, Compensate(q) \/ MarkStep(q) PROVE Confined'
  <2>1. /\ loop = q /\ UNCHANGED <<made, at, todo, acc>> /\ pc'[q] \in {"undo", "mark"}
        /\ \A p \in Requests \ {q} : pc'[p] = pc[p]
    BY <1>13 DEF Compensate, MarkStep, Holds, Stays, run, TypeOK
  <2> QED BY <1>2, <2>1
<1>14. CASE \/ \E i \in Rows : InsertedByOther(i)
            \/ (\E i \in HostRows : Use(i)) \/ UNCHANGED vars
  BY <1>14 DEF InsertedByOther, Use, vars, run, variables
<1>15. CASE Crash
  BY <1>15 DEF Crash, run
<1> QED
  BY <1>4, <1>5, <1>6, <1>7, <1>8, <1>10, <1>11, <1>12, <1>13, <1>14, <1>15 DEF Next

\* A compensation removes rows of its own table, and the tenant rows of its tables.
LEMMA CompensationSpares ==
  ASSUME OwnTables, TypeOK, Confined, NEW k \in Steps, NEW l \in Hashing,
         NEW i \in RowsOf[l], world' = Compensated(k), Exists(i)
  PROVE  Exists(i)'
<1>1. l \in Steps /\ i \in Rows /\ i \notin TenantRows
  BY PlanAssumption DEF OwnTables, TenantRows
<1>2. k # l => ~Undoing(k, i)
  BY <1>1 DEF OwnTables, Confined, Undoing
<1>3. CASE k = l
  BY <1>1, <1>3 DEF Compensated, Exists
<1>4. CASE k # l
  BY <1>1, <1>2, <1>4 DEF Compensated, Exists
<1> QED BY <1>3, <1>4

LEMMA UsersStep ==
  ASSUME OwnTables, TypeOK, Located, Confined, UsersStay, [Next]_vars
  PROVE  UsersStay'
<1>1. \A l \in Hashing : l \in Steps /\ l \in External
  BY StepFacts, PlanAssumption
<1>2. /\ \A l \in Hashing : \A i \in RowsOf[l] : i \in Rows
      /\ \A l \in Hashing : \A id \in made[l] : id.row \in RowsOf[l]
      /\ \A q \in Requests : pc[q] \in {"rows", "hash"} => \A id \in acc[q] : id.row \in RowsOf[at[q]]
  BY <1>1, PlanAssumption DEF Confined
<1>3. \A l \in Hashing : \A i \in RowsOf[l] : Exists(i) => Exists(i)'
  <2>1. CASE \A i \in Rows : Kept(i)
    BY <1>2, <2>1 DEF Kept
  <2>2. CASE \E q \in Requests : Compensate(q)
    BY <2>2, CompensationSpares DEF Compensate
  <2> QED BY <2>1, <2>2, OnlyCompensationsRemove
<1>4. /\ \A l \in Hashing : \A id \in made[l] : Exists(id.row)'
      /\ \A q \in Requests : \A id \in acc[q] :
           pc[q] \in {"rows", "hash"} /\ at[q] \in Hashing => Exists(id.row)'
  BY <1>2, <1>3 DEF UsersStay
<1>5. ASSUME NEW q \in Requests, Leave(q), made' = made PROVE UsersStay'
  BY <1>4, <1>5 DEF Leave, UsersStay, TypeOK
<1>6. ASSUME NEW q \in Requests, Enter(q) \/ SkipStep(q) \/ Rollback(q) \/ AwaitHash(q)
                                 \/ Compensate(q) \/ MarkStep(q)
      PROVE  UsersStay'
  <2>1. /\ made' = made /\ acc' = acc
        /\ \A p \in Requests : pc'[p] \in {"rows", "hash"} =>
             pc[p] \in {"rows", "hash"} /\ at'[p] = at[p]
    BY <1>6 DEF Enter, SkipStep, Rollback, AwaitHash, Compensate, MarkStep, Holds, Stays,
       NextStep, run, TypeOK
  <2> QED BY <1>4, <2>1 DEF UsersStay
<1>7. ASSUME NEW q \in Requests, RunDbStep(q) PROVE UsersStay'
  <2>1. /\ at[q] \in Steps \ Hashing /\ acc' = acc /\ pc' = pc /\ pc[q] = "next"
        /\ \A l \in Steps \ {at[q]} : made'[l] = made[l]
        /\ \A p \in Requests \ {q} : at'[p] = at[p]
    BY <1>7, PlanAssumption DEF RunDbStep, Holds, Checkpoint, NextStep, TypeOK
  <2> QED BY <1>1, <1>4, <2>1 DEF UsersStay
<1>8. ASSUME NEW q \in Requests, DbStepFails(q) \/ UserRefused(q) \/ ExternalStepFails(q)
                                 \/ Complete(q) \/ EndRollback(q)
      PROVE  UsersStay'
  BY <1>5, <1>8 DEF DbStepFails, UserRefused, ExternalStepFails, StepFails, Complete,
     EndRollback
<1>9. ASSUME NEW q \in Requests, BeginExternal(q) PROVE UsersStay'
  <2>1. /\ made' = made /\ at' = at /\ acc'[q] = {}
        /\ \A p \in Requests \ {q} : pc'[p] = pc[p] /\ acc'[p] = acc[p]
    BY <1>9 DEF BeginExternal, Stays, TypeOK
  <2> QED BY <1>4, <2>1 DEF UsersStay
<1>10. ASSUME NEW q \in Requests, NEW i \in todo[q], Visit(q, i), pc[q] \in {"rows", "hash"},
              pc' = [pc EXCEPT ![q] = "rows"]
       PROVE  UsersStay'
  <2>1. /\ made' = made /\ at' = at /\ acc'[q] = acc[q] \cup Inserted({i})
        /\ \A p \in Requests \ {q} : pc'[p] = pc[p] /\ acc'[p] = acc[p]
    BY <1>10 DEF Visit, run, TypeOK
  <2>2. \A id \in Inserted({i}) : id.row = i
    BY DEF Inserted
  <2>3. Exists(i)'
    BY <1>10, ProvideProvides DEF Visit, TypeOK
  <2> QED BY <1>4, <1>10, <2>1, <2>2, <2>3 DEF UsersStay
<1>11. ASSUME NEW q \in Requests, VisitRow(q) \/ UserInserted(q) PROVE UsersStay'
  BY <1>5, <1>10, <1>11 DEF VisitRow, UserInserted, Holds, Resumes, Stays, StepFails
<1>12. ASSUME NEW q \in Requests, FinishExternal(q) PROVE UsersStay'
  <2>1. /\ at[q] \in Steps /\ pc[q] = "rows" /\ pc' = [pc EXCEPT ![q] = "next"] /\ acc' = acc
        /\ made' = [made EXCEPT ![at[q]] = acc[q]]
        /\ \A p \in Requests \ {q} : at'[p] = at[p]
    BY <1>12, StepFacts DEF FinishExternal, Holds, Checkpoint, Stays, NextStep, TypeOK, Located
  <2> QED BY <1>1, <1>4, <2>1 DEF UsersStay, TypeOK
<1>13. CASE \/ \E i \in Rows : InsertedByOther(i)
            \/ (\E i \in HostRows : Use(i)) \/ UNCHANGED vars
  BY <1>4, <1>13 DEF InsertedByOther, Use, vars, run, variables, UsersStay
<1>14. CASE Crash
  BY <1>4, <1>14 DEF Crash, run, UsersStay
<1> QED
  BY <1>6, <1>7, <1>8, <1>9, <1>11, <1>12, <1>13, <1>14 DEF Next

\* Only a step that is not compensated inserts a row that the run had removed.
LEMMA Renewed ==
  ASSUME OwnTables, TypeOK, Located, Confined, [Next]_vars, NEW k \in Steps,
         NEW i \in RowsOf[k], world[i] # "own", world'[i] = "own"
  PROVE  step'[k] = "completed" \/ step[k] = "running" \/ (k \in Hashing /\ ~Exists(i))
<1>1. i \in Rows
  BY PlanAssumption
<1>2. ASSUME NEW q \in Requests, RunDbStep(q) PROVE step'[k] = "completed"
  <2>1. /\ at[q] \in Steps /\ world' = Provide(RowsOf[at[q]])
        /\ step' = [step EXCEPT ![at[q]] = "completed"]
    BY <1>2 DEF RunDbStep, Checkpoint
  <2>2. i \in RowsOf[at[q]]
    BY <1>1, <2>1 DEF Provide
  <2> QED BY <2>1, <2>2 DEF OwnTables, TypeOK
<1>3. ASSUME NEW q \in Requests, NEW j \in todo[q], world' = Provide({j}),
             pc[q] \in {"rows", "hash"}
      PROVE  at[q] = k /\ j = i /\ ~Exists(i)
  <2>1. j = i /\ ~Exists(i)
    BY <1>1, <1>3 DEF Provide, Provider
  <2>2. at[q] \in Steps /\ i \in RowsOf[at[q]]
    BY <1>3, <2>1, StepFacts DEF Located, Confined
  <2> QED BY <2>1, <2>2 DEF OwnTables
<1>4. ASSUME NEW q \in Requests, VisitRow(q) \/ UserInserted(q)
      PROVE  step[k] = "running" \/ (k \in Hashing /\ ~Exists(i))
  BY <1>3, <1>4 DEF VisitRow, UserInserted, Visit, Holds, Resumes, Confined
<1>5. ASSUME NEW q \in Requests, Compensate(q) PROVE FALSE
  BY <1>1, <1>5 DEF Compensate, Compensated
<1>6. ASSUME NEW j \in Rows, InsertedByOther(j) \/ Use(j) PROVE FALSE
  BY <1>1, <1>6 DEF InsertedByOther, Use, TypeOK
<1>7. ASSUME NEW q \in Requests,
             \/ Enter(q) \/ SkipStep(q) \/ DbStepFails(q) \/ BeginExternal(q)
             \/ AwaitHash(q) \/ UserRefused(q) \/ ExternalStepFails(q)
             \/ FinishExternal(q) \/ Complete(q) \/ Rollback(q) \/ MarkStep(q)
             \/ EndRollback(q)
      PROVE  FALSE
  BY <1>7 DEF Enter, SkipStep, DbStepFails, BeginExternal, AwaitHash, UserRefused,
     ExternalStepFails, FinishExternal, Complete, Rollback, MarkStep, EndRollback
<1>8. ~Crash /\ ~UNCHANGED vars
  BY DEF Crash, vars
<1>9. HostRows \subseteq Rows
  BY PlanAssumption, StepFacts DEF HostRows
<1> QED BY <1>2, <1>4, <1>5, <1>6, <1>7, <1>8, <1>9 DEF Next

\* A compensation removes every row that its checkpoint calls created.
LEMMA CompensationRemoves ==
  ASSUME TypeOK, OnlyInserted, NEW k \in Undoable, world' = Compensated(k), made' = made
  PROVE  Gone(k)'
<1>1. k \in Steps
  BY PlanAssumption
<1>2. ASSUME NEW id \in made[k] PROVE world'[id.row] # "own"
  <2>1. id \in Ids /\ id.by = "own"
    BY <1>1, <1>2 DEF TypeOK, OnlyInserted
  <2>2. world[id.row] = "own" => Undoing(k, id.row)
    BY <1>2, <2>1 DEF Undoing, Ids
  <2> QED BY <2>1, <2>2 DEF Compensated, Ids
<1> QED BY <1>2 DEF Gone

LEMMA RemovedStep ==
  ASSUME OwnTables, TypeOK, OnlyInserted, Located, UndoInv, [Next]_vars
  PROVE  Removed'
<1> SUFFICES ASSUME NEW k \in Undoable
             PROVE  /\ step'[k] = "compensated" => Gone(k)'
                    /\ \A q \in Requests : pc'[q] = "mark" /\ Last(q, k)' => Gone(k)'
  BY DEF Removed
<1> USE DEF UndoInv
<1>1. k \in Steps
  BY PlanAssumption
<1>2. made'[k] = made[k] \/ step'[k] = "completed"
  BY <1>1 DEF Next, Enter, SkipStep, RunDbStep, DbStepFails, BeginExternal, VisitRow, Visit,
     AwaitHash, UserInserted, UserRefused, ExternalStepFails, FinishExternal, Complete,
     StepFails, Rollback, Compensate, MarkStep, EndRollback, InsertedByOther, Use, Crash,
     Checkpoint, run, vars, TypeOK
<1>3. ASSUME step'[k] = "compensated", step[k] = "compensated" PROVE Gone(k)'
  <2>1. made'[k] = made[k] /\ Gone(k)
    BY <1>2, <1>3 DEF Removed
  <2>2. ASSUME NEW id \in made[k], world'[id.row] = "own" PROVE FALSE
    <3>1. id.row \in RowsOf[k] /\ world[id.row] # "own"
      BY <1>1, <2>1, <2>2 DEF Confined, Gone
    <3>2. k \in Hashing => Exists(id.row)
      BY <2>2 DEF UsersStay
    <3> QED BY <1>1, <1>3, <2>2, <3>1, <3>2, Renewed
  <2> QED BY <2>1, <2>2 DEF Gone
<1>4. ASSUME step'[k] = "compensated", step[k] # "compensated" PROVE Gone(k)'
  <2>1. PICK q \in Requests : MarkStep(q) /\ Last(q, k) /\ pc[q] = "mark"
    BY <1>1, <1>4 DEF Next, Enter, SkipStep, RunDbStep, DbStepFails, BeginExternal, VisitRow,
       Visit, AwaitHash, UserInserted, UserRefused, ExternalStepFails, FinishExternal,
       Complete, StepFails, Rollback, Compensate, MarkStep, Holds, EndRollback,
       InsertedByOther, Use, Crash, Checkpoint, run, vars, TypeOK
  <2>2. Gone(k) /\ made' = made /\ world' = world
    BY <2>1 DEF Removed, MarkStep
  <2> QED BY <2>2 DEF Gone
<1>5. ASSUME NEW q \in Requests, pc'[q] = "mark", Last(q, k)' PROVE Gone(k)'
  <2>1. CASE UNCHANGED <<world, made, pc, undo>>
    BY <1>5, <2>1 DEF Removed, Gone, Last
  <2>2. ASSUME NEW p \in Requests, Compensate(p) PROVE Gone(k)'
    <3>1. PICK l \in Steps : Holds(p, "undo") /\ Last(p, l) /\ world' = Compensated(l)
      BY <2>2 DEF Compensate
    <3>2. undo' = undo /\ made' = made /\ \A r \in Requests \ {p} : pc'[r] = pc[r]
      BY <2>2 DEF Compensate, Stays, run, TypeOK
    <3>3. p = q
      BY <1>5, <3>1, <3>2, OthersWait DEF Holds
    <3>4. k = l
      BY <1>1, <1>5, <3>1, <3>2, <3>3 DEF Last, Steps
    <3> QED BY <3>1, <3>2, <3>4, CompensationRemoves
  <2>3. ASSUME NEW p \in Requests, pc'[p] # "mark",
               loop \in {p, Nobody}, \A r \in Requests \ {p} : pc'[r] = pc[r]
        PROVE  FALSE
    BY <1>5, <2>3, OthersWait
  <2>4. ASSUME NEW p \in Requests, Leave(p), loop \in {p, Nobody} PROVE FALSE
    BY <2>3, <2>4 DEF Leave, TypeOK
  <2>5. ASSUME NEW p \in Requests,
               SkipStep(p) \/ RunDbStep(p) \/ BeginExternal(p) \/ VisitRow(p)
               \/ AwaitHash(p) \/ FinishExternal(p) \/ MarkStep(p)
        PROVE  FALSE
    BY <2>3, <2>5 DEF SkipStep, RunDbStep, BeginExternal, VisitRow, AwaitHash,
       FinishExternal, MarkStep, Holds, Stays, TypeOK
  <2>6. ASSUME NEW p \in Requests, Enter(p) \/ Rollback(p) \/ UserInserted(p) PROVE FALSE
    BY <2>3, <2>4, <2>6 DEF Enter, Rollback, Arrives, UserInserted, Resumes, StepFails, TypeOK
  <2>7. ASSUME NEW p \in Requests, DbStepFails(p) \/ UserRefused(p) \/ ExternalStepFails(p)
                                   \/ Complete(p) \/ EndRollback(p)
        PROVE  FALSE
    BY <2>4, <2>7 DEF DbStepFails, UserRefused, ExternalStepFails, StepFails, Complete,
       EndRollback, Holds, Resumes
  <2>8. ASSUME NEW i \in Rows, InsertedByOther(i) \/ Use(i) PROVE FALSE
    BY <1>5, <2>8, RequestAssumption DEF InsertedByOther, Use, variables, Looped
  <2>9. CASE Crash
    BY <1>5, <2>9 DEF Crash
  <2>10. HostRows \subseteq Rows
    BY PlanAssumption, StepFacts DEF HostRows
  <2> QED BY <2>1, <2>2, <2>5, <2>6, <2>7, <2>8, <2>9, <2>10 DEF Next, vars, run, variables
<1> QED BY <1>3, <1>4, <1>5

-----------------------------------------------------------------------------

LEMMA Invariance == Spec => []SagaInv
<1>1. SagaInv /\ [Next]_vars => SagaInv'
  BY TypeStep, RecordStep, WorkedStep DEF SagaInv
<1> QED BY InitInv, <1>1, PTL DEF Spec

\* Every column and every variable keeps its type.
THEOREM RunTypes == Spec => []TypeOK
<1>1. SagaInv => TypeOK
  BY DEF SagaInv
<1> QED BY <1>1, Invariance, PTL

\* A run that is called completed, and that nobody began to roll back, has all its rows
\* (the skips and checkpoints of _execute()).
THEOREM CompletedRunsAreProvisioned == Spec => []CompletedIsProvisioned
<1>1. SagaInv => CompletedIsProvisioned
  BY DEF SagaInv, Worked, CompletedIsProvisioned, Provided
<1> QED BY <1>1, Invariance, PTL

\* No step and no compensation removes a row that the run has not inserted, except with
\* the tenant that it has (the checkpoints of the steps and their compensations).
THEOREM RunsKeepSharedRows == Spec => SharedRowsSurvive
<1>1. SagaInv /\ [Next]_vars =>
        [\A i \in Rows : world[i] \in {"other", "default"}
           => \/ world'[i] = world[i]
              \/ i \in TenantRows /\ world[Tenant] = "own" /\ world'[Tenant] = "absent"]_vars
  BY SharedStep DEF SagaInv
<1> QED BY <1>1, Invariance, PTL DEF Spec, SharedRowsSurvive

\* Steps write different tables: then every row that the checkpoint of a compensated step
\* calls created is gone, unless somebody uses it, over any number of overlapping
\* requests, crashes and repeated rollbacks (compensate() before the mark).
THEOREM CompensatedStepsAreUndone == OwnTables => (Spec => []CompensatedIsUndone)
<1> SUFFICES ASSUME OwnTables PROVE Spec => []CompensatedIsUndone
  OBVIOUS
<1>1. Init => UndoInv
  BY PlanAssumption DEF Init, UndoInv, Looped, Confined, UsersStay, Removed, Last
<1>2. UndoInv /\ SagaInv /\ [Next]_vars => UndoInv'
  BY LoopStep, ConfinedStep, UsersStep, RemovedStep DEF UndoInv, SagaInv
<1>3. UndoInv /\ SagaInv => CompensatedIsUndone
  BY PlanAssumption DEF UndoInv, Removed, Gone, SagaInv, OnlyInserted, CompensatedIsUndone
<1> QED BY <1>1, <1>2, <1>3, Invariance, PTL DEF Spec
=============================================================================
