------------------------ MODULE ContainerReplacement ------------------------
(***************************************************************************)
(* Replacing a container by one with a new image                           *)
(* (src/services/container-replacement.js, replace).                       *)
(*                                                                         *)
(* A replacement reserves the name of the container on the daemon, renames *)
(* and stops the original, creates, starts and verifies the candidate, and *)
(* commits; a failure before the commit discards the candidate and brings  *)
(* the original back.  The reservation is removed only after an outcome    *)
(* that leaves nothing to repair; any other outcome, and a crash, keep it. *)
(*                                                                         *)
(* One action per call on the daemon, with the journal write that follows  *)
(* it; a journal write that fails leads where a lost answer leads.         *)
(***************************************************************************)
EXTENDS DockerDaemon

VARIABLES rpc,      \* rpc[r]: the step replacement r is at
          op,       \* op[r]: what its process remembers
          journal   \* journal[r]: phase in its row of container_replacements

replacement == <<rpc, op, journal>>

Nothing == [old |-> NoOne, snap |-> Gone, lock |-> FALSE, cut |-> FALSE, cand |-> FALSE]

Forward  == {"lock", "barrier", "fingerprint", "policy", "rename", "stop", "disconnect",
             "create", "lookup", "start", "verify", "commit"}
Backward == {"discard", "homeward", "reconnect", "repolicy", "restart", "reverify"}
Steps    == {"idle", "done", "crashed", "remove", "release"} \cup Forward \cup Backward

Changing == {"retaining", "stopped", "creating", "created", "verifying", "recovering",
             "recovery_required"}
BugSettled == {"complete", "recovered", "failed", "cleanup_required"}
Settled    == {"complete", "recovered", "failed"}
Phases   == {"none", "prepared", "locked", "committed", "cleanup_required"} \cup Changing \cup Settled

ReplacementInit ==
  /\ rpc = [r \in Replacers |-> "idle"]
  /\ op = [r \in Replacers |-> Nothing]
  /\ journal = [r \in Replacers |-> "none"]

ReplacementTypeOK ==
  /\ rpc \in [Replacers -> Steps]
  /\ op \in [Replacers -> [old : Ids \cup {NoOne}, snap : Boxes, lock : BOOLEAN,
                           cut : BOOLEAN, cand : BOOLEAN]]
  /\ journal \in [Replacers -> Phases]

Go(r, step)    == rpc' = [rpc EXCEPT ![r] = step]
Note(r, phase) == journal' = [journal EXCEPT ![r] = phase]
Lock(r)        == ReplaceSlot(Target[r])
Old(r)         == op[r].old
Was(r)         == op[r].snap

(* The end of an operation: only the journal remembers the original.       *)
Leave(r, step) == Go(r, step) /\ op' = [op EXCEPT ![r] = [Nothing EXCEPT !.old = Old(r)]]

(***************************************************************************)
(* The three ways out.                                                     *)
(***************************************************************************)
(* Nothing was changed: once the journal says so the reservation may go.   *)
Abandon(r) == (Note(r, "failed") \/ UNCHANGED journal) /\ Go(r, "release") /\ UNCHANGED op

(* Something was changed: bring the original back.                         *)
BugUndo(r) == Note(r, "rolling_back") /\ Go(r, "discard") /\ UNCHANGED op
Undo(r) == Note(r, "recovering") /\ Go(r, "discard") /\ UNCHANGED op

(* Bringing it back failed: all evidence stays for manual recovery.        *)
GiveUp(r) == journal' \in {journal, [journal EXCEPT ![r] = "recovery_required"]} /\ Leave(r, "done")

(***************************************************************************)
(* Forward.                                                                *)
(***************************************************************************)
Begin(r) ==
  /\ rpc[r] = "idle"
  /\ \E i \in AtHome(Target[r]) : op' = [op EXCEPT ![r] = [Nothing EXCEPT !.old = i, !.snap = box[i]]]
  /\ Note(r, "prepared") /\ Go(r, "lock")
  /\ UNCHANGED daemon

Reserve(r) ==
  /\ rpc[r] = "lock"
  /\ \/ /\ Reserved(Lock(r), r)
        /\ op' = [op EXCEPT ![r].lock = TRUE]
        /\ \/ Note(r, "locked") /\ Go(r, "barrier")
           \/ Note(r, "failed") /\ Go(r, "release")
     \/ (Conflict(Lock(r)) \/ ReserveLost(Lock(r), r)) /\ Abandon(r)

AssertNoPrune(r) ==
  /\ rpc[r] = "barrier"
  /\ \/ held[PruneSlot] = NoOne /\ Go(r, "fingerprint") /\ UNCHANGED <<op, journal, daemon>>
     \/ held[PruneSlot] # NoOne /\ Abandon(r) /\ UNCHANGED daemon
     \/ Glitch /\ Abandon(r)

(* Everything an inspection shows, except which instance is running.       *)
Looks(b) == [b EXCEPT !.starts = 0]

BugFingerprint(r) ==
  /\ rpc[r] = "fingerprint" /\ Exists(Old(r))
  /\ Note(r, "retaining") /\ Go(r, "policy") /\ UNCHANGED <<op, daemon>>

Fingerprint(r) ==
  /\ rpc[r] = "fingerprint"
  /\ \/ /\ Looks(box[Old(r)]) = Looks(Was(r))
        /\ Note(r, "retaining") /\ Go(r, "policy") /\ UNCHANGED <<op, daemon>>
     \/ Looks(box[Old(r)]) # Looks(Was(r)) /\ Abandon(r) /\ UNCHANGED daemon
     \/ Glitch /\ Abandon(r)

(* A call on container i that the operation needs, then the next step.     *)
Forth(r, k, i, phase, step) ==
  \/ Done(k, i) /\ Note(r, phase) /\ Go(r, step) /\ UNCHANGED op
  \/ Failed(k, i) /\ Undo(r)

BugDropPolicy(r) == rpc[r] = "policy" /\ Go(r, "rename") /\ UNCHANGED <<op, journal, daemon>>
DropPolicy(r) == rpc[r] = "policy" /\ Forth(r, "policy", Old(r), "retaining", "rename")
Rename(r)     == rpc[r] = "rename" /\ Forth(r, "rename", Old(r), "retaining", "stop")

Stop(r) ==
  /\ rpc[r] = "stop"
  /\ \/ Was(r).up /\ Forth(r, "stop", Old(r), "stopped", "disconnect")
     \/ ~Was(r).up /\ Note(r, "stopped") /\ Go(r, "disconnect") /\ UNCHANGED <<op, daemon>>

(* The intent is recorded before the call: its answer may be lost.         *)
Disconnect(r) ==
  /\ rpc[r] = "disconnect"
  /\ op' = [op EXCEPT ![r].cut = TRUE]
  /\ \/ Done("disconnect", Old(r)) /\ Note(r, "creating") /\ Go(r, "create")
     \/ Failed("disconnect", Old(r)) /\ Note(r, "recovering") /\ Go(r, "discard")

Create(r) ==
  /\ rpc[r] = "create"
  /\ \/ /\ Done("create", r)
        /\ op' = [op EXCEPT ![r].cand = TRUE]
        /\ \/ Note(r, "created") /\ Go(r, "start")
           \/ Note(r, "recovering") /\ Go(r, "discard")
     \/ Failed("create", r) /\ Go(r, "lookup") /\ UNCHANGED <<op, journal>>

(* A create that failed may have worked: look for the operation's label.   *)
Lookup(r) ==
  /\ rpc[r] = "lookup"
  /\ \/ op' = [op EXCEPT ![r].cand = box[r].at = "home"] /\ UNCHANGED daemon
     \/ Glitch /\ UNCHANGED op
  /\ Note(r, "recovering") /\ Go(r, "discard")

Start(r) ==
  /\ rpc[r] = "start"
  /\ \/ Was(r).up /\ Forth(r, "start", r, "verifying", "verify")
     \/ ~Was(r).up /\ Note(r, "verifying") /\ Go(r, "verify") /\ UNCHANGED <<op, daemon>>

Verify(r) ==
  /\ rpc[r] = "verify"
  /\ \/ box[r].up = Was(r).up /\ Go(r, "commit") /\ UNCHANGED <<op, journal, daemon>>
     \/ box[r].up # Was(r).up /\ Undo(r) /\ UNCHANGED daemon
     \/ Glitch /\ Undo(r)

Commit(r) ==
  /\ rpc[r] = "commit"
  /\ \/ Note(r, "committed") /\ Go(r, "remove") /\ UNCHANGED <<op, daemon>>
     \/ Glitch /\ Undo(r)

RemoveOld(r) ==
  /\ rpc[r] = "remove" /\ Go(r, "release") /\ UNCHANGED op
  /\ \/ Done("remove", Old(r)) /\ (Note(r, "complete") \/ UNCHANGED journal)
     \/ Failed("remove", Old(r)) /\ (Note(r, "cleanup_required") \/ UNCHANGED journal)

(* finally: the reservation goes only after a settled phase.               *)
Release(r) ==
  /\ rpc[r] = "release"
  /\ \/ op[r].lock /\ journal[r] \in Settled /\ Freed(Lock(r)) /\ UNCHANGED journal
     \/ op[r].lock /\ journal[r] \in Settled /\ FreeFailed(Lock(r))
        /\ IF journal[r] = "complete" THEN Note(r, "cleanup_required") ELSE UNCHANGED journal
     \/ ~(op[r].lock /\ journal[r] \in Settled) /\ UNCHANGED <<journal, daemon>>
  /\ Leave(r, "done")

(***************************************************************************)
(* Backward.                                                               *)
(***************************************************************************)
(* A call the recovery needs: done, not needed, or the end of recovery.    *)
Back(r, needed, k, i, step) ==
  \/ needed /\ Done(k, i) /\ Go(r, step) /\ UNCHANGED <<op, journal>>
  \/ ~needed /\ Go(r, step) /\ UNCHANGED <<op, journal, daemon>>
  \/ needed /\ Failed(k, i) /\ GiveUp(r)
  \/ Glitch /\ GiveUp(r)

Discard(r)   == rpc[r] = "discard" /\ Back(r, op[r].cand /\ Exists(r), "remove", r, "homeward")
Homeward(r)  == rpc[r] = "homeward" /\ Back(r, box[Old(r)].at # "home", "homeward", Old(r), "reconnect")
Reconnect(r) == rpc[r] = "reconnect" /\ Back(r, op[r].cut /\ ~box[Old(r)].net, "reconnect", Old(r), "repolicy")
Repolicy(r)  == rpc[r] = "repolicy" /\ Back(r, TRUE, IF Was(r).policy THEN "repolicy" ELSE "policy", Old(r), "restart")
Restart(r)   == rpc[r] = "restart" /\ Back(r, Was(r).up /\ ~box[Old(r)].up, "start", Old(r), "reverify")

Reverify(r) ==
  /\ rpc[r] = "reverify"
  /\ \/ box[Old(r)].up = Was(r).up /\ Note(r, "recovered") /\ Go(r, "release") /\ UNCHANGED <<op, daemon>>
     \/ box[Old(r)].up # Was(r).up /\ GiveUp(r) /\ UNCHANGED daemon
     \/ Glitch /\ GiveUp(r)

(* The process dies: the daemon and the journal stay as they are.          *)
Crash(r) ==
  /\ rpc[r] \notin {"idle", "done", "crashed"}
  /\ Glitch /\ Leave(r, "crashed") /\ UNCHANGED journal

ReplacementStep(r) ==
  \/ Begin(r) \/ Reserve(r) \/ AssertNoPrune(r) \/ Fingerprint(r) \/ DropPolicy(r) \/ Rename(r)
  \/ Stop(r) \/ Disconnect(r) \/ Create(r) \/ Lookup(r) \/ Start(r) \/ Verify(r) \/ Commit(r)
  \/ RemoveOld(r) \/ Release(r) \/ Discard(r) \/ Homeward(r) \/ Reconnect(r) \/ Repolicy(r)
  \/ Restart(r) \/ Reverify(r) \/ Crash(r)

ReplacementNext == \E r \in Replacers : ReplacementStep(r)
=============================================================================
