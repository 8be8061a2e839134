-------------------------- MODULE PlatformFirewall --------------------------
(***************************************************************************)
(* Commit-confirmed changes of an ESXi ruleset (firewall/platform-write.js)*)
(* over SSH: an allowed address is added or removed at once and recorded   *)
(* as provisional; unless somebody confirms it in time, a sweep takes it   *)
(* back.  Sweeps do not wait for each other, nor for a manual revert.      *)
(***************************************************************************)
EXTENDS Naturals

CONSTANTS Changes,            \* HTTP requests that change the ruleset
          Spec,               \* Spec[c]: [op : {"add", "remove"}, ip : Ips]
          Ips, Listed,        \* addresses and ranges; those listed at first
          Desk, Dash,         \* those that cover the administrator, and this server
          Mgmt,               \* the ruleset is sshServer, which carries the SSH connections
          Sweeps, Reverts,    \* runs of the timer, and calls of revertPlatformChange
          MaxFaults

ASSUME FirewallAssumption ==
  /\ Spec \in [Changes -> [op : {"add", "remove"}, ip : Ips]]
  /\ Listed \subseteq Ips /\ Changes \cap {"idle", "undo"} = {}
  /\ MaxFaults \in Nat

VARIABLES allowed,   \* the allowed addresses of the ruleset, on the host
          call,      \* call[c]: the step of c, whether it reached the host, and its answer
          row,       \* row[c]: the row of c in platform_firewall_changes
          worker,    \* worker[w]: rows that w has read and still has to revert
          faults     \* SSH calls and processes that failed

firewall == <<allowed, call, row, worker, faults>>

Workers == Sweeps \cup Reverts
Idle    == [at |-> "idle", queue |-> {}]

FirewallInit ==
  /\ allowed = Listed
  /\ call = [c \in Changes |-> [at |-> "idle", sent |-> "no", ok |-> FALSE]]
  /\ row = [c \in Changes |-> [state |-> "none", overdue |-> FALSE]]
  /\ worker = [w \in Workers |-> Idle]
  /\ faults = 0

FirewallTypeOK ==
  /\ allowed \subseteq Ips
  /\ call \in [Changes -> [at : {"idle", "read", "exec", "record", "answer", "done", "dead"},
                           sent : {"no", "vain", "hit"}, ok : BOOLEAN]]
  /\ row \in [Changes -> [state : {"none", "provisional", "confirmed", "reverted", "failed"}, overdue : BOOLEAN]]
  /\ worker \in [Workers -> [at : {"idle", "undo"} \cup Changes, queue : SUBSET Changes]]
  /\ faults \in 0..MaxFaults

(***************************************************************************)
(* The host.                                                               *)
(***************************************************************************)
Reachable == Mgmt => allowed \cap Dash # {}

Written(op, ip) == IF op = "add" THEN allowed \cup {ip} ELSE allowed \ {ip}

(* esxcli refuses to add what is there and to remove what is not.          *)
AlreadyDone(op, ip) == (ip \in allowed) <=> (op = "add")

Inverse(op) == IF op = "add" THEN "remove" ELSE "add"

(* An SSH call fails when the host cannot be reached; otherwise a fault.   *)
Fault      == faults < MaxFaults /\ faults' = faults + 1
Unanswered == (~Reachable /\ UNCHANGED faults) \/ Fault

(***************************************************************************)
(* _applyEsxi.                                                             *)
(***************************************************************************)
At(c, step) == call' = [call EXCEPT ![c].at = step]

Arrive(c) == call[c].at = "idle" /\ At(c, "read") /\ UNCHANGED <<allowed, row, worker, faults>>

(* lockoutCheckEsxi, on what was read.                                     *)
WouldLockOut(c) == Mgmt /\ Spec[c].op = "remove" /\ (allowed \ {Spec[c].ip}) \cap Desk = {}

(* Read the ruleset, check the change; the snapshot is taken before exec.  *)
ReadRuleset(c) ==
  /\ call[c].at = "read" /\ UNCHANGED <<allowed, row, worker>>
  /\ \/ Reachable /\ ~WouldLockOut(c) /\ At(c, "exec") /\ UNCHANGED faults
     \/ Reachable /\ WouldLockOut(c) /\ At(c, "answer") /\ UNCHANGED faults
     \/ Unanswered /\ At(c, "answer")

Ran(c, sent, ok) == call' = [call EXCEPT ![c] = [at |-> "record", sent |-> sent, ok |-> ok]]

(* _execEsxiChange: done; refused; or no answer, with or without effect.   *)
ExecEsxiChange(c) ==
  /\ call[c].at = "exec" /\ UNCHANGED <<row, worker>>
  /\ LET op == Spec[c].op
         ip == Spec[c].ip
     IN \/ /\ Reachable /\ ~AlreadyDone(op, ip)
           /\ allowed' = Written(op, ip) /\ Ran(c, "hit", TRUE) /\ UNCHANGED faults
        \/ /\ Reachable /\ AlreadyDone(op, ip)
           /\ Ran(c, "vain", FALSE) /\ UNCHANGED <<allowed, faults>>
        \/ Unanswered /\ Ran(c, "vain", FALSE) /\ UNCHANGED allowed
        \/ /\ Reachable /\ ~AlreadyDone(op, ip) /\ Fault
           /\ allowed' = Written(op, ip) /\ Ran(c, "hit", FALSE)

Unrecorded(c) == At(c, "answer") /\ UNCHANGED row

(* A row for the answers that came, none for an error.                     *)
BugRecord(c) ==
  /\ call[c].at = "record" /\ UNCHANGED <<allowed, worker, faults>>
  /\ IF call[c].ok
     THEN At(c, "answer") /\ row' = [row EXCEPT ![c].state = "provisional"]
     ELSE Unrecorded(c)

(* The row: provisional with a deadline, or failed without one.            *)
Record(c) ==
  /\ call[c].at = "record" /\ At(c, "answer")
  /\ row' = [row EXCEPT ![c].state = IF call[c].ok THEN "provisional" ELSE "failed"]
  /\ UNCHANGED <<allowed, worker, faults>>

(* The response is sent; errors are answered with status 200 as well.      *)
Answered(c) ==
  /\ call[c].at = "answer" /\ call' = [call EXCEPT ![c].at = "done", ![c].ok = FALSE]
  /\ UNCHANGED <<allowed, row, worker, faults>>

(***************************************************************************)
(* The deadline, confirmPlatformChange, revertPlatformChange and           *)
(* sweepExpiredProvisional.                                                *)
(***************************************************************************)
Overdue(c) == row[c].state = "provisional" /\ row[c].overdue

Moved(c, state) == row' = [row EXCEPT ![c] = [state |-> state, overdue |-> FALSE]]

Deadline(c) ==
  /\ row[c].state = "provisional" /\ ~row[c].overdue
  /\ row' = [row EXCEPT ![c].overdue = TRUE] /\ UNCHANGED <<allowed, call, worker, faults>>

ConfirmPlatformChange(c) ==
  /\ row[c].state = "provisional"
  /\ Moved(c, "confirmed") /\ UNCHANGED <<allowed, call, worker, faults>>

Begin(w, rows) ==
  /\ worker[w] = Idle /\ rows # {}
  /\ worker' = [worker EXCEPT ![w] = [at |-> "undo", queue |-> rows]]
  /\ UNCHANGED <<allowed, call, row, faults>>

SweepExpired(s) == Begin(s, {c \in Changes : Overdue(c)})
RevertPlatformChange(m, c) == row[c].state \in {"provisional", "confirmed"} /\ Begin(m, {c})

(* On to the next row.                                                     *)
Next1(w, c) ==
  worker' = [worker EXCEPT ![w] = IF worker[w].queue = {c} THEN Idle
                                  ELSE [at |-> "undo", queue |-> worker[w].queue \ {c}]]

(* A sweep that gives up a row whose command got no answer.                *)
BugGiveUp(w, c) ==
  /\ worker[w].at = "undo" /\ c \in worker[w].queue /\ UNCHANGED call
  /\ LET op == Inverse(Spec[c].op)
         ip == Spec[c].ip
     IN \/ /\ Reachable /\ allowed' = Written(op, ip) /\ UNCHANGED <<row, faults>>
           /\ worker' = [worker EXCEPT ![w].at = c]
        \/ /\ Unanswered /\ Next1(w, c) /\ UNCHANGED allowed
           /\ row' = [row EXCEPT ![c].state = "failed"]

(* The inverse command, for the row as it was read; what is undone already *)
(* counts as undone.  Without an answer the row stays for the next sweep.  *)
Undo(w, c) ==
  /\ worker[w].at = "undo" /\ c \in worker[w].queue /\ UNCHANGED <<call, row>>
  /\ LET op == Inverse(Spec[c].op)
         ip == Spec[c].ip
     IN \/ /\ Reachable /\ allowed' = Written(op, ip) /\ UNCHANGED faults
           /\ worker' = [worker EXCEPT ![w].at = c]
        \/ Unanswered /\ Next1(w, c) /\ UNCHANGED allowed
        \/ Reachable /\ Fault /\ Next1(w, c) /\ allowed' = Written(op, ip)

(* The row becomes reverted, whatever it has become in the meantime.       *)
Mark(w, c) ==
  /\ worker[w].at = c
  /\ Moved(c, "reverted") /\ Next1(w, c)
  /\ UNCHANGED <<allowed, call, faults>>

(* The process dies and starts again: the table stays.                     *)
Crash ==
  /\ Fault
  /\ \/ \E c \in Changes : call[c].at \in {"read", "exec", "record", "answer"}
     \/ \E w \in Workers : worker[w] # Idle
  /\ call' = [c \in Changes |-> IF call[c].at \in {"idle", "done"} THEN call[c] ELSE [call[c] EXCEPT !.at = "dead"]]
  /\ worker' = [w \in Workers |-> Idle]
  /\ UNCHANGED <<allowed, row>>

RevertNext ==
  \/ \E c \in Changes :
       \/ Deadline(c)
       \/ ConfirmPlatformChange(c)
       \/ \E m \in Reverts : RevertPlatformChange(m, c)
       \/ \E w \in Workers : Undo(w, c) \/ Mark(w, c)
  \/ \E s \in Sweeps : SweepExpired(s)
=============================================================================
