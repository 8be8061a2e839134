-------------------------- MODULE OperationContract --------------------------
(***************************************************************************)
(* What the engine promises about provider mutations, without workers,     *)
(* leases or timers.  A mutation is sent a bounded number of times, never  *)
(* next to one whose result is unknown, and its recorded result is final;  *)
(* one that was sent is called cancelled only if somebody vouched for it,  *)
(* and one that was never sent can only be cancelled.                      *)
(***************************************************************************)
EXTENDS Integers

CONSTANTS Ops, ScopesOf,
          Limit  \* how often each mutation may be sent

VARIABLES phase,   \* where each operation stands
          sent,    \* how often its mutation was sent
          vouched  \* operations whose cancellation was confirmed

contractVars == <<phase, sent, vouched>>

Results == {"succeeded", "failed", "cancelled"}
Phases  == {"absent", "waiting", "sent", "unknown"} \cup Results

Undisturbed(o) ==
  \A p \in Ops \ {o} : phase[p] = "unknown" => ScopesOf[o] \cap ScopesOf[p] = {}

Accept(o) == phase[o] = "absent" /\ phase'[o] = "waiting" /\ sent'[o] = sent[o]

Send(o) ==
  /\ phase[o] \in {"waiting", "sent"} /\ phase'[o] = "sent"
  /\ sent[o] < Limit[o] /\ sent'[o] = sent[o] + 1 /\ Undisturbed(o)

Withdraw(o) == phase[o] = "waiting" /\ phase'[o] = "cancelled" /\ sent'[o] = sent[o]

Conclude(o) ==
  /\ phase[o] \in {"sent", "unknown"} /\ phase'[o] \in Results
  /\ phase'[o] = "cancelled" => o \in vouched'
  /\ sent'[o] = sent[o]

LoseTrack(o) == phase[o] = "sent" /\ phase'[o] = "unknown" /\ sent'[o] = sent[o]

Keep(o) == phase'[o] = phase[o] /\ sent'[o] = sent[o]

ContractInit ==
  phase = [o \in Ops |-> "absent"] /\ sent = [o \in Ops |-> 0] /\ vouched = {}

\* an emergency stop moves many operations in one step
ContractNext ==
  /\ phase' \in [Ops -> Phases] /\ sent' \in [Ops -> Nat]
  /\ vouched' \subseteq Ops /\ vouched \subseteq vouched'
  /\ \A o \in Ops : \/ Accept(o) \/ Send(o) \/ Withdraw(o)
                    \/ Conclude(o) \/ LoseTrack(o) \/ Keep(o)

ContractSpec == ContractInit /\ [][ContractNext]_contractVars
=============================================================================
