-------------------------- MODULE OrderedDelivery --------------------------
(***************************************************************************)
(* What the command queue promises to whoever enqueues commands, with no   *)
(* leases, brokers or clocks: per device, commands are admitted in order,  *)
(* a command is sent only when every earlier command that is not exempt    *)
(* from ordering has been settled, it is completed only after it was sent  *)
(* and with one outcome, and what is settled stays settled.                *)
(***************************************************************************)
EXTENDS Naturals

CONSTANTS Devices, MaxSeq, Results, NoResult

VARIABLES phase, exempt, outcome, sent

vars == <<phase, exempt, outcome, sent>>

Cmds == Devices \X (1..MaxSeq)
Before(b, c) == b[1] = c[1] /\ b[2] < c[2]
Settled == {"done", "failed"}

Init ==
  /\ phase = [c \in Cmds |-> "absent"]
  /\ exempt = {}
  /\ outcome = [c \in Cmds |-> NoResult]
  /\ sent = {}

\* A batch: the next command of each of some devices.
Admit(S, ex) ==
  /\ \A c \in S : /\ phase[c] = "absent"
                  /\ \A b \in Cmds : Before(b, c) => phase[b] # "absent"
  /\ phase' = [c \in Cmds |-> IF c \in S THEN "open" ELSE phase[c]]
  /\ exempt' = exempt \cup ex
  /\ UNCHANGED <<outcome, sent>>

\* A command may be sent again, and even after it has failed.
Send(c) ==
  /\ phase[c] # "absent"
  /\ \A b \in Cmds : Before(b, c) /\ b \notin exempt => phase[b] \in Settled
  /\ sent' = sent \cup {c}
  /\ UNCHANGED <<phase, exempt, outcome>>

Complete(c, r) ==
  /\ c \in sent
  /\ phase[c] = "open"
  /\ phase' = [phase EXCEPT ![c] = "done"]
  /\ outcome' = [outcome EXCEPT ![c] = r]
  /\ UNCHANGED <<exempt, sent>>

Fail(S) ==
  /\ \A c \in S : phase[c] = "open"
  /\ phase' = [c \in Cmds |-> IF c \in S THEN "failed" ELSE phase[c]]
  /\ UNCHANGED <<exempt, outcome, sent>>

Next ==
  \/ \E S \in SUBSET Cmds : \E ex \in {{}, S} : Admit(S, ex)
  \/ \E c \in Cmds : Send(c)
  \/ \E c \in Cmds, r \in Results : Complete(c, r)
  \/ \E S \in SUBSET Cmds : Fail(S)

Spec == Init /\ [][Next]_vars
=============================================================================
