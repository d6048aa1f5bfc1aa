--------------------------- MODULE MCCommandQueue ---------------------------
(* Instances of the command queue for TLC. *)
EXTENDS CommandQueue, TLC

CONSTANTS d1, d2, w1, w2, e1

NoneOnD1 == [x \in {} |-> d1]
OnD1 == (e1 :> d1)

\* Broker processes are interchangeable.
Symmetry == Permutations(Workers)

\* The executions run and nothing of the broker fails, or they have ended and a
\* broker may crash; everything else as in Init.
StartsWith(state, crashed) ==
  /\ next = [d \in Devices |-> 1]
  /\ rows = [c \in Cmds |-> NewRow("absent", "none", NoExec, NoKey)]
  /\ execs = [e \in Execs |-> state]
  /\ pc = [w \in Workers |-> "idle"]
  /\ job = [w \in Workers |-> NoCmd]
  /\ sweep = [w \in Workers |-> {}]
  /\ conn = [d \in Devices |-> NoBroker]
  /\ subscribed = {} /\ inbox = {} /\ uplink = {} /\ published = {}
  /\ crashes = crashed
  /\ drops = 0

MCInit == StartsWith("live", MaxCrashes) \/ StartsWith("ended", 0)
MCFairSpec == MCInit /\ [][Next]_vars /\ Fairness
=============================================================================
