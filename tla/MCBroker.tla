------------------------------ MODULE MCBroker ------------------------------
(* Instances of the broker process for TLC. *)
EXTENDS BrokerProcess, TLC

CONSTANTS d1, d2, c1, c2, c3, cmd, report, report2, status1, big, other

OwnerOf == (c1 :> d1 @@ c2 :> d1 @@ c3 :> d2)
FromOf == (report :> d1 @@ report2 :> d1 @@ status1 :> d1 @@ big :> d1 @@ other :> d2)
SizeOf == (report :> 1 @@ report2 :> 1 @@ status1 :> 2 @@ big :> 4 @@ other :> 1)
CostOf == (report :> 1 @@ report2 :> 1 @@ status1 :> 2 @@ big :> 1 @@ other :> 1)
FromSub == [m \in Msgs |-> FromOf[m]]
SizeSub == [m \in Msgs |-> SizeOf[m]]
CostSub == [m \in Msgs |-> CostOf[m]]
OwnerSub == [c \in Conns |-> OwnerOf[c]]

\* What the devices have to send: a report beside a stat and a message of the
\* other device, with a fault to come; or two reports and an oversized one,
\* where only the limits close a session.
Loads == {[msgs |-> {report, status1, other}, spent |-> 0],
          [msgs |-> {report, report2, big}, spent |-> MaxFaults]}

\* The messages that are not to be sent have been, and are recorded.
MCInit ==
  /\ SessionsInit
  /\ work = EmptyQueue /\ tokens = [d \in {} |-> 0]
  /\ sent = [c \in Conns |-> {}]
  /\ \E load \in Loads :
       /\ unacked = load.msgs \cap Msgs
       /\ stored = {m \in Valid : ~Oversized(m)} \ load.msgs
       /\ faults = load.spent

MCSpec == MCInit /\ [][Next]_vars /\ Fairness
=============================================================================
