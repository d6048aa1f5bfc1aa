---------------------------- MODULE Connections ----------------------------
(***************************************************************************)
(* The devices of a broker process, the connections they may open, and the *)
(* budget of things that go wrong around it.                               *)
(***************************************************************************)
EXTENDS Naturals, Sequences, FiniteSets

CONSTANTS Devices, Conns, Owner, NoConn,   \* Owner[c] is the device that opens c
          MaxFaults

ASSUME ConnectionsAssumption ==
  /\ Owner \in [Conns -> Devices]
  /\ NoConn \notin Conns
  /\ MaxFaults \in Nat

VARIABLE faults

\* A lost connection, a failed statement, a revocation, a restart: all are
\* counted, so that runs end.
Fault == faults < MaxFaults /\ faults' = faults + 1
=============================================================================
