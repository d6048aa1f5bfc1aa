-------------------------- MODULE MCPluginServices --------------------------
(***************************************************************************)
(* What plugins are used for, for TLC: debug sessions (with the events of  *)
(* a device, or with its actions and one change fewer) and uploads of      *)
(* artifacts.  `part' is chosen once; the parts share no state, so the     *)
(* runs of the parts are the runs of the whole.                            *)
(***************************************************************************)
EXTENDS DebugSessions, ArtifactUploads, TLC

CONSTANTS b1, b2, i1, i2, u1

VARIABLE part

\* Every request uploads under one key.
OneUpload == [a \in Attempts |-> u1]

\* Both installations are enabled, i1 at the connected build, and the device
\* is bound to it.
MCInit ==
  /\ DebugInit /\ UploadsInit
  /\ plug = b1 /\ installations[i1].build = b1 /\ installations[i2].build = b2
  /\ \A d \in Devices : bindings[d].inst = i1
  /\ \/ part \in {"events", "uploads"} /\ changes = 0
     \/ part = "actions" /\ changes = 1

MCNext ==
  /\ UNCHANGED part
  /\ \/ part # "uploads" /\ ExecutionSteps /\ UNCHANGED uploadVars
     \/ part = "events" /\ (\E e \in Events : EventSteps(e)) /\ UNCHANGED uploadVars
     \/ part = "actions" /\ ActionSteps /\ UNCHANGED uploadVars
     \/ part = "uploads" /\ UploadsNext /\ UNCHANGED vars

MCSpec == MCInit /\ [][MCNext]_<<vars, uploadVars, part>>

\* Executions are interchangeable: nothing orders them.
Interchangeable == Permutations(Executions)
=============================================================================
