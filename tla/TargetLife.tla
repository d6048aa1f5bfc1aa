----------------------------- MODULE TargetLife -----------------------------
(***************************************************************************)
(* What an OTA target promises to whoever created it (a direct deployment  *)
(* or the phase of a rollout), without leases, notices or clocks: it is    *)
(* created open or already confirmed, and moves only towards its end.  A   *)
(* target is confirmed only with firmware the platform has a report of.    *)
(***************************************************************************)
CONSTANTS Targets, Devices, Releases, DeviceOf, ReleaseOf

VARIABLES life, known

vars == <<life, known>>

Init ==
  /\ life = [t \in Targets |-> "absent"]
  /\ known \in [Devices -> SUBSET Releases]

Learn(d, r) ==
  /\ known' = [known EXCEPT ![d] = @ \cup {r}]
  /\ UNCHANGED life

Moves == {<<"absent", "open">>, <<"open", "installed">>, <<"open", "failed">>}

Move(S, s) ==
  /\ \A t \in S : <<life[t], s>> \in Moves
  /\ life' = [t \in Targets |-> IF t \in S THEN s ELSE life[t]]
  /\ UNCHANGED known

\* The device's reports are the only way to `completed'.
Confirm(S) ==
  /\ \A t \in S : life[t] \in {"absent", "open", "installed"}
                  /\ ReleaseOf[t] \in known[DeviceOf[t]]
  /\ life' = [t \in Targets |-> IF t \in S THEN "completed" ELSE life[t]]
  /\ UNCHANGED known

Next ==
  \/ \E d \in Devices, r \in Releases : Learn(d, r)
  \/ \E S \in SUBSET Targets : \E s \in {"open", "installed", "failed"} : Move(S, s)
  \/ \E S \in SUBSET Targets : Confirm(S)

Spec == Init /\ [][Next]_vars
=============================================================================
