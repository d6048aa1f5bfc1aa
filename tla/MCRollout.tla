----------------------------- MODULE MCRollout -----------------------------
(* Instances of the rollout for TLC. *)
EXTENDS Rollout, TLC

CONSTANTS p1, p2, q1, q2, q3, q4, q5

\* Ratios in quarters; on a pool of three some of them add no device.  The last
\* one does not reach the whole pool and is refused.
QuarterRatios == {<<1, 2, 4>>, <<1, 3, 4>>, <<2, 3, 4>>, <<4>>, <<1, 2>>}
GroupsOfThree == {<<2, 1>>, <<1, 1, 1>>}
Halves == {<<2, 4>>}
NoGroups == {}

NoRequests == [q \in {} |-> "pause"]
EveryRequest == (q1 :> "pause") @@ (q2 :> "resume") @@ (q3 :> "rollback") @@ (q4 :> "rollback")
             @@ (q5 :> "abort")
=============================================================================
