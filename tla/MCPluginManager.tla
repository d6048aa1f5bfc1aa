-------------------------- MODULE MCPluginManager ---------------------------
(* A small instance of PluginManager.  Build b2 is the next version of b1,  *)
(* which changes the shape of the entity, no longer declares profile p2 and *)
(* does not know event 1; b3 claims the version of b2.                      *)
EXTENDS PluginManager, TLC

CONSTANTS b1, b2, b3, p1, p2, k, d1, v1, v2, i1

MCVersionOf == b1 :> v1 @@ b2 :> v2 @@ b3 :> v2
MCEntities == b1 :> (p1 :> (k :> "a") @@ p2 :> (k :> "c"))
           @@ b2 :> (p1 :> (k :> "b"))
           @@ b3 :> (p1 :> (k :> "b"))
MCDeclared == b1 :> Events @@ b2 :> Events \ {1} @@ b3 :> Events
MCSource == [e \in Events |-> d1]

\* Both managers have connected to b1 and verified its manifest.  Nothing is
\* installed, and b3 once claimed version v2; or b1 is installed, with a device
\* bound to its first profile.
MCInit ==
  /\ IdleInit
  /\ plug = b1
  /\ mgr = [m \in Managers |-> [up |-> TRUE, stopping |-> FALSE, conn |-> b1, catalog |-> {b1}]]
  /\ \/ NoRowsInit /\ snapshots = v1 :> b1 @@ v2 :> b3
     \/ /\ snapshots = v1 :> b1 @@ v2 :> None
        /\ installations = [i \in Installations |-> [state |-> "enabled", build |-> b1]]
        /\ bindings = [d \in Devices |-> [inst |-> i1, profile |-> p1]]
        /\ descriptors = RegisterProfileEntities({}, i1, p1, b1)
        /\ states = {}
        /\ events = [e \in Events |-> NoRow]
        /\ applied = [e \in Events |-> 0]

MCSpec == MCInit /\ [][Next]_vars /\ Fairness
=============================================================================
