---------------------------- MODULE PluginManager ---------------------------
(***************************************************************************)
(* Plugin managers that lease events from PluginTables and have a plugin   *)
(* process handle them over one RPC connection each: the dispatch of an    *)
(* event stops at every await, the connection may close and reopen to      *)
(* another build of the plugin in between, leases lapse, managers stop,    *)
(* crash and start again.  Circuit breaker, operations and the plugin      *)
(* runtime's own limit are included.                                       *)
(***************************************************************************)
EXTENDS PluginTables

CONSTANTS
  Managers,
  Deployed,        \* builds that a plugin process may run from now on
  MaxAttempts,     \* eventMaxAttempts
  BreakAt,         \* failures that open a circuit (5 in the code)
  MaxRunning,      \* maxConcurrentOperations of the runtime
  MaxFaults,       \* bound: crashes, lost connections, late renewals, failed statements
  MaxChanges       \* bound: lifecycle requests and new plugin processes

VARIABLES
  plug,            \* the build the plugin process runs
  mgr,             \* [Managers -> [up, stopping, conn, catalog]]
  batch,           \* [Managers -> [a set of events -> what the dispatch knows]]
  circuits,        \* [Managers -> [Installations -> circuit]]
  orphans,         \* handlers of the runtime whose caller has gone
  faults, changes

managerVars == <<plug, mgr, batch, circuits, orphans, faults, changes>>
vars == <<tableVars, managerVars>>

Fault == faults < MaxFaults /\ faults' = faults + 1
Change == changes < MaxChanges /\ changes' = changes + 1

(* The circuit breaker, one per plugin and installation ******************)

ClosedCircuit == [failures |-> 0, cooling |-> FALSE, probe |-> FALSE]
Open(c) == c.failures >= BreakAt
CircuitAllows(c) == ~Open(c) \/ (~c.cooling /\ ~c.probe)
Asked(c) == IF Open(c) THEN [c EXCEPT !.probe = TRUE] ELSE c
CircuitReleaseProbe(c) == [c EXCEPT !.probe = FALSE]

CircuitFailure(c) ==
  LET n == IF Open(c) THEN c.failures ELSE c.failures + 1
  IN [failures |-> n, cooling |-> n >= BreakAt, probe |-> FALSE]

(* Bookkeeping of a dispatch *********************************************)

Pending(m) == DOMAIN batch[m]
Phase(m, e) == batch[m][e].phase
Drop(m, e) == batch' = [batch EXCEPT ![m] = [x \in DOMAIN @ \ {e} |-> @[x]]]
Moves(m, e, fields) == batch' = [batch EXCEPT ![m][e] = fields]
SetCircuit(m, e, c) == circuits' = [circuits EXCEPT ![m][batch[m][e].inst] = c]
Circuit(m, e) == circuits[m][batch[m][e].inst]

LeasedCopy(row, token) ==
  [inst |-> row.inst, build |-> row.build, profile |-> row.profile,
   phase |-> "waiting", token |-> token, attempts |-> row.attempts + 1, op |-> FALSE,
   staged |-> "no", by |-> None, permanent |-> FALSE, consume |-> FALSE]

\* The dispatch ends by releasing the event; finishOperation is its finally.
GivesUp(m, e, permanent, consume) ==
  Moves(m, e, [batch[m][e] EXCEPT !.phase = "release", !.op = FALSE,
                 !.permanent = permanent, !.consume = consume])

\* The catch clause for an error of the plugin or of the transport.
PluginFails(m, e) ==
  /\ SetCircuit(m, e, CircuitFailure(Circuit(m, e)))
  /\ GivesUp(m, e, batch[m][e].attempts >= MaxAttempts, TRUE)

\* The catch clause for the manager's own limits and catalog.
ManagerDefers(m, e) ==
  /\ SetCircuit(m, e, CircuitReleaseProbe(Circuit(m, e)))
  /\ GivesUp(m, e, FALSE, FALSE)

LiveCalls == {c \in Managers \X Events : c[2] \in Pending(c[1]) /\ Phase(c[1], c[2]) = "called"}
Running == orphans + Cardinality(LiveCalls)

(* Connections ***********************************************************)

\* What a close without onDisconnect would leave: the calls fail, the
\* operations live on.
CallsBroken(B) ==
  [e \in DOMAIN B |-> IF B[e].phase = "called" THEN [B[e] EXCEPT !.phase = "broken"] ELSE B[e]]

\* onDisconnect ends the operations of the connection, and the calls that
\* wait on it fail; the plugin's handlers go on.
Disconnected(B) == [e \in DOMAIN B |-> [CallsBroken(B)[e] EXCEPT !.op = FALSE]]

OnClose(m) ==
  /\ mgr' = [mgr EXCEPT ![m].conn = None]
  /\ batch' = [batch EXCEPT ![m] = Disconnected(@)]

Handshake(m) ==
  /\ mgr[m].up /\ ~mgr[m].stopping /\ mgr[m].conn = None
  /\ mgr' = [mgr EXCEPT ![m].conn = plug]
  /\ UNCHANGED <<tableVars, plug, batch, circuits, orphans, faults, changes>>

\* The rest of PluginManager.connect: the first build of a version is the
\* only one; a drifted manifest loses its connection.
VerifyManifest(m) ==
  LET b == mgr[m].conn IN
  /\ mgr[m].up /\ b # None /\ b \notin mgr[m].catalog
  /\ InsertManifest(b)
  /\ IF snapshots'[VersionOf[b]] = b
     THEN mgr' = [mgr EXCEPT ![m].catalog = @ \cup {b}] /\ UNCHANGED batch
     ELSE OnClose(m)
  /\ UNCHANGED <<installations, bindings, descriptors, states, events, applied,
                 plug, circuits, orphans, faults, changes>>

ConnectionLost(m) ==
  /\ Fault
  /\ mgr[m].conn # None
  /\ OnClose(m)
  /\ orphans' = orphans + Cardinality({c \in LiveCalls : c[1] = m})
  /\ UNCHANGED <<tableVars, plug, circuits, changes>>

\* Another build of the plugin replaces the process; every socket closes.
Redeploy(b) ==
  /\ Change
  /\ b # plug
  /\ plug' = b
  /\ mgr' = [m \in Managers |-> [mgr[m] EXCEPT !.conn = None]]
  /\ batch' = [m \in Managers |-> Disconnected(batch[m])]
  /\ orphans' = 0
  /\ UNCHANGED <<tableVars, circuits, faults>>

(* consumeEventBatch and dispatchEvent ***********************************)

FreshTokens(S) ==
  {t \in [S -> Tokens] : \A e \in S :
     /\ t[e] # events[e].token
     /\ \A m \in Managers : e \in Pending(m) => batch[m][e].token # t[e]
     /\ \A u \in Tokens : u # events[e].token
          /\ (\A m \in Managers : e \in Pending(m) => batch[m][e].token # u) => t[e] <= u}

ConsumeEvents(m) ==
  /\ mgr[m].up /\ ~mgr[m].stopping /\ Pending(m) = {}
  /\ LET S == {e \in Events : Leasable(e)} IN
       /\ S # {}
       /\ \E t \in FreshTokens(S) :
            /\ LeasePluginEvents(S, t)
            /\ batch' = [batch EXCEPT ![m] = [e \in S |-> LeasedCopy(events[e], t[e])]]
  /\ UNCHANGED <<snapshots, installations, bindings, descriptors, states, applied,
                 plug, mgr, circuits, orphans, faults, changes>>

\* Events of one installation are dispatched one after the other.
MayDispatch(m, e) ==
  /\ e \in Pending(m) /\ Phase(m, e) = "waiting"
  /\ \A x \in Pending(m) : batch[m][x].inst = batch[m][e].inst => Phase(m, x) = "waiting"

DispatchEvent(m, e) ==
  LET c == Circuit(m, e)
      b == batch[m][e].build
      matching == mgr[m].conn = b
  IN
  /\ MayDispatch(m, e)
  /\ \/ /\ mgr[m].stopping \/ ~CircuitAllows(c)
        /\ GivesUp(m, e, FALSE, FALSE)
        /\ UNCHANGED <<circuits, faults>>
     \/ /\ ~mgr[m].stopping /\ CircuitAllows(c) /\ ~matching
        /\ SetCircuit(m, e, CircuitFailure(c))
        /\ GivesUp(m, e, FALSE, FALSE)
        /\ UNCHANGED faults
     \/ /\ ~mgr[m].stopping /\ CircuitAllows(c) /\ matching /\ b \notin mgr[m].catalog
        /\ ManagerDefers(m, e)
        /\ UNCHANGED faults
     \/ /\ ~mgr[m].stopping /\ CircuitAllows(c) /\ matching /\ b \in mgr[m].catalog
        /\ e \notin Declared[b]
        /\ SetCircuit(m, e, Asked(c))      \* the probe is left to its timeout
        /\ GivesUp(m, e, TRUE, TRUE)
        /\ UNCHANGED faults
     \/ /\ ~mgr[m].stopping /\ CircuitAllows(c) /\ matching /\ b \in mgr[m].catalog
        /\ e \in Declared[b]
        /\ \/ /\ SetCircuit(m, e, Asked(c))
              /\ Moves(m, e, [batch[m][e] EXCEPT !.phase = "bound", !.op = TRUE])
              /\ UNCHANGED faults
           \/ Fault /\ ManagerDefers(m, e) \* other operations fill registerOperation's limits
  /\ UNCHANGED <<tableVars, plug, mgr, orphans, changes>>

\* connection.request connects again if the connection has closed since the
\* check, to whatever build now listens.
Request(m, e) ==
  LET b == IF mgr[m].conn = None THEN plug ELSE mgr[m].conn IN
  /\ e \in Pending(m) /\ Phase(m, e) = "bound"
  /\ mgr' = [mgr EXCEPT ![m].conn = b]
  /\ \/ /\ Running < MaxRunning
        /\ Moves(m, e, [batch[m][e] EXCEPT !.phase = "called", !.by = b])
        /\ UNCHANGED circuits
     \/ Running >= MaxRunning /\ PluginFails(m, e)
  /\ UNCHANGED <<tableVars, plug, orphans, faults, changes>>

\* A reverse call of the handler, from acquireOperation to releaseOperation.
StageCommand(m, e) ==
  /\ e \in Pending(m)
  /\ batch[m][e].op
  /\ \/ Phase(m, e) = "called" /\ batch[m][e].staged = "no"
        /\ batch' = [batch EXCEPT ![m][e].staged = "pending"]
     \/ batch[m][e].staged = "pending"
        /\ batch' = [batch EXCEPT ![m][e].staged =
             IF /\ bindings[Source[e]] # Unbound /\ bindings[Source[e]].inst = batch[m][e].inst
                /\ installations[batch[m][e].inst].state = "enabled" THEN "done" ELSE "no"]
  /\ UNCHANGED <<tableVars, plug, mgr, circuits, orphans, faults, changes>>

\* The handler settles: an answer, an output the manager refuses, or an error.
HandlerSettles(m, e) ==
  /\ e \in Pending(m) /\ Phase(m, e) = "called"
  /\ \/ /\ Profile(batch[m][e].by, batch[m][e].profile)
        /\ Moves(m, e, [batch[m][e] EXCEPT !.phase = "answered"])
        /\ UNCHANGED <<circuits, faults>>
     \/ /\ Fault \/ (~Profile(batch[m][e].by, batch[m][e].profile) /\ UNCHANGED faults)
        /\ SetCircuit(m, e, CircuitReleaseProbe(Circuit(m, e)))
        /\ GivesUp(m, e, TRUE, TRUE)
     \/ Fault /\ PluginFails(m, e)
  /\ UNCHANGED <<tableVars, plug, mgr, orphans, changes>>

\* The caller's timer fires first; the handler keeps its slot.
RequestTimesOut(m, e) ==
  /\ Fault
  /\ e \in Pending(m) /\ Phase(m, e) = "called"
  /\ PluginFails(m, e)
  /\ orphans' = orphans + 1
  /\ UNCHANGED <<tableVars, plug, mgr, changes>>

RequestBreaks(m, e) ==
  /\ e \in Pending(m) /\ Phase(m, e) = "broken"
  /\ PluginFails(m, e)
  /\ UNCHANGED <<tableVars, plug, mgr, orphans, faults, changes>>

OrphanSettles ==
  /\ orphans > 0
  /\ orphans' = orphans - 1
  /\ UNCHANGED <<tableVars, plug, mgr, batch, circuits, faults, changes>>

\* sealOperation: the operation must have outlived the call, and a reverse
\* call still running gets a short grace.
SealOperation(m, e) ==
  /\ e \in Pending(m) /\ Phase(m, e) = "answered"
  /\ \/ /\ batch[m][e].op /\ batch[m][e].staged # "pending"
        /\ SetCircuit(m, e, ClosedCircuit)
        /\ Moves(m, e, [batch[m][e] EXCEPT !.phase = "sealed"])
        /\ UNCHANGED faults
     \/ ~batch[m][e].op /\ PluginFails(m, e) /\ UNCHANGED faults
     \/ batch[m][e].op /\ batch[m][e].staged = "pending" /\ Fault /\ PluginFails(m, e)
  /\ UNCHANGED <<tableVars, plug, mgr, orphans, changes>>

CompleteWithUpdates(m, e) ==
  LET copy == batch[m][e] IN
  /\ e \in Pending(m) /\ copy.phase = "sealed"
  /\ \/ /\ Holds(e, copy.token)
        /\ \E U \in SUBSET DOMAIN Entities[events[e].build][events[e].profile] :
             CompletePluginEvent(e, U, IF copy.op /\ copy.staged = "done" THEN 1 ELSE 0, copy.by)
        /\ Drop(m, e) /\ UNCHANGED <<circuits, faults>>
     \/ /\ ~Holds(e, copy.token)           \* "skipped after lease loss"
        /\ Drop(m, e) /\ UNCHANGED <<tableVars, circuits, faults>>
     \/ /\ Fault                           \* the transaction fails
        /\ SetCircuit(m, e, CircuitReleaseProbe(Circuit(m, e)))
        /\ GivesUp(m, e, copy.attempts >= MaxAttempts, TRUE)
        /\ UNCHANGED tableVars
  /\ UNCHANGED <<plug, mgr, orphans, changes>>

ReleaseEvent(m, e) ==
  LET copy == batch[m][e] IN
  /\ e \in Pending(m) /\ copy.phase = "release"
  /\ Drop(m, e)
  /\ \/ ReleasePluginEvent(e, copy.token, copy.permanent, copy.consume) /\ UNCHANGED faults
     \/ Fault /\ UNCHANGED events          \* the statement fails and is only logged
  /\ UNCHANGED <<snapshots, installations, bindings, descriptors, states, applied,
                 plug, mgr, circuits, orphans, changes>>

(* Timers ****************************************************************)

RenewLeases(m) ==
  /\ Pending(m) # {}
  /\ RenewPluginEventLeases([e \in Pending(m) |-> batch[m][e].token])
  /\ UNCHANGED <<snapshots, installations, bindings, descriptors, states, applied, managerVars>>

Renewed(e) == \E m \in Managers : e \in Pending(m) /\ Holds(e, batch[m][e].token)

\* A back-off ends, or a lease: early only if the renewals come too late.
TimerEnds(e) ==
  /\ events[e].timer
  /\ events' = [events EXCEPT ![e].timer = FALSE]
  /\ IF Renewed(e) THEN Fault ELSE UNCHANGED faults
  /\ UNCHANGED <<snapshots, installations, bindings, descriptors, states, applied,
                 plug, mgr, batch, circuits, orphans, changes>>

\* 30 s after the failure that opened the circuit.
CircuitCools(m, i) ==
  /\ circuits[m][i].cooling
  /\ circuits' = [circuits EXCEPT ![m][i].cooling = FALSE]
  /\ UNCHANGED <<tableVars, plug, mgr, batch, orphans, faults, changes>>

\* A probe older than any call is taken to be lost, and an idle circuit is
\* forgotten (circuitAllows and pruneCircuits).
PruneCircuits(m, i) ==
  LET c == circuits[m][i]
      busy == \E e \in Pending(m) : batch[m][e].inst = i /\ Phase(m, e) \notin {"waiting", "release"}
  IN /\ \/ c.probe /\ ~busy /\ circuits' = [circuits EXCEPT ![m][i].probe = FALSE]
        \/ c.failures > 0 /\ ~c.probe /\ ~c.cooling /\ ~busy
           /\ circuits' = [circuits EXCEPT ![m][i] = ClosedCircuit]
     /\ UNCHANGED <<tableVars, plug, mgr, batch, orphans, faults, changes>>

(* Processes *************************************************************)

Gone(m) ==
  /\ mgr' = [mgr EXCEPT ![m] = [up |-> FALSE, stopping |-> FALSE, conn |-> None, catalog |-> {}]]
  /\ circuits' = [circuits EXCEPT ![m] = [i \in Installations |-> ClosedCircuit]]
  /\ batch' = [batch EXCEPT ![m] = <<>>]

Crash(m) ==
  /\ Fault
  /\ mgr[m].up
  /\ Gone(m)
  /\ orphans' = orphans + Cardinality({c \in LiveCalls : c[1] = m})
  /\ UNCHANGED <<tableVars, plug, changes>>

Stop(m) ==
  /\ Fault
  /\ mgr[m].up /\ ~mgr[m].stopping
  /\ mgr' = [mgr EXCEPT ![m].stopping = TRUE]
  /\ UNCHANGED <<tableVars, plug, batch, circuits, orphans, changes>>

\* stop awaits the batch in progress, then closes what is left.
Stopped(m) ==
  /\ mgr[m].up /\ mgr[m].stopping /\ Pending(m) = {}
  /\ Gone(m)
  /\ UNCHANGED <<tableVars, plug, orphans, faults, changes>>

Start(m) ==
  /\ ~mgr[m].up
  /\ mgr' = [mgr EXCEPT ![m].up = TRUE, ![m].catalog = {snapshots[v] : v \in Versions} \ {None}]
  /\ UNCHANGED <<tableVars, plug, batch, circuits, orphans, faults, changes>>

(* Requests **************************************************************)

RequireConnectedManifest(m, b) == b \in mgr[m].catalog /\ mgr[m].conn = b

Lifecycle(m) ==
  /\ Change
  /\ mgr[m].up
  /\ \/ \E i \in Installations, b \in Builds : RequireConnectedManifest(m, b) /\ CreateInstallation(i, b)
     \/ \E d \in Devices, i \in Installations, p \in Profiles : BindDevice(d, i, p)
     \/ \E i \in Installations, s \in {"enabled", "disabled"} :
          /\ installations[i].state # s
          /\ s = "enabled" => RequireConnectedManifest(m, installations[i].build)
          /\ SetInstallationState(i, s)
     \/ \E i \in Installations, b \in Builds : RequireConnectedManifest(m, b) /\ MigrateInstallation(i, b)
     \/ \E i \in Installations : ReconcileInstallation(i)
  /\ UNCHANGED <<plug, mgr, batch, circuits, orphans, faults>>

\* The broker hands on the events of a device in the order it reports them.
Ingest(e) ==
  /\ events[e].state = "absent"
  /\ \A x \in Events : x < e /\ Source[x] = Source[e] => events[x].state # "absent"
  /\ IngestDeviceEvent(e)
  /\ UNCHANGED managerVars

\* Retention is days, a dispatch seconds.
Purge(e) == (\A m \in Managers : e \notin Pending(m)) /\ PurgePluginData(e) /\ UNCHANGED managerVars

(* Specification *********************************************************)

IdleInit ==
  /\ batch = [m \in Managers |-> <<>>]
  /\ circuits = [m \in Managers |-> [i \in Installations |-> ClosedCircuit]]
  /\ orphans = 0
  /\ faults = 0 /\ changes = 0

Init ==
  /\ TablesInit
  /\ plug \in Builds
  /\ mgr = [m \in Managers |-> [up |-> FALSE, stopping |-> FALSE, conn |-> None, catalog |-> {}]]
  /\ IdleInit

DispatchStep(m, e) ==
  \/ DispatchEvent(m, e) \/ Request(m, e) \/ HandlerSettles(m, e) \/ RequestBreaks(m, e)
  \/ SealOperation(m, e) \/ CompleteWithUpdates(m, e) \/ ReleaseEvent(m, e)

Next ==
  \/ \E m \in Managers :
       \/ Handshake(m) \/ VerifyManifest(m) \/ ConnectionLost(m)
       \/ ConsumeEvents(m) \/ RenewLeases(m)
       \/ Crash(m) \/ Stop(m) \/ Stopped(m) \/ Start(m) \/ Lifecycle(m)
       \/ \E i \in Installations : CircuitCools(m, i) \/ PruneCircuits(m, i)
       \/ \E e \in Events : DispatchStep(m, e) \/ StageCommand(m, e) \/ RequestTimesOut(m, e)
  \/ \E e \in Events : TimerEnds(e) \/ Ingest(e) \/ Purge(e)
  \/ \E b \in Deployed : Redeploy(b)
  \/ OrphanSettles

\* Processes are restarted and keep polling, timers fire, sockets reconnect,
\* and a handler or its deadline settles every call; devices, users and
\* retention promise nothing.
Fairness ==
  /\ \A m \in Managers :
       /\ WF_vars(Start(m)) /\ WF_vars(Handshake(m)) /\ WF_vars(VerifyManifest(m))
       /\ WF_vars(ConsumeEvents(m)) /\ WF_vars(Stopped(m))
       /\ \A i \in Installations : WF_vars(CircuitCools(m, i)) /\ WF_vars(PruneCircuits(m, i))
       /\ \A e \in Events : WF_vars(DispatchStep(m, e)) /\ WF_vars(StageCommand(m, e))
  /\ \A e \in Events : WF_vars(~Renewed(e) /\ TimerEnds(e))
  /\ WF_vars(OrphanSettles)

Spec == Init /\ [][Next]_vars /\ Fairness

Settled(e) == events[e].state \in {"completed", "dead", "purged"}

\* An event that waits for a build the plugin process does not run.
Stranded(e) == ~Settled(e) /\ events[e].state # "absent" /\ events[e].build # plug

\* Every stored event is completed or given up, whatever failed, crashed or
\* was disconnected on the way: no lease, probe or back-off holds it for ever.
\* An event for a build that no longer runs is deferred without end, and its
\* failures count against its installation, so nothing is promised beside one
\* (manager/events.ts:104-354, manager/circuit.ts).
EventsSettle ==
  \A e \in Events : (events[e].state = "queued") ~> (Settled(e) \/ \E x \in Events : Stranded(x))
=============================================================================
