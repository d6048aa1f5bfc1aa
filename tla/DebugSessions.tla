--------------------------- MODULE DebugSessions ---------------------------
(***************************************************************************)
(* Debug executions and debug sessions.  A debug execution (table          *)
(* debug_executions) is a user's permission, through a plugin, to drive    *)
(* one device: it has a lease on the device, an expiry and a token that    *)
(* the plugin manager keeps in memory.  A debug session is the plugin's    *)
(* own record of the work done under one execution, in the plugin's        *)
(* private database.  The two databases are kept together only by calls:   *)
(* the manager starts a session after it has created the execution and     *)
(* cleans up when anything fails, and the plugin completes the execution   *)
(* when an event of the device ends the session.                           *)
(*                                                                         *)
(* `installations' and `bindings' are the columns of PluginTables that     *)
(* executions depend on; the lifecycle transactions appear with what they  *)
(* do to executions.  Time is not counted: `lease' and `ttl' say that the  *)
(* lease and the expiry lie in the future.  The state 'cancelling' of the  *)
(* table is written by nobody.                                             *)
(***************************************************************************)
EXTENDS Naturals, FiniteSets

CONSTANTS
  Installations, Devices, Profiles, Builds,
  Executions,      \* ids of executions; a session is known by its execution
  Events,          \* events a device sends for a session
  Reports,         \* the states it reports: a subset of running, completed, failed
  MaxChanges,      \* bound: lifecycle operations, redeployments, restarts and time-outs
  None

ASSUME MaxChangesNat == MaxChanges \in Nat
ASSUME ReportsAreStates == Reports \subseteq {"running", "completed", "failed"}

VARIABLES
  installations,   \* [Installations -> [state, build]]
  bindings,        \* [Devices -> [inst, profile]]
  member,          \* the user belongs to the project
  plug,            \* the build the connected plugin process runs
  execs,           \* debug_executions
  tokens,          \* manager.executionTokens: executions whose token is known
  byDevice,        \* manager.executionByDevice: [Installations \X Devices -> id or None]
  starts,          \* [Executions -> progress of startDebugSession]
  sessions,        \* debug_sessions of the plugin, by execution_ref
  events,          \* [Events -> the device's report and its handling]
  encoding,        \* a request for an action of the device, being encoded
  queued,          \* device_commands made of encoded actions
  changes          \* how many of MaxChanges have happened

scopeVars == <<installations, bindings, member, plug>>
managerVars == <<tokens, byDevice>>
vars == <<scopeVars, execs, managerVars, starts, sessions, events, encoding, queued, changes>>

NonTerminal == {"active", "paused", "cancelling"}
Terminal == {"completed", "failed", "cancelled"}

NoExecution == [state |-> "absent", inst |-> None, device |-> None, build |-> None,
                lease |-> FALSE, ttl |-> FALSE, endedBy |-> None]
NoStart == [pc |-> "idle", build |-> None, calls |-> {}]
NoSession == [state |-> "absent", inst |-> None, device |-> None]
NoEvent == [pc |-> "absent", session |-> None, says |-> None, inst |-> None,
            device |-> None, build |-> None, execution |-> None]
NoEncoding == [pc |-> "idle", inst |-> None, device |-> None, build |-> None,
               execution |-> None, by |-> None]

Change == changes < MaxChanges /\ changes' = changes + 1

Bound(d, i) == bindings[d] # None /\ bindings[d].inst = i

Set(x, row) == execs' = [execs EXCEPT ![x] = row]

Ended(row, state) == [row EXCEPT !.state = state, !.lease = FALSE]

(* What the lifecycle of an installation does to executions **************)

\* failDebugExecutionsForInstallation and failDebugExecutionsForBindingChange
FailDebugExecutions(S) ==
  execs' = [x \in Executions |-> IF x \in S /\ execs[x].state \in NonTerminal
                                 THEN Ended(execs[x], "failed") ELSE execs[x]]

ExecutionsOf(i) == {x \in Executions : execs[x].inst = i}
ExecutionsOn(d) == {x \in Executions : execs[x].device = d}

\* setInstallationState: enabling needs the installed build connected.
SetInstallationState(i, s) ==
  /\ s = "enabled" => plug = installations[i].build
  /\ installations' = [installations EXCEPT ![i].state = s]
  /\ IF s = "disabled" THEN FailDebugExecutions(ExecutionsOf(i)) ELSE UNCHANGED execs
  /\ UNCHANGED <<bindings, member, plug>>

MigrateInstallation(i, b) ==
  /\ plug = b
  /\ installations' = [installations EXCEPT ![i] = [state |-> "enabled", build |-> b]]
  /\ FailDebugExecutions(ExecutionsOf(i))
  /\ UNCHANGED <<bindings, member, plug>>

\* Only the executions of the installation the device moves to.
FailAtNewHome(d, i, old) == FailDebugExecutions(ExecutionsOn(d) \cap ExecutionsOf(i))

\* ... of the old one too.
FailAtBindingChange(d, i, old) ==
  FailDebugExecutions(ExecutionsOn(d) \cap
    (ExecutionsOf(i) \cup IF old = None THEN {} ELSE ExecutionsOf(old.inst)))

BindDevice(d, i, p) ==
  /\ installations[i].state = "enabled"
  /\ bindings' = [bindings EXCEPT ![d] = [inst |-> i, profile |-> p]]
  /\ IF bindings'[d] = bindings[d] THEN UNCHANGED execs
     ELSE FailAtBindingChange(d, i, bindings[d])
  /\ UNCHANGED <<installations, member, plug>>

\* The user leaves, or joins, the project; nothing is done to executions.
ChangeMembership == member' = ~member /\ UNCHANGED <<installations, bindings, plug, execs>>

Lifecycle ==
  /\ \/ \E i \in Installations, s \in {"enabled", "disabled"} : SetInstallationState(i, s)
     \/ \E i \in Installations, b \in Builds : MigrateInstallation(i, b)
     \/ \E d \in Devices, i \in Installations, p \in Profiles : BindDevice(d, i, p)
     \/ ChangeMembership
  /\ Change
  /\ UNCHANGED <<managerVars, starts, sessions, events, encoding, queued>>

(* The execution table ***************************************************)

\* createDebugExecution, in one transaction; the partial unique index admits
\* one active execution of a device.
CreateDebugExecution(x, i, d, b) ==
  /\ installations[i] = [state |-> "enabled", build |-> b]
  /\ Bound(d, i)
  /\ member
  /\ ~\E y \in Executions : execs[y].device = d /\ execs[y].state \in {"active", "cancelling"}
  /\ Set(x, [state |-> "active", inst |-> i, device |-> d, build |-> b,
             lease |-> TRUE, ttl |-> TRUE, endedBy |-> None])

\* getDebugExecutionCapability
Capability(x) == execs[x].state \in NonTerminal /\ execs[x].ttl /\ member

\* revalidateDebugSessionExecution, with the scope the caller read earlier
Revalidates(x, b) ==
  LET row == execs[x] IN
  /\ installations[row.inst] = [state |-> "enabled", build |-> b]
  /\ Bound(row.device, row.inst)
  /\ row.state = "active" /\ row.build = b /\ row.ttl /\ row.lease
  /\ member

\* The scope of renewDebugExecutionLeaseForUser and releaseDebugExecutionForUser.
UserMayControl(x) ==
  /\ installations[execs[x].inst].state = "enabled"
  /\ execs[x].state = "active" /\ execs[x].ttl
  /\ member

\* completeDebugExecution: whether a row matches, and the row it becomes.
Completable(x) == execs[x].state \in NonTerminal /\ execs[x].ttl
Completed(x, state, session) == [Ended(execs[x], state) EXCEPT !.endedBy = session]

\* Time passes: the lease lapses, or the execution expires (and its lease,
\* which never outlives it).
TimePasses(x) ==
  /\ execs[x].state \in NonTerminal
  /\ \/ execs[x].lease /\ Set(x, [execs[x] EXCEPT !.lease = FALSE])
     \/ execs[x].ttl /\ Set(x, [execs[x] EXCEPT !.lease = FALSE, !.ttl = FALSE])
  /\ Change

\* expireDebugExecutions: two statements, expired executions first.
ExpireDebugExecutions ==
  \/ \E x \in Executions : /\ execs[x].state \in NonTerminal /\ ~execs[x].ttl
                           /\ Set(x, Ended(execs[x], "expired"))
  \/ \E x \in Executions : /\ execs[x].state = "active" /\ execs[x].ttl /\ ~execs[x].lease
                           /\ Set(x, [execs[x] EXCEPT !.state = "paused"])

Clock ==
  /\ \/ ExpireDebugExecutions /\ UNCHANGED changes
     \/ \E x \in Executions : TimePasses(x)
  /\ UNCHANGED <<scopeVars, managerVars, starts, sessions, events, encoding, queued>>

(* The manager's memory of tokens ****************************************)

CacheExecutionCapability(x, i, d) ==
  /\ tokens' = (tokens \ {byDevice[<<i, d>>]}) \cup {x}
  /\ byDevice' = [byDevice EXCEPT ![<<i, d>>] = x]

\* The device is found by the token: without it nothing is forgotten.
ForgetExecutionDeviceScope(x) ==
  byDevice' = IF x \notin tokens THEN byDevice
              ELSE [s \in DOMAIN byDevice |-> IF byDevice[s] = x THEN None ELSE byDevice[s]]

ForgetExecutionCapability(x) == ForgetExecutionDeviceScope(x) /\ tokens' = tokens \ {x}

\* pruneExecutionCapabilities, one entry at a time
PruneExecutionCapabilities ==
  /\ \E x \in tokens : ~execs[x].ttl /\ ForgetExecutionCapability(x)
  /\ UNCHANGED <<scopeVars, execs, starts, sessions, events, encoding, queued, changes>>

\* A new manager process knows no token and continues no request; the calls it
\* had sent may still be served.
RestartManager ==
  /\ tokens' = {}
  /\ byDevice' = [s \in DOMAIN byDevice |-> None]
  /\ starts' = [x \in Executions |-> IF starts[x].pc \in {"idle", "started", "failed"} THEN starts[x]
                                     ELSE [starts[x] EXCEPT !.pc = "failed"]]
  /\ encoding' = NoEncoding
  /\ events' = [e \in Events |-> IF events[e].pc \in {"absent", "done"} THEN events[e]
                                 ELSE [events[e] EXCEPT !.pc = "queued", !.execution = None]]
  /\ Change
  /\ UNCHANGED <<scopeVars, execs, sessions, queued>>

\* The plugin is replaced by another build; what it was serving is gone.
Redeploy(b) ==
  /\ b # plug
  /\ plug' = b
  /\ Change
  /\ starts' = [x \in Executions |-> [starts[x] EXCEPT !.calls = {}]]
  /\ UNCHANGED <<installations, bindings, member, execs, managerVars, sessions, events, encoding, queued>>

(* Starting a session ****************************************************)

\* startDebugExecution.  What it read is checked again by the transaction.
StartDebugExecution(x, i, d) ==
  /\ starts[x].pc = "idle"
  /\ plug = installations[i].build
  /\ CreateDebugExecution(x, i, d, installations[i].build)
  /\ CacheExecutionCapability(x, i, d)
  /\ starts' = [starts EXCEPT ![x].pc = "created"]
  /\ UNCHANGED <<scopeVars, sessions, events, encoding, queued, changes>>

\* The installation is read again and the plugin asked for a session; if it
\* is no longer enabled or connected there is nobody to clean up with.
RequestSession(x) ==
  LET inst == installations[execs[x].inst] IN
  /\ starts[x].pc = "created"
  /\ starts' = [starts EXCEPT ![x] =
       IF inst.state = "enabled" /\ plug = inst.build
       THEN [pc |-> "requested", build |-> inst.build, calls |-> {"start"}]
       ELSE [@ EXCEPT !.pc = "cleaning"]]
  /\ UNCHANGED <<scopeVars, execs, managerVars, sessions, events, encoding, queued, changes>>

\* createDebugSession inserts at most one session of an execution; called
\* again, it finds that one.
CreateDebugSession(x) ==
  sessions' = IF sessions[x].state # "absent" THEN sessions ELSE
    [sessions EXCEPT ![x] = [state |-> "active", inst |-> execs[x].inst, device |-> execs[x].device]]

\* The plugin's side: debugger.startSession refuses another manifest.
PluginStartSession(x) ==
  /\ "start" \in starts[x].calls
  /\ plug = starts[x].build
  /\ CreateDebugSession(x)
  /\ starts' = [starts EXCEPT ![x].calls = @ \ {"start"},
                              ![x].pc = IF @ = "requested" THEN "answered" ELSE @]
  /\ UNCHANGED <<scopeVars, execs, managerVars, events, encoding, queued, changes>>

\* A time-out, a closed connection or an error; the call may still be served.
RequestFails(x) ==
  /\ starts[x].pc = "requested"
  /\ starts' = [starts EXCEPT ![x].pc = "aborting"]
  /\ UNCHANGED <<scopeVars, execs, managerVars, sessions, events, encoding, queued, changes>>

FinishStart(x) ==
  /\ starts[x].pc = "answered"
  /\ starts' = [starts EXCEPT ![x].pc = IF Revalidates(x, starts[x].build) THEN "started" ELSE "aborting"]
  /\ UNCHANGED <<scopeVars, execs, managerVars, sessions, events, encoding, queued, changes>>

\* abortDebugSessionBestEffort: whatever comes of the call, the manager goes on.
AbortDebugSession(x) ==
  /\ starts[x].pc = "aborting"
  /\ starts' = [starts EXCEPT ![x].pc = "cleaning", ![x].calls = @ \cup {"abort"}]
  /\ UNCHANGED <<scopeVars, execs, managerVars, sessions, events, encoding, queued, changes>>

\* abortDebugSession leaves an ended session alone.
AbortSession(x) ==
  sessions' = IF sessions[x].state \in {"absent"} \cup Terminal THEN sessions
              ELSE [sessions EXCEPT ![x].state = "failed"]

PluginAbortSession(x) ==
  /\ "abort" \in starts[x].calls
  /\ starts' = [starts EXCEPT ![x].calls = @ \ {"abort"}]
  /\ AbortSession(x)
  /\ UNCHANGED <<scopeVars, execs, managerVars, events, encoding, queued, changes>>

\* The end of the catch block.
FailExecution(x) ==
  /\ starts[x].pc = "cleaning"
  /\ IF Completable(x) THEN Set(x, Completed(x, "failed", None)) ELSE UNCHANGED execs
  /\ ForgetExecutionCapability(x)
  /\ starts' = [starts EXCEPT ![x].pc = "failed"]
  /\ UNCHANGED <<scopeVars, sessions, events, encoding, queued, changes>>

(* A user renews or releases the lease ***********************************)

\* The request finds no usable token and forgets the execution.
TokenMissing(x) == x \notin tokens \/ ~execs[x].ttl

RenewLease(x) ==
  /\ execs[x].state # "absent"
  /\ IF TokenMissing(x) THEN UNCHANGED execs /\ ForgetExecutionCapability(x)
     ELSE UserMayControl(x) /\ Set(x, [execs[x] EXCEPT !.lease = TRUE]) /\ UNCHANGED managerVars
  /\ UNCHANGED <<scopeVars, starts, sessions, events, encoding, queued, changes>>

\* The token is kept: the execution may still be completed with it.
ReleaseLease(x) ==
  /\ execs[x].state # "absent"
  /\ IF TokenMissing(x) THEN UNCHANGED execs /\ ForgetExecutionCapability(x)
     ELSE /\ UserMayControl(x)
          /\ Set(x, [execs[x] EXCEPT !.state = "paused", !.lease = FALSE])
          /\ ForgetExecutionDeviceScope(x) /\ UNCHANGED tokens
  /\ UNCHANGED <<scopeVars, starts, sessions, events, encoding, queued, changes>>

(* Events of the device **************************************************)

\* The device reports the state of a session it knows; the event is routed
\* as in PluginTables.
DeviceReports(e, x, says) ==
  LET d == sessions[x].device
      i == bindings[d].inst
  IN /\ events[e].pc = "absent"
     /\ sessions[x].state # "absent"
     /\ bindings[d] # None /\ installations[i].state = "enabled"
     /\ events' = [events EXCEPT ![e] = [pc |-> "queued", session |-> x, says |-> says, inst |-> i,
                      device |-> d, build |-> installations[i].build, execution |-> None]]
     /\ UNCHANGED <<scopeVars, execs, managerVars, starts, sessions, encoding, queued, changes>>

\* executionForEvent accepts this execution for the event.
UsableForEvent(x, ev) ==
  /\ Capability(x) /\ execs[x].state = "active" /\ execs[x].lease
  /\ execs[x].inst = ev.inst /\ execs[x].device = ev.device /\ execs[x].build = ev.build

\* dispatchEvent: with the execution that owns the device, if it is usable.
DispatchEvent(e) ==
  LET ev == events[e]
      x == byDevice[<<ev.inst, ev.device>>]
      usable == x # None /\ x \in tokens /\ UsableForEvent(x, ev)
  IN /\ ev.pc = "queued" /\ plug = ev.build
     /\ events' = [events EXCEPT ![e].pc = "dispatched", ![e].execution = IF usable THEN x ELSE None]
     /\ IF x = None \/ usable THEN UNCHANGED managerVars ELSE ForgetExecutionCapability(x)
     /\ UNCHANGED <<scopeVars, execs, starts, sessions, encoding, queued, changes>>

\* The session of an event, if it is the event's installation's and device's.
SessionAvailable(ev) ==
  sessions[ev.session].inst = ev.inst /\ sessions[ev.session].device = ev.device

\* sessionState: what a device calls running is an active session.
SessionState(says) == IF says = "running" THEN "active" ELSE says

\* updateDebugSessionState leaves an ended session alone.
UpdateDebugSessionState(ev) ==
  sessions' = IF ~SessionAvailable(ev) \/ sessions[ev.session].state \in Terminal THEN sessions
              ELSE [sessions EXCEPT ![ev.session].state = SessionState(ev.says)]

\* onEvent of the plugin, first part: the session's state, and the
\* observation.  Without an execution to complete, or if the session is not
\* available, nothing follows.
OnEvent(e) ==
  LET ev == events[e] IN
  /\ ev.pc = "dispatched"
  /\ UpdateDebugSessionState(ev)
  /\ events' = [events EXCEPT ![e].pc =
       IF SessionAvailable(ev) /\ ev.says \in Terminal /\ ev.execution # None THEN "updated" ELSE "handled"]
  /\ UNCHANGED <<scopeVars, execs, managerVars, starts, encoding, queued, changes>>

\* executionForOperation: a scope that no longer holds is an error, and the
\* event is tried again.
InScope(x, ev) == Capability(x) /\ execs[x].inst = ev.inst /\ execs[x].build = ev.build /\ execs[x].device = ev.device

\* A plugin that completes whatever execution came with the event.
IsItsExecutionAnyway(x, session) == TRUE

\* execution.id === updatedSession.executionRef
IsItsExecution(x, session) == x = session

\* Second part: execution.get.
PluginGetsExecution(e) ==
  LET ev == events[e] IN
  /\ ev.pc = "updated"
  /\ events' = [events EXCEPT ![e].pc = IF ~InScope(ev.execution, ev) THEN "queued"
                  ELSE IF IsItsExecution(ev.execution, ev.session) THEN "completing" ELSE "handled"]
  /\ UNCHANGED <<scopeVars, execs, managerVars, starts, sessions, encoding, queued, changes>>

\* Third part: execution.complete; reverseExecutionComplete.
PluginCompletesExecution(e) ==
  LET ev == events[e]
      x == ev.execution
      ok == InScope(x, ev) /\ Completable(x)
  IN /\ ev.pc = "completing"
     /\ IF ok THEN Set(x, Completed(x, ev.says, ev.session)) /\ ForgetExecutionCapability(x)
        ELSE UNCHANGED <<execs, managerVars>>
     /\ events' = [events EXCEPT ![e].pc = IF ok THEN "handled" ELSE "queued"]
     /\ UNCHANGED <<scopeVars, starts, sessions, encoding, queued, changes>>

\* The manager commits the answer; or the call, its lease or the manager fails
\* and the event is dispatched again, whatever the plugin has done.
EventEnds(e) ==
  /\ \/ events[e].pc = "handled" /\ events' = [events EXCEPT ![e].pc = "done"]
     \/ /\ events[e].pc \in {"dispatched", "updated", "completing", "handled"}
        /\ events' = [events EXCEPT ![e].pc = "queued", ![e].execution = None]
  /\ UNCHANGED <<scopeVars, execs, managerVars, starts, sessions, encoding, queued, changes>>

(* Actions of a device ***************************************************)

\* encodeAction reads the installation and asks the connected plugin.
EncodeAction(i, d, x) ==
  /\ encoding.pc = "idle"
  /\ installations[i] = [state |-> "enabled", build |-> plug]
  /\ encoding' = [pc |-> "asked", inst |-> i, device |-> d, build |-> plug, execution |-> x, by |-> None]
  /\ UNCHANGED <<scopeVars, execs, managerVars, starts, sessions, events, queued, changes>>

\* The manager's operation is bound to the connection: only the build it was
\* verified for can answer.
PluginEncodes ==
  /\ encoding.pc = "asked"
  /\ encoding' = IF plug = encoding.build THEN [encoding EXCEPT !.pc = "encoded", !.by = plug] ELSE NoEncoding
  /\ UNCHANGED <<scopeVars, execs, managerVars, starts, sessions, events, queued, changes>>

\* The transaction that enqueues what was encoded.
EnqueueEncoded ==
  LET a == encoding
      x == a.execution
      current == /\ installations[a.inst] = [state |-> "enabled", build |-> a.build]
                 /\ Bound(a.device, a.inst)
      controls == /\ member /\ execs[x].state = "active" /\ execs[x].lease /\ execs[x].ttl
                  /\ execs[x].inst = a.inst /\ execs[x].device = a.device
  IN /\ a.pc = "encoded"
     /\ encoding' = NoEncoding
     /\ queued' = IF current /\ (x = None \/ controls)
                  THEN queued \cup {[by |-> a.by, for |-> installations[bindings[a.device].inst].build]}
                  ELSE queued
     /\ UNCHANGED <<scopeVars, execs, managerVars, starts, sessions, events, changes>>

(* The system ************************************************************)

DebugInit ==
  /\ plug \in Builds
  /\ installations \in [Installations -> [state : {"enabled"}, build : Builds]]
  /\ \E i \in Installations, p \in Profiles : bindings = [d \in Devices |-> [inst |-> i, profile |-> p]]
  /\ member = TRUE
  /\ execs = [x \in Executions |-> NoExecution]
  /\ tokens = {}
  /\ byDevice = [s \in Installations \X Devices |-> None]
  /\ starts = [x \in Executions |-> NoStart]
  /\ sessions = [x \in Executions |-> NoSession]
  /\ events = [e \in Events |-> NoEvent]
  /\ encoding = NoEncoding
  /\ queued = {}
  /\ changes \in 0..MaxChanges

StartSteps(x) ==
  \/ \E i \in Installations, d \in Devices : StartDebugExecution(x, i, d)
  \/ RequestSession(x) \/ PluginStartSession(x) \/ RequestFails(x) \/ FinishStart(x)
  \/ AbortDebugSession(x) \/ PluginAbortSession(x) \/ FailExecution(x)
  \/ RenewLease(x) \/ ReleaseLease(x)

EventSteps(e) ==
  \/ \E x \in Executions, says \in Reports : DeviceReports(e, x, says)
  \/ DispatchEvent(e) \/ OnEvent(e) \/ PluginGetsExecution(e)
  \/ PluginCompletesExecution(e) \/ EventEnds(e)

ActionSteps ==
  \/ \E i \in Installations, d \in Devices, x \in Executions \cup {None} : EncodeAction(i, d, x)
  \/ PluginEncodes \/ EnqueueEncoded

ExecutionSteps ==
  \/ Lifecycle \/ RestartManager
  \/ \E b \in Builds : Redeploy(b)
  \/ Clock \/ PruneExecutionCapabilities
  \/ \E x \in Executions : StartSteps(x)

DebugNext == ExecutionSteps \/ ActionSteps \/ \E e \in Events : EventSteps(e)

DebugSpec == DebugInit /\ [][DebugNext]_vars

(* Properties ************************************************************)

\* Whoever may still drive a device does so through the installation the
\* device is bound to, enabled and at the build that was granted: disabling,
\* migrating and rebinding revoke at once, whatever was being started.  And a
\* command was encoded by the build its device's installation then had.
\* (installations.ts 21-52, executions.ts 171-174, actions.ts 205-225)
ControlIsCurrent ==
  /\ \A x \in Executions : execs[x].state \in NonTerminal =>
       /\ installations[execs[x].inst] = [state |-> "enabled", build |-> execs[x].build]
       /\ Bound(execs[x].device, execs[x].inst)
  /\ \A c \in queued : c.by = c.for

\* "A delayed terminal event from an older session must not complete a newer
\* execution" (plugin.ts 283-285): an execution ended by an event was ended by
\* an event of its own session, which had ended by then, although events are
\* routed by device, are repeated, and outlive sessions and executions.
EndedByItsOwnSession ==
  \A x \in Executions : execs[x].endedBy # None =>
    /\ execs[x].endedBy = x
    /\ sessions[x].state \in Terminal
=============================================================================
