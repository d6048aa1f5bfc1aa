---------------------------- MODULE PluginTables ----------------------------
(***************************************************************************)
(* The plugin tables: manifest snapshots, installations, device bindings,  *)
(* entity descriptors with their revisions, current entity states, entity  *)
(* history and the queue of plugin events, with every transaction of       *)
(* core/src/plugins that writes them.  One action is one transaction; the  *)
(* row locks (installation, then device, then registry) make each atomic.  *)
(* Debug executions, which the lifecycle transactions also fail, are in    *)
(* DebugSessions.                                                        *)
(*                                                                         *)
(* A build is a manifest: it has a version, the profiles it declares, the  *)
(* shape of each entity of a profile and the events it declares.  Two      *)
(* builds may claim the same version (a drifted manifest).  Time is not    *)
(* counted: `timer' says that the lease, or the back-off, still runs.      *)
(***************************************************************************)
EXTENDS Naturals, FiniteSets, FiniteSetsExt

CONSTANTS
  Installations, Devices, Profiles, Keys,
  Builds,          \* manifests, identified by their hash
  Versions,
  VersionOf,       \* [Builds -> Versions]
  Entities,        \* [Builds -> profile :> (key :> shape)], declared profiles only
  Declared,        \* [Builds -> SUBSET Events]: events whose kind the build declares
  Events,          \* event ids; the number is the sequence the plugin reports
  Source,          \* [Events -> Devices]
  Tokens,          \* lease tokens
  None

ASSUME EventsAreNumbers == Events \subseteq Nat
ASSUME EventsHaveSources == Source \in [Events -> Devices]
ASSUME NoneIsNoBinding ==
  None \notin [inst : Installations \cup {None}, profile : Profiles \cup {None}]

VARIABLES
  snapshots,       \* plugin_manifest_snapshots: [Versions -> build or None]
  installations,   \* [Installations -> [state, build]]
  bindings,        \* [Devices -> [inst, profile] or None]
  descriptors,     \* set of [inst, profile, key, revision, shape, deprecated]
  states,          \* set of [inst, device, key, revision, sequence], with the
                   \* shape its writer gave the value
  events,          \* [Events -> row]
  applied          \* [Events -> how often its updates were committed]

tableVars == <<snapshots, installations, bindings, descriptors, states, events, applied>>

Unbound == None

NoRow == [state |-> "absent", inst |-> None, build |-> None, profile |-> None,
          attempts |-> 0, token |-> None, timer |-> FALSE,
          answeredBy |-> None, commands |-> 0]

NoRowsInit ==
  /\ installations = [i \in Installations |-> [state |-> "absent", build |-> None]]
  /\ bindings = [d \in Devices |-> Unbound]
  /\ descriptors = {}
  /\ states = {}
  /\ events = [e \in Events |-> NoRow]
  /\ applied = [e \in Events |-> 0]

TablesInit == NoRowsInit /\ snapshots = [v \in Versions |-> None]

(* Manifest snapshots ****************************************************)

\* PrismaManifestStore.insert: a unique violation is swallowed, the caller
\* then reads what is stored.
InsertManifest(b) ==
  snapshots' = IF snapshots[VersionOf[b]] = None
               THEN [snapshots EXCEPT ![VersionOf[b]] = b] ELSE snapshots

\* getSnapshot: the version is stored and with this hash.
HasSnapshot(b) == snapshots[VersionOf[b]] = b

Profile(b, p) == p \in DOMAIN Entities[b]

(* Entity descriptors ****************************************************)

DescriptorsOf(D, i, p) == {r \in D : r.inst = i /\ r.profile = p}

\* The latest revision of each key of a profile.
LatestDescriptor(D, i, p, k) ==
  {r \in DescriptorsOf(D, i, p) : /\ r.key = k
                                  /\ \A q \in DescriptorsOf(D, i, p) :
                                       q.key = k => q.revision <= r.revision}

\* A key keeps its latest revision if the shape is the same, and otherwise
\* gets the next one; what the profile no longer declares is deprecated.
RegisterProfileEntities(D, i, p, b) ==
  LET wanted == Entities[b][p]
      same(k) == {r \in LatestDescriptor(D, i, p, k) : r.shape = wanted[k]}
      active == UNION {same(k) : k \in DOMAIN wanted}
      stale == {r \in DescriptorsOf(D, i, p) : r.key \notin DOMAIN wanted}
                 \cup UNION {LatestDescriptor(D, i, p, k) \ same(k) : k \in DOMAIN wanted}
      new == {[inst |-> i, profile |-> p, key |-> k, shape |-> wanted[k], deprecated |-> FALSE,
               revision |-> Max({0} \cup {r.revision : r \in LatestDescriptor(D, i, p, k)}) + 1]
                : k \in {x \in DOMAIN wanted : same(x) = {}}}
  IN (D \ (active \cup stale))
       \cup {[r EXCEPT !.deprecated = TRUE] : r \in stale}
       \cup {[r EXCEPT !.deprecated = FALSE] : r \in active}
       \cup new

DeprecateUnboundProfiles(D, B, i) ==
  {IF r.inst = i /\ ~\E d \in Devices : B[d] = [inst |-> i, profile |-> r.profile]
   THEN [r EXCEPT !.deprecated = TRUE] ELSE r : r \in D}

\* The row that gives a current value its meaning.
Describes(r, B, s) ==
  /\ r.inst = s.inst /\ r.key = s.key /\ r.revision = s.revision /\ ~r.deprecated
  /\ B[s.device] = [inst |-> s.inst, profile |-> r.profile]

DeleteIncompatibleStates(S, D, B, i) ==
  {s \in S : s.inst = i => \E r \in D : Describes(r, B, s)}

\* Profiles are registered one after the other, each among its own rows.
RegisterEvery(D, i, ps, b) ==
  {r \in D : ~(r.inst = i /\ r.profile \in ps)}
    \cup UNION {RegisterProfileEntities(DescriptorsOf(D, i, p), i, p, b) : p \in ps}

BoundProfiles(i) == {bindings[d].profile : d \in {x \in Devices : bindings[x] # Unbound /\ bindings[x].inst = i}}

(* Lifecycle of an installation ******************************************)

CreateInstallation(i, b) ==
  /\ installations[i].state = "absent"
  /\ HasSnapshot(b)
  /\ installations' = [installations EXCEPT ![i] = [state |-> "enabled", build |-> b]]
  /\ UNCHANGED <<snapshots, bindings, descriptors, states, events, applied>>

\* What a mutation of bindDeviceToPluginInstallation would forget.
RebindKeepingStates(S, d, involved) == S

RebindClears(S, d, involved) == {s \in S : ~(s.device = d /\ s.inst \in involved)}

BindDevice(d, i, p) ==
  LET old == bindings[d]
      new == [inst |-> i, profile |-> p]
      involved == {i} \cup IF old = Unbound THEN {} ELSE {old.inst}
      registered == RegisterProfileEntities(descriptors, i, p, installations[i].build)
      kept == DeprecateUnboundProfiles(registered, bindings', i)
  IN /\ installations[i].state = "enabled"
     /\ HasSnapshot(installations[i].build)
     /\ Profile(installations[i].build, p)
     /\ bindings' = [bindings EXCEPT ![d] = new]
     /\ states' = IF old = new THEN states ELSE RebindClears(states, d, involved)
     /\ descriptors' = IF old = Unbound \/ old.inst = i THEN kept
                       ELSE DeprecateUnboundProfiles(kept, bindings', old.inst)
     /\ UNCHANGED <<snapshots, installations, events, applied>>

SetInstallationState(i, s) ==
  /\ installations[i].state # "absent"
  /\ installations' = [installations EXCEPT ![i].state = s]
  /\ UNCHANGED <<snapshots, bindings, descriptors, states, events, applied>>

Reregister(i, b, D) ==
  /\ \A p \in BoundProfiles(i) : Profile(b, p)
  /\ descriptors' = DeprecateUnboundProfiles(RegisterEvery(D, i, BoundProfiles(i), b), bindings, i)
  /\ states' = DeleteIncompatibleStates(states, descriptors', bindings, i)
  /\ UNCHANGED <<snapshots, bindings, events, applied>>

MigrateInstallation(i, b) ==
  /\ installations[i].state # "absent"
  /\ HasSnapshot(b)
  /\ installations' = [installations EXCEPT ![i] = [state |-> "enabled", build |-> b]]
  /\ Reregister(i, b, {IF r.inst = i THEN [r EXCEPT !.deprecated = TRUE] ELSE r : r \in descriptors})

ReconcileInstallation(i) ==
  /\ installations[i].state # "absent"
  /\ HasSnapshot(installations[i].build)
  /\ UNCHANGED installations
  /\ Reregister(i, installations[i].build, descriptors)

(* The event queue *******************************************************)

\* ingestDeviceEvent: the route of the moment is copied into the row; an
\* event that cannot be routed is dead at once.  A repeated event id inserts
\* nothing, whatever its payload.
IngestDeviceEvent(e) ==
  LET b == bindings[Source[e]]
      routed == b # Unbound /\ installations[b.inst].state = "enabled"
  IN /\ events' = IF events[e].state # "absent" THEN events ELSE
          [events EXCEPT ![e] = [NoRow EXCEPT
             !.state = IF routed THEN "queued" ELSE "dead",
             !.inst = IF b = Unbound THEN None ELSE b.inst,
             !.build = IF b = Unbound THEN None ELSE installations[b.inst].build,
             !.profile = IF b = Unbound THEN None ELSE b.profile]]
     /\ UNCHANGED <<snapshots, installations, bindings, descriptors, states, applied>>

\* A lease query that never takes over a lapsed lease.
LeasableQueued(e) == events[e].inst # None /\ events[e].state = "queued" /\ ~events[e].timer

Leasable(e) == events[e].inst # None /\ events[e].state \in {"queued", "leased"} /\ ~events[e].timer

\* token(e) is unknown to everyone.
LeasePluginEvents(S, token) ==
  events' = [e \in Events |->
    IF e \in S THEN [events[e] EXCEPT !.state = "leased", !.timer = TRUE,
                       !.attempts = @ + 1, !.token = token[e]] ELSE events[e]]

\* An update by id alone.
HoldsUnchecked(e, token) == events[e].state \notin {"absent", "purged"}

\* A holder is known by its token.
Holds(e, token) == events[e].state = "leased" /\ events[e].token = token

RenewPluginEventLeases(held) ==
  events' = [e \in Events |->
    IF e \in DOMAIN held /\ Holds(e, held[e]) THEN [events[e] EXCEPT !.timer = TRUE] ELSE events[e]]

\* releasePluginEvent; 0 or 1 rows.
ReleasePluginEvent(e, token, permanent, consume) ==
  events' = IF ~Holds(e, token) THEN events ELSE
    [events EXCEPT
       ![e].state = IF permanent THEN "dead" ELSE "queued",
       ![e].token = None, ![e].timer = ~permanent,
       ![e].attempts = IF permanent \/ consume \/ @ = 0 THEN @ ELSE @ - 1]

SnapshotIsCurrent(e) ==
  LET row == events[e] IN
  /\ installations[row.inst] = [state |-> "enabled", build |-> row.build]
  /\ bindings[Source[e]] = [inst |-> row.inst, profile |-> row.profile]

\* The newest revision with the shape of the event's own manifest, deprecated
\* or not.
ResolvedRevision(e, k) ==
  LET row == events[e] IN
  Max({r.revision : r \in {x \in DescriptorsOf(descriptors, row.inst, row.profile) :
        x.key = k /\ x.shape = Entities[row.build][row.profile][k]}})

CurrentState(i, d, k) == {s \in states : s.inst = i /\ s.device = d /\ s.key = k}

\* applyEntityUpdates with writeCurrentState: a value with a sequence that is
\* not newer leaves the row alone.
ApplyEntityUpdates(e, updated) ==
  LET row == events[e]
      d == Source[e]
      newer(k) == \A s \in CurrentState(row.inst, d, k) : s.sequence < e
      K == {k \in updated : newer(k)}
  IN (states \ UNION {CurrentState(row.inst, d, k) : k \in K})
       \cup {[inst |-> row.inst, device |-> d, key |-> k, sequence |-> e,
              revision |-> ResolvedRevision(e, k),
              shape |-> Entities[row.build][row.profile][k]] : k \in K}

\* completePluginEventWithUpdates by the holder of the lease: current values
\* and commands only if the route is still the one the event was given.
CompletePluginEvent(e, updated, commands, build) ==
  /\ events' = [events EXCEPT ![e].state = "completed", ![e].token = None, ![e].timer = FALSE,
                  ![e].answeredBy = build,
                  ![e].commands = @ + IF SnapshotIsCurrent(e) THEN commands ELSE 0]
  /\ states' = IF SnapshotIsCurrent(e) THEN ApplyEntityUpdates(e, updated) ELSE states
  /\ applied' = [applied EXCEPT ![e] = @ + 1]
  /\ UNCHANGED <<snapshots, installations, bindings, descriptors>>

\* purgePluginData: retention deletes finished rows; a device repeats an
\* event only within the retention, so the id is not used again.
PurgePluginData(e) ==
  /\ events[e].state \in {"completed", "dead"}
  /\ events' = [events EXCEPT ![e] = [NoRow EXCEPT !.state = "purged"]]
  /\ UNCHANGED <<snapshots, installations, bindings, descriptors, states, applied>>

(* Properties ************************************************************)

\* Every current value can be read, and means what its writer meant: the
\* descriptor in force that a reader joins it with, by installation, key,
\* revision and the profile its device is bound to now, has the shape it was
\* written with, whatever order of bindings, profile switches, migrations and
\* late completions of old events led here (installations.ts, entities.ts).
StatesReadable ==
  \A s \in states : \E r \in descriptors : Describes(r, bindings, s) /\ r.shape = s.shape

\* An event's updates and commands are committed once, with its completion,
\* however many managers leased and handled it: an event that is retried, was
\* released or is dead has had no effect (events.ts:270 and :331).
EffectsOnce ==
  \A e \in Events :
    /\ applied[e] <= 1
    /\ applied[e] = 1 => events[e].state \in {"completed", "purged"}
    /\ events[e].commands > 0 => applied[e] = 1

\* An event is completed with the answer of the plugin build it was routed
\* to, even if the plugin is replaced between the check of the connection,
\* the call and the answer (manager/events.ts:177-281).
AnsweredByItsBuild == \A e \in Events : events[e].answeredBy \in {None, events[e].build}
=============================================================================
