---------------------------- MODULE OtaDelivery ----------------------------
(***************************************************************************)
(* The delivery of firmware updates: ota_targets and the functions of      *)
(* packages/core/src/ota/deploy.ts that write it, the OTA poll loop of     *)
(* every broker process (packages/broker/src/mqtt/ota-publish.ts), the     *)
(* device's answers (the download request, ota/result and stat messages)   *)
(* and the devices themselves.                                             *)
(*                                                                         *)
(* A target is one device of one job.  Every statement is one step.  The   *)
(* sweeps repeat their condition in the outer WHERE, so they are one step  *)
(* too.  Timestamps are reduced to what is compared with now().  A result  *)
(* of a device is handled any time after the device got so far, and any    *)
(* number of times: delayed, repeated, or overtaken by a later one.        *)
(***************************************************************************)
EXTENDS Naturals, FiniteSets

CONSTANTS
  Targets, Devices, Releases,
  DeviceOf, ReleaseOf,  \* the device of a target and the release of its job
  Base,                 \* the firmware every device runs at first
  Bindable,             \* releases a person may bind to a device by hand
  Workers,              \* broker processes, each with one OTA poll loop
  NoTarget, NoBroker, NoStat,
  MaxCrashes,           \* bound: broker crashes, database and publish errors
  MaxDrops              \* bound: device disconnections and lost stat messages

ASSUME OtaAssumption ==
  /\ DeviceOf \in [Targets -> Devices] /\ ReleaseOf \in [Targets -> Releases]
  /\ Base \in Releases /\ Bindable \subseteq Releases
  /\ NoTarget \notin Targets /\ NoBroker \notin Workers /\ NoStat \notin Releases
  /\ MaxCrashes \in Nat /\ MaxDrops \in Nat

VARIABLES
  target,      \* ota_targets
  reported,    \* device_firmware_state.fw_hash
  asked,       \* what createOtaJob read of reported, before its transaction
  pc, job,     \* per poll loop: the next statement and the target it leased
  stat,        \* per device: the stat message being handled
  conn,        \* the broker process a device is connected to
  subscribed,  \* devices whose ota subscription the registry has seen
  firmware,    \* what a device runs
  progress,    \* per target: how far the device got with the update
  published,   \* history: targets whose notice was handed to MQTT
  known,       \* history: the values reported has had
  crashes, drops

tables == <<target, reported>>
loops == <<pc, job>>
devices == <<conn, subscribed, firmware, progress>>
vars == <<tables, asked, loops, stat, devices, published, known, crashes, drops>>

Undelivered == {"pending", "leased"}
Delivered == {"delivered", "delivering", "downloaded"}
Settled == {"expired", "completed", "failed"}

Target == [state   : {"absent"} \cup Undelivered \cup Delivered \cup {"installed"} \cup Settled,
           lease   : {"none", "held", "lapsed"},   \* lease_expires_at
           window  : {"ahead", "past"},            \* expires_at
           ready   : BOOLEAN,                      \* available_at <= now()
           stalled : BOOLEAN]                      \* delivered_at before the stall window

\* How far a device got; a result can report any stage it has been through.
Stages == {"notified", "downloaded", "installed", "failed"}

TypeOK ==
  /\ target \in [Targets -> Target]
  /\ reported \in [Devices -> Releases]
  /\ asked \in [Targets -> {"no", "other", "running"}]
  /\ pc \in [Workers -> {"idle", "route", "defer", "publish", "mark"}]
  /\ job \in [Workers -> Targets \cup {NoTarget}]
  /\ stat \in [Devices -> [fw : Releases \cup {NoStat}, step : {"none", "write", "confirm"}]]
  /\ conn \in [Devices -> Workers \cup {NoBroker}]
  /\ subscribed \in SUBSET Devices
  /\ firmware \in [Devices -> Releases]
  /\ progress \in [Targets -> SUBSET Stages]
  /\ published \in SUBSET Targets
  /\ known \in [Devices -> SUBSET Releases]
  /\ crashes \in 0..MaxCrashes
  /\ drops \in 0..MaxDrops

NewTarget(state) ==
  [state |-> state, lease |-> "none", window |-> "ahead", ready |-> TRUE, stalled |-> FALSE]

Quiet == [fw |-> NoStat, step |-> "none"]

Init ==
  /\ target = [t \in Targets |-> NewTarget("absent")]
  /\ reported = [d \in Devices |-> Base]
  /\ asked = [t \in Targets |-> "no"]
  /\ pc = [w \in Workers |-> "idle"]
  /\ job = [w \in Workers |-> NoTarget]
  /\ stat = [d \in Devices |-> Quiet]
  /\ conn = [d \in Devices |-> NoBroker]
  /\ subscribed = {}
  /\ firmware = [d \in Devices |-> Base]
  /\ progress = [t \in Targets |-> {}]
  /\ published = {}
  /\ known = [d \in Devices |-> {Base}]
  /\ crashes = 0
  /\ drops = 0

\* An UPDATE of the targets in S, and nothing else of the table.
Update(S, Row(_)) == target' = [t \in Targets |-> IF t \in S THEN Row(target[t]) ELSE target[t]]

InState(S) == {t \in Targets : target[t].state \in S}

-----------------------------------------------------------------------------
(* Jobs *)

\* createOtaJob looks for devices that already report the release ...
CreateOtaJobReads(t) ==
  /\ asked[t] = "no"
  /\ asked' = [asked EXCEPT ![t] = IF reported[DeviceOf[t]] = ReleaseOf[t]
                                   THEN "running" ELSE "other"]
  /\ UNCHANGED <<tables, loops, stat, devices, published, known, crashes, drops>>

\* ... and creates their targets completed.
CreateOtaJob(t) ==
  /\ target[t].state = "absent"
  /\ asked[t] # "no"
  /\ target' = [target EXCEPT ![t] = NewTarget(IF asked[t] = "running" THEN "completed" ELSE "pending")]
  /\ UNCHANGED <<reported, asked, loops, stat, devices, published, known, crashes, drops>>

-----------------------------------------------------------------------------
(* The OTA poll loop *)

\* (mutant) A lapsed lease is left to the next publisher.
ExpirableUnleased(r) == r.window = "past" /\ r.state = "pending"

Expirable(r) ==
  r.window = "past" /\ (r.state = "pending" \/ (r.state = "leased" /\ r.lease = "lapsed"))

ExpireOtaTargets(w) ==
  LET S == {t \in Targets : Expirable(target[t])} IN
  /\ pc[w] = "idle"
  /\ S # {}
  /\ Update(S, LAMBDA r : [r EXCEPT !.state = "expired", !.lease = "none"])
  /\ UNCHANGED <<reported, asked, loops, stat, devices, published, known, crashes, drops>>

ExpireStalledOtaTargets(w) ==
  LET S == {t \in InState(Delivered) : target[t].stalled} IN
  /\ pc[w] = "idle"
  /\ S # {}
  /\ Update(S, LAMBDA r : [r EXCEPT !.state = "failed"])
  /\ UNCHANGED <<reported, asked, loops, stat, devices, published, known, crashes, drops>>

LeaseNextOtaTarget(w, t) ==
  LET r == target[t] IN
  /\ pc[w] = "idle"
  /\ r.ready
  /\ r.window = "ahead"
  /\ r.state = "pending" \/ (r.state = "leased" /\ r.lease = "lapsed")
  /\ target' = [target EXCEPT ![t].state = "leased", ![t].lease = "held"]
  /\ pc' = [pc EXCEPT ![w] = "route"]
  /\ job' = [job EXCEPT ![w] = t]
  /\ UNCHANGED <<reported, asked, stat, devices, published, known, crashes, drops>>

\* (mutant) The target is marked before the notice is handed over.
MarkBeforePublish(w) ==
  LET d == DeviceOf[job[w]] IN
  /\ pc[w] = "route"
  /\ pc' = [pc EXCEPT ![w] = IF conn[d] = w /\ d \in subscribed THEN "mark" ELSE "defer"]
  /\ UNCHANGED <<tables, asked, job, stat, devices, published, known, crashes, drops>>

HandleLeasedOtaTarget(w) ==
  LET d == DeviceOf[job[w]] IN
  /\ pc[w] = "route"
  /\ pc' = [pc EXCEPT ![w] = IF conn[d] = w /\ d \in subscribed THEN "publish" ELSE "defer"]
  /\ UNCHANGED <<tables, asked, job, stat, devices, published, known, crashes, drops>>

CycleContinues(w) ==
  /\ pc' = [pc EXCEPT ![w] = "idle"]
  /\ job' = [job EXCEPT ![w] = NoTarget]

\* Both write the target only while it is leased, by whomever.
ReleaseOtaTarget(w) ==
  /\ pc[w] = "defer"
  /\ Update({job[w]} \cap InState({"leased"}),
            LAMBDA r : [r EXCEPT !.state = "pending", !.lease = "none", !.ready = FALSE])
  /\ CycleContinues(w)
  /\ UNCHANGED <<reported, asked, stat, devices, published, known, crashes, drops>>

MarkOtaTargetDelivered(w) ==
  /\ pc[w] = "mark"
  /\ Update({job[w]} \cap InState({"leased"}),
            LAMBDA r : [r EXCEPT !.state = "delivered", !.lease = "none", !.stalled = FALSE])
  /\ CycleContinues(w)
  /\ UNCHANGED <<reported, asked, stat, devices, published, known, crashes, drops>>

\* The notice reaches the device's session if it is still there.
PublishToDevice(w) ==
  LET t == job[w]
      d == DeviceOf[t]
  IN /\ pc[w] = "publish"
     /\ published' = published \cup {t}
     /\ progress' = IF conn[d] = w /\ d \in subscribed
                    THEN [progress EXCEPT ![t] = @ \cup {"notified"}] ELSE progress
     /\ pc' = [pc EXCEPT ![w] = "mark"]
     /\ UNCHANGED <<tables, asked, job, stat, conn, subscribed, firmware, known, crashes, drops>>

PublishFails(w) ==
  /\ pc[w] = "publish"
  /\ crashes < MaxCrashes
  /\ crashes' = crashes + 1
  /\ pc' = [pc EXCEPT ![w] = "defer"]
  /\ UNCHANGED <<tables, asked, job, stat, devices, published, known, drops>>

\* A database error ends the cycle; the target stays leased.
CycleFails(w) ==
  /\ pc[w] \in {"defer", "mark"}
  /\ crashes < MaxCrashes
  /\ crashes' = crashes + 1
  /\ CycleContinues(w)
  /\ UNCHANGED <<tables, asked, stat, devices, published, known, drops>>

\* A broker process dies and restarts: no sessions, an empty registry, and the
\* stat messages it was handling are gone (they are not acknowledged late).
BrokerCrashes(w) ==
  LET mine == {d \in Devices : conn[d] = w} IN
  /\ crashes < MaxCrashes
  /\ crashes' = crashes + 1
  /\ CycleContinues(w)
  /\ conn' = [d \in Devices |-> IF d \in mine THEN NoBroker ELSE conn[d]]
  /\ subscribed' = subscribed \ mine
  /\ stat' = [d \in Devices |-> IF d \in mine THEN Quiet ELSE stat[d]]
  /\ UNCHANGED <<tables, asked, firmware, progress, published, known, drops>>

-----------------------------------------------------------------------------
(* Time *)

LeaseLapses(t) ==
  /\ target[t].lease = "held"
  /\ target' = [target EXCEPT ![t].lease = "lapsed"]
  /\ UNCHANGED <<reported, asked, loops, stat, devices, published, known, crashes, drops>>

WindowPasses(t) ==
  /\ target[t].state \in Undelivered
  /\ target[t].window = "ahead"
  /\ target' = [target EXCEPT ![t].window = "past"]
  /\ UNCHANGED <<reported, asked, loops, stat, devices, published, known, crashes, drops>>

RetryDelayPasses(t) ==
  /\ ~target[t].ready
  /\ target' = [target EXCEPT ![t].ready = TRUE]
  /\ UNCHANGED <<reported, asked, loops, stat, devices, published, known, crashes, drops>>

StallWindowPasses(t) ==
  /\ target[t].state \in Delivered
  /\ ~target[t].stalled
  /\ target' = [target EXCEPT ![t].stalled = TRUE]
  /\ UNCHANGED <<reported, asked, loops, stat, devices, published, known, crashes, drops>>

-----------------------------------------------------------------------------
(* Devices *)

DeviceConnects(d, w) ==
  /\ conn[d] = NoBroker
  /\ conn' = [conn EXCEPT ![d] = w]
  /\ UNCHANGED <<tables, asked, loops, stat, subscribed, firmware, progress, published, known,
                 crashes, drops>>

DeviceSubscribes(d) ==
  /\ conn[d] # NoBroker
  /\ d \notin subscribed
  /\ subscribed' = subscribed \cup {d}
  /\ UNCHANGED <<tables, asked, loops, stat, conn, firmware, progress, published, known,
                 crashes, drops>>

DeviceDisconnects(d) ==
  /\ conn[d] # NoBroker
  /\ drops < MaxDrops
  /\ drops' = drops + 1
  /\ conn' = [conn EXCEPT ![d] = NoBroker]
  /\ subscribed' = subscribed \ {d}
  /\ UNCHANGED <<tables, asked, loops, stat, firmware, progress, published, known, crashes>>

MarkOtaTargetDelivering(t) ==
  /\ target[t].state = "delivered"
  /\ target' = [target EXCEPT ![t].state = "delivering"]

\* GET /firmware-releases/:id/bin with the token of the notice; the state of
\* the target never holds a download back.
DeviceDownload(t) ==
  /\ "notified" \in progress[t]
  /\ MarkOtaTargetDelivering(t)
  /\ UNCHANGED <<reported, asked, loops, stat, devices, published, known, crashes, drops>>

StageOrder == {<<"notified", "downloaded">>, <<"notified", "failed">>,
               <<"downloaded", "installed">>, <<"downloaded", "failed">>}

\* The device works on the update; installing it reboots into the release.
DeviceAdvances(t, s) ==
  /\ s \notin progress[t]
  /\ "failed" \notin progress[t]
  /\ \E b \in progress[t] : <<b, s>> \in StageOrder
  /\ "installed" \notin progress[t]
  /\ progress' = [progress EXCEPT ![t] = @ \cup {s}]
  /\ firmware' = IF s = "installed" THEN [firmware EXCEPT ![DeviceOf[t]] = ReleaseOf[t]]
                                    ELSE firmware
  /\ UNCHANGED <<tables, asked, loops, stat, conn, subscribed, published, known, crashes, drops>>

\* (mutant) A result is accepted in every state before the end.
AcceptingAny(s) == Delivered \cup {"installed"}

\* The states from which a result moves a target.
Accepting(s) == IF s = "downloaded" THEN {"delivered", "delivering"} ELSE Delivered

RecordOtaResult(t, s) ==
  /\ s \in progress[t] \ {"notified"}
  /\ target[t].state \in Accepting(s)
  /\ target' = [target EXCEPT ![t].state = s]
  /\ UNCHANGED <<reported, asked, loops, stat, devices, published, known, crashes, drops>>

\* One stat message of a device is handled at a time, in order.
DeviceSendsStat(d) ==
  /\ conn[d] # NoBroker
  /\ stat[d] = Quiet
  /\ stat' = [stat EXCEPT ![d] = [fw |-> firmware[d], step |-> "write"]]
  /\ UNCHANGED <<tables, asked, loops, devices, published, known, crashes, drops>>

\* handleStat, first the firmware state ...
HandleStat(d) ==
  /\ stat[d].step = "write"
  /\ reported' = [reported EXCEPT ![d] = stat[d].fw]
  /\ known' = [known EXCEPT ![d] = @ \cup {stat[d].fw}]
  /\ stat' = [stat EXCEPT ![d].step = "confirm"]
  /\ UNCHANGED <<target, asked, loops, devices, published, crashes, drops>>

\* (mutant) The WHERE clause forgets the installed targets.
ConfirmDelivered(d) ==
  /\ stat[d].step = "confirm"
  /\ Update({t \in InState(Delivered) : DeviceOf[t] = d /\ ReleaseOf[t] = stat[d].fw},
            LAMBDA r : [r EXCEPT !.state = "completed"])
  /\ stat' = [stat EXCEPT ![d] = Quiet]
  /\ UNCHANGED <<reported, asked, loops, devices, published, known, crashes, drops>>

\* ... then every target of the device for the release it reports.
ConfirmOtaTargetByFirmware(d) ==
  /\ stat[d].step = "confirm"
  /\ Update({t \in InState(Delivered \cup {"installed"}) :
               DeviceOf[t] = d /\ ReleaseOf[t] = stat[d].fw},
            LAMBDA r : [r EXCEPT !.state = "completed"])
  /\ stat' = [stat EXCEPT ![d] = Quiet]
  /\ UNCHANGED <<reported, asked, loops, devices, published, known, crashes, drops>>

\* A database error between the statements: stat messages are not retried.
StatLost(d) ==
  /\ stat[d] # Quiet
  /\ drops < MaxDrops
  /\ drops' = drops + 1
  /\ stat' = [stat EXCEPT ![d] = Quiet]
  /\ UNCHANGED <<tables, asked, loops, devices, published, known, crashes>>

\* A person binds an artifact to a device, which overwrites what it reported.
BindArtifact(d, r) ==
  /\ r \in Bindable
  /\ reported' = [reported EXCEPT ![d] = r]
  /\ known' = [known EXCEPT ![d] = @ \cup {r}]
  /\ UNCHANGED <<target, asked, loops, stat, devices, published, crashes, drops>>

-----------------------------------------------------------------------------
JobStep(t) == CreateOtaJobReads(t) \/ CreateOtaJob(t)

LoopStep(w) ==
  \/ ExpireOtaTargets(w)
  \/ ExpireStalledOtaTargets(w)
  \/ \E t \in Targets : LeaseNextOtaTarget(w, t)
  \/ HandleLeasedOtaTarget(w)
  \/ ReleaseOtaTarget(w)
  \/ MarkOtaTargetDelivered(w)
  \/ PublishToDevice(w)
  \/ PublishFails(w)
  \/ CycleFails(w)
  \/ BrokerCrashes(w)

ClockStep(t) ==
  LeaseLapses(t) \/ WindowPasses(t) \/ RetryDelayPasses(t) \/ StallWindowPasses(t)

DeviceStep(d) ==
  \/ \E w \in Workers : DeviceConnects(d, w)
  \/ DeviceSubscribes(d)
  \/ DeviceDisconnects(d)
  \/ DeviceSendsStat(d)
  \/ HandleStat(d)
  \/ ConfirmOtaTargetByFirmware(d)
  \/ StatLost(d)
  \/ \E r \in Releases : BindArtifact(d, r)

UpdateStep(t) ==
  \/ DeviceDownload(t)
  \/ \E s \in Stages : DeviceAdvances(t, s)
  \/ \E s \in Stages : RecordOtaResult(t, s)

Next ==
  \/ \E t \in Targets : JobStep(t) \/ ClockStep(t) \/ UpdateStep(t)
  \/ \E w \in Workers : LoopStep(w)
  \/ \E d \in Devices : DeviceStep(d)

Spec == Init /\ [][Next]_vars

\* Sweeps recur every expiryIntervalMs, between the targets of other cycles; a
\* statement once issued ends; timestamps pass.  A device comes back and sends
\* its stat heartbeat.  Nothing makes it answer a notice.
Fairness ==
  /\ \A w \in Workers :
       /\ SF_vars(ExpireOtaTargets(w))
       /\ SF_vars(ExpireStalledOtaTargets(w))
       /\ WF_vars(HandleLeasedOtaTarget(w))
       /\ WF_vars(PublishToDevice(w))
       /\ WF_vars(ReleaseOtaTarget(w) \/ MarkOtaTargetDelivered(w))
  /\ \A t \in Targets : /\ WF_vars(LeaseLapses(t))
                        /\ WF_vars(WindowPasses(t))
                        /\ WF_vars(StallWindowPasses(t))
  /\ \A d \in Devices : /\ WF_vars(\E w \in Workers : DeviceConnects(d, w))
                        /\ WF_vars(DeviceSendsStat(d))
                        /\ WF_vars(HandleStat(d) \/ ConfirmOtaTargetByFirmware(d))

FairSpec == Spec /\ Fairness

-----------------------------------------------------------------------------
(* What the delivery promises *)

\* A target counts as delivered, and as installed or failed by its device, only
\* if its notice was published: a loop that lost its lease to another, or to a
\* sweep, never marks what neither of them sent.
DeliveredWasPublished == InState(Delivered \cup {"installed", "failed"}) \subseteq published

LifeOf(r) == CASE r.state \in Undelivered \cup Delivered -> "open"
               [] r.state = "expired" -> "failed"
               [] OTHER -> r.state

Life == INSTANCE TargetLife WITH life <- [t \in Targets |-> LifeOf(target[t])]

\* Loops, sweeps, repeated and overtaken results and stale stat messages move a
\* target only towards its end, and to `completed' only with firmware the
\* platform was told of: the delivery implements the life of a target.
KeepsTargetLife == Life!Spec

\* No target stays in flight: it is confirmed, installed, failed or expired,
\* even if every broker crashes on it and its device never answers.
TargetsSettle ==
  \A t \in Targets : target[t].state = "pending" ~> target[t].state \in Settled \cup {"installed"}

\* An installed update is confirmed by the device's next reports, even if the
\* first ones are lost, unless the device has moved on to other firmware.
InstalledIsConfirmed ==
  \A t \in Targets :
    target[t].state = "installed"
      ~> target[t].state = "completed" \/ firmware[DeviceOf[t]] # ReleaseOf[t]
=============================================================================
