---------------------------- MODULE CommandQueue ----------------------------
(***************************************************************************)
(* The durable per-device command queue: the device_commands table and     *)
(* the functions of packages/core/src/queue that write it, the poll loop   *)
(* of every broker process that leases rows and publishes them over MQTT   *)
(* (packages/broker/src/mqtt/publish.ts), the debug-execution commands     *)
(* that share the table (core/src/plugins/execution-commands.ts), and the  *)
(* devices at the other end.                                               *)
(*                                                                         *)
(* A row is identified by its device and its per-device sequence number,   *)
(* the pair the database declares unique.  Every transaction of the code   *)
(* is one step; a poll loop is a process that stops between its            *)
(* transactions, so the steps of two brokers, of the expiry sweep, of the  *)
(* API and of the devices interleave as they do in the program.            *)
(*                                                                         *)
(* Clocks are abstracted to what the queries compare with now(): each      *)
(* timestamp is absent, ahead of now or behind it, and a separate step     *)
(* lets it pass.                                                           *)
(***************************************************************************)
EXTENDS Naturals, FiniteSets

CONSTANTS
  Devices,      \* devices with a command queue
  MaxSeq,       \* bound: commands enqueued per device
  Workers,      \* broker processes, each with one poll loop
  Execs,        \* debug executions that may enqueue commands
  ExecDevice,   \* the device a debug execution controls
  Keys,         \* idempotency keys a plugin may send
  Results,      \* results a device can report for a command
  NoExec, NoKey, NoResult, NoCmd, NoBroker,
  MaxCrashes,   \* bound: broker crashes, database errors, publish errors
  MaxDrops      \* bound: device disconnections, reboots and lost acknowledgements

ASSUME BoundsAssumption == MaxSeq \in Nat /\ MaxCrashes \in Nat /\ MaxDrops \in Nat

ASSUME ExecAssumption == ExecDevice \in [Execs -> Devices]

ASSUME NullAssumption ==
  /\ NoExec \notin Execs /\ NoKey \notin Keys /\ NoResult \notin Results
  /\ NoCmd \notin Devices \X (1..MaxSeq) /\ NoBroker \notin Workers

VARIABLES
  next,        \* devices.next_command_sequence
  rows,        \* device_commands
  execs,       \* debug_executions, as far as the queue looks at them
  pc, job,     \* per poll loop: the next statement and the command it leased
  sweep,       \* per poll loop: the row ids its expiry UPDATE has selected
  conn,        \* the broker process a device is connected to
  subscribed,  \* devices whose cmd/exec subscription the registry has seen
  inbox,       \* commands a device has received and not finished
  uplink,      \* command results a device is still sending
  published,   \* history: commands handed to MQTT at least once
  crashes, drops

tables == <<next, rows, execs>>
loops == <<pc, job, sweep>>
world == <<conn, subscribed, inbox, uplink, published>>
vars == <<tables, loops, world, crashes, drops>>

-----------------------------------------------------------------------------
(* The device_commands table *)

Cmds == Devices \X (1..MaxSeq)
DeviceOf(c) == c[1]
SequenceOf(c) == c[2]
Earlier(b, c) == DeviceOf(b) = DeviceOf(c) /\ SequenceOf(b) < SequenceOf(c)

Pending == {"queued", "leased", "broker_accepted"}
Terminal == {"device_completed", "delivery_failed"}

Row == [state     : {"absent"} \cup Pending \cup Terminal,
        deadline  : {"none", "ahead", "past"},    \* delivery_expires_at
        lease     : {"none", "held", "lapsed"},   \* lease_expires_at
        accepted  : BOOLEAN,                      \* broker_accepted_at is set
        ready     : BOOLEAN,                      \* available_at <= now()
        exec      : Execs \cup {NoExec},          \* execution_id
        key       : Keys \cup {NoKey},            \* idempotency_key
        cancelled : BOOLEAN,                      \* cancel_requested_at is set
        result    : Results \cup {NoResult}]      \* result_code, result_packet

\* A debug execution is live while it is active and its device lease is ahead
\* of now; an active one whose lease has lapsed can still be renewed.
ExecStates == {"live", "lapsed", "paused", "ended"}

NewRow(state, deadline, exec, key) ==
  [state |-> state, deadline |-> deadline, lease |-> "none",
   accepted |-> FALSE, ready |-> TRUE, exec |-> exec, key |-> key,
   cancelled |-> FALSE, result |-> NoResult]

\* (mutant) A table that only ties the lease to the state.
ChecksLeaseOnly(r) == (r.state = "leased") <=> (r.lease # "none")

\* The CHECK constraints of the table; a statement that would leave a row
\* outside them fails and changes nothing.
CheckConstraints(r) ==
  /\ (r.state = "leased") <=> (r.lease # "none")
  /\ (r.state \in {"broker_accepted", "device_completed"}) <=> r.accepted
  /\ (r.state = "device_completed") <=> (r.result # NoResult)

TypeOK ==
  /\ next \in [Devices -> 1..(MaxSeq + 1)]
  /\ rows \in [Cmds -> Row]
  /\ execs \in [Execs -> ExecStates]
  /\ pc \in [Workers -> {"idle", "sweep", "route", "defer", "publish", "accept", "release"}]
  /\ job \in [Workers -> Cmds \cup {NoCmd}]
  /\ sweep \in [Workers -> SUBSET Cmds]
  /\ conn \in [Devices -> Workers \cup {NoBroker}]
  /\ subscribed \in SUBSET Devices
  /\ inbox \in SUBSET Cmds
  /\ uplink \in SUBSET (Cmds \X Results)
  /\ published \in SUBSET Cmds
  /\ crashes \in 0..MaxCrashes
  /\ drops \in 0..MaxDrops

Init ==
  /\ next = [d \in Devices |-> 1]
  /\ rows = [c \in Cmds |-> NewRow("absent", "none", NoExec, NoKey)]
  /\ execs = [e \in Execs |-> "live"]
  /\ pc = [w \in Workers |-> "idle"]
  /\ job = [w \in Workers |-> NoCmd]
  /\ sweep = [w \in Workers |-> {}]
  /\ conn = [d \in Devices |-> NoBroker]
  /\ subscribed = {}
  /\ inbox = {}
  /\ uplink = {}
  /\ published = {}
  /\ crashes = 0
  /\ drops = 0

-----------------------------------------------------------------------------
(* Enqueue *)

\* The UPDATE ... RETURNING locks every target device and hands out its next
\* sequence number; the rows are inserted in the same transaction.
EnqueueRows(targets, deadline, exec, key) ==
  /\ \A d \in targets : next[d] <= MaxSeq
  /\ next' = [d \in Devices |-> IF d \in targets THEN next[d] + 1 ELSE next[d]]
  /\ rows' = [c \in Cmds |->
                IF DeviceOf(c) \in targets /\ SequenceOf(c) = next[DeviceOf(c)]
                THEN NewRow("queued", deadline, exec, key)
                ELSE rows[c]]

EnqueueBatch(targets, deadline) ==
  /\ EnqueueRows(targets, deadline, NoExec, NoKey)
  /\ UNCHANGED <<execs, loops, world, crashes, drops>>

\* (mutant) The stored row of a repeated key is not looked up.
EnqueueWithoutLookup(e, key) ==
  /\ execs[e] = "live"
  /\ EnqueueRows({ExecDevice[e]}, "none", e, key)
  /\ UNCHANGED <<execs, loops, world, crashes, drops>>

\* A repeated idempotency key of the same execution returns the stored row.
EnqueueDebugCommand(e, key) ==
  /\ execs[e] = "live"
  /\ key # NoKey => \A c \in Cmds : rows[c].exec = e => rows[c].key # key
  /\ EnqueueRows({ExecDevice[e]}, "none", e, key)
  /\ UNCHANGED <<execs, loops, world, crashes, drops>>

Cancelled(r) ==
  [r EXCEPT !.cancelled = TRUE,
            !.state = IF r.state = "queued" THEN "delivery_failed" ELSE r.state]

\* A queued command is dropped at once; one on its way is only marked.
RequestDebugCommandCancellation(c) ==
  /\ rows[c].exec # NoExec
  /\ execs[rows[c].exec] # "ended"
  /\ rows[c].state \in Pending
  /\ rows' = [rows EXCEPT ![c] = Cancelled(@)]
  /\ UNCHANGED <<next, execs, loops, world, crashes, drops>>

\* Lapse, renewal, release or expiry of the lease, and the end of an execution.
ExecutionMoves == {<<"live", "lapsed">>, <<"lapsed", "live">>, <<"live", "paused">>,
                   <<"lapsed", "paused">>} \cup ({"live", "lapsed", "paused"} \X {"ended"})

ExecutionChanges(e, s) ==
  /\ <<execs[e], s>> \in ExecutionMoves
  /\ execs' = [execs EXCEPT ![e] = s]
  /\ UNCHANGED <<next, rows, loops, world, crashes, drops>>

-----------------------------------------------------------------------------
(* The poll loop of a broker process *)

ExecutionDead(r) == r.exec # NoExec /\ (r.cancelled \/ execs[r.exec] # "live")

\* The WHERE clause of expireDelayedCommands' subselect.
Expirable(r) ==
  /\ r.state \in Pending
  /\ r.deadline = "past" \/ (r.state = "queued" /\ ExecutionDead(r))

\* (mutant) The sweep writes the state name of the OTA table.
ExpiredAsOtaState(r) == [r EXCEPT !.state = "expired", !.lease = "none"]

\* The row as expireDelayedCommands' SET clause leaves it.
Expired(r) == [r EXCEPT !.state = "delivery_failed", !.lease = "none"]

\* The sweep takes its snapshot: the subselect's ids.
SweepSelects(w) ==
  /\ pc[w] = "idle"
  /\ \E c \in Cmds : Expirable(rows[c])
  /\ pc' = [pc EXCEPT ![w] = "sweep"]
  /\ sweep' = [sweep EXCEPT ![w] = {c \in Cmds : Expirable(rows[c])}]
  /\ UNCHANGED <<tables, job, world, crashes, drops>>

\* The UPDATE reaches the selected rows.  It is qualified by id alone, so a
\* row another transaction changed since the snapshot is overwritten with its
\* new columns underneath.
SweepCommits(w) ==
  /\ pc[w] = "sweep"
  /\ \A c \in sweep[w] : CheckConstraints(Expired(rows[c]))
  /\ rows' = [c \in Cmds |-> IF c \in sweep[w] THEN Expired(rows[c]) ELSE rows[c]]
  /\ pc' = [pc EXCEPT ![w] = "idle"]
  /\ sweep' = [sweep EXCEPT ![w] = {}]
  /\ UNCHANGED <<next, execs, job, world, crashes, drops>>

\* One row outside the CHECK constraints fails the whole statement, and the
\* poll cycle with it.
SweepRejected(w) ==
  /\ pc[w] = "sweep"
  /\ \E c \in sweep[w] : ~CheckConstraints(Expired(rows[c]))
  /\ pc' = [pc EXCEPT ![w] = "idle"]
  /\ sweep' = [sweep EXCEPT ![w] = {}]
  /\ UNCHANGED <<tables, job, world, crashes, drops>>

\* (mutant) An accepted command no longer holds the queue.
BlocksUntilAccepted(r) == r.state \in {"queued", "leased"} /\ ~ExecutionDead(r)

\* An earlier row holds its device's queue.
Blocks(r) == r.state \in Pending /\ ~ExecutionDead(r)

\* (mutant) A lease that lapsed is not taken over.
EligibleQueuedOnly(c) ==
  /\ rows[c].ready
  /\ rows[c].deadline # "past"
  /\ rows[c].state = "queued"
  /\ ~ExecutionDead(rows[c])
  /\ \A b \in Cmds : Earlier(b, c) => ~Blocks(rows[b])

Eligible(c) ==
  /\ rows[c].ready
  /\ rows[c].deadline # "past"
  /\ rows[c].state = "queued" \/ (rows[c].state = "leased" /\ rows[c].lease = "lapsed")
  /\ ~ExecutionDead(rows[c])
  /\ \A b \in Cmds : Earlier(b, c) => ~Blocks(rows[b])

Leased(r) == [r EXCEPT !.state = "leased", !.lease = "held", !.accepted = FALSE]

LeaseNext(w, c) ==
  /\ pc[w] = "idle"
  /\ Eligible(c)
  /\ rows' = [rows EXCEPT ![c] = Leased(@)]
  /\ pc' = [pc EXCEPT ![w] = "route"]
  /\ job' = [job EXCEPT ![w] = c]
  /\ UNCHANGED <<next, execs, sweep, world, crashes, drops>>

\* (mutant) The row is marked before the packet is handed over.
AcceptBeforePublish(w) ==
  LET d == DeviceOf(job[w]) IN
  /\ pc[w] = "route"
  /\ pc' = [pc EXCEPT ![w] = IF conn[d] = w /\ d \in subscribed THEN "accept" ELSE "defer"]
  /\ UNCHANGED <<tables, job, sweep, world, crashes, drops>>

\* (mutant) The subscription is not asked for.
RouteByConnection(w) ==
  LET d == DeviceOf(job[w]) IN
  /\ pc[w] = "route"
  /\ pc' = [pc EXCEPT ![w] = IF conn[d] = w THEN "publish" ELSE "defer"]
  /\ UNCHANGED <<tables, job, sweep, world, crashes, drops>>

\* The registry is asked between the lease and the first await.
HandleLeasedCommand(w) ==
  LET d == DeviceOf(job[w]) IN
  /\ pc[w] = "route"
  /\ pc' = [pc EXCEPT ![w] = IF conn[d] = w /\ d \in subscribed THEN "publish" ELSE "defer"]
  /\ UNCHANGED <<tables, job, sweep, world, crashes, drops>>

\* (mutant) The state is not in the WHERE clause.
WriteAnyway(c, r) == rows' = [rows EXCEPT ![c] = r]

\* Statements that write a row only while it is leased; none of them asks by
\* whom.
IfLeased(c, r) == rows' = [rows EXCEPT ![c] = IF @.state = "leased" THEN r ELSE @]

\* The cycle continues with the next command, or is abandoned after a
\* lease_conflict: either way the loop is free again.
CycleContinues(w) ==
  /\ pc' = [pc EXCEPT ![w] = "idle"]
  /\ job' = [job EXCEPT ![w] = NoCmd]
  /\ UNCHANGED <<next, execs, sweep, world, crashes, drops>>

Deferred(r) == [r EXCEPT !.state = "queued", !.lease = "none", !.ready = FALSE]

DeferCommand(w) ==
  /\ pc[w] = "defer"
  /\ IfLeased(job[w], Deferred(rows[job[w]]))
  /\ CycleContinues(w)

\* The broker hands the packet to the device's session if it is still there;
\* a clean session that has gone drops it, and publish still succeeds.
PublishToDevice(w) ==
  LET c == job[w]
      d == DeviceOf(c)
  IN /\ pc[w] = "publish"
     /\ published' = published \cup {c}
     /\ inbox' = IF conn[d] = w /\ d \in subscribed THEN inbox \cup {c} ELSE inbox
     /\ pc' = [pc EXCEPT ![w] = "accept"]
     /\ UNCHANGED <<tables, job, sweep, conn, subscribed, uplink, crashes, drops>>

PublishFails(w) ==
  /\ pc[w] = "publish"
  /\ crashes < MaxCrashes
  /\ crashes' = crashes + 1
  /\ pc' = [pc EXCEPT ![w] = "release"]
  /\ UNCHANGED <<tables, job, sweep, world, drops>>

BrokerAccepted(r) ==
  [r EXCEPT !.state = "broker_accepted", !.lease = "none", !.accepted = TRUE]

MarkBrokerAccepted(w) ==
  /\ pc[w] = "accept"
  /\ IfLeased(job[w], BrokerAccepted(rows[job[w]]))
  /\ CycleContinues(w)

Released(r) ==
  [r EXCEPT !.state = "queued", !.lease = "none", !.ready = TRUE, !.accepted = FALSE]

ReleaseLease(w) ==
  /\ pc[w] = "release"
  /\ IfLeased(job[w], Released(rows[job[w]]))
  /\ CycleContinues(w)

\* A database error ends the cycle; the row keeps what was last committed.
CycleFails(w) ==
  /\ pc[w] \in {"sweep", "defer", "accept", "release"}
  /\ crashes < MaxCrashes
  /\ crashes' = crashes + 1
  /\ pc' = [pc EXCEPT ![w] = "idle"]
  /\ job' = [job EXCEPT ![w] = NoCmd]
  /\ sweep' = [sweep EXCEPT ![w] = {}]
  /\ UNCHANGED <<tables, world, drops>>

\* A broker process dies and restarts with no sessions and an empty registry.
BrokerCrashes(w) ==
  /\ crashes < MaxCrashes
  /\ crashes' = crashes + 1
  /\ pc' = [pc EXCEPT ![w] = "idle"]
  /\ job' = [job EXCEPT ![w] = NoCmd]
  /\ sweep' = [sweep EXCEPT ![w] = {}]
  /\ conn' = [d \in Devices |-> IF conn[d] = w THEN NoBroker ELSE conn[d]]
  /\ subscribed' = {d \in subscribed : conn[d] # w}
  /\ UNCHANGED <<tables, inbox, uplink, published, drops>>

-----------------------------------------------------------------------------
(* Time *)

DeadlinePasses(c) ==
  /\ rows[c].state \in Pending
  /\ rows[c].deadline = "ahead"
  /\ rows' = [rows EXCEPT ![c] = [@ EXCEPT !.deadline = "past"]]
  /\ UNCHANGED <<next, execs, loops, world, crashes, drops>>

LeaseLapses(c) ==
  /\ rows[c].lease = "held"
  /\ rows' = [rows EXCEPT ![c] = [@ EXCEPT !.lease = "lapsed"]]
  /\ UNCHANGED <<next, execs, loops, world, crashes, drops>>

RetryDelayPasses(c) ==
  /\ ~rows[c].ready
  /\ rows' = [rows EXCEPT ![c] = [@ EXCEPT !.ready = TRUE]]
  /\ UNCHANGED <<next, execs, loops, world, crashes, drops>>

-----------------------------------------------------------------------------
(* Devices and their results *)

DeviceConnects(d, w) ==
  /\ conn[d] = NoBroker
  /\ conn' = [conn EXCEPT ![d] = w]
  /\ UNCHANGED <<tables, loops, subscribed, inbox, uplink, published, crashes, drops>>

DeviceSubscribes(d) ==
  /\ conn[d] # NoBroker
  /\ d \notin subscribed
  /\ subscribed' = subscribed \cup {d}
  /\ UNCHANGED <<tables, loops, conn, inbox, uplink, published, crashes, drops>>

DeviceDisconnects(d) ==
  /\ conn[d] # NoBroker
  /\ drops < MaxDrops
  /\ drops' = drops + 1
  /\ conn' = [conn EXCEPT ![d] = NoBroker]
  /\ subscribed' = subscribed \ {d}
  /\ UNCHANGED <<tables, loops, inbox, uplink, published, crashes>>

DeviceReboots(d) ==
  /\ drops < MaxDrops
  /\ drops' = drops + 1
  /\ conn' = [conn EXCEPT ![d] = NoBroker]
  /\ subscribed' = subscribed \ {d}
  /\ inbox' = {c \in inbox : DeviceOf(c) # d}
  /\ uplink' = {m \in uplink : DeviceOf(m[1]) # d}
  /\ UNCHANGED <<tables, loops, published, crashes>>

\* A device that receives a command twice may run it twice.
DeviceExecutes(c, r) ==
  /\ c \in inbox
  /\ inbox' = inbox \ {c}
  /\ uplink' = uplink \cup {<<c, r>>}
  /\ UNCHANGED <<tables, loops, conn, subscribed, published, crashes, drops>>

\* (mutant) The lease columns survive the result.
RecordedKeepingLease(r, result) ==
  IF r.state \in Pending
  THEN [r EXCEPT !.state = "device_completed", !.accepted = TRUE, !.result = result]
  ELSE r

\* A pending row is completed; a row that already has a result, or has failed,
\* keeps what it has and the message is acknowledged all the same.
Recorded(r, result) ==
  IF r.state \in Pending
  THEN [r EXCEPT !.state = "device_completed", !.lease = "none",
                 !.accepted = TRUE, !.result = result]
  ELSE r

RecordDeviceResult(c, r) ==
  /\ <<c, r>> \in uplink
  /\ rows' = [rows EXCEPT ![c] = Recorded(@, r)]
  /\ uplink' = uplink \ {<<c, r>>}
  /\ UNCHANGED <<next, execs, loops, conn, subscribed, inbox, published, crashes, drops>>

\* The transaction commits, the acknowledgement is lost: the device will send
\* the result again.
AcknowledgementLost(c, r) ==
  /\ <<c, r>> \in uplink
  /\ drops < MaxDrops
  /\ drops' = drops + 1
  /\ rows' = [rows EXCEPT ![c] = Recorded(@, r)]
  /\ UNCHANGED <<next, execs, loops, world, crashes>>

-----------------------------------------------------------------------------
ApiStep ==
  \/ \E targets \in SUBSET Devices \ {{}}, t \in {"none", "ahead"} : EnqueueBatch(targets, t)
  \/ \E e \in Execs, k \in Keys \cup {NoKey} : EnqueueDebugCommand(e, k)
  \/ \E c \in Cmds : RequestDebugCommandCancellation(c)
  \/ \E e \in Execs, s \in ExecStates : ExecutionChanges(e, s)

LoopStep(w) ==
  \/ SweepSelects(w)
  \/ SweepCommits(w)
  \/ SweepRejected(w)
  \/ \E c \in Cmds : LeaseNext(w, c)
  \/ HandleLeasedCommand(w)
  \/ DeferCommand(w)
  \/ PublishToDevice(w)
  \/ PublishFails(w)
  \/ MarkBrokerAccepted(w)
  \/ ReleaseLease(w)
  \/ CycleFails(w)
  \/ BrokerCrashes(w)

ClockStep(c) == DeadlinePasses(c) \/ LeaseLapses(c) \/ RetryDelayPasses(c)

DeviceStep(d) ==
  \/ \E w \in Workers : DeviceConnects(d, w)
  \/ DeviceSubscribes(d)
  \/ DeviceDisconnects(d)
  \/ DeviceReboots(d)

ResultStep(c, r) ==
  DeviceExecutes(c, r) \/ RecordDeviceResult(c, r) \/ AcknowledgementLost(c, r)

Next ==
  \/ ApiStep
  \/ \E w \in Workers : LoopStep(w)
  \/ \E c \in Cmds : ClockStep(c)
  \/ \E d \in Devices : DeviceStep(d)
  \/ \E c \in Cmds, r \in Results : ResultStep(c, r)

Spec == Init /\ [][Next]_vars

\* Polls recur every pollIntervalMs, sweeps every expiryIntervalMs, so a
\* command that keeps being eligible is leased and rows that keep being
\* expirable are swept; a statement once issued ends.  Timestamps pass, and a
\* device reconnects, resubscribes and answers the commands it holds.
Fairness ==
  /\ \A w \in Workers :
       /\ SF_vars(SweepSelects(w))
       /\ WF_vars(SweepCommits(w) \/ SweepRejected(w))
       /\ \A c \in Cmds : SF_vars(LeaseNext(w, c))
       /\ WF_vars(HandleLeasedCommand(w))
       /\ WF_vars(PublishToDevice(w))
       /\ WF_vars(DeferCommand(w) \/ MarkBrokerAccepted(w) \/ ReleaseLease(w))
  /\ \A c \in Cmds : /\ WF_vars(DeadlinePasses(c))
                     /\ WF_vars(LeaseLapses(c))
                     /\ WF_vars(RetryDelayPasses(c))
                     /\ WF_vars(\E r \in Results : DeviceExecutes(c, r))
                     /\ \A r \in Results : WF_vars(RecordDeviceResult(c, r))
  /\ \A d \in Devices : /\ WF_vars(\E w \in Workers : DeviceConnects(d, w))
                        /\ WF_vars(DeviceSubscribes(d))

FairSpec == Spec /\ Fairness

-----------------------------------------------------------------------------
(* What the queue promises *)

\* The rows no debug execution owns: the commands of people and of plugins'
\* event handlers, whose order nothing waives.
Plain(c) == rows[c].exec = NoExec

\* leaseNext's contract: by the time a command has gone out to its device,
\* every earlier plain command of that device is completed or failed, however
\* leases lapsed, brokers crashed or a stale loop carried on.
PublishedInOrder ==
  \A b, c \in Cmds :
    Earlier(b, c) /\ Plain(b) /\ c \in published => rows[b].state \in Terminal

\* broker_accepted and device_completed both prove that the command was
\* published: a loop that lost its lease can mark a row, but only after it
\* published the command itself.
AcceptedWasPublished ==
  \A c \in Cmds :
    rows[c].state \in {"broker_accepted", "device_completed"} => c \in published

\* No write of the queue other than the sweep ever meets a CHECK constraint:
\* the columns of every row agree with its state.
ChecksHold == \A c \in Cmds : CheckConstraints(rows[c])

\* A plugin's retry with the same idempotency key never creates a second
\* command within one execution.
OneRowPerKey ==
  \A b, c \in Cmds :
    /\ rows[b].exec # NoExec /\ rows[b].exec = rows[c].exec
    /\ rows[b].key # NoKey /\ rows[b].key = rows[c].key
    => b = c

\* A completed or failed command never changes again: not by a sweep whose
\* snapshot is stale, a second and different result, a late mark or a release.
TerminalRowsFrozen ==
  [][\A c \in Cmds : rows[c].state \in Terminal =>
        /\ rows'[c].state = rows[c].state
        /\ rows'[c].result = rows[c].result]_rows

Phase(r) == CASE r.state \in Pending -> "open"
              [] r.state = "device_completed" -> "done"
              [] r.state = "delivery_failed" -> "failed"
              [] OTHER -> "absent"

Promise == INSTANCE OrderedDelivery WITH
  phase <- [c \in Cmds |-> Phase(rows[c])],
  exempt <- {c \in Cmds : rows[c].exec # NoExec},
  outcome <- [c \in Cmds |-> rows[c].result],
  sent <- published

\* The queue with its leases, crashes and sweeps implements ordered delivery:
\* every step of enqueue, lease, publish, acknowledge, result and expiry is a
\* step the promise allows, or one it does not see.
KeepsPromise == Promise!Spec

\* A lease never survives its holder: whatever crashes, a leased plain command
\* is eventually published and accepted, given back, completed or failed.
\* (A leased command of a dead execution is neither leased again nor swept.)
LeasesEnd ==
  \A c \in Cmds : rows[c].state = "leased" /\ Plain(c) ~> rows[c].state # "leased"

\* An accepted command that neither the device nor a result on its way holds,
\* after the device rebooted or lost its connection.
Lost(c) ==
  /\ drops > 0
  /\ rows[c].state = "broker_accepted"
  /\ c \notin inbox /\ \A r \in Results : <<c, r>> \notin uplink

\* A queued plain command without a deadline is leased and published again
\* through crashes and failed publications until the device completes it.  What
\* stops it is an accepted command the device lost, that command or an earlier
\* one of the same device: broker_accepted is never leased again (lease.ts),
\* although enqueue.ts knows no exception from "it is retried until the device
\* completes it".
CompletedUnlessLost ==
  \A c \in Cmds :
    rows[c].state = "queued" /\ Plain(c) /\ rows[c].deadline = "none"
      ~> \/ rows[c].state = "device_completed"
         \/ \E b \in Cmds : (b = c \/ Earlier(b, c)) /\ Lost(b)

\* lease.ts says of the sweep that it "moves pending commands whose delivery
\* deadline has passed to the delivery_failed terminal state": a command past
\* its deadline does not stay pending.
DeadlineReleasesQueue ==
  \A c \in Cmds :
    rows[c].state \in Pending /\ rows[c].deadline = "past" ~> rows[c].state \in Terminal
=============================================================================
