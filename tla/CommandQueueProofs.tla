------------------------- MODULE CommandQueueProofs -------------------------
(***************************************************************************)
(* Proofs about the command queue for every set of devices, brokers,       *)
(* executions and results, and every bound.                                *)
(***************************************************************************)
EXTENDS CommandQueue, TLAPS

\* A loop that is handling a command has one.
LoopsHoldJobs ==
  \A w \in Workers :
    pc[w] \in {"route", "defer", "publish", "accept", "release"} => job[w] \in Cmds

\* The rows of a device are exactly those below its next sequence number.
Admitted ==
  \A c \in Cmds : rows[c].state # "absent" <=> SequenceOf(c) < next[DeviceOf(c)]

\* A row that does not exist yet is plain, and no sweep has selected it.
AbsentUntouched ==
  /\ \A c \in Cmds : rows[c].state = "absent" => rows[c].exec = NoExec
  /\ \A w \in Workers : \A c \in sweep[w] : rows[c].state # "absent"

\* A command some loop has leased at least once, as far as the state shows.
Claimed(c) ==
  \/ rows[c].state \in {"leased", "broker_accepted", "device_completed"}
  \/ c \in published
  \/ \E w \in Workers : job[w] = c

ClaimedExists == \A c \in Cmds : Claimed(c) => rows[c].state # "absent"

ClaimedInOrder ==
  \A b, c \in Cmds : Earlier(b, c) /\ Plain(b) /\ Claimed(c) => rows[b].state \in Terminal

\* Whatever is at the device, on its way back, or about to be marked, was
\* published.
PublishedFirst ==
  /\ inbox \subseteq published
  /\ \A c \in Cmds, r \in Results : <<c, r>> \in uplink => c \in published
  /\ \A w \in Workers : pc[w] = "accept" => job[w] \in published

IInv ==
  /\ TypeOK
  /\ ChecksHold
  /\ LoopsHoldJobs
  /\ Admitted
  /\ AbsentUntouched
  /\ ClaimedExists
  /\ ClaimedInOrder
  /\ PublishedFirst
  /\ AcceptedWasPublished

-----------------------------------------------------------------------------
(* Rows *)

\* What a cancellation leaves in a row.
LEMMA CancelledRow ==
  ASSUME NEW r \in Row
  PROVE  /\ Cancelled(r) \in Row
         /\ Cancelled(r).state = IF r.state = "queued" THEN "delivery_failed" ELSE r.state
         /\ Cancelled(r).exec = r.exec
         /\ Cancelled(r).result = r.result
         /\ CheckConstraints(r) => CheckConstraints(Cancelled(r))
<1>1. Cancelled(r) \in Row
  BY DEF Cancelled, Row, Pending, Terminal
<1>2. /\ Cancelled(r).state = IF r.state = "queued" THEN "delivery_failed" ELSE r.state
      /\ Cancelled(r).exec = r.exec
      /\ Cancelled(r).result = r.result
  BY DEF Cancelled, Row
<1>3. CheckConstraints(r) => CheckConstraints(Cancelled(r))
  BY DEF Cancelled, Row, CheckConstraints
<1>. QED
  BY <1>1, <1>2, <1>3

\* What leaseNext leaves in a row.
LEMMA LeasedRow ==
  ASSUME NEW r \in Row
  PROVE  /\ Leased(r) \in Row
         /\ Leased(r).state = "leased"
         /\ Leased(r).exec = r.exec
         /\ Leased(r).result = r.result
         /\ CheckConstraints(r) /\ r.state \in {"queued", "leased"} => CheckConstraints(Leased(r))
<1>1. Leased(r) \in Row
  BY DEF Leased, Row, Pending, Terminal
<1>2. /\ Leased(r).state = "leased"
      /\ Leased(r).exec = r.exec
      /\ Leased(r).result = r.result
  BY DEF Leased, Row
<1>3. CheckConstraints(r) /\ r.state \in {"queued", "leased"} => CheckConstraints(Leased(r))
  BY DEF Leased, Row, CheckConstraints
<1>. QED
  BY <1>1, <1>2, <1>3

\* What a deferral leaves in a row.
LEMMA DeferredRow ==
  ASSUME NEW r \in Row
  PROVE  /\ Deferred(r) \in Row
         /\ Deferred(r).state = "queued"
         /\ Deferred(r).exec = r.exec
         /\ Deferred(r).result = r.result
         /\ CheckConstraints(r) /\ r.state = "leased" => CheckConstraints(Deferred(r))
<1>1. Deferred(r) \in Row
  BY DEF Deferred, Row, Pending, Terminal
<1>2. /\ Deferred(r).state = "queued"
      /\ Deferred(r).exec = r.exec
      /\ Deferred(r).result = r.result
  BY DEF Deferred, Row
<1>3. CheckConstraints(r) /\ r.state = "leased" => CheckConstraints(Deferred(r))
  BY DEF Deferred, Row, CheckConstraints
<1>. QED
  BY <1>1, <1>2, <1>3

\* What markBrokerAccepted leaves in a row.
LEMMA AcceptedRow ==
  ASSUME NEW r \in Row
  PROVE  /\ BrokerAccepted(r) \in Row
         /\ BrokerAccepted(r).state = "broker_accepted"
         /\ BrokerAccepted(r).exec = r.exec
         /\ BrokerAccepted(r).result = r.result
         /\ CheckConstraints(r) /\ r.state = "leased" => CheckConstraints(BrokerAccepted(r))
<1>1. BrokerAccepted(r) \in Row
  BY DEF BrokerAccepted, Row, Pending, Terminal
<1>2. /\ BrokerAccepted(r).state = "broker_accepted"
      /\ BrokerAccepted(r).exec = r.exec
      /\ BrokerAccepted(r).result = r.result
  BY DEF BrokerAccepted, Row
<1>3. CheckConstraints(r) /\ r.state = "leased" => CheckConstraints(BrokerAccepted(r))
  BY DEF BrokerAccepted, Row, CheckConstraints
<1>. QED
  BY <1>1, <1>2, <1>3

\* What releaseLease leaves in a row.
LEMMA ReleasedRow ==
  ASSUME NEW r \in Row
  PROVE  /\ Released(r) \in Row
         /\ Released(r).state = "queued"
         /\ Released(r).exec = r.exec
         /\ Released(r).result = r.result
         /\ CheckConstraints(r) /\ r.state = "leased" => CheckConstraints(Released(r))
<1>1. Released(r) \in Row
  BY DEF Released, Row, Pending, Terminal
<1>2. /\ Released(r).state = "queued"
      /\ Released(r).exec = r.exec
      /\ Released(r).result = r.result
  BY DEF Released, Row
<1>3. CheckConstraints(r) /\ r.state = "leased" => CheckConstraints(Released(r))
  BY DEF Released, Row, CheckConstraints
<1>. QED
  BY <1>1, <1>2, <1>3

\* What the expiry sweep leaves in a row.
LEMMA ExpiredRow ==
  ASSUME NEW r \in Row
  PROVE  /\ Expired(r) \in Row
         /\ Expired(r).state = "delivery_failed"
         /\ Expired(r).exec = r.exec
         /\ Expired(r).result = r.result
<1>1. Expired(r) \in Row
  BY DEF Expired, Row, Pending, Terminal
<1>2. /\ Expired(r).state = "delivery_failed"
      /\ Expired(r).exec = r.exec
      /\ Expired(r).result = r.result
  BY DEF Expired, Row
<1>. QED
  BY <1>1, <1>2

\* What recordDeviceResult leaves in a row.
LEMMA RecordedRow ==
  ASSUME NEW r \in Row, NEW x \in Results
  PROVE  /\ Recorded(r, x) \in Row
         /\ Recorded(r, x).state = IF r.state \in Pending THEN "device_completed" ELSE r.state
         /\ Recorded(r, x).exec = r.exec
         /\ Recorded(r, x).result = IF r.state \in Pending THEN x ELSE r.result
         /\ CheckConstraints(r) => CheckConstraints(Recorded(r, x))
<1>1. CASE r.state \notin Pending
  BY <1>1 DEF Recorded
<1>2. CASE r.state \in Pending
  <2>. DEFINE q == [r EXCEPT !.state = "device_completed", !.lease = "none",
                             !.accepted = TRUE, !.result = x]
  <2>1. Recorded(r, x) = q
    BY <1>2 DEF Recorded
  <2>2. q \in Row
    BY DEF Row, Terminal
  <2>3. /\ q.state = "device_completed" /\ q.exec = r.exec /\ q.result = x
        /\ q.lease = "none" /\ q.accepted = TRUE
    BY DEF Row
  <2>4. CheckConstraints(q)
    BY <2>3, NullAssumption DEF CheckConstraints
  <2>. QED
    BY <1>2, <2>1, <2>2, <2>3, <2>4
<1>. QED
  BY <1>1, <1>2

\* Time passing changes one timestamp of a row and nothing else.
LEMMA ClockRow ==
  ASSUME NEW r \in Row, NEW q \in {[r EXCEPT !.deadline = "past"], [r EXCEPT !.ready = TRUE]}
  PROVE  /\ q \in Row
         /\ q.state = r.state /\ q.exec = r.exec /\ q.result = r.result
         /\ CheckConstraints(r) => CheckConstraints(q)
<1>1. q \in Row
  BY DEF Row
<1>2. /\ q.state = r.state /\ q.exec = r.exec /\ q.result = r.result
      /\ q.lease = r.lease /\ q.accepted = r.accepted
  BY DEF Row
<1>. QED
  BY <1>1, <1>2 DEF CheckConstraints

\* A lapsed lease is still a lease.
LEMMA LapsedRow ==
  ASSUME NEW r \in Row
  PROVE  LET q == [r EXCEPT !.lease = "lapsed"] IN
         /\ q \in Row
         /\ q.state = r.state /\ q.exec = r.exec /\ q.result = r.result
         /\ CheckConstraints(r) /\ r.lease = "held" => CheckConstraints(q)
<1>. DEFINE q == [r EXCEPT !.lease = "lapsed"]
<1>1. q \in Row
  BY DEF Row
<1>2. /\ q.state = r.state /\ q.exec = r.exec /\ q.result = r.result
      /\ q.lease = "lapsed" /\ q.accepted = r.accepted
  BY DEF Row
<1>. QED
  BY <1>1, <1>2 DEF CheckConstraints

\* A new row is well formed.
LEMMA FreshRow ==
  ASSUME NEW st \in {"absent", "queued"}, NEW dl \in {"none", "ahead"},
         NEW e \in Execs \cup {NoExec}, NEW k \in Keys \cup {NoKey}
  PROVE  /\ NewRow(st, dl, e, k) \in Row
         /\ NewRow(st, dl, e, k).state = st
         /\ NewRow(st, dl, e, k).exec = e
         /\ NewRow(st, dl, e, k).result = NoResult
         /\ CheckConstraints(NewRow(st, dl, e, k))
<1>1. NewRow(st, dl, e, k) \in Row
  BY DEF NewRow, Row, Pending
<1>. QED
  BY <1>1 DEF NewRow, CheckConstraints

-----------------------------------------------------------------------------
(* The inductive invariant *)

\* A step that neither creates rows nor claims one, and leaves terminal rows
\* terminal, keeps the order in which rows were claimed.
LEMMA OrderKept ==
  ASSUME TypeOK, Admitted, AbsentUntouched, ClaimedExists, ClaimedInOrder,
         next' = next,
         \A c \in Cmds : rows'[c].exec = rows[c].exec,
         \A c \in Cmds : rows'[c].state = "absent" <=> rows[c].state = "absent",
         \A c \in Cmds : rows[c].state \in Terminal => rows'[c].state \in Terminal,
         \A c \in Cmds : Claimed(c)' => Claimed(c),
         \A w \in Workers : \A c \in sweep'[w] : c \in Cmds /\ rows[c].state # "absent"
  PROVE  Admitted' /\ AbsentUntouched' /\ ClaimedExists' /\ ClaimedInOrder'
<1>1. Admitted'
  BY DEF Admitted
<1>2. AbsentUntouched'
  BY DEF AbsentUntouched
<1>3. ClaimedExists'
  BY DEF ClaimedExists
<1>4. ClaimedInOrder'
  BY DEF ClaimedInOrder, Plain
<1>. QED
  BY <1>1, <1>2, <1>3, <1>4

\* Enqueueing: the new rows come after every row of their devices, so nothing
\* claimed waits behind them.
LEMMA EnqueueKeeps ==
  ASSUME IInv,
         NEW targets \in SUBSET Devices, NEW dl \in {"none", "ahead"},
         NEW e \in Execs \cup {NoExec}, NEW k \in Keys \cup {NoKey},
         EnqueueRows(targets, dl, e, k),
         UNCHANGED <<execs, loops, world, crashes, drops>>
  PROVE  IInv'
<1>. DEFINE new == NewRow("queued", dl, e, k)
<1>1. new \in Row /\ new.state = "queued" /\ new.exec = e /\ CheckConstraints(new)
  BY FreshRow
<1>2. \A c \in Cmds : \/ rows'[c] = rows[c]
                      \/ /\ rows[c].state = "absent"
                         /\ rows'[c] = new
  BY DEF EnqueueRows, IInv, Admitted, TypeOK, Cmds, DeviceOf, SequenceOf
<1>3. TypeOK'
  BY <1>1, BoundsAssumption DEF IInv, TypeOK, EnqueueRows, loops, world
<1>4. ChecksHold'
  BY <1>1, <1>2 DEF IInv, ChecksHold
<1>5. LoopsHoldJobs'
  BY DEF IInv, LoopsHoldJobs, loops
<1>6. Admitted'
  <2>. SUFFICES ASSUME NEW c \in Cmds
                PROVE  rows'[c].state # "absent" <=> SequenceOf(c) < next'[DeviceOf(c)]
    BY DEF Admitted
  <2>1. DeviceOf(c) \in Devices /\ SequenceOf(c) \in Nat
    BY BoundsAssumption DEF Cmds, DeviceOf, SequenceOf
  <2>2. next[DeviceOf(c)] \in Nat
    BY <2>1, BoundsAssumption DEF IInv, TypeOK
  <2>3. rows[c].state # "absent" <=> SequenceOf(c) < next[DeviceOf(c)]
    BY DEF IInv, Admitted
  <2>4. CASE DeviceOf(c) \in targets
    <3>1. next'[DeviceOf(c)] = next[DeviceOf(c)] + 1
      BY <2>1, <2>4 DEF EnqueueRows
    <3>2. rows'[c] = IF SequenceOf(c) = next[DeviceOf(c)] THEN new ELSE rows[c]
      BY <2>4 DEF EnqueueRows
    <3>. QED
      BY <1>1, <2>1, <2>2, <2>3, <3>1, <3>2
  <2>5. CASE DeviceOf(c) \notin targets
    <3>1. next'[DeviceOf(c)] = next[DeviceOf(c)] /\ rows'[c] = rows[c]
      BY <2>1, <2>5 DEF EnqueueRows
    <3>. QED
      BY <2>3, <3>1
  <2>. QED
    BY <2>4, <2>5
<1>7. AbsentUntouched'
  BY <1>1, <1>2 DEF IInv, AbsentUntouched, TypeOK, loops
<1>8. \A c \in Cmds : Claimed(c)' => Claimed(c)
  BY <1>1, <1>2 DEF Claimed, loops, world
<1>9. ClaimedExists'
  BY <1>1, <1>2, <1>8 DEF IInv, ClaimedExists
<1>10. ClaimedInOrder'
  <2>. SUFFICES ASSUME NEW b \in Cmds, NEW c \in Cmds, Earlier(b, c), Plain(b)', Claimed(c)'
                PROVE  rows'[b].state \in Terminal
    BY DEF ClaimedInOrder
  <2>1. Claimed(c) /\ rows[c].state # "absent"
    BY <1>8 DEF IInv, ClaimedExists
  <2>2. rows[b].state # "absent"
    BY <2>1 DEF IInv, Admitted, Earlier, TypeOK, Cmds, DeviceOf, SequenceOf
  <2>. QED
    BY <1>2, <2>1, <2>2 DEF IInv, ClaimedInOrder, Plain
<1>11. PublishedFirst'
  BY DEF IInv, PublishedFirst, loops, world
<1>12. AcceptedWasPublished'
  BY <1>1, <1>2 DEF IInv, AcceptedWasPublished, world
<1>. QED
  BY <1>3, <1>4, <1>5, <1>6, <1>7, <1>9, <1>10, <1>11, <1>12 DEF IInv

\* A write of one existing row by a step that claims nothing new: the queue's
\* own columns stay consistent and the claims stay in order.
LEMMA RowWritten ==
  ASSUME IInv, TypeOK', NEW c \in Cmds, NEW q \in Row,
         rows' = [rows EXCEPT ![c] = q], next' = next,
         q.exec = rows[c].exec,
         q.state = "absent" <=> rows[c].state = "absent",
         rows[c].state \in Terminal => q.state \in Terminal,
         CheckConstraints(rows[c]) => CheckConstraints(q),
         q.state \in {"leased", "broker_accepted", "device_completed"} => Claimed(c),
         q.state \in {"broker_accepted", "device_completed"} => c \in published,
         \A x \in published' : x \in published,
         \A w \in Workers : job'[w] = job[w] \/ job'[w] \notin Cmds,
         \A w \in Workers : sweep'[w] \subseteq sweep[w]
  PROVE  /\ ChecksHold' /\ Admitted' /\ AbsentUntouched' /\ ClaimedExists' /\ ClaimedInOrder'
         /\ published' = published => AcceptedWasPublished'
<1>1. rows'[c] = q /\ \A x \in Cmds : x # c => rows'[x] = rows[x]
  BY DEF IInv, TypeOK
<1>2. ChecksHold'
  BY <1>1 DEF IInv, ChecksHold
<1>3. \A x \in Cmds : Claimed(x)' => Claimed(x)
  <2>. SUFFICES ASSUME NEW x \in Cmds, Claimed(x)' PROVE Claimed(x)
    OBVIOUS
  <2>1. CASE rows'[x].state \in {"leased", "broker_accepted", "device_completed"}
    BY <1>1, <2>1 DEF Claimed
  <2>2. CASE x \in published'
    BY <2>2 DEF Claimed
  <2>3. CASE \E w \in Workers : job'[w] = x
    BY <2>3 DEF Claimed
  <2>. QED
    BY <2>1, <2>2, <2>3 DEF Claimed
<1>4. \A w \in Workers : \A x \in sweep'[w] : x \in Cmds /\ rows[x].state # "absent"
  BY DEF IInv, TypeOK, AbsentUntouched
<1>5. /\ \A x \in Cmds : rows'[x].exec = rows[x].exec
      /\ \A x \in Cmds : rows'[x].state = "absent" <=> rows[x].state = "absent"
      /\ \A x \in Cmds : rows[x].state \in Terminal => rows'[x].state \in Terminal
  BY <1>1
<1>6. Admitted' /\ AbsentUntouched' /\ ClaimedExists' /\ ClaimedInOrder'
  BY <1>3, <1>4, <1>5, OrderKept DEF IInv
<1>7. published' = published => AcceptedWasPublished'
  BY <1>1 DEF IInv, AcceptedWasPublished
<1>. QED
  BY <1>2, <1>6, <1>7

\* A step that writes no row and claims none.
LEMMA RowsUntouched ==
  ASSUME IInv, next' = next, rows' = rows,
         \A x \in published' : Claimed(x),
         published \subseteq published',
         \A w \in Workers : job'[w] = job[w] \/ job'[w] \notin Cmds,
         \A w \in Workers : sweep'[w] \subseteq {x \in Cmds : rows[x].state # "absent"}
  PROVE  /\ ChecksHold' /\ Admitted' /\ AbsentUntouched' /\ ClaimedExists' /\ ClaimedInOrder'
         /\ AcceptedWasPublished'
<1>1. \A x \in Cmds : Claimed(x)' => Claimed(x)
  BY DEF Claimed
<1>2. Admitted' /\ AbsentUntouched' /\ ClaimedExists' /\ ClaimedInOrder'
  BY <1>1, OrderKept DEF IInv
<1>. QED
  BY <1>2 DEF IInv, ChecksHold, AcceptedWasPublished

\* The API's steps keep the invariant.
LEMMA ApiKeeps == IInv /\ ApiStep => IInv'
<1>. SUFFICES ASSUME IInv, ApiStep PROVE IInv'
  OBVIOUS
<1>1. ASSUME NEW targets \in SUBSET Devices, NEW t \in {"none", "ahead"},
             EnqueueBatch(targets, t)
      PROVE  IInv'
  BY <1>1, EnqueueKeeps DEF EnqueueBatch
<1>2. ASSUME NEW e \in Execs, NEW k \in Keys \cup {NoKey}, EnqueueDebugCommand(e, k)
      PROVE  IInv'
  <2>1. {ExecDevice[e]} \in SUBSET Devices
    BY ExecAssumption
  <2>. QED
    BY <1>2, <2>1, EnqueueKeeps DEF EnqueueDebugCommand
<1>3. ASSUME NEW c \in Cmds, RequestDebugCommandCancellation(c) PROVE IInv'
  <2>. DEFINE q == Cancelled(rows[c])
  <2>1. rows[c] \in Row /\ rows' = [rows EXCEPT ![c] = q] /\ rows[c].state \in Pending
    BY <1>3 DEF IInv, TypeOK, RequestDebugCommandCancellation
  <2>2. /\ q \in Row /\ q.exec = rows[c].exec
        /\ q.state = IF rows[c].state = "queued" THEN "delivery_failed" ELSE rows[c].state
        /\ CheckConstraints(rows[c]) => CheckConstraints(q)
    BY <2>1, CancelledRow
  <2>3. UNCHANGED <<next, execs, loops, world, crashes, drops>>
    BY <1>3 DEF RequestDebugCommandCancellation
  <2>4. TypeOK'
    BY <2>1, <2>2, <2>3 DEF IInv, TypeOK, loops, world
  <2>5. /\ q.state \in {"leased", "broker_accepted", "device_completed"} => Claimed(c)
        /\ q.state \in {"broker_accepted", "device_completed"} => c \in published
        /\ q.state # "absent" /\ rows[c].state # "absent" /\ rows[c].state \notin Terminal
    BY <2>1, <2>2 DEF Claimed, Pending, Terminal, IInv, AcceptedWasPublished
  <2>6. /\ ChecksHold' /\ Admitted' /\ AbsentUntouched' /\ ClaimedExists' /\ ClaimedInOrder'
        /\ AcceptedWasPublished'
    BY <2>1, <2>2, <2>3, <2>4, <2>5, RowWritten DEF loops, world
  <2>7. LoopsHoldJobs' /\ PublishedFirst'
    BY <2>3 DEF IInv, LoopsHoldJobs, PublishedFirst, loops, world
  <2>. QED
    BY <2>4, <2>6, <2>7 DEF IInv
<1>4. ASSUME NEW e \in Execs, NEW x \in ExecStates, ExecutionChanges(e, x) PROVE IInv'
  <2>1. UNCHANGED <<next, rows, loops, world, crashes, drops>>
    BY <1>4 DEF ExecutionChanges
  <2>2. TypeOK'
    BY <1>4, <2>1 DEF IInv, TypeOK, ExecutionChanges, loops, world
  <2>3. /\ ChecksHold' /\ LoopsHoldJobs' /\ Admitted' /\ AbsentUntouched' /\ PublishedFirst'
        /\ AcceptedWasPublished'
    BY <2>1 DEF IInv, ChecksHold, LoopsHoldJobs, Admitted, AbsentUntouched, PublishedFirst,
                AcceptedWasPublished, loops, world
  <2>4. \A c \in Cmds : Claimed(c)' <=> Claimed(c)
    BY <2>1 DEF Claimed, loops, world
  <2>5. ClaimedExists' /\ ClaimedInOrder'
    BY <2>1, <2>4 DEF IInv, ClaimedExists, ClaimedInOrder, Plain
  <2>. QED
    BY <2>2, <2>3, <2>5 DEF IInv
<1>. QED
  BY <1>1, <1>2, <1>3, <1>4 DEF ApiStep

\* The expiry sweep, split between its snapshot and its write, keeps the
\* invariant: the CHECK constraints stop it from touching a completed row.
LEMMA SweepKeeps ==
  ASSUME IInv, NEW w \in Workers, SweepSelects(w) \/ SweepCommits(w) \/ SweepRejected(w)
  PROVE  IInv'
<1>1. CASE SweepSelects(w) \/ SweepRejected(w)
  <2>1. UNCHANGED <<tables, job, world, crashes, drops>>
    BY <1>1 DEF SweepSelects, SweepRejected
  <2>2. TypeOK'
    BY <1>1 DEF IInv, TypeOK, SweepSelects, SweepRejected, tables, world
  <2>3. \A v \in Workers : sweep'[v] \subseteq {x \in Cmds : rows[x].state # "absent"}
    BY <1>1 DEF IInv, TypeOK, AbsentUntouched, SweepSelects, SweepRejected, Expirable, Pending
  <2>4. \A x \in published : Claimed(x)
    BY DEF Claimed
  <2>5. /\ ChecksHold' /\ Admitted' /\ AbsentUntouched' /\ ClaimedExists' /\ ClaimedInOrder'
        /\ AcceptedWasPublished'
    BY <2>1, <2>3, <2>4, RowsUntouched DEF tables, world
  <2>6. LoopsHoldJobs' /\ PublishedFirst'
    BY <1>1, <2>1 DEF IInv, TypeOK, LoopsHoldJobs, PublishedFirst, SweepSelects, SweepRejected,
                      world
  <2>. QED
    BY <2>2, <2>5, <2>6 DEF IInv
<1>2. CASE SweepCommits(w)
  <2>1. UNCHANGED <<next, execs, job, world, crashes, drops>>
    BY <1>2 DEF SweepCommits
  <2>2. \A c \in Cmds : rows'[c] = IF c \in sweep[w] THEN Expired(rows[c]) ELSE rows[c]
    BY <1>2 DEF SweepCommits
  <2>3. \A c \in Cmds : /\ rows[c] \in Row
                        /\ Expired(rows[c]) \in Row
                        /\ Expired(rows[c]).state = "delivery_failed"
                        /\ Expired(rows[c]).exec = rows[c].exec
    BY ExpiredRow DEF IInv, TypeOK
  <2>4. TypeOK'
    BY <1>2, <2>1, <2>3 DEF IInv, TypeOK, SweepCommits, world
  <2>5. ChecksHold'
    BY <1>2, <2>2 DEF IInv, ChecksHold, SweepCommits
  <2>6. \A c \in Cmds : Claimed(c)' => Claimed(c)
    BY <2>1, <2>2, <2>3 DEF Claimed, world
  <2>7. \A v \in Workers : sweep'[v] \subseteq sweep[v]
    BY <1>2 DEF IInv, TypeOK, SweepCommits
  <2>8. \A v \in Workers : \A c \in sweep'[v] : c \in Cmds /\ rows[c].state # "absent"
    BY <2>7 DEF IInv, TypeOK, AbsentUntouched
  <2>9. /\ \A c \in Cmds : rows'[c].exec = rows[c].exec
        /\ \A c \in Cmds : rows'[c].state = "absent" <=> rows[c].state = "absent"
        /\ \A c \in Cmds : rows[c].state \in Terminal => rows'[c].state \in Terminal
    BY <2>2, <2>3 DEF IInv, AbsentUntouched, Terminal
  <2>10. Admitted' /\ AbsentUntouched' /\ ClaimedExists' /\ ClaimedInOrder'
    BY <2>1, <2>6, <2>8, <2>9, OrderKept DEF IInv
  <2>11. LoopsHoldJobs' /\ PublishedFirst'
    BY <1>2, <2>1 DEF IInv, TypeOK, LoopsHoldJobs, PublishedFirst, SweepCommits, world
  <2>12. AcceptedWasPublished'
    BY <2>1, <2>2, <2>3 DEF IInv, AcceptedWasPublished, world
  <2>. QED
    BY <2>4, <2>5, <2>10, <2>11, <2>12 DEF IInv
<1>. QED
  BY <1>1, <1>2

\* Leasing is where the order is decided: an eligible row has no earlier plain
\* row that is still pending, and rows never leave a terminal state.
LEMMA LeaseKeeps ==
  ASSUME IInv, NEW w \in Workers, NEW c \in Cmds, LeaseNext(w, c)
  PROVE  IInv'
<1>. DEFINE q == Leased(rows[c])
<1>1. /\ rows[c] \in Row /\ rows' = [rows EXCEPT ![c] = q]
      /\ rows[c].state \in {"queued", "leased"}
  BY DEF IInv, TypeOK, LeaseNext, Eligible
<1>2. /\ q \in Row /\ q.exec = rows[c].exec /\ q.state = "leased"
      /\ CheckConstraints(q)
  BY <1>1, LeasedRow DEF IInv, ChecksHold
<1>3. UNCHANGED <<next, execs, sweep, world, crashes, drops>>
  BY DEF LeaseNext
<1>4. TypeOK'
  BY <1>1, <1>2, <1>3 DEF IInv, TypeOK, LeaseNext, world
<1>5. rows'[c] = q /\ \A x \in Cmds : x # c => rows'[x] = rows[x]
  BY <1>1 DEF IInv, TypeOK
<1>6. ChecksHold' /\ AcceptedWasPublished'
  BY <1>2, <1>3, <1>5 DEF IInv, ChecksHold, AcceptedWasPublished, world
<1>7. LoopsHoldJobs' /\ PublishedFirst'
  BY <1>3 DEF IInv, TypeOK, LeaseNext, LoopsHoldJobs, PublishedFirst, world
<1>8. Admitted' /\ AbsentUntouched'
  BY <1>1, <1>2, <1>3, <1>5 DEF IInv, TypeOK, Admitted, AbsentUntouched
<1>9. \A x \in Cmds : x # c => (Claimed(x)' => Claimed(x))
  BY <1>3, <1>5 DEF Claimed, LeaseNext, IInv, TypeOK, world
<1>10. ClaimedExists'
  BY <1>2, <1>5, <1>9 DEF IInv, ClaimedExists
<1>11. ClaimedInOrder'
  <2>. SUFFICES ASSUME NEW b \in Cmds, NEW x \in Cmds, Earlier(b, x), Plain(b)', Claimed(x)'
                PROVE  rows'[b].state \in Terminal
    BY DEF ClaimedInOrder
  <2>1. Plain(b)
    BY <1>2, <1>5 DEF Plain
  <2>2. CASE x = c
    <3>1. b # c
      BY <2>2 DEF Earlier, Cmds, SequenceOf
    <3>2. ~Blocks(rows[b])
      BY <2>2 DEF LeaseNext, Eligible
    <3>3. rows[b].state \notin Pending
      BY <2>1, <3>2 DEF Blocks, ExecutionDead, Plain
    <3>4. rows[b].state # "absent"
      BY <2>2, <1>1 DEF IInv, Admitted, Earlier, TypeOK, Cmds, DeviceOf, SequenceOf
    <3>5. rows[b].state \in {"absent"} \cup Pending \cup Terminal
      BY DEF IInv, TypeOK, Row
    <3>. QED
      BY <1>5, <3>1, <3>3, <3>4, <3>5
  <2>3. CASE x # c
    <3>1. rows[b].state \in Terminal
      BY <2>1, <2>3, <1>9 DEF IInv, ClaimedInOrder
    <3>. QED
      BY <3>1, <1>1, <1>5 DEF Terminal
  <2>. QED
    BY <2>2, <2>3
<1>. QED
  BY <1>4, <1>6, <1>7, <1>8, <1>10, <1>11 DEF IInv

\* Deferring, marking and releasing write the loop's row only while it is
\* leased, whoever holds the lease by then.
LEMMA ConditionalWriteKeeps ==
  ASSUME IInv, NEW w \in Workers, DeferCommand(w) \/ MarkBrokerAccepted(w) \/ ReleaseLease(w)
  PROVE  IInv'
<1>. DEFINE c == job[w]
<1>1. c \in Cmds /\ rows[c] \in Row
  BY DEF IInv, TypeOK, LoopsHoldJobs, DeferCommand, MarkBrokerAccepted, ReleaseLease
<1>2. PICK q \in Row :
        /\ rows' = [rows EXCEPT ![c] = q]
        /\ q.exec = rows[c].exec
        /\ CheckConstraints(rows[c]) => CheckConstraints(q)
        /\ \/ q = rows[c]
           \/ rows[c].state = "leased" /\ q.state = "queued"
           \/ rows[c].state = "leased" /\ q.state = "broker_accepted" /\ pc[w] = "accept"
  <2>1. CASE rows[c].state = "leased"
    <3>1. CASE DeferCommand(w)
      BY <1>1, <2>1, <3>1, DeferredRow DEF DeferCommand, IfLeased
    <3>2. CASE MarkBrokerAccepted(w)
      BY <1>1, <2>1, <3>2, AcceptedRow DEF MarkBrokerAccepted, IfLeased
    <3>3. CASE ReleaseLease(w)
      BY <1>1, <2>1, <3>3, ReleasedRow DEF ReleaseLease, IfLeased
    <3>. QED
      BY <3>1, <3>2, <3>3
  <2>2. CASE rows[c].state # "leased"
    <3>1. rows' = [rows EXCEPT ![c] = rows[c]]
      BY <2>2 DEF DeferCommand, MarkBrokerAccepted, ReleaseLease, IfLeased
    <3>. QED
      BY <1>1, <3>1
  <2>. QED
    BY <2>1, <2>2
<1>3. CycleContinues(w)
  BY DEF DeferCommand, MarkBrokerAccepted, ReleaseLease
<1>4. TypeOK'
  BY <1>1, <1>2, <1>3 DEF IInv, TypeOK, CycleContinues, world
<1>5. /\ q.state = "absent" <=> rows[c].state = "absent"
      /\ rows[c].state \in Terminal => q.state \in Terminal
      /\ q.state \in {"leased", "broker_accepted", "device_completed"} => Claimed(c)
      /\ q.state \in {"broker_accepted", "device_completed"} => c \in published
  BY <1>1, <1>2 DEF Terminal, Claimed, IInv, PublishedFirst, AcceptedWasPublished
<1>6. /\ \A v \in Workers : job'[v] = job[v] \/ job'[v] \notin Cmds
      /\ UNCHANGED <<next, sweep, world>>
  BY <1>3, NullAssumption DEF IInv, TypeOK, CycleContinues, Cmds
<1>7. /\ ChecksHold' /\ Admitted' /\ AbsentUntouched' /\ ClaimedExists' /\ ClaimedInOrder'
      /\ AcceptedWasPublished'
  BY <1>1, <1>2, <1>4, <1>5, <1>6, RowWritten DEF world
<1>8. LoopsHoldJobs' /\ PublishedFirst'
  BY <1>3 DEF IInv, TypeOK, LoopsHoldJobs, PublishedFirst, CycleContinues, world
<1>. QED
  BY <1>4, <1>7, <1>8 DEF IInv

\* Routing, publishing, failing and crashing touch no row.
LEMMA PublishKeeps ==
  ASSUME IInv, NEW w \in Workers,
         \/ HandleLeasedCommand(w) \/ PublishToDevice(w) \/ PublishFails(w)
         \/ CycleFails(w) \/ BrokerCrashes(w)
  PROVE  IInv'
<1>. USE DEF tables, world
<1>1. TypeOK'
  <2>1. CASE HandleLeasedCommand(w)
    BY <2>1 DEF IInv, TypeOK, HandleLeasedCommand
  <2>2. CASE PublishToDevice(w)
    BY <2>2 DEF IInv, TypeOK, LoopsHoldJobs, PublishToDevice
  <2>3. CASE PublishFails(w)
    BY <2>3, BoundsAssumption DEF IInv, TypeOK, PublishFails
  <2>4. CASE CycleFails(w)
    BY <2>4, BoundsAssumption DEF IInv, TypeOK, CycleFails
  <2>5. CASE BrokerCrashes(w)
    BY <2>5, BoundsAssumption DEF IInv, TypeOK, BrokerCrashes
  <2>. QED
    BY <2>1, <2>2, <2>3, <2>4, <2>5
<1>2. UNCHANGED tables /\ published \subseteq published'
  BY DEF HandleLeasedCommand, PublishToDevice, PublishFails, CycleFails, BrokerCrashes
<1>3. \A x \in published' : Claimed(x)
  BY DEF IInv, TypeOK, LoopsHoldJobs, Claimed, HandleLeasedCommand, PublishToDevice, PublishFails,
         CycleFails, BrokerCrashes
<1>4. \A v \in Workers : job'[v] = job[v] \/ job'[v] \notin Cmds
  BY NullAssumption DEF IInv, TypeOK, Cmds, HandleLeasedCommand, PublishToDevice, PublishFails,
                        CycleFails, BrokerCrashes
<1>5. \A v \in Workers : sweep'[v] \subseteq {x \in Cmds : rows[x].state # "absent"}
  BY DEF IInv, TypeOK, AbsentUntouched, HandleLeasedCommand, PublishToDevice, PublishFails,
         CycleFails, BrokerCrashes
<1>6. /\ ChecksHold' /\ Admitted' /\ AbsentUntouched' /\ ClaimedExists' /\ ClaimedInOrder'
      /\ AcceptedWasPublished'
  BY <1>2, <1>3, <1>4, <1>5, RowsUntouched
<1>7. LoopsHoldJobs'
  BY DEF IInv, TypeOK, LoopsHoldJobs, HandleLeasedCommand, PublishToDevice, PublishFails,
         CycleFails, BrokerCrashes
<1>8. PublishedFirst'
  <2>1. CASE HandleLeasedCommand(w)
    BY <2>1 DEF IInv, TypeOK, PublishedFirst, HandleLeasedCommand
  <2>2. CASE PublishToDevice(w)
    BY <2>2 DEF IInv, TypeOK, PublishedFirst, PublishToDevice
  <2>3. CASE PublishFails(w) \/ CycleFails(w) \/ BrokerCrashes(w)
    BY <2>3 DEF IInv, TypeOK, PublishedFirst, PublishFails, CycleFails, BrokerCrashes
  <2>. QED
    BY <2>1, <2>2, <2>3
<1>. QED
  BY <1>1, <1>6, <1>7, <1>8 DEF IInv

\* The clock moves one timestamp of one row.
LEMMA ClockKeeps ==
  ASSUME IInv, NEW c \in Cmds, ClockStep(c)
  PROVE  IInv'
<1>1. rows[c] \in Row /\ CheckConstraints(rows[c])
  BY DEF IInv, TypeOK, ChecksHold
<1>2. PICK q \in Row :
        /\ rows' = [rows EXCEPT ![c] = q]
        /\ q.state = rows[c].state /\ q.exec = rows[c].exec
        /\ CheckConstraints(q)
  <2>1. CASE DeadlinePasses(c)
    BY <1>1, <2>1, ClockRow DEF DeadlinePasses, IInv, TypeOK
  <2>2. CASE LeaseLapses(c)
    BY <1>1, <2>2, LapsedRow DEF LeaseLapses, IInv, TypeOK
  <2>3. CASE RetryDelayPasses(c)
    BY <1>1, <2>3, ClockRow DEF RetryDelayPasses, IInv, TypeOK
  <2>. QED
    BY <2>1, <2>2, <2>3 DEF ClockStep
<1>3. UNCHANGED <<next, execs, loops, world, crashes, drops>>
  BY DEF ClockStep, DeadlinePasses, LeaseLapses, RetryDelayPasses
<1>4. TypeOK'
  BY <1>2, <1>3 DEF IInv, TypeOK, loops, world
<1>5. /\ q.state \in {"leased", "broker_accepted", "device_completed"} => Claimed(c)
      /\ q.state \in {"broker_accepted", "device_completed"} => c \in published
  BY <1>2 DEF Claimed, IInv, AcceptedWasPublished
<1>6. /\ ChecksHold' /\ Admitted' /\ AbsentUntouched' /\ ClaimedExists' /\ ClaimedInOrder'
      /\ AcceptedWasPublished'
  BY <1>1, <1>2, <1>3, <1>4, <1>5, RowWritten DEF loops, world
<1>7. LoopsHoldJobs' /\ PublishedFirst'
  BY <1>3 DEF IInv, LoopsHoldJobs, PublishedFirst, loops, world
<1>. QED
  BY <1>4, <1>6, <1>7 DEF IInv

\* Devices come and go, and run only what was published to them.
LEMMA DeviceKeeps ==
  ASSUME IInv,
         \/ \E d \in Devices : DeviceStep(d)
         \/ \E c \in Cmds, r \in Results : DeviceExecutes(c, r)
  PROVE  IInv'
<1>. USE DEF tables, loops
<1>1. /\ UNCHANGED <<tables, loops, published>>
      /\ inbox' \subseteq inbox
      /\ \A c \in Cmds, r \in Results :
           <<c, r>> \in uplink' => <<c, r>> \in uplink \/ c \in inbox
  BY DEF DeviceStep, DeviceConnects, DeviceSubscribes, DeviceDisconnects, DeviceReboots,
         DeviceExecutes
<1>2. TypeOK'
  <2>1. CASE \E d \in Devices : DeviceStep(d)
    BY <2>1, BoundsAssumption
       DEF IInv, TypeOK, DeviceStep, DeviceConnects, DeviceSubscribes, DeviceDisconnects,
           DeviceReboots
  <2>2. CASE \E c \in Cmds, r \in Results : DeviceExecutes(c, r)
    BY <2>2 DEF IInv, TypeOK, DeviceExecutes
  <2>. QED
    BY <2>1, <2>2
<1>3. /\ \A x \in published' : Claimed(x)
      /\ \A v \in Workers : sweep'[v] \subseteq {x \in Cmds : rows[x].state # "absent"}
  BY <1>1 DEF IInv, TypeOK, AbsentUntouched, Claimed
<1>4. /\ ChecksHold' /\ Admitted' /\ AbsentUntouched' /\ ClaimedExists' /\ ClaimedInOrder'
      /\ AcceptedWasPublished'
  BY <1>1, <1>3, RowsUntouched
<1>5. LoopsHoldJobs' /\ PublishedFirst'
  BY <1>1 DEF IInv, LoopsHoldJobs, PublishedFirst
<1>. QED
  BY <1>2, <1>4, <1>5 DEF IInv

\* A result completes a row whose command was published, in whatever pending
\* state the row is.
LEMMA ResultKeeps ==
  ASSUME IInv, NEW c \in Cmds, NEW r \in Results,
         RecordDeviceResult(c, r) \/ AcknowledgementLost(c, r)
  PROVE  IInv'
<1>. DEFINE q == Recorded(rows[c], r)
<1>1. rows[c] \in Row /\ rows' = [rows EXCEPT ![c] = q]
  BY DEF IInv, TypeOK, RecordDeviceResult, AcknowledgementLost
<1>2. /\ q \in Row /\ q.exec = rows[c].exec
      /\ q.state = IF rows[c].state \in Pending THEN "device_completed" ELSE rows[c].state
      /\ CheckConstraints(rows[c]) => CheckConstraints(q)
  BY <1>1, RecordedRow
<1>3. c \in published
  BY DEF IInv, PublishedFirst, RecordDeviceResult, AcknowledgementLost
<1>4. UNCHANGED <<next, execs, loops, conn, subscribed, inbox, published, crashes>>
  BY DEF RecordDeviceResult, AcknowledgementLost, world
<1>5. uplink' \subseteq uplink /\ drops' \in 0..MaxDrops
  BY BoundsAssumption DEF IInv, TypeOK, RecordDeviceResult, AcknowledgementLost, world
<1>6. TypeOK'
  BY <1>1, <1>2, <1>4, <1>5 DEF IInv, TypeOK, loops
<1>7. /\ q.state = "absent" <=> rows[c].state = "absent"
      /\ rows[c].state \in Terminal => q.state \in Terminal
      /\ Claimed(c)
  BY <1>2, <1>3 DEF Pending, Terminal, Claimed
<1>8. /\ ChecksHold' /\ Admitted' /\ AbsentUntouched' /\ ClaimedExists' /\ ClaimedInOrder'
      /\ AcceptedWasPublished'
  BY <1>1, <1>2, <1>3, <1>4, <1>6, <1>7, RowWritten DEF loops
<1>9. LoopsHoldJobs' /\ PublishedFirst'
  BY <1>4, <1>5 DEF IInv, LoopsHoldJobs, PublishedFirst, loops
<1>. QED
  BY <1>6, <1>8, <1>9 DEF IInv

\* The invariant holds at the start.
LEMMA InitKeeps == Init => IInv
<1>. SUFFICES ASSUME Init PROVE IInv
  OBVIOUS
<1>. DEFINE none == NewRow("absent", "none", NoExec, NoKey)
<1>1. none \in Row /\ none.state = "absent" /\ none.exec = NoExec /\ CheckConstraints(none)
  BY FreshRow
<1>2. \A c \in Cmds : rows[c] = none
  BY DEF Init
<1>3. TypeOK
  BY <1>1, BoundsAssumption DEF Init, TypeOK, ExecStates
<1>4. ChecksHold /\ AcceptedWasPublished
  BY <1>1, <1>2 DEF ChecksHold, AcceptedWasPublished
<1>5. LoopsHoldJobs /\ PublishedFirst
  BY DEF Init, LoopsHoldJobs, PublishedFirst
<1>6. Admitted /\ AbsentUntouched
  BY <1>1, <1>2 DEF Init, Admitted, AbsentUntouched, Cmds, SequenceOf, DeviceOf
<1>7. \A c \in Cmds : ~Claimed(c)
  BY <1>1, <1>2, NullAssumption DEF Init, Claimed, Cmds
<1>. QED
  BY <1>3, <1>4, <1>5, <1>6, <1>7 DEF IInv, ClaimedExists, ClaimedInOrder

\* Every step of the queue keeps the invariant.
LEMMA NextKeeps == IInv /\ [Next]_vars => IInv'
<1>. SUFFICES ASSUME IInv, [Next]_vars PROVE IInv'
  OBVIOUS
<1>1. CASE ApiStep
  BY <1>1, ApiKeeps
<1>2. ASSUME NEW w \in Workers, LoopStep(w) PROVE IInv'
  <2>1. CASE SweepSelects(w) \/ SweepCommits(w) \/ SweepRejected(w)
    BY <2>1, SweepKeeps
  <2>2. CASE \E c \in Cmds : LeaseNext(w, c)
    BY <2>2, LeaseKeeps
  <2>3. CASE DeferCommand(w) \/ MarkBrokerAccepted(w) \/ ReleaseLease(w)
    BY <2>3, ConditionalWriteKeeps
  <2>4. CASE \/ HandleLeasedCommand(w) \/ PublishToDevice(w) \/ PublishFails(w)
             \/ CycleFails(w) \/ BrokerCrashes(w)
    BY <2>4, PublishKeeps
  <2>. QED
    BY <1>2, <2>1, <2>2, <2>3, <2>4 DEF LoopStep
<1>3. CASE \E c \in Cmds : ClockStep(c)
  BY <1>3, ClockKeeps
<1>4. CASE \E d \in Devices : DeviceStep(d)
  BY <1>4, DeviceKeeps
<1>5. ASSUME NEW c \in Cmds, NEW r \in Results, ResultStep(c, r) PROVE IInv'
  <2>1. CASE DeviceExecutes(c, r)
    BY <2>1, DeviceKeeps
  <2>2. CASE RecordDeviceResult(c, r) \/ AcknowledgementLost(c, r)
    BY <2>2, ResultKeeps
  <2>. QED
    BY <1>5, <2>1, <2>2 DEF ResultStep
<1>6. CASE UNCHANGED vars
  <2>1. UNCHANGED <<next, rows, execs, pc, job, sweep, conn, subscribed, inbox, uplink,
                    published, crashes, drops>>
    BY <1>6 DEF vars, tables, loops, world
  <2>2. \A c \in Cmds : Claimed(c)' <=> Claimed(c)
    BY <2>1 DEF Claimed
  <2>3. ClaimedExists' /\ ClaimedInOrder'
    BY <2>1, <2>2 DEF IInv, ClaimedExists, ClaimedInOrder, Plain
  <2>4. /\ TypeOK' /\ ChecksHold' /\ LoopsHoldJobs' /\ Admitted' /\ AbsentUntouched'
        /\ PublishedFirst' /\ AcceptedWasPublished'
    BY <2>1 DEF IInv, TypeOK, ChecksHold, LoopsHoldJobs, Admitted, AbsentUntouched,
                PublishedFirst, AcceptedWasPublished
  <2>. QED
    BY <2>3, <2>4 DEF IInv
<1>. QED
  BY <1>1, <1>2, <1>3, <1>4, <1>5, <1>6 DEF Next

\* The inductive invariant is an invariant of the queue.
THEOREM Invariant == Spec => []IInv
  BY InitKeeps, NextKeeps, PTL DEF Spec

\* Every variable of the queue keeps its type.
THEOREM TypeCorrect == Spec => []TypeOK
<1>1. IInv => TypeOK
  BY DEF IInv
<1>. QED
  BY <1>1, Invariant, PTL

\* Per-device delivery order: once a command has been handed to MQTT, every
\* earlier plain command of its device is completed or failed.
THEOREM OrderedPublication == Spec => []PublishedInOrder
<1>1. IInv => PublishedInOrder
  BY DEF IInv, ClaimedInOrder, Claimed, PublishedInOrder
<1>. QED
  BY <1>1, Invariant, PTL

\* A row is marked accepted, or completed, only for a command that was
\* published.
THEOREM AcceptanceIsPublication == Spec => []AcceptedWasPublished
<1>1. IInv => AcceptedWasPublished
  BY DEF IInv
<1>. QED
  BY <1>1, Invariant, PTL

\* The columns of every row satisfy the table's CHECK constraints.
THEOREM ConstraintsKept == Spec => []ChecksHold
<1>1. IInv => ChecksHold
  BY DEF IInv
<1>. QED
  BY <1>1, Invariant, PTL

-----------------------------------------------------------------------------
(* Terminal rows *)

\* A row as a step may leave it: a terminal one keeps its state and its result.
Frozen(r, q) == r.state \in Terminal => q.state = r.state /\ q.result = r.result

\* A completed row fails the CHECK constraints once expired, and a failed one
\* has nothing left to lose: the sweep's blind write freezes both.
LEMMA SweepFreezes ==
  ASSUME IInv, NEW c \in Cmds, CheckConstraints(Expired(rows[c]))
  PROVE  Frozen(rows[c], Expired(rows[c]))
<1>1. rows[c] \in Row /\ CheckConstraints(rows[c])
  BY DEF IInv, TypeOK, ChecksHold
<1>2. /\ Expired(rows[c]).state = "delivery_failed"
      /\ Expired(rows[c]).result = rows[c].result
  BY <1>1, ExpiredRow
<1>3. rows[c].state # "device_completed"
  BY <1>1, <1>2 DEF CheckConstraints
<1>. QED
  BY <1>2, <1>3 DEF Frozen, Terminal

\* Every step of the queue leaves every terminal row as it was.
LEMMA NextFreezes ==
  ASSUME IInv, Next, NEW c \in Cmds
  PROVE  Frozen(rows[c], rows'[c])
<1>. rows[c] \in Row
  BY DEF IInv, TypeOK
<1>1. ASSUME NEW targets \in SUBSET Devices, NEW dl \in {"none", "ahead"},
             NEW e \in Execs \cup {NoExec}, NEW k \in Keys \cup {NoKey},
             EnqueueRows(targets, dl, e, k)
      PROVE  Frozen(rows[c], rows'[c])
  <2>1. rows'[c] = rows[c] \/ rows[c].state = "absent"
    BY <1>1 DEF EnqueueRows, IInv, Admitted, TypeOK, Cmds, DeviceOf, SequenceOf
  <2>. QED
    BY <2>1 DEF Frozen, Terminal
<1>2. CASE ApiStep
  <2>1. ASSUME NEW targets \in SUBSET Devices, NEW t \in {"none", "ahead"},
               EnqueueBatch(targets, t)
        PROVE  Frozen(rows[c], rows'[c])
    BY <1>1, <2>1 DEF EnqueueBatch
  <2>2. ASSUME NEW e \in Execs, NEW k \in Keys \cup {NoKey}, EnqueueDebugCommand(e, k)
        PROVE  Frozen(rows[c], rows'[c])
    <3>1. {ExecDevice[e]} \in SUBSET Devices
      BY ExecAssumption
    <3>. QED
      BY <1>1, <2>2, <3>1 DEF EnqueueDebugCommand
  <2>3. ASSUME NEW b \in Cmds, RequestDebugCommandCancellation(b)
        PROVE  Frozen(rows[c], rows'[c])
    BY <2>3 DEF RequestDebugCommandCancellation, Frozen, Pending, Terminal, IInv, TypeOK
  <2>4. ASSUME NEW e \in Execs, NEW s \in ExecStates, ExecutionChanges(e, s)
        PROVE  Frozen(rows[c], rows'[c])
    BY <2>4 DEF ExecutionChanges, Frozen
  <2>. QED
    BY <1>2, <2>1, <2>2, <2>3, <2>4 DEF ApiStep
<1>3. ASSUME NEW w \in Workers, LoopStep(w) PROVE Frozen(rows[c], rows'[c])
  <2>1. CASE SweepCommits(w)
    <3>1. CASE c \in sweep[w]
      <4>1. rows'[c] = Expired(rows[c]) /\ CheckConstraints(Expired(rows[c]))
        BY <2>1, <3>1 DEF SweepCommits
      <4>. QED
        BY <4>1, SweepFreezes
    <3>2. CASE c \notin sweep[w]
      BY <2>1, <3>2 DEF SweepCommits, Frozen
    <3>. QED
      BY <3>1, <3>2
  <2>2. ASSUME NEW b \in Cmds, LeaseNext(w, b) PROVE Frozen(rows[c], rows'[c])
    BY <2>2 DEF LeaseNext, Eligible, Frozen, Terminal, IInv, TypeOK
  <2>3. CASE DeferCommand(w) \/ MarkBrokerAccepted(w) \/ ReleaseLease(w)
    <3>1. rows'[c] = rows[c] \/ rows[c].state = "leased"
      BY <2>3 DEF DeferCommand, MarkBrokerAccepted, ReleaseLease, IfLeased, IInv, TypeOK
    <3>. QED
      BY <3>1 DEF Frozen, Terminal
  <2>4. CASE \/ SweepSelects(w) \/ SweepRejected(w) \/ HandleLeasedCommand(w)
             \/ PublishToDevice(w) \/ PublishFails(w) \/ CycleFails(w) \/ BrokerCrashes(w)
    <3>1. rows' = rows
      BY <2>4 DEF SweepSelects, SweepRejected, HandleLeasedCommand, PublishToDevice,
                  PublishFails, CycleFails, BrokerCrashes, tables
    <3>. QED
      BY <3>1 DEF Frozen
  <2>. QED
    BY <1>3, <2>1, <2>2, <2>3, <2>4 DEF LoopStep
<1>4. ASSUME NEW b \in Cmds, ClockStep(b) PROVE Frozen(rows[c], rows'[c])
  <2>1. rows[b] \in Row
    BY DEF IInv, TypeOK
  <2>2. PICK q \in Row : /\ rows' = [rows EXCEPT ![b] = q]
                         /\ q.state = rows[b].state /\ q.result = rows[b].result
    <3>1. CASE DeadlinePasses(b)
      BY <2>1, <3>1, ClockRow DEF DeadlinePasses, IInv, TypeOK
    <3>2. CASE LeaseLapses(b)
      BY <2>1, <3>2, LapsedRow DEF LeaseLapses, IInv, TypeOK
    <3>3. CASE RetryDelayPasses(b)
      BY <2>1, <3>3, ClockRow DEF RetryDelayPasses, IInv, TypeOK
    <3>. QED
      BY <1>4, <3>1, <3>2, <3>3 DEF ClockStep
  <2>. QED
    BY <2>2 DEF Frozen, IInv, TypeOK
<1>5. ASSUME NEW d \in Devices, DeviceStep(d) PROVE Frozen(rows[c], rows'[c])
  <2>1. rows' = rows
    BY <1>5 DEF DeviceStep, DeviceConnects, DeviceSubscribes, DeviceDisconnects, DeviceReboots,
                tables
  <2>. QED
    BY <2>1 DEF Frozen
<1>6. ASSUME NEW b \in Cmds, NEW r \in Results, ResultStep(b, r)
      PROVE  Frozen(rows[c], rows'[c])
  <2>1. CASE DeviceExecutes(b, r)
    BY <2>1 DEF DeviceExecutes, tables, Frozen
  <2>2. CASE RecordDeviceResult(b, r) \/ AcknowledgementLost(b, r)
    <3>1. rows'[c] = rows[c] \/ (b = c /\ rows'[c] = Recorded(rows[c], r))
      BY <2>2 DEF RecordDeviceResult, AcknowledgementLost, IInv, TypeOK
    <3>2. rows[c].state \in Terminal => rows[c].state \notin Pending
      BY DEF Pending, Terminal
    <3>. QED
      BY <3>1, <3>2, RecordedRow DEF Frozen
  <2>. QED
    BY <1>6, <2>1, <2>2 DEF ResultStep
<1>. QED
  BY <1>2, <1>3, <1>4, <1>5, <1>6 DEF Next

\* Completion and failure are final: no stale sweep, no late mark, release or
\* deferral by a loop that lost its lease, and no second result ever changes
\* the state or the result of a terminal row.
THEOREM TerminalForGood == Spec => TerminalRowsFrozen
<1>1. IInv /\ [Next]_vars =>
        [\A c \in Cmds : rows[c].state \in Terminal =>
           /\ rows'[c].state = rows[c].state
           /\ rows'[c].result = rows[c].result]_rows
  BY NextFreezes DEF Frozen, vars, tables
<1>. QED
  BY <1>1, Invariant, PTL DEF Spec, TerminalRowsFrozen

-----------------------------------------------------------------------------
(* The command queue implements OrderedDelivery, and idempotency keys name *)
(* one command.  Both rest on one lemma: whatever transaction ran, the     *)
(* table saw an enqueue, a publication, one completion, some failures, or  *)
(* nothing an observer of phases, executions, keys and results can tell.   *)

\* The columns no statement but the INSERT writes.
SameOwner(r, q) == q.exec = r.exec /\ q.key = r.key

\* Leases, clocks and retries: nothing the promise speaks of.
Quiet(r, q) == SameOwner(r, q) /\ q.result = r.result /\ Phase(q) = Phase(r)

AllQuiet == \A c \in Cmds : Quiet(rows[c], rows'[c])

\* An enqueue; a keyed one found no row of its execution with that key.
Enqueues ==
  \E targets \in SUBSET Devices, dl \in {"none", "ahead"},
     e \in Execs \cup {NoExec}, k \in Keys \cup {NoKey} :
    /\ EnqueueRows(targets, dl, e, k)
    /\ e # NoExec => \E d \in Devices : targets = {d}
    /\ e # NoExec /\ k # NoKey => \A c \in Cmds : rows[c].exec = e => rows[c].key # k
    /\ published' = published

Publishes == AllQuiet /\ \E c \in Cmds : Claimed(c) /\ published' = published \cup {c}

Completes ==
  /\ \E c \in published, x \in Results :
       /\ c \in Cmds
       /\ Phase(rows[c]) = "open" /\ Phase(rows'[c]) = "done"
       /\ rows'[c].result = x
       /\ SameOwner(rows[c], rows'[c])
       /\ \A b \in Cmds : b # c => rows'[b] = rows[b]
  /\ published' = published

Fails ==
  /\ \A c \in Cmds :
       /\ SameOwner(rows[c], rows'[c]) /\ rows'[c].result = rows[c].result
       /\ \/ Phase(rows'[c]) = Phase(rows[c])
          \/ Phase(rows[c]) = "open" /\ Phase(rows'[c]) = "failed"
  /\ published' = published

-----------------------------------------------------------------------------
(* Rows, as an observer of the promise sees them *)

\* The phase of a row by its state.
LEMMA Phases ==
  ASSUME NEW r \in Row
  PROVE  /\ Phase(r) = "open" <=> r.state \in Pending
         /\ Phase(r) = "done" <=> r.state = "device_completed"
         /\ Phase(r) = "failed" <=> r.state = "delivery_failed"
         /\ Phase(r) = "absent" <=> r.state = "absent"
<1>1. r.state \in {"absent"} \cup Pending \cup Terminal
  BY DEF Row
<1>2. CASE r.state = "absent"
  <2>1. Phase(r) = "absent"
    BY <1>2 DEF Phase, Pending
  <2>. QED
    BY <1>2, <2>1 DEF Pending
<1>3. CASE r.state \in Pending
  <2>1. Phase(r) = "open"
    BY <1>3 DEF Phase, Pending
  <2>. QED
    BY <1>3, <2>1 DEF Pending
<1>4. CASE r.state = "device_completed"
  <2>1. Phase(r) = "done"
    BY <1>4 DEF Phase, Pending
  <2>. QED
    BY <1>4, <2>1 DEF Pending
<1>5. CASE r.state = "delivery_failed"
  <2>1. Phase(r) = "failed"
    BY <1>5 DEF Phase, Pending
  <2>. QED
    BY <1>5, <2>1 DEF Pending
<1>. QED
  BY <1>1, <1>2, <1>3, <1>4, <1>5 DEF Terminal

\* No statement that rewrites a row changes its idempotency key.
LEMMA KeysKept ==
  ASSUME NEW r \in Row
  PROVE  /\ Cancelled(r).key = r.key
         /\ Leased(r).key = r.key
         /\ Deferred(r).key = r.key
         /\ BrokerAccepted(r).key = r.key
         /\ Released(r).key = r.key
         /\ Expired(r).key = r.key
         /\ \A x \in Results : Recorded(r, x).key = r.key
         /\ [r EXCEPT !.deadline = "past"].key = r.key
         /\ [r EXCEPT !.lease = "lapsed"].key = r.key
         /\ [r EXCEPT !.ready = TRUE].key = r.key
<1>1. Cancelled(r).key = r.key
  BY DEF Row, Cancelled
<1>2. Leased(r).key = r.key /\ Deferred(r).key = r.key /\ BrokerAccepted(r).key = r.key
  BY DEF Row, Leased, Deferred, BrokerAccepted
<1>3. Released(r).key = r.key /\ Expired(r).key = r.key
  BY DEF Row, Released, Expired
<1>4. \A x \in Results : Recorded(r, x).key = r.key
  BY DEF Row, Recorded
<1>5. /\ [r EXCEPT !.deadline = "past"].key = r.key
      /\ [r EXCEPT !.lease = "lapsed"].key = r.key
      /\ [r EXCEPT !.ready = TRUE].key = r.key
  BY DEF Row
<1>. QED
  BY <1>1, <1>2, <1>3, <1>4, <1>5

\* A rewrite that keeps a row's owner, result and pending state is quiet.
LEMMA PendingQuiet ==
  ASSUME NEW r \in Row, NEW q \in Row, SameOwner(r, q), q.result = r.result,
         q.state = r.state \/ (q.state \in Pending /\ r.state \in Pending)
  PROVE  Quiet(r, q)
<1>1. CASE q.state = r.state
  BY <1>1 DEF Phase, Quiet
<1>2. CASE q.state \in Pending /\ r.state \in Pending
  BY <1>2, Phases DEF Quiet
<1>. QED
  BY <1>1, <1>2

\* A step that rewrites one row quietly is quiet.
LEMMA OneQuiet ==
  ASSUME TypeOK, NEW c \in Cmds, NEW q \in Row, rows' = [rows EXCEPT ![c] = q],
         SameOwner(rows[c], q), q.result = rows[c].result,
         q.state = rows[c].state \/ (q.state \in Pending /\ rows[c].state \in Pending)
  PROVE  AllQuiet
<1>1. \A b \in Cmds : rows[b] \in Row
  BY DEF TypeOK
<1>2. \A b \in Cmds : rows'[b] = IF b = c THEN q ELSE rows[b]
  BY DEF TypeOK
<1>3. Quiet(rows[c], q)
  BY <1>1, PendingQuiet
<1>. QED
  BY <1>2, <1>3 DEF AllQuiet, Quiet, SameOwner

-----------------------------------------------------------------------------
(* The lemma *)

\* The API's steps.
LEMMA ApiShape ==
  ASSUME IInv, ApiStep
  PROVE  Enqueues \/ Fails \/ (AllQuiet /\ published' = published)
<1>1. ASSUME NEW targets \in SUBSET Devices, NEW t \in {"none", "ahead"},
             EnqueueBatch(targets, t)
      PROVE  Enqueues
  <2>1. EnqueueRows(targets, t, NoExec, NoKey) /\ published' = published
    BY <1>1 DEF EnqueueBatch, world
  <2>. QED
    BY <2>1 DEF Enqueues
<1>2. ASSUME NEW e \in Execs, NEW k \in Keys \cup {NoKey}, EnqueueDebugCommand(e, k)
      PROVE  Enqueues
  <2>1. ExecDevice[e] \in Devices /\ e # NoExec
    BY ExecAssumption, NullAssumption
  <2>2. /\ EnqueueRows({ExecDevice[e]}, "none", e, k)
        /\ published' = published
        /\ k # NoKey => \A c \in Cmds : rows[c].exec = e => rows[c].key # k
    BY <1>2 DEF EnqueueDebugCommand, world
  <2>. QED
    BY <2>1, <2>2 DEF Enqueues
<1>3. ASSUME NEW c \in Cmds, RequestDebugCommandCancellation(c) PROVE Fails
  <2>. DEFINE q == Cancelled(rows[c])
  <2>1. /\ \A b \in Cmds : rows[b] \in Row
        /\ \A b \in Cmds : rows'[b] = IF b = c THEN q ELSE rows[b]
        /\ published' = published /\ rows[c].state \in Pending
    BY <1>3 DEF IInv, TypeOK, RequestDebugCommandCancellation, world
  <2>2. /\ q \in Row /\ SameOwner(rows[c], q) /\ q.result = rows[c].result
        /\ q.state = IF rows[c].state = "queued" THEN "delivery_failed" ELSE rows[c].state
    BY <2>1, CancelledRow, KeysKept DEF SameOwner
  <2>3. Phase(q) = Phase(rows[c]) \/ (Phase(rows[c]) = "open" /\ Phase(q) = "failed")
    BY <2>1, <2>2, Phases
  <2>. QED
    BY <2>1, <2>2, <2>3 DEF Fails, SameOwner
<1>4. ASSUME NEW e \in Execs, NEW s \in ExecStates, ExecutionChanges(e, s)
      PROVE  AllQuiet /\ published' = published
  BY <1>4 DEF ExecutionChanges, AllQuiet, Quiet, SameOwner, world
<1>. QED
  BY <1>1, <1>2, <1>3, <1>4 DEF ApiStep

\* The steps of a poll loop.
LEMMA LoopShape ==
  ASSUME IInv, NEW w \in Workers, LoopStep(w)
  PROVE  Fails \/ Publishes \/ (AllQuiet /\ published' = published)
<1>. USE DEF tables, world
<1>0. \A c \in Cmds : rows[c] \in Row
  BY DEF IInv, TypeOK
<1>1. CASE \/ SweepSelects(w) \/ SweepRejected(w) \/ HandleLeasedCommand(w) \/ PublishFails(w)
           \/ CycleFails(w) \/ BrokerCrashes(w)
  <2>1. rows' = rows /\ published' = published
    BY <1>1 DEF SweepSelects, SweepRejected, HandleLeasedCommand, PublishFails, CycleFails,
                BrokerCrashes
  <2>. QED
    BY <2>1 DEF AllQuiet, Quiet, SameOwner
<1>2. CASE SweepCommits(w)
  <2>1. published' = published
    BY <1>2 DEF SweepCommits
  <2>2. ASSUME NEW c \in Cmds
        PROVE  /\ SameOwner(rows[c], rows'[c]) /\ rows'[c].result = rows[c].result
               /\ \/ Phase(rows'[c]) = Phase(rows[c])
                  \/ Phase(rows[c]) = "open" /\ Phase(rows'[c]) = "failed"
    <3>1. CASE c \notin sweep[w]
      BY <1>2, <3>1 DEF SweepCommits, SameOwner
    <3>2. CASE c \in sweep[w]
      <4>1. rows'[c] = Expired(rows[c]) /\ CheckConstraints(Expired(rows[c]))
        BY <1>2, <3>2 DEF SweepCommits
      <4>2. /\ Expired(rows[c]) \in Row
            /\ Expired(rows[c]).state = "delivery_failed"
            /\ SameOwner(rows[c], Expired(rows[c]))
            /\ Expired(rows[c]).result = rows[c].result
        BY <1>0, ExpiredRow, KeysKept DEF SameOwner
      <4>3. rows[c].state # "absent"
        BY <3>2 DEF IInv, AbsentUntouched
      <4>4. rows[c].state # "device_completed"
        BY <4>1, <4>2, SweepFreezes DEF Frozen, Terminal
      <4>5. rows[c].state \in Pending \/ rows[c].state = "delivery_failed"
        BY <1>0, <4>3, <4>4 DEF Row, Terminal
      <4>. QED
        BY <1>0, <4>1, <4>2, <4>5, Phases
    <3>. QED
      BY <3>1, <3>2
  <2>. QED
    BY <2>1, <2>2 DEF Fails
<1>3. ASSUME NEW c \in Cmds, LeaseNext(w, c) PROVE AllQuiet /\ published' = published
  <2>1. /\ rows' = [rows EXCEPT ![c] = Leased(rows[c])]
        /\ rows[c].state \in Pending /\ published' = published
    BY <1>3 DEF LeaseNext, Eligible, IInv, TypeOK, Pending
  <2>2. /\ Leased(rows[c]) \in Row /\ SameOwner(rows[c], Leased(rows[c]))
        /\ Leased(rows[c]).result = rows[c].result /\ Leased(rows[c]).state \in Pending
    BY <1>0, LeasedRow, KeysKept DEF SameOwner, Pending
  <2>. QED
    BY <2>1, <2>2, OneQuiet DEF IInv
<1>4. CASE DeferCommand(w) \/ MarkBrokerAccepted(w) \/ ReleaseLease(w)
  <2>. DEFINE c == job[w]
  <2>1. c \in Cmds /\ published' = published
    BY <1>4 DEF IInv, LoopsHoldJobs, DeferCommand, MarkBrokerAccepted, ReleaseLease,
                CycleContinues
  <2>2. rows[c] \in Row
    BY <1>0, <2>1
  <2>3. PICK q \in {Deferred(rows[c]), BrokerAccepted(rows[c]), Released(rows[c])} :
          IfLeased(c, q)
    BY <1>4 DEF DeferCommand, MarkBrokerAccepted, ReleaseLease
  <2>4. /\ q \in Row /\ SameOwner(rows[c], q) /\ q.result = rows[c].result
        /\ q.state \in Pending
    <3>1. q.key = rows[c].key
      BY <2>2, <2>3, KeysKept
    <3>2. CASE q = Deferred(rows[c])
      BY <2>2, <3>1, <3>2, DeferredRow DEF SameOwner, Pending
    <3>3. CASE q = BrokerAccepted(rows[c])
      BY <2>2, <3>1, <3>3, AcceptedRow DEF SameOwner, Pending
    <3>4. CASE q = Released(rows[c])
      BY <2>2, <3>1, <3>4, ReleasedRow DEF SameOwner, Pending
    <3>. QED
      BY <2>3, <3>2, <3>3, <3>4
  <2>5. CASE rows[c].state = "leased"
    <3>1. rows' = [rows EXCEPT ![c] = q] /\ rows[c].state \in Pending
      BY <2>3, <2>5 DEF IfLeased, Pending
    <3>. QED
      BY <2>1, <2>4, <3>1, OneQuiet DEF IInv
  <2>6. CASE rows[c].state # "leased"
    <3>1. rows' = [rows EXCEPT ![c] = rows[c]]
      BY <2>3, <2>6 DEF IfLeased
    <3>. QED
      BY <2>1, <2>2, <3>1, OneQuiet DEF IInv, SameOwner
  <2>. QED
    BY <2>5, <2>6
<1>5. CASE PublishToDevice(w)
  <2>1. job[w] \in Cmds /\ Claimed(job[w])
    BY <1>5 DEF PublishToDevice, IInv, LoopsHoldJobs, Claimed
  <2>2. rows' = rows /\ published' = published \cup {job[w]}
    BY <1>5 DEF PublishToDevice
  <2>. QED
    BY <2>1, <2>2 DEF Publishes, AllQuiet, Quiet, SameOwner
<1>. QED
  BY <1>1, <1>2, <1>3, <1>4, <1>5 DEF LoopStep

\* The steps of the clock and of the devices.
LEMMA OutsideShape ==
  ASSUME IInv,
         \/ \E c \in Cmds : ClockStep(c)
         \/ \E d \in Devices : DeviceStep(d)
         \/ \E c \in Cmds, x \in Results : ResultStep(c, x)
  PROVE  Completes \/ (AllQuiet /\ published' = published)
<1>. USE DEF tables, world
<1>0. \A c \in Cmds : rows[c] \in Row
  BY DEF IInv, TypeOK
<1>1. ASSUME NEW c \in Cmds, ClockStep(c) PROVE AllQuiet /\ published' = published
  <2>. DEFINE Moved == {[rows[c] EXCEPT !.deadline = "past"], [rows[c] EXCEPT !.ready = TRUE],
                        [rows[c] EXCEPT !.lease = "lapsed"]}
  <2>1. PICK q \in Moved : rows' = [rows EXCEPT ![c] = q]
    BY <1>1 DEF ClockStep, DeadlinePasses, LeaseLapses, RetryDelayPasses
  <2>2. /\ q \in Row /\ SameOwner(rows[c], q)
        /\ q.result = rows[c].result /\ q.state = rows[c].state
    <3>1. rows[c] \in Row /\ q.key = rows[c].key
      BY <1>0, <2>1, KeysKept
    <3>2. CASE q \in {[rows[c] EXCEPT !.deadline = "past"], [rows[c] EXCEPT !.ready = TRUE]}
      BY <3>1, <3>2, ClockRow DEF SameOwner
    <3>3. CASE q = [rows[c] EXCEPT !.lease = "lapsed"]
      BY <3>1, <3>3, LapsedRow DEF SameOwner
    <3>. QED
      BY <2>1, <3>2, <3>3
  <2>3. published' = published
    BY <1>1 DEF ClockStep, DeadlinePasses, LeaseLapses, RetryDelayPasses
  <2>. QED
    BY <2>1, <2>2, <2>3, OneQuiet DEF IInv
<1>2. ASSUME NEW d \in Devices, DeviceStep(d) PROVE AllQuiet /\ published' = published
  <2>1. rows' = rows /\ published' = published
    BY <1>2 DEF DeviceStep, DeviceConnects, DeviceSubscribes, DeviceDisconnects, DeviceReboots
  <2>. QED
    BY <2>1 DEF AllQuiet, Quiet, SameOwner
<1>3. ASSUME NEW c \in Cmds, NEW x \in Results, ResultStep(c, x)
      PROVE  Completes \/ (AllQuiet /\ published' = published)
  <2>1. CASE DeviceExecutes(c, x)
    BY <2>1 DEF DeviceExecutes, AllQuiet, Quiet, SameOwner
  <2>2. CASE RecordDeviceResult(c, x) \/ AcknowledgementLost(c, x)
    <3>. DEFINE q == Recorded(rows[c], x)
    <3>1. /\ rows' = [rows EXCEPT ![c] = q]
          /\ published' = published /\ c \in published
      BY <2>2 DEF RecordDeviceResult, AcknowledgementLost, IInv, PublishedFirst
    <3>2. q \in Row /\ SameOwner(rows[c], q)
      BY <1>0, RecordedRow, KeysKept DEF SameOwner
    <3>3. CASE rows[c].state \in Pending
      <4>1. q.state = "device_completed" /\ q.result = x
        BY <1>0, <3>3, RecordedRow
      <4>2. rows'[c] = q /\ \A b \in Cmds : b # c => rows'[b] = rows[b]
        BY <3>1 DEF IInv, TypeOK
      <4>3. Phase(rows[c]) = "open" /\ Phase(q) = "done"
        BY <1>0, <3>2, <3>3, <4>1, Phases
      <4>. QED
        BY <3>1, <3>2, <4>1, <4>2, <4>3 DEF Completes
    <3>4. CASE rows[c].state \notin Pending
      <4>1. q = rows[c]
        BY <3>4 DEF Recorded
      <4>. QED
        BY <3>1, <3>2, <4>1, OneQuiet DEF IInv
    <3>. QED
      BY <3>3, <3>4
  <2>. QED
    BY <1>3, <2>1, <2>2 DEF ResultStep
<1>. QED
  BY <1>1, <1>2, <1>3

\* Every step of the queue has one of five shapes.
LEMMA StepShape ==
  ASSUME IInv, [Next]_vars
  PROVE  Enqueues \/ Publishes \/ Completes \/ Fails \/ (AllQuiet /\ published' = published)
<1>1. CASE Next
  BY <1>1, ApiShape, LoopShape, OutsideShape DEF Next
<1>2. CASE UNCHANGED vars
  BY <1>2 DEF vars, tables, world, AllQuiet, Quiet, SameOwner
<1>. QED
  BY <1>1, <1>2

-----------------------------------------------------------------------------
(* Idempotency keys *)

\* A step that keeps every row's owner keeps the keys apart.
LEMMA OwnersKept ==
  ASSUME OneRowPerKey, \A c \in Cmds : SameOwner(rows[c], rows'[c])
  PROVE  OneRowPerKey'
  BY DEF OneRowPerKey, SameOwner

\* The lookup and the insert are one transaction: a keyed enqueue adds one row,
\* and only when its execution has no row with that key.
LEMMA EnqueueKeepsKeys ==
  ASSUME IInv, OneRowPerKey, Enqueues
  PROVE  OneRowPerKey'
<1>1. PICK targets \in SUBSET Devices, dl \in {"none", "ahead"},
           e \in Execs \cup {NoExec}, k \in Keys \cup {NoKey} :
        /\ EnqueueRows(targets, dl, e, k)
        /\ e # NoExec => \E d \in Devices : targets = {d}
        /\ e # NoExec /\ k # NoKey => \A c \in Cmds : rows[c].exec = e => rows[c].key # k
  BY DEF Enqueues
<1>. DEFINE new == NewRow("queued", dl, e, k)
            Added(c) == DeviceOf(c) \in targets /\ SequenceOf(c) = next[DeviceOf(c)]
<1>2. new.exec = e /\ new.key = k
  BY DEF NewRow
<1>3. \A c \in Cmds : rows'[c] = IF Added(c) THEN new ELSE rows[c]
  BY <1>1 DEF EnqueueRows
<1>4. CASE e = NoExec
  <2>1. \A c \in Cmds : rows'[c].exec # NoExec => rows'[c] = rows[c]
    BY <1>2, <1>3, <1>4
  <2>. QED
    BY <2>1 DEF OneRowPerKey
<1>5. CASE e # NoExec
  <2>1. \A b, c \in Cmds : Added(b) /\ Added(c) => b = c
    BY <1>1, <1>5 DEF Cmds, DeviceOf, SequenceOf
  <2>2. k # NoKey => \A c \in Cmds : rows[c].exec = e => rows[c].key # k
    BY <1>1, <1>5
  <2>. SUFFICES ASSUME NEW b \in Cmds, NEW c \in Cmds,
                       rows'[b].exec # NoExec, rows'[b].exec = rows'[c].exec,
                       rows'[b].key # NoKey, rows'[b].key = rows'[c].key
                PROVE  b = c
    BY DEF OneRowPerKey
  <2>3. CASE Added(b) /\ Added(c)
    BY <2>1, <2>3
  <2>4. CASE Added(b) /\ ~Added(c)
    BY <1>2, <1>3, <2>2, <2>4
  <2>5. CASE ~Added(b) /\ Added(c)
    BY <1>2, <1>3, <2>2, <2>5
  <2>6. CASE ~Added(b) /\ ~Added(c)
    BY <1>3, <2>6 DEF OneRowPerKey
  <2>. QED
    BY <2>3, <2>4, <2>5, <2>6
<1>. QED
  BY <1>4, <1>5

\* A plugin's retry never creates a second command: within one execution an
\* idempotency key names one row, whatever ran between the two calls.
THEOREM KeysNameOneRow == Spec => []OneRowPerKey
<1>1. Init => OneRowPerKey
  BY FreshRow DEF Init, OneRowPerKey
<1>2. IInv /\ OneRowPerKey /\ [Next]_vars => OneRowPerKey'
  <2>. SUFFICES ASSUME IInv, OneRowPerKey, [Next]_vars PROVE OneRowPerKey'
    OBVIOUS
  <2>1. CASE Enqueues
    BY <2>1, EnqueueKeepsKeys
  <2>2. CASE Publishes \/ (AllQuiet /\ published' = published)
    BY <2>2, OwnersKept DEF Publishes, AllQuiet, Quiet
  <2>3. CASE Completes
    BY <2>3, OwnersKept DEF Completes, SameOwner
  <2>4. CASE Fails
    BY <2>4, OwnersKept DEF Fails
  <2>. QED
    BY <2>1, <2>2, <2>3, <2>4, StepShape
<1>. QED
  BY <1>1, <1>2, Invariant, PTL DEF Spec

-----------------------------------------------------------------------------
(* The promise *)

\* The four state functions the promise sees.
PhaseOf == [c \in Cmds |-> Phase(rows[c])]
ExemptOf == {c \in Cmds : rows[c].exec # NoExec}
OutcomeOf == [c \in Cmds |-> rows[c].result]

\* A queue with no rows is a promise with no commands.
LEMMA InitRefines == Init => Promise!Init
<1>. SUFFICES ASSUME Init PROVE Promise!Init
  OBVIOUS
<1>. DEFINE none == NewRow("absent", "none", NoExec, NoKey)
<1>1. /\ none \in Row /\ none.state = "absent" /\ none.exec = NoExec
      /\ none.result = NoResult
  BY FreshRow
<1>2. Phase(none) = "absent"
  BY <1>1, Phases
<1>3. \A c \in Cmds : rows[c] = none
  BY DEF Init
<1>4. published = {}
  BY DEF Init
<1>. QED
  BY <1>1, <1>2, <1>3, <1>4 DEF Promise!Init, Promise!Cmds, Cmds

\* Only a claimed command is published, so everything plain before it is
\* settled.
LEMMA PublishRefines ==
  ASSUME IInv, Publishes
  PROVE  Promise!Next
<1>1. PICK c \in Cmds : Claimed(c) /\ published' = published \cup {c}
  BY DEF Publishes
<1>2. PhaseOf' = PhaseOf /\ ExemptOf' = ExemptOf /\ OutcomeOf' = OutcomeOf
  BY DEF Publishes, AllQuiet, Quiet, SameOwner, PhaseOf, ExemptOf, OutcomeOf
<1>3. \A b \in Cmds : rows[b] \in Row
  BY DEF IInv, TypeOK
<1>4. PhaseOf[c] # "absent"
  BY <1>1, <1>3, Phases DEF IInv, ClaimedExists, PhaseOf
<1>5. ASSUME NEW b \in Cmds, Earlier(b, c), b \notin ExemptOf
      PROVE  PhaseOf[b] \in {"done", "failed"}
  <2>1. rows[b].state \in Terminal
    BY <1>1, <1>5 DEF IInv, ClaimedInOrder, Plain, ExemptOf
  <2>. QED
    BY <1>3, <2>1, Phases DEF Terminal, PhaseOf
<1>6. Promise!Send(c)
  BY <1>1, <1>2, <1>4, <1>5
     DEF Promise!Send, Promise!Before, Promise!Settled, Promise!Cmds, Cmds, Earlier, DeviceOf,
         SequenceOf, PhaseOf, ExemptOf, OutcomeOf
<1>. QED
  BY <1>6 DEF Promise!Next, Promise!Cmds, Cmds

\* Only the result of a published command completes a row.
LEMMA CompleteRefines ==
  ASSUME IInv, Completes
  PROVE  Promise!Next
<1>1. PICK c \in published, x \in Results :
        /\ c \in Cmds
        /\ Phase(rows[c]) = "open" /\ Phase(rows'[c]) = "done"
        /\ rows'[c].result = x
        /\ SameOwner(rows[c], rows'[c])
        /\ \A b \in Cmds : b # c => rows'[b] = rows[b]
  BY DEF Completes
<1>2. published' = published
  BY DEF Completes
<1>3. /\ PhaseOf' = [PhaseOf EXCEPT ![c] = "done"]
      /\ OutcomeOf' = [OutcomeOf EXCEPT ![c] = x]
      /\ ExemptOf' = ExemptOf
  BY <1>1 DEF PhaseOf, OutcomeOf, ExemptOf, SameOwner
<1>4. Promise!Complete(c, x)
  BY <1>1, <1>2, <1>3 DEF Promise!Complete, Promise!Cmds, Cmds, PhaseOf, ExemptOf, OutcomeOf
<1>. QED
  BY <1>1, <1>4 DEF Promise!Next, Promise!Cmds, Cmds

\* The sweep and the cancellation only fail what is still open.
LEMMA FailRefines ==
  ASSUME IInv, Fails
  PROVE  Promise!Next
<1>. DEFINE S == {c \in Cmds : Phase(rows[c]) = "open" /\ Phase(rows'[c]) = "failed"}
<1>1. published' = published /\ ExemptOf' = ExemptOf /\ OutcomeOf' = OutcomeOf
  BY DEF Fails, SameOwner, ExemptOf, OutcomeOf
<1>2. PhaseOf' = [c \in Cmds |-> IF c \in S THEN "failed" ELSE PhaseOf[c]]
  BY DEF Fails, PhaseOf
<1>3. \A c \in S : PhaseOf[c] = "open"
  BY DEF PhaseOf
<1>4. Promise!Fail(S)
  BY <1>1, <1>2, <1>3 DEF Promise!Fail, Promise!Cmds, Cmds, PhaseOf, ExemptOf, OutcomeOf
<1>. QED
  BY <1>4 DEF Promise!Next, Promise!Cmds, Cmds

\* An enqueue admits the next command of each target device, all of them plain
\* or all of them of one execution.
LEMMA EnqueueRefines ==
  ASSUME IInv, Enqueues
  PROVE  Promise!Next
<1>1. PICK targets \in SUBSET Devices, dl \in {"none", "ahead"},
           e \in Execs \cup {NoExec}, k \in Keys \cup {NoKey} :
        EnqueueRows(targets, dl, e, k)
  BY DEF Enqueues
<1>2. published' = published
  BY DEF Enqueues
<1>. DEFINE new == NewRow("queued", dl, e, k)
            S == {c \in Cmds : DeviceOf(c) \in targets /\ SequenceOf(c) = next[DeviceOf(c)]}
            ex == IF e = NoExec THEN {} ELSE S
<1>3. new \in Row /\ new.state = "queued" /\ new.exec = e /\ new.result = NoResult
  BY FreshRow
<1>4. \A c \in Cmds : rows'[c] = IF c \in S THEN new ELSE rows[c]
  BY <1>1 DEF EnqueueRows
<1>5. \A c \in Cmds : rows[c] \in Row /\ CheckConstraints(rows[c])
  BY DEF IInv, TypeOK, ChecksHold
<1>6. ASSUME NEW c \in S
      PROVE  /\ rows[c].state = "absent"
             /\ \A b \in Cmds : Earlier(b, c) => rows[b].state # "absent"
  BY DEF IInv, Admitted, TypeOK, Earlier, Cmds, DeviceOf, SequenceOf
<1>7. \A c \in S : rows[c].exec = NoExec /\ rows[c].result = NoResult
  BY <1>5, <1>6 DEF IInv, AbsentUntouched, CheckConstraints
<1>8. Phase(new) = "open"
  BY <1>3, Phases DEF Pending
<1>9. PhaseOf' = [c \in Cmds |-> IF c \in S THEN "open" ELSE PhaseOf[c]]
  BY <1>4, <1>8 DEF PhaseOf
<1>10. OutcomeOf' = OutcomeOf
  BY <1>3, <1>4, <1>7 DEF OutcomeOf
<1>11. ExemptOf' = ExemptOf \cup ex
  BY <1>3, <1>4, <1>7 DEF ExemptOf
<1>12. \A c \in S : /\ PhaseOf[c] = "absent"
                     /\ \A b \in Cmds : Earlier(b, c) => PhaseOf[b] # "absent"
  BY <1>5, <1>6, Phases DEF PhaseOf
<1>13. CASE e = NoExec
  <2>1. Promise!Admit(S, {})
    BY <1>2, <1>9, <1>10, <1>11, <1>12, <1>13
       DEF Promise!Admit, Promise!Before, Promise!Cmds, Cmds, Earlier, DeviceOf, SequenceOf,
           PhaseOf, ExemptOf, OutcomeOf
  <2>2. \E T \in SUBSET Promise!Cmds : Promise!Admit(T, {})
    BY <2>1 DEF Promise!Cmds, Cmds
  <2>. QED
    BY <2>2 DEF Promise!Next
<1>14. CASE e # NoExec
  <2>1. PICK T \in SUBSET Cmds : T = S
    OBVIOUS
  <2>2. Promise!Admit(T, T)
    BY <1>2, <1>9, <1>10, <1>11, <1>12, <1>14, <2>1
       DEF Promise!Admit, Promise!Before, Promise!Cmds, Cmds, Earlier, DeviceOf, SequenceOf,
           PhaseOf, ExemptOf, OutcomeOf
  <2>. QED
    BY <2>2 DEF Promise!Next, Promise!Cmds, Cmds
<1>. QED
  BY <1>13, <1>14

\* The whole queue, with its leases, clocks, crashes, sweeps and cancellations,
\* implements ordered delivery: per device a command is sent only once every
\* earlier plain one is settled, is completed only after it was sent, with one
\* result, and what is settled stays settled.
THEOREM QueueKeepsPromise == Spec => KeepsPromise
<1>1. IInv /\ [Next]_vars => [Promise!Next]_(Promise!vars)
  <2>. SUFFICES ASSUME IInv, [Next]_vars PROVE [Promise!Next]_(Promise!vars)
    OBVIOUS
  <2>1. CASE Enqueues \/ Publishes \/ Completes \/ Fails
    BY <2>1, EnqueueRefines, PublishRefines, CompleteRefines, FailRefines
  <2>2. CASE AllQuiet /\ published' = published
    <3>1. PhaseOf' = PhaseOf /\ ExemptOf' = ExemptOf /\ OutcomeOf' = OutcomeOf
      BY <2>2 DEF AllQuiet, Quiet, SameOwner, PhaseOf, ExemptOf, OutcomeOf
    <3>. QED
      BY <2>2, <3>1 DEF Promise!vars, PhaseOf, ExemptOf, OutcomeOf
  <2>. QED
    BY <2>1, <2>2, StepShape
<1>. QED
  BY <1>1, InitRefines, Invariant, PTL DEF Spec, KeepsPromise, Promise!Spec

=============================================================================
