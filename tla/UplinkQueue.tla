---------------------------- MODULE UplinkQueue ----------------------------
(***************************************************************************)
(* What one broker process does with the messages devices publish: the     *)
(* token buckets, the bounded executor that runs one handler per device at *)
(* a time, and the gate that acknowledges a durable report only after its  *)
(* handler.  A piece of work names its message and the client it came by,  *)
(* NoConn once that client is gone.                                        *)
(***************************************************************************)
EXTENDS Connections

CONSTANTS Msgs, From,                \* From[m]: the device that publishes m
          Durable, Valid,            \* event, cmd/result, ota/result; decodable payloads
          Size, Cost,                \* payload bytes; tokens (elements of a log bundle)
          MaxPacket, Burst, MaxTracked,
          Concurrency, Capacity, MaxBytes

ASSUME UplinkAssumption ==
  /\ From \in [Msgs -> Devices]
  /\ Durable \subseteq Msgs /\ Valid \subseteq Msgs
  /\ Size \in [Msgs -> Nat] /\ Cost \in [Msgs -> Nat \ {0}]
  /\ MaxPacket \in Nat /\ Burst \in Nat \ {0} /\ MaxTracked \in Nat \ {0}
  /\ Concurrency \in Nat \ {0} /\ Capacity \in Nat /\ Capacity >= Concurrency
  /\ MaxBytes \in Nat \ {0}

VARIABLES work,      \* the UplinkWorkQueue
          tokens,    \* the buckets the PerDeviceLimiter keeps
          unacked,   \* the messages a device still holds
          sent,      \* the messages sent over a connection and not answered
          stored     \* the messages whose handler has written its rows

uplinkVars == <<work, tokens, unacked, sent, stored>>

Work == [msg : Msgs, via : Conns \cup {NoConn}]

EmptyQueue == [byDevice |-> [d \in Devices |-> <<>>], active |-> {}, ready |-> <<>>,
               executing |-> {}, running |-> 0, outstanding |-> 0, bytes |-> 0]

UplinkTypeOK ==
  /\ work.byDevice \in [Devices -> Seq(Work)]
  /\ work.active \subseteq Devices /\ work.ready \in Seq(Devices)
  /\ work.executing \subseteq Work
  /\ work.running \in 0..Concurrency
  /\ work.outstanding \in 0..Capacity
  /\ work.bytes \in 0..MaxBytes
  /\ DOMAIN tokens \subseteq Devices /\ \A d \in DOMAIN tokens : tokens[d] \in 0..Burst
  /\ unacked \subseteq Msgs /\ stored \subseteq Msgs
  /\ sent \in [Conns -> SUBSET Msgs]

UplinkInit ==
  /\ work = EmptyQueue
  /\ tokens = [d \in {} |-> 0]
  /\ unacked = Msgs
  /\ sent = [c \in Conns |-> {}]
  /\ stored = {}

-----------------------------------------------------------------------------
(* PerDeviceLimiter *)

\* The outcomes of tryConsume(d, n), as <<granted, buckets afterwards>>.  At
\* capacity a reclaim may forget idle buckets; time is not modelled, so any
\* subset may be idle, and none when the last scan was under a second ago.
TryConsume(d, n) ==
  LET reclaimed == IF Cardinality(DOMAIN tokens) < MaxTracked THEN {{}} ELSE SUBSET DOMAIN tokens
      Without(gone) == [x \in DOMAIN tokens \ gone |-> tokens[x]]
      Consumed(b) ==
        IF d \notin DOMAIN b /\ Cardinality(DOMAIN b) >= MaxTracked
        THEN <<FALSE, b>>
        ELSE LET has == IF d \in DOMAIN b THEN b[d] ELSE Burst
                 left == IF has < n THEN has ELSE has - n
             IN  <<has >= n, [x \in DOMAIN b \cup {d} |-> IF x = d THEN left ELSE b[x]]>>
  IN  {Consumed(Without(gone)) : gone \in reclaimed}

\* Time passes and a bucket gains a token.
Refill(d) ==
  /\ d \in DOMAIN tokens /\ tokens[d] < Burst
  /\ tokens' = [tokens EXCEPT ![d] = @ + 1]
  /\ UNCHANGED <<work, unacked, sent, stored, faults>>

-----------------------------------------------------------------------------
(* UplinkWorkQueue *)

\* Of the first n devices that are ready, those that have work to start: not
\* a device whose handler is running, nor one whose queue is empty.
Startable(q, n) ==
  {d \in {q.ready[i] : i \in 1..n} : d \notin q.active /\ q.byDevice[d] # <<>>}

\* The loop of drain ends after n turns: no slot is free, or nobody is ready.
DrainEnds(q, n) ==
  n = Len(q.ready) \/ q.running + Cardinality(Startable(q, n)) >= Concurrency

DrainTurns(q) ==
  CHOOSE n \in 0..Len(q.ready) : DrainEnds(q, n) /\ \A k \in 0..(n - 1) : ~DrainEnds(q, k)

\* drain: each turn takes a device from the ready ones and starts its next
\* handler.
Drain(q) ==
  LET n == DrainTurns(q)
      S == Startable(q, n)
  IN  [q EXCEPT !.ready = SubSeq(@, n + 1, Len(@)),
                !.byDevice = [d \in Devices |-> IF d \in S THEN Tail(@[d]) ELSE @[d]],
                !.active = @ \cup S,
                !.executing = @ \cup {Head(q.byDevice[d]) : d \in S},
                !.running = @ + Cardinality(S)]

Accepts(q, m) == q.outstanding < Capacity /\ q.bytes + Size[m] <= MaxBytes

\* enqueue, for work the limits accept.
Enqueue(q, w) ==
  LET d == From[w.msg] IN
  Drain([q EXCEPT !.byDevice[d] = Append(@, w),
                  !.outstanding = @ + 1,
                  !.bytes = @ + Size[w.msg],
                  !.ready = IF q.byDevice[d] = <<>> /\ d \notin q.active THEN Append(@, d) ELSE @])

\* (mutant) The device's next message waits for another to arrive.
FinishForgetsQueue(q, w) ==
  LET d == From[w.msg] IN
  Drain([q EXCEPT !.running = @ - 1,
                  !.outstanding = @ - 1,
                  !.bytes = @ - Size[w.msg],
                  !.active = @ \ {d},
                  !.executing = @ \ {w}])

\* The finally of a handler.
Finish(q, w) ==
  LET d == From[w.msg] IN
  Drain([q EXCEPT !.running = @ - 1,
                  !.outstanding = @ - 1,
                  !.bytes = @ - Size[w.msg],
                  !.active = @ \ {d},
                  !.executing = @ \ {w},
                  !.ready = IF q.byDevice[d] # <<>> THEN Append(@, d) ELSE @])

\* A client that is gone no longer receives the answers of its work.
Orphaned(q, c) ==
  LET Orphan(w) == IF w.via = c THEN [w EXCEPT !.via = NoConn] ELSE w IN
  [q EXCEPT !.byDevice = [d \in Devices |-> [i \in DOMAIN @[d] |-> Orphan(@[d][i])]],
            !.executing = {Orphan(w) : w \in @}]

-----------------------------------------------------------------------------
(* The publish paths.  Each says what happens to the client as well: "ack" *)
(* answers the packet, "error" makes aedes close the client.               *)

Oversized(m) == Size[m] > MaxPacket

\* The answer to m on connection c.
Acked(m, c) ==
  /\ sent' = [sent EXCEPT ![c] = @ \ {m}]
  /\ unacked' = unacked \ {m}

\* authorizePublish for an event, a cmd/result or an ota/result.
PublishDurable(m, c, outcome) ==
  /\ m \in Durable \cap unacked
  /\ \/ /\ Oversized(m)
        /\ outcome = "ack"
        /\ unacked' = unacked \ {m}
        /\ UNCHANGED <<work, tokens, sent>>
     \/ /\ ~Oversized(m)
        /\ \E t \in TryConsume(From[m], 1) :
             /\ tokens' = t[2]
             /\ IF t[1] /\ Accepts(work, m)
                THEN /\ outcome = "wait"
                     /\ work' = Enqueue(work, [msg |-> m, via |-> c])
                     /\ sent' = [sent EXCEPT ![c] = @ \cup {m}]
                ELSE outcome = "error" /\ UNCHANGED <<work, sent>>
        /\ UNCHANGED unacked
  /\ UNCHANGED <<stored, faults>>

\* The 'publish' listener for a stat or a log, which aedes has answered
\* already: over a limit the message is dropped.
PublishPlain(m, c) ==
  /\ m \in unacked \ Durable
  /\ unacked' = unacked \ {m}
  /\ IF Oversized(m)
     THEN UNCHANGED <<work, tokens>>
     ELSE \E t \in TryConsume(From[m], Cost[m]) :
            /\ tokens' = t[2]
            /\ work' = IF t[1] /\ Accepts(work, m)
                       THEN Enqueue(work, [msg |-> m, via |-> c]) ELSE work
  /\ UNCHANGED <<sent, stored, faults>>

\* (mutant) The packet is answered although its handler failed.
AnswerAnyway(w, ok, live) ==
  IF w.via \notin live \/ w.msg \notin Durable
  THEN UNCHANGED <<unacked, sent>>
  ELSE Acked(w.msg, w.via)

\* The callback of a durable report, if its client is still there.
Answer(w, ok, live) ==
  IF w.via \notin live \/ w.msg \notin Durable
  THEN UNCHANGED <<unacked, sent>>
  ELSE IF ok THEN Acked(w.msg, w.via)
       ELSE sent' = [sent EXCEPT ![w.via] = @ \ {w.msg}] /\ UNCHANGED unacked

\* handleUplink ends well (live: the clients that can still be answered): an undecodable payload, or one that matches nothing,
\* is dropped; any other is recorded.
HandleUplink(w, live) ==
  /\ w \in work.executing
  /\ stored' = IF w.msg \in Valid THEN stored \cup {w.msg} ELSE stored
  /\ work' = Finish(work, w)
  /\ Answer(w, TRUE, live)
  /\ UNCHANGED <<tokens, faults>>

\* The database fails under the handler.  The error of a durable report goes
\* back to aedes; that of a stat or a log is only logged.
HandlerFails(w, live) ==
  /\ w \in work.executing /\ w.msg \in Valid
  /\ Fault
  /\ work' = Finish(work, w)
  /\ Answer(w, FALSE, live)
  /\ UNCHANGED <<tokens, stored>>

-----------------------------------------------------------------------------
\* The work of a queue in units, W[m] of them for message m: waiting, at its
\* place in the queue of its device, and running.
WaitingUnits(q, W) ==
  UNION {UNION {{<<d, i, k>> : k \in 1..W[q.byDevice[d][i].msg]} : i \in DOMAIN q.byDevice[d]} :
           d \in Devices}
RunningUnits(q, W) == UNION {{<<w, k>> : k \in 1..W[w.msg]} : w \in q.executing}
Weight(q, W) == Cardinality(WaitingUnits(q, W)) + Cardinality(RunningUnits(q, W))

Each == [m \in Msgs |-> 1]

\* The executor keeps its books: the counters are what is queued and
\* running, no device runs two handlers, a device with work waits exactly
\* once, and nothing waits while a slot is free.
QueueConsistent ==
  /\ work.outstanding = Weight(work, Each)
  /\ work.bytes = Weight(work, Size)
  /\ work.running = Cardinality(work.executing)
  /\ work.active = {From[w.msg] : w \in work.executing}
  /\ Cardinality(work.active) = Cardinality(work.executing)
  /\ \A i, j \in DOMAIN work.ready : work.ready[i] = work.ready[j] => i = j
  /\ {work.ready[i] : i \in DOMAIN work.ready}
        = {d \in Devices \ work.active : work.byDevice[d] # <<>>}
  /\ work.ready # <<>> => work.running = Concurrency

\* A durable report is answered only once it is recorded, unless it is one
\* the broker drops on purpose: oversized, or not decodable.
DurableBeforeAck ==
  \A m \in Durable \ unacked : m \in stored \/ Oversized(m) \/ m \notin Valid
=============================================================================
