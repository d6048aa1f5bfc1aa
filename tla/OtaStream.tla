------------------------------ MODULE OtaStream -----------------------------
(***************************************************************************)
(* The realtime stream of one OTA job (api/ota-stream.ts) and its          *)
(* PostgreSQL listener (api/pg-listen.ts).  Every change of a target       *)
(* notifies the channel; the hub merges notifications with a timer, reads  *)
(* the job again and sends the subscribers the targets that differ from    *)
(* what it sent before.  A page loads the job over REST while it connects, *)
(* and merges the frames into what it shows (OtaJobPage).                  *)
(*                                                                         *)
(* The page's 30 s REST poll, which hides every loss in the end, is left   *)
(* out: the properties are about the stream itself.  The delay of the      *)
(* debounce timer is bounded by the maximal wait, so it fires eventually.  *)
(***************************************************************************)
LOCAL INSTANCE Integers
LOCAL INSTANCE FiniteSets

CONSTANTS
    OtaSockets,     \* connections, each made once
    OtaTargets,     \* the targets of the job
    OtaMaxSockets,  \* SOULCLOUD_WS_MAX_CONNECTIONS
    OtaFaults       \* bound on lost listeners and failed reads

VARIABLES
    otaDb,       \* the states of the targets
    otaListener, \* "off", "connecting" or "up"
    otaQueue,    \* is a notification on its way to the hub
    otaTimer,    \* pendingTimers
    otaPush,     \* pushing: the push under way and the job it read
    otaAgain,    \* pushAgain
    otaBase,     \* lastTargets, NoBase when there is none
    otaFull,     \* fullNext
    otaSubs,     \* subscribers
    otaSocks,    \* state of each connection
    otaRest,     \* the page's REST answer on its way, NoBase when there is none
    otaView,     \* what each page shows
    otaOwed,     \* history: sockets subscribed when the last news reached the hub
    otaOver,     \* history: pages whose REST answer came after a frame
    otaFailed    \* faults so far

otaHub == <<otaTimer, otaPush, otaAgain, otaBase, otaFull, otaSubs>>
otaPage == <<otaSocks, otaRest, otaView, otaOver>>
otaVars == <<otaDb, otaListener, otaQueue, otaHub, otaPage, otaOwed, otaFailed>>

-----------------------------------------------------------------------------
NoBase == [t \in OtaTargets |-> "unknown"]
Nothing == [job |-> NoBase, state |-> "none"]
IdlePush == [pc |-> "idle", job |-> NoBase]

\* deriveJobState.
DeriveJobState(job) ==
    CASE \E t \in OtaTargets : job[t] = "failed" -> "failed"
      [] \A t \in OtaTargets : job[t] \in {"completed", "failed"} -> "completed"
      [] OTHER -> "running"

OtaInit ==
    /\ otaDb = [t \in OtaTargets |-> "delivered"]
    /\ otaListener = "off"
    /\ otaQueue = FALSE
    /\ otaTimer = FALSE /\ otaPush = IdlePush /\ otaAgain = FALSE
    /\ otaBase = NoBase /\ otaFull = FALSE /\ otaSubs = {}
    /\ otaSocks = [w \in OtaSockets |-> "new"]
    /\ otaRest = [w \in OtaSockets |-> NoBase]
    /\ otaView = [w \in OtaSockets |-> Nothing]
    /\ otaOwed = {} /\ otaOver = {}
    /\ otaFailed = 0

\* A delivered target ends and the channel is notified; without a listener
\* nobody hears of it.
TargetChanges(t) ==
    /\ otaDb[t] = "delivered"
    /\ \E s \in {"completed", "failed"} : otaDb' = [otaDb EXCEPT ![t] = s]
    /\ otaQueue' = (otaQueue \/ otaListener = "up")
    /\ otaOwed' = IF otaListener = "up" THEN otaOwed ELSE {}
    /\ UNCHANGED <<otaListener, otaHub, otaPage, otaFailed>>

\* listen: the connection is made and LISTEN runs.
Listen ==
    /\ otaListener = "connecting"
    /\ otaListener' = "up"
    /\ UNCHANGED <<otaDb, otaQueue, otaHub, otaPage, otaOwed, otaFailed>>

\* reconnect: the connection is lost, with what was on its way.
Reconnect ==
    /\ otaListener = "up" /\ otaFailed < OtaFaults
    /\ otaListener' = "connecting"
    /\ otaQueue' = FALSE
    /\ otaOwed' = IF otaQueue THEN {} ELSE otaOwed
    /\ otaFailed' = otaFailed + 1
    /\ UNCHANGED <<otaDb, otaHub, otaPage>>

\* schedulePush: nobody subscribed, nothing to do; a running timer is moved.
SchedulePush(subs) == otaTimer' = (otaTimer \/ subs # {})

\* The notification reaches the hub.
OnNotification ==
    /\ otaQueue
    /\ otaQueue' = FALSE
    /\ SchedulePush(otaSubs)
    /\ otaOwed' = otaSubs
    /\ UNCHANGED <<otaDb, otaListener, otaPush, otaAgain, otaBase, otaFull, otaSubs,
                   otaPage, otaFailed>>

\* (mutant) A request made while a push is under way is forgotten.
FlushJobOnce ==
    /\ otaTimer /\ otaTimer' = FALSE
    /\ otaPush' = IF otaPush.pc = "idle" /\ otaSubs # {}
                  THEN [otaPush EXCEPT !.pc = "load"] ELSE otaPush
    /\ UNCHANGED <<otaDb, otaListener, otaQueue, otaAgain, otaBase, otaFull, otaSubs,
                   otaPage, otaOwed, otaFailed>>

\* The timer fires, flushJob: a push under way is followed by one more.
FlushJob ==
    /\ otaTimer /\ otaTimer' = FALSE
    /\ IF otaPush.pc # "idle"
       THEN otaAgain' = TRUE /\ UNCHANGED otaPush
       ELSE /\ otaPush' = IF otaSubs = {} THEN otaPush ELSE [otaPush EXCEPT !.pc = "load"]
            /\ UNCHANGED otaAgain
    /\ UNCHANGED <<otaDb, otaListener, otaQueue, otaBase, otaFull, otaSubs,
                   otaPage, otaOwed, otaFailed>>

\* fetchOtaJobWithTargets reads the job.
FetchOtaJob ==
    /\ otaPush.pc = "load"
    /\ otaPush' = [pc |-> "loaded", job |-> otaDb]
    /\ UNCHANGED <<otaDb, otaListener, otaQueue, otaTimer, otaAgain, otaBase, otaFull, otaSubs,
                   otaPage, otaOwed, otaFailed>>

\* The push is over: one more if asked for.
PushDone ==
    /\ otaPush' = IdlePush
    /\ otaAgain' = FALSE
    /\ IF otaAgain THEN SchedulePush(otaSubs) ELSE UNCHANGED otaTimer

\* The read fails: the news waits for the next notification.
FetchFails ==
    /\ otaPush.pc = "load" /\ otaFailed < OtaFaults
    /\ otaFailed' = otaFailed + 1
    /\ otaOwed' = {}
    /\ PushDone
    /\ UNCHANGED <<otaDb, otaListener, otaQueue, otaBase, otaFull, otaSubs, otaPage>>

\* pushJobUpdate: after the read, choose full or delta, remember what was
\* sent, and send to those subscribed now whose connection is open.
PushJobUpdate ==
    LET job      == otaPush.job
        previous == IF otaFull THEN NoBase ELSE otaBase
        changed  == {t \in OtaTargets : previous[t] # job[t]}
        merged(v) == [job   |-> [t \in OtaTargets |-> IF t \in changed THEN job[t] ELSE v.job[t]],
                      state |-> DeriveJobState(job)]
    IN
    /\ otaPush.pc = "loaded"
    /\ otaFull' = FALSE
    /\ otaBase' = IF changed = {} THEN otaBase ELSE job
    /\ otaView' = [w \in OtaSockets |->
                     IF changed # {} /\ w \in otaSubs /\ otaSocks[w] = "open"
                     THEN merged(otaView[w]) ELSE otaView[w]]
    /\ PushDone
    /\ UNCHANGED <<otaDb, otaListener, otaQueue, otaSubs, otaSocks, otaRest, otaOver, otaOwed, otaFailed>>

\* The page starts: the job is read over REST, and the connection opens.
PageLoads(w) ==
    /\ otaSocks[w] = "new"
    /\ otaSocks' = [otaSocks EXCEPT ![w] = "opening"]
    /\ otaRest' = [otaRest EXCEPT ![w] = otaDb]
    /\ UNCHANGED <<otaDb, otaListener, otaQueue, otaHub, otaView, otaOver, otaOwed, otaFailed>>

\* The REST answer replaces what the page shows, a newer frame included: a
\* page overwritten so is only put right by its next poll.
PageLoaded(w) ==
    /\ otaRest[w] # NoBase
    /\ otaView' = [otaView EXCEPT ![w] = [job |-> otaRest[w], state |-> DeriveJobState(otaRest[w])]]
    /\ otaRest' = [otaRest EXCEPT ![w] = NoBase]
    /\ otaOver' = IF otaView[w] = Nothing THEN otaOver ELSE otaOver \cup {w}
    /\ UNCHANGED <<otaDb, otaListener, otaQueue, otaHub, otaSocks, otaOwed, otaFailed>>

\* subscribe: a new subscriber makes the next push a full one.
Subscribe(w) ==
    /\ otaSubs' = otaSubs \cup {w}
    /\ otaFull' = TRUE
    /\ otaListener' = IF otaListener = "off" THEN "connecting" ELSE otaListener

\* The route's handshake and open: beyond the cap the socket is closed
\* without having been subscribed.
Open(w) ==
    /\ otaSocks[w] = "opening"
    /\ IF Cardinality(otaSubs) >= OtaMaxSockets
       THEN /\ otaSocks' = [otaSocks EXCEPT ![w] = "closing"]
            /\ UNCHANGED <<otaSubs, otaFull, otaListener>>
       ELSE /\ otaSocks' = [otaSocks EXCEPT ![w] = "open"]
            /\ Subscribe(w)
    /\ UNCHANGED <<otaDb, otaQueue, otaTimer, otaPush, otaAgain, otaBase, otaRest, otaView, otaOver,
                   otaOwed, otaFailed>>

\* The connection ends; its close handler has not run yet.  Also the end of an
\* open handler whose lookup of the job's project fails, which closes the socket
\* it has subscribed (StreamAccess has what the page does then).
ConnectionEnds(w) ==
    /\ otaSocks[w] = "open"
    /\ otaSocks' = [otaSocks EXCEPT ![w] = "closing"]
    /\ UNCHANGED <<otaDb, otaListener, otaQueue, otaHub, otaRest, otaView, otaOver, otaOwed, otaFailed>>

\* unsubscribe: the baseline goes with the last subscriber.
Unsubscribe(w) ==
    /\ otaSubs' = otaSubs \ {w}
    /\ otaBase' = IF w \in otaSubs /\ otaSubs' = {} THEN NoBase ELSE otaBase

\* The route's close handler.
Close(w) ==
    /\ otaSocks[w] = "closing"
    /\ otaSocks' = [otaSocks EXCEPT ![w] = "closed"]
    /\ Unsubscribe(w)
    /\ otaOwed' = otaOwed \ {w}
    /\ UNCHANGED <<otaDb, otaListener, otaQueue, otaTimer, otaPush, otaAgain, otaFull,
                   otaRest, otaView, otaOver, otaFailed>>

-----------------------------------------------------------------------------
OtaNext ==
    \/ \E t \in OtaTargets : TargetChanges(t)
    \/ Listen \/ Reconnect \/ OnNotification
    \/ FlushJob \/ FetchOtaJob \/ FetchFails \/ PushJobUpdate
    \/ \E w \in OtaSockets : PageLoads(w) \/ PageLoaded(w) \/ Open(w) \/ ConnectionEnds(w) \/ Close(w)

-----------------------------------------------------------------------------
\* A page whose socket was subscribed when the last news reached the hub
\* shows the job as it is, whatever it had loaded before, unless its REST
\* answer arrived after a frame.
OtaPagesCurrent ==
    \A w \in otaOwed \ otaOver : otaSocks[w] = "open" =>
       otaView[w] = [job |-> otaDb, state |-> DeriveJobState(otaDb)]
=============================================================================
