------------------------------ MODULE LogStream -----------------------------
(***************************************************************************)
(* The realtime log stream of one device (api/log-stream.ts).  Each stored *)
(* event notifies the channel; the hub keeps the id of the last event it   *)
(* pushed and sends the subscribers everything above it, in slices.  A     *)
(* subscription is ready once the mark has been set to the newest event.   *)
(*                                                                         *)
(* Ids come from a sequence and two writers may commit out of order: an    *)
(* event stored after a later id was stored may be passed by the mark.     *)
(***************************************************************************)
LOCAL INSTANCE Integers
LOCAL INSTANCE FiniteSets
LOCAL INSTANCE FiniteSetsExt
LOCAL INSTANCE Sequences
LOCAL INSTANCE SequencesExt

CONSTANTS
    LogSockets,   \* connections, each made once
    LogEvents,    \* bound on the events
    LogMaxSockets,\* MAX_CONNECTIONS
    LogSlice,     \* PUSH_BATCH_SIZE
    LogFaults     \* bound on lost notifications and failed queries

VARIABLES
    logStored, \* committed event ids
    logQueue,  \* is a notification on its way
    logTimer,  \* pendingTimers
    logMark,   \* lastPushed: -1 when the device has none
    logPush,   \* flushing: the push under way, its own mark and rows
    logAgain,  \* flushAgain
    logSubs,   \* subscribers
    logAsked,  \* connections whose baseline query is under way
    logSocks,  \* state of each connection
    logGot,    \* ids each connection received, in order
    logDue,    \* history: the events each connection must get
    logOld,    \* history: the events that are no news to each connection
    logFailed  \* faults so far

logHub == <<logTimer, logMark, logPush, logAgain, logSubs, logAsked>>
logWitness == <<logGot, logDue, logOld, logFailed>>
logVars == <<logStored, logQueue, logHub, logSocks, logWitness>>

-----------------------------------------------------------------------------
NoPush == [pc |-> "idle", mark |-> -1, rows |-> {}]
Newest == IF logStored = {} THEN 0 ELSE Max(logStored)

LogInit ==
    /\ logStored = {} /\ logQueue = FALSE
    /\ logTimer = FALSE /\ logMark = -1 /\ logPush = NoPush /\ logAgain = FALSE
    /\ logSubs = {} /\ logAsked = {}
    /\ logSocks = [w \in LogSockets |-> "new"]
    /\ logGot = [w \in LogSockets |-> <<>>]
    /\ logDue = [w \in LogSockets |-> {}]
    /\ logOld = [w \in LogSockets |-> {}]
    /\ logFailed = 0

\* An event commits, perhaps before one with a smaller id; such a late event
\* is no news to anyone.
EventStored ==
    /\ \E e \in {i \in 1 .. LogEvents : i \notin logStored
                                        /\ Cardinality({j \in 1 .. i : j \notin logStored}) <= 2} :
          /\ logStored' = logStored \cup {e}
          /\ logOld' = IF e < Newest THEN [w \in LogSockets |-> logOld[w] \cup {e}] ELSE logOld
    /\ logQueue' = TRUE
    /\ UNCHANGED <<logHub, logSocks, logGot, logDue, logFailed>>

EventNoticeLost ==
    /\ logQueue /\ logFailed < LogFaults
    /\ logQueue' = FALSE /\ logFailed' = logFailed + 1
    /\ UNCHANGED <<logStored, logHub, logSocks, logGot, logDue, logOld>>

\* schedulePush.
ScheduleLogs == logTimer' = (logTimer \/ logSubs # {})

EventNotified ==
    /\ logQueue
    /\ logQueue' = FALSE
    /\ ScheduleLogs
    /\ logDue' = [w \in LogSockets |-> IF w \in logSubs /\ logSocks[w] = "open"
                                       THEN logStored \ logOld[w] ELSE logDue[w]]
    /\ UNCHANGED <<logStored, logMark, logPush, logAgain, logSubs, logAsked, logSocks, logGot, logOld, logFailed>>

\* The timer fires, flush: one push per device at a time.
FlushLogs ==
    /\ logTimer /\ logTimer' = FALSE
    /\ IF logPush.pc # "idle"
       THEN logAgain' = TRUE /\ UNCHANGED logPush
       ELSE /\ UNCHANGED logAgain
            /\ logPush' = IF logSubs = {} THEN logPush
                          ELSE [NoPush EXCEPT !.pc = IF logMark = -1 THEN "baseline" ELSE "load",
                                              !.mark = logMark]
    /\ UNCHANGED <<logStored, logQueue, logMark, logSubs, logAsked, logSocks, logWitness>>

\* A push without a mark makes the newest event the mark, whatever mark a
\* subscription has set meanwhile: what the new mark passes over is not
\* streamed to anyone (pushEvents: "lossy by design").
PushBaseline ==
    /\ logPush.pc = "baseline"
    /\ logMark' = Newest
    /\ logPush' = [logPush EXCEPT !.pc = "load", !.mark = Newest]
    /\ logOld' = [w \in LogSockets |-> logOld[w] \cup logStored]
    /\ logDue' = [w \in LogSockets |-> {}]
    /\ UNCHANGED <<logStored, logQueue, logTimer, logAgain, logSubs, logAsked, logSocks, logGot, logFailed>>

\* The end of a push.
LogsPushed ==
    /\ logPush' = NoPush /\ logAgain' = FALSE
    /\ IF logAgain THEN ScheduleLogs ELSE UNCHANGED logTimer

\* The rows above the push's mark, at most a slice of them.
LoadEvents ==
    LET above == {e \in logStored : e > logPush.mark}
        rows  == {e \in above : Cardinality({f \in above : f <= e}) <= LogSlice} IN
    /\ logPush.pc = "load"
    /\ IF rows = {} THEN LogsPushed
                    ELSE /\ logPush' = [logPush EXCEPT !.pc = "send", !.rows = rows]
                         /\ UNCHANGED <<logTimer, logAgain>>
    /\ UNCHANGED <<logStored, logQueue, logMark, logSubs, logAsked, logSocks, logWitness>>

\* A query fails: the mark stays, and the next notification tries again.
LoadEventsFails ==
    /\ logPush.pc \in {"baseline", "load"} /\ logFailed < LogFaults
    /\ logFailed' = logFailed + 1
    /\ logDue' = [w \in LogSockets |-> {}]
    /\ LogsPushed
    /\ UNCHANGED <<logStored, logQueue, logMark, logSubs, logAsked, logSocks, logGot, logOld>>

\* pushEvents: send the slice to those subscribed now, advance the mark, and
\* go on after a full slice.
PushEvents ==
    LET rows == logPush.rows IN
    /\ logPush.pc = "send"
    /\ IF logSubs = {}
       THEN LogsPushed /\ UNCHANGED <<logMark, logGot>>
       ELSE /\ logMark' = Max(rows)
            /\ logGot' = [w \in LogSockets |-> IF w \in logSubs /\ logSocks[w] \in {"open", "baseline"}
                                               THEN logGot[w] \o SetToSortSeq(rows, <) ELSE logGot[w]]
            /\ IF Cardinality(rows) < LogSlice
               THEN LogsPushed
               ELSE /\ logPush' = [pc |-> "load", mark |-> Max(rows), rows |-> {}]
                    /\ UNCHANGED <<logTimer, logAgain>>
    /\ UNCHANGED <<logStored, logQueue, logSubs, logAsked, logSocks, logDue, logOld, logFailed>>

\* subscribe: within the cap the connection counts, and the mark is asked for
\* if there is none.
SubscribeLogs(w) ==
    LET full == Cardinality(logSubs) >= LogMaxSockets
        ask  == ~full /\ logMark = -1 IN
    /\ logSocks' = [logSocks EXCEPT ![w] = CASE full -> "closing" [] ask -> "baseline" [] OTHER -> "open"]
    /\ logSubs' = IF full THEN logSubs ELSE logSubs \cup {w}
    /\ logAsked' = IF ask THEN logAsked \cup {w} ELSE logAsked

\* unsubscribe: mark and timer go with the last subscriber.
UnsubscribeLogs(w) ==
    LET last == w \in logSubs /\ logSubs = {w} IN
    /\ logSubs' = logSubs \ {w}
    /\ logMark' = IF last THEN -1 ELSE logMark
    /\ logTimer' = (logTimer /\ ~last)

\* The handshake and open.  A failed lookup of the device's project after it
\* leaves the socket subscribed, without a membership check (StreamAccess).
OpenLogs(w) ==
    /\ logSocks[w] = "new"
    /\ SubscribeLogs(w)
    /\ logOld' = [logOld EXCEPT ![w] = logStored]
    /\ UNCHANGED <<logStored, logQueue, logTimer, logMark, logPush, logAgain, logGot, logDue, logFailed>>

\* The connections whose own baseline query failed while there was no mark:
\* until a mark is set they are "silent", and it may pass over what they are due.
Silenced == IF logMark = -1 /\ logFailed > 0 THEN LogSockets ELSE {}

\* initBaseline answers, or fails: set the mark unless a push did, even if the
\* connection has gone, and then send the ready frame.
InitBaseline(w) ==
    /\ w \in logAsked
    /\ logAsked' = logAsked \ {w}
    /\ \/ /\ logMark' = IF logMark = -1 THEN Newest ELSE logMark
          /\ logOld' = [v \in LogSockets |-> IF v \in Silenced \cup {w} THEN logOld[v] \cup logStored
                                                                        ELSE logOld[v]]
          /\ logDue' = [v \in LogSockets |-> IF v \in Silenced THEN {} ELSE logDue[v]]
          /\ UNCHANGED logFailed
       \/ /\ logFailed < LogFaults /\ logFailed' = logFailed + 1
          /\ logOld' = [logOld EXCEPT ![w] = logStored]
          /\ UNCHANGED <<logMark, logDue>>
    /\ logSocks' = [logSocks EXCEPT ![w] = IF @ = "baseline" THEN "open" ELSE @]
    /\ UNCHANGED <<logStored, logQueue, logTimer, logPush, logAgain, logSubs, logGot>>

LogConnectionEnds(w) ==
    /\ logSocks[w] \in {"open", "baseline"}
    /\ logSocks' = [logSocks EXCEPT ![w] = "closing"]
    /\ UNCHANGED <<logStored, logQueue, logHub, logWitness>>

\* The close handler.
CloseLogs(w) ==
    /\ logSocks[w] = "closing"
    /\ logSocks' = [logSocks EXCEPT ![w] = "closed"]
    /\ UnsubscribeLogs(w)
    /\ UNCHANGED <<logStored, logQueue, logPush, logAgain, logAsked, logWitness>>

-----------------------------------------------------------------------------
LogNext ==
    \/ EventStored \/ EventNoticeLost \/ EventNotified
    \/ FlushLogs \/ PushBaseline \/ LoadEvents \/ LoadEventsFails \/ PushEvents
    \/ \E w \in LogSockets :
          OpenLogs(w) \/ InitBaseline(w) \/ LogConnectionEnds(w) \/ CloseLogs(w)

-----------------------------------------------------------------------------
\* Everything a ready connection was notified of has been sent to it, and no
\* connection gets an event twice or out of order.
LogsComplete ==
    \A w \in LogSockets :
       /\ logSocks[w] = "open" => \A e \in logDue[w] : \E i \in DOMAIN logGot[w] : logGot[w][i] = e
       /\ \A i, j \in DOMAIN logGot[w] : i < j => logGot[w][i] < logGot[w][j]
=============================================================================
