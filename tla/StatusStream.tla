---------------------------- MODULE StatusStream ----------------------------
(***************************************************************************)
(* The realtime status of one device (api/status-stream.ts): notifications *)
(* are merged per device, each merged state is looked up and pushed by a   *)
(* call of its own, which nothing orders with the calls before it, and the *)
(* last known state is replayed to new subscribers until it is too old.    *)
(***************************************************************************)
LOCAL INSTANCE Integers
LOCAL INSTANCE Sequences
LOCAL INSTANCE FiniteSets

CONSTANTS
    StSockets,    \* connections, each made once
    StMaxSockets, \* MAX_CONNECTIONS
    StReports,    \* bound on the status changes the brokers report
    StFaults      \* bound on lost notifications and failed lookups

VARIABLES
    stQueue,    \* notifications on their way, in order
    stLast,     \* history: the state of the last notification the hub got
    stReported, \* changes reported so far
    stPending,  \* pending: the merged state waiting for its timer, or "none"
    stRunning,  \* calls of resolveAndPush under way: number -> state
    stStarted,  \* history: calls started
    stWriter,   \* history: the call that wrote the known state
    stKnown,    \* known: the state, or "none"
    stSubs,     \* subscribers
    stSocks,    \* state of each connection
    stView,     \* what each page shows
    stFailed    \* faults so far

stVars == <<stQueue, stLast, stReported, stPending, stRunning, stStarted, stWriter,
            stKnown, stSubs, stSocks, stView, stFailed>>

-----------------------------------------------------------------------------
StInit ==
    /\ stQueue = <<>> /\ stLast = "none" /\ stReported = 0
    /\ stPending = "none" /\ stRunning = <<>> /\ stStarted = 0 /\ stWriter = 0
    /\ stKnown = "none" /\ stSubs = {}
    /\ stSocks = [w \in StSockets |-> "new"]
    /\ stView = [w \in StSockets |-> "none"]
    /\ stFailed = 0

\* A broker reports the device on- or offline.
StatusReported ==
    /\ stReported < StReports
    /\ stReported' = stReported + 1
    /\ \E s \in {"online", "offline"} : stQueue' = Append(stQueue, s)
    /\ UNCHANGED <<stLast, stPending, stRunning, stStarted, stWriter, stKnown, stSubs,
                   stSocks, stView, stFailed>>

\* Notifications are lost with the listener's connection.
StatusLost ==
    /\ stQueue # <<>> /\ stFailed < StFaults
    /\ stQueue' = <<>> /\ stFailed' = stFailed + 1
    /\ UNCHANGED <<stLast, stReported, stPending, stRunning, stStarted, stWriter, stKnown,
                   stSubs, stSocks, stView>>

\* A call of resolveAndPush starts.  stRunning keeps an entry per call.
StartResolve(s) ==
    /\ stStarted' = stStarted + 1
    /\ stRunning' = Append(stRunning, s)

\* scheduleResolve: the first state of a window waits, later ones replace it,
\* and one that comes after the maximal wait is resolved at once.
ScheduleResolve ==
    LET s == Head(stQueue) IN
    /\ stQueue # <<>>
    /\ stQueue' = Tail(stQueue)
    /\ stLast' = s
    /\ \/ stPending' = s /\ UNCHANGED <<stRunning, stStarted>>
       \/ stPending # "none" /\ stPending' = "none" /\ StartResolve(s)
    /\ UNCHANGED <<stReported, stWriter, stKnown, stSubs, stSocks, stView, stFailed>>

\* The window's timer fires.
ResolvePending ==
    /\ stPending # "none"
    /\ stPending' = "none"
    /\ StartResolve(stPending)
    /\ UNCHANGED <<stQueue, stLast, stReported, stWriter, stKnown, stSubs, stSocks, stView, stFailed>>

\* resolveAndPush after its lookup: record the state and send it, or drop it
\* when the lookup failed.
ResolveAndPush(n) ==
    /\ n \in DOMAIN stRunning /\ stRunning[n] # "done"
    /\ stRunning' = [stRunning EXCEPT ![n] = "done"]
    /\ \/ /\ stKnown' = stRunning[n]
          /\ stWriter' = n
          /\ stView' = [w \in StSockets |-> IF w \in stSubs /\ stSocks[w] = "open"
                                            THEN stRunning[n] ELSE stView[w]]
          /\ UNCHANGED stFailed
       \/ /\ stFailed < StFaults /\ stFailed' = stFailed + 1
          /\ UNCHANGED <<stKnown, stWriter, stView>>
    /\ UNCHANGED <<stQueue, stLast, stReported, stPending, stStarted, stSubs, stSocks>>

\* pruneExpiredKnown.
PruneExpiredKnown ==
    /\ stKnown # "none"
    /\ stKnown' = "none"
    /\ UNCHANGED <<stQueue, stLast, stReported, stPending, stRunning, stStarted, stWriter,
                   stSubs, stSocks, stView, stFailed>>

\* subscribe: within the cap the connection counts and the known state is
\* replayed to it.
SubscribeStatus(w) ==
    LET full == Cardinality(stSubs) >= StMaxSockets IN
    /\ stSocks' = [stSocks EXCEPT ![w] = IF full THEN "closing" ELSE "open"]
    /\ stSubs' = IF full THEN stSubs ELSE stSubs \cup {w}
    /\ stView' = [stView EXCEPT ![w] = IF full THEN "none" ELSE stKnown]

UnsubscribeStatus(w) == stSubs' = stSubs \ {w}

\* The handshake and open.
OpenStatus(w) ==
    /\ stSocks[w] = "new"
    /\ SubscribeStatus(w)
    /\ UNCHANGED <<stQueue, stLast, stReported, stPending, stRunning, stStarted, stWriter,
                   stKnown, stFailed>>

StatusConnectionEnds(w) ==
    /\ stSocks[w] = "open"
    /\ stSocks' = [stSocks EXCEPT ![w] = "closing"]
    /\ UNCHANGED <<stQueue, stLast, stReported, stPending, stRunning, stStarted, stWriter,
                   stKnown, stSubs, stView, stFailed>>

\* The close handler.
CloseStatus(w) ==
    /\ stSocks[w] = "closing"
    /\ stSocks' = [stSocks EXCEPT ![w] = "closed"]
    /\ UnsubscribeStatus(w)
    /\ UNCHANGED <<stQueue, stLast, stReported, stPending, stRunning, stStarted, stWriter,
                   stKnown, stView, stFailed>>

-----------------------------------------------------------------------------
StNext ==
    \/ StatusReported \/ StatusLost \/ ScheduleResolve \/ ResolvePending \/ PruneExpiredKnown
    \/ \E n \in 1 .. StReports : ResolveAndPush(n)
    \/ \E w \in StSockets : OpenStatus(w) \/ StatusConnectionEnds(w) \/ CloseStatus(w)

-----------------------------------------------------------------------------
\* When the last lookup started was also the last to write, the hub knows
\* the state it was last notified of, or has let it grow old, and every page
\* shows it, or nothing.
StatusCurrent ==
    stWriter = stStarted =>
       /\ stKnown \in {"none", stLast}
       /\ \A w \in stSubs : stSocks[w] = "open" =>
             stView[w] \in {stLast} \cup (IF stKnown = "none" THEN {"none"} ELSE {})
=============================================================================
