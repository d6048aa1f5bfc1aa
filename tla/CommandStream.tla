---------------------------- MODULE CommandStream ---------------------------
(***************************************************************************)
(* The realtime stream of one command batch (api/command-stream.ts).  Each *)
(* result notifies the channel; the hub merges notifications, loads the    *)
(* batch and sends a frame that only says that something changed; the      *)
(* panel that gets it fetches the commands again over REST (CommandPanel). *)
(* The panel's 10 s poll is left out.                                      *)
(***************************************************************************)
LOCAL INSTANCE Integers
LOCAL INSTANCE FiniteSets

CONSTANTS
    CmdSockets,     \* connections, each made once
    CmdMaxSockets,  \* SOULCLOUD_WS_MAX_CONNECTIONS
    CmdResults,     \* results the batch will get
    CmdFaults       \* bound on lost notifications and failed loads

VARIABLES
    cmdDb,     \* results stored so far
    cmdQueue,  \* is a notification on its way
    cmdTimer,  \* pendingTimers
    cmdPush,   \* pushing: "idle", "load" or "loaded"
    cmdAgain,  \* pushAgain
    cmdSubs,   \* subscribers
    cmdSocks,  \* state of each connection
    cmdFetch,  \* panels with a fetch to make
    cmdView,   \* results each panel shows
    cmdOwed,   \* history: sockets subscribed when the last news reached the hub
    cmdFailed  \* faults so far

cmdHub == <<cmdTimer, cmdPush, cmdAgain, cmdSubs>>
cmdPanel == <<cmdSocks, cmdFetch, cmdView>>
cmdVars == <<cmdDb, cmdQueue, cmdHub, cmdPanel, cmdOwed, cmdFailed>>

-----------------------------------------------------------------------------
CmdInit ==
    /\ cmdDb = 0 /\ cmdQueue = FALSE
    /\ cmdTimer = FALSE /\ cmdPush = "idle" /\ cmdAgain = FALSE /\ cmdSubs = {}
    /\ cmdSocks = [w \in CmdSockets |-> "new"]
    /\ cmdFetch = {} /\ cmdView = [w \in CmdSockets |-> 0]
    /\ cmdOwed = {} /\ cmdFailed = 0

\* A result is stored and the channel notified.
ResultStored ==
    /\ cmdDb < CmdResults
    /\ cmdDb' = cmdDb + 1
    /\ cmdQueue' = TRUE
    /\ UNCHANGED <<cmdHub, cmdPanel, cmdOwed, cmdFailed>>

\* The notification is lost with the listener's connection.
ResultLost ==
    /\ cmdQueue /\ cmdFailed < CmdFaults
    /\ cmdQueue' = FALSE /\ cmdOwed' = {} /\ cmdFailed' = cmdFailed + 1
    /\ UNCHANGED <<cmdDb, cmdHub, cmdPanel>>

\* schedulePush, for the subscribers there are.
ScheduleBatch == cmdTimer' = (cmdTimer \/ cmdSubs # {})

ResultNotified ==
    /\ cmdQueue
    /\ cmdQueue' = FALSE
    /\ ScheduleBatch
    /\ cmdOwed' = cmdSubs
    /\ UNCHANGED <<cmdDb, cmdPush, cmdAgain, cmdSubs, cmdPanel, cmdFailed>>

\* The timer fires, flushBatch: loads of one batch are serialised.
FlushBatch ==
    /\ cmdTimer /\ cmdTimer' = FALSE
    /\ IF cmdPush # "idle"
       THEN cmdAgain' = TRUE /\ UNCHANGED cmdPush
       ELSE cmdPush' = (IF cmdSubs = {} THEN "idle" ELSE "load") /\ UNCHANGED cmdAgain
    /\ UNCHANGED <<cmdDb, cmdQueue, cmdSubs, cmdPanel, cmdOwed, cmdFailed>>

\* loadCommandBatchDetail answers.
BatchLoaded ==
    /\ cmdPush = "load" /\ cmdPush' = "loaded"
    /\ UNCHANGED <<cmdDb, cmdQueue, cmdTimer, cmdAgain, cmdSubs, cmdPanel, cmdOwed, cmdFailed>>

\* The end of a push: a request made meanwhile is scheduled again.
BatchPushed ==
    /\ cmdPush' = "idle" /\ cmdAgain' = FALSE
    /\ IF cmdAgain THEN ScheduleBatch ELSE UNCHANGED cmdTimer

BatchLoadFails ==
    /\ cmdPush = "load" /\ cmdFailed < CmdFaults
    /\ BatchPushed
    /\ cmdOwed' = {} /\ cmdFailed' = cmdFailed + 1
    /\ UNCHANGED <<cmdDb, cmdQueue, cmdSubs, cmdPanel>>

\* pushBatch: the frame goes to those subscribed now.
PushBatch ==
    /\ cmdPush = "loaded"
    /\ cmdFetch' = cmdFetch \cup {w \in cmdSubs : cmdSocks[w] = "open"}
    /\ BatchPushed
    /\ UNCHANGED <<cmdDb, cmdQueue, cmdSubs, cmdSocks, cmdView, cmdOwed, cmdFailed>>

\* refreshHistory: a newer request replaces a fetch that is under way.
RefreshHistory(w) ==
    /\ w \in cmdFetch
    /\ cmdView' = [cmdView EXCEPT ![w] = cmdDb]
    /\ cmdFetch' = cmdFetch \ {w}
    /\ UNCHANGED <<cmdDb, cmdQueue, cmdHub, cmdSocks, cmdOwed, cmdFailed>>

\* subscribe: a socket beyond the cap is closed and not counted.
SubscribeBatch(w) ==
    LET full == Cardinality(cmdSubs) >= CmdMaxSockets IN
    /\ cmdSocks' = [cmdSocks EXCEPT ![w] = IF full THEN "closing" ELSE "open"]
    /\ cmdSubs' = IF full THEN cmdSubs ELSE cmdSubs \cup {w}

\* unsubscribe: a socket that was refused takes nothing from the count.
UnsubscribeBatch(w) == cmdSubs' = cmdSubs \ {w}

\* The handshake and open.
OpenBatch(w) ==
    /\ cmdSocks[w] = "new"
    /\ SubscribeBatch(w)
    /\ UNCHANGED <<cmdDb, cmdQueue, cmdTimer, cmdPush, cmdAgain, cmdFetch, cmdView, cmdOwed, cmdFailed>>

\* The connection ends, by the page, the network or, as in OtaStream, an open
\* handler whose lookup of the batch fails.
BatchConnectionEnds(w) ==
    /\ cmdSocks[w] = "open"
    /\ cmdSocks' = [cmdSocks EXCEPT ![w] = "closing"]
    /\ UNCHANGED <<cmdDb, cmdQueue, cmdHub, cmdFetch, cmdView, cmdOwed, cmdFailed>>

\* The close handler.
CloseBatch(w) ==
    /\ cmdSocks[w] = "closing"
    /\ cmdSocks' = [cmdSocks EXCEPT ![w] = "closed"]
    /\ UnsubscribeBatch(w)
    /\ UNCHANGED <<cmdDb, cmdQueue, cmdTimer, cmdPush, cmdAgain, cmdFetch, cmdView, cmdOwed, cmdFailed>>

-----------------------------------------------------------------------------
CmdNext ==
    \/ ResultStored \/ ResultLost \/ ResultNotified
    \/ FlushBatch \/ BatchLoaded \/ BatchLoadFails \/ PushBatch
    \/ \E w \in CmdSockets :
          RefreshHistory(w) \/ OpenBatch(w) \/ BatchConnectionEnds(w) \/ CloseBatch(w)

-----------------------------------------------------------------------------
\* A panel whose socket was subscribed when the last result reached the hub
\* shows every result.
CmdPanelsCurrent == \A w \in cmdOwed : cmdSocks[w] = "open" => cmdView[w] = cmdDb
=============================================================================
