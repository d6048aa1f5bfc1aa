----------------------------- MODULE MCStreams ------------------------------
(***************************************************************************)
(* The realtime streams for TLC.  `part' is chosen once, of the Parts of   *)
(* the run; the streams share no state, so the runs of the parts are the   *)
(* runs of the whole.                                                      *)
(***************************************************************************)
EXTENDS Integers, OtaStream, CommandStream, LogStream, StatusStream, StreamAccess

CONSTANT Parts
VARIABLE part

MCVars == <<otaVars, cmdVars, logVars, stVars, accVars, part>>

\* The pages connect with the last of the tokens and faults to come; or with
\* tokens still to expire and no fault to come.
AccStarts ==
    /\ accMember = TRUE /\ accCached = FALSE /\ accSession = TRUE /\ accFresh = TRUE
    /\ accConn = [k \in AccConns |-> NoConn]
    /\ accNow = 0 /\ accRech = [r \in AccRechecks |-> NoRecheck]
    /\ accClient = [c \in AccClients |-> [st |-> "connecting", conn |-> 0]]
    /\ accCut = {}
    /\ \/ accToken = AccTokens /\ accFailed = 0
       \/ part = "access" /\ accToken = 1 /\ accFailed = AccFaults

MCInit ==
    /\ part \in Parts
    /\ OtaInit /\ CmdInit /\ LogInit /\ StInit /\ AccStarts

MCNext ==
    /\ UNCHANGED part
    /\ \/ part = "ota" /\ OtaNext /\ UNCHANGED <<cmdVars, logVars, stVars, accVars>>
       \/ part = "command" /\ CmdNext /\ UNCHANGED <<otaVars, logVars, stVars, accVars>>
       \/ part = "log" /\ LogNext /\ UNCHANGED <<otaVars, cmdVars, stVars, accVars>>
       \/ part = "status" /\ StNext /\ UNCHANGED <<otaVars, cmdVars, logVars, accVars>>
       \/ part = "access" /\ AccNext /\ UNCHANGED <<otaVars, cmdVars, logVars, stVars>>

\* Timers fire, queries answer, notifications that are not lost arrive and
\* pages reconnect; nobody has to change a job, run a command, log, connect,
\* disconnect or lose access.
OtaFairness ==
    /\ WF_otaVars(part = "ota" /\ Listen) /\ WF_otaVars(part = "ota" /\ OnNotification)
    /\ WF_otaVars(part = "ota" /\ FlushJob) /\ WF_otaVars(part = "ota" /\ FetchOtaJob)
    /\ WF_otaVars(part = "ota" /\ PushJobUpdate)
    /\ \A w \in OtaSockets : WF_otaVars(part = "ota" /\ PageLoaded(w))

CmdFairness ==
    /\ WF_cmdVars(part = "command" /\ ResultNotified)
    /\ WF_cmdVars(part = "command" /\ FlushBatch)
    /\ WF_cmdVars(part = "command" /\ BatchLoaded)
    /\ WF_cmdVars(part = "command" /\ PushBatch)
    /\ \A w \in CmdSockets : WF_cmdVars(part = "command" /\ RefreshHistory(w))

LogFairness ==
    /\ WF_logVars(part = "log" /\ EventNotified) /\ WF_logVars(part = "log" /\ FlushLogs)
    /\ WF_logVars(part = "log" /\ PushBaseline) /\ WF_logVars(part = "log" /\ LoadEvents)
    /\ WF_logVars(part = "log" /\ PushEvents)
    /\ \A w \in LogSockets : WF_logVars(part = "log" /\ InitBaseline(w))

StFairness ==
    /\ WF_stVars(part = "status" /\ ScheduleResolve)
    /\ WF_stVars(part = "status" /\ ResolvePending)
    /\ \A n \in 1 .. StReports : WF_stVars(part = "status" /\ ResolveAndPush(n))

\* A page, and a connection, has one thing to do at a time.
AccFairness ==
    /\ WF_accVars(part = "access" /\ CacheExpires) /\ WF_accVars(part = "access" /\ RestRefresh)
    /\ WF_accVars(part = "access" /\ RecheckTick)
    /\ \A c \in AccClients :
          WF_accVars(part = "access" /\ (Handshake(c) \/ ClientClosed(c) \/ Refreshed(c) \/ RetryTimer(c)))
    /\ \A k \in AccConns :
          WF_accVars(part = "access" /\ (ScheduleMembershipCheck(k) \/ ExpiryCheck(k) \/ CloseHandled(k)))
    /\ \A r \in AccRechecks : WF_accVars(part = "access" /\ RecheckAnswer(r))

MCSpec ==
    /\ MCInit /\ [][MCNext]_MCVars
    /\ OtaFairness /\ CmdFairness
    /\ LogFairness /\ StFairness
    /\ AccFairness

\* Whatever happens to connections and notifications, every stream settles:
\* the pages that were subscribed when the last news came show it (OTA job,
\* command batch, device status), and every log event a terminal was due was
\* sent to it once and in order.  About the timers, flags and re-runs of the
\* four hubs (schedulePush, flush, push) and what a page merges.
StreamsSettle == <>[](OtaPagesCurrent /\ CmdPanelsCurrent /\ LogsComplete /\ StatusCurrent)

\* A user removed from the project eventually has no open stream, a member
\* with a session has all of them, and the shared re-checker retires exactly
\* when there is nothing to watch; a hub that is full for a while, broken
\* connections and failed re-checks do not change it, a failed lookup of the
\* open handler does (AccessRight).  About the races of ws-access.ts between a
\* query in flight, the close handlers and a re-checker made meanwhile.
AccessSettles == <>[](part = "access" => AccessRight)
=============================================================================
