--------------------------- MODULE BrokerProcess ---------------------------
(***************************************************************************)
(* One broker process: the sessions of its devices and the executor of     *)
(* their messages share the clients.  A message travels over an open       *)
(* session; an error of its handler closes the session; a device sends     *)
(* again, over its next session, what was not acknowledged.                *)
(***************************************************************************)
EXTENDS DeviceSessions, UplinkQueue

vars == <<sessionVars, uplinkVars, faults>>

TypeOK == SessionsTypeOK /\ UplinkTypeOK /\ faults \in 0..MaxFaults

Init == SessionsInit /\ UplinkInit /\ faults = 0

Open == {c \in Conns : phase[c] = "open"}

\* Steps of the sessions that leave the executor alone.
ConnectionStep(c) ==
  \/ Connect(c) \/ AuthenticateDevice(c) \/ AuthAnswers(c) \/ AuthFails(c)
  \/ RestoreSubscriptions(c)
  \/ \E old \in Conns : ReplaceSession(c, old)
  \/ ClientRegistered(c)
  \/ \E t \in Topics : Subscribe(c, t) \/ Unsubscribe(c, t)
  \/ SocketCloses(c)

DeviceStep(d) ==
  \/ OfflineTimer(d)
  \/ RevokeCredentials(d) \/ IssueCredentials(d) \/ KickDeviceSession(d) \/ NotificationLost(d)

\* 'clientDisconnect': the work of the client goes on, its answers go nowhere.
Disconnect(c) ==
  /\ ClientDisconnect(c)
  /\ work' = Orphaned(work, c)
  /\ sent' = [sent EXCEPT ![c] = {}]
  /\ UNCHANGED <<tokens, unacked, stored, faults>>

\* A packet arrives on an open session; an error closes the session.
Publish(m, c) ==
  /\ phase[c] = "open" /\ Owner[c] = From[m] /\ m \notin sent[c]
  /\ \/ PublishPlain(m, c) /\ UNCHANGED phase
     \/ PublishDurable(m, c, "ack") /\ UNCHANGED phase
     \/ PublishDurable(m, c, "wait") /\ UNCHANGED phase
     \/ PublishDurable(m, c, "error") /\ phase' = [phase EXCEPT ![c] = "closing"]
  /\ UNCHANGED <<gate, registry, subs, saved, status, credentials, faults>>

RunHandler(w) ==
  /\ HandleUplink(w, Open)
  /\ UNCHANGED sessionVars

FailHandler(w) ==
  /\ HandlerFails(w, Open)
  /\ phase' = IF w.msg \in Durable /\ w.via \in Open
              THEN [phase EXCEPT ![w.via] = "closing"] ELSE phase
  /\ UNCHANGED <<gate, registry, subs, saved, status, credentials>>

\* The process stops, in order or not, and starts again: sessions, registry,
\* timers, buckets and queued work are in its memory.  aedes keeps persistent
\* sessions in memory too.
Restart ==
  /\ Fault
  /\ phase' = [c \in Conns |-> "none"]
  /\ active' = 0 /\ waiters' = <<>>
  /\ session' = [d \in Devices |-> NoConn]
  /\ topics' = [d \in Devices |-> {}] /\ pending' = [d \in Devices |-> {}]
  /\ overlapped' = {}
  /\ subs' = [c \in Conns |-> {}] /\ saved' = [d \in Devices |-> {}]
  /\ timer' = {} /\ kicks' = {}
  /\ work' = EmptyQueue /\ tokens' = [d \in {} |-> 0]
  /\ sent' = [c \in Conns |-> {}]
  /\ UNCHANGED <<shown, revoked, unacked, stored>>

Next ==
  \/ \E c \in Conns : ConnectionStep(c) /\ UNCHANGED uplinkVars
  \/ \E d \in Devices : DeviceStep(d) /\ UNCHANGED uplinkVars
  \/ \E d \in Devices : Refill(d) /\ UNCHANGED sessionVars
  \/ \E c \in Conns : Disconnect(c)
  \/ \E m \in Msgs, c \in Conns : Publish(m, c)
  \/ \E w \in work.executing : RunHandler(w) \/ FailHandler(w)
  \/ Restart

\* The event loop gets to every pending step, database calls return, time
\* passes, and a device without a session connects and sends what it holds.
Reconnect(c) ==
  /\ \A o \in Conns : Owner[o] = Owner[c] => phase[o] = "none"
  /\ Connect(c)

Fairness ==
  /\ \A c \in Conns :
       /\ WF_vars(/\ \/ Reconnect(c) \/ AuthenticateDevice(c) \/ AuthAnswers(c)
                     \/ RestoreSubscriptions(c)
                     \/ \E old \in Conns : ReplaceSession(c, old)
                     \/ ClientRegistered(c)
                  /\ UNCHANGED uplinkVars)
       /\ WF_vars(Disconnect(c))
  /\ \A d \in Devices : WF_vars(Refill(d) /\ UNCHANGED sessionVars)
  /\ \A d \in Devices : WF_vars(\E m \in Msgs, c \in Conns : From[m] = d /\ Publish(m, c))
  /\ \A d \in Devices : WF_vars(\E w \in work.executing : From[w.msg] = d /\ RunHandler(w))

Spec == Init /\ [][Next]_vars /\ Fairness

-----------------------------------------------------------------------------
\* The pollers and the revocation trust the registry: an entry is of a client
\* aedes still has, and its topics are exactly those the client is subscribed
\* to, restored ones included.  Only a persistent client that came while an
\* older session of its device was still there may lack some of its topics
\* (PassedOver; "restored sessions behave exactly like fresh ones" fails there),
\* never have one that aedes does not keep for it.  A device whose entry is
\* missing has no open session.
RegistryTellsTruth ==
  \A d \in Devices :
    LET c == session[d] IN
    IF c = NoConn
    THEN topics[d] = {} /\ \A o \in Open : Owner[o] # d
    ELSE /\ Owner[c] = d /\ phase[c] \in {"open", "closing"}
         /\ IF c \in overlapped THEN topics[d] \subseteq saved[d] ELSE topics[d] = subs[c]

\* A reconnection within the window cancels the deferred offline: a device with
\* a registered session is neither shown offline nor about to be.
NoFalseOffline ==
  \A d \in Devices : session[d] # NoConn => shown[d] = "online" /\ d \notin timer

\* The limits refuse a report of device d, and aedes closes its session.
RefusedByLimit(d) ==
  \E m \in Msgs, c \in Conns :
    From[m] = d /\ phase[c] = "open" /\ phase'[c] = "closing" /\ PublishDurable(m, c, "error")

\* Whatever closes its sessions - a handler's error, a kick, a lost connection,
\* a restart, a limit now and then - every report the broker may not drop is
\* recorded in the end, and a device sends again those that were not answered.
\* Two things can prevent it for ever: credentials revoked again and again, and
\* a device that over and over sends more before the first answer than the
\* limits let through, since each refusal also loses the answers on their way.
ReportsRecorded ==
  \A m \in Durable \cap Valid :
    ~Oversized(m) => \/ []<>(From[m] \in revoked)
                     \/ []<><<RefusedByLimit(From[m])>>_vars
                     \/ <>(m \in stored)
=============================================================================
