--------------------------- MODULE DeviceSessions ---------------------------
(***************************************************************************)
(* The MQTT sessions of one broker process: the authentication gate, the   *)
(* connection registry the pollers read, the online/offline notifications  *)
(* and the revocation of credentials.  A connection is a client object of  *)
(* the aedes library, which is external: it authenticates, restores the    *)
(* subscriptions of a persistent session, closes the session it replaces,  *)
(* and only then emits 'client'.                                           *)
(***************************************************************************)
EXTENDS Connections

CONSTANTS Topics, Persistent,         \* the downlink topics; devices with clean=false
          AuthLimit, AuthQueue        \* BROKER_AUTH_CONCURRENCY and the queue behind it

ASSUME SessionAssumption ==
  /\ Persistent \subseteq Devices
  /\ AuthLimit \in Nat \ {0} /\ AuthQueue \in Nat

VARIABLES
  phase,      \* where a connection is in its life
  active,     \* AuthSemaphore.active
  waiters,    \* AuthSemaphore.waiters
  session,    \* the registry: device -> client, or NoConn
  topics,     \* the registry: the topics of the device's entry
  pending,    \* pendingTopics: authorised before the entry exists
  overlapped, \* (history) persistent clients whose restored topics went elsewhere
  subs,       \* what aedes has subscribed for a connection
  saved,      \* what aedes persists for a device
  timer,      \* devices with a deferred offline notification
  shown,      \* the last status the broker asked to notify
  revoked,    \* devices.auth_revoked
  kicks       \* revocation notifications on their way to this broker

gate == <<active, waiters>>
registry == <<session, topics, pending, overlapped>>
status == <<timer, shown>>
credentials == <<revoked, kicks>>
sessionVars == <<phase, gate, registry, subs, saved, status, credentials>>

Phases == {"none", "waiting", "hashing", "verified", "refused", "authenticated", "restored",
           "open", "closing"}

SessionsTypeOK ==
  /\ phase \in [Conns -> Phases]
  /\ active \in 0..AuthLimit
  /\ waiters \in Seq(Conns) /\ Len(waiters) <= AuthQueue
  /\ session \in [Devices -> Conns \cup {NoConn}]
  /\ topics \in [Devices -> SUBSET Topics]
  /\ pending \in [Devices -> SUBSET Topics]
  /\ overlapped \in SUBSET Conns
  /\ subs \in [Conns -> SUBSET Topics]
  /\ saved \in [Devices -> SUBSET Topics]
  /\ timer \in SUBSET Devices
  /\ shown \in [Devices -> {"unknown", "online", "offline"}]
  /\ revoked \in SUBSET Devices
  /\ kicks \in SUBSET Devices

SessionsInit ==
  /\ phase = [c \in Conns |-> "none"]
  /\ active = 0
  /\ waiters = <<>>
  /\ session = [d \in Devices |-> NoConn]
  /\ topics = [d \in Devices |-> {}]
  /\ pending = [d \in Devices |-> {}]
  /\ overlapped = {}
  /\ subs = [c \in Conns |-> {}]
  /\ saved = [d \in Devices |-> {}]
  /\ timer = {}
  /\ shown = [d \in Devices |-> "unknown"]
  /\ revoked = {}
  /\ kicks = {}

-----------------------------------------------------------------------------
(* Authentication *)

\* The device opens a connection: because it has none, or because it believes
\* the one it has is lost.
Dials(c) ==
  IF \A o \in Conns : Owner[o] = Owner[c] => phase[o] = "none"
  THEN UNCHANGED faults
  ELSE Fault

\* CONNECT: the semaphore grants a slot, queues the attempt, or refuses it
\* when the queue is full.
Connect(c) ==
  /\ phase[c] = "none"
  /\ Dials(c)
  /\ \/ /\ active < AuthLimit
        /\ active' = active + 1
        /\ phase' = [phase EXCEPT ![c] = "hashing"]
        /\ UNCHANGED waiters
     \/ /\ active >= AuthLimit
        /\ Len(waiters) < AuthQueue
        /\ waiters' = Append(waiters, c)
        /\ phase' = [phase EXCEPT ![c] = "waiting"]
        /\ UNCHANGED active
  /\ UNCHANGED <<registry, subs, saved, status, credentials>>

\* authenticateDevice reads the row; the hash is verified afterwards.
AuthenticateDevice(c) ==
  /\ phase[c] = "hashing"
  /\ phase' = [phase EXCEPT ![c] = IF Owner[c] \in revoked THEN "refused" ELSE "verified"]
  /\ UNCHANGED <<gate, registry, subs, saved, status, credentials, faults>>

\* (mutant) The freed slot is not handed to the next waiter.
ReleaseWithoutGrant(c, next) ==
  /\ active' = active - 1
  /\ phase' = [phase EXCEPT ![c] = next]
  /\ UNCHANGED waiters

\* AuthSemaphore.release, after the answer that moves c to its next phase: the
\* slot goes to the next waiter, who starts hashing only now.
Release(c, next) ==
  IF waiters = <<>>
  THEN /\ active' = active - 1
       /\ phase' = [phase EXCEPT ![c] = next]
       /\ UNCHANGED waiters
  ELSE /\ waiters' = Tail(waiters)
       /\ phase' = [phase EXCEPT ![c] = next, ![Head(waiters)] = "hashing"]
       /\ UNCHANGED active

\* The callback of authenticate: granted, refused (after a fixed delay that
\* keeps the slot), or a database error that the device may retry.
AuthAnswers(c) ==
  /\ \/ phase[c] = "verified" /\ Release(c, "authenticated")
     \/ phase[c] = "refused" /\ Release(c, "none")
  /\ UNCHANGED <<registry, subs, saved, status, credentials, faults>>

AuthFails(c) ==
  /\ phase[c] = "hashing"
  /\ Fault
  /\ Release(c, "none")
  /\ UNCHANGED <<registry, subs, saved, status, credentials>>

-----------------------------------------------------------------------------
(* The registry *)

\* noteAuthorizedSubscription: into the entry of the device's session if there
\* is one, whichever session that is, else into the buffer.
NoteAuthorized(d, ts) ==
  IF session[d] # NoConn
  THEN topics' = [topics EXCEPT ![d] = @ \cup ts] /\ UNCHANGED pending
  ELSE pending' = [pending EXCEPT ![d] = @ \cup ts] /\ UNCHANGED topics

\* aedes restores the subscriptions of a persistent session before it
\* registers the client; each passes authorizeSubscribe.  While an older
\* session has the entry, that entry takes the topics.
RestoreSubscriptions(c) ==
  LET d == Owner[c] IN
  /\ phase[c] = "authenticated"
  /\ phase' = [phase EXCEPT ![c] = "restored"]
  /\ IF d \in Persistent
     THEN /\ subs' = [subs EXCEPT ![c] = saved[d]]
          /\ NoteAuthorized(d, saved[d])
          /\ overlapped' = IF session[d] # NoConn THEN overlapped \cup {c} ELSE overlapped
     ELSE /\ subs' = [subs EXCEPT ![c] = {}]
          /\ UNCHANGED <<topics, pending, overlapped>>
  /\ UNCHANGED <<gate, session, saved, status, credentials, faults>>

\* aedes closes the session it is about to replace.
ReplaceSession(c, old) ==
  /\ phase[c] = "restored" /\ phase[old] = "open"
  /\ c # old /\ Owner[c] = Owner[old]
  /\ phase' = [phase EXCEPT ![old] = "closing"]
  /\ UNCHANGED <<gate, registry, subs, saved, status, credentials, faults>>

\* (mutant) A reconnection leaves the offline timer running.
NotifyOnlineOnly(d) == shown' = [shown EXCEPT ![d] = "online"] /\ UNCHANGED timer

\* The status listeners: a reconnection inside the window means the device was
\* never offline; a disconnection (re)starts the window.
NotifyOnline(d) ==
  /\ timer' = timer \ {d}
  /\ shown' = [shown EXCEPT ![d] = "online"]

DeferOffline(d) == timer' = timer \cup {d} /\ UNCHANGED shown

\* Registering c takes the buffered topics of every other client restored with it.
PassedOver(c) ==
  {o \in Conns \ {c} : Owner[o] = Owner[c] /\ Owner[c] \in Persistent /\ phase[o] = "restored"}

\* (mutant) The buffered topics are not adopted.
ClientWithoutAdopting(c) ==
  LET d == Owner[c] IN
  /\ phase[c] = "restored"
  /\ \A o \in Conns \ {c} : Owner[o] = d => phase[o] \notin {"open", "closing"}
  /\ phase' = [phase EXCEPT ![c] = "open"]
  /\ session' = [session EXCEPT ![d] = c]
  /\ topics' = [topics EXCEPT ![d] = {}]
  /\ pending' = [pending EXCEPT ![d] = {}]
  /\ overlapped' = overlapped \cup PassedOver(c)
  /\ NotifyOnline(d)
  /\ UNCHANGED <<gate, subs, saved, credentials, faults>>

\* The 'client' event and its three listeners: the registry adopts the
\* buffered topics, a deferred offline notification is cancelled, and online
\* is notified.
ClientRegistered(c) ==
  LET d == Owner[c] IN
  /\ phase[c] = "restored"
  /\ \A o \in Conns \ {c} : Owner[o] = d => phase[o] \notin {"open", "closing"}
  /\ phase' = [phase EXCEPT ![c] = "open"]
  /\ session' = [session EXCEPT ![d] = c]
  /\ topics' = [topics EXCEPT ![d] = pending[d]]
  /\ pending' = [pending EXCEPT ![d] = {}]
  /\ overlapped' = overlapped \cup PassedOver(c)
  /\ NotifyOnline(d)
  /\ UNCHANGED <<gate, subs, saved, credentials, faults>>

\* SUBSCRIBE to a downlink topic of the device's own, new or repeated:
\* authorised, recorded by aedes, and noted again by the guarded 'subscribe'
\* listener.
Subscribe(c, t) ==
  LET d == Owner[c] IN
  /\ phase[c] = "open"
  /\ subs' = [subs EXCEPT ![c] = @ \cup {t}]
  /\ saved' = IF d \in Persistent THEN [saved EXCEPT ![d] = @ \cup {t}] ELSE saved
  /\ NoteAuthorized(d, {t})
  /\ UNCHANGED <<phase, gate, session, overlapped, status, credentials, faults>>

Unsubscribe(c, t) ==
  LET d == Owner[c] IN
  /\ phase[c] = "open"
  /\ t \in subs[c]
  /\ subs' = [subs EXCEPT ![c] = @ \ {t}]
  /\ saved' = IF d \in Persistent THEN [saved EXCEPT ![d] = @ \ {t}] ELSE saved
  /\ topics' = IF session[d] = c THEN [topics EXCEPT ![d] = @ \ {t}] ELSE topics
  /\ UNCHANGED <<phase, gate, session, pending, overlapped, status, credentials, faults>>

-----------------------------------------------------------------------------
(* Going away *)

\* The socket closes, on either side: an open session is torn down; an attempt
\* that was authenticated but not registered just ends.
SocketCloses(c) ==
  /\ phase[c] \in {"authenticated", "restored", "open"}
  /\ Fault
  /\ phase' = [phase EXCEPT ![c] = IF @ = "open" THEN "closing" ELSE "none"]
  /\ overlapped' = IF phase[c] = "open" THEN overlapped ELSE overlapped \ {c}
  /\ UNCHANGED <<gate, session, topics, pending, subs, saved, status, credentials>>

\* The 'clientDisconnect' event: the registry drops the entry if it is still
\* this client's, and the offline window (re)starts.
ClientDisconnect(c) ==
  LET d == Owner[c] IN
  /\ phase[c] = "closing"
  /\ phase' = [phase EXCEPT ![c] = "none"]
  /\ subs' = [subs EXCEPT ![c] = {}]
  /\ IF session[d] = c
     THEN /\ session' = [session EXCEPT ![d] = NoConn]
          /\ topics' = [topics EXCEPT ![d] = {}]
     ELSE UNCHANGED <<session, topics>>
  /\ overlapped' = overlapped \ {c}
  /\ DeferOffline(d)
  /\ UNCHANGED <<gate, pending, saved, credentials, faults>>

\* No reconnection within OFFLINE_DEFER_MS.
OfflineTimer(d) ==
  /\ d \in timer
  /\ timer' = timer \ {d}
  /\ shown' = [shown EXCEPT ![d] = "offline"]
  /\ UNCHANGED <<phase, gate, registry, subs, saved, credentials, faults>>

\* The API revokes the credentials of a device, or gives it new ones; either
\* way it notifies the brokers, which end the session the old ones opened.
RevokeCredentials(d) ==
  /\ d \notin revoked
  /\ Fault
  /\ revoked' = revoked \cup {d}
  /\ kicks' = kicks \cup {d}
  /\ UNCHANGED <<phase, gate, registry, subs, saved, status>>

IssueCredentials(d) ==
  /\ IF d \in revoked THEN UNCHANGED faults ELSE Fault
  /\ revoked' = revoked \ {d}
  /\ kicks' = kicks \cup {d}
  /\ UNCHANGED <<phase, gate, registry, subs, saved, status>>

\* The notifier hands the revocation to kickDeviceSession, which closes the
\* client the registry knows, if any.
KickDeviceSession(d) ==
  /\ d \in kicks
  /\ kicks' = kicks \ {d}
  /\ phase' = IF session[d] # NoConn THEN [phase EXCEPT ![session[d]] = "closing"] ELSE phase
  /\ UNCHANGED <<gate, registry, subs, saved, status, revoked, faults>>

\* A notification sent while the LISTEN connection is down is lost.
NotificationLost(d) ==
  /\ d \in kicks
  /\ kicks' = kicks \ {d}
  /\ UNCHANGED <<phase, gate, registry, subs, saved, status, revoked, faults>>
=============================================================================
