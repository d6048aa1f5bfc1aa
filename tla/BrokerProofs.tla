---------------------------- MODULE BrokerProofs ----------------------------
(***************************************************************************)
(* Proofs about one broker process for every set of devices, connections,  *)
(* topics and messages and every limit: its registry says the truth about  *)
(* the sessions aedes has, a device with a session is never shown offline, *)
(* a durable report is acknowledged only once it is recorded, and the      *)
(* executor of the handlers keeps its books.                               *)
(***************************************************************************)
EXTENDS BrokerProcess, SequenceTheorems, FiniteSetTheorems, TLAPS

\* The types of the sessions.
Types ==
  /\ phase \in [Conns -> Phases]
  /\ waiters \in Seq(Conns)
  /\ session \in [Devices -> Conns \cup {NoConn}]
  /\ topics \in [Devices -> SUBSET Topics]
  /\ pending \in [Devices -> SUBSET Topics]
  /\ subs \in [Conns -> SUBSET Topics]
  /\ saved \in [Devices -> SUBSET Topics]
  /\ timer \in SUBSET Devices
  /\ shown \in [Devices -> {"unknown", "online", "offline"}]

\* aedes still has the client: it has emitted 'client', not 'clientDisconnect'.
Live(c) == phase[c] \in {"open", "closing"}

\* The registry has an entry for exactly these clients.
EntriesAreLive ==
  /\ \A c \in Conns : Live(c) <=> session[Owner[c]] = c
  /\ \A d \in Devices : session[d] # NoConn => Owner[session[d]] = d

\* Whoever waits for a slot waits once, and does nothing else.
WaitersWait ==
  \A i, j \in DOMAIN waiters :
    /\ phase[waiters[i]] = "waiting"
    /\ waiters[i] = waiters[j] => i = j

\* Topics are buffered only until there is an entry, and only those that aedes
\* restores; an entry has no others than those aedes has or keeps.
TopicsAgree ==
  \A d \in Devices :
    /\ session[d] = NoConn => topics[d] = {}
    /\ session[d] # NoConn => pending[d] = {}
    /\ d \in Persistent => topics[d] \subseteq saved[d] /\ pending[d] \subseteq saved[d]
    /\ d \notin Persistent => pending[d] = {}
    /\ d \notin Persistent /\ session[d] # NoConn => topics[d] = subs[session[d]]

\* A client that keeps no session has no subscription before it is registered.
FreshClients ==
  \A c \in Conns : phase[c] = "restored" /\ Owner[c] \notin Persistent => subs[c] = {}

IInv ==
  /\ Types
  /\ EntriesAreLive
  /\ WaitersWait
  /\ TopicsAgree
  /\ FreshClients
  /\ NoFalseOffline

-----------------------------------------------------------------------------
(* Steps that only move connections along *)

\* Who waits still does, if nobody leaves the queue.
LEMMA WaitersStay ==
  ASSUME IInv, waiters' = waiters,
         \A c \in Conns : phase[c] = "waiting" => phase'[c] = "waiting"
  PROVE  WaitersWait' /\ waiters' \in Seq(Conns)
<1>1. \A i \in DOMAIN waiters : waiters[i] \in Conns
  BY LenProperties, ElementOfSeq DEF IInv, Types
<1>. QED
  BY <1>1 DEF IInv, Types, WaitersWait

\* A connection that neither becomes nor ceases to be a client, and is not
\* restored, leaves the registry right.
LEMMA PhaseStep ==
  ASSUME IInv, phase' \in [Conns -> Phases], WaitersWait', waiters' \in Seq(Conns),
         UNCHANGED <<session, topics, pending, subs, saved, timer, shown>>,
         \A c \in Conns : phase'[c] \in {"open", "closing"} <=> phase[c] \in {"open", "closing"},
         \A c \in Conns : phase'[c] = "restored" => phase[c] = "restored"
  PROVE  IInv'
<1>. USE DEF IInv
<1>1. Types'
  BY DEF Types
<1>2. EntriesAreLive'
  BY DEF EntriesAreLive, Live
<1>3. TopicsAgree'
  BY DEF TopicsAgree
<1>4. FreshClients'
  BY DEF FreshClients
<1>5. NoFalseOffline'
  BY DEF NoFalseOffline
<1>. QED
  BY <1>1, <1>2, <1>3, <1>4, <1>5

\* One connection changes its phase.
LEMMA MoveOne ==
  ASSUME IInv, NEW c \in Conns, NEW next \in Phases,
         phase' = [phase EXCEPT ![c] = next],
         phase[c] # "waiting", waiters' = waiters, next # "restored",
         next \in {"open", "closing"} <=> phase[c] \in {"open", "closing"},
         UNCHANGED <<session, topics, pending, subs, saved, timer, shown>>
  PROVE  IInv'
<1>1. phase \in [Conns -> Phases]
  BY DEF IInv, Types
<1>2. /\ phase' \in [Conns -> Phases] /\ phase'[c] = next
      /\ \A o \in Conns \ {c} : phase'[o] = phase[o]
  BY <1>1
<1>3. WaitersWait' /\ waiters' \in Seq(Conns)
  <2>1. \A o \in Conns : phase[o] = "waiting" => phase'[o] = "waiting"
    BY <1>2
  <2>. QED
    BY <2>1, WaitersStay
<1>. QED
  BY <1>2, <1>3, PhaseStep

\* A slot is released, and handed to the first that waits.
LEMMA ReleaseStep ==
  ASSUME IInv, NEW c \in Conns, NEW next \in {"authenticated", "none"}, Release(c, next),
         phase[c] \in {"hashing", "verified", "refused"},
         UNCHANGED <<session, topics, pending, subs, saved, timer, shown>>
  PROVE  IInv'
<1>0. /\ phase \in [Conns -> Phases] /\ waiters \in Seq(Conns) /\ WaitersWait
      /\ next \in Phases
  BY DEF IInv, Types, Phases
<1>1. CASE waiters = <<>>
  BY <1>0, <1>1, MoveOne DEF Release
<1>2. CASE waiters # <<>>
  <2>. DEFINE h == Head(waiters)
              rest == Tail(waiters)
  <2>1. waiters' = rest /\ phase' = [phase EXCEPT ![c] = next, ![h] = "hashing"]
    BY <1>2 DEF Release
  <2>2. /\ h = waiters[1] /\ 1 \in DOMAIN waiters /\ h \in Conns
        /\ rest \in Seq(Conns)
        /\ \A i \in DOMAIN rest : i + 1 \in DOMAIN waiters /\ rest[i] = waiters[i + 1]
        /\ \A i \in DOMAIN rest : i \in Nat /\ i >= 1
    BY <1>0, <1>2
  <2>. HIDE DEF h, rest
  <2>3. phase[h] = "waiting" /\ h # c
    BY <1>0, <2>2 DEF WaitersWait
  <2>4. /\ phase' \in [Conns -> Phases] /\ phase'[c] = next /\ phase'[h] = "hashing"
        /\ \A o \in Conns \ {c, h} : phase'[o] = phase[o]
    BY <1>0, <2>1, <2>2, <2>3 DEF Phases
  <2>5. ASSUME NEW i \in DOMAIN rest
        PROVE  rest[i] \in Conns \ {c, h} /\ phase[rest[i]] = "waiting"
    <3>1. i + 1 \in DOMAIN waiters /\ rest[i] = waiters[i + 1] /\ i + 1 # 1
      BY <2>2
    <3>2. phase[waiters[i + 1]] = "waiting" /\ waiters[i + 1] # waiters[1]
      BY <1>0, <2>2, <3>1 DEF WaitersWait
    <3>3. waiters[i + 1] \in Conns
      BY <1>0, <3>1, LenProperties, ElementOfSeq
    <3>. QED
      BY <2>2, <3>1, <3>2, <3>3
  <2>6. WaitersWait'
    <3>1. \A i \in DOMAIN rest : phase'[rest[i]] = "waiting"
      BY <2>4, <2>5
    <3>2. ASSUME NEW i \in DOMAIN rest, NEW j \in DOMAIN rest, rest[i] = rest[j] PROVE i = j
      <4>1. i + 1 = j + 1
        BY <1>0, <2>2, <3>2 DEF WaitersWait
      <4>. QED
        BY <2>2, <4>1
    <3>. QED
      BY <2>1, <3>1, <3>2 DEF WaitersWait
  <2>. QED
    BY <2>1, <2>2, <2>3, <2>4, <2>6, PhaseStep
<1>. QED
  BY <1>1, <1>2

\* A new attempt that has to wait.
LEMMA WaitStep ==
  ASSUME IInv, NEW c \in Conns, phase[c] = "none", waiters' = Append(waiters, c),
         phase' = [phase EXCEPT ![c] = "waiting"],
         UNCHANGED <<session, topics, pending, subs, saved, timer, shown>>
  PROVE  IInv'
<1>0. phase \in [Conns -> Phases] /\ waiters \in Seq(Conns) /\ WaitersWait
  BY DEF IInv, Types
<1>1. /\ phase' \in [Conns -> Phases] /\ phase'[c] = "waiting"
      /\ \A o \in Conns \ {c} : phase'[o] = phase[o]
  BY <1>0 DEF Phases
<1>. DEFINE n == Len(waiters)
<1>2. /\ waiters' \in Seq(Conns) /\ n \in Nat /\ DOMAIN waiters = 1..n
      /\ DOMAIN waiters' = 1..(n + 1) /\ waiters'[n + 1] = c
      /\ \A i \in 1..n : waiters'[i] = waiters[i] /\ waiters[i] \in Conns
  BY <1>0
<1>. HIDE DEF n
<1>3. \A i \in 1..n : phase[waiters[i]] = "waiting" /\ waiters[i] # c
  BY <1>0, <1>2 DEF WaitersWait
<1>4. \A i \in 1..(n + 1) : i = n + 1 \/ i \in 1..n
  BY <1>2
<1>5. WaitersWait'
  <2>1. \A i \in DOMAIN waiters' : phase'[waiters'[i]] = "waiting"
    BY <1>1, <1>2, <1>3, <1>4
  <2>2. ASSUME NEW i \in DOMAIN waiters', NEW j \in DOMAIN waiters', waiters'[i] = waiters'[j]
        PROVE  i = j
    BY <1>0, <1>2, <1>3, <1>4, <2>2 DEF WaitersWait
  <2>. QED
    BY <2>1, <2>2 DEF WaitersWait
<1>. QED
  BY <1>1, <1>2, <1>5, PhaseStep

-----------------------------------------------------------------------------
(* The registry *)

\* A client of a device, before its registration.
LEMMA Newcomer ==
  ASSUME IInv, NEW c \in Conns, ~Live(c)
  PROVE  Owner[c] \in Devices /\ session[Owner[c]] # c
  BY ConnectionsAssumption DEF IInv, EntriesAreLive

\* A client that is open or closing is the one in the registry.
LEMMA Registered ==
  ASSUME IInv, NEW c \in Conns, Live(c)
  PROVE  /\ Owner[c] \in Devices /\ session[Owner[c]] = c /\ c # NoConn
         /\ pending[Owner[c]] = {}
  BY ConnectionsAssumption DEF IInv, EntriesAreLive, TopicsAgree

\* Subscriptions restored before the registration.
LEMMA RestoreInv ==
  ASSUME IInv, NEW c \in Conns, RestoreSubscriptions(c)
  PROVE  IInv'
<1>. USE DEF IInv
<1>. DEFINE d == Owner[c]
<1>1. /\ phase[c] = "authenticated" /\ phase' = [phase EXCEPT ![c] = "restored"]
      /\ UNCHANGED <<waiters, session, saved, timer, shown>>
  BY DEF RestoreSubscriptions, gate, status
<1>2. Types /\ d \in Devices /\ session[d] # c
  BY <1>1, Newcomer DEF Live
<1>3. /\ phase' \in [Conns -> Phases] /\ phase'[c] = "restored"
      /\ \A o \in Conns \ {c} : phase'[o] = phase[o]
  BY <1>1, <1>2 DEF Types, Phases
<1>4. WaitersWait' /\ waiters' \in Seq(Conns)
  BY <1>1, <1>3, WaitersStay
<1>5. CASE d \in Persistent
  <2>1. subs' = [subs EXCEPT ![c] = saved[d]] /\ NoteAuthorized(d, saved[d])
    BY <1>5 DEF RestoreSubscriptions
  <2>2. saved[d] \in SUBSET Topics
    BY <1>2 DEF Types
  <2>3. \/ session[d] # NoConn /\ topics' = [topics EXCEPT ![d] = @ \cup saved[d]]
           /\ pending' = pending
        \/ session[d] = NoConn /\ pending' = [pending EXCEPT ![d] = @ \cup saved[d]]
           /\ topics' = topics
    BY <2>1 DEF NoteAuthorized
  <2>4. /\ topics' \in [Devices -> SUBSET Topics] /\ pending' \in [Devices -> SUBSET Topics]
        /\ subs' \in [Conns -> SUBSET Topics]
        /\ \A o \in Conns \ {c} : subs'[o] = subs[o]
        /\ \A x \in Devices \ {d} : topics'[x] = topics[x] /\ pending'[x] = pending[x]
    BY <1>2, <2>1, <2>2, <2>3 DEF Types
  <2>5. /\ session[d] = NoConn => topics'[d] = topics[d]
        /\ session[d] # NoConn => pending'[d] = pending[d]
        /\ topics'[d] \subseteq topics[d] \cup saved[d]
        /\ pending'[d] \subseteq pending[d] \cup saved[d]
    BY <1>2, <2>2, <2>3 DEF Types
  <2>6. TopicsAgree'
    <3>1. ASSUME NEW x \in Devices
          PROVE  (/\ session[x] = NoConn => topics[x] = {}
                  /\ session[x] # NoConn => pending[x] = {}
                  /\ x \in Persistent => topics[x] \subseteq saved[x] /\ pending[x] \subseteq saved[x]
                  /\ x \notin Persistent => pending[x] = {}
                  /\ x \notin Persistent /\ session[x] # NoConn => topics[x] = subs[session[x]])'
      <4>1. CASE x = d
        BY <1>1, <1>5, <2>5, <4>1 DEF TopicsAgree
      <4>2. CASE x # d
        <5>1. session[x] # NoConn => session[x] \in Conns \ {c}
          BY <1>2, <4>2 DEF Types, EntriesAreLive
        <5>. QED
          BY <1>1, <2>4, <4>2, <5>1 DEF TopicsAgree
      <4>. QED
        BY <4>1, <4>2
    <3>. QED
      BY <3>1 DEF TopicsAgree
  <2>7. FreshClients'
    BY <1>3, <1>5, <2>4 DEF FreshClients
  <2>8. Types'
    BY <1>1, <1>3, <1>4, <2>4 DEF Types
  <2>9. EntriesAreLive' /\ NoFalseOffline'
    BY <1>1, <1>2, <1>3 DEF EntriesAreLive, Live, NoFalseOffline
  <2>. QED
    BY <1>4, <2>6, <2>7, <2>8, <2>9
<1>6. CASE d \notin Persistent
  <2>1. subs' = [subs EXCEPT ![c] = {}] /\ UNCHANGED <<topics, pending>>
    BY <1>6 DEF RestoreSubscriptions
  <2>2. /\ subs' \in [Conns -> SUBSET Topics] /\ subs'[c] = {}
        /\ \A o \in Conns \ {c} : subs'[o] = subs[o]
    BY <1>2, <2>1 DEF Types
  <2>3. \A x \in Devices : session[x] # NoConn => session[x] \in Conns \ {c}
    BY <1>2 DEF Types, EntriesAreLive
  <2>4. TopicsAgree'
    BY <1>1, <2>1, <2>2, <2>3 DEF TopicsAgree
  <2>5. FreshClients'
    BY <1>3, <2>2 DEF FreshClients
  <2>6. Types'
    BY <1>1, <1>3, <1>4, <2>1, <2>2 DEF Types
  <2>7. EntriesAreLive' /\ NoFalseOffline'
    BY <1>1, <1>2, <1>3 DEF EntriesAreLive, Live, NoFalseOffline
  <2>. QED
    BY <1>4, <2>4, <2>5, <2>6, <2>7
<1>. QED
  BY <1>5, <1>6

\* The 'client' event.
LEMMA RegisterInv ==
  ASSUME IInv, NEW c \in Conns, ClientRegistered(c)
  PROVE  IInv'
<1>. USE DEF IInv
<1>. DEFINE d == Owner[c]
<1>1. /\ phase[c] = "restored" /\ phase' = [phase EXCEPT ![c] = "open"]
      /\ \A o \in Conns \ {c} : Owner[o] = d => ~Live(o)
      /\ session' = [session EXCEPT ![d] = c]
      /\ topics' = [topics EXCEPT ![d] = pending[d]]
      /\ pending' = [pending EXCEPT ![d] = {}]
      /\ timer' = timer \ {d} /\ shown' = [shown EXCEPT ![d] = "online"]
      /\ UNCHANGED <<waiters, subs, saved>>
  BY DEF ClientRegistered, NotifyOnline, gate, Live
<1>2. Types /\ d \in Devices /\ ~Live(c) /\ c # NoConn
  BY <1>1, Newcomer, ConnectionsAssumption DEF Live
<1>3. /\ phase' \in [Conns -> Phases] /\ phase'[c] = "open"
      /\ \A o \in Conns \ {c} : phase'[o] = phase[o]
      /\ session' \in [Devices -> Conns \cup {NoConn}] /\ session'[d] = c
      /\ topics' \in [Devices -> SUBSET Topics] /\ topics'[d] = pending[d]
      /\ pending' \in [Devices -> SUBSET Topics] /\ pending'[d] = {}
      /\ shown' \in [Devices -> {"unknown", "online", "offline"}] /\ shown'[d] = "online"
      /\ \A x \in Devices \ {d} : /\ session'[x] = session[x] /\ topics'[x] = topics[x]
                                  /\ pending'[x] = pending[x] /\ shown'[x] = shown[x]
  BY <1>1, <1>2 DEF Types, Phases
<1>4. WaitersWait' /\ waiters' \in Seq(Conns)
  BY <1>1, <1>3, WaitersStay
<1>5. Types'
  BY <1>1, <1>2, <1>3, <1>4 DEF Types
<1>6. EntriesAreLive'
  <2>1. ASSUME NEW o \in Conns PROVE Live(o)' <=> session'[Owner[o]] = o
    <3>1. Owner[o] \in Devices
      BY ConnectionsAssumption
    <3>2. CASE o = c
      BY <1>3, <3>2 DEF Live
    <3>3. CASE o # c /\ Owner[o] = d
      BY <1>1, <1>3, <3>3 DEF Live
    <3>4. CASE o # c /\ Owner[o] # d
      BY <1>3, <3>1, <3>4 DEF EntriesAreLive, Live
    <3>. QED
      BY <3>2, <3>3, <3>4
  <2>2. \A x \in Devices : session'[x] # NoConn => Owner[session'[x]] = x
    BY <1>3 DEF EntriesAreLive
  <2>. QED
    BY <2>1, <2>2 DEF EntriesAreLive
<1>7. TopicsAgree'
  <2>1. d \notin Persistent => subs[c] = {}
    BY <1>1 DEF FreshClients
  <2>2. ASSUME NEW x \in Devices
        PROVE  (/\ session[x] = NoConn => topics[x] = {}
                /\ session[x] # NoConn => pending[x] = {}
                /\ x \in Persistent => topics[x] \subseteq saved[x] /\ pending[x] \subseteq saved[x]
                /\ x \notin Persistent => pending[x] = {}
                /\ x \notin Persistent /\ session[x] # NoConn => topics[x] = subs[session[x]])'
    <3>1. CASE x = d
      BY <1>1, <1>2, <1>3, <2>1, <3>1 DEF TopicsAgree
    <3>2. CASE x # d
      BY <1>1, <1>3, <3>2 DEF TopicsAgree
    <3>. QED
      BY <3>1, <3>2
  <2>. QED
    BY <2>2 DEF TopicsAgree
<1>8. FreshClients' /\ NoFalseOffline'
  BY <1>1, <1>3 DEF FreshClients, NoFalseOffline
<1>. QED
  BY <1>4, <1>5, <1>6, <1>7, <1>8

\* The 'clientDisconnect' event.
LEMMA DisconnectInv ==
  ASSUME IInv, NEW c \in Conns, ClientDisconnect(c)
  PROVE  IInv'
<1>. USE DEF IInv
<1>. DEFINE d == Owner[c]
<1>1. /\ phase[c] = "closing" /\ Live(c)
  BY DEF ClientDisconnect, Live
<1>2. Types /\ d \in Devices /\ session[d] = c /\ c # NoConn /\ pending[d] = {}
  BY <1>1, Registered
<1>3. /\ phase' = [phase EXCEPT ![c] = "none"] /\ subs' = [subs EXCEPT ![c] = {}]
      /\ session' = [session EXCEPT ![d] = NoConn]
      /\ topics' = [topics EXCEPT ![d] = {}]
      /\ timer' = timer \cup {d}
      /\ UNCHANGED <<waiters, pending, saved, shown>>
  BY <1>2 DEF ClientDisconnect, DeferOffline, gate
<1>4. /\ phase' \in [Conns -> Phases] /\ phase'[c] = "none"
      /\ \A o \in Conns \ {c} : phase'[o] = phase[o] /\ subs'[o] = subs[o]
      /\ session' \in [Devices -> Conns \cup {NoConn}] /\ session'[d] = NoConn
      /\ topics' \in [Devices -> SUBSET Topics] /\ topics'[d] = {}
      /\ subs' \in [Conns -> SUBSET Topics]
      /\ \A x \in Devices \ {d} : session'[x] = session[x] /\ topics'[x] = topics[x]
  BY <1>2, <1>3 DEF Types, Phases
<1>5. WaitersWait' /\ waiters' \in Seq(Conns)
  BY <1>1, <1>3, <1>4, WaitersStay
<1>6. Types'
  BY <1>2, <1>3, <1>4, <1>5 DEF Types
<1>7. EntriesAreLive'
  <2>1. ASSUME NEW o \in Conns PROVE Live(o)' <=> session'[Owner[o]] = o
    <3>1. Owner[o] \in Devices /\ o # NoConn
      BY ConnectionsAssumption
    <3>2. CASE o = c
      BY <1>2, <1>4, <3>2 DEF Live
    <3>3. CASE o # c /\ Owner[o] = d
      BY <1>2, <1>4, <3>1, <3>3 DEF EntriesAreLive, Live
    <3>4. CASE o # c /\ Owner[o] # d
      BY <1>4, <3>1, <3>4 DEF EntriesAreLive, Live
    <3>. QED
      BY <3>2, <3>3, <3>4
  <2>2. \A x \in Devices : session'[x] # NoConn => Owner[session'[x]] = x
    BY <1>4 DEF EntriesAreLive
  <2>. QED
    BY <2>1, <2>2 DEF EntriesAreLive
<1>8. TopicsAgree'
  <2>1. ASSUME NEW x \in Devices
        PROVE  (/\ session[x] = NoConn => topics[x] = {}
                /\ session[x] # NoConn => pending[x] = {}
                /\ x \in Persistent => topics[x] \subseteq saved[x] /\ pending[x] \subseteq saved[x]
                /\ x \notin Persistent => pending[x] = {}
                /\ x \notin Persistent /\ session[x] # NoConn => topics[x] = subs[session[x]])'
    <3>1. CASE x = d
      BY <1>2, <1>3, <1>4, <3>1 DEF TopicsAgree
    <3>2. CASE x # d
      <4>1. session[x] # NoConn => session[x] \in Conns \ {c}
        BY <1>2, <3>2 DEF Types, EntriesAreLive
      <4>. QED
        BY <1>3, <1>4, <3>2, <4>1 DEF TopicsAgree
    <3>. QED
      BY <3>1, <3>2
  <2>. QED
    BY <2>1 DEF TopicsAgree
<1>9. FreshClients'
  BY <1>4 DEF FreshClients
<1>10. NoFalseOffline'
  BY <1>2, <1>3, <1>4 DEF NoFalseOffline
<1>. QED
  BY <1>5, <1>6, <1>7, <1>8, <1>9, <1>10

\* SUBSCRIBE and UNSUBSCRIBE.
LEMMA SubscriptionInv ==
  ASSUME IInv, NEW c \in Conns, NEW t \in Topics, Subscribe(c, t) \/ Unsubscribe(c, t)
  PROVE  IInv'
<1>. USE DEF IInv
<1>. DEFINE d == Owner[c]
<1>1. phase[c] = "open" /\ Live(c)
  BY DEF Subscribe, Unsubscribe, Live
<1>2. Types /\ d \in Devices /\ session[d] = c /\ c # NoConn /\ pending[d] = {}
  BY <1>1, Registered
<1>3. UNCHANGED <<phase, waiters, session, pending, timer, shown>>
  BY <1>2 DEF Subscribe, Unsubscribe, NoteAuthorized, gate, status
<1>4. \/ /\ subs' = [subs EXCEPT ![c] = @ \cup {t}]
         /\ saved' = IF d \in Persistent THEN [saved EXCEPT ![d] = @ \cup {t}] ELSE saved
         /\ topics' = [topics EXCEPT ![d] = @ \cup {t}]
      \/ /\ subs' = [subs EXCEPT ![c] = @ \ {t}]
         /\ saved' = IF d \in Persistent THEN [saved EXCEPT ![d] = @ \ {t}] ELSE saved
         /\ topics' = [topics EXCEPT ![d] = @ \ {t}]
  BY <1>2 DEF Subscribe, Unsubscribe, NoteAuthorized
<1>5. /\ subs' \in [Conns -> SUBSET Topics] /\ topics' \in [Devices -> SUBSET Topics]
      /\ saved' \in [Devices -> SUBSET Topics]
      /\ \A o \in Conns \ {c} : subs'[o] = subs[o]
      /\ \A x \in Devices \ {d} : topics'[x] = topics[x] /\ saved'[x] = saved[x]
  <2>1. /\ subs \in [Conns -> SUBSET Topics] /\ topics \in [Devices -> SUBSET Topics]
        /\ saved \in [Devices -> SUBSET Topics]
    BY <1>2 DEF Types
  <2>2. CASE d \in Persistent
    BY <1>2, <1>4, <2>1, <2>2
  <2>3. CASE d \notin Persistent
    BY <1>2, <1>4, <2>1, <2>3
  <2>. QED
    BY <2>2, <2>3
<1>6. /\ d \in Persistent => topics'[d] \subseteq saved'[d]
      /\ d \notin Persistent => topics'[d] = subs'[c]
  <2>1. /\ subs \in [Conns -> SUBSET Topics] /\ topics \in [Devices -> SUBSET Topics]
        /\ saved \in [Devices -> SUBSET Topics]
    BY <1>2 DEF Types
  <2>2. /\ d \in Persistent => topics[d] \subseteq saved[d]
        /\ d \notin Persistent => topics[d] = subs[c]
    BY <1>2 DEF TopicsAgree
  <2>3. \/ /\ topics'[d] = topics[d] \cup {t} /\ subs'[c] = subs[c] \cup {t}
           /\ d \in Persistent => saved'[d] = saved[d] \cup {t}
        \/ /\ topics'[d] = topics[d] \ {t} /\ subs'[c] = subs[c] \ {t}
           /\ d \in Persistent => saved'[d] = saved[d] \ {t}
    <3>1. CASE /\ subs' = [subs EXCEPT ![c] = @ \cup {t}]
               /\ saved' = IF d \in Persistent THEN [saved EXCEPT ![d] = @ \cup {t}] ELSE saved
               /\ topics' = [topics EXCEPT ![d] = @ \cup {t}]
      <4>1. topics'[d] = topics[d] \cup {t} /\ subs'[c] = subs[c] \cup {t}
        BY <1>2, <2>1, <3>1
      <4>2. d \in Persistent => saved'[d] = saved[d] \cup {t}
        BY <1>2, <2>1, <3>1
      <4>. QED
        BY <4>1, <4>2
    <3>2. CASE /\ subs' = [subs EXCEPT ![c] = @ \ {t}]
               /\ saved' = IF d \in Persistent THEN [saved EXCEPT ![d] = @ \ {t}] ELSE saved
               /\ topics' = [topics EXCEPT ![d] = @ \ {t}]
      <4>1. topics'[d] = topics[d] \ {t} /\ subs'[c] = subs[c] \ {t}
        BY <1>2, <2>1, <3>2
      <4>2. d \in Persistent => saved'[d] = saved[d] \ {t}
        BY <1>2, <2>1, <3>2
      <4>. QED
        BY <4>1, <4>2
    <3>. QED
      BY <1>4, <3>1, <3>2
  <2>. QED
    BY <2>2, <2>3
<1>7. Types'
  BY <1>2, <1>3, <1>5 DEF Types
<1>8. EntriesAreLive' /\ NoFalseOffline' /\ WaitersWait'
  BY <1>3 DEF EntriesAreLive, Live, NoFalseOffline, WaitersWait
<1>9. TopicsAgree'
  <2>1. ASSUME NEW x \in Devices
        PROVE  (/\ session[x] = NoConn => topics[x] = {}
                /\ session[x] # NoConn => pending[x] = {}
                /\ x \in Persistent => topics[x] \subseteq saved[x] /\ pending[x] \subseteq saved[x]
                /\ x \notin Persistent => pending[x] = {}
                /\ x \notin Persistent /\ session[x] # NoConn => topics[x] = subs[session[x]])'
    <3>1. CASE x = d
      BY <1>2, <1>3, <1>6, <3>1 DEF TopicsAgree
    <3>2. CASE x # d
      <4>1. session[x] # NoConn => session[x] \in Conns \ {c}
        BY <1>2, <3>2 DEF Types, EntriesAreLive
      <4>. QED
        BY <1>3, <1>5, <3>2, <4>1 DEF TopicsAgree
    <3>. QED
      BY <3>1, <3>2
  <2>. QED
    BY <2>1 DEF TopicsAgree
<1>10. FreshClients'
  BY <1>1, <1>3, <1>5 DEF FreshClients
<1>. QED
  BY <1>7, <1>8, <1>9, <1>10

-----------------------------------------------------------------------------
(* The invariant of the sessions *)

\* Before the first connection.
LEMMA InitInv == Init => IInv
<1>. SUFFICES ASSUME Init PROVE IInv
  OBVIOUS
<1>. USE DEF Init, SessionsInit
<1>1. Types
  BY DEF Types, Phases
<1>2. EntriesAreLive
  BY ConnectionsAssumption DEF EntriesAreLive, Live
<1>3. WaitersWait /\ TopicsAgree /\ FreshClients /\ NoFalseOffline
  BY DEF WaitersWait, TopicsAgree, FreshClients, NoFalseOffline
<1>. QED
  BY <1>1, <1>2, <1>3 DEF IInv

\* A step of a connection.
LEMMA ConnectionInv ==
  ASSUME IInv, NEW c \in Conns, ConnectionStep(c)
  PROVE  IInv'
<1>1. CASE Connect(c)
  <2>1. phase[c] = "none" /\ UNCHANGED <<session, topics, pending, subs, saved, timer, shown>>
    BY <1>1 DEF Connect, registry, status
  <2>2. CASE phase' = [phase EXCEPT ![c] = "hashing"] /\ waiters' = waiters
    BY <2>1, <2>2, MoveOne DEF Phases
  <2>3. CASE phase' = [phase EXCEPT ![c] = "waiting"] /\ waiters' = Append(waiters, c)
    BY <2>1, <2>3, WaitStep
  <2>. QED
    BY <1>1, <2>2, <2>3 DEF Connect
<1>2. CASE AuthenticateDevice(c)
  <2>. DEFINE next == IF Owner[c] \in revoked THEN "refused" ELSE "verified"
  <2>1. /\ phase[c] = "hashing" /\ phase' = [phase EXCEPT ![c] = next] /\ waiters' = waiters
        /\ UNCHANGED <<session, topics, pending, subs, saved, timer, shown>>
    BY <1>2 DEF AuthenticateDevice, registry, status, gate
  <2>2. next \in Phases /\ next \notin {"open", "closing", "restored"}
    BY DEF Phases
  <2>. QED
    BY <2>1, <2>2, MoveOne
<1>3. CASE AuthAnswers(c) \/ AuthFails(c)
  <2>1. UNCHANGED <<session, topics, pending, subs, saved, timer, shown>>
    BY <1>3 DEF AuthAnswers, AuthFails, registry, status
  <2>2. /\ phase[c] \in {"hashing", "verified", "refused"}
        /\ Release(c, "authenticated") \/ Release(c, "none")
    BY <1>3 DEF AuthAnswers, AuthFails
  <2>. QED
    BY <2>1, <2>2, ReleaseStep
<1>4. CASE RestoreSubscriptions(c)
  BY <1>4, RestoreInv
<1>5. CASE \E old \in Conns : ReplaceSession(c, old)
  <2>1. PICK old \in Conns : ReplaceSession(c, old)
    BY <1>5
  <2>2. /\ phase[old] = "open" /\ phase' = [phase EXCEPT ![old] = "closing"]
        /\ UNCHANGED <<waiters, session, topics, pending, subs, saved, timer, shown>>
    BY <2>1 DEF ReplaceSession, registry, status, gate
  <2>. QED
    BY <2>2, MoveOne DEF Phases
<1>6. CASE ClientRegistered(c)
  BY <1>6, RegisterInv
<1>7. CASE \E t \in Topics : Subscribe(c, t) \/ Unsubscribe(c, t)
  BY <1>7, SubscriptionInv
<1>8. CASE SocketCloses(c)
  <2>. DEFINE next == IF phase[c] = "open" THEN "closing" ELSE "none"
  <2>1. /\ phase[c] \in {"authenticated", "restored", "open"}
        /\ phase' = [phase EXCEPT ![c] = next] /\ waiters' = waiters
        /\ UNCHANGED <<session, topics, pending, subs, saved, timer, shown>>
    BY <1>8 DEF SocketCloses, registry, status, gate, IInv, Types
  <2>2. next \in Phases /\ next # "restored"
    BY DEF Phases
  <2>3. next \in {"open", "closing"} <=> phase[c] \in {"open", "closing"}
    BY <2>1
  <2>. QED
    BY <2>1, <2>2, <2>3, MoveOne
<1>. QED
  BY <1>1, <1>2, <1>3, <1>4, <1>5, <1>6, <1>7, <1>8 DEF ConnectionStep

\* Nothing of the sessions changes.
LEMMA SessionsStay ==
  ASSUME IInv, UNCHANGED <<phase, waiters, session, topics, pending, subs, saved, timer, shown>>
  PROVE  IInv'
<1>1. WaitersWait' /\ waiters' \in Seq(Conns)
  BY WaitersStay
<1>. QED
  BY <1>1, PhaseStep DEF IInv, Types

\* A client is closed: by a kick, or by the error of a handler.
LEMMA CloseInv ==
  ASSUME IInv, NEW c \in Conns, Live(c), phase' = [phase EXCEPT ![c] = "closing"],
         UNCHANGED <<waiters, session, topics, pending, subs, saved, timer, shown>>
  PROVE  IInv'
  BY MoveOne DEF Live, Phases

\* Timers, credentials and kicks.
LEMMA DeviceInv ==
  ASSUME IInv, NEW d \in Devices, DeviceStep(d)
  PROVE  IInv'
<1>1. CASE OfflineTimer(d)
  <2>1. /\ d \in timer /\ timer' = timer \ {d} /\ shown' = [shown EXCEPT ![d] = "offline"]
        /\ UNCHANGED <<phase, waiters, session, topics, pending, subs, saved>>
    BY <1>1 DEF OfflineTimer, gate, registry
  <2>2. session[d] = NoConn
    BY <2>1 DEF IInv, NoFalseOffline
  <2>3. /\ shown' \in [Devices -> {"unknown", "online", "offline"}] /\ timer' \in SUBSET Devices
        /\ \A x \in Devices \ {d} : shown'[x] = shown[x]
    BY <2>1 DEF IInv, Types
  <2>4. NoFalseOffline'
    BY <2>1, <2>2, <2>3 DEF IInv, NoFalseOffline
  <2>5. Types'
    BY <2>1, <2>3 DEF IInv, Types
  <2>6. EntriesAreLive' /\ TopicsAgree' /\ FreshClients' /\ WaitersWait'
    BY <2>1 DEF IInv, EntriesAreLive, Live, TopicsAgree, FreshClients, WaitersWait
  <2>. QED
    BY <2>4, <2>5, <2>6 DEF IInv
<1>2. CASE RevokeCredentials(d) \/ IssueCredentials(d) \/ NotificationLost(d)
  BY <1>2, SessionsStay
  DEF RevokeCredentials, IssueCredentials, NotificationLost, gate, registry, status
<1>3. CASE KickDeviceSession(d)
  <2>1. UNCHANGED <<waiters, session, topics, pending, subs, saved, timer, shown>>
    BY <1>3 DEF KickDeviceSession, gate, registry, status
  <2>2. CASE session[d] = NoConn
    BY <1>3, <2>1, <2>2, SessionsStay DEF KickDeviceSession
  <2>3. CASE session[d] # NoConn
    <3>1. PICK c \in Conns : c = session[d]
      BY <2>3 DEF IInv, Types
    <3>2. Live(c)
      BY <2>3, <3>1 DEF IInv, EntriesAreLive
    <3>3. phase' = [phase EXCEPT ![c] = "closing"]
      BY <1>3, <2>3, <3>1 DEF KickDeviceSession
    <3>. QED
      BY <2>1, <3>2, <3>3, CloseInv
  <2>. QED
    BY <2>2, <2>3
<1>. QED
  BY <1>1, <1>2, <1>3 DEF DeviceStep

\* Every step of the process keeps the invariant.
LEMMA NextInv == IInv /\ [Next]_vars => IInv'
<1>. SUFFICES ASSUME IInv, [Next]_vars PROVE IInv'
  OBVIOUS
<1>1. CASE \E c \in Conns : ConnectionStep(c) /\ UNCHANGED uplinkVars
  BY <1>1, ConnectionInv
<1>2. CASE \E d \in Devices : DeviceStep(d) /\ UNCHANGED uplinkVars
  BY <1>2, DeviceInv
<1>3. CASE (\E d \in Devices : Refill(d) /\ UNCHANGED sessionVars) \/ UNCHANGED vars
  BY <1>3, SessionsStay DEF vars, sessionVars, gate, registry, status
<1>4. CASE \E c \in Conns : Disconnect(c)
  BY <1>4, DisconnectInv DEF Disconnect
<1>5. CASE \E m \in Msgs, c \in Conns : Publish(m, c)
  <2>1. PICK m \in Msgs, c \in Conns : Publish(m, c)
    BY <1>5
  <2>2. /\ phase[c] = "open"
        /\ (phase' = phase \/ phase' = [phase EXCEPT ![c] = "closing"])
        /\ UNCHANGED <<waiters, session, topics, pending, subs, saved, timer, shown>>
    BY <2>1 DEF Publish, gate, registry, status
  <2>3. CASE phase' = phase
    BY <2>2, <2>3, SessionsStay
  <2>4. CASE phase' = [phase EXCEPT ![c] = "closing"]
    <3>1. Live(c)
      BY <2>2 DEF Live
    <3>. QED
      BY <2>2, <2>4, <3>1, CloseInv
  <2>. QED
    BY <2>2, <2>3, <2>4
<1>6. CASE \E w \in work.executing : RunHandler(w) \/ FailHandler(w)
  <2>1. PICK w \in work.executing : RunHandler(w) \/ FailHandler(w)
    BY <1>6
  <2>2. UNCHANGED <<waiters, session, topics, pending, subs, saved, timer, shown>>
    BY <2>1 DEF RunHandler, FailHandler, sessionVars, gate, registry, status
  <2>3. CASE phase' = phase
    BY <2>2, <2>3, SessionsStay
  <2>4. CASE w.via \in Open /\ phase' = [phase EXCEPT ![w.via] = "closing"]
    <3>1. PICK c \in Conns : c = w.via
      BY <2>4 DEF Open
    <3>2. Live(c)
      BY <2>4, <3>1 DEF Open, Live
    <3>. QED
      BY <2>2, <2>4, <3>1, <3>2, CloseInv
  <2>. QED
    BY <2>1, <2>3, <2>4 DEF RunHandler, FailHandler, sessionVars
<1>7. CASE Restart
  <2>1. /\ phase' = [c \in Conns |-> "none"] /\ waiters' = <<>>
        /\ session' = [d \in Devices |-> NoConn]
        /\ topics' = [d \in Devices |-> {}] /\ pending' = [d \in Devices |-> {}]
        /\ subs' = [c \in Conns |-> {}] /\ saved' = [d \in Devices |-> {}]
        /\ timer' = {} /\ shown' = shown
    BY <1>7 DEF Restart
  <2>2. Types'
    BY <2>1 DEF IInv, Types, Phases
  <2>3. EntriesAreLive'
    BY <2>1, ConnectionsAssumption DEF EntriesAreLive, Live
  <2>4. WaitersWait' /\ TopicsAgree' /\ FreshClients' /\ NoFalseOffline'
    BY <2>1 DEF WaitersWait, TopicsAgree, FreshClients, NoFalseOffline
  <2>. QED
    BY <2>2, <2>3, <2>4 DEF IInv
<1>. QED
  BY <1>1, <1>2, <1>3, <1>4, <1>5, <1>6, <1>7 DEF Next

\* The inductive invariant of the sessions.
THEOREM SessionsInvariant == Spec => []IInv
  BY InitInv, NextInv, PTL DEF Spec

-----------------------------------------------------------------------------
(* The restored subscriptions of persistent sessions *)

\* Only clients that keep a session are ever passed over.
OverlapsPersist == \A c \in overlapped : c \in Conns /\ Owner[c] \in Persistent

\* A client restored while its device had no session finds in the buffer all
\* that aedes keeps for the device.
BufferComplete ==
  \A c \in Conns :
    phase[c] = "restored" /\ Owner[c] \in Persistent /\ c \notin overlapped =>
      /\ session[Owner[c]] = NoConn
      /\ pending[Owner[c]] = saved[Owner[c]] /\ subs[c] = saved[Owner[c]]

\* The entry of such a client has all of it too.
EntryComplete ==
  \A d \in Persistent :
    session[d] # NoConn /\ session[d] \notin overlapped =>
      topics[d] = saved[d] /\ subs[session[d]] = saved[d]

RestoreInvariant == OverlapsPersist /\ BufferComplete /\ EntryComplete

\* Steps that leave the registry and the subscriptions alone.
LEMMA QuietStep ==
  ASSUME RestoreInvariant,
         UNCHANGED <<session, topics, pending, overlapped, subs, saved>>,
         \A c \in Conns : phase'[c] = "restored" => phase[c] = "restored"
  PROVE  RestoreInvariant'
  BY DEF RestoreInvariant, OverlapsPersist, BufferComplete, EntryComplete

\* A client in the registry, seen from its device.
LEMMA EntryOf ==
  ASSUME IInv, NEW d \in Devices, session[d] # NoConn
  PROVE  session[d] \in Conns /\ Owner[session[d]] = d
  BY DEF IInv, Types, EntriesAreLive

\* Restoring completes the buffer, or tops up the entry of an older session.
LEMMA RestoreCompletes ==
  ASSUME IInv, RestoreInvariant, NEW c \in Conns, RestoreSubscriptions(c)
  PROVE  RestoreInvariant'
<1>. DEFINE d == Owner[c]
<1>1. /\ phase[c] = "authenticated" /\ phase' = [phase EXCEPT ![c] = "restored"]
      /\ session' = session /\ saved' = saved
  BY DEF RestoreSubscriptions
<1>2. Types /\ d \in Devices /\ session[d] # c
  BY <1>1, Newcomer DEF Live, IInv
<1>3. \A o \in Conns \ {c} : phase'[o] = phase[o]
  BY <1>1, <1>2 DEF Types
<1>4. CASE d \notin Persistent
  <2>1. subs' = [subs EXCEPT ![c] = {}] /\ UNCHANGED <<topics, pending, overlapped>>
    BY <1>4 DEF RestoreSubscriptions
  <2>2. \A o \in Conns \ {c} : subs'[o] = subs[o]
    BY <1>2, <2>1 DEF Types
  <2>3. OverlapsPersist'
    BY <2>1 DEF RestoreInvariant, OverlapsPersist
  <2>4. BufferComplete'
    BY <1>1, <1>3, <1>4, <2>1, <2>2 DEF RestoreInvariant, BufferComplete
  <2>5. \A x \in Persistent : session[x] # NoConn => session[x] \in Conns \ {c}
    BY <1>4, EntryOf, SessionAssumption
  <2>6. EntryComplete'
    BY <1>1, <2>1, <2>2, <2>5 DEF RestoreInvariant, EntryComplete
  <2>. QED
    BY <2>3, <2>4, <2>6 DEF RestoreInvariant
<1>5. CASE d \in Persistent
  <2>1. /\ subs' = [subs EXCEPT ![c] = saved[d]] /\ NoteAuthorized(d, saved[d])
        /\ overlapped' = IF session[d] # NoConn THEN overlapped \cup {c} ELSE overlapped
    BY <1>5 DEF RestoreSubscriptions
  <2>2. subs'[c] = saved[d] /\ \A o \in Conns \ {c} : subs'[o] = subs[o]
    BY <1>2, <2>1 DEF Types
  <2>3. OverlapsPersist'
    BY <1>5, <2>1 DEF RestoreInvariant, OverlapsPersist
  <2>4. topics[d] \subseteq saved[d] /\ pending[d] \subseteq saved[d]
    BY <1>2, <1>5 DEF IInv, TopicsAgree
  <2>5. \A x \in Persistent : session[x] # NoConn => session[x] \in Conns \ {c}
    BY <1>2, EntryOf, SessionAssumption
  <2>6. CASE session[d] = NoConn
    <3>1. pending' = [pending EXCEPT ![d] = @ \cup saved[d]] /\ topics' = topics
          /\ overlapped' = overlapped
      BY <2>1, <2>6 DEF NoteAuthorized
    <3>2. pending'[d] = saved[d] /\ \A x \in Devices \ {d} : pending'[x] = pending[x]
      BY <1>2, <2>4, <3>1 DEF Types
    <3>3. BufferComplete'
      <4>1. \A o \in Conns : Owner[o] \in Devices
        BY ConnectionsAssumption
      <4>. QED
        BY <1>1, <1>3, <2>2, <2>6, <3>1, <3>2, <4>1 DEF RestoreInvariant, BufferComplete
    <3>4. EntryComplete'
      BY <1>1, <2>2, <2>5, <3>1 DEF RestoreInvariant, EntryComplete
    <3>. QED
      BY <2>3, <3>3, <3>4 DEF RestoreInvariant
  <2>7. CASE session[d] # NoConn
    <3>1. topics' = [topics EXCEPT ![d] = @ \cup saved[d]] /\ pending' = pending
          /\ overlapped' = overlapped \cup {c}
      BY <2>1, <2>7 DEF NoteAuthorized
    <3>2. topics'[d] = saved[d] /\ \A x \in Devices \ {d} : topics'[x] = topics[x]
      BY <1>2, <2>4, <3>1 DEF Types
    <3>3. BufferComplete'
      BY <1>1, <1>3, <2>2, <3>1 DEF RestoreInvariant, BufferComplete
    <3>4. EntryComplete'
      BY <1>1, <2>2, <2>5, <3>1, <3>2, SessionAssumption DEF RestoreInvariant, EntryComplete
    <3>. QED
      BY <2>3, <3>3, <3>4 DEF RestoreInvariant
  <2>. QED
    BY <2>6, <2>7
<1>. QED
  BY <1>4, <1>5

\* A registration adopts the buffer; who was restored beside it is passed over.
LEMMA RegisterAdopts ==
  ASSUME IInv, RestoreInvariant, NEW c \in Conns, ClientRegistered(c)
  PROVE  RestoreInvariant'
<1>. DEFINE d == Owner[c]
<1>1. /\ phase[c] = "restored" /\ phase' = [phase EXCEPT ![c] = "open"]
      /\ session' = [session EXCEPT ![d] = c]
      /\ topics' = [topics EXCEPT ![d] = pending[d]]
      /\ pending' = [pending EXCEPT ![d] = {}]
      /\ overlapped' = overlapped \cup PassedOver(c)
      /\ subs' = subs /\ saved' = saved
  BY DEF ClientRegistered
<1>2. Types /\ d \in Devices /\ c # NoConn
  BY <1>1, Newcomer, ConnectionsAssumption DEF Live, IInv
<1>3. /\ phase'[c] = "open" /\ \A o \in Conns \ {c} : phase'[o] = phase[o]
      /\ session'[d] = c /\ topics'[d] = pending[d]
      /\ \A x \in Devices \ {d} : /\ session'[x] = session[x] /\ topics'[x] = topics[x]
                                  /\ pending'[x] = pending[x]
  BY <1>1, <1>2 DEF Types
<1>4. OverlapsPersist'
  BY <1>1 DEF RestoreInvariant, OverlapsPersist, PassedOver
<1>5. BufferComplete'
  <2>. SUFFICES ASSUME NEW o \in Conns,
                       phase'[o] = "restored", Owner[o] \in Persistent, o \notin overlapped'
       PROVE  /\ session'[Owner[o]] = NoConn
              /\ pending'[Owner[o]] = saved'[Owner[o]] /\ subs'[o] = saved'[Owner[o]]
    BY DEF BufferComplete
  <2>1. o # c /\ phase[o] = "restored" /\ o \notin overlapped /\ o \notin PassedOver(c)
    BY <1>1, <1>3
  <2>2. Owner[o] \in Devices \ {d}
    BY <2>1, ConnectionsAssumption DEF PassedOver
  <2>. QED
    BY <1>1, <1>3, <2>1, <2>2 DEF RestoreInvariant, BufferComplete
<1>6. EntryComplete'
  <2>. SUFFICES ASSUME NEW x \in Persistent, session'[x] # NoConn, session'[x] \notin overlapped'
       PROVE  topics'[x] = saved'[x] /\ subs'[session'[x]] = saved'[x]
    BY DEF EntryComplete
  <2>1. CASE x = d
    BY <1>1, <1>3, <2>1 DEF RestoreInvariant, BufferComplete
  <2>2. CASE x # d
    <3>1. x \in Devices \ {d}
      BY <2>2, SessionAssumption
    <3>. QED
      BY <1>1, <1>3, <3>1 DEF RestoreInvariant, EntryComplete
  <2>. QED
    BY <2>1, <2>2
<1>. QED
  BY <1>4, <1>5, <1>6 DEF RestoreInvariant

\* A disconnection leaves the other devices' entries and the buffers alone.
LEMMA DisconnectRestores ==
  ASSUME IInv, RestoreInvariant, NEW c \in Conns, ClientDisconnect(c)
  PROVE  RestoreInvariant'
<1>. DEFINE d == Owner[c]
<1>1. phase[c] = "closing" /\ Live(c)
  BY DEF ClientDisconnect, Live
<1>2. Types /\ d \in Devices /\ session[d] = c /\ c # NoConn
  BY <1>1, Registered DEF IInv
<1>3. /\ phase' = [phase EXCEPT ![c] = "none"] /\ subs' = [subs EXCEPT ![c] = {}]
      /\ session' = [session EXCEPT ![d] = NoConn]
      /\ topics' = [topics EXCEPT ![d] = {}]
      /\ overlapped' = overlapped \ {c}
      /\ pending' = pending /\ saved' = saved
  BY <1>2 DEF ClientDisconnect
<1>4. /\ phase'[c] = "none"
      /\ \A o \in Conns \ {c} : phase'[o] = phase[o] /\ subs'[o] = subs[o]
      /\ session'[d] = NoConn
      /\ \A x \in Devices \ {d} : session'[x] = session[x] /\ topics'[x] = topics[x]
  BY <1>2, <1>3 DEF Types
<1>5. OverlapsPersist'
  BY <1>3 DEF RestoreInvariant, OverlapsPersist
<1>6. BufferComplete'
  <2>. SUFFICES ASSUME NEW o \in Conns,
                       phase'[o] = "restored", Owner[o] \in Persistent, o \notin overlapped'
       PROVE  /\ session'[Owner[o]] = NoConn
              /\ pending'[Owner[o]] = saved'[Owner[o]] /\ subs'[o] = saved'[Owner[o]]
    BY DEF BufferComplete
  <2>1. o \in Conns \ {c} /\ phase[o] = "restored" /\ o \notin overlapped
    BY <1>3, <1>4
  <2>2. /\ session[Owner[o]] = NoConn
        /\ pending[Owner[o]] = saved[Owner[o]] /\ subs[o] = saved[Owner[o]]
    BY <2>1 DEF RestoreInvariant, BufferComplete
  <2>3. Owner[o] \in Devices \ {d}
    BY <1>2, <2>2, ConnectionsAssumption
  <2>. QED
    BY <1>3, <1>4, <2>1, <2>2, <2>3
<1>7. EntryComplete'
  <2>. SUFFICES ASSUME NEW x \in Persistent, session'[x] # NoConn, session'[x] \notin overlapped'
       PROVE  topics'[x] = saved'[x] /\ subs'[session'[x]] = saved'[x]
    BY DEF EntryComplete
  <2>1. x \in Devices \ {d}
    BY <1>4, SessionAssumption
  <2>2. session[x] # NoConn /\ session'[x] = session[x] /\ topics'[x] = topics[x]
    BY <1>4, <2>1
  <2>3. session[x] \in Conns \ {c}
    BY <2>1, <2>2, EntryOf
  <2>4. session[x] \notin overlapped
    BY <1>3, <2>2, <2>3
  <2>. QED
    BY <1>3, <1>4, <2>2, <2>3, <2>4 DEF RestoreInvariant, EntryComplete
<1>. QED
  BY <1>5, <1>6, <1>7 DEF RestoreInvariant

\* A subscription changes the entry, aedes' list and what it keeps together.
LEMMA SubscriptionKeeps ==
  ASSUME IInv, RestoreInvariant, NEW c \in Conns, NEW t \in Topics,
         Subscribe(c, t) \/ Unsubscribe(c, t)
  PROVE  RestoreInvariant'
<1>. DEFINE d == Owner[c]
<1>1. phase[c] = "open" /\ Live(c)
  BY DEF Subscribe, Unsubscribe, Live
<1>2. Types /\ d \in Devices /\ session[d] = c /\ c # NoConn
  BY <1>1, Registered DEF IInv
<1>3. UNCHANGED <<phase, session, pending, overlapped>>
  BY <1>2 DEF Subscribe, Unsubscribe, NoteAuthorized
<1>4. /\ subs \in [Conns -> SUBSET Topics] /\ topics \in [Devices -> SUBSET Topics]
      /\ saved \in [Devices -> SUBSET Topics]
  BY <1>2 DEF Types
<1>5. /\ \A o \in Conns \ {c} : subs'[o] = subs[o]
      /\ \A x \in Devices \ {d} : topics'[x] = topics[x] /\ saved'[x] = saved[x]
  <2>1. CASE Subscribe(c, t)
    <3>1. /\ subs' = [subs EXCEPT ![c] = @ \cup {t}]
          /\ saved' = IF d \in Persistent THEN [saved EXCEPT ![d] = @ \cup {t}] ELSE saved
          /\ topics' = [topics EXCEPT ![d] = @ \cup {t}]
      BY <1>2, <2>1 DEF Subscribe, NoteAuthorized
    <3>. QED
      BY <1>4, <3>1
  <2>2. CASE Unsubscribe(c, t)
    <3>1. /\ subs' = [subs EXCEPT ![c] = @ \ {t}]
          /\ saved' = IF d \in Persistent THEN [saved EXCEPT ![d] = @ \ {t}] ELSE saved
          /\ topics' = [topics EXCEPT ![d] = @ \ {t}]
      BY <1>2, <2>2 DEF Unsubscribe
    <3>. QED
      BY <1>4, <3>1
  <2>. QED
    BY <2>1, <2>2
<1>6. d \in Persistent /\ topics[d] = saved[d] /\ subs[c] = saved[d]
        => topics'[d] = saved'[d] /\ subs'[c] = saved'[d]
  <2>1. CASE Subscribe(c, t)
    BY <1>2, <1>4, <2>1 DEF Subscribe, NoteAuthorized
  <2>2. CASE Unsubscribe(c, t)
    BY <1>2, <1>4, <2>2 DEF Unsubscribe
  <2>. QED
    BY <2>1, <2>2
<1>7. OverlapsPersist'
  BY <1>3 DEF RestoreInvariant, OverlapsPersist
<1>8. BufferComplete'
  <2>. SUFFICES ASSUME NEW o \in Conns,
                       phase'[o] = "restored", Owner[o] \in Persistent, o \notin overlapped'
       PROVE  /\ session'[Owner[o]] = NoConn
              /\ pending'[Owner[o]] = saved'[Owner[o]] /\ subs'[o] = saved'[Owner[o]]
    BY DEF BufferComplete
  <2>1. /\ session[Owner[o]] = NoConn
        /\ pending[Owner[o]] = saved[Owner[o]] /\ subs[o] = saved[Owner[o]]
    BY <1>3 DEF RestoreInvariant, BufferComplete
  <2>2. Owner[o] \in Devices \ {d} /\ o \in Conns \ {c}
    BY <1>2, <2>1, ConnectionsAssumption
  <2>. QED
    BY <1>3, <1>5, <2>1, <2>2
<1>9. EntryComplete'
  <2>. SUFFICES ASSUME NEW x \in Persistent, session'[x] # NoConn, session'[x] \notin overlapped'
       PROVE  topics'[x] = saved'[x] /\ subs'[session'[x]] = saved'[x]
    BY DEF EntryComplete
  <2>1. x \in Devices /\ topics[x] = saved[x] /\ subs[session[x]] = saved[x]
    BY <1>3, SessionAssumption DEF RestoreInvariant, EntryComplete
  <2>2. CASE x = d
    BY <1>2, <1>3, <1>6, <2>1, <2>2
  <2>3. CASE x # d
    <3>1. session[x] \in Conns \ {c}
      BY <1>3, <2>1, <2>3, EntryOf
    <3>. QED
      BY <1>3, <1>5, <2>1, <2>3, <3>1
  <2>. QED
    BY <2>2, <2>3
<1>. QED
  BY <1>7, <1>8, <1>9 DEF RestoreInvariant

\* An attempt that ends leaves the history; an open session stays in it.
LEMMA SocketKeeps ==
  ASSUME IInv, RestoreInvariant, NEW c \in Conns, SocketCloses(c)
  PROVE  RestoreInvariant'
<1>1. /\ phase[c] \in {"authenticated", "restored", "open"}
      /\ phase' = [phase EXCEPT ![c] = IF @ = "open" THEN "closing" ELSE "none"]
      /\ overlapped' = IF phase[c] = "open" THEN overlapped ELSE overlapped \ {c}
      /\ UNCHANGED <<session, topics, pending, subs, saved>>
  BY DEF SocketCloses
<1>2. phase \in [Conns -> Phases]
  BY DEF IInv, Types
<1>3. /\ phase'[c] # "restored" /\ \A o \in Conns \ {c} : phase'[o] = phase[o]
  BY <1>1, <1>2
<1>4. CASE phase[c] = "open"
  BY <1>1, <1>3, <1>4, QuietStep
<1>5. CASE phase[c] # "open"
  <2>1. overlapped' = overlapped \ {c} /\ ~Live(c)
    BY <1>1, <1>5 DEF Live
  <2>2. OverlapsPersist'
    BY <2>1 DEF RestoreInvariant, OverlapsPersist
  <2>3. BufferComplete'
    BY <1>1, <1>3, <2>1 DEF RestoreInvariant, BufferComplete
  <2>4. \A x \in Persistent : session[x] # NoConn => session[x] # c
    BY <2>1, EntryOf, Newcomer, SessionAssumption
  <2>5. EntryComplete'
    BY <1>1, <2>1, <2>4 DEF RestoreInvariant, EntryComplete
  <2>. QED
    BY <2>2, <2>3, <2>5 DEF RestoreInvariant
<1>. QED
  BY <1>4, <1>5

\* Every step keeps what was restored.
LEMMA RestoreNext == IInv /\ RestoreInvariant /\ [Next]_vars => RestoreInvariant'
<1>. SUFFICES ASSUME IInv, RestoreInvariant, [Next]_vars PROVE RestoreInvariant'
  OBVIOUS
<1>. DEFINE NoneRestored == \A c \in Conns : phase'[c] = "restored" => phase[c] = "restored"
            Kept == UNCHANGED <<session, topics, pending, overlapped, subs, saved>>
<1>0. phase \in [Conns -> Phases]
  BY DEF IInv, Types
<1>1. ASSUME NEW c \in Conns, ConnectionStep(c) PROVE RestoreInvariant'
  <2>1. CASE Connect(c) \/ AuthenticateDevice(c)
    <3>1. Kept
      BY <2>1 DEF Connect, AuthenticateDevice, registry
    <3>2. NoneRestored
      BY <1>0, <2>1 DEF Connect, AuthenticateDevice
    <3>. QED
      BY <3>1, <3>2, QuietStep
  <2>2. CASE AuthAnswers(c) \/ AuthFails(c)
    <3>1. Kept
      BY <2>2 DEF AuthAnswers, AuthFails, registry
    <3>2. Release(c, "authenticated") \/ Release(c, "none")
      BY <2>2 DEF AuthAnswers, AuthFails
    <3>3. NoneRestored
      BY <1>0, <3>2 DEF Release
    <3>. QED
      BY <3>1, <3>3, QuietStep
  <2>3. CASE RestoreSubscriptions(c)
    BY <2>3, RestoreCompletes
  <2>4. CASE \E old \in Conns : ReplaceSession(c, old)
    <3>1. Kept
      BY <2>4 DEF ReplaceSession, registry
    <3>2. NoneRestored
      BY <1>0, <2>4 DEF ReplaceSession
    <3>. QED
      BY <3>1, <3>2, QuietStep
  <2>5. CASE ClientRegistered(c)
    BY <2>5, RegisterAdopts
  <2>6. CASE \E t \in Topics : Subscribe(c, t) \/ Unsubscribe(c, t)
    BY <2>6, SubscriptionKeeps
  <2>7. CASE SocketCloses(c)
    BY <2>7, SocketKeeps
  <2>. QED
    BY <1>1, <2>1, <2>2, <2>3, <2>4, <2>5, <2>6, <2>7 DEF ConnectionStep
<1>2. ASSUME NEW d \in Devices, DeviceStep(d) PROVE RestoreInvariant'
  <2>1. Kept
    BY <1>2 DEF DeviceStep, OfflineTimer, RevokeCredentials, IssueCredentials, KickDeviceSession,
                NotificationLost, registry
  <2>2. NoneRestored
    BY <1>0, <1>2 DEF DeviceStep, OfflineTimer, RevokeCredentials, IssueCredentials,
                      KickDeviceSession, NotificationLost
  <2>. QED
    BY <2>1, <2>2, QuietStep
<1>3. CASE (\E d \in Devices : Refill(d) /\ UNCHANGED sessionVars) \/ UNCHANGED vars
  BY <1>3, QuietStep DEF vars, sessionVars, registry
<1>4. CASE \E c \in Conns : Disconnect(c)
  BY <1>4, DisconnectRestores DEF Disconnect
<1>5. CASE \E m \in Msgs, c \in Conns : Publish(m, c)
  <2>1. Kept
    BY <1>5 DEF Publish, registry
  <2>2. NoneRestored
    BY <1>0, <1>5 DEF Publish
  <2>. QED
    BY <2>1, <2>2, QuietStep
<1>6. CASE \E w \in work.executing : RunHandler(w) \/ FailHandler(w)
  <2>1. Kept
    BY <1>6 DEF RunHandler, FailHandler, sessionVars, registry
  <2>2. NoneRestored
    BY <1>0, <1>6 DEF RunHandler, FailHandler, sessionVars
  <2>. QED
    BY <2>1, <2>2, QuietStep
<1>7. CASE Restart
  <2>1. /\ phase' = [c \in Conns |-> "none"] /\ session' = [d \in Devices |-> NoConn]
        /\ overlapped' = {}
    BY <1>7 DEF Restart
  <2>2. OverlapsPersist' /\ BufferComplete'
    BY <2>1 DEF OverlapsPersist, BufferComplete
  <2>3. EntryComplete'
    BY <2>1, SessionAssumption DEF EntryComplete
  <2>. QED
    BY <2>2, <2>3 DEF RestoreInvariant
<1>. QED
  BY <1>1, <1>2, <1>3, <1>4, <1>5, <1>6, <1>7 DEF Next

\* The inductive invariant of the restored subscriptions.
THEOREM RestoredTopics == Spec => []RestoreInvariant
<1>1. Init => RestoreInvariant
  BY SessionAssumption, ConnectionsAssumption
  DEF Init, SessionsInit, RestoreInvariant, OverlapsPersist, BufferComplete, EntryComplete
<1>. QED
  BY <1>1, RestoreNext, SessionsInvariant, PTL DEF Spec

-----------------------------------------------------------------------------
(* What holds of every broker process *)

\* The registry tells the truth: an entry is of a client aedes still has, its
\* topics are exactly those the client is subscribed to, unless it came while an
\* older session was there, and a device without an entry has no open session.
THEOREM RegistryIsTrue == Spec => []RegistryTellsTruth
<1>1. ASSUME IInv, RestoreInvariant PROVE RegistryTellsTruth
  <2>. SUFFICES ASSUME NEW d \in Devices
       PROVE  IF session[d] = NoConn
              THEN topics[d] = {} /\ \A o \in Open : Owner[o] # d
              ELSE /\ Owner[session[d]] = d /\ phase[session[d]] \in {"open", "closing"}
                   /\ IF session[d] \in overlapped THEN topics[d] \subseteq saved[d]
                                                   ELSE topics[d] = subs[session[d]]
    BY DEF RegistryTellsTruth
  <2>1. CASE session[d] = NoConn
    <3>1. ASSUME NEW o \in Open, Owner[o] = d PROVE FALSE
      <4>1. o \in Conns /\ Live(o)
        BY DEF Open, Live
      <4>. QED
        BY <1>1, <2>1, <3>1, <4>1, Registered
    <3>. QED
      BY <1>1, <2>1, <3>1 DEF IInv, TopicsAgree
  <2>2. CASE session[d] # NoConn
    <3>1. session[d] \in Conns /\ Owner[session[d]] = d
      BY <1>1, <2>2, EntryOf
    <3>2. Live(session[d])
      BY <1>1, <3>1 DEF IInv, EntriesAreLive
    <3>3. session[d] \in overlapped => topics[d] \subseteq saved[d]
      BY <1>1, <3>1 DEF RestoreInvariant, OverlapsPersist, IInv, TopicsAgree
    <3>4. session[d] \notin overlapped => topics[d] = subs[session[d]]
      BY <1>1, <2>2 DEF RestoreInvariant, EntryComplete, IInv, TopicsAgree
    <3>. QED
      BY <2>2, <3>1, <3>2, <3>3, <3>4 DEF Live
  <2>. QED
    BY <2>1, <2>2
<1>. QED
  BY <1>1, SessionsInvariant, RestoredTopics, PTL

\* A device with a registered session is neither shown offline nor about to be.
THEOREM NeverFalselyOffline == Spec => []NoFalseOffline
<1>1. IInv => NoFalseOffline
  BY DEF IInv
<1>. QED
  BY <1>1, SessionsInvariant, PTL

\* A durable report is answered only once it is recorded, or dropped on
\* purpose, whatever closes its session in between.
THEOREM AcknowledgedIsRecorded == Spec => []DurableBeforeAck
<1>1. Init => DurableBeforeAck
  BY UplinkAssumption DEF Init, UplinkInit, DurableBeforeAck
<1>2. ASSUME DurableBeforeAck, [Next]_vars PROVE DurableBeforeAck'
  <2>1. CASE UNCHANGED <<unacked, stored>>
    BY <1>2, <2>1 DEF DurableBeforeAck, Oversized
  <2>2. CASE \E m \in Msgs, c \in Conns : Publish(m, c)
    <3>1. PICK m \in Msgs, c \in Conns : Publish(m, c)
      BY <2>2
    <3>2. stored' = stored
      BY <3>1 DEF Publish, PublishPlain, PublishDurable
    <3>3. \/ unacked' = unacked
          \/ unacked' = unacked \ {m} /\ (m \notin Durable \/ Oversized(m))
      BY <3>1 DEF Publish, PublishPlain, PublishDurable
    <3>. QED
      BY <1>2, <3>2, <3>3 DEF DurableBeforeAck, Oversized
  <2>3. CASE \E w \in work.executing : RunHandler(w)
    <3>1. PICK w \in work.executing : HandleUplink(w, Open)
      BY <2>3 DEF RunHandler
    <3>2. stored' = IF w.msg \in Valid THEN stored \cup {w.msg} ELSE stored
      BY <3>1 DEF HandleUplink
    <3>3. unacked' = unacked \/ unacked' = unacked \ {w.msg}
      BY <3>1 DEF HandleUplink, Answer, Acked
    <3>. QED
      BY <1>2, <3>2, <3>3 DEF DurableBeforeAck, Oversized
  <2>4. CASE \E w \in work.executing : FailHandler(w)
    <3>1. PICK w \in work.executing : HandlerFails(w, Open)
      BY <2>4 DEF FailHandler
    <3>2. UNCHANGED <<unacked, stored>>
      BY <3>1 DEF HandlerFails, Answer
    <3>. QED
      BY <2>1, <3>2
  <2>5. CASE \/ \E c \in Conns : ConnectionStep(c) /\ UNCHANGED uplinkVars
             \/ \E d \in Devices : DeviceStep(d) /\ UNCHANGED uplinkVars
             \/ \E d \in Devices : Refill(d)
             \/ \E c \in Conns : Disconnect(c)
             \/ Restart \/ UNCHANGED vars
    BY <2>1, <2>5 DEF uplinkVars, Refill, Disconnect, Restart, vars
  <2>. QED
    BY <1>2, <2>2, <2>3, <2>4, <2>5 DEF Next
<1>3. DurableBeforeAck /\ [Next]_vars => DurableBeforeAck'
  BY <1>2
<1>. QED
  BY <1>1, <1>3, PTL DEF Spec

-----------------------------------------------------------------------------
(* The executor: counting its work.  A unit of work is counted at the place *)
(* where it waits or with the handler that runs it; drain moves units from  *)
(* one to the other.                                                        *)

\* Two sets that a function pairs off have as many elements.
LEMMA PairedOff ==
  ASSUME NEW A, NEW B, NEW f \in [A -> B], IsFiniteSet(A),
         \A x, y \in A : f[x] = f[y] => x = y,
         \A b \in B : \E x \in A : f[x] = b
  PROVE  IsFiniteSet(B) /\ Cardinality(B) = Cardinality(A)
<1>1. f \in Bijection(A, B)
  BY DEF Bijection, Injection, Surjection, IsInjective
<1>. QED
  BY <1>1, FS_Bijection DEF ExistsBijection

\* f pairs off the members of A and B.
PairsOff(f, A, B) ==
  /\ f \in [A -> B] /\ \A x, y \in A : f[x] = f[y] => x = y
  /\ \A b \in B : \E x \in A : f[x] = b

\* The same, for a pairing that is named.
LEMMA PairedOffBy ==
  ASSUME NEW A, NEW B, NEW f, IsFiniteSet(A), PairsOff(f, A, B)
  PROVE  IsFiniteSet(B) /\ Cardinality(B) = Cardinality(A)
  BY PairedOff DEF PairsOff

\* Two finite sets without a common element.
LEMMA CountBoth ==
  ASSUME NEW A, NEW B, IsFiniteSet(A), IsFiniteSet(B), A \cap B = {}
  PROVE  /\ IsFiniteSet(A \cup B)
         /\ Cardinality(A \cup B) = Cardinality(A) + Cardinality(B)
         /\ Cardinality(A) \in Nat /\ Cardinality(B) \in Nat
<1>1. Cardinality(A) \in Nat /\ Cardinality(B) \in Nat
  BY FS_CardinalityType
<1>2. /\ IsFiniteSet(A \cup B)
      /\ Cardinality(A \cup B) = Cardinality(A) + Cardinality(B) - Cardinality(A \cap B)
  BY FS_Union
<1>3. Cardinality(A \cap B) = 0
  BY FS_EmptySet
<1>. QED
  BY <1>1, <1>2, <1>3

\* The units of one piece of work.
LEMMA CountUnits ==
  ASSUME NEW n \in Nat, NEW A, NEW f, PairsOff(f, 1..n, A)
  PROVE  IsFiniteSet(A) /\ Cardinality(A) = n
<1>1. IsFiniteSet(1..n) /\ Cardinality(1..n) = n
  <2>1. /\ IsFiniteSet(1..n)
        /\ Cardinality(1..n) = IF 1 > n THEN 0 ELSE n - 1 + 1
    BY FS_Interval
  <2>. QED
    BY <2>1
<1>. QED
  BY <1>1, PairedOffBy

\* What the units of waiting work are.
LEMMA WaitingMember ==
  ASSUME NEW q, NEW W, NEW u
  PROVE  u \in WaitingUnits(q, W) <=>
           \E d \in Devices : \E i \in DOMAIN q.byDevice[d] :
             \E k \in 1..W[q.byDevice[d][i].msg] : u = <<d, i, k>>
  BY DEF WaitingUnits

\* A unit of waiting work names its device, its place and its number.
LEMMA WaitingShape ==
  ASSUME NEW q, NEW W, NEW u \in WaitingUnits(q, W)
  PROVE  /\ u = <<u[1], u[2], u[3]>>
         /\ u[1] \in Devices /\ u[2] \in DOMAIN q.byDevice[u[1]]
         /\ u[3] \in 1..W[q.byDevice[u[1]][u[2]].msg]
<1>1. PICK d \in Devices : \E i \in DOMAIN q.byDevice[d] :
              \E k \in 1..W[q.byDevice[d][i].msg] : u = <<d, i, k>>
  BY WaitingMember
<1>2. PICK i \in DOMAIN q.byDevice[d] : \E k \in 1..W[q.byDevice[d][i].msg] : u = <<d, i, k>>
  BY <1>1
<1>3. PICK k \in 1..W[q.byDevice[d][i].msg] : u = <<d, i, k>>
  BY <1>2
<1>. QED
  BY <1>3

\* What the units of running work are.
LEMMA RunningMember ==
  ASSUME NEW q, NEW W, NEW u
  PROVE  u \in RunningUnits(q, W) <=>
           \E w \in q.executing : \E k \in 1..W[w.msg] : u = <<w, k>>
  BY DEF RunningUnits

\* The units of work, counted.
Counts(q, W) == IsFiniteSet(WaitingUnits(q, W)) /\ IsFiniteSet(RunningUnits(q, W))

\* Every piece of work is in the queue of its own device.
Sorted(q) ==
  /\ q.byDevice \in [Devices -> Seq(Work)]
  /\ \A d \in Devices : \A i \in DOMAIN q.byDevice[d] : From[q.byDevice[d][i].msg] = d

\* The triples of V are those of U, except that on the devices of S the first
\* place is gone and every later place moves down by one.
MovedDown(U, V, S) ==
  /\ \A u \in U : u = <<u[1], u[2], u[3]>> /\ u[2] \in Nat \ {0}
  /\ \A v \in V : v = <<v[1], v[2], v[3]>> /\ v[2] \in Nat \ {0}
  /\ \A k : \A d \in S : \A i \in Nat \ {0} : <<d, i, k>> \in V <=> <<d, i + 1, k>> \in U
  /\ \A d, k : \A i \in Nat \ {0} : d \notin S => (<<d, i, k>> \in V <=> <<d, i, k>> \in U)

\* The triples of U that are in the first place on a device of S.
Heads(U, S) == {u \in U : u[1] \in S /\ u[2] = 1}

\* What moves down is as much as what was not in the first place.
LEMMA MovesDown ==
  ASSUME NEW U, NEW V, NEW S, IsFiniteSet(U), MovedDown(U, V, S)
  PROVE  IsFiniteSet(V) /\ Cardinality(V) = Cardinality(U \ Heads(U, S))
<1>. USE DEF MovedDown, Heads
<1>. DEFINE K == U \ Heads(U, S)
            Down(u) == IF u[1] \in S THEN u[2] - 1 ELSE u[2]
            g == [u \in K |-> <<u[1], Down(u), u[3]>>]
<1>1. ASSUME NEW u \in K PROVE g[u] \in V
  <2>1. CASE u[1] \in S
    <3>1. u[2] - 1 \in Nat \ {0} /\ (u[2] - 1) + 1 = u[2]
      BY <2>1
    <3>2. <<u[1], (u[2] - 1) + 1, u[3]>> \in U
      BY <3>1
    <3>3. <<u[1], u[2] - 1, u[3]>> \in V
      BY <2>1, <3>1, <3>2
    <3>. QED
      BY <2>1, <3>3
  <2>2. CASE u[1] \notin S
    BY <2>2
  <2>. QED
    BY <2>1, <2>2
<1>2. g \in [K -> V]
  BY <1>1
<1>3. ASSUME NEW x \in K, NEW y \in K, g[x] = g[y] PROVE x = y
  <2>1. x[1] = y[1] /\ x[3] = y[3] /\ Down(x) = Down(y)
    BY <1>3
  <2>2. x[2] = y[2]
    BY <2>1
  <2>. QED
    BY <2>1, <2>2
<1>4. ASSUME NEW v \in V PROVE \E u \in K : g[u] = v
  <2>1. CASE v[1] \in S
    <3>. DEFINE u == <<v[1], v[2] + 1, v[3]>>
    <3>1. u \in U /\ u[1] = v[1] /\ u[2] = v[2] + 1 /\ u[3] = v[3]
      BY <2>1
    <3>. HIDE DEF u
    <3>2. u \in K
      BY <3>1
    <3>3. g[u] = v
      BY <2>1, <3>1, <3>2
    <3>. QED
      BY <3>2, <3>3
  <2>2. CASE v[1] \notin S
    <3>1. v \in K
      BY <2>2
    <3>2. g[v] = v
      BY <2>2, <3>1
    <3>. QED
      BY <3>1, <3>2
  <2>. QED
    BY <2>1, <2>2
<1>5. IsFiniteSet(K)
  BY FS_Subset
<1>. HIDE DEF g, K, Heads, MovedDown
<1>6. IsFiniteSet(V) /\ Cardinality(V) = Cardinality(K)
  BY <1>2, <1>3, <1>4, <1>5, PairedOff
<1>. QED
  BY <1>6 DEF K

\* Work that starts leaves its queue, and nothing else changes: it is counted
\* where it was before.
LEMMA StartsWeigh ==
  ASSUME NEW q, NEW r, NEW W \in [Msgs -> Nat], NEW S \in SUBSET Devices,
         Sorted(q), q.executing \subseteq Work, Counts(q, W),
         \A d \in S : q.byDevice[d] # <<>>,
         \A w \in q.executing : From[w.msg] \notin S,
         r.byDevice = [d \in Devices |-> IF d \in S THEN Tail(q.byDevice[d]) ELSE q.byDevice[d]],
         r.executing = q.executing \cup {Head(q.byDevice[d]) : d \in S}
  PROVE  Counts(r, W) /\ Weight(r, W) = Weight(q, W)
<1>. DEFINE B == q.byDevice
            U == WaitingUnits(q, W)
            V == WaitingUnits(r, W)
            H == {u \in U : u[1] \in S /\ u[2] = 1}
            X == RunningUnits(q, W)
            Y == RunningUnits(r, W)
            N == UNION {{<<Head(B[d]), k>> : k \in 1..W[Head(B[d]).msg]} : d \in S}
            g == [u \in U \ H |-> <<u[1], IF u[1] \in S THEN u[2] - 1 ELSE u[2], u[3]>>]
            h == [u \in H |-> <<Head(B[u[1]]), u[3]>>]
<1>1. /\ \A d \in Devices : B[d] \in Seq(Work) /\ DOMAIN B[d] = 1..Len(B[d]) /\ Len(B[d]) \in Nat
      /\ \A d \in Devices : \A i \in DOMAIN B[d] : B[d][i] \in Work /\ From[B[d][i].msg] = d
  BY DEF Sorted
<1>2. \A d \in S : /\ Head(B[d]) = B[d][1] /\ 1 \in DOMAIN B[d] /\ From[Head(B[d]).msg] = d
  BY <1>1
<1>2a. ASSUME NEW d \in S, NEW t, t = r.byDevice[d]
       PROVE  /\ DOMAIN t = 1..(Len(B[d]) - 1) /\ Len(B[d]) \in Nat
              /\ \A i \in 1..(Len(B[d]) - 1) : t[i] = B[d][i + 1]
  <2>1. t = Tail(B[d]) /\ B[d] \in Seq(Work) /\ B[d] # <<>>
    BY <1>1, <1>2a
  <2>. QED
    BY <2>1
<1>3. \A w \in Work : w.msg \in Msgs /\ W[w.msg] \in Nat
  BY DEF Work
<1>4. ASSUME NEW u \in U
      PROVE  /\ u = <<u[1], u[2], u[3]>>
             /\ u[1] \in Devices /\ u[2] \in 1..Len(B[u[1]])
             /\ u[3] \in 1..W[B[u[1]][u[2]].msg]
  <2>1. /\ u = <<u[1], u[2], u[3]>>
        /\ u[1] \in Devices /\ u[2] \in DOMAIN B[u[1]]
        /\ u[3] \in 1..W[B[u[1]][u[2]].msg]
    BY <1>4, WaitingShape
  <2>2. DOMAIN B[u[1]] = 1..Len(B[u[1]])
    BY <1>1, <2>1
  <2>. QED
    BY <2>1, <2>2
<1>5. ASSUME NEW d \in Devices, NEW i \in 1..Len(B[d]), NEW k \in 1..W[B[d][i].msg]
      PROVE  <<d, i, k>> \in U
  BY <1>1, WaitingMember
<1>6. ASSUME NEW v \in V
      PROVE  /\ v = <<v[1], v[2], v[3]>>
             /\ v[1] \in Devices /\ v[2] \in DOMAIN r.byDevice[v[1]]
             /\ v[3] \in 1..W[r.byDevice[v[1]][v[2]].msg]
  BY <1>6, WaitingShape
<1>7. ASSUME NEW d \in Devices, NEW i \in DOMAIN r.byDevice[d], NEW k \in 1..W[r.byDevice[d][i].msg]
      PROVE  <<d, i, k>> \in V
  BY WaitingMember
<1>8. IsFiniteSet(V) /\ Cardinality(V) = Cardinality(U \ H)
  <2>1. ASSUME NEW d, NEW i, NEW k
        PROVE  /\ <<d, i, k>> \in U <=> /\ d \in Devices /\ i \in 1..Len(B[d])
                                      /\ k \in 1..W[B[d][i].msg]
               /\ <<d, i, k>> \in V <=> /\ d \in Devices /\ i \in DOMAIN r.byDevice[d]
                                      /\ k \in 1..W[r.byDevice[d][i].msg]
    <3>1. PICK u : u = <<d, i, k>>
      OBVIOUS
    <3>2. u[1] = d /\ u[2] = i /\ u[3] = k
      BY <3>1
    <3>. HIDE DEF U, V
    <3>3. /\ u \in U => d \in Devices /\ i \in 1..Len(B[d]) /\ k \in 1..W[B[d][i].msg]
          /\ u \in V => /\ d \in Devices /\ i \in DOMAIN r.byDevice[d]
                        /\ k \in 1..W[r.byDevice[d][i].msg]
      BY <1>4, <1>6, <3>2
    <3>. QED
      BY <1>5, <1>7, <3>1, <3>3
  <2>2. IsFiniteSet(U)
    BY DEF Counts
  <2>. HIDE DEF U, V
  <2>3. \A u \in U : u = <<u[1], u[2], u[3]>> /\ u[2] \in Nat \ {0}
    BY <1>1, <1>4
  <2>4. ASSUME NEW d \in S, NEW k, NEW i \in Nat \ {0}
        PROVE  <<d, i, k>> \in V <=> <<d, i + 1, k>> \in U
    <3>1. PICK t : t = r.byDevice[d]
      OBVIOUS
    <3>2. PICK m \in Nat : m = Len(B[d])
      BY <1>1
    <3>3. DOMAIN t = 1..(m - 1) /\ \A j \in 1..(m - 1) : t[j] = B[d][j + 1]
      BY <1>2a, <3>1, <3>2
    <3>4. i \in 1..(m - 1) <=> i + 1 \in 1..m
      BY <3>2
    <3>5. /\ <<d, i, k>> \in V <=> i \in DOMAIN t /\ k \in 1..W[t[i].msg]
          /\ <<d, i + 1, k>> \in U <=> i + 1 \in 1..m /\ k \in 1..W[B[d][i + 1].msg]
      BY <2>1, <3>1, <3>2
    <3>. QED
      BY <3>3, <3>4, <3>5
  <2>5. ASSUME NEW d, NEW k, NEW i \in Nat \ {0}, d \notin S
        PROVE  <<d, i, k>> \in V <=> <<d, i, k>> \in U
    <3>1. d \in Devices => r.byDevice[d] = B[d]
      BY <2>5
    <3>2. d \in Devices => DOMAIN B[d] = 1..Len(B[d])
      BY <1>1
    <3>3. CASE d \in Devices
      <4>1. r.byDevice[d] = B[d] /\ DOMAIN B[d] = 1..Len(B[d])
        BY <3>1, <3>2, <3>3
      <4>2. /\ <<d, i, k>> \in U <=> i \in 1..Len(B[d]) /\ k \in 1..W[B[d][i].msg]
            /\ <<d, i, k>> \in V <=> i \in DOMAIN r.byDevice[d] /\ k \in 1..W[r.byDevice[d][i].msg]
        BY <2>1, <3>3
      <4>. QED
        BY <4>1, <4>2, Zenon
    <3>4. CASE d \notin Devices
      BY <2>1, <3>4
    <3>. QED
      BY <3>3, <3>4
  <2>6. \A v \in V : v = <<v[1], v[2], v[3]>> /\ v[2] \in Nat \ {0}
    <3>1. ASSUME NEW v \in V PROVE v[2] \in Nat \ {0}
      <4>1. v[1] \in Devices /\ v[2] \in DOMAIN r.byDevice[v[1]]
        BY <1>6
      <4>2. \A n \in Nat : 1..n \subseteq Nat \ {0} /\ 1..(n - 1) \subseteq Nat \ {0}
        OBVIOUS
      <4>3. CASE v[1] \in S
        BY <1>2a, <4>1, <4>2, <4>3
      <4>4. CASE v[1] \notin S
        <5>1. r.byDevice[v[1]] = B[v[1]]
          BY <4>1, <4>4
        <5>. QED
          BY <1>1, <4>1, <4>2, <5>1
      <4>. QED
        BY <4>3, <4>4
    <3>. QED
      BY <1>6, <3>1
  <2>7. H = Heads(U, S)
    BY DEF Heads
  <2>8. MovedDown(U, V, S)
    BY <2>3, <2>4, <2>5, <2>6 DEF MovedDown
  <2>. HIDE DEF H
  <2>. QED
    BY <2>2, <2>7, <2>8, MovesDown
<1>9. IsFiniteSet(N) /\ Cardinality(N) = Cardinality(H)
  <2>1. ASSUME NEW u \in H
        PROVE  /\ u = <<u[1], 1, u[3]>> /\ u[1] \in S
               /\ u[3] \in 1..W[Head(B[u[1]]).msg]
    BY <1>2, <1>4
  <2>2. h \in [H -> N]
    BY <2>1
  <2>3. ASSUME NEW x \in H, NEW y \in H, h[x] = h[y] PROVE x = y
    <3>1. Head(B[x[1]]) = Head(B[y[1]]) /\ x[3] = y[3]
      BY <2>3
    <3>2. x[1] = y[1]
      BY <1>2, <2>1, <3>1
    <3>. QED
      BY <2>1, <3>1, <3>2
  <2>4. ASSUME NEW v \in N PROVE \E u \in H : h[u] = v
    <3>1. PICK d \in S : \E k \in 1..W[Head(B[d]).msg] : v = <<Head(B[d]), k>>
      OBVIOUS
    <3>2. PICK k \in 1..W[Head(B[d]).msg] : v = <<Head(B[d]), k>>
      BY <3>1
    <3>3. <<d, 1, k>> \in U
      BY <1>1, <1>2, <1>5
    <3>4. <<d, 1, k>> \in H
      BY <3>3
    <3>. QED
      BY <3>2, <3>4
  <2>5. IsFiniteSet(H)
    BY FS_Subset DEF Counts
  <2>. HIDE DEF h, H, N
  <2>6. PairsOff(h, H, N)
    BY <2>2, <2>3, <2>4 DEF PairsOff
  <2>. QED
    BY <2>5, <2>6, PairedOffBy
<1>10. Y = X \cup N
  <2>1. ASSUME NEW y \in Y PROVE y \in X \cup N
    <3>1. PICK w \in r.executing : \E k \in 1..W[w.msg] : y = <<w, k>>
      BY <2>1, RunningMember
    <3>2. ASSUME w \in q.executing PROVE y \in X
      BY <3>1, <3>2, RunningMember
    <3>3. ASSUME w \notin q.executing PROVE y \in N
      <4>1. PICK d \in S : w = Head(B[d])
        BY <3>3
      <4>. QED
        BY <3>1, <4>1
    <3>. HIDE DEF X, N
    <3>. QED
      BY <3>2, <3>3
  <2>2. X \subseteq Y
    <3>1. ASSUME NEW x \in X PROVE x \in Y
      BY <3>1, RunningMember
    <3>. QED
      BY <3>1
  <2>3. ASSUME NEW y \in N PROVE y \in Y
    <3>1. PICK d \in S : \E k \in 1..W[Head(B[d]).msg] : y = <<Head(B[d]), k>>
      OBVIOUS
    <3>2. Head(B[d]) \in r.executing
      OBVIOUS
    <3>. QED
      BY <3>1, <3>2, RunningMember
  <2>. QED
    BY <2>1, <2>2, <2>3
<1>11. X \cap N = {}
  <2>. SUFFICES ASSUME NEW x \in X, x \in N PROVE FALSE
    OBVIOUS
  <2>1. PICK w \in q.executing : \E k \in 1..W[w.msg] : x = <<w, k>>
    BY RunningMember
  <2>2. PICK d \in S : \E k \in 1..W[Head(B[d]).msg] : x = <<Head(B[d]), k>>
    OBVIOUS
  <2>3. w = Head(B[d])
    BY <2>1, <2>2
  <2>. QED
    BY <1>1, <1>2, <2>1, <2>3
<1>12. U = (U \ H) \cup H /\ (U \ H) \cap H = {} /\ IsFiniteSet(U \ H) /\ IsFiniteSet(H)
  BY FS_Subset DEF Counts
<1>13. IsFiniteSet(X)
  BY DEF Counts
<1>. HIDE DEF U, V, H, X, Y, N, g, h
<1>14. Cardinality(U) = Cardinality(U \ H) + Cardinality(H)
  BY <1>12, CountBoth
<1>15. IsFiniteSet(Y) /\ Cardinality(Y) = Cardinality(X) + Cardinality(N)
  BY <1>9, <1>10, <1>11, <1>13, CountBoth
<1>16. /\ Cardinality(U \ H) \in Nat /\ Cardinality(H) \in Nat /\ Cardinality(X) \in Nat
  BY <1>12, <1>13, FS_CardinalityType
<1>17. Cardinality(V) + Cardinality(Y) = Cardinality(U) + Cardinality(X)
  BY <1>8, <1>9, <1>14, <1>15, <1>16
<1>. QED
  BY <1>8, <1>15, <1>17 DEF Weight, Counts, U, V, X, Y

-----------------------------------------------------------------------------
\* Every non-empty set of naturals has a least element.
LEMMA LeastElement ==
  ASSUME NEW A \in SUBSET Nat, A # {}
  PROVE  \E x \in A : \A y \in A : x <= y
<1>. DEFINE R == {ss \in Nat \X Nat : ss[1] < ss[2]}
<1>1. IsWellFoundedOn(R, Nat)
  BY NatLessThanWellFounded DEF OpToRel
<1>2. PICK x \in A : \A y \in A : ~(<<y, x>> \in R)
  <2>. HIDE DEF R
  <2>. QED
    BY <1>1, WFMin
<1>3. ASSUME NEW y \in A PROVE x <= y
  <2>1. x \in Nat /\ y \in Nat
    OBVIOUS
  <2>2. <<y, x>> \in R <=> y < x
    BY <2>1
  <2>. QED
    BY <1>2, <2>1, <2>2
<1>. QED
  BY <1>3

\* The devices a prefix of the ready ones can start.
LEMMA StartableFinite ==
  ASSUME NEW q, q.ready \in Seq(Devices), NEW n \in 0..Len(q.ready)
  PROVE  /\ IsFiniteSet(Startable(q, n)) /\ Cardinality(Startable(q, n)) \in Nat
         /\ Startable(q, n) \subseteq Devices
<1>. DEFINE A == {q.ready[i] : i \in 1..n}
            f == [i \in 1..n |-> q.ready[i]]
<1>1. f \in Surjection(1..n, A)
  BY DEF Surjection
<1>2. IsFiniteSet(1..n)
  BY FS_Interval
<1>3. IsFiniteSet(A)
  <2>. HIDE DEF f, A
  <2>. QED
    BY <1>1, <1>2, FS_Surjection
<1>4. Startable(q, n) \subseteq A
  BY DEF Startable
<1>5. A \subseteq Devices
  OBVIOUS
<1>. HIDE DEF A
<1>. QED
  BY <1>3, <1>4, <1>5, FS_Subset, FS_CardinalityType

\* The loop of drain takes as many turns as it can and overruns no slot.
LEMMA TurnsOfDrain ==
  ASSUME NEW q, q.ready \in Seq(Devices), q.running \in 0..Concurrency,
         NEW n, n = DrainTurns(q)
  PROVE  /\ n \in 0..Len(q.ready)
         /\ q.running + Cardinality(Startable(q, n)) <= Concurrency
         /\ n = Len(q.ready) \/ q.running + Cardinality(Startable(q, n)) = Concurrency
<1>. DEFINE L == Len(q.ready)
            C(k) == Cardinality(Startable(q, k))
            E == {k \in 0..L : DrainEnds(q, k)}
<1>1. L \in Nat
  OBVIOUS
<1>2. L \in E
  BY <1>1 DEF DrainEnds
<1>3. PICK m \in E : \A k \in E : m <= k
  <2>1. E \in SUBSET Nat
    BY <1>1
  <2>. HIDE DEF E
  <2>. QED
    BY <1>2, <2>1, LeastElement
<1>4. m \in 0..L /\ DrainEnds(q, m) /\ \A k \in 0..(m - 1) : ~DrainEnds(q, k)
  BY <1>1, <1>3
<1>5. n \in 0..L /\ DrainEnds(q, n) /\ \A k \in 0..(n - 1) : ~DrainEnds(q, k)
  BY <1>4 DEF DrainTurns
<1>6. C(n) \in Nat
  BY <1>5, StartableFinite
<1>7. Concurrency \in Nat
  BY UplinkAssumption
<1>8. q.running + C(n) <= Concurrency
  <2>1. CASE n = 0
    <3>1. Startable(q, n) = {}
      BY <2>1 DEF Startable
    <3>2. C(n) = 0
      BY <3>1, FS_EmptySet
    <3>. QED
      BY <1>7, <3>2
  <2>2. CASE n # 0
    <3>1. n - 1 \in 0..(n - 1) /\ n - 1 \in 0..L /\ n - 1 # L
      BY <1>1, <1>5, <2>2
    <3>2. ~DrainEnds(q, n - 1)
      BY <1>5, <3>1
    <3>3. C(n - 1) \in Nat /\ IsFiniteSet(Startable(q, n - 1))
      BY <3>1, StartableFinite
    <3>4. q.running + C(n - 1) < Concurrency
      BY <1>7, <3>1, <3>2, <3>3 DEF DrainEnds
    <3>5. 1..n = 1..(n - 1) \cup {n}
      BY <1>5, <2>2
    <3>6. Startable(q, n) = Startable(q, n - 1) \/ Startable(q, n) = Startable(q, n - 1) \cup {q.ready[n]}
      BY <3>5 DEF Startable
    <3>7. C(n) <= C(n - 1) + 1
      <4>1. PICK A, a : A = Startable(q, n - 1) /\ a = q.ready[n]
        OBVIOUS
      <4>2. IsFiniteSet(A) /\ Cardinality(A) \in Nat
        BY <3>3, <4>1
      <4>3. Cardinality(A \cup {a}) = IF a \in A THEN Cardinality(A) ELSE Cardinality(A) + 1
        BY <4>2, FS_AddElement
      <4>4. Cardinality(A \cup {a}) <= Cardinality(A) + 1
        BY <4>2, <4>3
      <4>5. Startable(q, n) = A \/ Startable(q, n) = A \cup {a}
        BY <3>6, <4>1
      <4>6. CASE Startable(q, n) = A
        BY <4>1, <4>2, <4>6
      <4>7. CASE Startable(q, n) = A \cup {a}
        <5>1. Cardinality(Startable(q, n)) = Cardinality(A \cup {a})
          BY <4>7, Zenon
        <5>. QED
          BY <4>1, <4>4, <5>1
      <4>. QED
        BY <4>5, <4>6, <4>7
    <3>. QED
      BY <1>6, <1>7, <3>3, <3>4, <3>7
  <2>. QED
    BY <2>1, <2>2
<1>9. n = L \/ q.running + C(n) >= Concurrency
  BY <1>5 DEF DrainEnds
<1>. QED
  BY <1>5, <1>6, <1>7, <1>8, <1>9

-----------------------------------------------------------------------------
\* The type of a queue, within its limits.
IsQueue(q) ==
  q \in [byDevice : [Devices -> Seq(Work)], active : SUBSET Devices, ready : Seq(Devices),
         executing : SUBSET Work, running : 0..Concurrency, outstanding : 0..Capacity,
         bytes : 0..MaxBytes]

\* A device runs one handler at a time, and is active meanwhile.
OneEach(q) ==
  /\ \A v, w \in q.executing : From[v.msg] = From[w.msg] => v = w
  /\ q.active = {From[w.msg] : w \in q.executing}
  /\ IsFiniteSet(q.executing) /\ q.running = Cardinality(q.executing)

\* A device that is not active and has work is ready, once.
ReadyOnce(q) ==
  /\ \A i, j \in DOMAIN q.ready : q.ready[i] = q.ready[j] => i = j
  /\ {q.ready[i] : i \in DOMAIN q.ready} = {d \in Devices \ q.active : q.byDevice[d] # <<>>}

\* The counters are right.
Weighed(q) ==
  /\ Counts(q, Each) /\ Counts(q, Size)
  /\ q.outstanding = Weight(q, Each) /\ q.bytes = Weight(q, Size)

\* The books of the executor.
Books(q) == IsQueue(q) /\ Sorted(q) /\ OneEach(q) /\ ReadyOnce(q) /\ Weighed(q)

\* Nothing waits while a slot is free.
Busy(q) == q.ready # <<>> => q.running = Concurrency

\* Messages are weighed one by one, or by their bytes.
LEMMA WeightsAre == Each \in [Msgs -> Nat] /\ Size \in [Msgs -> Nat]
  BY UplinkAssumption DEF Each

\* What drain does, field by field.
LEMMA DrainFields ==
  ASSUME NEW q, IsQueue(q), NEW n, n = DrainTurns(q), NEW S, S = Startable(q, n)
  PROVE  LET r == Drain(q) IN
         /\ r = [byDevice |-> r.byDevice, active |-> r.active, ready |-> r.ready,
                 executing |-> r.executing, running |-> r.running,
                 outstanding |-> r.outstanding, bytes |-> r.bytes]
         /\ r.ready = SubSeq(q.ready, n + 1, Len(q.ready))
         /\ r.byDevice = [d \in Devices |-> IF d \in S THEN Tail(q.byDevice[d]) ELSE q.byDevice[d]]
         /\ r.active = q.active \cup S
         /\ r.executing = q.executing \cup {Head(q.byDevice[d]) : d \in S}
         /\ r.running = q.running + Cardinality(S)
         /\ r.outstanding = q.outstanding /\ r.bytes = q.bytes
<1>1. Drain(q) = [q EXCEPT !.ready = SubSeq(@, n + 1, Len(@)),
                           !.byDevice = [d \in Devices |-> IF d \in S THEN Tail(@[d]) ELSE @[d]],
                           !.active = @ \cup S,
                           !.executing = @ \cup {Head(q.byDevice[d]) : d \in S},
                           !.running = @ + Cardinality(S)]
  BY DEF Drain
<1>2. q = [byDevice |-> q.byDevice, active |-> q.active, ready |-> q.ready,
           executing |-> q.executing, running |-> q.running,
           outstanding |-> q.outstanding, bytes |-> q.bytes]
  BY DEF IsQueue
<1>3. Drain(q) = [byDevice |-> [d \in Devices |-> IF d \in S THEN Tail(q.byDevice[d]) ELSE q.byDevice[d]],
                  active |-> q.active \cup S, ready |-> SubSeq(q.ready, n + 1, Len(q.ready)),
                  executing |-> q.executing \cup {Head(q.byDevice[d]) : d \in S},
                  running |-> q.running + Cardinality(S),
                  outstanding |-> q.outstanding, bytes |-> q.bytes]
  BY <1>1, <1>2
<1>4. PICK b, a, y, x, u, o, z :
        /\ b = [d \in Devices |-> IF d \in S THEN Tail(q.byDevice[d]) ELSE q.byDevice[d]]
        /\ a = q.active \cup S /\ y = SubSeq(q.ready, n + 1, Len(q.ready))
        /\ x = q.executing \cup {Head(q.byDevice[d]) : d \in S}
        /\ u = q.running + Cardinality(S) /\ o = q.outstanding /\ z = q.bytes
  OBVIOUS
<1>5. Drain(q) = [byDevice |-> b, active |-> a, ready |-> y, executing |-> x, running |-> u,
                  outstanding |-> o, bytes |-> z]
  BY <1>3, <1>4
<1>6. LET r == Drain(q) IN
      /\ r = [byDevice |-> r.byDevice, active |-> r.active, ready |-> r.ready,
              executing |-> r.executing, running |-> r.running,
              outstanding |-> r.outstanding, bytes |-> r.bytes]
      /\ r.byDevice = b /\ r.active = a /\ r.ready = y /\ r.executing = x /\ r.running = u
      /\ r.outstanding = o /\ r.bytes = z
  BY <1>5
<1>. QED
  BY <1>4, <1>6

\* The end of a sequence, from its place n on.
LEMMA Suffix ==
  ASSUME NEW X, NEW s \in Seq(X), NEW n \in 0..Len(s), NEW t, t = SubSeq(s, n + 1, Len(s))
  PROVE  /\ DOMAIN s = 1..Len(s) /\ Len(s) \in Nat
         /\ t \in Seq(X) /\ Len(t) = Len(s) - n /\ DOMAIN t = 1..(Len(s) - n)
         /\ \A i \in 1..(Len(s) - n) : t[i] = s[i + n]
<1>1. Len(s) \in Nat /\ DOMAIN s = 1..Len(s)
  OBVIOUS
<1>2. \A i \in (n + 1)..Len(s) : s[i] \in X
  BY <1>1
<1>3. /\ t \in Seq(X)
      /\ Len(t) = IF n + 1 <= Len(s) THEN Len(s) - (n + 1) + 1 ELSE 0
      /\ \A i \in 1..(Len(s) - (n + 1) + 1) : t[i] = s[(n + 1) + i - 1]
  BY <1>1, <1>2, SubSeqProperties
<1>4. Len(t) = Len(s) - n
  <2>1. CASE n = Len(s)
    BY <1>1, <1>3, <2>1
  <2>2. CASE n # Len(s)
    <3>0. PICK m \in Nat : m = Len(s)
      BY <1>1
    <3>1. n + 1 <= Len(s) /\ Len(s) - (n + 1) + 1 = Len(s) - n
      BY <2>2, <3>0
    <3>. QED
      BY <1>3, <3>1
  <2>. QED
    BY <2>1, <2>2
<1>4a. DOMAIN t = 1..Len(t)
  BY <1>3
<1>5. ASSUME NEW i \in 1..(Len(s) - n) PROVE t[i] = s[i + n]
  <2>1. i \in 1..(Len(s) - (n + 1) + 1) /\ (n + 1) + i - 1 = i + n
    BY <1>1
  <2>. QED
    BY <1>3, <2>1
<1>. QED
  BY <1>1, <1>3, <1>4, <1>4a, <1>5

\* Starting what can be started keeps the books, and leaves no slot free that
\* somebody waits for.
LEMMA DrainKeeps ==
  ASSUME NEW q, Books(q)
  PROVE  Books(Drain(q)) /\ Busy(Drain(q))
<1>. DEFINE n == DrainTurns(q)
            S == Startable(q, n)
            N == {Head(q.byDevice[d]) : d \in S}
<1>0. PICK r : r = Drain(q)
  OBVIOUS
<1>1. /\ r = [byDevice |-> r.byDevice, active |-> r.active, ready |-> r.ready,
              executing |-> r.executing, running |-> r.running,
              outstanding |-> r.outstanding, bytes |-> r.bytes]
      /\ r.ready = SubSeq(q.ready, n + 1, Len(q.ready))
      /\ r.byDevice = [d \in Devices |-> IF d \in S THEN Tail(q.byDevice[d]) ELSE q.byDevice[d]]
      /\ r.active = q.active \cup S
      /\ r.executing = q.executing \cup N
      /\ r.running = q.running + Cardinality(S)
      /\ r.outstanding = q.outstanding /\ r.bytes = q.bytes
  BY <1>0, DrainFields DEF Books
<1>2. /\ q.byDevice \in [Devices -> Seq(Work)] /\ q.active \in SUBSET Devices
      /\ q.ready \in Seq(Devices) /\ q.executing \in SUBSET Work
      /\ q.running \in 0..Concurrency /\ q.outstanding \in 0..Capacity /\ q.bytes \in 0..MaxBytes
  BY DEF Books, IsQueue
<1>3. /\ n \in 0..Len(q.ready)
      /\ q.running + Cardinality(S) <= Concurrency
      /\ n = Len(q.ready) \/ q.running + Cardinality(S) = Concurrency
  BY <1>2, TurnsOfDrain
<1>4. IsFiniteSet(S) /\ Cardinality(S) \in Nat /\ S \in SUBSET Devices
  BY <1>2, <1>3, StartableFinite
<1>5. \A d \in S : /\ d \in Devices /\ d \notin q.active /\ q.byDevice[d] # <<>>
                   /\ \E i \in 1..n : d = q.ready[i]
  BY <1>4 DEF Startable
<1>6. \A d \in S : Head(q.byDevice[d]) \in Work /\ From[Head(q.byDevice[d]).msg] = d
  <2>1. ASSUME NEW d \in S PROVE Head(q.byDevice[d]) \in Work /\ From[Head(q.byDevice[d]).msg] = d
    <3>1. q.byDevice[d] \in Seq(Work) /\ q.byDevice[d] # <<>>
      BY <1>2, <1>5
    <3>2. Head(q.byDevice[d]) = q.byDevice[d][1] /\ 1 \in DOMAIN q.byDevice[d] /\ q.byDevice[d][1] \in Work
      BY <3>1
    <3>. QED
      BY <1>4, <3>2 DEF Books, Sorted
  <2>. QED
    BY <2>1
<1>. HIDE DEF n, S
<1>7. \A w \in q.executing : From[w.msg] \in q.active
  BY DEF Books, OneEach
<1>8. IsQueue(r)
  <2>1. r.ready \in Seq(Devices)
    BY <1>1, <1>2, <1>3, Suffix
  <2>2. r.byDevice \in [Devices -> Seq(Work)]
    <3>1. ASSUME NEW d \in S PROVE Tail(q.byDevice[d]) \in Seq(Work)
      BY <1>2, <1>5
    <3>. QED
      BY <1>1, <1>2, <3>1
  <2>3. r.active \in SUBSET Devices /\ r.executing \in SUBSET Work
    BY <1>1, <1>2, <1>4, <1>6
  <2>4. r.running \in 0..Concurrency
    BY <1>1, <1>2, <1>3, <1>4, UplinkAssumption
  <2>. QED
    BY <1>1, <1>2, <2>1, <2>2, <2>3, <2>4 DEF IsQueue
<1>9. Sorted(r)
  <2>1. ASSUME NEW d \in Devices, NEW i \in DOMAIN r.byDevice[d]
        PROVE  From[r.byDevice[d][i].msg] = d
    <3>1. CASE d \in S
      <4>1. r.byDevice[d] = Tail(q.byDevice[d]) /\ q.byDevice[d] \in Seq(Work) /\ q.byDevice[d] # <<>>
        BY <1>1, <1>2, <1>5, <3>1
      <4>2. i + 1 \in DOMAIN q.byDevice[d] /\ r.byDevice[d][i] = q.byDevice[d][i + 1]
        BY <2>1, <4>1
      <4>. QED
        BY <4>2 DEF Books, Sorted
    <3>2. CASE d \notin S
      <4>1. r.byDevice[d] = q.byDevice[d]
        BY <1>1, <3>2
      <4>. QED
        BY <4>1 DEF Books, Sorted
    <3>. QED
      BY <3>1, <3>2
  <2>. QED
    BY <1>8, <2>1 DEF Sorted, IsQueue
<1>10. OneEach(r)
  <2>1. \A v, w \in r.executing : From[v.msg] = From[w.msg] => v = w
    <3>1. \A v, w \in q.executing : From[v.msg] = From[w.msg] => v = w
      BY DEF Books, OneEach
    <3>. QED
      BY <1>1, <1>5, <1>6, <1>7, <3>1
  <2>2. r.active = {From[w.msg] : w \in r.executing}
    <3>1. q.active = {From[w.msg] : w \in q.executing}
      BY DEF Books, OneEach
    <3>. QED
      BY <1>1, <1>6, <3>1
  <2>3. IsFiniteSet(N) /\ Cardinality(N) = Cardinality(S)
    <3>. DEFINE f == [d \in S |-> Head(q.byDevice[d])]
    <3>1. f \in [S -> N] /\ \A v \in N : \E d \in S : f[d] = v
      OBVIOUS
    <3>2. \A x, y \in S : f[x] = f[y] => x = y
      BY <1>6
    <3>. HIDE DEF f, N
    <3>. QED
      BY <1>4, <3>1, <3>2, PairedOff
  <2>4. q.executing \cap N = {}
    BY <1>5, <1>6, <1>7
  <2>5. IsFiniteSet(q.executing) /\ q.running = Cardinality(q.executing)
    BY DEF Books, OneEach
  <2>6. IsFiniteSet(r.executing) /\ r.running = Cardinality(r.executing)
    <3>. HIDE DEF N
    <3>. QED
      BY <1>1, <2>3, <2>4, <2>5, CountBoth
  <2>. QED
    BY <2>1, <2>2, <2>6 DEF OneEach
<1>11. ReadyOnce(r)
  <2>1. /\ DOMAIN q.ready = 1..Len(q.ready) /\ Len(q.ready) \in Nat
        /\ DOMAIN r.ready = 1..(Len(q.ready) - n)
        /\ \A i \in 1..(Len(q.ready) - n) : r.ready[i] = q.ready[i + n]
    <3>1. PICK s, t : s = q.ready /\ t = r.ready
      OBVIOUS
    <3>2. s \in Seq(Devices) /\ n \in 0..Len(s) /\ t = SubSeq(s, n + 1, Len(s))
      BY <1>1, <1>2, <1>3, <3>1
    <3>3. /\ DOMAIN s = 1..Len(s) /\ Len(s) \in Nat
          /\ DOMAIN t = 1..(Len(s) - n)
          /\ \A i \in 1..(Len(s) - n) : t[i] = s[i + n]
      BY <3>2, Suffix
    <3>. QED
      BY <3>1, <3>3
  <2>2. \A i, j \in DOMAIN q.ready : q.ready[i] = q.ready[j] => i = j
    BY DEF Books, ReadyOnce
  <2>3. {q.ready[i] : i \in DOMAIN q.ready} = {d \in Devices \ q.active : q.byDevice[d] # <<>>}
    BY DEF Books, ReadyOnce
  <2>4. \A i \in DOMAIN r.ready : i + n \in DOMAIN q.ready /\ i + n > n /\ r.ready[i] = q.ready[i + n]
    BY <1>3, <2>1
  <2>5. ASSUME NEW i \in DOMAIN r.ready, NEW j \in DOMAIN r.ready, r.ready[i] = r.ready[j]
        PROVE  i = j
    <3>1. i + n = j + n
      BY <2>2, <2>4, <2>5
    <3>2. i \in Int /\ j \in Int /\ n \in Int
      BY <1>3, <2>1
    <3>3. (i + n) - n = i /\ (j + n) - n = j
      BY <3>2
    <3>. QED
      BY <3>1, <3>3
  <2>6. ASSUME NEW i \in DOMAIN r.ready
        PROVE  r.ready[i] \in {d \in Devices \ r.active : r.byDevice[d] # <<>>}
    <3>1. q.ready[i + n] \in {d \in Devices \ q.active : q.byDevice[d] # <<>>}
      BY <2>3, <2>4
    <3>2. q.ready[i + n] \notin S
      <4>. SUFFICES ASSUME q.ready[i + n] \in S PROVE FALSE
        OBVIOUS
      <4>1. PICK j \in 1..n : q.ready[i + n] = q.ready[j]
        BY <1>5
      <4>2. j \in DOMAIN q.ready
        BY <1>3, <2>1
      <4>3. i + n = j
        BY <2>2, <2>4, <4>1, <4>2
      <4>. QED
        BY <1>3, <2>4, <4>3
    <3>. QED
      BY <1>1, <2>4, <3>1, <3>2
  <2>7. ASSUME NEW d \in Devices \ r.active, r.byDevice[d] # <<>>
        PROVE  \E i \in DOMAIN r.ready : r.ready[i] = d
    <3>1. d \in Devices \ q.active /\ d \notin S /\ q.byDevice[d] # <<>>
      BY <1>1, <2>7
    <3>2. PICK j \in DOMAIN q.ready : q.ready[j] = d
      BY <2>3, <3>1
    <3>3. j \notin 1..n
      BY <3>1, <3>2 DEF S, Startable
    <3>4. j - n \in DOMAIN r.ready /\ (j - n) + n = j
      BY <1>3, <2>1, <3>3
    <3>. QED
      BY <2>4, <3>2, <3>4
  <2>. QED
    BY <2>5, <2>6, <2>7 DEF ReadyOnce
<1>12. Weighed(r)
  <2>1. Sorted(q) /\ Counts(q, Each) /\ Counts(q, Size)
    BY DEF Books, Weighed
  <2>2. \A d \in S : q.byDevice[d] # <<>>
    BY <1>5
  <2>3. \A w \in q.executing : From[w.msg] \notin S
    BY <1>5, <1>7
  <2>4. r.executing = q.executing \cup {Head(q.byDevice[d]) : d \in S}
    BY <1>1
  <2>4a. /\ r.byDevice = [d \in Devices |-> IF d \in S THEN Tail(q.byDevice[d]) ELSE q.byDevice[d]]
         /\ q.executing \subseteq Work
    BY <1>1, <1>2
  <2>4b. ASSUME NEW W \in [Msgs -> Nat], Counts(q, W)
         PROVE  Counts(r, W) /\ Weight(r, W) = Weight(q, W)
    <3>. HIDE DEF N
    <3>. QED
      BY <1>4, <2>1, <2>2, <2>3, <2>4, <2>4a, <2>4b, StartsWeigh, Zenon
  <2>5. Counts(r, Each) /\ Weight(r, Each) = Weight(q, Each)
    BY <2>1, <2>4b, WeightsAre
  <2>6. Counts(r, Size) /\ Weight(r, Size) = Weight(q, Size)
    BY <2>1, <2>4b, WeightsAre
  <2>. QED
    BY <1>1, <2>5, <2>6 DEF Books, Weighed
<1>13. Busy(r)
  <2>1. n = Len(q.ready) => r.ready = <<>>
    BY <1>1, <1>2
  <2>. QED
    BY <1>1, <1>3, <2>1 DEF Busy
<1>. QED
  BY <1>0, <1>8, <1>9, <1>10, <1>11, <1>12, <1>13 DEF Books

-----------------------------------------------------------------------------
\* One element more at the end of a sequence.
LEMMA AppendShape ==
  ASSUME NEW X, NEW s \in Seq(X), NEW x \in X, NEW t, t = Append(s, x)
  PROVE  /\ t \in Seq(X) /\ t # <<>> /\ DOMAIN s = 1..Len(s) /\ Len(s) \in Nat
         /\ DOMAIN t = 1..(Len(s) + 1) /\ t[Len(s) + 1] = x
         /\ \A i \in 1..Len(s) : t[i] = s[i]
<1>1. /\ t \in Seq(X) /\ Len(t) = Len(s) + 1 /\ t[Len(s) + 1] = x
      /\ \A i \in 1..Len(s) : t[i] = s[i]
  BY AppendProperties
<1>2. DOMAIN s = 1..Len(s) /\ Len(s) \in Nat
  OBVIOUS
<1>3. DOMAIN t = 1..Len(t)
  BY <1>1
<1>4. DOMAIN t = 1..(Len(s) + 1)
  BY <1>1, <1>3
<1>5. t # <<>>
  BY <1>1, <1>2
<1>. QED
  BY <1>1, <1>2, <1>4, <1>5

\* enqueue before it drains.
Queued(q, w) ==
  LET d == From[w.msg] IN
  [q EXCEPT !.byDevice[d] = Append(@, w),
            !.outstanding = @ + 1,
            !.bytes = @ + Size[w.msg],
            !.ready = IF q.byDevice[d] = <<>> /\ d \notin q.active THEN Append(@, d) ELSE @]

\* A handler's finally before it drains.
Ended(q, w) ==
  LET d == From[w.msg] IN
  [q EXCEPT !.running = @ - 1,
            !.outstanding = @ - 1,
            !.bytes = @ - Size[w.msg],
            !.active = @ \ {d},
            !.executing = @ \ {w},
            !.ready = IF q.byDevice[d] # <<>> THEN Append(@, d) ELSE @]

\* Work that is appended to the queue of its device is added to the weight.
LEMMA AppendWeighs ==
  ASSUME NEW q, NEW r, NEW W \in [Msgs -> Nat], NEW w \in Work, Sorted(q), Counts(q, W),
         NEW d \in Devices, d = From[w.msg],
         \A x \in Devices : r.byDevice[x] = IF x = d THEN Append(q.byDevice[x], w) ELSE q.byDevice[x],
         r.executing = q.executing
  PROVE  Counts(r, W) /\ Weight(r, W) = Weight(q, W) + W[w.msg]
<1>. DEFINE B == q.byDevice
            U == WaitingUnits(q, W)
            V == WaitingUnits(r, W)
<1>1. \A x \in Devices : B[x] \in Seq(Work) /\ DOMAIN B[x] = 1..Len(B[x]) /\ Len(B[x]) \in Nat
  BY DEF Sorted
<1>2. PICK m \in Nat : /\ DOMAIN B[d] = 1..m /\ DOMAIN r.byDevice[d] = 1..(m + 1)
                       /\ r.byDevice[d][m + 1] = w
                       /\ \A i \in 1..m : r.byDevice[d][i] = B[d][i]
  <2>0. PICK s \in Seq(Work) : s = B[d]
    BY <1>1
  <2>1. PICK t : t = Append(s, w)
    OBVIOUS
  <2>2. /\ DOMAIN s = 1..Len(s) /\ Len(s) \in Nat /\ DOMAIN t = 1..(Len(s) + 1)
        /\ t[Len(s) + 1] = w /\ \A i \in 1..Len(s) : t[i] = s[i]
    BY <2>1, AppendShape
  <2>3. r.byDevice[d] = t
    BY <2>0, <2>1
  <2>. QED
    BY <2>0, <2>2, <2>3
<1>. DEFINE L == m + 1
            A == {<<d, L, k>> : k \in 1..W[w.msg]}
            f == [k \in 1..W[w.msg] |-> <<d, L, k>>]
<1>3. \A x \in Devices : x # d => r.byDevice[x] = B[x]
  OBVIOUS
<1>4. W[w.msg] \in Nat
  BY DEF Work
<1>5. V = U \cup A
  <2>1. ASSUME NEW v \in V PROVE v \in U \cup A
    <3>1. /\ v = <<v[1], v[2], v[3]>> /\ v[1] \in Devices /\ v[2] \in DOMAIN r.byDevice[v[1]]
          /\ v[3] \in 1..W[r.byDevice[v[1]][v[2]].msg]
      BY <2>1, WaitingShape
    <3>2. CASE v[1] # d
      <4>1. r.byDevice[v[1]] = B[v[1]]
        BY <1>3, <3>1, <3>2
      <4>2. v[2] \in DOMAIN B[v[1]] /\ v[3] \in 1..W[B[v[1]][v[2]].msg]
        BY <3>1, <4>1
      <4>. QED
        BY <3>1, <4>2, WaitingMember
    <3>3. CASE v[1] = d /\ v[2] = L
      <4>1. v = <<d, L, v[3]>> /\ v[3] \in 1..W[w.msg]
        BY <1>2, <3>1, <3>3
      <4>. QED
        BY <4>1
    <3>4. CASE v[1] = d /\ v[2] # L
      <4>0. v[2] \in 1..(m + 1) /\ v[2] # m + 1
        BY <1>2, <3>1, <3>4
      <4>1. v[2] \in DOMAIN B[d] /\ r.byDevice[d][v[2]] = B[d][v[2]]
        BY <1>2, <4>0
      <4>. QED
        BY <3>1, <3>4, <4>1, WaitingMember
    <3>. QED
      BY <3>2, <3>3, <3>4
  <2>2. ASSUME NEW u \in U PROVE u \in V
    <3>1. /\ u = <<u[1], u[2], u[3]>> /\ u[1] \in Devices /\ u[2] \in DOMAIN B[u[1]]
          /\ u[3] \in 1..W[B[u[1]][u[2]].msg]
      BY <2>2, WaitingShape
    <3>2. u[2] \in DOMAIN r.byDevice[u[1]] /\ r.byDevice[u[1]][u[2]] = B[u[1]][u[2]]
      <4>1. CASE u[1] = d
        <5>1. u[2] \in 1..m
          BY <1>2, <3>1, <4>1
        <5>. QED
          BY <1>2, <4>1, <5>1
      <4>2. CASE u[1] # d
        BY <1>3, <3>1, <4>2
      <4>. QED
        BY <4>1, <4>2
    <3>. QED
      BY <3>1, <3>2, WaitingMember
  <2>3. ASSUME NEW k \in 1..W[w.msg] PROVE <<d, L, k>> \in V
    <3>1. L \in DOMAIN r.byDevice[d] /\ r.byDevice[d][L] = w
      BY <1>2
    <3>. QED
      BY <3>1, WaitingMember
  <2>. QED
    BY <2>1, <2>2, <2>3
<1>6. U \cap A = {}
  <2>. SUFFICES ASSUME NEW u \in U, NEW k \in 1..W[w.msg], u = <<d, L, k>> PROVE FALSE
    OBVIOUS
  <2>1. u[1] = d /\ u[2] = L /\ u[2] \in DOMAIN B[u[1]]
    BY WaitingShape
  <2>. QED
    BY <1>2, <2>1
<1>7. IsFiniteSet(A) /\ Cardinality(A) = W[w.msg]
  <2>1. f \in [1..W[w.msg] -> A] /\ \A x, y \in 1..W[w.msg] : f[x] = f[y] => x = y
    OBVIOUS
  <2>2. \A a \in A : \E x \in 1..W[w.msg] : f[x] = a
    OBVIOUS
  <2>3. PICK n \in Nat : n = W[w.msg]
    BY <1>4
  <2>4. /\ f \in [1..n -> A] /\ \A x, y \in 1..n : f[x] = f[y] => x = y
        /\ \A a \in A : \E x \in 1..n : f[x] = a
    BY <2>1, <2>2, <2>3
  <2>. HIDE DEF f, A
  <2>5. IsFiniteSet(A) /\ Cardinality(A) = n
    <3>1. PairsOff(f, 1..n, A)
      BY <2>4 DEF PairsOff
    <3>. QED
      BY <3>1, CountUnits
  <2>. QED
    BY <2>3, <2>5
<1>8. IsFiniteSet(U)
  BY DEF Counts
<1>. HIDE DEF U, V, A
<1>9. IsFiniteSet(V) /\ Cardinality(V) = Cardinality(U) + Cardinality(A) /\ Cardinality(U) \in Nat
  BY <1>5, <1>6, <1>7, <1>8, CountBoth, Zenon
<1>10. RunningUnits(r, W) = RunningUnits(q, W)
  BY DEF RunningUnits
<1>11. Cardinality(RunningUnits(q, W)) \in Nat
  BY FS_CardinalityType DEF Counts
<1>. QED
  BY <1>4, <1>7, <1>9, <1>10, <1>11 DEF Weight, Counts, U, V

\* Work that ends is taken from the weight.
LEMMA EndWeighs ==
  ASSUME NEW q, NEW r, NEW W \in [Msgs -> Nat], NEW w \in Work, Counts(q, W),
         w \in q.executing,
         r.byDevice = q.byDevice, r.executing = q.executing \ {w}
  PROVE  Counts(r, W) /\ Weight(r, W) = Weight(q, W) - W[w.msg]
<1>. DEFINE X == RunningUnits(q, W)
            Y == RunningUnits(r, W)
            A == {<<w, k>> : k \in 1..W[w.msg]}
            f == [k \in 1..W[w.msg] |-> <<w, k>>]
<1>1. W[w.msg] \in Nat
  BY DEF Work
<1>2. X = Y \cup A
  <2>1. ASSUME NEW x \in X PROVE x \in Y \cup A
    <3>1. PICK v \in q.executing : \E k \in 1..W[v.msg] : x = <<v, k>>
      BY <2>1, RunningMember
    <3>2. CASE v = w
      BY <3>1, <3>2
    <3>3. CASE v # w
      BY <3>1, <3>3, RunningMember
    <3>. QED
      BY <3>2, <3>3
  <2>2. ASSUME NEW y \in Y PROVE y \in X
    BY <2>2, RunningMember
  <2>3. ASSUME NEW a \in A PROVE a \in X
    BY RunningMember
  <2>. QED
    BY <2>1, <2>2, <2>3
<1>3. Y \cap A = {}
  <2>. SUFFICES ASSUME NEW y \in Y, NEW k \in 1..W[w.msg], y = <<w, k>> PROVE FALSE
    OBVIOUS
  <2>1. PICK v \in r.executing : \E i \in 1..W[v.msg] : y = <<v, i>>
    BY RunningMember
  <2>. QED
    BY <2>1
<1>4. IsFiniteSet(A) /\ Cardinality(A) = W[w.msg]
  <2>1. f \in [1..W[w.msg] -> A] /\ \A x, y \in 1..W[w.msg] : f[x] = f[y] => x = y
    OBVIOUS
  <2>2. \A a \in A : \E x \in 1..W[w.msg] : f[x] = a
    OBVIOUS
  <2>3. PICK n \in Nat : n = W[w.msg]
    BY <1>1
  <2>4. /\ f \in [1..n -> A] /\ \A x, y \in 1..n : f[x] = f[y] => x = y
        /\ \A a \in A : \E x \in 1..n : f[x] = a
    BY <2>1, <2>2, <2>3
  <2>. HIDE DEF f, A
  <2>5. IsFiniteSet(A) /\ Cardinality(A) = n
    <3>1. PairsOff(f, 1..n, A)
      BY <2>4 DEF PairsOff
    <3>. QED
      BY <3>1, CountUnits
  <2>. QED
    BY <2>3, <2>5
<1>5. IsFiniteSet(X)
  BY DEF Counts
<1>. HIDE DEF X, Y, A
<1>6. IsFiniteSet(Y)
  BY <1>2, <1>5, FS_Subset
<1>7. Cardinality(X) = Cardinality(Y) + W[w.msg] /\ Cardinality(Y) \in Nat
  BY <1>2, <1>3, <1>4, <1>6, CountBoth
<1>8. WaitingUnits(r, W) = WaitingUnits(q, W)
  BY DEF WaitingUnits
<1>9. Cardinality(WaitingUnits(q, W)) \in Nat
  BY FS_CardinalityType DEF Counts
<1>. QED
  BY <1>1, <1>6, <1>7, <1>8, <1>9 DEF Weight, Counts, X, Y

-----------------------------------------------------------------------------
\* A device that was neither active nor ready joins the ready ones.
LEMMA JoinsReady ==
  ASSUME NEW s \in Seq(Devices), NEW d \in Devices, NEW t, t = Append(s, d),
         \A i, j \in DOMAIN s : s[i] = s[j] => i = j,
         NEW D, {s[i] : i \in DOMAIN s} = D, d \notin D
  PROVE  /\ t \in Seq(Devices)
         /\ \A i, j \in DOMAIN t : t[i] = t[j] => i = j
         /\ {t[i] : i \in DOMAIN t} = D \cup {d}
<1>1. PICK m \in Nat : /\ DOMAIN s = 1..m /\ DOMAIN t = 1..(m + 1) /\ t[m + 1] = d
                       /\ \A i \in 1..m : t[i] = s[i] /\ s[i] \in D
                       /\ t \in Seq(Devices)
  <2>1. /\ t \in Seq(Devices) /\ DOMAIN s = 1..Len(s) /\ Len(s) \in Nat
        /\ DOMAIN t = 1..(Len(s) + 1) /\ t[Len(s) + 1] = d
        /\ \A i \in 1..Len(s) : t[i] = s[i]
    BY AppendShape
  <2>2. \A i \in DOMAIN s : s[i] \in D
    OBVIOUS
  <2>. QED
    BY <2>1, <2>2
<1>2. \A i \in 1..(m + 1) : i = m + 1 \/ i \in 1..m
  OBVIOUS
<1>3. \A i \in 1..m : i # m + 1 /\ i \in 1..(m + 1)
  OBVIOUS
<1>4. ASSUME NEW i \in DOMAIN t, NEW j \in DOMAIN t, t[i] = t[j] PROVE i = j
  <2>1. i \in 1..(m + 1) /\ j \in 1..(m + 1)
    BY <1>1
  <2>2. CASE i \in 1..m /\ j \in 1..m
    <3>1. s[i] = s[j] /\ i \in DOMAIN s /\ j \in DOMAIN s
      BY <1>1, <1>4, <2>2
    <3>. QED
      BY <3>1
  <2>3. CASE i = m + 1 /\ j \in 1..m
    BY <1>1, <1>4, <2>3
  <2>4. CASE j = m + 1 /\ i \in 1..m
    BY <1>1, <1>4, <2>4
  <2>. QED
    BY <1>2, <2>1, <2>2, <2>3, <2>4
<1>5. ASSUME NEW i \in DOMAIN t PROVE t[i] \in D \cup {d}
  BY <1>1, <1>2
<1>6. ASSUME NEW x \in D PROVE \E i \in DOMAIN t : t[i] = x
  <2>1. PICK i \in DOMAIN s : s[i] = x
    OBVIOUS
  <2>. QED
    BY <1>1, <1>3, <2>1
<1>7. m + 1 \in DOMAIN t /\ t[m + 1] = d
  BY <1>1
<1>8. {t[i] : i \in DOMAIN t} = D \cup {d}
  <2>1. {t[i] : i \in DOMAIN t} \subseteq D \cup {d}
    BY <1>5
  <2>2. D \cup {d} \subseteq {t[i] : i \in DOMAIN t}
    BY <1>6, <1>7
  <2>. QED
    BY <2>1, <2>2
<1>. QED
  BY <1>1, <1>4, <1>8

\* What a record of seven fields is made of.
Parts(q) == [byDevice |-> q.byDevice, active |-> q.active, ready |-> q.ready,
             executing |-> q.executing, running |-> q.running,
             outstanding |-> q.outstanding, bytes |-> q.bytes]

\* Accepted work joins the books.
LEMMA QueuedKeeps ==
  ASSUME NEW q, Books(q), NEW w \in Work, Accepts(q, w.msg)
  PROVE  Books(Queued(q, w))
<1>1. PICK d \in Devices : d = From[w.msg]
  BY UplinkAssumption DEF Work
<1>2. PICK r : r = Queued(q, w)
  OBVIOUS
<1>3. PICK y : y = IF q.byDevice[d] = <<>> /\ d \notin q.active THEN Append(q.ready, d) ELSE q.ready
  OBVIOUS
<1>4. /\ q.byDevice \in [Devices -> Seq(Work)] /\ q.active \in SUBSET Devices
      /\ q.ready \in Seq(Devices) /\ q.executing \in SUBSET Work
      /\ q.running \in 0..Concurrency /\ q.outstanding \in 0..Capacity /\ q.bytes \in 0..MaxBytes
      /\ q = Parts(q)
  BY DEF Books, IsQueue, Parts
<1>5. r = [byDevice |-> [q.byDevice EXCEPT ![d] = Append(@, w)], active |-> q.active, ready |-> y,
           executing |-> q.executing, running |-> q.running,
           outstanding |-> q.outstanding + 1, bytes |-> q.bytes + Size[w.msg]]
  BY <1>1, <1>2, <1>3, <1>4 DEF Queued, Parts
<1>6. /\ r.byDevice = [q.byDevice EXCEPT ![d] = Append(@, w)] /\ r.active = q.active
      /\ r.ready = y /\ r.executing = q.executing /\ r.running = q.running
      /\ r.outstanding = q.outstanding + 1 /\ r.bytes = q.bytes + Size[w.msg]
  BY <1>5
<1>7. \A x \in Devices : r.byDevice[x] = IF x = d THEN Append(q.byDevice[x], w) ELSE q.byDevice[x]
  BY <1>4, <1>6
<1>8. w.msg \in Msgs /\ Size[w.msg] \in Nat /\ Each[w.msg] = 1
  BY UplinkAssumption DEF Work, Each
<1>9. ReadyOnce(r) /\ y \in Seq(Devices)
  <2>. DEFINE D == {x \in Devices \ q.active : q.byDevice[x] # <<>>}
  <2>1. /\ \A i, j \in DOMAIN q.ready : q.ready[i] = q.ready[j] => i = j
        /\ {q.ready[i] : i \in DOMAIN q.ready} = D
    BY DEF Books, ReadyOnce
  <2>2. Append(q.byDevice[d], w) # <<>>
    <3>1. q.byDevice[d] \in Seq(Work)
      BY <1>4
    <3>. QED
      BY <3>1
  <2>3. CASE q.byDevice[d] = <<>> /\ d \notin q.active
    <3>1. y = Append(q.ready, d) /\ d \notin D
      BY <1>3, <2>3
    <3>2. /\ y \in Seq(Devices)
          /\ \A i, j \in DOMAIN y : y[i] = y[j] => i = j
          /\ {y[i] : i \in DOMAIN y} = D \cup {d}
      <4>. HIDE DEF D
      <4>1. PICK s \in Seq(Devices) : s = q.ready
        BY <1>4
      <4>2. /\ \A i, j \in DOMAIN s : s[i] = s[j] => i = j
            /\ {s[i] : i \in DOMAIN s} = D /\ d \notin D
        BY <2>1, <3>1, <4>1
      <4>3. y = Append(s, d)
        BY <3>1, <4>1
      <4>. QED
        BY <4>2, <4>3, JoinsReady
    <3>3. {x \in Devices \ r.active : r.byDevice[x] # <<>>} = D \cup {d}
      BY <1>6, <1>7, <2>2, <2>3
    <3>. QED
      BY <1>6, <3>2, <3>3 DEF ReadyOnce
  <2>4. CASE ~(q.byDevice[d] = <<>> /\ d \notin q.active)
    <3>1. y = q.ready
      BY <1>3, <2>4
    <3>2. {x \in Devices \ r.active : r.byDevice[x] # <<>>} = D
      BY <1>6, <1>7, <2>2, <2>4
    <3>. QED
      BY <1>4, <1>6, <2>1, <3>1, <3>2 DEF ReadyOnce
  <2>. QED
    BY <2>3, <2>4
<1>10. IsQueue(r)
  <2>1. [q.byDevice EXCEPT ![d] = Append(@, w)] \in [Devices -> Seq(Work)]
    <3>1. \A s \in Seq(Work) : Append(s, w) \in Seq(Work)
      OBVIOUS
    <3>. QED
      BY <1>4, <3>1
  <2>2. q.outstanding + 1 \in 0..Capacity /\ q.bytes + Size[w.msg] \in 0..MaxBytes
    <3>1. q.outstanding < Capacity /\ q.bytes + Size[w.msg] <= MaxBytes
      BY DEF Accepts
    <3>2. PICK a \in Nat, b \in Nat, c \in Nat :
            a = q.outstanding /\ b = q.bytes /\ c = Size[w.msg]
      BY <1>4, <1>8
    <3>3. PICK e \in Nat, f \in Nat : e = Capacity /\ f = MaxBytes
      BY UplinkAssumption
    <3>. QED
      BY <3>1, <3>2, <3>3
  <2>3. y \in Seq(Devices)
    BY <1>9
  <2>4. PICK b \in [Devices -> Seq(Work)] : b = [q.byDevice EXCEPT ![d] = Append(@, w)]
    BY <2>1
  <2>5. PICK o \in 0..Capacity, z \in 0..MaxBytes : o = q.outstanding + 1 /\ z = q.bytes + Size[w.msg]
    BY <2>2
  <2>6. r = [byDevice |-> b, active |-> q.active, ready |-> y, executing |-> q.executing,
             running |-> q.running, outstanding |-> o, bytes |-> z]
    BY <1>5, <2>4, <2>5
  <2>. HIDE DEF Work
  <2>. QED
    BY <1>4, <2>3, <2>6 DEF IsQueue
<1>11. Sorted(r)
  <2>1. ASSUME NEW x \in Devices, NEW i \in DOMAIN r.byDevice[x]
        PROVE  From[r.byDevice[x][i].msg] = x
    <3>1. CASE x # d
      <4>1. r.byDevice[x] = q.byDevice[x]
        BY <1>7, <3>1
      <4>. QED
        BY <4>1 DEF Books, Sorted
    <3>2. CASE x = d
      <4>0. PICK s \in Seq(Work) : s = q.byDevice[d]
        BY <1>4
      <4>1. PICK t : t = Append(s, w)
        OBVIOUS
      <4>2. /\ DOMAIN s = 1..Len(s) /\ Len(s) \in Nat /\ DOMAIN t = 1..(Len(s) + 1)
            /\ t[Len(s) + 1] = w /\ \A j \in 1..Len(s) : t[j] = s[j]
        BY <4>1, AppendShape
      <4>2a. s = q.byDevice[d] /\ t = r.byDevice[d]
        BY <1>7, <4>0, <4>1
      <4>3. i \in 1..(Len(s) + 1)
        BY <2>1, <3>2, <4>2a, <4>2
      <4>4. CASE i = Len(s) + 1
        BY <1>1, <3>2, <4>2a, <4>2, <4>4
      <4>5. CASE i # Len(s) + 1
        <5>1. PICK m \in Nat : m = Len(s)
          BY <4>2
        <5>2. i \in 1..m
          BY <4>3, <4>5, <5>1
        <5>3. i \in DOMAIN q.byDevice[d] /\ r.byDevice[d][i] = q.byDevice[d][i]
          BY <4>2a, <4>2, <5>1, <5>2
        <5>. QED
          BY <3>2, <5>3 DEF Books, Sorted
      <4>. QED
        BY <4>4, <4>5
    <3>. QED
      BY <3>1, <3>2
  <2>. QED
    BY <1>10, <2>1 DEF Sorted, IsQueue
<1>12. OneEach(r)
  BY <1>6 DEF Books, OneEach
<1>13. Weighed(r)
  <2>1. ASSUME NEW W \in [Msgs -> Nat], Counts(q, W)
        PROVE  Counts(r, W) /\ Weight(r, W) = Weight(q, W) + W[w.msg]
    <3>1. Sorted(q) /\ r.executing = q.executing
      BY <1>6 DEF Books
    <3>. QED
      BY <1>1, <1>7, <2>1, <3>1, AppendWeighs, Zenon
  <2>2. /\ Counts(q, Each) /\ Counts(q, Size)
        /\ q.outstanding = Weight(q, Each) /\ q.bytes = Weight(q, Size)
    BY DEF Books, Weighed
  <2>3. Counts(r, Each) /\ Weight(r, Each) = Weight(q, Each) + 1
    BY <1>8, <2>1, <2>2, WeightsAre
  <2>4. Counts(r, Size) /\ Weight(r, Size) = Weight(q, Size) + Size[w.msg]
    BY <2>1, <2>2, WeightsAre
  <2>. QED
    BY <1>6, <2>2, <2>3, <2>4 DEF Weighed
<1>. QED
  BY <1>2, <1>9, <1>10, <1>11, <1>12, <1>13 DEF Books

\* Work that ends leaves the books, and the device's next message is ready.
LEMMA EndedKeeps ==
  ASSUME NEW q, Books(q), NEW w \in q.executing
  PROVE  Books(Ended(q, w))
<1>0. w \in Work
  BY DEF Books, IsQueue
<1>1. PICK d \in Devices : d = From[w.msg]
  BY <1>0, UplinkAssumption DEF Work
<1>2. PICK r : r = Ended(q, w)
  OBVIOUS
<1>3. PICK y : y = IF q.byDevice[d] # <<>> THEN Append(q.ready, d) ELSE q.ready
  OBVIOUS
<1>4. /\ q.byDevice \in [Devices -> Seq(Work)] /\ q.active \in SUBSET Devices
      /\ q.ready \in Seq(Devices) /\ q.executing \in SUBSET Work
      /\ q.running \in 0..Concurrency /\ q.outstanding \in 0..Capacity /\ q.bytes \in 0..MaxBytes
      /\ q = Parts(q)
  BY DEF Books, IsQueue, Parts
<1>5. r = [byDevice |-> q.byDevice, active |-> q.active \ {d}, ready |-> y,
           executing |-> q.executing \ {w}, running |-> q.running - 1,
           outstanding |-> q.outstanding - 1, bytes |-> q.bytes - Size[w.msg]]
  BY <1>1, <1>2, <1>3, <1>4 DEF Ended, Parts
<1>6. /\ r.byDevice = q.byDevice /\ r.active = q.active \ {d}
      /\ r.ready = y /\ r.executing = q.executing \ {w} /\ r.running = q.running - 1
      /\ r.outstanding = q.outstanding - 1 /\ r.bytes = q.bytes - Size[w.msg]
  BY <1>5
<1>7. w.msg \in Msgs /\ Size[w.msg] \in Nat /\ Each[w.msg] = 1
  BY <1>0, UplinkAssumption DEF Work, Each
<1>8. /\ \A v, x \in q.executing : From[v.msg] = From[x.msg] => v = x
      /\ q.active = {From[x.msg] : x \in q.executing}
      /\ IsFiniteSet(q.executing) /\ q.running = Cardinality(q.executing)
  BY DEF Books, OneEach
<1>9. d \in q.active
  BY <1>1, <1>8
<1>10. ReadyOnce(r) /\ y \in Seq(Devices)
  <2>. DEFINE D == {x \in Devices \ q.active : q.byDevice[x] # <<>>}
  <2>1. /\ \A i, j \in DOMAIN q.ready : q.ready[i] = q.ready[j] => i = j
        /\ {q.ready[i] : i \in DOMAIN q.ready} = D
    BY DEF Books, ReadyOnce
  <2>2. d \notin D
    BY <1>9
  <2>3. CASE q.byDevice[d] # <<>>
    <3>1. y = Append(q.ready, d)
      BY <1>3, <2>3
    <3>2. /\ y \in Seq(Devices)
          /\ \A i, j \in DOMAIN y : y[i] = y[j] => i = j
          /\ {y[i] : i \in DOMAIN y} = D \cup {d}
      <4>. HIDE DEF D
      <4>1. PICK s \in Seq(Devices) : s = q.ready
        BY <1>4
      <4>2. /\ \A i, j \in DOMAIN s : s[i] = s[j] => i = j
            /\ {s[i] : i \in DOMAIN s} = D /\ d \notin D
        BY <2>1, <2>2, <4>1
      <4>3. y = Append(s, d)
        BY <3>1, <4>1
      <4>. QED
        BY <4>2, <4>3, JoinsReady
    <3>3. {x \in Devices \ r.active : r.byDevice[x] # <<>>} = D \cup {d}
      BY <1>6, <2>3
    <3>. QED
      BY <1>6, <3>2, <3>3 DEF ReadyOnce
  <2>4. CASE q.byDevice[d] = <<>>
    <3>1. y = q.ready
      BY <1>3, <2>4
    <3>2. {x \in Devices \ r.active : r.byDevice[x] # <<>>} = D
      BY <1>6, <2>4
    <3>. QED
      BY <1>4, <1>6, <2>1, <3>1, <3>2 DEF ReadyOnce
  <2>. QED
    BY <2>3, <2>4
<1>11. OneEach(r)
  <2>1. \A v, x \in r.executing : From[v.msg] = From[x.msg] => v = x
    BY <1>6, <1>8
  <2>2. ASSUME NEW x \in q.executing PROVE From[x.msg] = d <=> x = w
    BY <1>1, <1>8
  <2>3. r.active = {From[x.msg] : x \in r.executing}
    BY <1>6, <1>8, <2>2
  <2>4. IsFiniteSet(r.executing) /\ Cardinality(r.executing) = Cardinality(q.executing) - 1
    BY <1>6, <1>8, FS_RemoveElement
  <2>. QED
    BY <1>6, <1>8, <2>1, <2>3, <2>4 DEF OneEach
<1>12. Weighed(r)
  <2>1. ASSUME NEW W \in [Msgs -> Nat], Counts(q, W)
        PROVE  Counts(r, W) /\ Weight(r, W) = Weight(q, W) - W[w.msg]
    BY <1>0, <1>6, <2>1, EndWeighs
  <2>2. /\ Counts(q, Each) /\ Counts(q, Size)
        /\ q.outstanding = Weight(q, Each) /\ q.bytes = Weight(q, Size)
    BY DEF Books, Weighed
  <2>3. Counts(r, Each) /\ Weight(r, Each) = Weight(q, Each) - 1
    BY <1>7, <2>1, <2>2, WeightsAre
  <2>4. Counts(r, Size) /\ Weight(r, Size) = Weight(q, Size) - Size[w.msg]
    BY <2>1, <2>2, WeightsAre
  <2>. QED
    BY <1>6, <2>2, <2>3, <2>4 DEF Weighed
<1>13. IsQueue(r)
  <2>1. q.running - 1 \in 0..Concurrency
    <3>1. Cardinality(r.executing) \in Nat /\ Cardinality(r.executing) = q.running - 1
      <4>1. IsFiniteSet(r.executing) /\ r.running = Cardinality(r.executing)
        BY <1>11 DEF OneEach
      <4>. QED
        BY <1>6, <4>1, FS_CardinalityType
    <3>. QED
      BY <1>4, <3>1, UplinkAssumption
  <2>2. ASSUME NEW W \in [Msgs -> Nat], Counts(r, W) PROVE Weight(r, W) \in Nat
    <3>1. Cardinality(WaitingUnits(r, W)) \in Nat /\ Cardinality(RunningUnits(r, W)) \in Nat
      BY <2>2, FS_CardinalityType DEF Counts
    <3>. QED
      BY <3>1 DEF Weight
  <2>3. /\ Counts(r, Each) /\ Counts(r, Size)
        /\ r.outstanding = Weight(r, Each) /\ r.bytes = Weight(r, Size)
    BY <1>12 DEF Weighed
  <2>4. r.outstanding \in Nat /\ r.bytes \in Nat
    BY <2>2, <2>3, WeightsAre
  <2>5. q.outstanding - 1 \in 0..Capacity /\ q.bytes - Size[w.msg] \in 0..MaxBytes
    <3>1. q.outstanding - 1 \in Nat /\ q.bytes - Size[w.msg] \in Nat
      BY <1>6, <2>4
    <3>2. PICK a \in Nat, b \in Nat, c \in Nat :
            a = q.outstanding /\ b = q.bytes /\ c = Size[w.msg]
      BY <1>4, <1>7
    <3>3. a <= Capacity /\ b <= MaxBytes /\ Capacity \in Nat /\ MaxBytes \in Nat
      BY <1>4, <3>2, UplinkAssumption
    <3>. QED
      BY <3>1, <3>2, <3>3
  <2>. QED
    BY <1>4, <1>5, <1>10, <2>1, <2>5 DEF IsQueue
<1>14. Sorted(r)
  BY <1>6 DEF Books, Sorted
<1>. QED
  BY <1>2, <1>10, <1>11, <1>12, <1>13, <1>14 DEF Books

\* An empty queue.
LEMMA EmptyKeeps == Books(EmptyQueue) /\ Busy(EmptyQueue)
<1>. DEFINE q == EmptyQueue
<1>1. /\ q.byDevice = [d \in Devices |-> <<>>] /\ q.active = {} /\ q.ready = <<>>
      /\ q.executing = {} /\ q.running = 0 /\ q.outstanding = 0 /\ q.bytes = 0
  BY DEF EmptyQueue
<1>2. IsQueue(q)
  BY UplinkAssumption DEF EmptyQueue, IsQueue
<1>3. IsFiniteSet({}) /\ Cardinality({}) = 0
  BY FS_EmptySet
<1>4. ASSUME NEW W PROVE WaitingUnits(q, W) = {} /\ RunningUnits(q, W) = {}
  <2>1. \A d \in Devices : DOMAIN q.byDevice[d] = {}
    BY <1>1
  <2>2. \A u : u \notin WaitingUnits(q, W)
    BY <2>1, WaitingMember
  <2>3. \A u : u \notin RunningUnits(q, W)
    BY <1>1, RunningMember
  <2>. QED
    BY <2>2, <2>3
<1>5. Weighed(q)
  <2>1. ASSUME NEW W PROVE Counts(q, W) /\ Weight(q, W) = 0
    <3>1. /\ IsFiniteSet(WaitingUnits(q, W)) /\ IsFiniteSet(RunningUnits(q, W))
          /\ Cardinality(WaitingUnits(q, W)) = 0 /\ Cardinality(RunningUnits(q, W)) = 0
      <4>. HIDE DEF q
      <4>. QED
        BY <1>3, <1>4, Zenon
    <3>. QED
      BY <3>1 DEF Counts, Weight
  <2>. QED
    BY <1>1, <2>1 DEF Weighed
<1>6. Sorted(q) /\ ReadyOnce(q) /\ Busy(q)
  BY <1>1, <1>2 DEF Sorted, ReadyOnce, Busy, IsQueue
<1>7. OneEach(q)
  <2>1. q.active = {From[w.msg] : w \in q.executing}
    BY <1>1
  <2>2. IsFiniteSet(q.executing) /\ Cardinality(q.executing) = 0
    BY <1>1, <1>3, Zenon
  <2>. QED
    BY <1>1, <2>1, <2>2 DEF OneEach
<1>. QED
  BY <1>2, <1>5, <1>6, <1>7 DEF Books
\* Work whose client is gone is counted as before.
LEMMA OrphanedKeeps ==
  ASSUME NEW q, Books(q), NEW c
  PROVE  Books(Orphaned(q, c)) /\ (Busy(q) => Busy(Orphaned(q, c)))
<1>. DEFINE O(w) == IF w.via = c THEN [w EXCEPT !.via = NoConn] ELSE w
            B == q.byDevice
<1>1. PICK r : r = Orphaned(q, c)
  OBVIOUS
<1>2. /\ B \in [Devices -> Seq(Work)] /\ q.active \in SUBSET Devices
      /\ q.ready \in Seq(Devices) /\ q.executing \in SUBSET Work
      /\ q.running \in 0..Concurrency /\ q.outstanding \in 0..Capacity /\ q.bytes \in 0..MaxBytes
      /\ q = Parts(q)
  BY DEF Books, IsQueue, Parts
<1>3. r = [byDevice |-> [d \in Devices |-> [i \in DOMAIN B[d] |-> O(B[d][i])]],
           active |-> q.active, ready |-> q.ready,
           executing |-> {O(w) : w \in q.executing}, running |-> q.running,
           outstanding |-> q.outstanding, bytes |-> q.bytes]
  BY <1>1, <1>2 DEF Orphaned, Parts
<1>4. /\ r.byDevice = [d \in Devices |-> [i \in DOMAIN B[d] |-> O(B[d][i])]]
      /\ r.active = q.active /\ r.ready = q.ready
      /\ r.executing = {O(w) : w \in q.executing} /\ r.running = q.running
      /\ r.outstanding = q.outstanding /\ r.bytes = q.bytes
  BY <1>3
<1>5. \A w \in Work : O(w) \in Work /\ O(w).msg = w.msg
  BY DEF Work
<1>. HIDE DEF O
<1>6. ASSUME NEW d \in Devices
      PROVE  /\ r.byDevice[d] \in Seq(Work) /\ DOMAIN r.byDevice[d] = DOMAIN B[d]
             /\ \A i \in DOMAIN B[d] : r.byDevice[d][i].msg = B[d][i].msg
             /\ r.byDevice[d] = <<>> <=> B[d] = <<>>
  <2>1. PICK s \in Seq(Work) : s = B[d]
    BY <1>2
  <2>2. PICK t : t = [i \in DOMAIN s |-> O(s[i])]
    OBVIOUS
  <2>3. \A i \in DOMAIN s : s[i] \in Work
    OBVIOUS
  <2>4. DOMAIN t = DOMAIN s /\ \A i \in DOMAIN s : t[i] \in Work /\ t[i].msg = s[i].msg
    BY <1>5, <2>2, <2>3
  <2>5. PICK m \in Nat : DOMAIN s = 1..m /\ m = Len(s)
    OBVIOUS
  <2>6. t \in [1..m -> Work]
    BY <2>2, <2>4, <2>5
  <2>7. t \in Seq(Work) /\ Len(t) = m
    BY <2>6, SeqDef
  <2>8. t = <<>> <=> s = <<>>
    BY <2>5, <2>7
  <2>9. r.byDevice[d] = t
    BY <1>4, <2>1, <2>2
  <2>. QED
    BY <2>1, <2>4, <2>7, <2>8, <2>9
<1>7. r.byDevice \in [Devices -> Seq(Work)]
  <2>1. r.byDevice = [d \in Devices |-> r.byDevice[d]]
    BY <1>4
  <2>. QED
    BY <1>6, <2>1
<1>8. r.executing \in SUBSET Work
  BY <1>2, <1>4, <1>5
<1>9. IsQueue(r)
  BY <1>2, <1>3, <1>4, <1>7, <1>8 DEF IsQueue
<1>10. Sorted(r)
  <2>1. \A d \in Devices : \A i \in DOMAIN B[d] : From[B[d][i].msg] = d
    BY DEF Books, Sorted
  <2>. QED
    BY <1>6, <1>7, <2>1 DEF Sorted
<1>11. /\ \A v, x \in q.executing : From[v.msg] = From[x.msg] => v = x
       /\ q.active = {From[x.msg] : x \in q.executing}
       /\ IsFiniteSet(q.executing) /\ q.running = Cardinality(q.executing)
  BY DEF Books, OneEach
<1>12. \A v, x \in q.executing : O(v).msg = v.msg /\ O(v) \in r.executing /\ (O(v) = O(x) => v = x)
  BY <1>2, <1>4, <1>5, <1>11
<1>13. \A y \in r.executing : \E v \in q.executing : y = O(v) /\ y.msg = v.msg
  BY <1>4, <1>12
<1>14. OneEach(r)
  <2>. DEFINE f == [v \in q.executing |-> O(v)]
  <2>1. /\ f \in [q.executing -> r.executing]
        /\ \A v, x \in q.executing : f[v] = f[x] => v = x
        /\ \A y \in r.executing : \E v \in q.executing : f[v] = y
    BY <1>12, <1>13
  <2>. HIDE DEF f
  <2>2. IsFiniteSet(r.executing) /\ Cardinality(r.executing) = Cardinality(q.executing)
    BY <1>11, <2>1, PairedOff
  <2>3. r.active = {From[y.msg] : y \in r.executing}
    BY <1>4, <1>11, <1>12, <1>13
  <2>4. \A x, y \in r.executing : From[x.msg] = From[y.msg] => x = y
    BY <1>11, <1>13
  <2>. QED
    BY <1>4, <1>11, <2>2, <2>3, <2>4 DEF OneEach
<1>15. ReadyOnce(r)
  <2>1. {d \in Devices \ r.active : r.byDevice[d] # <<>>} = {d \in Devices \ q.active : B[d] # <<>>}
    BY <1>4, <1>6
  <2>2. /\ \A i, j \in DOMAIN q.ready : q.ready[i] = q.ready[j] => i = j
        /\ {q.ready[i] : i \in DOMAIN q.ready} = {d \in Devices \ q.active : B[d] # <<>>}
    BY DEF Books, ReadyOnce
  <2>3. /\ \A i, j \in DOMAIN r.ready : r.ready[i] = r.ready[j] => i = j
        /\ {r.ready[i] : i \in DOMAIN r.ready} = {d \in Devices \ q.active : B[d] # <<>>}
    BY <1>4, <2>2
  <2>. QED
    BY <2>1, <2>3 DEF ReadyOnce
<1>16. ASSUME NEW W \in [Msgs -> Nat], Counts(q, W)
       PROVE  Counts(r, W) /\ Weight(r, W) = Weight(q, W)
  <2>. DEFINE X == RunningUnits(q, W)
              Y == RunningUnits(r, W)
              f == [u \in X |-> <<O(u[1]), u[2]>>]
  <2>1. WaitingUnits(r, W) = WaitingUnits(q, W)
    <3>1. ASSUME NEW u PROVE u \in WaitingUnits(r, W) <=> u \in WaitingUnits(q, W)
      BY <1>6, WaitingMember
    <3>. QED
      BY <3>1
  <2>2. \A u \in X : /\ u = <<u[1], u[2]>> /\ u[1] \in q.executing /\ u[2] \in 1..W[u[1].msg]
    <3>. SUFFICES ASSUME NEW u \in X
                  PROVE  u = <<u[1], u[2]>> /\ u[1] \in q.executing /\ u[2] \in 1..W[u[1].msg]
      OBVIOUS
    <3>1. PICK v \in q.executing : \E k \in 1..W[v.msg] : u = <<v, k>>
      BY RunningMember
    <3>. QED
      BY <3>1
  <2>3. \A v \in q.executing : \A k \in 1..W[v.msg] : <<O(v), k>> \in Y /\ <<v, k>> \in X
    <3>. SUFFICES ASSUME NEW v \in q.executing, NEW k \in 1..W[v.msg]
                  PROVE  <<O(v), k>> \in Y /\ <<v, k>> \in X
      OBVIOUS
    <3>1. O(v) \in r.executing /\ O(v).msg = v.msg
      BY <1>12
    <3>2. k \in 1..W[O(v).msg]
      BY <3>1
    <3>. QED
      BY <3>1, <3>2, RunningMember
  <2>4. f \in [X -> Y]
    BY <2>2, <2>3
  <2>5. ASSUME NEW u \in X, NEW v \in X, f[u] = f[v] PROVE u = v
    BY <1>12, <2>2, <2>5
  <2>6. ASSUME NEW y \in Y PROVE \E u \in X : f[u] = y
    <3>1. PICK z \in r.executing : \E k \in 1..W[z.msg] : y = <<z, k>>
      BY <2>6, RunningMember
    <3>2. PICK k \in 1..W[z.msg] : y = <<z, k>>
      BY <3>1
    <3>3. PICK v \in q.executing : z = O(v) /\ z.msg = v.msg
      BY <1>13
    <3>4. <<v, k>> \in X
      BY <2>3, <3>3
    <3>5. f[<<v, k>>] = y
      BY <3>2, <3>3, <3>4
    <3>. QED
      BY <3>4, <3>5
  <2>7. IsFiniteSet(X)
    BY <1>16 DEF Counts
  <2>. HIDE DEF f, X, Y
  <2>8. IsFiniteSet(Y) /\ Cardinality(Y) = Cardinality(X)
    BY <2>4, <2>5, <2>6, <2>7, PairedOff
  <2>. QED
    BY <1>16, <2>1, <2>8 DEF Weight, Counts, X, Y
<1>17. Weighed(r)
  <2>1. /\ Counts(q, Each) /\ Counts(q, Size)
        /\ q.outstanding = Weight(q, Each) /\ q.bytes = Weight(q, Size)
    BY DEF Books, Weighed
  <2>. QED
    BY <1>4, <1>16, <2>1, WeightsAre DEF Weighed
<1>18. Busy(q) => Busy(r)
  BY <1>4 DEF Busy
<1>. QED
  BY <1>1, <1>9, <1>10, <1>14, <1>15, <1>17, <1>18 DEF Books

\* A message is queued, and what can start is started in the same step.
LEMMA EnqueueKeeps ==
  ASSUME NEW q, Books(q), NEW w \in Work, Accepts(q, w.msg)
  PROVE  Books(Enqueue(q, w)) /\ Busy(Enqueue(q, w))
<1>1. Enqueue(q, w) = Drain(Queued(q, w))
  BY DEF Enqueue, Queued
<1>. QED
  BY <1>1, QueuedKeeps, DrainKeeps

\* A handler ends: its device is started again in the same drain.
LEMMA FinishKeeps ==
  ASSUME NEW q, Books(q), NEW w \in q.executing
  PROVE  Books(Finish(q, w)) /\ Busy(Finish(q, w))
<1>1. Finish(q, w) = Drain(Ended(q, w))
  BY DEF Finish, Ended
<1>. QED
  BY <1>1, EndedKeeps, DrainKeeps

\* The executor's books are kept by every step of the process.
QueueInv == Books(work) /\ Busy(work)

\* A process starts with nothing queued.
LEMMA QueueInvInit == Init => QueueInv
  BY EmptyKeeps DEF Init, UplinkInit, QueueInv

\* Every step of the process keeps the books.
LEMMA QueueInvNext == QueueInv /\ [Next]_vars => QueueInv'
<1>. SUFFICES ASSUME QueueInv, [Next]_vars PROVE QueueInv'
  OBVIOUS
<1>. USE DEF QueueInv
<1>1. CASE UNCHANGED work
  BY <1>1
<1>2. ASSUME NEW w \in Work, Accepts(work, w.msg), work' = Enqueue(work, w) PROVE QueueInv'
  BY <1>2, EnqueueKeeps
<1>3. ASSUME NEW w \in work.executing, work' = Finish(work, w) PROVE QueueInv'
  BY <1>3, FinishKeeps
<1>4. ASSUME NEW c \in Conns, Disconnect(c) PROVE QueueInv'
  BY <1>4, OrphanedKeeps DEF Disconnect
<1>5. ASSUME NEW m \in Msgs, NEW c \in Conns, Publish(m, c) PROVE QueueInv'
  <2>1. [msg |-> m, via |-> c] \in Work /\ [msg |-> m, via |-> c].msg = m
    BY DEF Work
  <2>2. \/ UNCHANGED work
        \/ Accepts(work, m) /\ work' = Enqueue(work, [msg |-> m, via |-> c])
    BY <1>5 DEF Publish, PublishPlain, PublishDurable
  <2>. QED
    BY <1>1, <1>2, <2>1, <2>2
<1>6. ASSUME NEW w \in work.executing, RunHandler(w) \/ FailHandler(w) PROVE QueueInv'
  BY <1>3, <1>6 DEF RunHandler, FailHandler, HandleUplink, HandlerFails
<1>7. CASE Restart
  BY <1>7, EmptyKeeps DEF Restart
<1>8. CASE UNCHANGED vars
  BY <1>1, <1>8 DEF vars, uplinkVars
<1>9. CASE \E c \in Conns : ConnectionStep(c) /\ UNCHANGED uplinkVars
  BY <1>1, <1>9 DEF uplinkVars
<1>10. CASE \E d \in Devices : DeviceStep(d) /\ UNCHANGED uplinkVars
  BY <1>1, <1>10 DEF uplinkVars
<1>11. CASE \E d \in Devices : Refill(d) /\ UNCHANGED sessionVars
  BY <1>1, <1>11 DEF Refill
<1>. QED
  BY <1>4, <1>5, <1>6, <1>7, <1>8, <1>9, <1>10, <1>11 DEF Next

\* The inductive invariant: the books of UplinkWorkQueue are kept, and no slot
\* is free while a device waits.
THEOREM QueueBooks == Spec => []QueueInv
<1>. QED
  BY QueueInvInit, QueueInvNext, PTL DEF Spec

\* Whatever devices publish, whichever handlers fail and whoever disconnects,
\* the counters of UplinkWorkQueue are what is queued and running, a device
\* runs one handler at a time, and none with work is forgotten.
THEOREM BooksAreKept == Spec => []QueueConsistent
<1>1. ASSUME NEW q, Books(q)
      PROVE  Cardinality(q.active) = Cardinality(q.executing)
  <2>1. /\ \A v, w \in q.executing : From[v.msg] = From[w.msg] => v = w
        /\ q.active = {From[w.msg] : w \in q.executing}
        /\ IsFiniteSet(q.executing)
    BY <1>1 DEF Books, OneEach
  <2>. DEFINE f == [w \in q.executing |-> From[w.msg]]
  <2>2. /\ f \in [q.executing -> q.active]
        /\ \A v, w \in q.executing : f[v] = f[w] => v = w
        /\ \A d \in q.active : \E w \in q.executing : f[w] = d
    BY <2>1
  <2>. HIDE DEF f
  <2>3. PICK A, E : A = q.active /\ E = q.executing
    OBVIOUS
  <2>4. /\ f \in [E -> A] /\ IsFiniteSet(E)
        /\ \A v, w \in E : f[v] = f[w] => v = w
        /\ \A d \in A : \E w \in E : f[w] = d
    BY <2>1, <2>2, <2>3
  <2>5. Cardinality(A) = Cardinality(E)
    BY <2>4, PairedOff
  <2>. QED
    BY <2>3, <2>5
<1>2. QueueInv => QueueConsistent
  BY <1>1 DEF QueueInv, QueueConsistent, Books, Busy, OneEach, ReadyOnce, Weighed
<1>. QED
  BY <1>2, QueueBooks, PTL

\* Back-pressure: the executor never runs more handlers than it has slots, nor
\* holds more messages or bytes than it may.
THEOREM WithinLimits ==
  Spec => [](work.running <= Concurrency /\ work.outstanding <= Capacity /\ work.bytes <= MaxBytes)
<1>1. QueueInv => /\ work.running <= Concurrency /\ work.outstanding <= Capacity
                  /\ work.bytes <= MaxBytes
  BY UplinkAssumption DEF QueueInv, Books, IsQueue
<1>. QED
  BY <1>1, QueueBooks, PTL
=============================================================================
