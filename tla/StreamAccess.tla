---------------------------- MODULE StreamAccess ----------------------------
(***************************************************************************)
(* Who may stay connected to a realtime stream.  The handshake checks the  *)
(* access token and the project membership (validate.ts); while the        *)
(* connection lives, one re-checker per user reads the membership again    *)
(* for all the user's connections (ws-access.ts) and a timer of each       *)
(* connection watches the token (notifications-stream.ts and the others).  *)
(* The page reconnects by the code it is closed with (webSocketStream.ts). *)
(* One user, one project, one API process.                                 *)
(***************************************************************************)
LOCAL INSTANCE Integers
LOCAL INSTANCE FiniteSets

CONSTANTS
    AccClients,  \* streams the user's pages keep
    AccConns,    \* numbers of connections, used again once forgotten
    AccRechecks, \* numbers of re-checkers, used again once forgotten
    AccMaxConns, \* MAX_CONNECTIONS
    AccTokens,   \* bound on the access tokens issued
    AccFaults    \* bound on broken connections and failed queries

VARIABLES
    accMember,  \* the membership row exists
    accCached,  \* membershipCache holds it
    accSession, \* the refresh token still works
    accToken,   \* number of the current access token
    accFresh,   \* it has not expired
    accClient,  \* useWebSocketStream of each page
    accConn,    \* connections on the server
    accNow,     \* recheckers.get(userId), or 0
    accRech,    \* re-checkers, the retired ones with a query in flight too
    accCut,     \* history: pages closed because a lookup failed
    accFailed   \* faults so far

accVars == <<accMember, accCached, accSession, accToken, accFresh, accClient, accConn,
             accNow, accRech, accCut, accFailed>>
accUser == <<accMember, accCached, accSession, accToken, accFresh>>

NoConn == [st |-> "none", tok |-> 0, code |-> 0, sub |-> FALSE, reg |-> "lookup"]
NoRecheck == [entries |-> {}, checking |-> FALSE, pending |-> FALSE, snap |-> {}, read |-> FALSE]

-----------------------------------------------------------------------------
AccInit ==
    /\ accMember = TRUE /\ accCached = FALSE /\ accSession = TRUE
    /\ accToken = 1 /\ accFresh = TRUE
    /\ accClient = [c \in AccClients |-> [st |-> "connecting", conn |-> 0]]
    /\ accConn = [k \in AccConns |-> NoConn]
    /\ accNow = 0
    /\ accRech = [r \in AccRechecks |-> NoRecheck]
    /\ accCut = {}
    /\ accFailed = 0

\* The user is removed from the project; the cache's entry grows old; the
\* access token expires; the session ends.
LoseMembership ==
    /\ accMember /\ accMember' = FALSE
    /\ UNCHANGED <<accCached, accSession, accToken, accFresh, accClient, accConn, accNow,
                   accRech, accCut, accFailed>>
CacheExpires ==
    /\ accCached /\ accCached' = FALSE
    /\ UNCHANGED <<accMember, accSession, accToken, accFresh, accClient, accConn, accNow,
                   accRech, accCut, accFailed>>
TokenExpires ==
    /\ accFresh /\ accToken < AccTokens /\ accFresh' = FALSE
    /\ UNCHANGED <<accMember, accCached, accSession, accToken, accClient, accConn, accNow,
                   accRech, accCut, accFailed>>
SessionEnds ==
    /\ accSession /\ accSession' = FALSE
    /\ UNCHANGED <<accMember, accCached, accToken, accFresh, accClient, accConn, accNow,
                   accRech, accCut, accFailed>>

RefreshToken ==
    /\ accToken' = accToken + 1
    /\ accFresh' = TRUE
    /\ UNCHANGED <<accMember, accCached, accSession>>

\* A REST call of the page finds the token expired and refreshes it.
RestRefresh ==
    /\ ~accFresh /\ accSession
    /\ RefreshToken
    /\ UNCHANGED <<accClient, accConn, accNow, accRech, accCut, accFailed>>

-----------------------------------------------------------------------------
\* A number no page, re-checker or query still knows.
Forgotten(k) ==
    /\ accConn[k].st = "none"
    /\ \A c \in AccClients : accClient[c].conn # k
    /\ \A r \in AccRechecks : k \notin accRech[r].entries \cup accRech[r].snap
Reusable(r) == r # accNow /\ ~accRech[r].checking

\* The hub's connections, and its cap on them.
Subscribed == {k \in AccConns : accConn[k].sub}
Full == Cardinality(Subscribed) >= AccMaxConns

\* authenticateRequest: verifyAccessToken refuses a token past its exp claim.
AuthenticateRequest == accFresh

\* userCanAccessProject: a cached membership answers, the table otherwise.
UserCanAccessProject == accCached \/ accMember

\* connect, the handshake and open: refused, closed with 4401 at the limit, or
\* subscribed.
Handshake(c) ==
    /\ accClient[c].st = "connecting"
    /\ IF AuthenticateRequest /\ UserCanAccessProject
       THEN \E k \in AccConns :
              LET full == Full IN
              /\ Forgotten(k) /\ \A j \in AccConns : j < k => ~Forgotten(j)
              /\ accConn' = [accConn EXCEPT ![k] =
                    [st |-> IF full THEN "closing" ELSE "open", tok |-> accToken,
                     code |-> IF full THEN 4401 ELSE 0, sub |-> ~full, reg |-> "lookup"]]
              /\ accClient' = [accClient EXCEPT ![c] = [st |-> "open", conn |-> k]]
              /\ accCached' = TRUE
       ELSE /\ accClient' = [accClient EXCEPT ![c].st = "waiting"]
            /\ UNCHANGED <<accConn, accCached>>
    /\ UNCHANGED <<accMember, accSession, accToken, accFresh, accNow, accRech, accCut, accFailed>>

\* scheduleMembershipCheck: a connection that is still open joins the user's
\* re-checker, made if there is none.  The streams that look their resource
\* up first call it after the lookup, when the connection may be closed.
ScheduleMembershipCheck(k) ==
    /\ accConn[k].st = "open" /\ accConn[k].reg = "lookup"
    /\ accConn' = [accConn EXCEPT ![k].reg = "checked"]
    /\ IF accNow # 0
       THEN accRech' = [accRech EXCEPT ![accNow].entries = @ \cup {k}] /\ UNCHANGED accNow
       ELSE \E r \in AccRechecks :
              /\ Reusable(r) /\ \A q \in AccRechecks : q < r => ~Reusable(q)
              /\ accNow' = r
              /\ accRech' = [accRech EXCEPT ![r] = [NoRecheck EXCEPT !.entries = {k}]]
    /\ UNCHANGED <<accUser, accClient, accCut, accFailed>>

\* The lookup before it fails.  The OTA and command streams, which look the
\* project up when the handshake's answer has left their cache, close the
\* connection as if access had been revoked; the log stream, which always looks
\* the device up, keeps it without a check.
LookupFails(k) ==
    /\ accConn[k].st = "open" /\ accConn[k].reg = "lookup"
    /\ accFailed < AccFaults /\ accFailed' = accFailed + 1
    /\ \/ /\ accConn' = [accConn EXCEPT ![k].st = "closing", ![k].code = 4403]
          /\ accCut' = accCut \cup {c \in AccClients : accClient[c].conn = k}
       \/ accConn' = [accConn EXCEPT ![k].reg = "never"] /\ UNCHANGED accCut
    /\ UNCHANGED <<accUser, accClient, accNow, accRech>>

Query(rec) == [rec EXCEPT !.checking = TRUE, !.pending = FALSE, !.snap = rec.entries,
                          !.read = accMember]

\* The shared timer: start a query, or ask for another after this one.
RecheckTick ==
    /\ accNow # 0
    /\ accRech' = [accRech EXCEPT ![accNow] =
                     IF @.checking THEN [@ EXCEPT !.pending = TRUE] ELSE Query(@)]
    /\ UNCHANGED <<accUser, accClient, accConn, accNow, accCut, accFailed>>

\* finally: the query is over; a pending one starts while r is the live one.
QueryOver(rec, live) ==
    CASE rec.pending /\ live -> Query(rec)
      [] live /\ ~rec.pending -> [NoRecheck EXCEPT !.entries = rec.entries]
      [] OTHER                -> NoRecheck

\* (mutant) A re-checker retired before removes the one that took its place.
RetiresAnyway(r, left) == left = {}

\* It retires when no connection is left, unless another took its place.
Retires(r, left) == left = {} /\ accNow = r

\* then: drop the connections that died, close the ones without access, retire.
RecheckAnswer(r) ==
    LET rec == accRech[r]
        dead == {k \in rec.snap : accConn[k].st # "open"}
        left == [rec EXCEPT !.entries = @ \ dead]
        retire == Retires(r, left.entries)
    IN /\ rec.checking
       /\ \E allowed \in {rec.read, accMember} :
            accConn' = [k \in AccConns |->
                          IF k \in rec.snap \ dead /\ ~allowed
                          THEN [accConn[k] EXCEPT !.st = "closing", !.code = 4403]
                          ELSE accConn[k]]
       /\ accNow' = IF retire THEN 0 ELSE accNow
       /\ accRech' = [accRech EXCEPT ![r] = QueryOver(left, accNow = r /\ ~retire)]
       /\ UNCHANGED <<accUser, accClient, accCut, accFailed>>

\* catch: a failed query keeps every connection.
RecheckFails(r) ==
    /\ accRech[r].checking /\ accFailed < AccFaults
    /\ accRech' = [accRech EXCEPT ![r] = QueryOver(@, accNow = r)]
    /\ accFailed' = accFailed + 1
    /\ UNCHANGED <<accUser, accClient, accConn, accNow, accCut>>

\* armExpiryCheck's timer closes a connection whose token has expired.
ExpiryCheck(k) ==
    /\ accConn[k].st = "open"
    /\ accConn[k].tok < accToken \/ ~accFresh
    /\ accConn' = [accConn EXCEPT ![k].st = "closing", ![k].code = 4401]
    /\ UNCHANGED <<accUser, accClient, accNow, accRech, accCut, accFailed>>

BreakConnection(k) ==
    /\ accConn[k].st = "open" /\ accFailed < AccFaults
    /\ accConn' = [accConn EXCEPT ![k].st = "closing", ![k].code = 1006]
    /\ accFailed' = accFailed + 1
    /\ UNCHANGED <<accUser, accClient, accNow, accRech, accCut>>

\* stop, of the membership check: on the re-checker that is live now.
StopMembershipCheck(k) ==
    LET left == accRech[accNow].entries \ {k} IN
    IF accConn[k].reg = "checked" /\ accNow # 0
    THEN /\ accRech' = [accRech EXCEPT ![accNow].entries = left]
         /\ accNow' = IF left = {} THEN 0 ELSE accNow
    ELSE UNCHANGED <<accRech, accNow>>

\* The route's close handler: stop the check, clear the timer, unsubscribe.
CloseHandled(k) ==
    /\ accConn[k].st = "closing"
    /\ accConn' = [accConn EXCEPT ![k] =
                     IF \E c \in AccClients : accClient[c].conn = k
                     THEN [@ EXCEPT !.st = "gone", !.sub = FALSE, !.reg = "lookup"] ELSE NoConn]
    /\ StopMembershipCheck(k)
    /\ UNCHANGED <<accUser, accClient, accCut, accFailed>>

-----------------------------------------------------------------------------
\* onclose: stop at 4403, look at the token at 4401, back off otherwise.
\* The page that refreshes remembers the token it was closed with.
ClientClosed(c) ==
    LET conn == accConn[accClient[c].conn] IN
    /\ accClient[c].st = "open" /\ conn.st \in {"closing", "gone"}
    /\ accClient' = [accClient EXCEPT ![c] =
         CASE conn.code = 4403 -> [st |-> "stopped", conn |-> 0]
           [] conn.code = 4401 -> [st |-> "refreshing", tok |-> conn.tok, conn |-> 0]
           [] OTHER            -> [st |-> "waiting", conn |-> 0]]
    /\ accConn' = IF conn.st = "gone" THEN [accConn EXCEPT ![accClient[c].conn] = NoConn] ELSE accConn
    /\ UNCHANGED <<accUser, accNow, accRech, accCut, accFailed>>

\* A token that has not expired is kept; without a session there is no other.
EnsureFreshAccessToken == IF accFresh \/ ~accSession THEN UNCHANGED accUser ELSE RefreshToken

\* Reconnect with a new token, stop without a session, back off when 4401 was
\* not about the token.
Refreshed(c) ==
    /\ accClient[c].st = "refreshing"
    /\ EnsureFreshAccessToken
    /\ accClient' = [accClient EXCEPT ![c] =
         [st |-> CASE ~accFresh /\ ~accSession             -> "stopped"
                   [] accFresh /\ accToken = accClient[c].tok -> "waiting"
                   [] OTHER                                -> "connecting",
          conn |-> 0]]
    /\ UNCHANGED <<accConn, accNow, accRech, accCut, accFailed>>

RetryTimer(c) ==
    /\ accClient[c].st = "waiting"
    /\ accClient' = [accClient EXCEPT ![c] = [st |-> "connecting", conn |-> 0]]
    /\ UNCHANGED <<accUser, accConn, accNow, accRech, accCut, accFailed>>

-----------------------------------------------------------------------------
AccNext ==
    \/ LoseMembership \/ CacheExpires \/ TokenExpires \/ SessionEnds \/ RestRefresh \/ RecheckTick
    \/ \E c \in AccClients : Handshake(c) \/ ClientClosed(c) \/ Refreshed(c) \/ RetryTimer(c)
    \/ \E k \in AccConns :
          \/ ScheduleMembershipCheck(k) \/ LookupFails(k) \/ ExpiryCheck(k) \/ BreakConnection(k) \/ CloseHandled(k)
    \/ \E r \in AccRechecks : RecheckAnswer(r) \/ RecheckFails(r)

-----------------------------------------------------------------------------
OpenConns == {k \in AccConns : accConn[k].st = "open"}

\* A user without access has no open stream, one with access and a session
\* has all of them, and the re-checker lives exactly while it has an open
\* connection to watch.  Exempt are what a failed lookup leaves behind: a page
\* it closed for good, though ws-access.ts says to "never kill on hiccups", and
\* a log stream it left unchecked, until its token ends.
AccessRight ==
    LET watched == {k \in OpenConns : accConn[k].reg # "never"} IN
    /\ ~accMember => watched = {} /\ \A k \in OpenConns : accConn[k].tok = accToken
    /\ accMember /\ accSession =>
          \A c \in AccClients \ accCut : accClient[c].st = "open" /\ accClient[c].conn \in OpenConns
    /\ accNow = 0 <=> watched = {}
=============================================================================
