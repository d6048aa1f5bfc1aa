------------------------------ MODULE Accounts ------------------------------
(***************************************************************************)
(* The accounts of the API and the browser that uses them: registration    *)
(* and login behind a password throttle (api/auth.ts), one-time refresh    *)
(* tokens (core/auth/tokens.ts), and the tabs of one browser, which share  *)
(* the stored token and refresh it under a lock (web http.ts and           *)
(* AuthContext.tsx).                                                       *)
(*                                                                         *)
(* A refresh is one READ COMMITTED transaction of several statements.  A   *)
(* claimed row is locked until its transaction ends, an UPDATE waits for   *)
(* the locks of the rows its snapshot selected and then looks at them      *)
(* again, and a row inserted by a running transaction is seen by nobody    *)
(* else: it enters "rows" when its transaction commits.                    *)
(***************************************************************************)
EXTENDS Integers, FiniteSets

CONSTANTS
    Tabs,        \* the tabs of one browser: one localStorage, one lock
    Requests,    \* refresh requests the API can be serving
    MaxTokens,   \* bound on the refresh tokens ever issued
    MaxBreaks,   \* bound on reloads, broken connections and failed transactions
    MaxFailures, \* LOGIN_MAX_FAILURES
    Argon2Slots  \* argon2Concurrency

ASSUME AccountsAssumption ==
    /\ MaxTokens \in Nat /\ MaxBreaks \in Nat
    /\ MaxFailures \in Nat \ {0} /\ Argon2Slots \in Nat \ {0}
    /\ 0 \notin Tabs /\ 0 \notin Requests

VARIABLES
    user,     \* is the account registered
    rows,     \* the refresh_tokens table
    reqs,     \* the refresh transactions under way
    failures, \* the loginFailures entry of the account's name
    hashing,  \* Argon2AdmissionLimiter.active
    store,    \* the refresh token in localStorage, 0 when there is none
    lock,     \* the tab holding the "soulcloud-refresh" Web Lock
    tabs,     \* what each tab keeps in memory
    told      \* history: what happened to the tokens, for the properties

accountVars == <<user, rows, reqs, failures, hashing, store, lock, tabs, told>>

-----------------------------------------------------------------------------
Tokens == 1 .. MaxTokens
NoRow == [state |-> "none", from |-> 0, by |-> 0, old |-> FALSE]
IdleRequest == [pc |-> "idle", token |-> 0, next |-> 0, seen |-> {}]
LoadingTab == [status |-> "loading", refresh |-> "no", req |-> 0, password |-> "no", logout |-> 0]
NoFailures == [count |-> 0, locked |-> FALSE]

AccountsInit ==
    /\ user = FALSE
    /\ rows = [t \in Tokens |-> NoRow]
    /\ reqs = [r \in Requests |-> IdleRequest]
    /\ failures = NoFailures
    /\ hashing = 0
    /\ store = 0
    /\ lock = 0
    /\ tabs = [b \in Tabs |-> LoadingTab]
    /\ told = [reused |-> {}, spared |-> {}, excused |-> {}, breaks |-> 0]

\* The next unused token: 32 random bytes never repeat.
Unused == {t \in Tokens : rows[t].state = "none"
                          /\ \A r \in Requests : reqs[r].next # t}
Fresh == CHOOSE t \in Unused : \A u \in Unused : t <= u

Active(t) == rows[t].state = "active"
Revoke(S) == [t \in Tokens |-> IF t \in S /\ Active(t)
                               THEN [rows[t] EXCEPT !.state = "revoked"] ELSE rows[t]]

(***************************************************************************)
(* The rotation of a refresh token, statement by statement.                *)
(***************************************************************************)
serverOnly == <<user, failures, hashing, store, lock, tabs>>

\* rotateRefreshToken: the lookup.  A token that has expired by now, and
\* stays so, goes to be revoked.
RotateFind(r) ==
    /\ reqs[r].pc = "find"
    /\ \E old \in {rows[reqs[r].token].old, TRUE} :
          /\ rows' = [rows EXCEPT ![reqs[r].token].old = old]
          /\ reqs' = [reqs EXCEPT ![r].pc = IF old THEN "expired" ELSE "claim"]
    /\ UNCHANGED <<serverOnly, told>>

\* The token is past its expiry: its own row is revoked, the request refused.
RotateExpired(r) ==
    /\ reqs[r].pc = "expired"
    /\ rows[reqs[r].token].by = 0
    /\ rows' = Revoke({reqs[r].token})
    /\ reqs' = [reqs EXCEPT ![r].pc = "refused"]
    /\ UNCHANGED <<serverOnly, told>>

\* (mutant) The claim is qualified by the id alone: whoever finds the row
\* rotates it, once the lock is free.
ClaimById(r) ==
    LET t == reqs[r].token IN
    /\ reqs[r].pc = "claim"
    /\ rows[t].by = 0
    /\ Unused # {}
    /\ rows' = [rows EXCEPT ![t].by = r]
    /\ reqs' = [reqs EXCEPT ![r].pc = "claimed", ![r].next = Fresh]
    /\ UNCHANGED <<serverOnly, told>>

\* The claim: UPDATE ... WHERE revoked_at IS NULL, which waits for the lock
\* of a rotation of the same token.  No row claimed means a reuse.
RotateClaim(r) ==
    LET t == reqs[r].token IN
    /\ reqs[r].pc = "claim"
    /\ rows[t].by = 0
    /\ IF Active(t)
       THEN /\ Unused # {}
            /\ rows' = [rows EXCEPT ![t].by = r]
            /\ reqs' = [reqs EXCEPT ![r].pc = "claimed", ![r].next = Fresh]
       ELSE /\ reqs' = [reqs EXCEPT ![r].pc = "reuse"]
            /\ UNCHANGED rows
    /\ UNCHANGED <<serverOnly, told>>

\* The successor is inserted and the transaction commits.
RotateSuccess(r) ==
    LET q == reqs[r] IN
    /\ q.pc = "claimed"
    /\ rows' = [rows EXCEPT ![q.token].state = "revoked", ![q.token].by = 0,
                            ![q.next] = [NoRow EXCEPT !.state = "active", !.from = q.token]]
    /\ reqs' = [reqs EXCEPT ![r].pc = "ok"]
    /\ UNCHANGED <<serverOnly, told>>

\* revokeAllForUser: the snapshot of the UPDATE selects the active rows of
\* the user.  Of the rows another rotation has claimed, only the claimed row
\* is in it, not the successor.
RotateScan(r) ==
    /\ reqs[r].pc = "reuse"
    /\ reqs' = [reqs EXCEPT ![r].pc = "scanned", ![r].seen = {t \in Tokens : Active(t)}]
    /\ UNCHANGED <<serverOnly, rows, told>>

\* It waits for the locks of those rows, revokes those still active, and the
\* request is refused with reuse_detected.
RotateReuse(r) ==
    LET q == reqs[r] IN
    /\ q.pc = "scanned"
    /\ \A t \in q.seen : rows[t].by = 0
    /\ rows' = Revoke(q.seen)
    /\ told' = [told EXCEPT !.reused = @ \cup {q.token}, !.excused = @ \cup q.seen,
                            !.spared = @ \cup {t \in q.seen : ~Active(t)}]
    /\ reqs' = [reqs EXCEPT ![r].pc = "refused"]
    /\ UNCHANGED serverOnly

\* A statement fails: the transaction is rolled back, the answer is a 500.
RotateAborted(r) ==
    LET q == reqs[r] IN
    /\ q.pc \in {"find", "expired", "claim", "claimed", "reuse", "scanned"}
    /\ told.breaks < MaxBreaks
    /\ told' = [told EXCEPT !.breaks = @ + 1]
    /\ rows' = IF q.pc = "claimed" THEN [rows EXCEPT ![q.token].by = 0] ELSE rows
    /\ reqs' = [reqs EXCEPT ![r] = [IdleRequest EXCEPT !.pc = "refused"]]
    /\ UNCHANGED serverOnly

\* The answer of a request nobody waits for any more is dropped.
AnswerDropped(r) ==
    /\ reqs[r].pc \in {"ok", "refused"}
    /\ \A b \in Tabs : tabs[b].req # r
    /\ reqs' = [reqs EXCEPT ![r] = IdleRequest]
    /\ UNCHANGED <<serverOnly, rows, told>>

(***************************************************************************)
(* Registration, login and their throttle.                                 *)
(***************************************************************************)
\* issueRefreshToken.
IssueRefreshToken == rows' = [rows EXCEPT ![Fresh] = [NoRow EXCEPT !.state = "active"]]

\* The tab has the token pair: AuthContext login and register.
SignedIn(b, t) ==
    /\ tabs' = [tabs EXCEPT ![b].password = "no", ![b].status = "authed"]
    /\ store' = t

SignInFailed(b) ==
    /\ tabs' = [tabs EXCEPT ![b].password = "no"]
    /\ UNCHANGED store

\* tryAcquire: a request without a free slot is answered 429 at once.
TryAcquire == hashing < Argon2Slots /\ hashing' = hashing + 1

\* loginLockRemaining of a name let through: a count is kept, a lock that has
\* run out is forgotten with its count.
LoginLockRemaining == failures' = IF failures.locked THEN NoFailures ELSE failures

\* recordLoginFailure: at the limit the name is locked and the count restarts.
RecordLoginFailure ==
    failures' = IF failures.count + 1 >= MaxFailures
                THEN [count |-> 0, locked |-> TRUE]
                ELSE [failures EXCEPT !.count = @ + 1]

\* POST /register or /login comes to the password work, or finds it busy.
PasswordRequest(b, kind) ==
    /\ tabs[b].status = "anon" /\ tabs[b].password = "no"
    /\ IF kind = "login" THEN LoginLockRemaining ELSE UNCHANGED failures
    /\ \/ TryAcquire /\ tabs' = [tabs EXCEPT ![b].password = kind]
       \/ hashing = Argon2Slots /\ UNCHANGED <<hashing, tabs>>
    /\ UNCHANGED <<user, rows, reqs, store, lock, told>>

\* POST /register: the user and its project in one transaction, then the
\* tokens; a taken name, or a failure of either, is an error answer.
Register(b) ==
    /\ tabs[b].password = "register"
    /\ hashing' = hashing - 1
    /\ \/ /\ ~user /\ user' = TRUE /\ Unused # {}
          /\ IssueRefreshToken /\ SignedIn(b, Fresh)
       \/ /\ user' \in {user, TRUE}
          /\ SignInFailed(b) /\ UNCHANGED rows
    /\ UNCHANGED <<reqs, failures, lock, told>>

\* POST /login once the password work is done: right, wrong, or a statement
\* before or after the counter is cleared fails.
Login(b) ==
    /\ tabs[b].password = "login"
    /\ hashing' = hashing - 1
    /\ \/ /\ user /\ Unused # {}
          /\ failures' = NoFailures
          /\ IssueRefreshToken /\ SignedIn(b, Fresh)
       \/ /\ RecordLoginFailure \/ failures' \in {failures, NoFailures}
          /\ SignInFailed(b) /\ UNCHANGED rows
    /\ UNCHANGED <<user, reqs, lock, told>>

(***************************************************************************)
(* The tabs.                                                               *)
(***************************************************************************)
\* endSession: the tab signs out and the shared token is removed.
EndSession(b) ==
    /\ tabs' = [tabs EXCEPT ![b].status = "anon", ![b].refresh = "no", ![b].req = 0]
    /\ store' = 0

\* AuthProvider: a tab that starts without a stored token is anonymous.
RestoreNothing(b) ==
    /\ tabs[b].status = "loading" /\ tabs[b].refresh = "no" /\ store = 0
    /\ tabs' = [tabs EXCEPT ![b].status = "anon"]
    /\ UNCHANGED <<user, rows, reqs, failures, hashing, store, lock, told>>

\* ... and one whose first request fails for another reason than its token
\* removes the shared token too.
RestoreFails(b) ==
    /\ tabs[b].status = "loading" /\ tabs[b].refresh = "no" /\ store # 0
    /\ told.breaks < MaxBreaks
    /\ told' = [told EXCEPT !.breaks = @ + 1]
    /\ EndSession(b)
    /\ UNCHANGED <<user, rows, reqs, failures, hashing, lock>>

\* refreshTokens: a 401 (the access token may have run out at any time), an
\* expired token at a reconnect or a session to restore starts the one
\* refresh of this tab, which asks for the lock.
RefreshTokens(b) ==
    /\ tabs[b].refresh = "no"
    /\ \/ tabs[b].status = "authed"
       \/ tabs[b].status = "loading" /\ store # 0
    /\ tabs' = [tabs EXCEPT ![b].refresh = "wait"]
    /\ UNCHANGED <<user, rows, reqs, failures, hashing, store, lock, told>>

\* doRefreshRoundTrip: under the lock, read the stored token and send it.
DoRefreshRoundTrip(b) ==
    /\ tabs[b].refresh = "wait"
    /\ lock = 0
    /\ store # 0
    /\ \E r \in Requests :
          /\ reqs[r].pc = "idle"
          /\ \A s \in Requests : reqs[s].pc = "idle" => r <= s
          /\ reqs' = [reqs EXCEPT ![r] = [IdleRequest EXCEPT !.pc = "find", !.token = store]]
          /\ tabs' = [tabs EXCEPT ![b].refresh = "sent", ![b].req = r]
    /\ lock' = b
    /\ UNCHANGED <<user, rows, failures, hashing, store, told>>

\* ... which throws when another tab has removed the token.
NoStoredToken(b) ==
    /\ tabs[b].refresh = "wait" /\ lock = 0 /\ store = 0
    /\ EndSession(b)
    /\ UNCHANGED <<user, rows, reqs, failures, hashing, lock, told>>

\* The new pair arrives: it is stored, and the lock is let go.  A tab that was
\* starting has its session; one that logged out meanwhile stays anonymous.
Refreshed(b) ==
    LET r == tabs[b].req IN
    /\ r # 0 /\ reqs[r].pc = "ok"
    /\ store' = reqs[r].next
    /\ tabs' = [tabs EXCEPT ![b].status = IF @ = "loading" THEN "authed" ELSE @,
                            ![b].refresh = "no", ![b].req = 0]
    /\ reqs' = [reqs EXCEPT ![r] = IdleRequest]
    /\ lock' = 0
    /\ UNCHANGED <<user, rows, failures, hashing, told>>

\* The refresh is refused, or the connection breaks before its answer: the
\* session ends either way.
RefreshFailed(b) ==
    LET r == tabs[b].req IN
    /\ r # 0
    /\ \/ /\ reqs[r].pc = "refused"
          /\ reqs' = [reqs EXCEPT ![r] = IdleRequest]
          /\ UNCHANGED told
       \/ /\ told.breaks < MaxBreaks
          /\ told' = [told EXCEPT !.breaks = @ + 1]
          /\ UNCHANGED reqs
    /\ EndSession(b)
    /\ lock' = 0
    /\ UNCHANGED <<user, rows, failures, hashing>>

\* logout: the stored token is sent to be revoked ...
Logout(b) ==
    /\ tabs[b].status = "authed" /\ tabs[b].logout = 0 /\ store # 0
    /\ tabs' = [tabs EXCEPT ![b].logout = store]
    /\ UNCHANGED <<user, rows, reqs, failures, hashing, store, lock, told>>

\* ... revokeRefreshToken, unless the call fails, and the tab forgets the
\* session whatever the answer.
LoggedOut(b) ==
    LET t == tabs[b].logout IN
    /\ t # 0
    /\ \/ /\ rows[t].by = 0
          /\ rows' = Revoke({t})
          /\ told' = [told EXCEPT !.excused = @ \cup {t}]
       \/ /\ told.breaks < MaxBreaks
          /\ told' = [told EXCEPT !.breaks = @ + 1]
          /\ UNCHANGED rows
    /\ tabs' = [tabs EXCEPT ![b].logout = 0, ![b].status = "anon"]
    /\ store' = 0
    /\ UNCHANGED <<user, reqs, failures, hashing, lock>>

\* The tab is reloaded: what it kept in memory is gone, its lock is let go,
\* and a refresh it had sent goes on without it.
Reload(b) ==
    /\ tabs[b].password = "no" /\ tabs[b].logout = 0
    /\ tabs[b].status # "loading" \/ tabs[b].refresh # "no"
    /\ told.breaks < MaxBreaks
    /\ told' = [told EXCEPT !.breaks = @ + 1, !.excused = @ \cup
                   (IF tabs[b].req = 0 THEN {} ELSE {reqs[tabs[b].req].token})]
    /\ tabs' = [tabs EXCEPT ![b] = LoadingTab]
    /\ lock' = IF lock = b THEN 0 ELSE lock
    /\ UNCHANGED <<user, rows, reqs, failures, hashing, store>>

-----------------------------------------------------------------------------
AccountsNext ==
    \/ \E r \in Requests : \/ RotateFind(r) \/ RotateExpired(r) \/ RotateClaim(r)
                           \/ RotateSuccess(r) \/ RotateScan(r) \/ RotateReuse(r)
                           \/ RotateAborted(r) \/ AnswerDropped(r)
    \/ \E b \in Tabs, kind \in {"login", "register"} : PasswordRequest(b, kind)
    \/ \E b \in Tabs : \/ Register(b) \/ Login(b) \/ RestoreNothing(b) \/ RestoreFails(b)
                       \/ RefreshTokens(b)
                       \/ DoRefreshRoundTrip(b) \/ NoStoredToken(b) \/ Refreshed(b)
                       \/ RefreshFailed(b) \/ Logout(b) \/ LoggedOut(b)
                       \/ Reload(b)

-----------------------------------------------------------------------------
\* The tokens a token was rotated from, itself included: the least set with
\* it and, with each token, the one that token replaced.
Lineage(from, s) ==
    {t \in Tokens : \A S \in SUBSET Tokens :
        s \in S /\ (\A x \in S : from[x] # 0 => from[x] \in S) => t \in S}
Line(s) == Lineage([t \in Tokens |-> rows[t].from], s)

\* A refresh token is good for one successor, however many requests present it.
OneSuccessor == \A t \in Tokens : Cardinality({s \in Tokens : rows[s].from = t}) <= 1

\* Once the reuse of a token has been detected no descendant of it is usable,
\* the one its winning rotation was inserting included; except below a token
\* that some other request rotated while the family was being revoked: its
\* successor is not in the snapshot of revokeAllForUser, although tokens.ts says
\* that reuse "revokes the whole chain".
ReuseEndsFamily ==
    \A t \in told.reused, s \in Tokens :
       Active(s) /\ t \in Line(s) => Line(s) \cap told.spared # {}

\* A browser is never taken for a replay: a token is presented twice only
\* after a tab was reloaded with its refresh under way, a logout of the token,
\* or the end of its family.
ReplayExplained ==
    told.reused \subseteq told.excused
=============================================================================
