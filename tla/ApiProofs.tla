----------------------------- MODULE ApiProofs ------------------------------
(***************************************************************************)
(* Proofs about what the API hands out and keeps, for every number of      *)
(* tabs, requests, tokens, grants, managers, devices and events: refresh   *)
(* tokens and grants of plugin pages are spent once, a stored event is     *)
(* linked to the artifact of its own device's firmware, and a list that is *)
(* read in pieces has every row.                                           *)
(***************************************************************************)
EXTENDS Credentials, LogArchive, Listings, FiniteSetTheorems, TLAPS

-----------------------------------------------------------------------------
(* The line of a token *)

\* S is closed: with a token it has the one that token replaced.
ClosedIn(from, S) == \A x \in S : from[x] # 0 => from[x] \in S

\* A closed set with s has its whole line.
LEMMA LineageWithin ==
  ASSUME NEW f, NEW s, NEW S \in SUBSET Tokens, s \in S, ClosedIn(f, S)
  PROVE  Lineage(f, s) \subseteq S
  BY DEF Lineage, ClosedIn

\* The line of a token is such a set.
LEMMA LineageClosed ==
  ASSUME NEW f \in [Tokens -> Tokens \cup {0}], NEW s \in Tokens
  PROVE  /\ Lineage(f, s) \in SUBSET Tokens /\ s \in Lineage(f, s)
         /\ ClosedIn(f, Lineage(f, s))
<1>1. Lineage(f, s) \in SUBSET Tokens /\ s \in Lineage(f, s)
  BY DEF Lineage
<1>2. ASSUME NEW x \in Lineage(f, s), f[x] # 0 PROVE f[x] \in Lineage(f, s)
  <2>1. x \in Tokens /\ f[x] \in Tokens
    BY <1>1, <1>2
  <2>2. ASSUME NEW S \in SUBSET Tokens, s \in S, \A y \in S : f[y] # 0 => f[y] \in S
        PROVE  f[x] \in S
    <3>1. x \in S
      BY <2>2 DEF Lineage
    <3>. QED
      BY <1>2, <2>2, <3>1
  <2>. QED
    BY <2>1, <2>2 DEF Lineage
<1>. QED
  BY <1>1, <1>2 DEF ClosedIn

\* Whoever is in the line of s, s itself apart, was replaced by another in it.
LEMMA LineageReplaced ==
  ASSUME NEW f \in [Tokens -> Tokens \cup {0}], NEW s \in Tokens,
         NEW x \in Lineage(f, s), x # s
  PROVE  \E y \in Lineage(f, s) : f[y] = x
<1>. DEFINE S == Lineage(f, s) \ {x}
<1>1. /\ Lineage(f, s) \in SUBSET Tokens /\ s \in Lineage(f, s)
      /\ ClosedIn(f, Lineage(f, s))
  BY LineageClosed
<1>. SUFFICES ASSUME \A y \in Lineage(f, s) : f[y] # x PROVE FALSE
  OBVIOUS
<1>2. S \in SUBSET Tokens /\ s \in S /\ ClosedIn(f, S)
  BY <1>1 DEF ClosedIn
<1>3. Lineage(f, s) \subseteq S
  <2>. HIDE DEF S
  <2>. QED
    BY <1>2, LineageWithin
<1>. QED
  BY <1>3

\* A new token n is added that nobody was rotated from: the lines of the
\* others are what they were, and its own is that of the token it replaces.
LEMMA LineageGrows ==
  ASSUME NEW f \in [Tokens -> Tokens \cup {0}], NEW g \in [Tokens -> Tokens \cup {0}],
         NEW n \in Tokens, \A x \in Tokens : x # n => g[x] = f[x],
         f[n] = 0, \A x \in Tokens : f[x] # n, g[n] # n
  PROVE  /\ \A s \in Tokens : s # n => Lineage(g, s) = Lineage(f, s) /\ n \notin Lineage(f, s)
         /\ g[n] = 0 => Lineage(g, n) = {n}
         /\ g[n] # 0 => Lineage(g, n) = {n} \cup Lineage(f, g[n])
<1>1. ASSUME NEW s \in Tokens, s # n
      PROVE  Lineage(g, s) = Lineage(f, s) /\ n \notin Lineage(f, s)
  <2>1. /\ Lineage(f, s) \in SUBSET Tokens /\ s \in Lineage(f, s) /\ ClosedIn(f, Lineage(f, s))
        /\ Lineage(g, s) \in SUBSET Tokens /\ s \in Lineage(g, s) /\ ClosedIn(g, Lineage(g, s))
    BY LineageClosed
  <2>2. n \notin Lineage(f, s)
    <3>. SUFFICES ASSUME n \in Lineage(f, s) PROVE FALSE
      OBVIOUS
    <3>1. PICK y \in Lineage(f, s) : f[y] = n
      BY <1>1, LineageReplaced
    <3>. QED
      BY <2>1, <3>1
  <2>3. n \notin Lineage(g, s)
    <3>. SUFFICES ASSUME n \in Lineage(g, s) PROVE FALSE
      OBVIOUS
    <3>1. PICK y \in Lineage(g, s) : g[y] = n
      BY <1>1, LineageReplaced
    <3>. QED
      BY <2>1, <3>1
  <2>4. ClosedIn(g, Lineage(f, s)) /\ ClosedIn(f, Lineage(g, s))
    BY <2>1, <2>2, <2>3 DEF ClosedIn
  <2>5. Lineage(g, s) \subseteq Lineage(f, s) /\ Lineage(f, s) \subseteq Lineage(g, s)
    BY <2>1, <2>4, LineageWithin
  <2>. QED
    BY <2>2, <2>5
<1>2. /\ Lineage(g, n) \in SUBSET Tokens /\ n \in Lineage(g, n) /\ ClosedIn(g, Lineage(g, n))
  BY LineageClosed
<1>3. ASSUME g[n] = 0 PROVE Lineage(g, n) = {n}
  <2>1. {n} \in SUBSET Tokens /\ n \in {n} /\ ClosedIn(g, {n})
    BY <1>3 DEF ClosedIn
  <2>2. Lineage(g, n) \subseteq {n}
    BY <2>1, LineageWithin
  <2>. QED
    BY <1>2, <2>2
<1>4. ASSUME g[n] # 0 PROVE Lineage(g, n) = {n} \cup Lineage(f, g[n])
  <2>. DEFINE a == g[n]
              A == Lineage(f, a)
  <2>1. a \in Tokens /\ a # n
    BY <1>4
  <2>2. Lineage(g, a) = A
    BY <1>1, <2>1
  <2>3. A \in SUBSET Tokens /\ a \in A /\ ClosedIn(g, A)
    BY <2>1, <2>2, LineageClosed
  <2>4. {n} \cup A \in SUBSET Tokens /\ n \in {n} \cup A /\ ClosedIn(g, {n} \cup A)
    BY <2>3 DEF ClosedIn
  <2>5. Lineage(g, n) \subseteq {n} \cup A
    <3>. HIDE DEF A
    <3>. QED
      BY <2>4, LineageWithin
  <2>6. a \in Lineage(g, n)
    BY <1>2, <1>4 DEF ClosedIn
  <2>7. Lineage(g, a) \subseteq Lineage(g, n)
    BY <1>2, <2>6, LineageWithin
  <2>. QED
    BY <1>2, <2>2, <2>5, <2>7
<1>. QED
  BY <1>1, <1>3, <1>4

-----------------------------------------------------------------------------
(* Refresh tokens: what is true of the rows and of the requests.            *)

RowStates == {"none", "active", "revoked"}
AtWork == {"find", "expired", "claim", "claimed", "reuse", "scanned"}
RequestStates == AtWork \cup {"idle", "ok", "refused"}

TokenRow == [state : RowStates, from : Tokens \cup {0}, by : Requests \cup {0}, old : BOOLEAN]
Refresh == [pc : RequestStates, token : Tokens \cup {0}, next : Tokens \cup {0}, seen : SUBSET Tokens]
Tab == [status : {"loading", "anon", "authed"}, refresh : {"no", "wait", "sent"},
        req : Requests \cup {0}, password : {"no", "login", "register"}, logout : Tokens \cup {0}]
History == [reused : SUBSET Tokens, spared : SUBSET Tokens, excused : SUBSET (Tokens \cup {0}),
            breaks : 0..MaxBreaks]

AccountTypes ==
  /\ rows \in [Tokens -> TokenRow]
  /\ reqs \in [Requests -> Refresh]
  /\ store \in Tokens \cup {0}
  /\ lock \in Tabs \cup {0}
  /\ tabs \in [Tabs -> Tab]
  /\ told \in History

Known(t) == rows[t].state # "none"

\* A token was rotated from one that is revoked, and shares it with no other.
RowsDescend ==
  /\ \A s \in Tokens : rows[s].from # 0 => Known(s) /\ rows[rows[s].from].state = "revoked"
  /\ \A s, u \in Tokens : rows[s].from # 0 /\ rows[s].from = rows[u].from => s = u

\* Row locks and claims agree.
LocksHeld ==
  /\ \A t \in Tokens : rows[t].by # 0 =>
       reqs[rows[t].by].pc = "claimed" /\ reqs[rows[t].by].token = t
  /\ \A r \in Requests : reqs[r].pc = "claimed" =>
       /\ rows[reqs[r].token].by = r /\ Active(reqs[r].token)
       /\ reqs[r].next # 0 /\ ~Known(reqs[r].next)

\* Whatever is presented, stored, logged out or reused was issued.
Presented ==
  /\ \A r \in Requests : reqs[r].pc \in AtWork => reqs[r].token # 0
  /\ \A r \in Requests : reqs[r].token # 0 => Known(reqs[r].token)
  /\ store # 0 => Known(store)
  /\ \A b \in Tabs : tabs[b].logout # 0 => Known(tabs[b].logout)
  /\ \A t \in told.reused : Known(t)

\* A successor belongs to one request, and until its answer is read nobody
\* else has it.
Successors ==
  /\ \A r \in Requests : reqs[r].next # 0 <=> reqs[r].pc \in {"claimed", "ok"}
  /\ \A r, s \in Requests : reqs[r].next # 0 /\ reqs[r].next = reqs[s].next => r = s
  /\ \A r \in Requests : reqs[r].pc = "ok" =>
       /\ Known(reqs[r].next)
       /\ Active(reqs[r].next) \/ reqs[r].next \in told.excused
       /\ store # reqs[r].next
       /\ \A s \in Requests : reqs[s].token # reqs[r].next

\* The tab that has sent a refresh holds the lock.
OneSender ==
  /\ \A b \in Tabs : tabs[b].req # 0 <=> lock = b
  /\ \A b \in Tabs : tabs[b].refresh # "sent" <=> tabs[b].req = 0

\* The lock holder waits for r.
Awaited(r) == lock # 0 /\ tabs[lock].req = r

\* A token is presented while it is good, once at a time, or else there is
\* an excuse.
Excuses ==
  /\ \A r, s \in Requests :
       r # s /\ reqs[r].pc \in AtWork /\ reqs[s].pc \in AtWork /\ reqs[r].token = reqs[s].token
         => reqs[r].token \in told.excused
  /\ \A r \in Requests : reqs[r].pc \in {"find", "claim"} =>
       Active(reqs[r].token) \/ reqs[r].token \in told.excused
  /\ \A r \in Requests : reqs[r].pc \in {"reuse", "scanned"} => reqs[r].token \in told.excused
  /\ \A r \in Requests : reqs[r].pc \in AtWork /\ store = reqs[r].token =>
       Awaited(r) \/ store \in told.excused
  /\ store # 0 => \/ Active(store) \/ store \in told.excused
                  \/ \E r \in Requests : /\ Awaited(r) /\ reqs[r].token = store
                                         /\ reqs[r].pc \in {"ok", "refused"}

\* A request that has looked for the user's sessions saw an ancestor of every
\* one that descends from its token.
ScansCover ==
  \A r \in Requests : reqs[r].pc = "scanned" =>
    \A s \in Tokens : Active(s) /\ reqs[r].token \in Line(s) => Line(s) \cap reqs[r].seen # {}

\* The parts that speak of rows, requests and the store.
Core == RowsDescend /\ LocksHeld /\ Presented /\ Successors /\ OneSender /\ Excuses

AccountInv == AccountTypes /\ Core /\ ScansCover /\ ReuseEndsFamily /\ ReplayExplained

-----------------------------------------------------------------------------
(* The grants of plugin pages. *)

UiTypes ==
  /\ now \in Nat
  /\ home \in [build : Builds, enabled : BOOLEAN, member : BOOLEAN]
  /\ grants \in [Grants -> [exp : Nat, build : Builds \cup {0}]]
  /\ used \in [Grants -> Nat]
  /\ boots \in [Managers -> [pc : {"idle", "verified"}, nonce : Grants \cup {0}, until : Nat]]
  /\ opened \in [Grants -> Nat]

\* The row of a used grant outlives the grant.
RowsOutlive ==
  /\ \A n \in Grants : grants[n].exp <= now + UiTtl
  /\ \A m \in Managers : boots[m].pc = "verified" =>
       /\ boots[m].nonce \in Grants
       /\ grants[boots[m].nonce].exp # 0 /\ grants[boots[m].nonce].exp <= boots[m].until
  /\ \A n \in Grants : opened[n] # 0 =>
       /\ opened[n] = 1 /\ grants[n].exp # 0
       /\ now < grants[n].exp => grants[n].exp <= used[n]

UiInv == UiTypes /\ RowsOutlive

\* Nothing has been granted yet.
LEMMA UiInitInv == UiInit => UiInv
<1>. SUFFICES ASSUME UiInit PROVE UiInv
  OBVIOUS
<1>1. /\ \A n \in Grants : grants[n] = [exp |-> 0, build |-> 0] /\ used[n] = 0 /\ opened[n] = 0
      /\ \A m \in Managers : boots[m] = [pc |-> "idle", nonce |-> 0, until |-> 0]
      /\ now = 0
  BY DEF UiInit, NoBoot
<1>2. UiTypes
  BY DEF UiInit, UiTypes, NoBoot
<1>3. RowsOutlive
  BY <1>1, UiAssumption DEF RowsOutlive
<1>. QED
  BY <1>2, <1>3 DEF UiInv

\* Every step on plugin pages keeps the rows of used grants long enough.
LEMMA UiNextInv == UiInv /\ [UiNext]_uiVars => UiInv'
<1>. SUFFICES ASSUME UiInv, [UiNext]_uiVars PROVE UiInv'
  OBVIOUS
<1>. USE UiAssumption DEF UiInv, UiTypes, RowsOutlive
<1>1. ASSUME NEW n \in Grants, SignPluginUiSession(n) PROVE UiInv'
  <2>1. [exp |-> now + UiTtl, build |-> home.build] \in [exp : Nat, build : Builds \cup {0}]
    OBVIOUS
  <2>2. grants' = [grants EXCEPT ![n] = [exp |-> now + UiTtl, build |-> home.build]]
    BY <1>1 DEF SignPluginUiSession
  <2>3. grants' \in [Grants -> [exp : Nat, build : Builds \cup {0}]]
    BY <2>1, <2>2
  <2>4. /\ \A k \in Grants : k # n => grants'[k] = grants[k]
        /\ grants'[n].exp = now + UiTtl /\ grants[n].exp = 0
    BY <1>1, <2>2 DEF SignPluginUiSession
  <2>5. \A k \in Grants : grants'[k].exp <= now + UiTtl
    BY <2>4
  <2>6. \A k \in Grants : grants[k].exp # 0 => grants'[k] = grants[k]
    BY <2>4
  <2>. QED
    BY <1>1, <2>3, <2>5, <2>6 DEF SignPluginUiSession
<1>2. ASSUME NEW m \in Managers, NEW n \in Grants, Bootstrap(m, n) PROVE UiInv'
  <2>1. boots' = [boots EXCEPT ![m] = [pc |-> "verified", nonce |-> n, until |-> now + UiTtl]]
    BY <1>2 DEF Bootstrap
  <2>2. now < grants[n].exp
    BY <1>2 DEF Bootstrap, Verified
  <2>3. \A k \in Managers : IF k = m THEN boots'[k] = [pc |-> "verified", nonce |-> n, until |-> now + UiTtl]
                            ELSE boots'[k] = boots[k]
    BY <2>1
  <2>. QED
    BY <1>2, <2>1, <2>2, <2>3 DEF Bootstrap
<1>3. ASSUME NEW m \in Managers, ConsumePluginUiGrant(m) PROVE UiInv'
  <2>1. /\ boots' = [boots EXCEPT ![m] = NoBoot]
        /\ \A k \in Managers : k # m => boots'[k] = boots[k]
        /\ boots'[m] = NoBoot /\ NoBoot.pc = "idle"
    BY <1>3 DEF ConsumePluginUiGrant, NoBoot
  <2>2. boots' \in [Managers -> [pc : {"idle", "verified"}, nonce : Grants \cup {0}, until : Nat]]
    BY <2>1 DEF NoBoot
  <2>3. CASE UNCHANGED <<used, opened>>
    BY <1>3, <2>1, <2>2, <2>3 DEF ConsumePluginUiGrant
  <2>4. CASE ~UNCHANGED <<used, opened>>
    <3>1. PICK n \in Grants : n = boots[m].nonce /\ grants[n].exp # 0 /\ grants[n].exp <= boots[m].until
      BY <1>3 DEF ConsumePluginUiGrant
    <3>2. /\ used[n] = 0 /\ used' = [used EXCEPT ![n] = boots[m].until]
          /\ opened' = [opened EXCEPT ![n] = IF now < grants[n].exp THEN @ + 1 ELSE @]
      BY <1>3, <2>4, <3>1 DEF ConsumePluginUiGrant, Verified
    <3>3. now < grants[n].exp => opened[n] = 0
      BY <3>1, <3>2
    <3>4. UNCHANGED <<now, home, grants>>
      BY <1>3 DEF ConsumePluginUiGrant
    <3>5. used' \in [Grants -> Nat] /\ opened' \in [Grants -> Nat]
      BY <3>2
    <3>6. \A k \in Grants : k # n => used'[k] = used[k] /\ opened'[k] = opened[k]
      BY <3>2
    <3>7. used'[n] = boots[m].until /\ opened'[n] = IF now < grants[n].exp THEN opened[n] + 1 ELSE opened[n]
      BY <3>2
    <3>8. \A k \in Grants : opened'[k] # 0 =>
             /\ opened'[k] = 1 /\ grants[k].exp # 0
             /\ now < grants[k].exp => grants[k].exp <= used'[k]
      BY <3>1, <3>3, <3>6, <3>7
    <3>. QED
      BY <2>1, <2>2, <3>4, <3>5, <3>8
  <2>. QED
    BY <2>3, <2>4
<1>4. CASE PurgePluginUiGrants
  BY <1>4 DEF PurgePluginUiGrants
<1>5. CASE HomeChanges
  BY <1>5 DEF HomeChanges
<1>6. CASE Tick
  BY <1>6 DEF Tick
<1>7. CASE UNCHANGED <<now, home, grants, used, boots, opened>>
  BY <1>7
<1>8. ASSUME NEW p \in Pages, CallUiAnswered(p) \/ PageSent(p) PROVE UiInv'
  BY <1>7, <1>8 DEF CallUiAnswered, PageSent
<1>9. ASSUME NEW n \in Grants, NEW p \in Pages, CallUi(p, n) \/ GetPluginUiAsset(p, n) PROVE UiInv'
  BY <1>7, <1>9 DEF CallUi, GetPluginUiAsset, CallPlugin
<1>10. CASE UNCHANGED uiVars
  BY <1>7, <1>10 DEF uiVars
<1>. QED
  BY <1>1, <1>2, <1>3, <1>4, <1>5, <1>6, <1>8, <1>9, <1>10 DEF UiNext


-----------------------------------------------------------------------------
(* The line of a token across a step *)

Parents == [t \in Tokens |-> rows[t].from]

\* A line is read off the parents.
LEMMA LineIs == \A s : Line(s) = Lineage(Parents, s)
  BY DEF Line, Parents

\* A token that was replaced is revoked.
LEMMA AncestorRevoked ==
  ASSUME AccountTypes, RowsDescend, NEW s \in Tokens, NEW x \in Line(s), x # s
  PROVE  x \in Tokens /\ rows[x].state = "revoked"
<1>1. Parents \in [Tokens -> Tokens \cup {0}]
  BY DEF AccountTypes, TokenRow, Parents
<1>2. PICK y \in Lineage(Parents, s) : Parents[y] = x
  BY <1>1, LineIs, LineageReplaced
<1>3. y \in Tokens /\ x \in Tokens
  BY <1>1, <1>2, LineIs DEF Lineage
<1>4. 0 \notin Tokens
  BY DEF Tokens
<1>5. rows[y].from = x /\ x # 0
  BY <1>2, <1>3, <1>4 DEF Parents
<1>. QED
  BY <1>3, <1>5 DEF RowsDescend

\* No token changes its parent, no row becomes active, and the requests that
\* have scanned are the same: families are as they were.
LEMMA FamiliesStay ==
  ASSUME ScansCover, ReuseEndsFamily,
         \A t \in Tokens : rows'[t].from = rows[t].from,
         \A t \in Tokens : rows'[t].state = "active" => rows[t].state = "active",
         told'.reused = told.reused, told'.spared = told.spared,
         \A r \in Requests : reqs'[r].pc = "scanned" =>
           /\ reqs[r].pc = "scanned" /\ reqs'[r].token = reqs[r].token
           /\ reqs'[r].seen = reqs[r].seen
  PROVE  ScansCover' /\ ReuseEndsFamily'
<1>1. Parents' = Parents
  BY DEF Parents
<1>2. \A s : Line(s)' = Line(s)
  BY <1>1 DEF Line, Parents
<1>3. ScansCover'
  BY <1>2 DEF ScansCover, Active
<1>4. ReuseEndsFamily'
  BY <1>2 DEF ReuseEndsFamily, Active
<1>. QED
  BY <1>3, <1>4

\* A token is issued, by a login or for the active token it replaces.
LEMMA FamiliesGrow ==
  ASSUME AccountTypes, AccountTypes', RowsDescend, Presented, ScansCover, ReuseEndsFamily,
         NEW n \in Tokens, ~Known(n), rows[n].from = 0,
         \A t \in Tokens : t # n => rows'[t].from = rows[t].from,
         \A t \in Tokens : t # n /\ rows'[t].state = "active" => rows[t].state = "active",
         rows'[n].from # 0 => rows[rows'[n].from].state = "active",
         told' = told,
         \A r \in Requests : reqs'[r].pc = "scanned" =>
           /\ reqs[r].pc = "scanned" /\ reqs'[r].token = reqs[r].token
           /\ reqs'[r].seen = reqs[r].seen
  PROVE  ScansCover' /\ ReuseEndsFamily'
<1>. DEFINE f == Parents
            g == Parents'
            p == rows'[n].from
<1>1. f \in [Tokens -> Tokens \cup {0}] /\ g \in [Tokens -> Tokens \cup {0}]
  BY DEF AccountTypes, TokenRow, Parents
<1>2. 0 \notin Tokens
  BY DEF Tokens
<1>3. \A x \in Tokens : f[x] # n
  BY <1>2 DEF Parents, RowsDescend, Known
<1>4. f[n] = 0 /\ g[n] = p /\ p # n /\ \A x \in Tokens : x # n => g[x] = f[x]
  <2>1. p # n
    BY <1>2 DEF Known
  <2>. QED
    BY <2>1 DEF Parents
<1>5. /\ \A s \in Tokens : s # n => Lineage(g, s) = Lineage(f, s) /\ n \notin Lineage(f, s)
      /\ p = 0 => Lineage(g, n) = {n}
      /\ p # 0 => Lineage(g, n) = {n} \cup Lineage(f, p)
  <2>. HIDE DEF f, g, p
  <2>. QED
    BY <1>1, <1>3, <1>4, LineageGrows
<1>6. /\ \A s \in Tokens : Line(s) = Lineage(f, s)
      /\ \A s \in Tokens : Line(s)' = Lineage(g, s)
  BY DEF Line, Parents
<1>7. p # 0 => p \in Tokens /\ Active(p)
  <2>1. p \in Tokens \cup {0}
    BY <1>1, <1>4
  <2>. QED
    BY <2>1 DEF Active
<1>. HIDE DEF f, g, p
<1>8. /\ \A s \in Tokens : s # n => Line(s)' = Line(s)
      /\ p = 0 => Line(n)' = {n}
      /\ p # 0 => Line(n)' = {n} \cup Line(p)
  BY <1>5, <1>6, <1>7
<1>9. \A t \in told.reused : t # n
  BY DEF Presented
<1>10. \A r \in Requests : reqs[r].token # n
  BY <1>2 DEF Presented
<1>11. \A s \in Tokens : s # n /\ Active(s)' => Active(s)
  BY DEF Active
<1>12. ASSUME NEW r \in Requests, (reqs[r].pc = "scanned")', NEW s \in Tokens, Active(s)',
              (reqs[r].token \in Line(s))'
       PROVE  (Line(s) \cap reqs[r].seen # {})'
  <2>1. /\ reqs[r].pc = "scanned" /\ reqs'[r].token = reqs[r].token
        /\ reqs'[r].seen = reqs[r].seen
    BY <1>12
  <2>2. CASE s # n
    BY <1>8, <1>11, <1>12, <2>1, <2>2 DEF ScansCover
  <2>3. CASE s = n
    <3>1. p # 0 /\ reqs[r].token \in Line(p)
      BY <1>8, <1>10, <1>12, <2>1, <2>3
    <3>2. Line(p) \cap reqs[r].seen # {}
      BY <1>7, <2>1, <3>1 DEF ScansCover
    <3>. QED
      BY <1>8, <2>1, <2>3, <3>1, <3>2
  <2>. QED
    BY <2>2, <2>3
<1>13. ASSUME NEW t \in told.reused, NEW s \in Tokens, Active(s)', t \in Line(s)'
       PROVE  Line(s)' \cap told.spared # {}
  <2>2. CASE s # n
    BY <1>8, <1>11, <1>13, <2>2 DEF ReuseEndsFamily
  <2>3. CASE s = n
    <3>1. p # 0 /\ t \in Line(p)
      BY <1>8, <1>9, <1>13, <2>3
    <3>2. Line(p) \cap told.spared # {}
      BY <1>7, <3>1 DEF ReuseEndsFamily
    <3>. QED
      BY <1>8, <2>3, <3>1, <3>2
  <2>. QED
    BY <2>2, <2>3
<1>14. ScansCover'
  BY <1>12 DEF ScansCover
<1>15. ReuseEndsFamily'
  BY <1>13 DEF ReuseEndsFamily
<1>. QED
  BY <1>14, <1>15

-----------------------------------------------------------------------------
(* The rotation *)

\* Token 0 is no token; nobody is request 0 or tab 0.
LEMMA Zeroes == 0 \notin Tokens /\ 0 \notin Requests /\ 0 \notin Tabs
  BY AccountsAssumption DEF Tokens

\* The types, one by one.
Plain ==
  /\ \A t \in Tokens : rows[t].from \in Tokens \cup {0} /\ rows[t].by \in Requests \cup {0}
  /\ \A r \in Requests : reqs[r].token \in Tokens \cup {0} /\ reqs[r].next \in Tokens \cup {0}
  /\ store \in Tokens \cup {0} /\ lock \in Tabs \cup {0}
  /\ \A b \in Tabs : tabs[b].req \in Requests \cup {0} /\ tabs[b].logout \in Tokens \cup {0}
  /\ told.reused \subseteq Tokens /\ told.excused \subseteq Tokens \cup {0}

\* They follow from the type invariant.
LEMMA PlainTypes == AccountTypes => Plain
  BY DEF AccountTypes, TokenRow, Refresh, Tab, History, Plain

\* A request at work presents a token that has a row.
LEMMA AtWorkToken ==
  ASSUME AccountTypes, Presented, NEW r \in Requests, reqs[r].pc \in AtWork
  PROVE  reqs[r].token \in Tokens /\ Known(reqs[r].token)
  BY DEF AccountTypes, Refresh, Presented

\* A request looks its token up, or finds it spent.
LEMMA MovesOn ==
  ASSUME AccountTypes, Core, NEW r \in Requests,
         UNCHANGED <<store, lock, tabs, told>>,
         \A t \in Tokens : /\ rows'[t].state = rows[t].state /\ rows'[t].from = rows[t].from
                           /\ rows'[t].by = rows[t].by,
         \A s \in Requests : /\ reqs'[s].token = reqs[s].token /\ reqs'[s].next = reqs[s].next
                             /\ s # r => reqs'[s].pc = reqs[s].pc,
         reqs[r].pc \in {"find", "claim", "reuse"}, reqs'[r].pc \in {"expired", "claim", "reuse", "scanned"},
         reqs'[r].pc = "claim" => reqs[r].pc = "find",
         reqs'[r].pc \in {"reuse", "scanned"} =>
            reqs[r].pc = "reuse" \/ (reqs[r].pc = "claim" /\ ~Active(reqs[r].token))
  PROVE  Core'
<1>. USE DEF Core, AtWork
<1>0. reqs[r].token \in Tokens
  BY AtWorkToken
<1>0a. Plain
  BY PlainTypes
<1>1. RowsDescend'
  BY <1>0a DEF RowsDescend, Known, Plain
<1>2. LocksHeld'
  <2>1. ASSUME NEW t \in Tokens, rows'[t].by # 0
        PROVE  reqs'[rows'[t].by].pc = "claimed" /\ reqs'[rows'[t].by].token = t
    BY <1>0a, <2>1 DEF LocksHeld, Plain
  <2>2. ASSUME NEW s \in Requests, reqs'[s].pc = "claimed"
        PROVE  /\ rows'[reqs'[s].token].by = s /\ Active(reqs[s].token)'
               /\ reqs'[s].next # 0 /\ ~Known(reqs[s].next)'
    <3>1. reqs[s].pc = "claimed" /\ reqs[s].token \in Tokens /\ reqs[s].next \in Tokens
      BY <1>0a, <2>2 DEF LocksHeld, Plain, Presented
    <3>. QED
      BY <3>1 DEF LocksHeld, Known, Active
  <2>. QED
    BY <2>1, <2>2 DEF LocksHeld
<1>3. Presented'
  BY <1>0a DEF Presented, Known, Plain
<1>4. Successors'
  <2>1. \A s \in Requests : reqs'[s].next # 0 <=> reqs'[s].pc \in {"claimed", "ok"}
    BY DEF Successors
  <2>2. \A s, u \in Requests : reqs'[s].next # 0 /\ reqs'[s].next = reqs'[u].next => s = u
    BY DEF Successors
  <2>3. ASSUME NEW s \in Requests, reqs'[s].pc = "ok"
        PROVE  /\ Known(reqs[s].next)'
               /\ Active(reqs[s].next)' \/ reqs'[s].next \in told'.excused
               /\ store' # reqs'[s].next
               /\ \A u \in Requests : reqs'[u].token # reqs'[s].next
    <3>1. reqs[s].pc = "ok" /\ reqs[s].next \in Tokens
      BY <1>0a, <2>1, <2>3 DEF Plain
    <3>. QED
      BY <3>1 DEF Successors, Known, Active
  <2>. QED
    BY <2>1, <2>2, <2>3 DEF Successors
<1>5. OneSender'
  BY DEF OneSender
<1>6. Excuses'
  <2>1. \A s \in Requests : reqs'[s].pc \in AtWork <=> reqs[s].pc \in AtWork
    OBVIOUS
  <2>2. \A s \in Requests : reqs[s].pc \in AtWork => reqs[s].token \in Tokens
    BY AtWorkToken
  <2>. QED
    BY <1>0, <1>0a, <2>1, <2>2 DEF Excuses, Awaited, Active, Plain
<1>. QED
  BY <1>1, <1>2, <1>3, <1>4, <1>5, <1>6

\* A token past its expiry is revoked, and the request refused.
LEMMA ExpiredStep ==
  ASSUME AccountTypes, Core, NEW r \in Requests, NEW t \in Tokens, t = reqs[r].token,
         reqs[r].pc = "expired", rows[t].by = 0,
         UNCHANGED <<store, lock, tabs, told>>,
         \A s \in Tokens : /\ rows'[s].from = rows[s].from /\ rows'[s].by = rows[s].by
                           /\ s # t => rows'[s].state = rows[s].state,
         rows'[t].state = IF Active(t) THEN "revoked" ELSE rows[t].state,
         \A s \in Requests : /\ reqs'[s].token = reqs[s].token /\ reqs'[s].next = reqs[s].next
                             /\ s # r => reqs'[s].pc = reqs[s].pc,
         reqs'[r].pc = "refused"
  PROVE  Core'
<1>. USE DEF Core, AtWork
<1>0. Plain
  BY PlainTypes
<1>0a. \A s \in Requests : reqs[s].pc \in AtWork => reqs[s].token \in Tokens
  BY AtWorkToken
<1>0b. \A s \in Tokens : /\ rows'[s].state = "none" <=> rows[s].state = "none"
                         /\ rows[s].state = "revoked" => rows'[s].state = "revoked"
                         /\ s # t => (rows'[s].state = "active" <=> rows[s].state = "active")
  BY DEF Active
<1>1. RowsDescend'
  BY <1>0, <1>0b DEF RowsDescend, Known, Plain
<1>2. LocksHeld'
  <2>1. ASSUME NEW s \in Tokens, rows'[s].by # 0
        PROVE  reqs'[rows'[s].by].pc = "claimed" /\ reqs'[rows'[s].by].token = s
    BY <1>0, <2>1 DEF LocksHeld, Plain
  <2>2. ASSUME NEW s \in Requests, reqs'[s].pc = "claimed"
        PROVE  /\ rows'[reqs'[s].token].by = s /\ Active(reqs[s].token)'
               /\ reqs'[s].next # 0 /\ ~Known(reqs[s].next)'
    <3>1. s # r /\ reqs[s].pc = "claimed" /\ reqs[s].token \in Tokens /\ reqs[s].next \in Tokens
      BY <1>0, <1>0a, <2>2 DEF LocksHeld, Plain
    <3>2. reqs[s].token # t
      BY <3>1, Zeroes DEF LocksHeld
    <3>. QED
      BY <1>0b, <3>1, <3>2 DEF LocksHeld, Known, Active
  <2>. QED
    BY <2>1, <2>2 DEF LocksHeld
<1>3. Presented'
  BY <1>0, <1>0b DEF Presented, Known, Plain
<1>4. Successors'
  <2>1. \A s \in Requests : reqs'[s].next # 0 <=> reqs'[s].pc \in {"claimed", "ok"}
    BY DEF Successors
  <2>2. \A s, u \in Requests : reqs'[s].next # 0 /\ reqs'[s].next = reqs'[u].next => s = u
    BY DEF Successors
  <2>3. ASSUME NEW s \in Requests, reqs'[s].pc = "ok"
        PROVE  /\ Known(reqs[s].next)'
               /\ Active(reqs[s].next)' \/ reqs'[s].next \in told'.excused
               /\ store' # reqs'[s].next
               /\ \A u \in Requests : reqs'[u].token # reqs'[s].next
    <3>1. reqs[s].pc = "ok" /\ reqs[s].next \in Tokens
      BY <1>0, <2>1, <2>3 DEF Plain
    <3>2. reqs[s].next # t
      BY <3>1 DEF Successors
    <3>. QED
      BY <1>0b, <3>1, <3>2 DEF Successors, Known, Active
  <2>. QED
    BY <2>1, <2>2, <2>3 DEF Successors
<1>5. OneSender'
  BY DEF OneSender
<1>6. Excuses'
  <2>1. \A s \in Requests : reqs'[s].pc \in AtWork => reqs[s].pc \in AtWork /\ s # r
    OBVIOUS
  <2>2. ASSUME NEW s \in Requests, reqs'[s].pc \in {"find", "claim"}
        PROVE  Active(reqs[s].token)' \/ reqs'[s].token \in told'.excused
    BY <1>0a, <1>0b, <2>1, <2>2 DEF Excuses, Active
  <2>3. store' # 0 => \/ Active(store)' \/ store' \in told'.excused
                      \/ \E s \in Requests : /\ Awaited(s)' /\ reqs'[s].token = store'
                                             /\ reqs'[s].pc \in {"ok", "refused"}
    <3>1. CASE store = t
      BY <3>1 DEF Excuses, Awaited
    <3>2. CASE store # t
      <4>1. \A s \in Requests : reqs[s].pc \in {"ok", "refused"} => reqs'[s].pc = reqs[s].pc
        OBVIOUS
      <4>. QED
        BY <1>0, <1>0b, <3>2, <4>1 DEF Excuses, Awaited, Active, Plain
    <3>. QED
      BY <3>1, <3>2
  <2>4. \A s \in Requests : Awaited(s)' = Awaited(s)
    BY DEF Awaited
  <2>. QED
    BY <2>1, <2>2, <2>3, <2>4 DEF Excuses
<1>. QED
  BY <1>1, <1>2, <1>3, <1>4, <1>5, <1>6

\* Every non-empty set of naturals has a least element.
LEMMA LeastElement ==
  ASSUME NEW A \in SUBSET Nat, A # {}
  PROVE  \E x \in A : \A y \in A : x <= y
<1>. DEFINE R == {ss \in Nat \X Nat : ss[1] < ss[2]}
<1>1. IsWellFoundedOn(R, Nat)
  BY NatLessThanWellFounded DEF OpToRel
<1>2. PICK x \in A : \A y \in A : ~(<<y, x>> \in R)
  <2>. HIDE DEF R
  <2>. QED
    BY <1>1, WFMin
<1>3. ASSUME NEW y \in A PROVE x <= y
  <2>1. x \in Nat /\ y \in Nat
    OBVIOUS
  <2>2. <<y, x>> \in R <=> y < x
    BY <2>1
  <2>. QED
    BY <1>2, <2>1, <2>2
<1>. QED
  BY <1>3

\* An unused token: the least one, and no request has it as its successor.
LEMMA FreshIs ==
  ASSUME AccountTypes, Unused # {}
  PROVE  Fresh \in Tokens /\ ~Known(Fresh) /\ \A r \in Requests : reqs[r].next # Fresh
<1>1. Unused \in SUBSET Nat
  BY DEF Unused, Tokens
<1>2. PICK x \in Unused : \A y \in Unused : x <= y
  BY <1>1, LeastElement
<1>3. Fresh \in Unused
  BY <1>2 DEF Fresh
<1>. QED
  BY <1>3 DEF Unused, Known

\* A request claims the row of its token and draws a successor.
LEMMA ClaimStep ==
  ASSUME AccountTypes, Core, NEW r \in Requests, NEW t \in Tokens, t = reqs[r].token,
         reqs[r].pc = "claim", rows[t].by = 0, Active(t),
         NEW n \in Tokens, ~Known(n), \A s \in Requests : reqs[s].next # n,
         UNCHANGED <<store, lock, tabs, told>>,
         \A s \in Tokens : /\ rows'[s].state = rows[s].state /\ rows'[s].from = rows[s].from
                           /\ rows'[s].by = IF s = t THEN r ELSE rows[s].by,
         \A s \in Requests : /\ reqs'[s].token = reqs[s].token
                             /\ reqs'[s].next = IF s = r THEN n ELSE reqs[s].next
                             /\ reqs'[s].pc = IF s = r THEN "claimed" ELSE reqs[s].pc
  PROVE  Core'
<1>. USE DEF Core, AtWork
<1>0. Plain
  BY PlainTypes
<1>0a. \A s \in Requests : reqs[s].pc \in AtWork => reqs[s].token \in Tokens
  BY AtWorkToken
<1>1. RowsDescend'
  BY <1>0 DEF RowsDescend, Known, Plain
<1>2. LocksHeld'
  <2>1. ASSUME NEW s \in Tokens, rows'[s].by # 0
        PROVE  reqs'[rows'[s].by].pc = "claimed" /\ reqs'[rows'[s].by].token = s
    BY <1>0, <2>1 DEF LocksHeld, Plain
  <2>2. ASSUME NEW s \in Requests, reqs'[s].pc = "claimed"
        PROVE  /\ rows'[reqs'[s].token].by = s /\ Active(reqs[s].token)'
               /\ reqs'[s].next # 0 /\ ~Known(reqs[s].next)'
    <3>1. CASE s = r
      BY <3>1, Zeroes DEF Known, Active
    <3>2. CASE s # r
      <4>1. reqs[s].pc = "claimed" /\ reqs[s].token \in Tokens /\ reqs[s].next \in Tokens
        BY <1>0, <1>0a, <2>2, <3>2 DEF LocksHeld, Plain
      <4>2. reqs[s].token # t
        BY <4>1, Zeroes DEF LocksHeld
      <4>. QED
        BY <3>2, <4>1, <4>2 DEF LocksHeld, Known, Active
    <3>. QED
      BY <3>1, <3>2
  <2>. QED
    BY <2>1, <2>2 DEF LocksHeld
<1>3. Presented'
  BY <1>0 DEF Presented, Known, Plain
<1>4. Successors'
  <2>1. \A s \in Requests : reqs'[s].next # 0 <=> reqs'[s].pc \in {"claimed", "ok"}
    BY Zeroes DEF Successors
  <2>2. \A s, u \in Requests : reqs'[s].next # 0 /\ reqs'[s].next = reqs'[u].next => s = u
    BY DEF Successors
  <2>3. ASSUME NEW s \in Requests, reqs'[s].pc = "ok"
        PROVE  /\ Known(reqs[s].next)'
               /\ Active(reqs[s].next)' \/ reqs'[s].next \in told'.excused
               /\ store' # reqs'[s].next
               /\ \A u \in Requests : reqs'[u].token # reqs'[s].next
    <3>1. s # r /\ reqs[s].pc = "ok" /\ reqs[s].next \in Tokens
      BY <1>0, <2>1, <2>3 DEF Plain
    <3>. QED
      BY <3>1 DEF Successors, Known, Active
  <2>. QED
    BY <2>1, <2>2, <2>3 DEF Successors
<1>5. OneSender'
  BY DEF OneSender
<1>6. Excuses'
  <2>1. \A s \in Requests : /\ reqs'[s].pc \in AtWork <=> reqs[s].pc \in AtWork
                            /\ s # r => reqs'[s].pc = reqs[s].pc
    OBVIOUS
  <2>2. \A s \in Requests : Awaited(s)' = Awaited(s)
    BY DEF Awaited
  <2>3. \A s \in Tokens : Active(s)' = Active(s)
    BY DEF Active
  <2>. QED
    BY <1>0, <1>0a, <2>1, <2>2, <2>3 DEF Excuses, Plain
<1>. QED
  BY <1>1, <1>2, <1>3, <1>4, <1>5, <1>6

\* A rotation commits: its token is revoked and the successor is there.
LEMMA SuccessStep ==
  ASSUME AccountTypes, Core, NEW r \in Requests, NEW t \in Tokens, t = reqs[r].token,
         reqs[r].pc = "claimed", NEW n \in Tokens, n = reqs[r].next,
         UNCHANGED <<store, lock, tabs, told>>,
         \A s \in Tokens :
           /\ rows'[s].state = IF s = n THEN "active" ELSE IF s = t THEN "revoked" ELSE rows[s].state
           /\ rows'[s].from = IF s = n THEN t ELSE rows[s].from
           /\ rows'[s].by = IF s \in {n, t} THEN 0 ELSE rows[s].by,
         \A s \in Requests : /\ reqs'[s].token = reqs[s].token /\ reqs'[s].next = reqs[s].next
                             /\ reqs'[s].pc = IF s = r THEN "ok" ELSE reqs[s].pc
  PROVE  Core'
<1>. USE DEF Core, AtWork
<1>0. Plain
  BY PlainTypes
<1>0a. \A s \in Requests : reqs[s].pc \in AtWork => reqs[s].token \in Tokens
  BY AtWorkToken
<1>0b. rows[t].state = "active" /\ rows[n].state = "none" /\ rows[n].from = 0 /\ n # t
       /\ rows[t].by = r
  BY DEF LocksHeld, RowsDescend, Known, Active
<1>0c. \A s \in Tokens : /\ s # n => (rows'[s].state = "none" <=> rows[s].state = "none")
                         /\ rows[s].state = "revoked" => rows'[s].state = "revoked"
                         /\ s \notin {n, t} => rows'[s].state = rows[s].state
                         /\ Known(s) => Known(s)' /\ s # n
  BY <1>0b DEF Known
<1>1. RowsDescend'
  <2>1. ASSUME NEW s \in Tokens, rows'[s].from # 0
        PROVE  Known(s)' /\ rows'[rows'[s].from].state = "revoked"
    <3>1. CASE s = n
      BY <1>0b, <3>1 DEF Known
    <3>2. CASE s # n
      <4>1. rows'[s].from = rows[s].from /\ rows[s].from \in Tokens
        BY <1>0, <2>1, <3>2 DEF Plain
      <4>. QED
        BY <1>0c, <2>1, <3>2, <4>1 DEF RowsDescend
    <3>. QED
      BY <3>1, <3>2
  <2>2. \A s \in Tokens : rows[s].from # t
    BY <1>0b, Zeroes DEF RowsDescend
  <2>3. \A s, u \in Tokens : rows'[s].from # 0 /\ rows'[s].from = rows'[u].from => s = u
    BY <2>2 DEF RowsDescend
  <2>. QED
    BY <2>1, <2>3 DEF RowsDescend
<1>2. LocksHeld'
  <2>1. ASSUME NEW s \in Tokens, rows'[s].by # 0
        PROVE  reqs'[rows'[s].by].pc = "claimed" /\ reqs'[rows'[s].by].token = s
    <3>1. s # t /\ rows'[s].by = rows[s].by /\ rows[s].by \in Requests
      BY <1>0, <2>1 DEF Plain
    <3>2. rows[s].by # r
      BY <3>1, Zeroes DEF LocksHeld
    <3>. QED
      BY <3>1, <3>2, Zeroes DEF LocksHeld
  <2>2. ASSUME NEW s \in Requests, reqs'[s].pc = "claimed"
        PROVE  /\ rows'[reqs'[s].token].by = s /\ Active(reqs[s].token)'
               /\ reqs'[s].next # 0 /\ ~Known(reqs[s].next)'
    <3>1. /\ s # r /\ reqs[s].pc = "claimed" /\ reqs[s].token \in Tokens
          /\ reqs[s].next \in Tokens
      BY <1>0, <1>0a, <2>2 DEF LocksHeld, Plain
    <3>2. reqs[s].token # t /\ reqs[s].token # n
      BY <1>0b, <3>1 DEF LocksHeld, Active
    <3>3. reqs[s].next # n
      BY <3>1, Zeroes DEF Successors
    <3>. QED
      BY <1>0c, <3>1, <3>2, <3>3 DEF LocksHeld, Known, Active
  <2>. QED
    BY <2>1, <2>2 DEF LocksHeld
<1>3. Presented'
  BY <1>0, <1>0c DEF Presented, Plain
<1>4. Successors'
  <2>1. \A s \in Requests : reqs'[s].next # 0 <=> reqs'[s].pc \in {"claimed", "ok"}
    BY DEF Successors
  <2>2. \A s, u \in Requests : reqs'[s].next # 0 /\ reqs'[s].next = reqs'[u].next => s = u
    BY DEF Successors
  <2>3. ASSUME NEW s \in Requests, reqs'[s].pc = "ok"
        PROVE  /\ Known(reqs[s].next)'
               /\ Active(reqs[s].next)' \/ reqs'[s].next \in told'.excused
               /\ store' # reqs'[s].next
               /\ \A u \in Requests : reqs'[u].token # reqs'[s].next
    <3>1. CASE s = r
      <4>1. store # n /\ \A u \in Requests : reqs[u].token # n
        BY <1>0b, Zeroes DEF Presented, Known
      <4>. QED
        BY <3>1, <4>1 DEF Known, Active
    <3>2. CASE s # r
      <4>1. reqs[s].pc = "ok" /\ reqs[s].next \in Tokens
        BY <1>0, <2>1, <2>3, <3>2 DEF Plain
      <4>2. reqs[s].next # t /\ reqs[s].next # n
        BY <1>0b, <4>1 DEF Successors, Known
      <4>. QED
        BY <1>0c, <4>1, <4>2 DEF Successors, Known, Active
    <3>. QED
      BY <3>1, <3>2
  <2>. QED
    BY <2>1, <2>2, <2>3 DEF Successors
<1>5. OneSender'
  BY DEF OneSender
<1>6. Excuses'
  <2>1. \A s \in Requests : reqs'[s].pc \in AtWork => reqs[s].pc \in AtWork /\ s # r
    OBVIOUS
  <2>2. ASSUME NEW s \in Requests, reqs'[s].pc \in {"find", "claim"}
        PROVE  Active(reqs[s].token)' \/ reqs'[s].token \in told'.excused
    <3>1. CASE reqs[s].token = t
      BY <2>1, <2>2, <3>1 DEF Excuses
    <3>2. CASE reqs[s].token # t
      <4>1. reqs[s].token \in Tokens /\ reqs[s].token # n
        BY <1>0a, <1>0b, <2>1, <2>2, Zeroes DEF Presented, Known
      <4>. QED
        BY <1>0c, <2>1, <2>2, <3>2, <4>1 DEF Excuses, Active
    <3>. QED
      BY <3>1, <3>2
  <2>3. store' # 0 => \/ Active(store)' \/ store' \in told'.excused
                      \/ \E s \in Requests : /\ Awaited(s)' /\ reqs'[s].token = store'
                                             /\ reqs'[s].pc \in {"ok", "refused"}
    <3>1. CASE store = t
      BY <3>1 DEF Excuses, Awaited
    <3>2. CASE store # t
      <4>1. \A s \in Requests : reqs[s].pc \in {"ok", "refused"} => reqs'[s].pc = reqs[s].pc
        OBVIOUS
      <4>2. store # 0 => store \in Tokens /\ store # n
        BY <1>0, <1>0b DEF Presented, Known, Plain
      <4>. QED
        BY <1>0c, <3>2, <4>1, <4>2 DEF Excuses, Awaited, Active
    <3>. QED
      BY <3>1, <3>2
  <2>4. \A s \in Requests : Awaited(s)' = Awaited(s)
    BY DEF Awaited
  <2>. QED
    BY <2>1, <2>2, <2>3, <2>4 DEF Excuses
<1>. QED
  BY <1>1, <1>2, <1>3, <1>4, <1>5, <1>6

\* The sessions a request has seen are revoked, and it is refused.
LEMMA ReuseStep ==
  ASSUME AccountTypes, Core, NEW r \in Requests, NEW S \in SUBSET Tokens,
         reqs[r].pc = "scanned", \A s \in S : rows[s].by = 0,
         UNCHANGED <<store, lock, tabs>>,
         \A s \in Tokens : /\ rows'[s].from = rows[s].from /\ rows'[s].by = rows[s].by
                           /\ rows'[s].state = IF s \in S /\ Active(s) THEN "revoked" ELSE rows[s].state,
         \A s \in Requests : /\ reqs'[s].token = reqs[s].token /\ reqs'[s].next = reqs[s].next
                             /\ reqs'[s].pc = IF s = r THEN "refused" ELSE reqs[s].pc,
         told'.reused = told.reused \cup {reqs[r].token}, told'.excused = told.excused \cup S
  PROVE  Core'
<1>. USE DEF Core, AtWork
<1>0. Plain
  BY PlainTypes
<1>0a. \A s \in Requests : reqs[s].pc \in AtWork => reqs[s].token \in Tokens
  BY AtWorkToken
<1>0b. \A s \in Tokens : /\ rows'[s].state = "none" <=> rows[s].state = "none"
                         /\ rows[s].state = "revoked" => rows'[s].state = "revoked"
                         /\ rows[s].state = "active" => rows'[s].state = "active" \/ s \in told'.excused
                         /\ rows[s].by # 0 => rows'[s].state = rows[s].state
  BY DEF Active
<1>1. RowsDescend'
  BY <1>0, <1>0b DEF RowsDescend, Known, Plain
<1>2. LocksHeld'
  <2>1. ASSUME NEW s \in Tokens, rows'[s].by # 0
        PROVE  reqs'[rows'[s].by].pc = "claimed" /\ reqs'[rows'[s].by].token = s
    BY <1>0, <2>1 DEF LocksHeld, Plain
  <2>2. ASSUME NEW s \in Requests, reqs'[s].pc = "claimed"
        PROVE  /\ rows'[reqs'[s].token].by = s /\ Active(reqs[s].token)'
               /\ reqs'[s].next # 0 /\ ~Known(reqs[s].next)'
    <3>1. s # r /\ reqs[s].pc = "claimed" /\ reqs[s].token \in Tokens /\ reqs[s].next \in Tokens
      BY <1>0, <1>0a, <2>2 DEF LocksHeld, Plain
    <3>2. rows[reqs[s].token].by # 0
      BY <3>1, Zeroes DEF LocksHeld
    <3>. QED
      BY <1>0b, <3>1, <3>2 DEF LocksHeld, Known, Active
  <2>. QED
    BY <2>1, <2>2 DEF LocksHeld
<1>3. Presented'
  BY <1>0, <1>0a, <1>0b DEF Presented, Known, Plain
<1>4. Successors'
  <2>1. \A s \in Requests : reqs'[s].next # 0 <=> reqs'[s].pc \in {"claimed", "ok"}
    BY DEF Successors
  <2>2. \A s, u \in Requests : reqs'[s].next # 0 /\ reqs'[s].next = reqs'[u].next => s = u
    BY DEF Successors
  <2>3. ASSUME NEW s \in Requests, reqs'[s].pc = "ok"
        PROVE  /\ Known(reqs[s].next)'
               /\ Active(reqs[s].next)' \/ reqs'[s].next \in told'.excused
               /\ store' # reqs'[s].next
               /\ \A u \in Requests : reqs'[u].token # reqs'[s].next
    <3>1. reqs[s].pc = "ok" /\ reqs[s].next \in Tokens
      BY <1>0, <2>1, <2>3 DEF Plain
    <3>. QED
      BY <1>0b, <3>1 DEF Successors, Known, Active
  <2>. QED
    BY <2>1, <2>2, <2>3 DEF Successors
<1>5. OneSender'
  BY DEF OneSender
<1>6. Excuses'
  <2>1. \A s \in Requests : reqs'[s].pc \in AtWork => reqs[s].pc \in AtWork /\ s # r
    OBVIOUS
  <2>2. ASSUME NEW s \in Requests, reqs'[s].pc \in {"find", "claim"}
        PROVE  Active(reqs[s].token)' \/ reqs'[s].token \in told'.excused
    BY <1>0a, <1>0b, <2>1, <2>2 DEF Excuses, Active
  <2>3. store' # 0 => \/ Active(store)' \/ store' \in told'.excused
                      \/ \E s \in Requests : /\ Awaited(s)' /\ reqs'[s].token = store'
                                             /\ reqs'[s].pc \in {"ok", "refused"}
    <3>1. \A s \in Requests : reqs[s].pc \in {"ok", "refused"} => reqs'[s].pc = reqs[s].pc
      OBVIOUS
    <3>. QED
      BY <1>0, <1>0b, <3>1 DEF Excuses, Awaited, Active, Plain
  <2>4. \A s \in Requests : Awaited(s)' = Awaited(s)
    BY DEF Awaited
  <2>. QED
    BY <2>1, <2>2, <2>3, <2>4 DEF Excuses
<1>. QED
  BY <1>1, <1>2, <1>3, <1>4, <1>5, <1>6

\* A request is forgotten: rolled back, or answered with nobody listening.
\* The row it had claimed is let go.
LEMMA ForgetStep ==
  ASSUME AccountTypes, Core, NEW r \in Requests,
         UNCHANGED <<store, lock, tabs>>,
         told'.reused = told.reused, told'.excused = told.excused,
         \A s \in Tokens :
           /\ rows'[s].from = rows[s].from /\ rows'[s].state = rows[s].state
           /\ rows'[s].by = IF reqs[r].pc = "claimed" /\ s = reqs[r].token THEN 0 ELSE rows[s].by,
         \A s \in Requests : s # r => reqs'[s] = reqs[s],
         reqs'[r].pc \in {"refused", "idle"}, reqs'[r].token = 0, reqs'[r].next = 0,
         ~Awaited(r) \/ reqs[r].pc \in AtWork
  PROVE  Core'
<1>. USE DEF Core, AtWork
<1>0. Plain
  BY PlainTypes
<1>0a. \A s \in Requests : reqs[s].pc \in AtWork => reqs[s].token \in Tokens
  BY AtWorkToken
<1>1. RowsDescend'
  BY <1>0 DEF RowsDescend, Known, Plain
<1>2. LocksHeld'
  <2>1. ASSUME NEW s \in Tokens, rows'[s].by # 0
        PROVE  reqs'[rows'[s].by].pc = "claimed" /\ reqs'[rows'[s].by].token = s
    <3>1. rows'[s].by = rows[s].by /\ rows[s].by \in Requests
      BY <1>0, <2>1 DEF Plain
    <3>2. rows[s].by # r
      BY <2>1, <3>1 DEF LocksHeld
    <3>. QED
      BY <2>1, <3>1, <3>2 DEF LocksHeld
  <2>2. ASSUME NEW s \in Requests, reqs'[s].pc = "claimed"
        PROVE  /\ rows'[reqs'[s].token].by = s /\ Active(reqs[s].token)'
               /\ reqs'[s].next # 0 /\ ~Known(reqs[s].next)'
    <3>1. /\ s # r /\ reqs'[s] = reqs[s] /\ reqs[s].pc = "claimed" /\ reqs[s].token \in Tokens
          /\ reqs[s].next \in Tokens
      BY <1>0, <1>0a, <2>2 DEF LocksHeld, Plain
    <3>2. reqs[r].pc = "claimed" => reqs[s].token # reqs[r].token
      BY <3>1 DEF LocksHeld
    <3>. QED
      BY <3>1, <3>2 DEF LocksHeld, Known, Active
  <2>. QED
    BY <2>1, <2>2 DEF LocksHeld
<1>3. Presented'
  BY <1>0, <1>0a DEF Presented, Known, Plain
<1>4. Successors'
  <2>1. \A s \in Requests : reqs'[s].next # 0 <=> reqs'[s].pc \in {"claimed", "ok"}
    BY DEF Successors
  <2>2. \A s, u \in Requests : reqs'[s].next # 0 /\ reqs'[s].next = reqs'[u].next => s = u
    BY DEF Successors
  <2>3. ASSUME NEW s \in Requests, reqs'[s].pc = "ok"
        PROVE  /\ Known(reqs[s].next)'
               /\ Active(reqs[s].next)' \/ reqs'[s].next \in told'.excused
               /\ store' # reqs'[s].next
               /\ \A u \in Requests : reqs'[u].token # reqs'[s].next
    <3>1. s # r /\ reqs'[s] = reqs[s] /\ reqs[s].pc = "ok" /\ reqs[s].next \in Tokens
      BY <1>0, <2>1, <2>3 DEF Plain
    <3>. QED
      BY <3>1, Zeroes DEF Successors, Known, Active
  <2>. QED
    BY <2>1, <2>2, <2>3 DEF Successors
<1>5. OneSender'
  BY DEF OneSender
<1>6. Excuses'
  <2>1. \A s \in Requests : reqs'[s].pc \in AtWork => reqs[s].pc \in AtWork /\ s # r /\ reqs'[s] = reqs[s]
    OBVIOUS
  <2>2. ASSUME NEW s \in Requests, reqs'[s].pc \in {"find", "claim"}
        PROVE  Active(reqs[s].token)' \/ reqs'[s].token \in told'.excused
    BY <1>0a, <2>1, <2>2 DEF Excuses, Active
  <2>3. store' # 0 => \/ Active(store)' \/ store' \in told'.excused
                      \/ \E s \in Requests : /\ Awaited(s)' /\ reqs'[s].token = store'
                                             /\ reqs'[s].pc \in {"ok", "refused"}
    <3>1. CASE Active(store) \/ store \in told.excused
      BY <1>0, <3>1 DEF Active, Plain
    <3>2. ASSUME NEW s \in Requests, Awaited(s), reqs[s].token = store, reqs[s].pc \in {"ok", "refused"}
          PROVE  /\ Awaited(s)' /\ reqs'[s].token = store' /\ reqs'[s].pc \in {"ok", "refused"}
      <4>1. s # r
        BY <3>2
      <4>. QED
        BY <3>2, <4>1 DEF Awaited
    <3>. QED
      BY <3>1, <3>2 DEF Excuses
  <2>4. \A s \in Requests : Awaited(s)' = Awaited(s)
    BY DEF Awaited
  <2>. QED
    BY <2>1, <2>2, <2>3, <2>4 DEF Excuses
<1>. QED
  BY <1>1, <1>2, <1>3, <1>4, <1>5, <1>6

-----------------------------------------------------------------------------
(* The tabs *)

\* A tab goes on without touching a request; the stored token may be removed.
LEMMA TabStep ==
  ASSUME AccountTypes, Core, UNCHANGED <<rows, reqs, lock>>,
         told'.reused = told.reused, told'.excused = told.excused,
         store' \in {store, 0},
         \A b \in Tabs : /\ tabs'[b].req = tabs[b].req
                         /\ tabs'[b].refresh = "sent" <=> tabs[b].refresh = "sent"
                         /\ tabs'[b].logout \in {tabs[b].logout, store, 0}
  PROVE  Core'
<1>. USE DEF Core, AtWork
<1>0. Plain
  BY PlainTypes
<1>1. RowsDescend'
  BY DEF RowsDescend, Known
<1>2. LocksHeld'
  BY DEF LocksHeld, Known, Active
<1>3. Presented'
  BY DEF Presented, Known
<1>4. Successors'
  <2>1. \A s \in Requests : reqs[s].pc = "ok" => reqs[s].next # 0
    BY DEF Successors
  <2>. QED
    BY <2>1 DEF Successors, Known, Active
<1>5. OneSender'
  BY DEF OneSender
<1>6. Excuses'
  <2>1. \A s \in Requests : Awaited(s)' = Awaited(s)
    BY <1>0, Zeroes DEF Awaited, Plain
  <2>2. \A s \in Requests : reqs[s].pc \in AtWork => reqs[s].token # 0
    BY DEF Presented
  <2>3. \A s : Active(s)' = Active(s)
    BY DEF Active
  <2>. QED
    BY <2>1, <2>2, <2>3 DEF Excuses
<1>. QED
  BY <1>1, <1>2, <1>3, <1>4, <1>5, <1>6

\* A registration or a login: a token with no ancestor is issued and stored.
LEMMA SignInStep ==
  ASSUME AccountTypes, Core, UNCHANGED <<reqs, lock, told>>,
         NEW n \in Tokens, ~Known(n), \A r \in Requests : reqs[r].next # n,
         store' = n,
         \A s \in Tokens : IF s = n
                           THEN rows'[s].state = "active" /\ rows'[s].from = 0 /\ rows'[s].by = 0
                           ELSE rows'[s] = rows[s],
         \A b \in Tabs : /\ tabs'[b].req = tabs[b].req
                         /\ tabs'[b].refresh = tabs[b].refresh
                         /\ tabs'[b].logout = tabs[b].logout
  PROVE  Core'
<1>. USE DEF Core, AtWork
<1>0. Plain
  BY PlainTypes
<1>0a. \A s \in Requests : reqs[s].pc \in AtWork => reqs[s].token \in Tokens
  BY AtWorkToken
<1>0b. \A r \in Requests : reqs[r].token # n
  BY Zeroes DEF Presented
<1>0c. \A s \in Tokens : Known(s) => s # n /\ rows'[s] = rows[s] /\ Known(s)'
  BY DEF Known
<1>1. RowsDescend'
  <2>1. \A s \in Tokens : rows'[s].from # 0 => /\ rows[s].from = rows'[s].from /\ s # n
                                               /\ rows[s].from \in Tokens
    BY <1>0 DEF Plain
  <2>2. \A s \in Tokens : rows[s].state = "revoked" => rows'[s].state = "revoked"
    BY DEF Known
  <2>. QED
    BY <1>0c, <2>1, <2>2 DEF RowsDescend
<1>2. LocksHeld'
  <2>1. ASSUME NEW s \in Tokens, rows'[s].by # 0
        PROVE  reqs'[rows'[s].by].pc = "claimed" /\ reqs'[rows'[s].by].token = s
    BY <2>1 DEF LocksHeld
  <2>2. ASSUME NEW s \in Requests, reqs'[s].pc = "claimed"
        PROVE  /\ rows'[reqs'[s].token].by = s /\ Active(reqs[s].token)'
               /\ reqs'[s].next # 0 /\ ~Known(reqs[s].next)'
    <3>1. reqs[s].pc = "claimed" /\ reqs[s].token \in Tokens /\ reqs[s].next \in Tokens
      BY <1>0, <1>0a, <2>2 DEF LocksHeld, Plain
    <3>. QED
      BY <1>0b, <3>1 DEF LocksHeld, Known, Active
  <2>. QED
    BY <2>1, <2>2 DEF LocksHeld
<1>3. Presented'
  <2>1. Known(n)'
    BY DEF Known
  <2>. QED
    BY <1>0, <1>0c, <2>1 DEF Presented, Plain
<1>4. Successors'
  <2>3. ASSUME NEW s \in Requests, reqs'[s].pc = "ok"
        PROVE  /\ Known(reqs[s].next)'
               /\ Active(reqs[s].next)' \/ reqs'[s].next \in told'.excused
               /\ store' # reqs'[s].next
               /\ \A u \in Requests : reqs'[u].token # reqs'[s].next
    <3>1. reqs[s].pc = "ok" /\ reqs[s].next \in Tokens
      BY <1>0, <2>3 DEF Plain, Successors
    <3>. QED
      BY <3>1 DEF Successors, Known, Active
  <2>. QED
    BY <2>3 DEF Successors
<1>5. OneSender'
  BY DEF OneSender
<1>6. Excuses'
  <2>1. ASSUME NEW s \in Requests, reqs'[s].pc \in {"find", "claim"}
        PROVE  Active(reqs[s].token)' \/ reqs'[s].token \in told'.excused
    <3>1. reqs[s].token \in Tokens /\ reqs[s].token # n
      BY <1>0a, <1>0b, <2>1
    <3>. QED
      BY <2>1, <3>1 DEF Excuses, Active
  <2>2. Active(store)'
    BY DEF Active
  <2>. QED
    BY <1>0b, <2>1, <2>2 DEF Excuses
<1>. QED
  BY <1>1, <1>2, <1>3, <1>4, <1>5, <1>6

\* Under the lock a tab sends the stored token.
LEMMA SendStep ==
  ASSUME AccountTypes, Core, UNCHANGED <<rows, store, told>>,
         NEW b \in Tabs, NEW r \in Requests, lock = 0, store # 0, lock' = b,
         reqs[r].pc = "idle",
         reqs'[r].pc = "find", reqs'[r].token = store, reqs'[r].next = 0,
         \A s \in Requests : s # r => reqs'[s] = reqs[s],
         \A c \in Tabs : c # b => tabs'[c] = tabs[c],
         tabs'[b].req = r, tabs'[b].refresh = "sent", tabs'[b].logout = tabs[b].logout
  PROVE  Core'
<1>. USE DEF Core, AtWork
<1>0. Plain
  BY PlainTypes
<1>0a. \A s \in Requests : ~Awaited(s)
  BY DEF Awaited
<1>0b. r # 0 /\ b # 0 /\ store \in Tokens
  BY <1>0, Zeroes DEF Plain
<1>0c. Active(store) \/ store \in told.excused
  BY <1>0a DEF Excuses
<1>1. RowsDescend'
  BY DEF RowsDescend, Known
<1>2. LocksHeld'
  <2>1. ASSUME NEW s \in Tokens, rows'[s].by # 0
        PROVE  reqs'[rows'[s].by].pc = "claimed" /\ reqs'[rows'[s].by].token = s
    <3>1. rows[s].by \in Requests /\ rows[s].by # r
      BY <1>0, <2>1 DEF LocksHeld, Plain
    <3>. QED
      BY <2>1, <3>1 DEF LocksHeld
  <2>2. ASSUME NEW s \in Requests, reqs'[s].pc = "claimed"
        PROVE  /\ rows'[reqs'[s].token].by = s /\ Active(reqs[s].token)'
               /\ reqs'[s].next # 0 /\ ~Known(reqs[s].next)'
    <3>1. s # r
      BY <2>2
    <3>. QED
      BY <2>2, <3>1 DEF LocksHeld, Known, Active
  <2>. QED
    BY <2>1, <2>2 DEF LocksHeld
<1>3. Presented'
  <2>1. \A c \in Tabs : tabs'[c].logout = tabs[c].logout
    OBVIOUS
  <2>2. \A s : Known(s)' = Known(s)
    BY DEF Known
  <2>. QED
    BY <2>1, <2>2 DEF Presented
<1>4. Successors'
  <2>1. reqs[r].next = 0
    BY DEF Successors
  <2>2. \A s \in Requests : reqs'[s].next # 0 <=> reqs'[s].pc \in {"claimed", "ok"}
    BY DEF Successors
  <2>3. \A s \in Requests : reqs'[s].next = reqs[s].next
    BY <2>1
  <2>4. \A s, u \in Requests : reqs'[s].next # 0 /\ reqs'[s].next = reqs'[u].next => s = u
    BY <2>3 DEF Successors
  <2>5. ASSUME NEW s \in Requests, reqs'[s].pc = "ok"
        PROVE  /\ Known(reqs[s].next)'
               /\ Active(reqs[s].next)' \/ reqs'[s].next \in told'.excused
               /\ store' # reqs'[s].next
               /\ \A u \in Requests : reqs'[u].token # reqs'[s].next
    <3>1. s # r /\ reqs[s].pc = "ok" /\ reqs'[s] = reqs[s]
      BY <2>5
    <3>. QED
      BY <3>1 DEF Successors, Known, Active
  <2>. QED
    BY <2>2, <2>4, <2>5 DEF Successors
<1>5. OneSender'
  <2>1. \A c \in Tabs : c # 0 /\ lock # c
    BY Zeroes
  <2>2. \A c \in Tabs : tabs[c].req = 0 /\ tabs[c].refresh # "sent"
    BY <2>1 DEF OneSender
  <2>3. \A c \in Tabs : c # b => tabs'[c].req = 0 /\ tabs'[c].refresh # "sent" /\ lock' # c
    BY <2>2
  <2>. QED
    BY <1>0b, <2>3 DEF OneSender
<1>6. Excuses'
  <2>1. Awaited(r)'
    BY <1>0b DEF Awaited
  <2>2. ASSUME NEW s \in Requests, s # r, reqs[s].pc \in AtWork, reqs[s].token = store
        PROVE  store \in told.excused
    BY <1>0a, <2>2 DEF Excuses
  <2>3. \A s : Active(s)' = Active(s)
    BY DEF Active
  <2>4. ASSUME NEW s \in Requests, NEW u \in Requests, s # u,
               reqs'[s].pc \in AtWork, reqs'[u].pc \in AtWork, reqs'[s].token = reqs'[u].token
        PROVE  reqs'[s].token \in told'.excused
    BY <2>2, <2>4 DEF Excuses
  <2>5. ASSUME NEW s \in Requests, reqs'[s].pc \in {"find", "claim"}
        PROVE  Active(reqs[s].token)' \/ reqs'[s].token \in told'.excused
    BY <1>0c, <2>3, <2>5 DEF Excuses
  <2>6. ASSUME NEW s \in Requests, reqs'[s].pc \in {"reuse", "scanned"}
        PROVE  reqs'[s].token \in told'.excused
    BY <2>6 DEF Excuses
  <2>7. ASSUME NEW s \in Requests, reqs'[s].pc \in AtWork, store' = reqs'[s].token
        PROVE  Awaited(s)' \/ store' \in told'.excused
    BY <2>1, <2>2, <2>7
  <2>. QED
    BY <1>0c, <2>3, <2>4, <2>5, <2>6, <2>7 DEF Excuses
<1>. QED
  BY <1>1, <1>2, <1>3, <1>4, <1>5, <1>6

\* The answer is read: the successor is stored, request and lock are let go.
LEMMA ReadStep ==
  ASSUME AccountTypes, Core, UNCHANGED <<rows, told>>,
         NEW b \in Tabs, NEW r \in Requests, tabs[b].req = r, lock' = 0,
         reqs[r].pc = "ok", store' = reqs[r].next,
         reqs'[r].pc = "idle", reqs'[r].token = 0, reqs'[r].next = 0,
         \A s \in Requests : s # r => reqs'[s] = reqs[s],
         \A c \in Tabs : c # b => tabs'[c] = tabs[c],
         tabs'[b].req = 0, tabs'[b].refresh = "no", tabs'[b].logout = tabs[b].logout
  PROVE  Core'
<1>. USE DEF Core, AtWork
<1>0. Plain
  BY PlainTypes
<1>0a. lock = b /\ r # 0 /\ b # 0
  BY Zeroes DEF OneSender
<1>0b. /\ store' \in Tokens /\ Known(store') /\ (Active(store') \/ store' \in told.excused)
       /\ \A s \in Requests : reqs[s].token # store'
  BY <1>0 DEF Successors, Plain
<1>1. RowsDescend'
  BY DEF RowsDescend, Known
<1>2. LocksHeld'
  <2>1. ASSUME NEW s \in Tokens, rows'[s].by # 0
        PROVE  reqs'[rows'[s].by].pc = "claimed" /\ reqs'[rows'[s].by].token = s
    <3>1. rows[s].by \in Requests /\ rows[s].by # r
      BY <1>0, <2>1 DEF LocksHeld, Plain
    <3>. QED
      BY <2>1, <3>1 DEF LocksHeld
  <2>2. ASSUME NEW s \in Requests, reqs'[s].pc = "claimed"
        PROVE  /\ rows'[reqs'[s].token].by = s /\ Active(reqs[s].token)'
               /\ reqs'[s].next # 0 /\ ~Known(reqs[s].next)'
    <3>1. s # r
      BY <2>2
    <3>. QED
      BY <2>2, <3>1 DEF LocksHeld, Known, Active
  <2>. QED
    BY <2>1, <2>2 DEF LocksHeld
<1>3. Presented'
  <2>1. \A c \in Tabs : tabs'[c].logout = tabs[c].logout
    OBVIOUS
  <2>2. \A s : Known(s)' = Known(s)
    BY DEF Known
  <2>3. Known(store)'
    BY <1>0b DEF Known
  <2>. QED
    BY <2>1, <2>2, <2>3 DEF Presented
<1>4. Successors'
  <2>1. \A s \in Requests : reqs'[s].next # 0 <=> reqs'[s].pc \in {"claimed", "ok"}
    BY DEF Successors
  <2>2. \A s, u \in Requests : reqs'[s].next # 0 /\ reqs'[s].next = reqs'[u].next => s = u
    BY DEF Successors
  <2>3. ASSUME NEW s \in Requests, reqs'[s].pc = "ok"
        PROVE  /\ Known(reqs[s].next)'
               /\ Active(reqs[s].next)' \/ reqs'[s].next \in told'.excused
               /\ store' # reqs'[s].next
               /\ \A u \in Requests : reqs'[u].token # reqs'[s].next
    <3>1. s # r /\ reqs[s].pc = "ok" /\ reqs'[s] = reqs[s] /\ reqs[s].next # 0
      BY <2>3 DEF Successors
    <3>2. reqs[s].next # reqs[r].next
      BY <3>1 DEF Successors
    <3>. QED
      BY <3>1, <3>2 DEF Successors, Known, Active
  <2>. QED
    BY <2>1, <2>2, <2>3 DEF Successors
<1>5. OneSender'
  <2>1. \A c \in Tabs : c # 0 /\ (c # b => lock # c)
    BY <1>0a, Zeroes
  <2>2. \A c \in Tabs : c # b => tabs[c].req = 0 /\ tabs[c].refresh # "sent"
    BY <2>1 DEF OneSender
  <2>3. \A c \in Tabs : tabs'[c].req = 0 /\ tabs'[c].refresh # "sent" /\ lock' # c
    BY <2>1, <2>2
  <2>. QED
    BY <2>3 DEF OneSender
<1>6. Excuses'
  <2>1. \A s \in Requests : reqs'[s].pc \in AtWork => s # r /\ reqs'[s] = reqs[s]
    OBVIOUS
  <2>2. \A s : Active(s)' = Active(s)
    BY DEF Active
  <2>3. Active(store)' \/ store' \in told'.excused
    BY <1>0b DEF Active
  <2>. QED
    BY <1>0b, <2>1, <2>2, <2>3 DEF Excuses
<1>. QED
  BY <1>1, <1>2, <1>3, <1>4, <1>5, <1>6

\* A refresh fails: the session ends and the lock is let go; the request may
\* still be under way.
LEMMA FailStep ==
  ASSUME AccountTypes, Core, UNCHANGED rows,
         told'.reused = told.reused, told'.excused = told.excused,
         NEW b \in Tabs, NEW r \in Requests, tabs[b].req = r, lock' = 0, store' = 0,
         \/ reqs[r].pc = "refused" /\ reqs'[r].pc = "idle" /\ reqs'[r].token = 0 /\ reqs'[r].next = 0
         \/ reqs'[r] = reqs[r],
         \A s \in Requests : s # r => reqs'[s] = reqs[s],
         \A c \in Tabs : c # b => tabs'[c] = tabs[c],
         tabs'[b].req = 0, tabs'[b].refresh = "no", tabs'[b].logout = tabs[b].logout
  PROVE  Core'
<1>. USE DEF Core, AtWork
<1>0. Plain
  BY PlainTypes
<1>0a. lock = b /\ r # 0 /\ b # 0
  BY Zeroes DEF OneSender
<1>0b. \A s \in Requests : reqs'[s] = reqs[s] \/ (/\ reqs[s].pc = "refused" /\ reqs'[s].pc = "idle"
                                                  /\ reqs'[s].token = 0 /\ reqs'[s].next = 0)
  OBVIOUS
<1>1. RowsDescend'
  BY DEF RowsDescend, Known
<1>2. LocksHeld'
  <2>1. ASSUME NEW s \in Tokens, rows'[s].by # 0
        PROVE  reqs'[rows'[s].by].pc = "claimed" /\ reqs'[rows'[s].by].token = s
    <3>1. rows[s].by \in Requests /\ reqs[rows[s].by].pc = "claimed"
      BY <1>0, <2>1 DEF LocksHeld, Plain
    <3>. QED
      BY <1>0b, <2>1, <3>1 DEF LocksHeld
  <2>2. ASSUME NEW s \in Requests, reqs'[s].pc = "claimed"
        PROVE  /\ rows'[reqs'[s].token].by = s /\ Active(reqs[s].token)'
               /\ reqs'[s].next # 0 /\ ~Known(reqs[s].next)'
    <3>1. reqs'[s] = reqs[s]
      BY <1>0b, <2>2
    <3>. QED
      BY <2>2, <3>1 DEF LocksHeld, Known, Active
  <2>. QED
    BY <2>1, <2>2 DEF LocksHeld
<1>3. Presented'
  <2>1. \A c \in Tabs : tabs'[c].logout = tabs[c].logout
    OBVIOUS
  <2>2. \A s : Known(s)' = Known(s)
    BY DEF Known
  <2>. QED
    BY <1>0b, <2>1, <2>2 DEF Presented
<1>4. Successors'
  <2>1. \A s \in Requests : reqs'[s].next # 0 <=> reqs'[s].pc \in {"claimed", "ok"}
    BY <1>0b DEF Successors
  <2>2. \A s, u \in Requests : reqs'[s].next # 0 /\ reqs'[s].next = reqs'[u].next => s = u
    BY <1>0b DEF Successors
  <2>3. ASSUME NEW s \in Requests, reqs'[s].pc = "ok"
        PROVE  /\ Known(reqs[s].next)'
               /\ Active(reqs[s].next)' \/ reqs'[s].next \in told'.excused
               /\ store' # reqs'[s].next
               /\ \A u \in Requests : reqs'[u].token # reqs'[s].next
    <3>1. reqs[s].pc = "ok" /\ reqs'[s] = reqs[s] /\ reqs[s].next # 0
      BY <1>0b, <2>3 DEF Successors
    <3>. QED
      BY <1>0b, <3>1 DEF Successors, Known, Active
  <2>. QED
    BY <2>1, <2>2, <2>3 DEF Successors
<1>5. OneSender'
  <2>1. \A c \in Tabs : c # 0 /\ (c # b => lock # c)
    BY <1>0a, Zeroes
  <2>2. \A c \in Tabs : c # b => tabs[c].req = 0 /\ tabs[c].refresh # "sent"
    BY <2>1 DEF OneSender
  <2>3. \A c \in Tabs : tabs'[c].req = 0 /\ tabs'[c].refresh # "sent" /\ lock' # c
    BY <2>1, <2>2
  <2>. QED
    BY <2>3 DEF OneSender
<1>6. Excuses'
  <2>1. \A s \in Requests : reqs'[s].pc \in AtWork => reqs'[s] = reqs[s] /\ reqs[s].token # 0
    BY <1>0b DEF Presented
  <2>2. \A s : Active(s)' = Active(s)
    BY DEF Active
  <2>. QED
    BY <2>1, <2>2 DEF Excuses
<1>. QED
  BY <1>1, <1>2, <1>3, <1>4, <1>5, <1>6

\* A logout revokes its token, which excuses whoever still presents it.
LEMMA LogoutStep ==
  ASSUME AccountTypes, Core, UNCHANGED <<reqs, lock>>, NEW t \in Tokens, rows[t].by = 0,
         told'.reused = told.reused, told'.excused = told.excused \cup {t}, store' = 0,
         \A s \in Tokens : /\ rows'[s].from = rows[s].from /\ rows'[s].by = rows[s].by
                           /\ rows'[s].state = IF s = t /\ Active(s) THEN "revoked" ELSE rows[s].state,
         \A b \in Tabs : /\ tabs'[b].req = tabs[b].req
                         /\ tabs'[b].refresh = tabs[b].refresh
                         /\ tabs'[b].logout \in {tabs[b].logout, 0}
  PROVE  Core'
<1>. USE DEF Core, AtWork
<1>0. Plain
  BY PlainTypes
<1>0a. \A s \in Requests : reqs[s].pc \in AtWork => reqs[s].token \in Tokens
  BY AtWorkToken
<1>0b. \A s \in Tokens : /\ rows'[s].state = "none" <=> rows[s].state = "none"
                         /\ rows[s].state = "revoked" => rows'[s].state = "revoked"
                         /\ rows[s].state = "active" => rows'[s].state = "active" \/ s \in told'.excused
                         /\ rows[s].by # 0 => rows'[s].state = rows[s].state
  BY DEF Active
<1>1. RowsDescend'
  BY <1>0, <1>0b DEF RowsDescend, Known, Plain
<1>2. LocksHeld'
  <2>1. ASSUME NEW s \in Tokens, rows'[s].by # 0
        PROVE  reqs'[rows'[s].by].pc = "claimed" /\ reqs'[rows'[s].by].token = s
    BY <1>0, <2>1 DEF LocksHeld, Plain
  <2>2. ASSUME NEW s \in Requests, reqs'[s].pc = "claimed"
        PROVE  /\ rows'[reqs'[s].token].by = s /\ Active(reqs[s].token)'
               /\ reqs'[s].next # 0 /\ ~Known(reqs[s].next)'
    <3>1. reqs[s].pc = "claimed" /\ reqs[s].token \in Tokens /\ reqs[s].next \in Tokens
      BY <1>0, <1>0a, <2>2 DEF LocksHeld, Plain
    <3>2. rows[reqs[s].token].by # 0
      BY <3>1, Zeroes DEF LocksHeld
    <3>. QED
      BY <1>0b, <3>1, <3>2 DEF LocksHeld, Known, Active
  <2>. QED
    BY <2>1, <2>2 DEF LocksHeld
<1>3. Presented'
  BY <1>0, <1>0a, <1>0b DEF Presented, Known, Plain
<1>4. Successors'
  <2>3. ASSUME NEW s \in Requests, reqs'[s].pc = "ok"
        PROVE  /\ Known(reqs[s].next)'
               /\ Active(reqs[s].next)' \/ reqs'[s].next \in told'.excused
               /\ store' # reqs'[s].next
               /\ \A u \in Requests : reqs'[u].token # reqs'[s].next
    <3>1. reqs[s].pc = "ok" /\ reqs[s].next \in Tokens
      BY <1>0, <2>3 DEF Plain, Successors
    <3>. QED
      BY <1>0b, <3>1, Zeroes DEF Successors, Known, Active
  <2>. QED
    BY <2>3 DEF Successors
<1>5. OneSender'
  BY DEF OneSender
<1>6. Excuses'
  <2>1. ASSUME NEW s \in Requests, reqs'[s].pc \in {"find", "claim"}
        PROVE  Active(reqs[s].token)' \/ reqs'[s].token \in told'.excused
    BY <1>0a, <1>0b, <2>1 DEF Excuses, Active
  <2>2. \A s \in Requests : reqs[s].pc \in AtWork => reqs[s].token # 0
    BY DEF Presented
  <2>. QED
    BY <2>1, <2>2 DEF Excuses
<1>. QED
  BY <1>1, <1>2, <1>3, <1>4, <1>5, <1>6

\* A tab is reloaded: the token of the refresh it had sent is excused.
LEMMA ReloadStep ==
  ASSUME AccountTypes, Core, UNCHANGED <<rows, reqs, store>>, NEW b \in Tabs,
         told'.reused = told.reused,
         told'.excused = told.excused \cup (IF tabs[b].req = 0 THEN {} ELSE {reqs[tabs[b].req].token}),
         lock' = IF lock = b THEN 0 ELSE lock,
         \A c \in Tabs : c # b => tabs'[c] = tabs[c],
         tabs'[b].req = 0, tabs'[b].refresh = "no", tabs'[b].logout = 0
  PROVE  Core'
<1>. USE DEF Core, AtWork
<1>0. Plain
  BY PlainTypes
<1>0a. \A c \in Tabs : c # 0
  BY Zeroes
<1>1. RowsDescend'
  BY DEF RowsDescend, Known
<1>2. LocksHeld'
  BY DEF LocksHeld, Known, Active
<1>3. Presented'
  BY DEF Presented, Known
<1>4. Successors'
  BY DEF Successors, Known, Active
<1>5. OneSender'
  <2>1. ASSUME NEW c \in Tabs, c # b
        PROVE  /\ tabs'[c].req # 0 <=> lock' = c
               /\ tabs'[c].refresh # "sent" <=> tabs'[c].req = 0
    BY <1>0a, <2>1 DEF OneSender
  <2>2. lock' # b
    BY <1>0a
  <2>. QED
    BY <2>1, <2>2 DEF OneSender
<1>6. Excuses'
  <2>1. ASSUME NEW s \in Requests, Awaited(s) PROVE Awaited(s)' \/ reqs[s].token \in told'.excused
    <3>1. CASE lock = b
      <4>1. tabs[b].req = s /\ s # 0
        BY <2>1, <3>1, Zeroes DEF Awaited
      <4>. QED
        BY <4>1
    <3>2. CASE lock # b
      <4>1. lock \in Tabs /\ tabs'[lock] = tabs[lock] /\ lock' = lock
        BY <1>0, <2>1, <3>2 DEF Awaited, Plain
      <4>. QED
        BY <2>1, <4>1 DEF Awaited
    <3>. QED
      BY <3>1, <3>2
  <2>2. \A s : Active(s)' = Active(s)
    BY DEF Active
  <2>. QED
    BY <2>1, <2>2 DEF Excuses
<1>. QED
  BY <1>1, <1>2, <1>3, <1>4, <1>5, <1>6

-----------------------------------------------------------------------------
(* The steps of the accounts *)

\* No account, no token, no tab that has done anything.
LEMMA AccountInitInv == AccountsInit => AccountInv
<1>. SUFFICES ASSUME AccountsInit PROVE AccountInv
  OBVIOUS
<1>1. AccountTypes
  BY AccountsAssumption DEF AccountsInit, AccountTypes, NoRow, IdleRequest, LoadingTab,
     TokenRow, Refresh, Tab, History, RowStates, RequestStates, AtWork
<1>2. /\ \A t \in Tokens : rows[t].state = "none" /\ rows[t].from = 0 /\ rows[t].by = 0
      /\ \A r \in Requests : reqs[r].pc = "idle" /\ reqs[r].token = 0 /\ reqs[r].next = 0
      /\ \A b \in Tabs : tabs[b].req = 0 /\ tabs[b].refresh = "no" /\ tabs[b].logout = 0
      /\ store = 0 /\ lock = 0 /\ told.reused = {} /\ told.spared = {} /\ told.excused = {}
  BY DEF AccountsInit, NoRow, IdleRequest, LoadingTab
<1>3. Core
  <2>1. RowsDescend /\ LocksHeld /\ Presented /\ Successors
    BY <1>2 DEF RowsDescend, LocksHeld, Presented, Successors, AtWork
  <2>2. OneSender
    BY <1>2, Zeroes DEF OneSender
  <2>3. Excuses
    BY <1>2 DEF Excuses, AtWork
  <2>. QED
    BY <2>1, <2>2, <2>3 DEF Core
<1>4. ScansCover /\ ReuseEndsFamily /\ ReplayExplained
  BY <1>2 DEF ScansCover, ReuseEndsFamily, ReplayExplained
<1>. QED
  BY <1>1, <1>3, <1>4 DEF AccountInv

\* One more break is counted, and nothing else is noted.
LEMMA BreaksStep ==
  ASSUME told \in History, told.breaks < MaxBreaks, told' = [told EXCEPT !.breaks = @ + 1]
  PROVE  /\ told' \in History /\ told'.reused = told.reused
         /\ told'.excused = told.excused /\ told'.spared = told.spared
<1>1. told.breaks \in 0..MaxBreaks
  BY DEF History
<1>2. told.breaks + 1 \in 0..MaxBreaks
  BY <1>1, AccountsAssumption
<1>. QED
  BY <1>2 DEF History

\* The statements of a rotation.
LEMMA RotationInv ==
  ASSUME AccountInv, NEW r \in Requests,
         \/ RotateFind(r) \/ RotateExpired(r) \/ RotateClaim(r) \/ RotateSuccess(r)
         \/ RotateScan(r) \/ RotateReuse(r) \/ RotateAborted(r) \/ AnswerDropped(r)
  PROVE  AccountInv'
<1>. USE DEF AccountInv
<1>. DEFINE t == reqs[r].token
<1>0. reqs[r].pc \in AtWork => t \in Tokens /\ Known(t)
  BY AtWorkToken DEF Core
<1>a. /\ \A s \in Tokens : rows[s] \in TokenRow
      /\ \A s \in Requests : reqs[s] \in Refresh
      /\ DOMAIN rows = Tokens /\ DOMAIN reqs = Requests
      /\ told \in History
  BY DEF AccountTypes
<1>1. CASE RotateFind(r)
  <2>1. /\ t \in Tokens /\ reqs[r].pc = "find" /\ UNCHANGED <<store, lock, tabs, told>>
    BY <1>0, <1>1 DEF RotateFind, AtWork, serverOnly
  <2>2. PICK old \in BOOLEAN : /\ rows' = [rows EXCEPT ![t].old = old]
                               /\ reqs' = [reqs EXCEPT ![r].pc = IF old THEN "expired" ELSE "claim"]
    BY <1>1, <1>a, <2>1 DEF RotateFind, TokenRow
  <2>3. AccountTypes'
    <3>1. [rows[t] EXCEPT !.old = old] \in TokenRow
      BY <1>a, <2>1 DEF TokenRow
    <3>2. [reqs[r] EXCEPT !.pc = IF old THEN "expired" ELSE "claim"] \in Refresh
      BY <1>a DEF Refresh, RequestStates, AtWork
    <3>. QED
      BY <2>1, <2>2, <3>1, <3>2 DEF AccountTypes
  <2>4. \A s \in Tokens : /\ rows'[s].state = rows[s].state /\ rows'[s].from = rows[s].from
                          /\ rows'[s].by = rows[s].by
    BY <1>a, <2>1, <2>2 DEF TokenRow
  <2>5. /\ \A s \in Requests : /\ reqs'[s].token = reqs[s].token /\ reqs'[s].next = reqs[s].next
                               /\ reqs'[s].seen = reqs[s].seen
                               /\ s # r => reqs'[s].pc = reqs[s].pc
        /\ reqs'[r].pc \in {"expired", "claim"}
    BY <1>a, <2>2 DEF Refresh
  <2>6. Core'
    BY <2>1, <2>4, <2>5, MovesOn
  <2>7. ScansCover' /\ ReuseEndsFamily'
    BY <2>1, <2>4, <2>5, FamiliesStay
  <2>. QED
    BY <2>1, <2>3, <2>6, <2>7 DEF ReplayExplained
<1>2. CASE RotateExpired(r)
  <2>1. /\ t \in Tokens /\ reqs[r].pc = "expired" /\ UNCHANGED <<store, lock, tabs, told>>
        /\ rows[t].by = 0 /\ rows' = Revoke({t}) /\ reqs' = [reqs EXCEPT ![r].pc = "refused"]
    BY <1>0, <1>2 DEF RotateExpired, AtWork, serverOnly
  <2>2. \A s \in Tokens : rows'[s] = IF s = t /\ Active(s) THEN [rows[s] EXCEPT !.state = "revoked"]
                                     ELSE rows[s]
    BY <2>1 DEF Revoke
  <2>3. AccountTypes'
    <3>1. \A s \in Tokens : [rows[s] EXCEPT !.state = "revoked"] \in TokenRow
      BY <1>a DEF TokenRow, RowStates
    <3>2. rows' \in [Tokens -> TokenRow]
      BY <1>a, <2>1, <3>1 DEF Revoke
    <3>3. [reqs[r] EXCEPT !.pc = "refused"] \in Refresh
      BY <1>a DEF Refresh, RequestStates
    <3>. QED
      BY <2>1, <3>2, <3>3 DEF AccountTypes
  <2>4. /\ \A s \in Tokens : /\ rows'[s].from = rows[s].from /\ rows'[s].by = rows[s].by
                             /\ s # t => rows'[s].state = rows[s].state
        /\ rows'[t].state = IF Active(t) THEN "revoked" ELSE rows[t].state
        /\ \A s \in Tokens : rows'[s].state = "active" => rows[s].state = "active"
    BY <1>a, <2>1, <2>2 DEF Active, TokenRow
  <2>5. /\ \A s \in Requests : /\ reqs'[s].token = reqs[s].token /\ reqs'[s].next = reqs[s].next
                               /\ reqs'[s].seen = reqs[s].seen
                               /\ s # r => reqs'[s].pc = reqs[s].pc
        /\ reqs'[r].pc = "refused"
    BY <1>a, <2>1 DEF Refresh
  <2>6. Core'
    BY <2>1, <2>4, <2>5, ExpiredStep
  <2>7. ScansCover' /\ ReuseEndsFamily'
    BY <2>1, <2>4, <2>5, FamiliesStay
  <2>. QED
    BY <2>1, <2>3, <2>6, <2>7 DEF ReplayExplained
<1>3. CASE RotateClaim(r)
  <2>1. /\ t \in Tokens /\ reqs[r].pc = "claim" /\ rows[t].by = 0 /\ UNCHANGED <<store, lock, tabs, told>>
    BY <1>0, <1>3 DEF RotateClaim, AtWork, serverOnly
  <2>2. CASE Active(t)
    <3>1. PICK n \in Tokens : n = Fresh /\ ~Known(n) /\ \A s \in Requests : reqs[s].next # n
      BY <1>3, <2>2, FreshIs DEF RotateClaim
    <3>2. /\ rows' = [rows EXCEPT ![t].by = r]
          /\ reqs' = [reqs EXCEPT ![r].pc = "claimed", ![r].next = n]
      BY <1>3, <2>2, <3>1 DEF RotateClaim
    <3>3. AccountTypes'
      <4>1. [rows[t] EXCEPT !.by = r] \in TokenRow
        BY <1>a, <2>1 DEF TokenRow
      <4>2. [reqs[r] EXCEPT !.pc = "claimed", !.next = n] \in Refresh
        BY <1>a DEF Refresh, RequestStates, AtWork
      <4>. QED
        BY <2>1, <3>2, <4>1, <4>2 DEF AccountTypes
    <3>4. \A s \in Tokens : /\ rows'[s].state = rows[s].state /\ rows'[s].from = rows[s].from
                            /\ rows'[s].by = IF s = t THEN r ELSE rows[s].by
      BY <1>a, <2>1, <3>2 DEF TokenRow
    <3>5. \A s \in Requests : /\ reqs'[s].token = reqs[s].token
                              /\ reqs'[s].next = IF s = r THEN n ELSE reqs[s].next
                              /\ reqs'[s].seen = reqs[s].seen
                              /\ reqs'[s].pc = IF s = r THEN "claimed" ELSE reqs[s].pc
      BY <1>a, <3>2 DEF Refresh
    <3>6. Core'
      <4>. HIDE DEF t
      <4>1. t = reqs[r].token
        BY DEF t
      <4>. QED
        BY <2>1, <2>2, <3>1, <3>4, <3>5, <4>1, ClaimStep
    <3>7. ScansCover' /\ ReuseEndsFamily'
      BY <2>1, <3>4, <3>5, FamiliesStay
    <3>. QED
      BY <2>1, <3>3, <3>6, <3>7 DEF ReplayExplained
  <2>3. CASE ~Active(t)
    <3>1. UNCHANGED rows /\ reqs' = [reqs EXCEPT ![r].pc = "reuse"]
      BY <1>3, <2>3 DEF RotateClaim
    <3>2. AccountTypes'
      <4>1. [reqs[r] EXCEPT !.pc = "reuse"] \in Refresh
        BY <1>a DEF Refresh, RequestStates, AtWork
      <4>. QED
        BY <2>1, <3>1, <4>1 DEF AccountTypes
    <3>3. \A s \in Requests : /\ reqs'[s].token = reqs[s].token /\ reqs'[s].next = reqs[s].next
                              /\ reqs'[s].seen = reqs[s].seen
                              /\ reqs'[s].pc = IF s = r THEN "reuse" ELSE reqs[s].pc
      BY <1>a, <3>1 DEF Refresh
    <3>4. Core'
      BY <2>1, <2>3, <3>1, <3>3, MovesOn
    <3>5. ScansCover' /\ ReuseEndsFamily'
      BY <2>1, <3>1, <3>3, FamiliesStay
    <3>. QED
      BY <2>1, <3>2, <3>4, <3>5 DEF ReplayExplained
  <2>. QED
    BY <2>2, <2>3
<1>4. CASE RotateSuccess(r)
  <2>1. PICK n \in Tokens : n = reqs[r].next /\ ~Known(n)
    <3>1. reqs[r].next \in Tokens \cup {0} /\ reqs[r].next # 0 /\ ~Known(reqs[r].next)
      BY <1>4, <1>a DEF RotateSuccess, Core, LocksHeld, Refresh
    <3>. QED
      BY <3>1
  <2>2. /\ t \in Tokens /\ reqs[r].pc = "claimed" /\ UNCHANGED <<store, lock, tabs, told>> /\ Active(t)
        /\ reqs' = [reqs EXCEPT ![r].pc = "ok"]
        /\ rows' = [rows EXCEPT ![t].state = "revoked", ![t].by = 0,
                                ![n] = [NoRow EXCEPT !.state = "active", !.from = t]]
    BY <1>0, <1>4, <2>1 DEF RotateSuccess, AtWork, serverOnly, Core, LocksHeld
  <2>3. n # t /\ rows[n].from = 0
    BY <2>1, <2>2 DEF Known, Active, Core, RowsDescend
  <2>4. PICK child : child = [NoRow EXCEPT !.state = "active", !.from = t]
    OBVIOUS
  <2>5. /\ child \in TokenRow /\ child.state = "active" /\ child.from = t /\ child.by = 0
    BY <2>2, <2>4 DEF TokenRow, RowStates, NoRow
  <2>6. PICK spent : spent = [rows[t] EXCEPT !.state = "revoked", !.by = 0]
    OBVIOUS
  <2>7. /\ spent \in TokenRow /\ spent.state = "revoked" /\ spent.from = rows[t].from /\ spent.by = 0
    <3>1. rows[t] \in TokenRow
      BY <1>a, <2>2
    <3>. QED
      BY <2>6, <3>1 DEF TokenRow, RowStates
  <2>8. /\ DOMAIN rows' = Tokens /\ rows'[n] = child /\ rows'[t] = spent
        /\ \A s \in Tokens : s # n /\ s # t => rows'[s] = rows[s]
    BY <1>a, <2>2, <2>3, <2>4, <2>6
  <2>9. AccountTypes'
    <3>1. \A s \in Tokens : rows'[s] \in TokenRow
      BY <1>a, <2>5, <2>7, <2>8
    <3>2. rows' \in [Tokens -> TokenRow]
      BY <2>2, <2>8, <3>1 DEF AccountTypes
    <3>3. [reqs[r] EXCEPT !.pc = "ok"] \in Refresh
      BY <1>a DEF Refresh, RequestStates
    <3>. QED
      BY <2>2, <3>2, <3>3 DEF AccountTypes
  <2>10. \A s \in Tokens :
           /\ rows'[s].state = IF s = n THEN "active" ELSE IF s = t THEN "revoked" ELSE rows[s].state
           /\ rows'[s].from = IF s = n THEN t ELSE rows[s].from
           /\ rows'[s].by = IF s \in {n, t} THEN 0 ELSE rows[s].by
    BY <2>5, <2>7, <2>8
  <2>11. \A s \in Requests : /\ reqs'[s].token = reqs[s].token /\ reqs'[s].next = reqs[s].next
                             /\ reqs'[s].seen = reqs[s].seen
                             /\ reqs'[s].pc = IF s = r THEN "ok" ELSE reqs[s].pc
    BY <1>a, <2>2 DEF Refresh
  <2>12. /\ n = reqs[r].next /\ ~Known(n) /\ rows[n].from = 0 /\ reqs[r].pc = "claimed"
         /\ UNCHANGED <<store, lock, tabs, told>> /\ rows[t].state = "active" /\ t # 0
    BY <2>1, <2>2, <2>3, Zeroes DEF Active
  <2>13. PICK k \in Tokens : k = reqs[r].token
    BY <2>2
  <2>. HIDE DEF t
  <2>14. t = k
    BY <2>13 DEF t
  <2>15. Core'
    BY <2>10, <2>11, <2>12, <2>13, <2>14, SuccessStep
  <2>16. ScansCover' /\ ReuseEndsFamily'
    <3>1. RowsDescend /\ Presented
      BY DEF Core
    <3>2. \A s \in Tokens : s # n => rows'[s].from = rows[s].from
      BY <2>10
    <3>3. \A s \in Tokens : s # n /\ rows'[s].state = "active" => rows[s].state = "active"
      BY <2>10
    <3>4. rows'[n].from = k /\ rows[k].state = "active"
      BY <2>10, <2>12, <2>14
    <3>5. \A s \in Requests : reqs'[s].pc = "scanned" =>
             reqs[s].pc = "scanned" /\ reqs'[s].token = reqs[s].token /\ reqs'[s].seen = reqs[s].seen
      BY <2>11
    <3>. QED
      BY <2>9, <2>12, <3>1, <3>2, <3>3, <3>4, <3>5, FamiliesGrow
  <2>. QED
    BY <2>9, <2>12, <2>15, <2>16 DEF ReplayExplained
<1>5. CASE RotateScan(r)
  <2>1. /\ t \in Tokens /\ reqs[r].pc = "reuse" /\ UNCHANGED <<rows, store, lock, tabs, told>>
    BY <1>0, <1>5 DEF RotateScan, AtWork, serverOnly
  <2>2. PICK S \in SUBSET Tokens : /\ S = {s \in Tokens : Active(s)}
                                   /\ reqs' = [reqs EXCEPT ![r].pc = "scanned", ![r].seen = S]
    BY <1>5 DEF RotateScan
  <2>3. AccountTypes'
    <3>1. [reqs[r] EXCEPT !.pc = "scanned", !.seen = S] \in Refresh
      BY <1>a DEF Refresh, RequestStates, AtWork
    <3>. QED
      BY <2>1, <2>2, <3>1 DEF AccountTypes
  <2>4. /\ \A s \in Requests : /\ reqs'[s].token = reqs[s].token /\ reqs'[s].next = reqs[s].next
                               /\ s # r => reqs'[s].pc = reqs[s].pc /\ reqs'[s].seen = reqs[s].seen
        /\ reqs'[r].pc = "scanned" /\ reqs'[r].seen = S
    BY <1>a, <2>2 DEF Refresh
  <2>5. Core'
    BY <2>1, <2>4, MovesOn
  <2>6. \A s : Line(s)' = Line(s) /\ Active(s)' = Active(s)
    BY <2>1 DEF Line, Active
  <2>7. \A s \in Tokens : s \in Line(s)
    BY LineageClosed DEF Line, AccountTypes, TokenRow
  <2>8. ScansCover'
    <3>1. \A s \in Tokens : Active(s) => s \in S
      BY <2>2
    <3>. QED
      BY <2>4, <2>6, <2>7, <3>1 DEF ScansCover
  <2>9. ReuseEndsFamily'
    BY <2>1, <2>6 DEF ReuseEndsFamily
  <2>. QED
    BY <2>1, <2>3, <2>5, <2>8, <2>9 DEF ReplayExplained
<1>6. CASE RotateReuse(r)
  <2>1. PICK S \in SUBSET Tokens : S = reqs[r].seen
    BY <1>a DEF Refresh
  <2>2. /\ t \in Tokens /\ reqs[r].pc = "scanned" /\ UNCHANGED <<store, lock, tabs>>
        /\ \A s \in S : rows[s].by = 0
        /\ rows' = Revoke(S) /\ reqs' = [reqs EXCEPT ![r].pc = "refused"]
        /\ told' = [told EXCEPT !.reused = @ \cup {t}, !.excused = @ \cup S,
                                !.spared = @ \cup {s \in S : ~Active(s)}]
    BY <1>0, <1>6, <2>1 DEF RotateReuse, AtWork, serverOnly
  <2>3. /\ told'.reused = told.reused \cup {t} /\ told'.excused = told.excused \cup S
        /\ told'.spared = told.spared \cup {s \in S : ~Active(s)}
    BY <1>a, <2>2 DEF History
  <2>4. AccountTypes'
    <3>1. \A s \in Tokens : [rows[s] EXCEPT !.state = "revoked"] \in TokenRow
      BY <1>a DEF TokenRow, RowStates
    <3>2. rows' \in [Tokens -> TokenRow]
      BY <1>a, <2>2, <3>1 DEF Revoke
    <3>3. [reqs[r] EXCEPT !.pc = "refused"] \in Refresh
      BY <1>a DEF Refresh, RequestStates
    <3>4. told' \in History
      BY <1>a, <2>2 DEF History
    <3>. QED
      BY <2>2, <3>2, <3>3, <3>4 DEF AccountTypes
  <2>5. \A s \in Tokens : rows'[s] = IF s \in S /\ Active(s) THEN [rows[s] EXCEPT !.state = "revoked"]
                                     ELSE rows[s]
    BY <2>2 DEF Revoke
  <2>6. \A s \in Tokens : /\ rows'[s].from = rows[s].from /\ rows'[s].by = rows[s].by
                          /\ rows'[s].state = IF s \in S /\ Active(s) THEN "revoked" ELSE rows[s].state
    BY <1>a, <2>5 DEF TokenRow
  <2>7. \A s \in Requests : /\ reqs'[s].token = reqs[s].token /\ reqs'[s].next = reqs[s].next
                            /\ reqs'[s].seen = reqs[s].seen
                            /\ reqs'[s].pc = IF s = r THEN "refused" ELSE reqs[s].pc
    BY <1>a, <2>2 DEF Refresh
  <2>8. Core'
    <3>1. PICK k \in Tokens : k = t
      BY <2>2
    <3>. HIDE DEF t
    <3>2. k = reqs[r].token
      BY <3>1 DEF t
    <3>3. reqs[r].pc = "scanned" /\ UNCHANGED <<store, lock, tabs>> /\ \A s \in S : rows[s].by = 0
      BY <2>2
    <3>4. told'.reused = told.reused \cup {reqs[r].token} /\ told'.excused = told.excused \cup S
      BY <2>3, <3>1, <3>2
    <3>. QED
      BY <2>6, <2>7, <3>3, <3>4, ReuseStep
  <2>9. Parents' = Parents
    BY <2>6 DEF Parents
  <2>10. \A s : Line(s)' = Line(s)
    BY <2>9, LineIs DEF Line, Parents
  <2>11. \A s \in Tokens : Active(s)' => Active(s) /\ s \notin S
    BY <2>6 DEF Active
  <2>12. ScansCover'
    BY <2>7, <2>10, <2>11 DEF ScansCover
  <2>13. ASSUME NEW k \in told'.reused, NEW s \in Tokens, Active(s)', k \in Line(s)
         PROVE  Line(s) \cap told'.spared # {}
    <3>1. CASE k \in told.reused
      BY <2>3, <2>11, <2>13, <3>1 DEF ReuseEndsFamily
    <3>2. CASE k = t
      <4>1. PICK x \in Line(s) : x \in S
        BY <2>1, <2>2, <2>11, <2>13, <3>2 DEF ScansCover
      <4>2. x # s
        BY <2>11, <2>13, <4>1
      <4>3. ~Active(x)
        BY <4>1, <4>2, AncestorRevoked DEF Core, Active
      <4>. QED
        BY <2>3, <4>1, <4>3
    <3>. QED
      BY <2>3, <3>1, <3>2
  <2>14. ReuseEndsFamily'
    BY <2>10, <2>13 DEF ReuseEndsFamily
  <2>15. ReplayExplained'
    BY <2>2, <2>3 DEF ReplayExplained, Core, Excuses
  <2>. QED
    BY <2>4, <2>8, <2>12, <2>14, <2>15
<1>7. CASE RotateAborted(r)
  <2>1. /\ t \in Tokens /\ reqs[r].pc \in AtWork /\ UNCHANGED <<store, lock, tabs>>
        /\ told.breaks < MaxBreaks /\ told' = [told EXCEPT !.breaks = @ + 1]
        /\ rows' = IF reqs[r].pc = "claimed" THEN [rows EXCEPT ![t].by = 0] ELSE rows
        /\ reqs' = [reqs EXCEPT ![r] = [IdleRequest EXCEPT !.pc = "refused"]]
    BY <1>0, <1>7 DEF RotateAborted, AtWork, serverOnly
  <2>2. PICK q : q = [IdleRequest EXCEPT !.pc = "refused"]
    OBVIOUS
  <2>3. q \in Refresh /\ q.pc = "refused" /\ q.token = 0 /\ q.next = 0
    BY <2>2 DEF Refresh, RequestStates, IdleRequest
  <2>4. reqs'[r] = q /\ \A s \in Requests : s # r => reqs'[s] = reqs[s]
    BY <1>a, <2>1, <2>2
  <2>5. AccountTypes'
    <3>1. [rows[t] EXCEPT !.by = 0] \in TokenRow
      BY <1>a, <2>1 DEF TokenRow
    <3>2. rows' \in [Tokens -> TokenRow]
      BY <2>1, <3>1 DEF AccountTypes
    <3>3. told' \in History
      BY <1>a, <2>1, BreaksStep
    <3>4. reqs' \in [Requests -> Refresh]
      BY <2>1, <2>2, <2>3 DEF AccountTypes
    <3>. QED
      BY <2>1, <3>2, <3>3, <3>4 DEF AccountTypes
  <2>6. \A s \in Tokens :
           /\ rows'[s].from = rows[s].from /\ rows'[s].state = rows[s].state
           /\ rows'[s].by = IF reqs[r].pc = "claimed" /\ s = t THEN 0 ELSE rows[s].by
    BY <1>a, <2>1 DEF TokenRow
  <2>7. told'.reused = told.reused /\ told'.excused = told.excused /\ told'.spared = told.spared
    BY <1>a, <2>1, BreaksStep
  <2>8. Core'
    BY <2>1, <2>3, <2>4, <2>6, <2>7, ForgetStep
  <2>9. ScansCover' /\ ReuseEndsFamily'
    BY <2>3, <2>4, <2>6, <2>7, FamiliesStay
  <2>. QED
    BY <2>5, <2>7, <2>8, <2>9 DEF ReplayExplained
<1>8. CASE AnswerDropped(r)
  <2>1. /\ reqs[r].pc \in {"ok", "refused"} /\ UNCHANGED <<rows, store, lock, tabs, told>>
        /\ \A b \in Tabs : tabs[b].req # r
        /\ reqs' = [reqs EXCEPT ![r] = IdleRequest]
    BY <1>8 DEF AnswerDropped, serverOnly
  <2>2. PICK q : q = IdleRequest
    OBVIOUS
  <2>3. q \in Refresh /\ q.pc = "idle" /\ q.token = 0 /\ q.next = 0
    BY <2>2 DEF Refresh, RequestStates, IdleRequest
  <2>4. reqs'[r] = q /\ \A s \in Requests : s # r => reqs'[s] = reqs[s]
    BY <1>a, <2>1, <2>2
  <2>5. AccountTypes'
    BY <2>1, <2>2, <2>3 DEF AccountTypes
  <2>6. ~Awaited(r)
    BY <2>1 DEF Awaited, AccountTypes
  <2>7. Core'
    BY <2>1, <2>3, <2>4, <2>6, ForgetStep
  <2>8. ScansCover' /\ ReuseEndsFamily'
    BY <2>1, <2>3, <2>4, FamiliesStay
  <2>. QED
    BY <2>1, <2>5, <2>7, <2>8 DEF ReplayExplained
<1>. QED
  BY <1>1, <1>2, <1>3, <1>4, <1>5, <1>6, <1>7, <1>8

\* A tab goes on and no request notices.
LEMMA QuietTab ==
  ASSUME AccountInv, NEW b \in Tabs, NEW w \in Tab, tabs' = [tabs EXCEPT ![b] = w],
         w.req = tabs[b].req, w.refresh = "sent" <=> tabs[b].refresh = "sent",
         w.logout \in {tabs[b].logout, store, 0}, store' \in {store, 0},
         UNCHANGED <<rows, reqs, lock>>,
         told' \in History, told'.reused = told.reused, told'.excused = told.excused,
         told'.spared = told.spared
  PROVE  AccountInv'
<1>. USE DEF AccountInv
<1>1. DOMAIN tabs = Tabs
  BY DEF AccountTypes
<1>2. AccountTypes'
  BY DEF AccountTypes
<1>3. \A c \in Tabs : /\ tabs'[c].req = tabs[c].req
                      /\ tabs'[c].refresh = "sent" <=> tabs[c].refresh = "sent"
                      /\ tabs'[c].logout \in {tabs[c].logout, store, 0}
  BY <1>1
<1>4. Core'
  BY <1>3, TabStep
<1>5. ScansCover' /\ ReuseEndsFamily'
  BY FamiliesStay
<1>. QED
  BY <1>2, <1>4, <1>5 DEF ReplayExplained

\* Tabs that ask for nothing but password work, start, wait or log out.
LEMMA QuietInv ==
  ASSUME AccountInv, NEW b \in Tabs,
         \/ \E kind \in {"login", "register"} : PasswordRequest(b, kind)
         \/ RestoreNothing(b) \/ RestoreFails(b) \/ RefreshTokens(b)
         \/ NoStoredToken(b) \/ Logout(b)
  PROVE  AccountInv'
<1>1. /\ tabs \in [Tabs -> Tab] /\ tabs[b] \in Tab /\ store \in Tokens \cup {0} /\ told \in History
      /\ OneSender
  BY DEF AccountInv, AccountTypes, Core
<1>2. CASE \E kind \in {"login", "register"} : PasswordRequest(b, kind)
  <2>1. PICK kind \in {"login", "register"} : PasswordRequest(b, kind)
    BY <1>2
  <2>2. PICK w \in Tab : /\ tabs' = [tabs EXCEPT ![b] = w] /\ w.req = tabs[b].req
                         /\ w.refresh = tabs[b].refresh /\ w.logout = tabs[b].logout
    <3>1. CASE tabs' = tabs
      BY <1>1, <3>1
    <3>2. CASE tabs' = [tabs EXCEPT ![b].password = kind]
      <4>1. PICK w : w = [tabs[b] EXCEPT !.password = kind]
        OBVIOUS
      <4>2. /\ w \in Tab /\ w.req = tabs[b].req
            /\ w.refresh = tabs[b].refresh /\ w.logout = tabs[b].logout
        BY <1>1, <4>1 DEF Tab
      <4>3. tabs' = [tabs EXCEPT ![b] = w]
        BY <1>1, <3>2, <4>1
      <4>. QED
        BY <4>2, <4>3
    <3>. QED
      BY <2>1, <3>1, <3>2 DEF PasswordRequest
  <2>3. UNCHANGED <<rows, reqs, lock, store, told>>
    BY <2>1 DEF PasswordRequest
  <2>. QED
    BY <1>1, <2>2, <2>3, QuietTab
<1>3. CASE RestoreNothing(b)
  <2>1. PICK w : w = [tabs[b] EXCEPT !.status = "anon"]
    OBVIOUS
  <2>2. w \in Tab /\ w.req = tabs[b].req /\ w.refresh = tabs[b].refresh /\ w.logout = tabs[b].logout
    BY <1>1, <2>1 DEF Tab
  <2>3. tabs' = [tabs EXCEPT ![b] = w] /\ UNCHANGED <<rows, reqs, lock, store, told>>
    BY <1>1, <1>3, <2>1 DEF RestoreNothing
  <2>. QED
    BY <1>1, <2>2, <2>3, QuietTab
<1>4. CASE RestoreFails(b)
  <2>1. PICK w : w = [tabs[b] EXCEPT !.status = "anon", !.refresh = "no", !.req = 0]
    OBVIOUS
  <2>2. w \in Tab /\ w.req = 0 /\ w.refresh = "no" /\ w.logout = tabs[b].logout
    BY <1>1, <2>1 DEF Tab
  <2>3. /\ tabs' = [tabs EXCEPT ![b] = w] /\ UNCHANGED <<rows, reqs, lock>> /\ store' = 0
        /\ told.breaks < MaxBreaks /\ told' = [told EXCEPT !.breaks = @ + 1]
        /\ tabs[b].refresh = "no"
    BY <1>1, <1>4, <2>1 DEF RestoreFails, EndSession
  <2>4. tabs[b].req = 0
    BY <1>1, <2>3 DEF OneSender
  <2>5. /\ told' \in History /\ told'.reused = told.reused
        /\ told'.excused = told.excused /\ told'.spared = told.spared
    BY <1>1, <2>3, BreaksStep
  <2>. QED
    BY <2>2, <2>3, <2>4, <2>5, QuietTab
<1>5. CASE RefreshTokens(b)
  <2>1. PICK w : w = [tabs[b] EXCEPT !.refresh = "wait"]
    OBVIOUS
  <2>2. w \in Tab /\ w.req = tabs[b].req /\ w.refresh = "wait" /\ w.logout = tabs[b].logout
    BY <1>1, <2>1 DEF Tab
  <2>3. /\ tabs' = [tabs EXCEPT ![b] = w] /\ UNCHANGED <<rows, reqs, lock, store, told>>
        /\ tabs[b].refresh = "no"
    BY <1>1, <1>5, <2>1 DEF RefreshTokens
  <2>. QED
    BY <1>1, <2>2, <2>3, QuietTab
<1>6. CASE NoStoredToken(b)
  <2>1. PICK w : w = [tabs[b] EXCEPT !.status = "anon", !.refresh = "no", !.req = 0]
    OBVIOUS
  <2>2. w \in Tab /\ w.req = 0 /\ w.refresh = "no" /\ w.logout = tabs[b].logout
    BY <1>1, <2>1 DEF Tab
  <2>3. /\ tabs' = [tabs EXCEPT ![b] = w] /\ UNCHANGED <<rows, reqs, lock, told>> /\ store' = 0
        /\ tabs[b].refresh = "wait"
    BY <1>1, <1>6, <2>1 DEF NoStoredToken, EndSession
  <2>4. tabs[b].req = 0
    BY <1>1, <2>3 DEF OneSender
  <2>. QED
    BY <1>1, <2>2, <2>3, <2>4, QuietTab
<1>7. CASE Logout(b)
  <2>1. PICK w : w = [tabs[b] EXCEPT !.logout = store]
    OBVIOUS
  <2>2. w \in Tab /\ w.req = tabs[b].req /\ w.refresh = tabs[b].refresh /\ w.logout = store
    BY <1>1, <2>1 DEF Tab
  <2>3. tabs' = [tabs EXCEPT ![b] = w] /\ UNCHANGED <<rows, reqs, lock, store, told>>
    BY <1>1, <1>7, <2>1 DEF Logout
  <2>. QED
    BY <1>1, <2>2, <2>3, QuietTab
<1>. QED
  BY <1>2, <1>3, <1>4, <1>5, <1>6, <1>7

\* A registration or a login, whatever its outcome.
LEMMA SignInInv ==
  ASSUME AccountInv, NEW b \in Tabs, Register(b) \/ Login(b)
  PROVE  AccountInv'
<1>1. /\ tabs \in [Tabs -> Tab] /\ tabs[b] \in Tab /\ told \in History
      /\ rows \in [Tokens -> TokenRow] /\ AccountTypes /\ Core
  BY DEF AccountInv, AccountTypes
<1>2. UNCHANGED <<reqs, lock, told>>
  BY DEF Register, Login
<1>3. CASE Unused # {} /\ IssueRefreshToken /\ SignedIn(b, Fresh)
  <2>1. PICK n \in Tokens : n = Fresh /\ ~Known(n) /\ \A r \in Requests : reqs[r].next # n
    BY <1>1, <1>3, FreshIs
  <2>2. PICK new : new = [NoRow EXCEPT !.state = "active"]
    OBVIOUS
  <2>3. new \in TokenRow /\ new.state = "active" /\ new.from = 0 /\ new.by = 0
    BY <2>2 DEF NoRow, TokenRow, RowStates
  <2>4. rows' = [rows EXCEPT ![n] = new] /\ store' = n
    BY <1>3, <2>1, <2>2 DEF IssueRefreshToken, SignedIn
  <2>5. PICK w : w = [tabs[b] EXCEPT !.password = "no", !.status = "authed"]
    OBVIOUS
  <2>6. w \in Tab /\ w.req = tabs[b].req /\ w.refresh = tabs[b].refresh /\ w.logout = tabs[b].logout
    BY <1>1, <2>5 DEF Tab
  <2>7. tabs' = [tabs EXCEPT ![b] = w]
    BY <1>1, <1>3, <2>5 DEF SignedIn
  <2>8. AccountTypes'
    BY <1>1, <1>2, <2>3, <2>4, <2>6, <2>7 DEF AccountTypes
  <2>9. \A c \in Tabs : /\ tabs'[c].req = tabs[c].req /\ tabs'[c].refresh = tabs[c].refresh
                        /\ tabs'[c].logout = tabs[c].logout
    BY <1>1, <2>6, <2>7
  <2>10. \A s \in Tokens : IF s = n
                           THEN rows'[s].state = "active" /\ rows'[s].from = 0 /\ rows'[s].by = 0
                           ELSE rows'[s] = rows[s]
    BY <1>1, <2>3, <2>4
  <2>11. ~Known(n) /\ store' = n /\ \A r \in Requests : reqs[r].next # n
    BY <2>1, <2>4
  <2>12. Core'
    BY <1>1, <1>2, <2>9, <2>10, <2>11, SignInStep
  <2>13. ScansCover' /\ ReuseEndsFamily'
    <3>1. RowsDescend /\ Presented /\ ScansCover /\ ReuseEndsFamily
      BY DEF AccountInv, Core
    <3>2. rows[n].from = 0
      BY <2>1, <3>1 DEF RowsDescend
    <3>3. /\ \A s \in Tokens : s # n => rows'[s].from = rows[s].from
          /\ \A s \in Tokens : s # n /\ rows'[s].state = "active" => rows[s].state = "active"
          /\ rows'[n].from = 0
      BY <2>10
    <3>. QED
      BY <1>1, <1>2, <2>8, <2>11, <3>1, <3>2, <3>3, FamiliesGrow
  <2>. QED
    BY <1>2, <2>8, <2>12, <2>13 DEF AccountInv, ReplayExplained
<1>4. CASE SignInFailed(b) /\ UNCHANGED rows
  <2>1. PICK w : w = [tabs[b] EXCEPT !.password = "no"]
    OBVIOUS
  <2>2. w \in Tab /\ w.req = tabs[b].req /\ w.refresh = tabs[b].refresh /\ w.logout = tabs[b].logout
    BY <1>1, <2>1 DEF Tab
  <2>3. tabs' = [tabs EXCEPT ![b] = w] /\ UNCHANGED store
    BY <1>1, <1>4, <2>1 DEF SignInFailed
  <2>. QED
    BY <1>1, <1>2, <1>4, <2>2, <2>3, QuietTab
<1>. QED
  BY <1>3, <1>4 DEF Register, Login

\* A tab sends its refresh, reads the answer or gives up.
LEMMA RefreshInv ==
  ASSUME AccountInv, NEW b \in Tabs, DoRefreshRoundTrip(b) \/ Refreshed(b) \/ RefreshFailed(b)
  PROVE  AccountInv'
<1>1. /\ tabs \in [Tabs -> Tab] /\ tabs[b] \in Tab /\ told \in History /\ store \in Tokens \cup {0}
      /\ reqs \in [Requests -> Refresh] /\ AccountTypes /\ Core /\ ScansCover /\ ReuseEndsFamily
  BY DEF AccountInv, AccountTypes
<1>2. PICK idle : idle = IdleRequest
  OBVIOUS
<1>3. idle \in Refresh /\ idle.pc = "idle" /\ idle.token = 0 /\ idle.next = 0
  BY <1>2 DEF Refresh, RequestStates, IdleRequest
<1>4. CASE DoRefreshRoundTrip(b)
  <2>1. PICK r \in Requests :
          /\ reqs[r].pc = "idle"
          /\ reqs' = [reqs EXCEPT ![r] = [IdleRequest EXCEPT !.pc = "find", !.token = store]]
          /\ tabs' = [tabs EXCEPT ![b].refresh = "sent", ![b].req = r]
    BY <1>4 DEF DoRefreshRoundTrip
  <2>2. UNCHANGED <<rows, store, told>> /\ lock = 0 /\ store # 0 /\ lock' = b
    BY <1>4 DEF DoRefreshRoundTrip
  <2>3. PICK q : q = [IdleRequest EXCEPT !.pc = "find", !.token = store]
    OBVIOUS
  <2>4. q \in Refresh /\ q.pc = "find" /\ q.token = store /\ q.next = 0
    BY <1>1, <2>3 DEF Refresh, RequestStates, AtWork, IdleRequest
  <2>5. PICK w : w = [tabs[b] EXCEPT !.refresh = "sent", !.req = r]
    OBVIOUS
  <2>6. w \in Tab /\ w.req = r /\ w.refresh = "sent" /\ w.logout = tabs[b].logout
    BY <1>1, <2>5 DEF Tab
  <2>7. reqs' = [reqs EXCEPT ![r] = q] /\ tabs' = [tabs EXCEPT ![b] = w]
    BY <1>1, <2>1, <2>3, <2>5
  <2>8. AccountTypes'
    BY <1>1, <2>2, <2>4, <2>6, <2>7 DEF AccountTypes
  <2>9. /\ reqs'[r] = q /\ tabs'[b] = w
        /\ \A s \in Requests : s # r => reqs'[s] = reqs[s]
        /\ \A c \in Tabs : c # b => tabs'[c] = tabs[c]
    BY <1>1, <2>7
  <2>10. Core'
    <3>1. reqs[r].pc = "idle"
      BY <2>1
    <3>. QED
      BY <1>1, <2>2, <2>4, <2>6, <2>9, <3>1, SendStep
  <2>11. ScansCover' /\ ReuseEndsFamily'
    BY <1>1, <2>2, <2>4, <2>9, FamiliesStay
  <2>. QED
    BY <2>2, <2>8, <2>10, <2>11 DEF AccountInv, ReplayExplained
<1>5. ASSUME Refreshed(b) \/ RefreshFailed(b)
      PROVE  \E r \in Requests : r = tabs[b].req
  BY <1>1, <1>5 DEF Refreshed, RefreshFailed, Tab
<1>6. CASE Refreshed(b)
  <2>1. PICK r \in Requests : r = tabs[b].req
    BY <1>5, <1>6
  <2>2. /\ UNCHANGED <<rows, told>> /\ lock' = 0 /\ reqs[r].pc = "ok" /\ store' = reqs[r].next
        /\ reqs' = [reqs EXCEPT ![r] = idle]
        /\ tabs' = [tabs EXCEPT ![b].status = IF @ = "loading" THEN "authed" ELSE @,
                                ![b].refresh = "no", ![b].req = 0]
    BY <1>2, <1>6, <2>1 DEF Refreshed
  <2>3. PICK w : w = [tabs[b] EXCEPT !.status = IF @ = "loading" THEN "authed" ELSE @,
                                     !.refresh = "no", !.req = 0]
    OBVIOUS
  <2>4. w \in Tab /\ w.req = 0 /\ w.refresh = "no" /\ w.logout = tabs[b].logout
    BY <1>1, <2>3 DEF Tab
  <2>5. tabs' = [tabs EXCEPT ![b] = w]
    BY <1>1, <2>2, <2>3
  <2>6. AccountTypes'
    <3>1. store' \in Tokens \cup {0}
      BY <1>1, <2>2 DEF Refresh
    <3>2. tabs' \in [Tabs -> Tab]
      BY <1>1, <2>4, <2>5
    <3>3. reqs' \in [Requests -> Refresh]
      BY <1>1, <1>3, <2>2
    <3>4. UNCHANGED <<rows, told>> /\ lock' = 0
      BY <2>2
    <3>. QED
      BY <1>1, <3>1, <3>2, <3>3, <3>4 DEF AccountTypes
  <2>7. /\ reqs'[r] = idle /\ tabs'[b] = w
        /\ \A s \in Requests : s # r => reqs'[s] = reqs[s]
        /\ \A c \in Tabs : c # b => tabs'[c] = tabs[c]
    BY <1>1, <2>2, <2>5
  <2>8. UNCHANGED <<rows, told>> /\ lock' = 0 /\ reqs[r].pc = "ok" /\ store' = reqs[r].next
    BY <2>2
  <2>9. Core'
    BY <1>1, <1>3, <2>1, <2>4, <2>7, <2>8, ReadStep
  <2>10. ScansCover' /\ ReuseEndsFamily'
    BY <1>1, <1>3, <2>7, <2>8, FamiliesStay
  <2>. QED
    BY <2>6, <2>8, <2>9, <2>10 DEF AccountInv, ReplayExplained
<1>7. CASE RefreshFailed(b)
  <2>1. PICK r \in Requests : r = tabs[b].req
    BY <1>5, <1>7
  <2>2. /\ UNCHANGED rows /\ lock' = 0 /\ store' = 0
        /\ tabs' = [tabs EXCEPT ![b].status = "anon", ![b].refresh = "no", ![b].req = 0]
    BY <1>7 DEF RefreshFailed, EndSession
  <2>3. /\ reqs' \in [Requests -> Refresh]
        /\ \A s \in Requests : s # r => reqs'[s] = reqs[s]
        /\ \/ reqs[r].pc = "refused" /\ reqs'[r] = idle
           \/ reqs'[r] = reqs[r]
    BY <1>1, <1>2, <1>3, <1>7, <2>1 DEF RefreshFailed
  <2>4. /\ told' \in History /\ told'.reused = told.reused
        /\ told'.excused = told.excused /\ told'.spared = told.spared
    BY <1>1, <1>7, BreaksStep DEF RefreshFailed
  <2>5. PICK w : w = [tabs[b] EXCEPT !.status = "anon", !.refresh = "no", !.req = 0]
    OBVIOUS
  <2>6. w \in Tab /\ w.req = 0 /\ w.refresh = "no" /\ w.logout = tabs[b].logout
    BY <1>1, <2>5 DEF Tab
  <2>7. tabs' = [tabs EXCEPT ![b] = w]
    BY <1>1, <2>2, <2>5
  <2>8. AccountTypes'
    <3>1. tabs' \in [Tabs -> Tab]
      BY <1>1, <2>6, <2>7
    <3>2. UNCHANGED rows /\ lock' = 0 /\ store' = 0
      BY <2>2
    <3>3. reqs' \in [Requests -> Refresh] /\ told' \in History
      BY <2>3, <2>4
    <3>. QED
      BY <1>1, <3>1, <3>2, <3>3 DEF AccountTypes
  <2>9. tabs'[b] = w /\ \A c \in Tabs : c # b => tabs'[c] = tabs[c]
    BY <1>1, <2>7
  <2>10. UNCHANGED rows /\ lock' = 0 /\ store' = 0
    BY <2>2
  <2>11. Core'
    BY <1>1, <1>3, <2>1, <2>3, <2>4, <2>6, <2>9, <2>10, FailStep
  <2>12. ScansCover' /\ ReuseEndsFamily'
    BY <1>1, <1>3, <2>3, <2>4, <2>10, FamiliesStay
  <2>. QED
    BY <2>4, <2>8, <2>11, <2>12 DEF AccountInv, ReplayExplained
<1>. QED
  BY <1>4, <1>6, <1>7

\* A logout is answered, or fails.
LEMMA LoggedOutInv ==
  ASSUME AccountInv, NEW b \in Tabs, LoggedOut(b)
  PROVE  AccountInv'
<1>1. /\ tabs \in [Tabs -> Tab] /\ tabs[b] \in Tab /\ told \in History
      /\ rows \in [Tokens -> TokenRow] /\ AccountTypes /\ Core /\ ScansCover /\ ReuseEndsFamily
  BY DEF AccountInv, AccountTypes
<1>2. PICK w : w = [tabs[b] EXCEPT !.logout = 0, !.status = "anon"]
  OBVIOUS
<1>3. w \in Tab /\ w.req = tabs[b].req /\ w.refresh = tabs[b].refresh /\ w.logout = 0
  BY <1>1, <1>2 DEF Tab
<1>4. tabs' = [tabs EXCEPT ![b] = w] /\ store' = 0 /\ UNCHANGED <<reqs, lock>>
  BY <1>1, <1>2 DEF LoggedOut
<1>5. PICK t \in Tokens : t = tabs[b].logout
  BY <1>1 DEF LoggedOut, Tab
<1>6. CASE /\ rows[t].by = 0 /\ rows' = Revoke({t})
           /\ told' = [told EXCEPT !.excused = @ \cup {t}]
  <2>1. /\ told'.reused = told.reused /\ told'.excused = told.excused \cup {t}
        /\ told'.spared = told.spared /\ told' \in History
    BY <1>1, <1>6 DEF History
  <2>2. \A s \in Tokens : rows'[s] = IF s = t /\ Active(s) THEN [rows[s] EXCEPT !.state = "revoked"]
                                     ELSE rows[s]
    BY <1>6 DEF Revoke
  <2>3. rows' \in [Tokens -> TokenRow]
    <3>1. \A s \in Tokens : [rows[s] EXCEPT !.state = "revoked"] \in TokenRow
      BY <1>1 DEF TokenRow, RowStates
    <3>. QED
      BY <1>1, <1>6, <3>1 DEF Revoke
  <2>4. \A s \in Tokens : /\ rows'[s].from = rows[s].from /\ rows'[s].by = rows[s].by
                          /\ rows'[s].state = IF s = t /\ Active(s) THEN "revoked" ELSE rows[s].state
    BY <1>1, <2>2 DEF TokenRow
  <2>5. AccountTypes'
    BY <1>1, <1>3, <1>4, <2>1, <2>3 DEF AccountTypes
  <2>6. \A c \in Tabs : /\ tabs'[c].req = tabs[c].req /\ tabs'[c].refresh = tabs[c].refresh
                        /\ tabs'[c].logout \in {tabs[c].logout, 0}
    BY <1>1, <1>3, <1>4
  <2>7. rows[t].by = 0 /\ store' = 0 /\ UNCHANGED <<reqs, lock>>
    BY <1>4, <1>6
  <2>8. Core'
    BY <1>1, <2>1, <2>4, <2>6, <2>7, LogoutStep
  <2>9. \A s \in Tokens : rows'[s].state = "active" => rows[s].state = "active"
    BY <2>4
  <2>10. ScansCover' /\ ReuseEndsFamily'
    BY <1>1, <2>1, <2>4, <2>7, <2>9, FamiliesStay
  <2>. QED
    BY <2>1, <2>5, <2>8, <2>10 DEF AccountInv, ReplayExplained
<1>7. CASE /\ told.breaks < MaxBreaks /\ told' = [told EXCEPT !.breaks = @ + 1]
           /\ UNCHANGED rows
  <2>1. /\ told' \in History /\ told'.reused = told.reused
        /\ told'.excused = told.excused /\ told'.spared = told.spared
    BY <1>1, <1>7, BreaksStep
  <2>. QED
    BY <1>3, <1>4, <1>7, <2>1, QuietTab
<1>. QED
  BY <1>5, <1>6, <1>7 DEF LoggedOut

\* A tab is reloaded.
LEMMA ReloadInv ==
  ASSUME AccountInv, NEW b \in Tabs, Reload(b)
  PROVE  AccountInv'
<1>1. /\ tabs \in [Tabs -> Tab] /\ tabs[b] \in Tab /\ told \in History
      /\ reqs \in [Requests -> Refresh] /\ AccountTypes /\ Core /\ ScansCover /\ ReuseEndsFamily
  BY DEF AccountInv, AccountTypes
<1>2. PICK w : w = LoadingTab
  OBVIOUS
<1>3. w \in Tab /\ w.req = 0 /\ w.refresh = "no" /\ w.logout = 0
  BY <1>2 DEF Tab, LoadingTab
<1>4. /\ tabs' = [tabs EXCEPT ![b] = w] /\ UNCHANGED <<rows, reqs, store>>
      /\ lock' = IF lock = b THEN 0 ELSE lock
  BY <1>2 DEF Reload
<1>5. PICK E : E = IF tabs[b].req = 0 THEN {} ELSE {reqs[tabs[b].req].token}
  OBVIOUS
<1>6. E \in SUBSET (Tokens \cup {0})
  <2>1. CASE tabs[b].req = 0
    BY <1>5, <2>1
  <2>2. CASE tabs[b].req # 0
    <3>1. tabs[b].req \in Requests
      BY <1>1, <2>2 DEF Tab
    <3>2. tabs[b].refresh = "sent" /\ reqs[tabs[b].req].token \in Tokens \cup {0}
      BY <1>1, <2>2, <3>1 DEF Core, OneSender, Refresh
    <3>. QED
      BY <1>5, <2>2, <3>2
  <2>. QED
    BY <2>1, <2>2
<1>7. told' = [told EXCEPT !.breaks = @ + 1, !.excused = @ \cup E] /\ told.breaks < MaxBreaks
  BY <1>5 DEF Reload
<1>8. /\ told' \in History /\ told'.reused = told.reused
      /\ told'.excused = told.excused \cup E /\ told'.spared = told.spared
  <2>1. told.breaks \in 0..MaxBreaks
    BY <1>1 DEF History
  <2>2. told.breaks + 1 \in 0..MaxBreaks
    BY <1>7, <2>1, AccountsAssumption
  <2>. QED
    BY <1>1, <1>6, <1>7, <2>2 DEF History
<1>9. AccountTypes'
  BY <1>1, <1>3, <1>4, <1>8 DEF AccountTypes
<1>10. tabs'[b] = w /\ \A c \in Tabs : c # b => tabs'[c] = tabs[c]
  BY <1>1, <1>4
<1>11. Core'
  BY <1>1, <1>3, <1>4, <1>5, <1>8, <1>10, ReloadStep
<1>12. ScansCover' /\ ReuseEndsFamily'
  BY <1>1, <1>4, <1>8, FamiliesStay
<1>. QED
  BY <1>8, <1>9, <1>11, <1>12 DEF AccountInv, ReplayExplained

\* Every step of the accounts keeps the invariant.
LEMMA AccountNextInv == AccountInv /\ [AccountsNext]_accountVars => AccountInv'
<1>. SUFFICES ASSUME AccountInv, [AccountsNext]_accountVars PROVE AccountInv'
  OBVIOUS
<1>1. CASE AccountsNext
  BY <1>1, RotationInv, QuietInv, SignInInv, RefreshInv, LoggedOutInv, ReloadInv DEF AccountsNext
<1>2. CASE UNCHANGED accountVars
  <2>1. UNCHANGED <<rows, reqs, store, lock, tabs, told>>
    BY <1>2 DEF accountVars
  <2>2. AccountTypes'
    BY <2>1 DEF AccountInv, AccountTypes
  <2>3. RowsDescend' /\ LocksHeld' /\ Presented'
    BY <2>1 DEF AccountInv, Core, RowsDescend, LocksHeld, Presented, Known, Active
  <2>4. Successors' /\ OneSender'
    BY <2>1 DEF AccountInv, Core, Successors, OneSender, Known, Active
  <2>5. Excuses'
    BY <2>1 DEF AccountInv, Core, Excuses, Active, Awaited
  <2>6. ScansCover' /\ ReuseEndsFamily'
    BY <2>1, FamiliesStay DEF AccountInv
  <2>. QED
    BY <2>1, <2>2, <2>3, <2>4, <2>5, <2>6 DEF AccountInv, Core, ReplayExplained
<1>. QED
  BY <1>1, <1>2

\* Who has the same parent is the same token.
LEMMA OneChild == AccountInv => OneSuccessor
<1>. SUFFICES ASSUME AccountInv, NEW t \in Tokens
              PROVE  Cardinality({s \in Tokens : rows[s].from = t}) <= 1
  BY DEF OneSuccessor
<1>. DEFINE C == {s \in Tokens : rows[s].from = t}
<1>1. t # 0
  BY Zeroes
<1>2. \A s, u \in C : s = u
  BY <1>1 DEF AccountInv, Core, RowsDescend
<1>3. CASE C = {}
  <2>1. Cardinality(C) = 0
    BY <1>3, FS_EmptySet
  <2>. QED
    BY <2>1
<1>4. CASE C # {}
  <2>1. PICK x : x \in C
    BY <1>4
  <2>2. C = {x}
    BY <1>2, <2>1
  <2>3. Cardinality(C) = 1
    BY <2>2, FS_Singleton
  <2>. QED
    BY <2>3
<1>. QED
  BY <1>3, <1>4

\* In every reachable state of the accounts and of the plugin pages: locks,
\* claims, successors and excuses of the rotations agree, every scan saw an
\* ancestor of each session it has to end, and the row of a used grant lives
\* as long as the grant.
THEOREM CredentialBooks == CredentialsSpec => [](AccountInv /\ UiInv)
<1>1. CredentialsInit => AccountInv /\ UiInv
  BY AccountInitInv, UiInitInv DEF CredentialsInit
<1>2. AccountInv /\ UiInv /\ [CredentialsNext]_<<accountVars, uiVars>> => (AccountInv /\ UiInv)'
  BY AccountNextInv, UiNextInv DEF CredentialsNext
<1>. QED
  BY <1>1, <1>2, PTL DEF CredentialsSpec

\* Refresh tokens and grants are spent once, for any number of tabs, requests,
\* tokens and managers (rotateRefreshToken, doRefreshRoundTrip, bootstrap).
THEOREM CredentialsAreSpentOnce == CredentialsSpec => []CredentialsSpentOnce
<1>1. AccountInv /\ UiInv => CredentialsSpentOnce
  <2>1. UiInv => GrantsOnce
    BY DEF UiInv, UiTypes, RowsOutlive, GrantsOnce
  <2>. QED
    BY <2>1, OneChild DEF AccountInv, CredentialsSpentOnce
<1>. QED
  BY <1>1, CredentialBooks, PTL

-----------------------------------------------------------------------------
(* Stored events and the artifacts that decode them.                        *)

Firmware == ArcBuilds \cup {"none"}
Event == [dev : ArcDevices, fw : Firmware, known : BOOLEAN, art : Firmware, late : BOOLEAN]

\* d's events may be linked to the artifact of b.
Linkable(d, b) == <<ArcHome[d], b>> \in arcArts /\ <<d, b>> \in arcEver

ArchiveTypes ==
  /\ arcFw \in [ArcDevices -> Firmware]
  /\ arcArts \subseteq ArcProjects \X ArcBuilds
  /\ arcRows \in Seq(Event)
  /\ DOMAIN arcIngest = ArcDevices
  /\ DOMAIN arcReq = ArcRequests

\* What a device is known to run was reported or bound.
ReportsKept == \A d \in ArcDevices : arcFw[d] # "none" => <<d, arcFw[d]>> \in arcEver

\* A bundle that was resolved, until it is stored.
IngestsResolved ==
  \A d \in ArcDevices : arcIngest[d].pc = "resolved" =>
    LET in == arcIngest[d] IN
    /\ in.fw \in Firmware /\ in.art \in Firmware /\ in.known \in BOOLEAN
    /\ in.art # "none" => Linkable(d, in.art) /\ in.known /\ in.art = in.fw
    /\ in.art = "none" => ~in.known

\* An import knows its artifact, a backfill has it, and the devices it read
\* had the build it looks for.
BackfillsKnow ==
  \A u \in ArcRequests :
    LET q == arcReq[u] IN
    /\ q.pc = "import" => q.proj \in ArcProjects /\ q.build \in ArcBuilds
    /\ q.pc \in {"backfill", "update"} => <<q.proj, q.build>> \in arcArts
    /\ q.pc = "update" => \A d \in q.devices :
         d \in ArcDevices /\ ArcHome[d] = q.proj /\ <<d, q.build>> \in arcEver

\* A link is sound, and made by the ingest or by a backfill; an event without
\* one was not known, and came late if its firmware was looked for.
RowLinked(row) ==
  /\ row.art # "none" => Linkable(row.dev, row.art)
  /\ row.known => row.art = row.fw
  /\ row.art # "none" => row.known \/ <<row.dev, row.art>> \in arcCovered
  /\ row.art = "none" => ~row.known /\ (<<row.dev, row.fw>> \in arcCovered => row.late)
RowsLinked == \A i \in DOMAIN arcRows : RowLinked(arcRows[i])

ArchiveInv == ArchiveTypes /\ ReportsKept /\ IngestsResolved /\ BackfillsKnow /\ RowsLinked

\* Links that are sound stay so: artifacts and reports are never forgotten.
LEMMA LinksStay ==
  ASSUME ArchiveInv, arcArts \subseteq arcArts', arcEver \subseteq arcEver',
         UNCHANGED <<arcRows, arcIngest, arcCovered>>
  PROVE  IngestsResolved' /\ RowsLinked'
<1>1. IngestsResolved'
  BY DEF ArchiveInv, IngestsResolved, Linkable
<1>2. RowsLinked'
  BY DEF ArchiveInv, RowsLinked, RowLinked, Linkable
<1>. QED
  BY <1>1, <1>2

\* One request goes on with what it knows.
LEMMA RequestStep ==
  ASSUME ArchiveInv, arcArts \subseteq arcArts', arcEver \subseteq arcEver',
         NEW u \in ArcRequests, NEW w, arcReq' = [arcReq EXCEPT ![u] = w],
         w.pc = "import" => w.proj \in ArcProjects /\ w.build \in ArcBuilds,
         w.pc \in {"backfill", "update"} => <<w.proj, w.build>> \in arcArts',
         w.pc = "update" => \A d \in w.devices :
           d \in ArcDevices /\ ArcHome[d] = w.proj /\ <<d, w.build>> \in arcEver'
  PROVE  DOMAIN arcReq' = ArcRequests /\ BackfillsKnow'
<1>1. DOMAIN arcReq = ArcRequests
  BY DEF ArchiveInv, ArchiveTypes
<1>2. /\ DOMAIN arcReq' = ArcRequests /\ arcReq'[u] = w
      /\ \A v \in ArcRequests : v # u => arcReq'[v] = arcReq[v]
  BY <1>1
<1>3. ASSUME NEW v \in ArcRequests
      PROVE  /\ arcReq'[v].pc = "import" => arcReq'[v].proj \in ArcProjects /\ arcReq'[v].build \in ArcBuilds
             /\ arcReq'[v].pc \in {"backfill", "update"} =>
                  <<arcReq'[v].proj, arcReq'[v].build>> \in arcArts'
             /\ arcReq'[v].pc = "update" => \A d \in arcReq'[v].devices :
                  /\ d \in ArcDevices /\ ArcHome[d] = arcReq'[v].proj
                  /\ <<d, arcReq'[v].build>> \in arcEver'
  <2>1. CASE v = u
    BY <1>2, <2>1
  <2>2. CASE v # u
    BY <1>2, <2>2 DEF ArchiveInv, BackfillsKnow
  <2>. QED
    BY <2>1, <2>2
<1>. QED
  BY <1>2, <1>3 DEF BackfillsKnow

\* Nothing is stored yet.
LEMMA ArchiveInitInv == ArchiveInit => ArchiveInv
<1>. SUFFICES ASSUME ArchiveInit PROVE ArchiveInv
  OBVIOUS
<1>1. ArchiveTypes
  BY DEF ArchiveInit, ArchiveTypes, Firmware
<1>2. /\ \A d \in ArcDevices : arcIngest[d].pc = "idle" /\ arcFw[d] = "none"
      /\ \A u \in ArcRequests : arcReq[u].pc = "new" /\ arcRows = <<>>
  BY DEF ArchiveInit, NoIngest, NoRequest
<1>3. ReportsKept /\ IngestsResolved /\ BackfillsKnow
  BY <1>2 DEF ReportsKept, IngestsResolved, BackfillsKnow
<1>4. RowsLinked
  BY DEF ArchiveInit, RowsLinked
<1>. QED
  BY <1>1, <1>3, <1>4 DEF ArchiveInv

\* A device reports its firmware.
LEMMA ReportInv ==
  ASSUME ArchiveInv, NEW d \in ArcDevices, NEW b \in ArcBuilds, SetFirmware(d, b)
  PROVE  /\ arcFw' \in [ArcDevices -> Firmware] /\ ReportsKept'
         /\ arcEver \subseteq arcEver' /\ <<d, b>> \in arcEver'
  BY DEF ArchiveInv, ArchiveTypes, ReportsKept, SetFirmware, Firmware

\* An ingest resolves the artifact of its device.
LEMMA ResolveInv ==
  ASSUME ArchiveInv, NEW d \in ArcDevices, ResolveArtifactId(d)
  PROVE  ArchiveInv'
<1>1. UNCHANGED <<arcFw, arcArts, arcRows, arcReq, arcCovered, arcEver>>
  BY DEF ResolveArtifactId
<1>2. PICK k \in BOOLEAN :
        /\ k => <<ArcHome[d], arcFw[d]>> \in arcArts
        /\ arcIngest' = [arcIngest EXCEPT ![d] =
             [pc |-> "resolved", fw |-> arcFw[d], known |-> k,
              art |-> IF k THEN arcFw[d] ELSE "none"]]
  <2>1. PICK failed \in BOOLEAN :
          arcIngest' = [arcIngest EXCEPT ![d] =
             [pc |-> "resolved", fw |-> arcFw[d],
              known |-> <<ArcHome[d], arcFw[d]>> \in arcArts /\ ~failed,
              art |-> IF <<ArcHome[d], arcFw[d]>> \in arcArts /\ ~failed THEN arcFw[d] ELSE "none"]]
    BY DEF ResolveArtifactId
  <2>2. PICK k \in BOOLEAN : k = (<<ArcHome[d], arcFw[d]>> \in arcArts /\ ~failed)
    OBVIOUS
  <2>. QED
    BY <2>1, <2>2
<1>3. PICK in : in = [pc |-> "resolved", fw |-> arcFw[d], known |-> k,
                      art |-> IF k THEN arcFw[d] ELSE "none"]
  OBVIOUS
<1>4. arcFw[d] \in Firmware /\ (k => arcFw[d] # "none" /\ Linkable(d, arcFw[d]))
  <2>1. k => arcFw[d] \in ArcBuilds
    BY <1>2 DEF ArchiveInv, ArchiveTypes
  <2>2. k => arcFw[d] # "none"
    BY <2>1, ArchiveAssumption
  <2>. QED
    BY <1>2, <2>2 DEF ArchiveInv, ArchiveTypes, ReportsKept, Linkable
<1>5. /\ in.fw \in Firmware /\ in.art \in Firmware /\ in.known \in BOOLEAN
      /\ in.art # "none" => Linkable(d, in.art) /\ in.known /\ in.art = in.fw
      /\ in.art = "none" => ~in.known
  BY <1>3, <1>4 DEF Firmware
<1>6. /\ DOMAIN arcIngest' = ArcDevices /\ arcIngest'[d] = in
      /\ \A e \in ArcDevices : e # d => arcIngest'[e] = arcIngest[e]
  BY <1>2, <1>3 DEF ArchiveInv, ArchiveTypes
<1>7. \A e, b : Linkable(e, b)' = Linkable(e, b)
  BY <1>1 DEF Linkable
<1>8. IngestsResolved'
  BY <1>5, <1>6, <1>7 DEF ArchiveInv, IngestsResolved
<1>9. ArchiveTypes' /\ ReportsKept' /\ BackfillsKnow'
  BY <1>1, <1>6 DEF ArchiveInv, ArchiveTypes, ReportsKept, BackfillsKnow
<1>10. RowsLinked'
  BY <1>1, <1>7 DEF ArchiveInv, RowsLinked, RowLinked
<1>. QED
  BY <1>8, <1>9, <1>10 DEF ArchiveInv

\* A bundle is stored, or is not.
LEMMA IngestInv ==
  ASSUME ArchiveInv, NEW d \in ArcDevices, IngestLogBundle(d)
  PROVE  ArchiveInv'
<1>1. UNCHANGED <<arcFw, arcArts, arcReq, arcCovered, arcEver>>
  BY DEF IngestLogBundle
<1>2. /\ DOMAIN arcIngest' = ArcDevices /\ arcIngest'[d].pc = "idle"
      /\ \A e \in ArcDevices : e # d => arcIngest'[e] = arcIngest[e]
  BY DEF IngestLogBundle, ArchiveInv, ArchiveTypes, NoIngest
<1>3. \A e, b : Linkable(e, b)' = Linkable(e, b)
  BY <1>1 DEF Linkable
<1>4. IngestsResolved'
  BY <1>2, <1>3 DEF ArchiveInv, IngestsResolved
<1>5. PICK row : row = RawLogEvent(d)
  OBVIOUS
<1>6. PICK in : in = arcIngest[d]
  OBVIOUS
<1>7. /\ in.fw \in Firmware /\ in.art \in Firmware /\ in.known \in BOOLEAN
      /\ in.art # "none" => Linkable(d, in.art) /\ in.known /\ in.art = in.fw
      /\ in.art = "none" => ~in.known
  BY <1>6 DEF IngestLogBundle, ArchiveInv, IngestsResolved
<1>8. row = [dev |-> d, fw |-> in.fw, known |-> in.known, art |-> in.art,
             late |-> <<d, in.fw>> \in arcCovered]
  BY <1>5, <1>6 DEF RawLogEvent
<1>9. row \in Event /\ RowLinked(row)
  <2>1. PICK late \in BOOLEAN : late = (<<d, in.fw>> \in arcCovered)
    <3>1. CASE <<d, in.fw>> \in arcCovered
      BY <3>1, Zenon
    <3>2. CASE <<d, in.fw>> \notin arcCovered
      <4>1. FALSE = (<<d, in.fw>> \in arcCovered)
        BY <3>2
      <4>. QED
        BY <4>1, Zenon
    <3>. QED
      BY <3>1, <3>2
  <2>2. /\ row.dev = d /\ row.fw = in.fw /\ row.known = in.known /\ row.art = in.art
        /\ row.late = late /\ row \in Event
    BY <1>7, <1>8, <2>1 DEF Event
  <2>. QED
    BY <1>7, <2>1, <2>2 DEF RowLinked
<1>10. arcRows \in Seq(Event)
  BY DEF ArchiveInv, ArchiveTypes
<1>11. arcRows' \in Seq(Event) /\ \A i \in DOMAIN arcRows' : RowLinked(arcRows'[i])
  <2>1. CASE arcRows' = arcRows
    BY <1>10, <2>1 DEF ArchiveInv, RowsLinked
  <2>2. ASSUME NEW n \in 1 .. ArcMaxRows - Len(arcRows),
               arcRows' = arcRows \o [i \in 1 .. n |-> row]
        PROVE  arcRows' \in Seq(Event) /\ \A i \in DOMAIN arcRows' : RowLinked(arcRows'[i])
    <3>1. PICK m \in Nat : m = Len(arcRows)
      BY <1>10
    <3>2. n \in Nat
      BY <2>2, <3>1, ArchiveAssumption
    <3>3. PICK t \in Seq(Event) : t = [i \in 1 .. n |-> row] /\ Len(t) = n
      <4>1. PICK t : t = [i \in 1 .. n |-> row]
        OBVIOUS
      <4>2. t \in [1 .. n -> Event]
        BY <1>9, <4>1
      <4>3. t \in Seq(Event) /\ Len(t) = n
        BY <3>2, <4>2
      <4>. QED
        BY <4>1, <4>3
    <3>4. arcRows' \in Seq(Event) /\ Len(arcRows') = m + n
      BY <1>10, <2>2, <3>1, <3>3
    <3>5. ASSUME NEW i \in 1 .. m + n PROVE RowLinked(arcRows'[i])
      <4>1. CASE i <= m
        <5>1. i \in DOMAIN arcRows /\ arcRows'[i] = arcRows[i]
          BY <1>10, <2>2, <3>1, <3>2, <3>3, <4>1
        <5>. QED
          BY <5>1 DEF ArchiveInv, RowsLinked
      <4>2. CASE i > m
        <5>1. i - m \in 1 .. n
          BY <3>1, <3>2, <4>2
        <5>2. arcRows'[i] = t[i - m]
          BY <1>10, <2>2, <3>1, <3>2, <3>3, <4>2
        <5>. QED
          BY <1>9, <3>3, <5>1, <5>2
      <4>. QED
        BY <3>1, <3>2, <4>1, <4>2
    <3>6. DOMAIN arcRows' = 1 .. m + n
      BY <3>4
    <3>. QED
      BY <3>4, <3>5, <3>6
  <2>. QED
    BY <1>5, <2>1, <2>2 DEF IngestLogBundle
<1>12. ArchiveTypes' /\ ReportsKept' /\ BackfillsKnow'
  BY <1>1, <1>2, <1>11 DEF ArchiveInv, ArchiveTypes, ReportsKept, BackfillsKnow
<1>13. RowsLinked'
  <2>1. ASSUME NEW i \in DOMAIN arcRows' PROVE RowLinked(arcRows[i])'
    <3>1. PICK new : new = arcRows'[i]
      OBVIOUS
    <3>2. RowLinked(new)
      BY <1>11, <3>1
    <3>3. Linkable(new.dev, new.art)' = Linkable(new.dev, new.art) /\ UNCHANGED arcCovered
      BY <1>1, <1>3
    <3>. QED
      BY <3>1, <3>2, <3>3 DEF RowLinked
  <2>. QED
    BY <2>1 DEF RowsLinked
<1>. QED
  BY <1>4, <1>12, <1>13 DEF ArchiveInv

\* Uploads, releases and bindings, up to the backfill.
LEMMA RequestInv ==
  ASSUME ArchiveInv, NEW u \in ArcRequests,
         \/ UploadArtifact(u) \/ ImportArtifact(u) \/ CreateFirmwareRelease(u) \/ StoreRelease(u)
         \/ BindArtifact(u) \/ BackfillReads(u) \/ RequestDies(u)
  PROVE  ArchiveInv'
<1>. USE DEF UnchangedByRequests
<1>1. UNCHANGED <<arcRows, arcIngest, arcCovered>>
  BY DEF UploadArtifact, ImportArtifact, CreateFirmwareRelease, StoreRelease, BindArtifact,
         BackfillReads, RequestDies
<1>2. /\ arcFw \in [ArcDevices -> Firmware] /\ arcArts \subseteq ArcProjects \X ArcBuilds
      /\ ReportsKept /\ DOMAIN arcIngest = ArcDevices /\ arcRows \in Seq(Event)
  BY DEF ArchiveInv, ArchiveTypes
<1>3. ASSUME NEW w, arcReq' = [arcReq EXCEPT ![u] = w],
             arcArts \subseteq arcArts', arcArts' \subseteq ArcProjects \X ArcBuilds,
             arcEver \subseteq arcEver', arcFw' \in [ArcDevices -> Firmware], ReportsKept',
             w.pc = "import" => w.proj \in ArcProjects /\ w.build \in ArcBuilds,
             w.pc \in {"backfill", "update"} => <<w.proj, w.build>> \in arcArts',
             w.pc = "update" => \A d \in w.devices :
               d \in ArcDevices /\ ArcHome[d] = w.proj /\ <<d, w.build>> \in arcEver'
      PROVE  ArchiveInv'
  <2>1. DOMAIN arcReq' = ArcRequests /\ BackfillsKnow'
    BY <1>3, RequestStep
  <2>2. IngestsResolved' /\ RowsLinked'
    BY <1>1, <1>3, LinksStay
  <2>3. ArchiveTypes'
    BY <1>1, <1>2, <1>3, <2>1 DEF ArchiveTypes
  <2>. QED
    BY <1>3, <2>1, <2>2, <2>3 DEF ArchiveInv
<1>4. ReportsKept' <=> (\A d \in ArcDevices : arcFw'[d] # "none" => <<d, arcFw'[d]>> \in arcEver')
  BY DEF ReportsKept
<1>5. UNCHANGED <<arcFw, arcEver>> => arcFw' \in [ArcDevices -> Firmware] /\ ReportsKept'
  BY <1>2, <1>4 DEF ReportsKept
<1>6. CASE UploadArtifact(u)
  <2>1. PICK p \in ArcProjects, b \in ArcBuilds :
          arcReq' = [arcReq EXCEPT ![u] = [pc |-> "import", proj |-> p, build |-> b,
                                           existed |-> <<p, b>> \in arcArts]]
    BY <1>6 DEF UploadArtifact
  <2>2. PICK w : w = [pc |-> "import", proj |-> p, build |-> b, existed |-> <<p, b>> \in arcArts]
    OBVIOUS
  <2>3. w.pc = "import" /\ w.proj = p /\ w.build = b
    BY <2>2
  <2>4. arcReq' = [arcReq EXCEPT ![u] = w] /\ UNCHANGED <<arcFw, arcEver, arcArts>>
    BY <1>6, <2>1, <2>2 DEF UploadArtifact
  <2>. QED
    BY <1>2, <1>3, <1>5, <2>3, <2>4
<1>7. CASE ImportArtifact(u)
  <2>1. PICK p \in ArcProjects, b \in ArcBuilds : p = arcReq[u].proj /\ b = arcReq[u].build
    BY <1>7 DEF ImportArtifact, ArchiveInv, BackfillsKnow
  <2>2. PICK w : /\ arcReq' = [arcReq EXCEPT ![u] = w]
                 /\ w = IF arcReq[u].existed THEN [pc |-> "done"]
                        ELSE [pc |-> "backfill", proj |-> p, build |-> b]
    BY <1>7, <2>1 DEF ImportArtifact
  <2>3. w.pc = "done" \/ (w.pc = "backfill" /\ w.proj = p /\ w.build = b)
    BY <2>2
  <2>4. arcArts' = arcArts \cup {<<p, b>>} /\ UNCHANGED <<arcFw, arcEver>>
    BY <1>7, <2>1 DEF ImportArtifact
  <2>5. arcReq' = [arcReq EXCEPT ![u] = w]
    BY <2>2
  <2>6. /\ arcArts \subseteq arcArts' /\ arcArts' \subseteq ArcProjects \X ArcBuilds
        /\ w.pc \in {"backfill", "update"} => <<w.proj, w.build>> \in arcArts'
    BY <1>2, <2>3, <2>4
  <2>7. w.pc # "import" /\ w.pc # "update"
    BY <2>3
  <2>8. arcFw' \in [ArcDevices -> Firmware] /\ ReportsKept' /\ arcEver \subseteq arcEver'
    BY <1>5, <2>4
  <2>. QED
    BY <1>3, <2>5, <2>6, <2>7, <2>8
<1>8. CASE CreateFirmwareRelease(u)
  <2>1. PICK p \in ArcProjects, b \in ArcBuilds \cup {"none"} :
          /\ arcArts' = IF b = "none" THEN arcArts ELSE arcArts \cup {<<p, b>>}
          /\ arcReq' = [arcReq EXCEPT ![u] = [pc |-> "release", proj |-> p, build |-> b]]
    BY <1>8 DEF CreateFirmwareRelease
  <2>2. PICK w : w = [pc |-> "release", proj |-> p, build |-> b]
    OBVIOUS
  <2>3. w.pc = "release" /\ arcReq' = [arcReq EXCEPT ![u] = w]
    BY <2>1, <2>2
  <2>4. arcArts \subseteq arcArts' /\ arcArts' \subseteq ArcProjects \X ArcBuilds
    BY <1>2, <2>1
  <2>5. UNCHANGED <<arcFw, arcEver>>
    BY <1>8 DEF CreateFirmwareRelease
  <2>. QED
    BY <1>3, <1>5, <2>3, <2>4, <2>5
<1>9. CASE StoreRelease(u) \/ RequestDies(u)
  <2>1. PICK w : w = [pc |-> "done"]
    OBVIOUS
  <2>2. /\ w.pc = "done" /\ arcReq' = [arcReq EXCEPT ![u] = w]
        /\ UNCHANGED <<arcFw, arcEver, arcArts>>
    BY <1>9, <2>1 DEF StoreRelease, RequestDies
  <2>. QED
    BY <1>2, <1>3, <1>5, <2>2
<1>10. CASE BindArtifact(u)
  <2>1. PICK d \in ArcDevices, b \in ArcBuilds :
          /\ <<ArcHome[d], b>> \in arcArts /\ SetFirmware(d, b)
          /\ arcReq' = [arcReq EXCEPT ![u] = [pc |-> "backfill", proj |-> ArcHome[d], build |-> b]]
    BY <1>10 DEF BindArtifact
  <2>2. PICK w : w = [pc |-> "backfill", proj |-> ArcHome[d], build |-> b]
    OBVIOUS
  <2>3. w.pc = "backfill" /\ w.proj = ArcHome[d] /\ w.build = b
    BY <2>2
  <2>4. /\ arcFw' \in [ArcDevices -> Firmware] /\ ReportsKept' /\ arcEver \subseteq arcEver'
    BY <2>1, ReportInv
  <2>5. UNCHANGED arcArts /\ arcReq' = [arcReq EXCEPT ![u] = w] /\ <<ArcHome[d], b>> \in arcArts
    BY <1>10, <2>1, <2>2 DEF BindArtifact
  <2>. QED
    BY <1>2, <1>3, <2>3, <2>4, <2>5
<1>11. CASE BackfillReads(u)
  <2>1. PICK p, b : p = arcReq[u].proj /\ b = arcReq[u].build
    OBVIOUS
  <2>2. <<p, b>> \in arcArts
    BY <1>11, <2>1 DEF BackfillReads, ArchiveInv, BackfillsKnow
  <2>3. b # "none"
    BY <1>2, <2>2, ArchiveAssumption
  <2>4. PICK w : w = [pc |-> "update", proj |-> p, build |-> b, devices |-> DevicesOfBuild(p, b)]
    OBVIOUS
  <2>5. w.pc = "update" /\ w.proj = p /\ w.build = b /\ w.devices = DevicesOfBuild(p, b)
    BY <2>4
  <2>6. /\ arcReq' = [arcReq EXCEPT ![u] = w]
        /\ UNCHANGED <<arcFw, arcEver, arcArts>>
    BY <1>11, <2>1, <2>4 DEF BackfillReads
  <2>7. \A d \in DevicesOfBuild(p, b) : d \in ArcDevices /\ ArcHome[d] = p /\ <<d, b>> \in arcEver
    BY <1>2, <2>3 DEF DevicesOfBuild, ReportsKept
  <2>. QED
    BY <1>2, <1>3, <1>5, <2>2, <2>5, <2>6, <2>7
<1>. QED
  BY <1>6, <1>7, <1>8, <1>9, <1>10, <1>11

\* The events of the devices a backfill has read are linked.
LEMMA BackfillInv ==
  ASSUME ArchiveInv, NEW u \in ArcRequests, BackfillDecodeState(u)
  PROVE  ArchiveInv'
<1>1. PICK p, b, D : p = arcReq[u].proj /\ b = arcReq[u].build /\ D = arcReq[u].devices
  OBVIOUS
<1>2. /\ <<p, b>> \in arcArts
      /\ \A d \in D : d \in ArcDevices /\ ArcHome[d] = p /\ <<d, b>> \in arcEver
  BY <1>1 DEF BackfillDecodeState, ArchiveInv, BackfillsKnow
<1>3. b \in ArcBuilds /\ b # "none" /\ b \in Firmware
  BY <1>2, ArchiveAssumption DEF ArchiveInv, ArchiveTypes, Firmware
<1>4. /\ arcRows' = [i \in DOMAIN arcRows |->
           IF arcRows[i].art = "none" /\ arcRows[i].dev \in D
           THEN [arcRows[i] EXCEPT !.art = b] ELSE arcRows[i]]
      /\ arcCovered' = arcCovered \cup {<<d, b>> : d \in D}
      /\ arcReq' = [arcReq EXCEPT ![u] = [pc |-> "done"]]
      /\ UNCHANGED <<arcFw, arcArts, arcIngest, arcEver>>
  BY <1>1 DEF BackfillDecodeState
<1>5. PICK w : w = [pc |-> "done"]
  OBVIOUS
<1>6. w.pc = "done" /\ arcReq' = [arcReq EXCEPT ![u] = w]
  BY <1>4, <1>5
<1>7. DOMAIN arcReq' = ArcRequests /\ BackfillsKnow'
  BY <1>4, <1>6, RequestStep
<1>8. arcRows \in Seq(Event)
  BY DEF ArchiveInv, ArchiveTypes
<1>9. PICK m \in Nat : m = Len(arcRows) /\ DOMAIN arcRows = 1 .. m
  BY <1>8
<1>10. \A e, f : Linkable(e, f)' = Linkable(e, f)
  BY <1>4 DEF Linkable
<1>11. ASSUME NEW i \in 1 .. m
       PROVE  arcRows'[i] \in Event /\ RowLinked(arcRows[i])'
  <2>1. PICK row \in Event : row = arcRows[i]
    BY <1>8, <1>9
  <2>2. RowLinked(row)
    BY <1>9, <2>1 DEF ArchiveInv, RowsLinked
  <2>3. CASE row.art = "none" /\ row.dev \in D
    <3>1. PICK new : new = [row EXCEPT !.art = b]
      OBVIOUS
    <3>2. /\ new \in Event /\ new.art = b /\ new.dev = row.dev /\ new.known = row.known
      BY <1>3, <3>1 DEF Event
    <3>3. arcRows'[i] = new
      BY <1>4, <1>9, <2>1, <2>3, <3>1
    <3>4. Linkable(new.dev, b)
      BY <1>2, <2>3, <3>2 DEF Linkable
    <3>5. ~new.known /\ <<new.dev, b>> \in arcCovered'
      BY <1>4, <2>2, <2>3, <3>2 DEF RowLinked
    <3>. QED
      BY <1>3, <1>10, <3>2, <3>3, <3>4, <3>5 DEF RowLinked
  <2>4. CASE ~(row.art = "none" /\ row.dev \in D)
    <3>1. arcRows'[i] = row
      BY <1>4, <1>9, <2>1, <2>4
    <3>2. row.art = "none" /\ <<row.dev, row.fw>> \in arcCovered' => <<row.dev, row.fw>> \in arcCovered
      BY <1>4, <2>4
    <3>3. arcCovered \subseteq arcCovered'
      BY <1>4
    <3>. QED
      BY <1>10, <2>2, <3>1, <3>2, <3>3 DEF RowLinked
  <2>. QED
    BY <2>3, <2>4
<1>12. arcRows' \in Seq(Event) /\ DOMAIN arcRows' = 1 .. m
  <2>1. DOMAIN arcRows' = 1 .. m
    BY <1>4, <1>9
  <2>2. arcRows' \in [1 .. m -> Event]
    BY <1>4, <1>9, <1>11
  <2>. QED
    BY <1>9, <2>1, <2>2
<1>13. RowsLinked'
  BY <1>11, <1>12 DEF RowsLinked
<1>14. IngestsResolved' /\ ReportsKept'
  BY <1>4, <1>10 DEF ArchiveInv, IngestsResolved, ReportsKept
<1>15. ArchiveTypes'
  BY <1>4, <1>7, <1>12 DEF ArchiveInv, ArchiveTypes
<1>. QED
  BY <1>7, <1>13, <1>14, <1>15 DEF ArchiveInv

\* Every step of the archive keeps the invariant.
LEMMA ArchiveNextInv == ArchiveInv /\ [ArchiveNext]_arcVars => ArchiveInv'
<1>. SUFFICES ASSUME ArchiveInv, [ArchiveNext]_arcVars PROVE ArchiveInv'
  OBVIOUS
<1>1. ASSUME NEW d \in ArcDevices, NEW b \in ArcBuilds, ReportFirmware(d, b)
      PROVE  ArchiveInv'
  <2>1. UNCHANGED <<arcArts, arcRows, arcIngest, arcReq, arcCovered>> /\ SetFirmware(d, b)
    BY <1>1 DEF ReportFirmware
  <2>2. arcFw' \in [ArcDevices -> Firmware] /\ ReportsKept' /\ arcEver \subseteq arcEver'
    BY <2>1, ReportInv
  <2>3. IngestsResolved' /\ RowsLinked'
    BY <2>1, <2>2, LinksStay
  <2>4. BackfillsKnow'
    BY <2>1, <2>2 DEF ArchiveInv, BackfillsKnow
  <2>5. ArchiveTypes'
    BY <2>1, <2>2 DEF ArchiveInv, ArchiveTypes
  <2>. QED
    BY <2>2, <2>3, <2>4, <2>5 DEF ArchiveInv
<1>2. CASE UNCHANGED arcVars
  <2>1. UNCHANGED <<arcFw, arcArts, arcRows, arcIngest, arcReq, arcCovered, arcEver>>
    BY <1>2 DEF arcVars
  <2>2. IngestsResolved' /\ RowsLinked'
    BY <2>1, LinksStay
  <2>. QED
    BY <2>1, <2>2 DEF ArchiveInv, ArchiveTypes, ReportsKept, BackfillsKnow
<1>. QED
  BY <1>1, <1>2, ResolveInv, IngestInv, RequestInv, BackfillInv DEF ArchiveNext

\* However imports, releases, bindings, backfills and ingests interleave and
\* whatever statement of them fails, an event keeps the artifact of the build
\* its device ran, or gets one of a build a backfill found the device on, both
\* of its own project, and a backfill misses only events whose ingest was on
\* its way (ingest.ts, artifact.ts, release.ts).
THEOREM EventsAreLinked == ArchiveSpec => []EventsLinked
<1>1. ArchiveInv /\ [ArchiveNext]_arcVars => ArchiveInv'
  BY ArchiveNextInv
<1>2. ArchiveInv => EventsLinked
  BY DEF ArchiveInv, RowsLinked, RowLinked, Linkable, EventsLinked
<1>. QED
  BY <1>1, <1>2, ArchiveInitInv, PTL DEF ArchiveSpec

-----------------------------------------------------------------------------
(* Lists read piece by piece.                                               *)

ListRow == [at : Nat, id : Nat]

ListTypes ==
  /\ listKind \in Lists /\ listNow \in Nat
  /\ listRows \subseteq ListRow /\ IsFiniteSet(listRows)
  /\ listOut \in Seq(ListRow) /\ listMore \in {"new", "more", "end"}
  /\ listOld \subseteq listRows
  /\ listMore = "new" => listOut = <<>> /\ listOld = {}

\* A row is known by its id, and what was read are rows.
RowsKnown ==
  /\ \A r, s \in listRows : r.id = s.id => r = s
  /\ \A i \in DOMAIN listOut : listOut[i] \in listRows

\* A cursor: what was read is in order and complete up to its last row.
CursorReads ==
  listKind \notin ByOffset =>
    /\ \A i, j \in DOMAIN listOut : i < j => Precedes(listOut[i], listOut[j])
    /\ listKind = "export" => Len(listOut) <= ListLimit
    /\ \A r \in listOld :
         InWindow(r) /\ (\/ listMore = "end" /\ ~Stopped
                         \/ listOut # <<>> /\ Precedes(r, listOut[Len(listOut)])) => Listed(r)

Before(r) == {s \in listRows : Precedes(s, r)}

\* Offsets: an old row that is alone at its place was read, or its place has
\* not been reached.
OffsetReads ==
  listKind \in ByOffset =>
    /\ Len(listOut) <= Cardinality(listRows)
    /\ \A r \in listOld : Alone(r) =>
         Listed(r) \/ (listMore # "end" /\ Len(listOut) <= Cardinality(Before(r)))

ListInv == ListTypes /\ RowsKnown /\ CursorReads /\ OffsetReads

\* Every list is in a strict order; that of a list read by a cursor is total.
LEMMA OrderFacts ==
  ASSUME listKind \in Lists, NEW r \in ListRow, NEW s \in ListRow, NEW t \in ListRow
  PROVE  /\ ~Precedes(r, r)
         /\ Precedes(r, s) /\ Precedes(s, t) => Precedes(r, t)
         /\ listKind \notin ByOffset /\ r.id # s.id => Precedes(r, s) \/ Precedes(s, r)
<1>. USE DEF Lists, ByOffset
<1>1. r.at \in Nat /\ r.id \in Nat /\ s.at \in Nat /\ s.id \in Nat /\ t.at \in Nat /\ t.id \in Nat
  BY DEF ListRow
<1>2. CASE listKind = "export"
  BY <1>1, <1>2 DEF Precedes
<1>3. CASE listKind = "releases"
  BY <1>1, <1>3 DEF Precedes
<1>4. CASE listKind \in {"logs", "commands"}
  BY <1>1, <1>4 DEF Precedes
<1>5. CASE listKind = "devices"
  BY <1>1, <1>5 DEF Precedes
<1>6. CASE listKind \in {"jobs", "rollouts"}
  BY <1>1, <1>6 DEF Precedes
<1>. QED
  BY <1>2, <1>3, <1>4, <1>5, <1>6

\* The order depends on the kind of the list alone.
LEMMA OrderStays ==
  ASSUME UNCHANGED listKind, NEW r, NEW s
  PROVE  Precedes(r, s)' = Precedes(r, s)
  BY DEF Precedes

\* u is s, of length m, and then t, of length n.
Joins(u, s, t, S, m, n) ==
  /\ m = Len(s) /\ n = Len(t) /\ u \in Seq(S) /\ Len(u) = m + n
  /\ DOMAIN u = 1 .. m + n /\ DOMAIN s = 1 .. m /\ DOMAIN t = 1 .. n
  /\ \A i \in 1 .. m : u[i] = s[i]
  /\ \A i \in 1 .. m + n : i > m => i - m \in 1 .. n /\ u[i] = t[i - m]

\* A sequence and what is appended to it.
LEMMA Appended ==
  ASSUME NEW S, NEW s \in Seq(S), NEW t \in Seq(S), NEW u, u = s \o t
  PROVE  \E m, n \in Nat : Joins(u, s, t, S, m, n)
<1>1. PICK m \in Nat : m = Len(s)
  OBVIOUS
<1>2. PICK n \in Nat : n = Len(t)
  OBVIOUS
<1>3. u \in Seq(S) /\ Len(u) = m + n
  BY <1>1, <1>2
<1>4. DOMAIN u = 1 .. m + n /\ DOMAIN s = 1 .. m /\ DOMAIN t = 1 .. n
  BY <1>1, <1>2, <1>3
<1>5. \A i \in 1 .. m : u[i] = s[i]
  BY <1>1, <1>2
<1>6. \A i \in 1 .. m + n : i > m => i - m \in 1 .. n /\ u[i] = t[i - m]
  BY <1>1, <1>2
<1>. QED
  BY <1>1, <1>2, <1>3, <1>4, <1>5, <1>6 DEF Joins

\* What a cursor has come past was read.
LEMMA PastIsListed ==
  ASSUME ListInv, listKind \notin ByOffset, NEW r \in listOld, InWindow(r), r \notin Behind
  PROVE  Listed(r)
<1>1. r \in listRows /\ r \in ListRow /\ listOut \in Seq(ListRow) /\ listKind \in Lists
  BY DEF ListInv, ListTypes
<1>2. listOut # <<>> /\ ~Precedes(listOut[Len(listOut)], r)
  BY <1>1 DEF Behind, AfterCursor
<1>3. PICK m \in Nat : m = Len(listOut) /\ m \in DOMAIN listOut
  BY <1>1, <1>2
<1>4. PICK last \in ListRow : last = listOut[m]
  BY <1>1, <1>3
<1>5. last \in listRows
  BY <1>3, <1>4 DEF ListInv, RowsKnown
<1>6. CASE r.id = last.id
  <2>1. r = last
    BY <1>1, <1>5, <1>6 DEF ListInv, RowsKnown
  <2>. QED
    BY <1>3, <1>4, <2>1 DEF Listed
<1>7. CASE r.id # last.id
  <2>1. Precedes(r, last)
    BY <1>1, <1>2, <1>3, <1>4, <1>7, OrderFacts
  <2>. QED
    BY <1>2, <1>3, <1>4, <2>1 DEF ListInv, CursorReads
<1>. QED
  BY <1>6, <1>7

\* A piece is read by a cursor: rows behind it, in order, with none left out
\* before the last of them, and none at all when the list ends.
LEMMA PieceStep ==
  ASSUME ListInv, listKind \notin ByOffset, listMore = "more",
         UNCHANGED <<listKind, listNow, listRows, listFrom, listTo, listOld>>,
         NEW piece \in Seq(ListRow), listOut' = listOut \o piece,
         \A i \in DOMAIN piece : piece[i] \in Behind,
         \A i, j \in DOMAIN piece : i < j => Precedes(piece[i], piece[j]),
         \A r \in Behind : \/ \E i \in DOMAIN piece : piece[i] = r
                           \/ \A i \in DOMAIN piece : Precedes(piece[i], r),
         listMore' \in {"more", "end"},
         listMore' = "end" =>
           Stopped' \/ \A r \in Behind : \E i \in DOMAIN piece : piece[i] = r,
         listKind = "export" => Len(listOut) + Len(piece) <= ListLimit
  PROVE  ListInv'
<1>1. listOut \in Seq(ListRow) /\ listKind \in Lists /\ listRows \subseteq ListRow
  BY DEF ListInv, ListTypes
<1>2a. PICK m, n \in Nat : Joins(listOut', listOut, piece, ListRow, m, n)
  BY <1>1, Appended
<1>2. /\ m = Len(listOut) /\ n = Len(piece) /\ listOut' \in Seq(ListRow) /\ Len(listOut') = m + n
      /\ DOMAIN listOut' = 1 .. m + n /\ DOMAIN listOut = 1 .. m /\ DOMAIN piece = 1 .. n
      /\ \A i \in 1 .. m : listOut'[i] = listOut[i]
      /\ \A i \in 1 .. m + n : i > m => i - m \in 1 .. n /\ listOut'[i] = piece[i - m]
  BY <1>2a DEF Joins
<1>3. \A i \in 1 .. n : i + m \in 1 .. m + n /\ listOut'[i + m] = piece[i]
  <2>1. ASSUME NEW i \in 1 .. n PROVE i + m \in 1 .. m + n /\ listOut'[i + m] = piece[i]
    <3>1. PICK k \in 1 .. m + n : k = i + m /\ k > m /\ k - m = i
      OBVIOUS
    <3>2. listOut'[k] = piece[k - m]
      BY <1>2, <3>1
    <3>. QED
      BY <3>1, <3>2
  <2>. QED
    BY <2>1
<1>4. ListTypes'
  <2>1. listOut' \in Seq(ListRow)
    BY <1>2
  <2>2. listMore' \in {"new", "more", "end"} /\ listMore' # "new"
    OBVIOUS
  <2>. QED
    BY <2>1, <2>2 DEF ListInv, ListTypes
<1>5. \A i \in 1 .. n : piece[i] \in listRows
  BY <1>2 DEF Behind
<1>6. RowsKnown'
  <2>1. ASSUME NEW i \in 1 .. m + n PROVE listOut'[i] \in listRows
    <3>1. CASE i <= m
      BY <1>2, <3>1 DEF ListInv, RowsKnown
    <3>2. CASE i > m
      BY <1>2, <1>5, <3>2
    <3>. QED
      BY <1>2, <3>1, <3>2
  <2>. QED
    BY <1>2, <2>1 DEF ListInv, RowsKnown
<1>7. \A r, s : Precedes(r, s)' = Precedes(r, s)
  BY OrderStays
<1>8. \A r : InWindow(r)' = InWindow(r)
  BY DEF InWindow
<1>9. \A r : Listed(r) => Listed(r)'
  <2>1. ASSUME NEW r, Listed(r) PROVE Listed(r)'
    <3>1. PICK i \in 1 .. m : listOut[i] = r
      BY <1>2, <2>1 DEF Listed
    <3>2. i \in 1 .. m + n
      BY <1>2
    <3>. QED
      BY <1>2, <3>1, <3>2 DEF Listed
  <2>. QED
    BY <2>1
<1>10. \A i \in 1 .. n : Listed(piece[i])'
  BY <1>2, <1>3 DEF Listed
<1>11. ASSUME NEW i \in 1 .. m + n, NEW j \in 1 .. m + n, i < j
       PROVE  Precedes(listOut'[i], listOut'[j])
  <2>1. CASE j <= m
    <3>1. i \in 1 .. m /\ j \in 1 .. m
      BY <1>2, <1>11, <2>1
    <3>. QED
      BY <1>2, <1>11, <3>1 DEF ListInv, CursorReads
  <2>2. CASE i > m
    <3>1. i - m \in 1 .. n /\ j - m \in 1 .. n /\ i - m < j - m
      BY <1>2, <1>11, <2>2
    <3>2. listOut'[i] = piece[i - m] /\ listOut'[j] = piece[j - m]
      BY <1>2, <1>11, <2>2
    <3>3. PICK a, c \in DOMAIN piece : a = i - m /\ c = j - m /\ a < c
      BY <1>2, <3>1
    <3>4. Precedes(piece[a], piece[c])
      BY <3>3
    <3>. QED
      BY <3>2, <3>3, <3>4
  <2>3. CASE i <= m /\ j > m
    <3>1. i \in 1 .. m /\ m \in 1 .. m /\ j - m \in 1 .. n
      BY <1>2, <2>3
    <3>2. PICK a \in ListRow : a = listOut[i] /\ a = listOut'[i]
      BY <1>1, <1>2, <3>1
    <3>3. PICK last \in ListRow : last = listOut[m]
      BY <1>1, <1>2, <3>1
    <3>4. PICK c \in ListRow : c = piece[j - m] /\ c = listOut'[j] /\ c \in Behind
      BY <1>1, <1>2, <2>3, <3>1 DEF Behind
    <3>5. listOut # <<>>
      BY <1>1, <1>2, <3>1
    <3>6. Precedes(last, c)
      BY <1>2, <3>3, <3>4, <3>5 DEF Behind, AfterCursor
    <3>7. a = last \/ Precedes(a, last)
      <4>1. CASE i = m
        BY <3>2, <3>3, <4>1
      <4>2. CASE i # m
        <5>1. i < m
          BY <1>2, <2>3, <4>2
        <5>2. i \in DOMAIN listOut /\ m \in DOMAIN listOut
          BY <1>2, <3>1
        <5>3. Precedes(listOut[i], listOut[m])
          BY <5>1, <5>2 DEF ListInv, CursorReads
        <5>. QED
          BY <3>2, <3>3, <5>3
      <4>. QED
        BY <4>1, <4>2
    <3>8. Precedes(a, c)
      BY <1>1, <3>6, <3>7, OrderFacts
    <3>. QED
      BY <3>2, <3>4, <3>8
  <2>. QED
    BY <1>2, <2>1, <2>2, <2>3
<1>12. ASSUME NEW r \in listOld, InWindow(r),
              \/ listMore' = "end" /\ ~Stopped'
              \/ listOut' # <<>> /\ Precedes(r, listOut'[m + n])
       PROVE  Listed(r)'
  <2>1. CASE r \notin Behind
    BY <1>9, <1>12, <2>1, PastIsListed
  <2>2. CASE r \in Behind
    <3>1. CASE \E i \in DOMAIN piece : piece[i] = r
      BY <1>2, <1>10, <3>1
    <3>2. CASE ~\E i \in DOMAIN piece : piece[i] = r
      <4>1. \A i \in 1 .. n : Precedes(piece[i], r)
        BY <1>2, <2>2, <3>2
      <4>2. listOut' # <<>> /\ Precedes(r, listOut'[m + n])
        BY <1>12, <2>2, <3>2
      <4>3. r \in ListRow
        BY <1>1, <2>2 DEF Behind
      <4>4. CASE n = 0
        <5>1. listOut # <<>> /\ m \in 1 .. m /\ listOut'[m + n] = listOut[m]
          BY <1>1, <1>2, <4>2, <4>4
        <5>. QED
          BY <1>2, <1>9, <1>12, <4>2, <5>1 DEF ListInv, CursorReads
      <4>5. CASE n # 0
        <5>1. n \in 1 .. n /\ listOut'[n + m] = piece[n] /\ n + m = m + n
          BY <1>2, <1>3, <4>5
        <5>2. PICK last \in ListRow : last = piece[n]
          BY <1>2, <5>1
        <5>3. Precedes(last, r) /\ Precedes(r, last)
          BY <4>1, <4>2, <5>1, <5>2
        <5>. QED
          BY <1>1, <4>3, <5>3, OrderFacts
      <4>. QED
        BY <4>4, <4>5
    <3>. QED
      BY <3>1, <3>2
  <2>. QED
    BY <2>1, <2>2
<1>13. CursorReads'
  <2>1. listKind = "export" => Len(listOut') <= ListLimit
    BY <1>2
  <2>2. \A i, j \in DOMAIN listOut' : i < j => Precedes(listOut'[i], listOut'[j])
    BY <1>2, <1>11
  <2>3. ASSUME NEW r \in listOld', InWindow(r)',
               \/ listMore' = "end" /\ ~Stopped'
               \/ listOut' # <<>> /\ Precedes(r, listOut[Len(listOut)])'
        PROVE  Listed(r)'
    <3>1. Len(listOut') = m + n
      BY <1>2
    <3>2. Precedes(r, listOut[Len(listOut)])' = Precedes(r, listOut'[m + n])
      BY <3>1, OrderStays
    <3>. QED
      BY <1>8, <1>12, <2>3, <3>2
  <2>4. \A i, j \in DOMAIN listOut' : i < j => Precedes(listOut[i], listOut[j])'
    BY <1>7, <2>2
  <2>. QED
    BY <2>1, <2>3, <2>4 DEF CursorReads
<1>14. OffsetReads'
  BY DEF OffsetReads
<1>. QED
  BY <1>4, <1>6, <1>13, <1>14 DEF ListInv

\* What a query answers.
LEMMA QueryIs ==
  ASSUME ListInv, NEW size \in Nat, NEW q \in Query(size)
  PROVE  /\ q \in Seq(ListRow) /\ Len(q) <= size
         /\ \A i \in DOMAIN q : q[i] \in Behind
         /\ \A i, j \in DOMAIN q : i < j => Precedes(q[i], q[j])
         /\ \A r \in Behind : \/ \E i \in DOMAIN q : q[i] = r
                              \/ Len(q) = size /\ \A i \in DOMAIN q : Precedes(q[i], r)
<1>1. PICK n \in 0 .. size : q \in [1 .. n -> Behind]
  BY DEF Query
<1>2. Behind \subseteq ListRow
  BY DEF ListInv, ListTypes, Behind
<1>3. q \in [1 .. n -> ListRow] /\ n \in Nat
  BY <1>1, <1>2
<1>4. q \in Seq(ListRow) /\ Len(q) = n
  BY <1>3
<1>5. Len(q) <= size
  BY <1>1, <1>4
<1>6. \A i \in DOMAIN q : q[i] \in Behind
  BY <1>1
<1>. QED
  BY <1>4, <1>5, <1>6 DEF Query

\* The export reads on.
LEMMA ExportInv == ASSUME ListInv, ExportPull PROVE ListInv'
<1>1. /\ listKind = "export" /\ listMore = "more" /\ listKind \notin ByOffset
      /\ UNCHANGED <<listKind, listNow, listRows, listFrom, listTo, listOld>>
  BY DEF ExportPull, ByOffset
<1>2. PICK m \in Nat : m = Len(listOut) /\ m <= ListLimit
  BY <1>1 DEF ListInv, ListTypes, CursorReads
<1>3. PICK size \in Nat : size = Lesser(ListPage, ListLimit - m) /\ size <= ListLimit - m
                          /\ (size = 0 => m = ListLimit)
  <2>1. PICK d \in Nat : d = ListLimit - m
    BY <1>2, ListingsAssumption
  <2>2. CASE ListPage <= d
    <3>1. Lesser(ListPage, ListLimit - m) = ListPage
      BY <2>1, <2>2 DEF Lesser
    <3>. QED
      BY <2>1, <2>2, <3>1, ListingsAssumption
  <2>3. CASE ~(ListPage <= d)
    <3>1. Lesser(ListPage, ListLimit - m) = d
      BY <2>1, <2>3 DEF Lesser
    <3>. QED
      BY <1>2, <2>1, <3>1, ListingsAssumption
  <2>. QED
    BY <2>2, <2>3
<1>4. PICK q \in Query(size) : /\ listOut' = listOut \o q
                               /\ listMore' = IF q = <<>> THEN "end" ELSE "more"
  BY <1>2, <1>3 DEF ExportPull
<1>5. /\ q \in Seq(ListRow) /\ Len(q) <= size
      /\ \A i \in DOMAIN q : q[i] \in Behind
      /\ \A i, j \in DOMAIN q : i < j => Precedes(q[i], q[j])
      /\ \A r \in Behind : \/ \E i \in DOMAIN q : q[i] = r
                           \/ Len(q) = size /\ \A i \in DOMAIN q : Precedes(q[i], r)
  BY QueryIs
<1>6. Len(listOut) + Len(q) <= ListLimit
  <2>1. PICK n \in Nat : n = Len(q) /\ n <= size
    BY <1>5
  <2>. QED
    BY <1>2, <1>3, <2>1, ListingsAssumption
<1>7. ASSUME listMore' = "end"
      PROVE  Stopped' \/ \A r \in Behind : \E i \in DOMAIN q : q[i] = r
  <2>1. q = <<>>
    BY <1>4, <1>7
  <2>2. Len(q) = 0 /\ listOut' = listOut
    BY <1>4, <2>1 DEF ListInv, ListTypes
  <2>3. CASE size = 0
    BY <1>1, <1>2, <1>3, <2>2, <2>3 DEF Stopped
  <2>4. CASE size # 0
    BY <1>5, <2>2, <2>4
  <2>. QED
    BY <2>3, <2>4
<1>8. listMore' \in {"more", "end"}
  BY <1>4
<1>9. listOut' = listOut \o q
  BY <1>4
<1>10. \A r \in Behind : \/ \E i \in DOMAIN q : q[i] = r
                         \/ \A i \in DOMAIN q : Precedes(q[i], r)
  BY <1>5
<1>. QED
  BY <1>1, <1>5, <1>6, <1>7, <1>8, <1>9, <1>10, PieceStep

\* A page of logs is read.
LEMMA LogPageInv == ASSUME ListInv, LogPage PROVE ListInv'
<1>1. /\ listKind = "logs" /\ listMore = "more" /\ listKind \notin ByOffset
      /\ UNCHANGED <<listKind, listNow, listRows, listFrom, listTo, listOld>>
  BY DEF LogPage, ByOffset
<1>2. PICK q \in Query(ListPage) :
        /\ listOut' = listOut \o q
        /\ listMore' = IF Len(q) = ListPage THEN "more" ELSE "end"
  BY DEF LogPage
<1>3. /\ q \in Seq(ListRow)
      /\ \A i \in DOMAIN q : q[i] \in Behind
      /\ \A i, j \in DOMAIN q : i < j => Precedes(q[i], q[j])
      /\ \A r \in Behind : \/ \E i \in DOMAIN q : q[i] = r
                           \/ Len(q) = ListPage /\ \A i \in DOMAIN q : Precedes(q[i], r)
  BY QueryIs, ListingsAssumption
<1>4. listMore' = "end" => \A r \in Behind : \E i \in DOMAIN q : q[i] = r
  BY <1>2, <1>3
<1>5. listMore' \in {"more", "end"} /\ listOut' = listOut \o q
  BY <1>2
<1>6. \A r \in Behind : \/ \E i \in DOMAIN q : q[i] = r
                        \/ \A i \in DOMAIN q : Precedes(q[i], r)
  BY <1>3
<1>7. listKind = "export" => Len(listOut) + Len(q) <= ListLimit
  BY <1>1
<1>. QED
  BY <1>1, <1>3, <1>4, <1>5, <1>6, <1>7, PieceStep

\* A page of releases or commands is read, and one row more.
LEMMA PeekInv ==
  ASSUME ListInv, PageWithPeek, listKind \in {"releases", "commands"} PROVE ListInv'
<1>1. /\ listKind # "export" /\ listMore = "more" /\ listKind \notin ByOffset
      /\ UNCHANGED <<listKind, listNow, listRows, listFrom, listTo, listOld>>
  BY DEF PageWithPeek, ByOffset
<1>2. PICK q \in Query(ListPage + 1) :
        /\ listOut' = listOut \o SubSeq(q, 1, Lesser(ListPage, Len(q)))
        /\ listMore' = IF Len(q) > ListPage THEN "more" ELSE "end"
  BY DEF PageWithPeek
<1>3. /\ q \in Seq(ListRow)
      /\ \A i \in DOMAIN q : q[i] \in Behind
      /\ \A i, j \in DOMAIN q : i < j => Precedes(q[i], q[j])
      /\ \A r \in Behind : \/ \E i \in DOMAIN q : q[i] = r
                           \/ Len(q) = ListPage + 1 /\ \A i \in DOMAIN q : Precedes(q[i], r)
  <2>1. ListPage + 1 \in Nat
    BY ListingsAssumption
  <2>. QED
    BY <2>1, QueryIs
<1>4. PICK n \in Nat : n = Len(q) /\ DOMAIN q = 1 .. n
  BY <1>3
<1>5. PICK k \in Nat : k = Lesser(ListPage, n) /\ k <= n /\ k <= ListPage /\ (n <= ListPage => k = n)
  BY <1>4, ListingsAssumption DEF Lesser
<1>6. PICK p \in Seq(ListRow) : /\ p = SubSeq(q, 1, k) /\ DOMAIN p = 1 .. k
                                /\ \A i \in 1 .. k : p[i] = q[i]
  <2>1. PICK p : p = SubSeq(q, 1, k)
    OBVIOUS
  <2>2. p \in Seq(ListRow) /\ Len(p) = k
    BY <1>3, <1>4, <1>5, <2>1
  <2>3. \A i \in 1 .. k : p[i] = q[i]
    BY <1>3, <1>4, <1>5, <2>1
  <2>4. DOMAIN p = 1 .. k
    BY <2>2
  <2>. QED
    BY <2>1, <2>2, <2>3, <2>4, Zenon
<1>7. \A i \in 1 .. k : i \in 1 .. n
  BY <1>4, <1>5
<1>8. listOut' = listOut \o p /\ listMore' = IF n > ListPage THEN "more" ELSE "end"
  BY <1>2, <1>4, <1>5, <1>6
<1>9. \A i \in DOMAIN p : p[i] \in Behind
  BY <1>3, <1>4, <1>6, <1>7
<1>10. \A i, j \in DOMAIN p : i < j => Precedes(p[i], p[j])
  BY <1>3, <1>4, <1>6, <1>7
<1>11. ASSUME NEW r \in Behind, ~\E i \in DOMAIN p : p[i] = r
       PROVE  k < n /\ \A i \in DOMAIN p : Precedes(p[i], r)
  <2>1. CASE \E i \in DOMAIN q : q[i] = r
    <3>1. PICK i \in 1 .. n : q[i] = r
      BY <1>4, <2>1
    <3>2. i > k
      <4>1. ASSUME i <= k PROVE FALSE
        <5>1. i \in 1 .. k
          BY <1>4, <1>5, <4>1
        <5>2. i \in DOMAIN p /\ p[i] = r
          BY <1>6, <3>1, <5>1
        <5>. QED
          BY <1>11, <5>2
      <4>. QED
        BY <1>4, <1>5, <4>1
    <3>3. ASSUME NEW j \in 1 .. k PROVE Precedes(p[j], r)
      <4>1. j \in DOMAIN q /\ i \in DOMAIN q /\ j < i
        BY <1>4, <1>5, <1>7, <3>2
      <4>2. Precedes(q[j], q[i])
        BY <1>3, <4>1
      <4>. QED
        BY <1>6, <3>1, <4>2
    <3>. QED
      BY <1>4, <1>5, <1>6, <3>2, <3>3
  <2>2. CASE ~\E i \in DOMAIN q : q[i] = r
    <3>1. Len(q) = ListPage + 1 /\ \A i \in DOMAIN q : Precedes(q[i], r)
      BY <1>3, <2>2
    <3>2. k < n
      BY <1>4, <1>5, <3>1, ListingsAssumption
    <3>. QED
      BY <1>4, <1>6, <1>7, <3>1, <3>2
  <2>. QED
    BY <2>1, <2>2
<1>12. \A r \in Behind : \/ \E i \in DOMAIN p : p[i] = r
                         \/ \A i \in DOMAIN p : Precedes(p[i], r)
  BY <1>11
<1>13. listMore' = "end" => \A r \in Behind : \E i \in DOMAIN p : p[i] = r
  <2>1. listMore' = "end" => k = n
    BY <1>4, <1>5, <1>8, ListingsAssumption
  <2>. QED
    BY <1>4, <1>5, <1>11, <2>1
<1>14. listMore' \in {"more", "end"} /\ listOut' = listOut \o p
  BY <1>8
<1>15. listKind = "export" => Len(listOut) + Len(p) <= ListLimit
  BY <1>1
<1>. QED
  BY <1>1, <1>9, <1>10, <1>12, <1>13, <1>14, <1>15, PieceStep

\* Nobody has read anything.
LEMMA ListInitInv == ListingsInit => ListInv
<1>. SUFFICES ASSUME ListingsInit PROVE ListInv
  OBVIOUS
<1>1. IsFiniteSet({})
  BY FS_EmptySet
<1>2. ListTypes
  BY <1>1 DEF ListingsInit, ListTypes
<1>3. RowsKnown /\ CursorReads
  BY ListingsAssumption DEF ListingsInit, RowsKnown, CursorReads
<1>4. OffsetReads
  <2>1. Cardinality({}) = 0
    BY FS_EmptySet
  <2>. QED
    BY <2>1 DEF ListingsInit, OffsetReads
<1>. QED
  BY <1>2, <1>3, <1>4 DEF ListInv

\* The reader asks for the first time.
LEMMA BeginInv == ASSUME ListInv, BeginListing PROVE ListInv'
<1>1. /\ listMore = "new" /\ listMore' = "more" /\ listOld' = listRows
      /\ UNCHANGED <<listKind, listNow, listRows, listOut>>
  BY DEF BeginListing
<1>2. listOut = <<>> /\ listRows \subseteq ListRow /\ IsFiniteSet(listRows)
  BY <1>1 DEF ListInv, ListTypes
<1>3. ListTypes'
  BY <1>1 DEF ListInv, ListTypes
<1>4. RowsKnown'
  BY <1>1 DEF ListInv, RowsKnown
<1>5. CursorReads'
  BY <1>1, <1>2, ListingsAssumption DEF CursorReads
<1>6. OffsetReads'
  <2>1. ASSUME NEW r \in listRows PROVE Cardinality(Before(r))' \in Nat
    <3>1. Before(r)' \in SUBSET listRows
      BY <1>1 DEF Before
    <3>2. IsFiniteSet(Before(r)')
      BY <1>2, <3>1, FS_Subset
    <3>. QED
      BY <3>2, FS_CardinalityType
  <2>2. Cardinality(listRows) \in Nat
    BY <1>2, FS_CardinalityType
  <2>3. Len(listOut') = 0
    BY <1>1, <1>2
  <2>4. \A r \in listRows : 0 <= Cardinality(Before(r))'
    BY <2>1
  <2>. QED
    BY <1>1, <2>2, <2>3, <2>4 DEF OffsetReads
<1>. QED
  BY <1>3, <1>4, <1>5, <1>6 DEF ListInv

\* Rows are stored; none goes.
LEMMA StoreInv == ASSUME ListInv, StoreRows PROVE ListInv'
<1>1. PICK new \in SUBSET (ListIds \ {r.id : r \in listRows}) :
        listRows' = listRows \cup {[at |-> listNow, id |-> i] : i \in new}
  BY DEF StoreRows
<1>2. UNCHANGED <<listKind, listNow, listFrom, listTo, listOut, listMore, listOld>>
  BY DEF StoreRows, listReader
<1>3. PICK A : A = {[at |-> listNow, id |-> i] : i \in new}
  OBVIOUS
<1>4. /\ listRows \subseteq ListRow /\ IsFiniteSet(listRows) /\ listNow \in Nat
      /\ listOld \subseteq listRows
  BY DEF ListInv, ListTypes
<1>5. \A r \in A : r \in ListRow /\ r.id \in new /\ r = [at |-> listNow, id |-> r.id]
  BY <1>3, <1>4, ListingsAssumption DEF ListRow
<1>6. IsFiniteSet(A)
  <2>1. PICK g : g = [r \in A |-> r.id]
    OBVIOUS
  <2>2. g \in [A -> ListIds]
    BY <1>5, <2>1
  <2>3. \A r, s \in A : g[r] = g[s] => r = s
    BY <1>5, <2>1
  <2>4. g \in Injection(A, ListIds)
    BY <2>2, <2>3 DEF Injection, IsInjective
  <2>. QED
    BY <2>4, FS_Injection, ListingsAssumption
<1>7. listRows' = listRows \cup A
  BY <1>1, <1>3
<1>8. IsFiniteSet(listRows')
  BY <1>4, <1>6, <1>7, FS_Union
<1>9. ListTypes'
  BY <1>2, <1>4, <1>5, <1>7, <1>8 DEF ListInv, ListTypes
<1>10. RowsKnown'
  <2>1. \A r \in listRows, s \in A : r.id # s.id
    <3>1. \A r \in listRows : r.id \notin new
      OBVIOUS
    <3>. QED
      BY <1>5, <3>1
  <2>2. \A r, s \in A : r.id = s.id => r = s
    BY <1>5
  <2>3. \A r, s \in listRows' : r.id = s.id => r = s
    <3>1. \A r, s \in listRows : r.id = s.id => r = s
      BY DEF ListInv, RowsKnown
    <3>. QED
      BY <1>7, <2>1, <2>2, <3>1
  <2>. QED
    BY <1>2, <1>7, <2>3 DEF ListInv, RowsKnown
<1>11. /\ \A r, s : Precedes(r, s)' = Precedes(r, s)
       /\ \A r : InWindow(r)' = InWindow(r) /\ Listed(r)' = Listed(r)
       /\ Stopped' = Stopped
  BY <1>2, OrderStays DEF InWindow, Listed, Stopped
<1>12. CursorReads'
  BY <1>2, <1>11 DEF ListInv, CursorReads
<1>13. OffsetReads'
  <2>1. listRows \in SUBSET listRows'
    BY <1>7
  <2>2. Cardinality(listRows) <= Cardinality(listRows')
    BY <1>8, <2>1, FS_Subset
  <2>3. ASSUME NEW r \in listOld, Alone(r)', listKind \in ByOffset
        PROVE  Listed(r) \/ (listMore # "end" /\ Len(listOut) <= Cardinality(Before(r)'))
    <3>1. Alone(r)
      BY <1>7, <1>11, <2>3 DEF Alone
    <3>2. Before(r) \in SUBSET Before(r)' /\ Before(r)' \in SUBSET listRows'
      BY <1>7, <1>11 DEF Before
    <3>3. IsFiniteSet(Before(r)')
      BY <1>8, <3>2, FS_Subset
    <3>4. IsFiniteSet(Before(r)) /\ Cardinality(Before(r)) <= Cardinality(Before(r)')
      BY <3>2, <3>3, FS_Subset
    <3>5. PICK a \in Nat : a = Cardinality(Before(r))
      BY <3>4, FS_CardinalityType
    <3>6. PICK c \in Nat : c = Cardinality(Before(r)') /\ a <= c
      BY <3>3, <3>4, <3>5, FS_CardinalityType
    <3>7. PICK m \in Nat : m = Len(listOut)
      BY DEF ListInv, ListTypes
    <3>8. Listed(r) \/ (listMore # "end" /\ m <= a)
      BY <2>3, <3>1, <3>5, <3>7 DEF ListInv, OffsetReads
    <3>. QED
      BY <3>6, <3>7, <3>8
  <2>4. listKind \in ByOffset => Len(listOut) <= Cardinality(listRows')
    <3>1. PICK a \in Nat : a = Cardinality(listRows)
      BY <1>4, FS_CardinalityType
    <3>2. PICK c \in Nat : c = Cardinality(listRows') /\ a <= c
      BY <1>8, <2>2, <3>1, FS_CardinalityType
    <3>3. PICK m \in Nat : m = Len(listOut)
      BY DEF ListInv, ListTypes
    <3>4. listKind \in ByOffset => m <= a
      BY <3>1, <3>3 DEF ListInv, OffsetReads
    <3>. QED
      BY <3>2, <3>3, <3>4
  <2>. QED
    BY <1>2, <1>11, <2>3, <2>4 DEF OffsetReads
<1>. QED
  BY <1>9, <1>10, <1>12, <1>13 DEF ListInv

\* A row that is alone has one place.
LEMMA OnePlace ==
  ASSUME ListInv, NEW r \in listRows, Alone(r), NEW x \in listRows,
         MayBeAt(x, Cardinality(Before(r)) + 1)
  PROVE  x = r
<1>1. listRows \subseteq ListRow /\ IsFiniteSet(listRows) /\ listKind \in Lists
  BY DEF ListInv, ListTypes
<1>2. /\ Before(r) \in SUBSET listRows /\ Before(x) \in SUBSET listRows
      /\ {s \in listRows : ~Precedes(x, s)} \in SUBSET listRows
  BY DEF Before
<1>3. IsFiniteSet(Before(r)) /\ IsFiniteSet(Before(x))
  BY <1>1, <1>2, FS_Subset
<1>4. PICK c \in Nat : c = Cardinality(Before(r))
  BY <1>3, FS_CardinalityType
<1>5. PICK d \in Nat : d = Cardinality(Before(x)) /\ d < c + 1
  BY <1>3, <1>4, FS_CardinalityType DEF MayBeAt, Before
<1>6. ASSUME Precedes(r, x) PROVE FALSE
  <2>1. r \notin Before(r)
    BY <1>1, OrderFacts DEF Before
  <2>2. Before(r) \cup {r} \in SUBSET Before(x)
    <3>1. \A s \in Before(r) : s \in Before(x)
      BY <1>1, <1>6, OrderFacts DEF Before
    <3>2. r \in Before(x)
      BY <1>6 DEF Before
    <3>. QED
      BY <3>1, <3>2
  <2>3. Cardinality(Before(r) \cup {r}) = c + 1
    BY <1>3, <1>4, <2>1, FS_AddElement
  <2>4. Cardinality(Before(r) \cup {r}) <= Cardinality(Before(x))
    BY <1>3, <2>2, FS_Subset
  <2>. QED
    BY <1>4, <1>5, <2>3, <2>4
<1>7. ASSUME Precedes(x, r) PROVE FALSE
  <2>1. {s \in listRows : ~Precedes(x, s)} \in SUBSET Before(r)
    <3>1. ASSUME NEW s \in listRows, ~Precedes(x, s) PROVE s \in Before(r)
      <4>1. s = r \/ Precedes(r, s) \/ Precedes(s, r)
        BY DEF Alone
      <4>2. ~Precedes(r, s)
        BY <1>1, <1>7, <3>1, OrderFacts
      <4>. QED
        BY <1>7, <3>1, <4>1, <4>2 DEF Before
    <3>. QED
      BY <3>1
  <2>2. PICK e : e = Cardinality({s \in listRows : ~Precedes(x, s)})
    OBVIOUS
  <2>3. e <= c
    BY <1>3, <1>4, <2>1, <2>2, FS_Subset
  <2>4. IsFiniteSet({s \in listRows : ~Precedes(x, s)})
    BY <1>1, <1>2, FS_Subset
  <2>5. e \in Nat
    BY <2>2, <2>4, FS_CardinalityType
  <2>6. c + 1 <= e
    BY <1>4, <2>2 DEF MayBeAt
  <2>. QED
    BY <1>4, <2>3, <2>5, <2>6
<1>. QED
  BY <1>6, <1>7 DEF Alone

\* A page is read by its offset.
LEMMA OffsetInv == ASSUME ListInv, OffsetPage, listKind \in ByOffset PROVE ListInv'
<1>1. /\ listRows \subseteq ListRow /\ IsFiniteSet(listRows) /\ listOut \in Seq(ListRow)
      /\ listOld \subseteq listRows /\ listKind \in Lists
  BY DEF ListInv, ListTypes
<1>2. /\ listMore = "more" /\ UNCHANGED <<listKind, listNow, listRows, listFrom, listTo, listOld>>
  BY DEF OffsetPage
<1>3. PICK skip \in Nat : skip = Len(listOut)
  BY <1>1
<1>4. PICK all \in Nat : all = Cardinality(listRows) /\ skip <= all
  BY <1>1, <1>3, FS_CardinalityType DEF ListInv, OffsetReads
<1>5. PICK take \in Nat : /\ take = Lesser(ListPage, all - skip) /\ skip + take <= all
                          /\ take < ListPage => skip + take = all
  <2>1. PICK d \in Nat : d = all - skip
    BY <1>4
  <2>2. CASE ListPage <= d
    <3>1. Lesser(ListPage, all - skip) = ListPage
      BY <2>1, <2>2 DEF Lesser
    <3>. QED
      BY <2>1, <2>2, <3>1, ListingsAssumption
  <2>3. CASE ~(ListPage <= d)
    <3>1. Lesser(ListPage, all - skip) = d
      BY <2>1, <2>3 DEF Lesser
    <3>. QED
      BY <1>4, <2>1, <3>1
  <2>. QED
    BY <2>2, <2>3
<1>6. PICK page \in [1 .. take -> listRows] :
        /\ \A i \in 1 .. take : MayBeAt(page[i], skip + i)
        /\ listOut' = listOut \o page
  BY <1>3, <1>4, <1>5 DEF OffsetPage
<1>7. listMore' = IF take < ListPage THEN "end" ELSE "more"
  BY <1>3, <1>4, <1>5 DEF OffsetPage
<1>8. page \in [1 .. take -> ListRow]
  BY <1>1
<1>9. page \in Seq(ListRow) /\ Len(page) = take
  BY <1>8
<1>10. PICK m, n \in Nat : Joins(listOut', listOut, page, ListRow, m, n)
  BY <1>1, <1>6, <1>9, Appended
<1>11. m = skip /\ n = take
  BY <1>3, <1>9, <1>10 DEF Joins
<1>12. /\ listOut' \in Seq(ListRow) /\ Len(listOut') = skip + take
       /\ DOMAIN listOut' = 1 .. skip + take /\ DOMAIN listOut = 1 .. skip
       /\ \A i \in 1 .. skip : listOut'[i] = listOut[i]
       /\ \A i \in 1 .. skip + take : i > skip => i - skip \in 1 .. take /\ listOut'[i] = page[i - skip]
  BY <1>10, <1>11 DEF Joins
<1>13. ListTypes'
  <2>1. listOut' \in Seq(ListRow)
    BY <1>12
  <2>2. listMore' \in {"new", "more", "end"} /\ listMore' # "new"
    BY <1>7
  <2>. QED
    BY <1>2, <2>1, <2>2 DEF ListInv, ListTypes
<1>14. RowsKnown'
  <2>1. ASSUME NEW i \in 1 .. skip + take PROVE listOut'[i] \in listRows
    <3>1. CASE i <= skip
      BY <1>12, <3>1 DEF ListInv, RowsKnown
    <3>2. CASE i > skip
      BY <1>6, <1>12, <3>2
    <3>. QED
      BY <3>1, <3>2
  <2>. QED
    BY <1>2, <1>12, <2>1 DEF ListInv, RowsKnown
<1>15. CursorReads'
  BY <1>2 DEF CursorReads
<1>16. ASSUME NEW r \in listOld, Alone(r)
       PROVE  \/ Listed(r)'
              \/ listMore' # "end" /\ skip + take <= Cardinality(Before(r))
  <2>1. r \in listRows /\ Before(r) \in SUBSET listRows
    BY <1>1 DEF Before
  <2>2. IsFiniteSet(Before(r))
    BY <1>1, <2>1, FS_Subset
  <2>3. PICK c \in Nat : c = Cardinality(Before(r))
    BY <2>2, FS_CardinalityType
  <2>4. CASE Listed(r)
    <3>1. PICK i \in 1 .. skip : listOut[i] = r
      BY <1>12, <2>4 DEF Listed
    <3>2. i \in 1 .. skip + take
      OBVIOUS
    <3>. QED
      BY <1>12, <3>1, <3>2 DEF Listed
  <2>5. CASE ~Listed(r)
    <3>1. skip <= c
      BY <1>3, <1>16, <2>3, <2>5 DEF ListInv, OffsetReads
    <3>2. CASE c < skip + take
      <4>1. PICK i \in 1 .. take : i = c - skip + 1 /\ skip + i = c + 1
        BY <2>3, <3>1, <3>2
      <4>2. MayBeAt(page[i], c + 1) /\ page[i] \in listRows
        BY <1>6, <4>1
      <4>3. page[i] = r
        BY <1>16, <2>1, <2>3, <4>2, OnePlace
      <4>4. PICK k \in 1 .. skip + take : k = skip + i /\ k > skip /\ k - skip = i
        BY <4>1
      <4>5. listOut'[k] = r
        BY <1>12, <4>3, <4>4
      <4>. QED
        BY <1>12, <4>4, <4>5 DEF Listed
    <3>3. CASE ~(c < skip + take)
      <4>1. skip + take <= c
        BY <2>3, <3>3
      <4>2. c < all
        <5>1. r \notin Before(r)
          BY <1>1, <2>1, OrderFacts DEF Before
        <5>2. c <= all
          BY <1>1, <1>4, <2>1, <2>3, FS_Subset
        <5>3. c # all
          BY <1>1, <1>4, <2>1, <2>3, <5>1, FS_Subset
        <5>. QED
          BY <2>3, <5>2, <5>3
      <4>3. ~(take < ListPage)
        BY <1>5, <2>3, <4>1, <4>2
      <4>. QED
        BY <1>7, <2>3, <4>1, <4>3
    <3>. QED
      BY <3>2, <3>3
  <2>. QED
    BY <2>4, <2>5
<1>17. OffsetReads'
  <2>1. \A r, s : Precedes(r, s)' = Precedes(r, s)
    BY <1>2, OrderStays
  <2>2. \A r : Alone(r)' = Alone(r) /\ Before(r)' = Before(r)
    BY <1>2, <2>1 DEF Alone, Before
  <2>. QED
    BY <1>2, <1>4, <1>5, <1>12, <1>16, <2>2 DEF OffsetReads
<1>. QED
  BY <1>13, <1>14, <1>15, <1>17 DEF ListInv

\* Every step of a listing keeps the invariant.
LEMMA ListNextInv == ListInv /\ [ListingsNext]_listVars => ListInv'
<1>. SUFFICES ASSUME ListInv, [ListingsNext]_listVars PROVE ListInv'
  OBVIOUS
<1>1. CASE ListTick \/ UNCHANGED listVars
  <2>1. UNCHANGED <<listKind, listRows, listFrom, listTo, listOut, listMore, listOld>> /\ listNow' \in Nat
    BY <1>1 DEF ListTick, listVars, listReader, ListInv, ListTypes
  <2>2. ListTypes' /\ RowsKnown'
    BY <2>1 DEF ListInv, ListTypes, RowsKnown
  <2>3. /\ \A r, s : Precedes(r, s)' = Precedes(r, s)
        /\ \A r : InWindow(r)' = InWindow(r) /\ Listed(r)' = Listed(r)
        /\ Stopped' = Stopped
    BY <2>1, OrderStays DEF InWindow, Listed, Stopped
  <2>4. \A r : Alone(r)' = Alone(r) /\ Before(r)' = Before(r)
    BY <2>1, <2>3 DEF Alone, Before
  <2>5. CursorReads'
    BY <2>1, <2>3 DEF ListInv, CursorReads
  <2>6. OffsetReads'
    BY <2>1, <2>3, <2>4 DEF ListInv, OffsetReads
  <2>. QED
    BY <2>2, <2>5, <2>6 DEF ListInv
<1>2. CASE ReleasePage \/ CommandPage
  BY <1>2, PeekInv DEF ReleasePage, CommandPage
<1>3. CASE JobPage \/ RolloutPage \/ DevicePage
  BY <1>3, OffsetInv DEF JobPage, RolloutPage, DevicePage, ByOffset
<1>. QED
  BY <1>1, <1>2, <1>3, StoreInv, BeginInv, ExportInv, LogPageInv DEF ListingsNext

\* For every page size, limit and set of rows, whatever is stored between two
\* queries: a list read by a cursor is in order, repeats nothing and passes
\* over no row that was there when the reader began; one read by offsets passes
\* over none that has its place to itself (logging.ts, firmware.ts, devices.ts).
THEOREM ListingsAreComplete == ListingsSpec => []ListingsComplete
<1>1. ListInv => ListingsComplete
  BY DEF ListInv, ListTypes, CursorReads, OffsetReads, ListingsComplete, ByOffset
<1>. QED
  BY <1>1, ListInitInv, ListNextInv, PTL DEF ListingsSpec
====
