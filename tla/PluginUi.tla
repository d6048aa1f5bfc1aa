------------------------------ MODULE PluginUi ------------------------------
(***************************************************************************)
(* The sessions of plugin pages.  The API signs a one-time grant for a     *)
(* member of the project; a plugin manager exchanges it for a cookie,      *)
(* which is the same token; every page is rendered by the plugin build the *)
(* grant names, with the installation and the membership checked before    *)
(* and after the call.  The nonces of used grants are rows of the          *)
(* database, removed once they have expired.                               *)
(***************************************************************************)
EXTENDS Integers

CONSTANTS
    Grants,    \* nonces of the grants the API signs
    Managers,  \* bootstrap requests under way, on any manager
    Pages,     \* page requests under way
    UiTtl,     \* uiSessionTtlSeconds, in ticks
    MaxNow,    \* bound on the clock
    Builds,    \* versions the installation may run
    SsrSlots   \* ssrMaxConcurrency

ASSUME UiAssumption == UiTtl \in Nat \ {0} /\ MaxNow \in Nat /\ SsrSlots \in Nat

VARIABLES
    now,       \* the clock
    home,      \* the installation and the user's membership
    grants,    \* signed grants: their expiry and build
    used,      \* plugin_ui_grants: nonce -> expires_at, 0 for no row
    boots,     \* the bootstrap requests
    cookies,   \* grants exchanged for a cookie
    opened,    \* history: exchanges made while the token was valid
    pages,     \* the page requests
    ssr        \* ssrInFlight

uiVars == <<now, home, grants, used, boots, cookies, opened, pages, ssr>>

-----------------------------------------------------------------------------
NoBoot == [pc |-> "idle", nonce |-> 0, until |-> 0]
NoPage == [pc |-> "idle", nonce |-> 0, what |-> "none"]

UiInit ==
    /\ now = 0
    /\ home \in [build : Builds, enabled : {TRUE}, member : {TRUE}]
    /\ grants = [n \in Grants |-> [exp |-> 0, build |-> 0]]
    /\ used = [n \in Grants |-> 0]
    /\ boots = [m \in Managers |-> NoBoot]
    /\ cookies = {}
    /\ opened = [n \in Grants |-> 0]
    /\ pages = [p \in Pages |-> NoPage]
    /\ ssr = 0

\* verifyPluginUiSession: the signature is genuine, the token has not expired.
Verified(n) == now < grants[n].exp

\* assertUiSessionCurrent: enabled, same build, still a member.
SessionCurrent(n) == home.enabled /\ home.member /\ home.build = grants[n].build

\* GET ui-session: a member asks for a grant on an enabled installation.
SignPluginUiSession(n) ==
    /\ grants[n].exp = 0
    /\ home.enabled /\ home.member
    /\ grants' = [grants EXCEPT ![n] = [exp |-> now + UiTtl, build |-> home.build]]
    /\ UNCHANGED <<now, home, used, boots, cookies, opened, pages, ssr>>

\* POST /bootstrap: the token is verified, and the row's expiry is computed,
\* a full lifetime from now.
Bootstrap(m, n) ==
    /\ boots[m].pc = "idle" /\ Verified(n)
    /\ boots' = [boots EXCEPT ![m] = [pc |-> "verified", nonce |-> n, until |-> now + UiTtl]]
    /\ UNCHANGED <<now, home, grants, used, cookies, opened, pages, ssr>>

\* consumePluginUiGrant, by any manager: the INSERT succeeds for one request.
\* The manager may be slow between the two.
ConsumePluginUiGrant(m) ==
    LET q == boots[m] n == q.nonce IN
    /\ q.pc = "verified"
    /\ boots' = [boots EXCEPT ![m] = NoBoot]
    /\ IF q.until > now /\ used[n] = 0
       THEN /\ used' = [used EXCEPT ![n] = q.until]
            /\ cookies' = cookies \cup {n}
            /\ opened' = [opened EXCEPT ![n] = IF Verified(n) THEN @ + 1 ELSE @]
       ELSE UNCHANGED <<used, cookies, opened>>
    /\ UNCHANGED <<now, home, grants, pages, ssr>>

\* purgePluginUiGrants.
PurgePluginUiGrants ==
    /\ \E n \in Grants : used[n] # 0 /\ used[n] <= now
    /\ used' = [n \in Grants |-> IF used[n] <= now THEN 0 ELSE used[n]]
    /\ UNCHANGED <<now, home, grants, boots, cookies, opened, pages, ssr>>

\* withSsrSlot: a request without a slot is answered 503 at once.
WithSsrSlot == ssr < SsrSlots /\ ssr' = ssr + 1

\* A request under /plugins/: the token of the cookie is verified again.
UiRequest(n) == n \in cookies /\ Verified(n)

\* The session must be current before the plugin is called.
CallPlugin(p, n, what) ==
    /\ pages[p].pc = "idle" /\ UiRequest(n)
    /\ SessionCurrent(n)
    /\ WithSsrSlot
    /\ pages' = [pages EXCEPT ![p] = [pc |-> "called", nonce |-> n, what |-> what]]
    /\ UNCHANGED <<now, home, grants, used, boots, cookies, opened>>

\* ui.render or ui.handleAction; ui.asset.
CallUi(p, n) == CallPlugin(p, n, "page")
GetPluginUiAsset(p, n) == CallPlugin(p, n, "asset")

\* The plugin answers, or its call fails, times out or is refused (an asset
\* must have the hash of the manifest); the answer is served only if the
\* session is still current, and the slot is given back either way.
CallUiAnswered(p) ==
    /\ pages[p].pc = "called"
    /\ \/ SessionCurrent(pages[p].nonce) /\ pages' = [pages EXCEPT ![p].pc = "served"]
       \/ pages' = [pages EXCEPT ![p] = NoPage]
    /\ ssr' = ssr - 1
    /\ UNCHANGED <<now, home, grants, used, boots, cookies, opened>>

\* The answer leaves the manager.
PageSent(p) ==
    /\ pages[p].pc = "served"
    /\ pages' = [pages EXCEPT ![p] = NoPage]
    /\ UNCHANGED <<now, home, grants, used, boots, cookies, opened, ssr>>

\* The installation is migrated, disabled or enabled; the user loses access.
HomeChanges ==
    /\ home' \in [build : Builds, enabled : BOOLEAN, member : BOOLEAN]
    /\ home.member \/ ~home'.member
    /\ home' # home
    /\ UNCHANGED <<now, grants, used, boots, cookies, opened, pages, ssr>>

Tick ==
    /\ now < MaxNow
    /\ now' = now + 1
    /\ UNCHANGED <<home, grants, used, boots, cookies, opened, pages, ssr>>

UiNext ==
    \/ \E n \in Grants : \/ SignPluginUiSession(n)
                         \/ \E m \in Managers : Bootstrap(m, n)
                         \/ \E p \in Pages : CallUi(p, n) \/ GetPluginUiAsset(p, n)
    \/ \E m \in Managers : ConsumePluginUiGrant(m)
    \/ \E p \in Pages : CallUiAnswered(p) \/ PageSent(p)
    \/ PurgePluginUiGrants \/ HomeChanges \/ Tick

-----------------------------------------------------------------------------
\* A grant is exchanged once while its token is valid, on whatever managers
\* the requests arrive, and although the rows of used grants are purged.
GrantsOnce == \A n \in Grants : opened[n] <= 1
=============================================================================
