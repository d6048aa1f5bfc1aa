---------------------------- MODULE Credentials -----------------------------
(***************************************************************************)
(* What a user holds: refresh tokens, rotated by the API for the tabs of a *)
(* browser, and the grants of plugin pages, exchanged by the plugin        *)
(* managers.  The two share no row of the database.                        *)
(***************************************************************************)
EXTENDS Accounts, PluginUi

CredentialsInit == AccountsInit /\ UiInit

CredentialsNext ==
    \/ AccountsNext /\ UNCHANGED uiVars
    \/ UiNext /\ UNCHANGED accountVars

CredentialsSpec == CredentialsInit /\ [][CredentialsNext]_<<accountVars, uiVars>>

\* A credential works once, for the one it was given to.  A refresh token has
\* one successor, a replayed one ends what descends from it (but not below a
\* token another request was rotating meanwhile, which tokens.ts does not
\* expect: see ReuseEndsFamily), and only what the browser really does replays
\* one (tokens.ts, http.ts); a plugin page's grant is exchanged once while it
\* is valid, whichever manager is asked (plugin-ui-session.ts).
CredentialsSpentOnce == OneSuccessor /\ ReuseEndsFamily /\ ReplayExplained /\ GrantsOnce
=============================================================================
