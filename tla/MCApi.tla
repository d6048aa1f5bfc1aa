------------------------------- MODULE MCApi --------------------------------
(***************************************************************************)
(* Accounts, plugin pages and what the API and the broker do with bytes    *)
(* and lists, for TLC.  `part' is chosen once, of the Parts of the run;    *)
(* the parts share no state, so the runs of the parts are those of the     *)
(* whole.                                                                  *)
(***************************************************************************)
EXTENDS Credentials, MqttFraming, LogContainer, LogArchive, Listings, TLC

CONSTANTS p1, p2, Parts

VARIABLE part

\* Two devices in two projects that may run the same builds.
TwoProjects == [d \in ArcDevices |-> IF d = 1 THEN p1 ELSE p2]

MCVars == <<accountVars, uiVars, framingVars, containerVars, arcVars, listVars, part>>

\* Nothing has happened to a token, and no fault is to come.
NewAccount == [reused |-> {}, spared |-> {}, excused |-> {}, breaks |-> MaxBreaks]

\* The account starts from nothing, with no fault to come; or registered and
\* logged out, with one token fewer and faults to come; or logged in, with
\* faults to come and the password work taken up by other accounts.
AccountStarts ==
    /\ reqs = [r \in Requests |-> IdleRequest]
    /\ failures = NoFailures /\ lock = 0
    /\ \/ /\ user = FALSE /\ hashing = 0 /\ store = 0
          /\ rows = [t \in Tokens |-> NoRow]
          /\ tabs = [b \in Tabs |-> LoadingTab]
          /\ told = NewAccount
       \/ /\ part = "accounts"
          /\ user = TRUE /\ hashing = 0 /\ store = 0
          /\ rows = [[t \in Tokens |-> NoRow] EXCEPT ![1].state = "revoked"]
          /\ tabs = [b \in Tabs |-> LoadingTab]
          /\ told = [NewAccount EXCEPT !.breaks = 0, !.excused = {1}]
       \/ /\ part = "accounts"
          /\ user = TRUE /\ hashing = Argon2Slots /\ store = 1
          /\ rows = [[t \in Tokens |-> NoRow] EXCEPT ![1].state = "active"]
          /\ \E b \in Tabs : tabs = [[c \in Tabs |-> LoadingTab] EXCEPT ![b].status = "authed"]
          /\ told = [NewAccount EXCEPT !.breaks = 0]

\* The archive starts empty, with no fault to come; or both devices have
\* reported their builds, with faults to come.
ArchiveStarts ==
    /\ arcArts = {} /\ arcReleases = {} /\ arcRows = <<>>
    /\ arcIngest = [d \in ArcDevices |-> NoIngest]
    /\ arcReq = [u \in ArcRequests |-> NoRequest]
    /\ arcCovered = {}
    /\ \/ /\ arcFw = [d \in ArcDevices |-> "none"] /\ arcEver = {}
          /\ arcReported = 0 /\ arcFailed = ArcFaults
       \/ /\ part = "archive"
          /\ arcFw \in [ArcDevices -> ArcBuilds]
          /\ arcEver = {<<d, arcFw[d]>> : d \in ArcDevices}
          /\ arcReported = ArcReports /\ arcFailed = 0

\* A part that was not chosen has one initial state.
MCInit ==
    /\ part \in Parts
    /\ AccountStarts /\ ArchiveStarts /\ UiInit /\ home.build = 1
    /\ IF part = "framing" THEN FramingInit
       ELSE stream = <<>> /\ received = 0 /\ ws = NewSocket
    /\ IF part = "container" THEN ContainerInit
       ELSE bundle = <<>> /\ arrived = <<>> /\ parsed = <<>>
    /\ ListingsInit /\ (part # "lists" => listKind = "logs")

MCNext ==
    /\ UNCHANGED part
    /\ \/ /\ part = "accounts" /\ AccountsNext
          /\ UNCHANGED <<uiVars, framingVars, containerVars, arcVars, listVars>>
       \/ /\ part = "ui" /\ UiNext
          /\ UNCHANGED <<accountVars, framingVars, containerVars, arcVars, listVars>>
       \/ /\ part = "framing" /\ ReceiveMessage
          /\ UNCHANGED <<accountVars, uiVars, containerVars, arcVars, listVars>>
       \/ /\ part = "container" /\ ReceiveLog
          /\ UNCHANGED <<accountVars, uiVars, framingVars, arcVars, listVars>>
       \/ /\ part = "archive" /\ ArchiveNext
          /\ UNCHANGED <<accountVars, uiVars, framingVars, containerVars, listVars>>
       \/ /\ part = "lists" /\ ListingsNext
          /\ UNCHANGED <<accountVars, uiVars, framingVars, containerVars, arcVars>>

MCSpec == MCInit /\ [][MCNext]_MCVars

\* Tabs of a browser and concurrent requests are interchangeable.
Interchangeable == Permutations(Tabs) \cup Permutations(ArcRequests)
=============================================================================
