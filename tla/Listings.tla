------------------------------ MODULE Listings ------------------------------
(***************************************************************************)
(* Long lists read piece by piece while rows are added: the CSV export of  *)
(* a device's log and its pages (api/logging.ts), the pages of firmware    *)
(* releases and OTA jobs (api/firmware.ts), of rollouts (api/rollout.ts),  *)
(* and of devices and a device's commands (api/devices.ts).  Every piece   *)
(* is a query of its own; it starts after the last row of the one before,  *)
(* or, for jobs, rollouts and devices, skips as many rows as the reader    *)
(* has got.  A row is the time it was stored and its id; several rows may  *)
(* share a time, and only the ids of events and commands grow with it.     *)
(***************************************************************************)
EXTENDS Integers, Sequences, FiniteSets

CONSTANTS
    ListIds,   \* ids of rows
    ListTimes, \* bound on the clock
    ListPage,  \* rows of one query
    ListLimit  \* rows of one export

ASSUME ListingsAssumption ==
    /\ ListIds \subseteq Nat /\ IsFiniteSet(ListIds)
    /\ ListTimes \in Nat /\ ListPage \in Nat \ {0} /\ ListLimit \in Nat

VARIABLES
    listKind, \* what is listed
    listNow,  \* the clock, in milliseconds
    listRows, \* the table
    listFrom, \* the export's window starts here,
    listTo,   \* and ends here
    listOut,  \* the rows the reader has got
    listMore, \* "new", "more" or "end"
    listOld   \* history: the rows when the reader began

listVars == <<listKind, listNow, listRows, listFrom, listTo, listOut, listMore, listOld>>
listReader == <<listFrom, listTo, listOut, listMore, listOld>>

ByOffset == {"jobs", "rollouts", "devices"}
Lists == {"export", "logs", "releases", "commands"} \cup ByOffset

\* Order of each list: the export goes forward in time, devices by their
\* assigned id, the others backward.  Nothing orders the jobs or the rollouts
\* of one moment.
Precedes(r, s) ==
    CASE listKind = "export"   -> r.at < s.at \/ (r.at = s.at /\ r.id < s.id)
      [] listKind = "releases" -> s.at < r.at \/ (s.at = r.at /\ s.id < r.id)
      [] listKind = "devices"  -> r.id < s.id
      [] listKind \in {"jobs", "rollouts"} -> s.at < r.at
      [] OTHER                 -> s.id < r.id

ListingsInit ==
    /\ listKind \in Lists
    /\ listNow = 1 /\ listRows = {}
    /\ listFrom = 0 /\ listTo = 0 /\ listOut = <<>> /\ listMore = "new" /\ listOld = {}

ListTick ==
    /\ listNow < ListTimes /\ listNow' = listNow + 1
    /\ UNCHANGED <<listKind, listRows, listReader>>

\* A bundle of log events, a batch of commands, or one row of another list is
\* stored: the ids of events and commands grow, those of releases and devices
\* come in any order (those of jobs and rollouts order nothing).
StoreRows ==
    \E new \in SUBSET (ListIds \ {r.id : r \in listRows}) :
       /\ new # {}
       /\ listKind \in {"releases"} \cup ByOffset => Cardinality(new) = 1
       /\ listKind \notin {"releases", "devices"} => \A i \in new, r \in listRows : i > r.id
       /\ listRows' = listRows \cup {[at |-> listNow, id |-> i] : i \in new}
       /\ UNCHANGED <<listKind, listNow, listReader>>

\* The first request.  The window of an export ends now unless it says when.
BeginListing ==
    /\ listMore = "new" /\ listMore' = "more"
    /\ listOld' = listRows
    /\ IF listKind = "export"
       THEN \E from \in 1 .. listNow, to \in 1 .. listNow :
               from <= to /\ listFrom' = from /\ listTo' = to
       ELSE listFrom' = 0 /\ listTo' = ListTimes
    /\ UNCHANGED <<listKind, listNow, listRows, listOut>>

InWindow(r) == r.at >= listFrom /\ r.at <= listTo

\* (mutant) The cursor of a list ordered by time is the time alone.
AfterTime(r) ==
    /\ InWindow(r)
    /\ listOut # <<>> =>
         LET last == listOut[Len(listOut)] IN
         CASE listKind = "export"   -> r.at > last.at
           [] listKind = "releases" -> r.at < last.at
           [] OTHER                 -> r.id < last.id

\* The WHERE clause: rows of the window behind the cursor.
AfterCursor(r) ==
    /\ InWindow(r)
    /\ listOut # <<>> => Precedes(listOut[Len(listOut)], r)

Behind == {r \in listRows : AfterCursor(r)}

\* The answers to a query: the first rows behind the cursor, in order, as many
\* as asked for, or all there are.
Query(size) ==
    {rows \in UNION {[1 .. n -> Behind] : n \in 0 .. size} :
       /\ \A i, j \in DOMAIN rows : i < j => Precedes(rows[i], rows[j])
       /\ \A r \in Behind : \/ \E i \in DOMAIN rows : rows[i] = r
                            \/ Len(rows) = size /\ \A i \in DOMAIN rows : Precedes(rows[i], r)}

Lesser(m, n) == IF m <= n THEN m ELSE n

\* pull of the export's stream: pieces until an empty one, or the limit, where
\* nothing is asked for any more.
ExportPull ==
    /\ listKind = "export" /\ listMore = "more"
    /\ \E rows \in Query(Lesser(ListPage, ListLimit - Len(listOut))) :
         /\ listOut' = listOut \o rows
         /\ listMore' = IF rows = <<>> THEN "end" ELSE "more"
    /\ UNCHANGED <<listKind, listNow, listRows, listFrom, listTo, listOld>>

\* GET /devices/:id/logs: a full page may have another after it.
LogPage ==
    /\ listKind = "logs" /\ listMore = "more"
    /\ \E rows \in Query(ListPage) :
         /\ listOut' = listOut \o rows
         /\ listMore' = IF Len(rows) = ListPage THEN "more" ELSE "end"
    /\ UNCHANGED <<listKind, listNow, listRows, listFrom, listTo, listOld>>

\* One row more than the page is read to see whether there is another page.
PageWithPeek ==
    /\ listMore = "more"
    /\ \E rows \in Query(ListPage + 1) :
         /\ listOut' = listOut \o SubSeq(rows, 1, Lesser(ListPage, Len(rows)))
         /\ listMore' = IF Len(rows) > ListPage THEN "more" ELSE "end"
    /\ UNCHANGED <<listKind, listNow, listRows, listFrom, listTo, listOld>>

\* GET /firmware-releases and GET /devices/:id/commands.
ReleasePage == listKind = "releases" /\ PageWithPeek
CommandPage == listKind = "commands" /\ PageWithPeek

\* r can be the i-th row: the order leaves open how rows of one moment come.
MayBeAt(r, i) ==
    /\ Cardinality({s \in listRows : Precedes(s, r)}) < i
    /\ i <= Cardinality({s \in listRows : ~Precedes(r, s)})

\* orderBy, skip and take.
OffsetPage ==
    LET skip == Len(listOut)
        take == Lesser(ListPage, Cardinality(listRows) - skip)
    IN /\ listMore = "more"
       /\ \E rows \in [1 .. take -> listRows] :
            /\ \A i \in 1 .. take : MayBeAt(rows[i], skip + i)
            /\ \A i, j \in 1 .. take : i # j => rows[i] # rows[j]
            /\ listOut' = listOut \o rows
       /\ listMore' = IF take < ListPage THEN "end" ELSE "more"
       /\ UNCHANGED <<listKind, listNow, listRows, listFrom, listTo, listOld>>

\* GET /ota-jobs, GET /ota-rollouts and GET /projects/:id/devices.
JobPage == listKind = "jobs" /\ OffsetPage
RolloutPage == listKind = "rollouts" /\ OffsetPage
DevicePage == listKind = "devices" /\ OffsetPage

ListingsNext ==
    \/ ListTick \/ StoreRows \/ BeginListing
    \/ ExportPull \/ LogPage \/ ReleasePage \/ CommandPage
    \/ JobPage \/ RolloutPage \/ DevicePage

ListingsSpec == ListingsInit /\ [][ListingsNext]_listVars

-----------------------------------------------------------------------------
Listed(r) == \E i \in DOMAIN listOut : listOut[i] = r
Alone(r) == \A s \in listRows : s = r \/ Precedes(r, s) \/ Precedes(s, r)
Stopped == listKind = "export" /\ Len(listOut) = ListLimit

\* No list read by a cursor repeats a row or leaves its order, an export keeps
\* its limit, and no row that was there when the reader began is passed over:
\* all of them are in the list once it has ended, or once a cursor has come
\* past them.  A list read by offsets may repeat rows when others are added,
\* and may pass over a job or a rollout stored at the time of another one.
ListingsComplete ==
    /\ listKind \notin ByOffset =>
         \A i, j \in DOMAIN listOut : i < j => Precedes(listOut[i], listOut[j])
    /\ listKind = "export" => Len(listOut) <= ListLimit
    /\ listKind \in ByOffset =>
         \A r \in listOld : listMore = "end" /\ Alone(r) => Listed(r)
    /\ listKind \notin ByOffset => \A r \in listOld :
         InWindow(r) /\ (\/ listMore = "end" /\ ~Stopped
                         \/ listOut # <<>> /\ Precedes(r, listOut[Len(listOut)])) => Listed(r)
=============================================================================
