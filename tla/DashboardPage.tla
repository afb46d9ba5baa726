---------------------------- MODULE DashboardPage ----------------------------
(***************************************************************************)
(* The dashboard in a browser (worker/frontend: useDashboard.ts and        *)
(* dashboardApi.ts), the Worker's answers (dashboard-data.ts, catalog.ts)  *)
(* and the session they need (DashboardLogin), while nodes are deleted.    *)
(*                                                                         *)
(* The functions of useDashboard are operators on the page; a callback     *)
(* (response, timer, click) is one step.  Of the data, only which nodes it *)
(* shows is kept; the Worker reads the catalog in several queries, and a   *)
(* deletion may come in between.                                           *)
(***************************************************************************)
EXTENDS DashboardLogin, FiniteSets

CONSTANTS
  Self,        \* the browser of the page; the others only open links
  Nodes,
  Leaving,     \* the nodes that are deleted (bound of the search)
  Ranges,      \* HISTORY_RANGES
  Short,       \* those the fleet history covers (<= 24 hours)
  MaxCached,   \* bound of the history cache (30)
  MaxFaults,   \* failed requests (bound of the search)
  MaxAsked,    \* requests that are under way together (bound of the search)
  MaxClicks    \* what the user does with nodes, ranges and the tab (bound of the search)

ASSUME PageAssumption ==
  /\ Self \in Browsers /\ Leaving \subseteq Nodes
  /\ Short \subseteq Ranges /\ Short # {} /\ Ranges \subseteq Nat \ {0}
  /\ MaxCached \in Nat \ {0} /\ {MaxFaults, MaxAsked, MaxClicks} \subseteq Nat
  /\ None \notin Nodes
  /\ None \notin {s : s \in SUBSET Nodes} \cup [nodes : SUBSET Nodes, known : SUBSET Nodes]

VARIABLES
  rows,     \* node_catalog: "live", "locked" (retired_at is set) or "gone"
  page,     \* what the page holds
  wire,     \* its requests, at most one for each id, and their answers
  leaving,  \* its POST /auth/logout: "no", "asked" or "answered"
  faults, clicks

vars == <<now, loginVars, rows, page, wire, leaving, faults, clicks>>

\* What is asked for: the latest snapshot, the history of all nodes or of one.
Latest == [node |-> None, hours |-> 0]
Fleet == [node |-> None, hours |-> 24]
Key == [node : Nodes, hours : Ranges]
Ids == {Latest, Fleet} \cup Key

Snapshot == [nodes : SUBSET Nodes, known : SUBSET Nodes]
Page == [view : {"loading", "dashboard", "auth"}, hidden : BOOLEAN, timers : BOOLEAN,
         latest : Snapshot \cup {None}, fleet : (SUBSET Nodes) \cup {None}, detail : Key \cup {None},
         selected : Nodes \cup {None}, hours : Ranges, cache : SUBSET Key, failed : BOOLEAN,
         ended : BOOLEAN]
Request == [id : Ids, session : Session \cup {None},
            status : {"asked", "nodes", "ok", "denied", "failed"},
            nodes : SUBSET Nodes, known : SUBSET Nodes]

TypeOK ==
  /\ LoginTypeOK
  /\ rows \in [Nodes -> {"live", "locked", "gone"}]
  /\ page \in Page /\ Cardinality(page.cache) <= MaxCached
  /\ wire \subseteq Request
  /\ leaving \in {"no", "asked", "answered"}
  /\ faults \in 0..MaxFaults /\ clicks \in 0..MaxClicks

-----------------------------------------------------------------------------
(***************************************************************************)
(* The functions of useDashboard.                                          *)
(***************************************************************************)

\* A page that is being loaded, with the node of its URL.
Loaded(node, hidden) ==
  [view |-> "loading", hidden |-> hidden, timers |-> FALSE, latest |-> None, fleet |-> None,
   detail |-> None, selected |-> node, hours |-> CHOOSE h \in Short : TRUE, cache |-> {},
   failed |-> FALSE, ended |-> FALSE]

\* Mutant: answers to earlier requests still count.
ShowAuthOnly(p) ==
  [p EXCEPT !.view = "auth", !.timers = FALSE, !.latest = None, !.fleet = None, !.detail = None,
            !.cache = {}]

\* showAuth; after invalidateRequests no request of the page is of its generation, and
\* it asks for nothing more until it is loaded again.
ShowAuth(p) ==
  [p EXCEPT !.view = "auth", !.timers = FALSE, !.latest = None, !.fleet = None, !.detail = None,
            !.cache = {}, !.ended = TRUE]

CanRefresh(p) == p.view = "dashboard" /\ ~ p.hidden

KeyOf(p) == [node |-> p.selected, hours |-> p.hours]
Current(p) == IF p.selected = None THEN Fleet ELSE KeyOf(p)

\* Mutant: a second request beside the first.
PendingNever(requests) == {}

\* request: nothing is asked again while its answer is awaited.
Pending(requests) == {r.id : r \in requests}
Asked(requests, ids) ==
  requests \cup
    {[id |-> i, session |-> cookie[Self], status |-> "asked", nodes |-> {}, known |-> {}] :
       i \in ids \ Pending(requests)}

Answered(r) == r.status \in {"ok", "denied", "failed"}

\* The page becomes p and asks for ids if it may refresh.  When its session ends, the
\* requests that are not answered yet are aborted.
Become(p, requests, ids) ==
  /\ page' = p
  /\ wire' = IF p.ended THEN {r \in requests : Answered(r)}
             ELSE Asked(requests, IF CanRefresh(p) THEN ids ELSE {})
  /\ Cardinality(wire') <= MaxAsked

\* restoreHistory, preview: from the cache, or a short range cut out of the fleet history.
Restored(p) ==
  LET stored == KeyOf(p) \in p.cache \/ (p.fleet # None /\ p.hours \in Short)
  IN  [p EXCEPT !.failed = FALSE, !.detail = IF p.selected # None /\ stored THEN KeyOf(p) ELSE None]

Opened(p, n) == Restored([p EXCEPT !.selected = n])
Closed(p) == [p EXCEPT !.selected = None, !.detail = None, !.failed = FALSE]

\* refreshStaleFleet: the fleet history may be fresh enough once there is one.
StaleFleet(p) == IF p.fleet = None THEN {{Fleet}} ELSE {{}, {Fleet}}

StartTimers(p) == [p EXCEPT !.timers = @ \/ CanRefresh(p)]

-----------------------------------------------------------------------------
(***************************************************************************)
(* What an answer does to the page.                                        *)
(***************************************************************************)

WithSnapshot(p, r) == [p EXCEPT !.latest = [nodes |-> r.nodes, known |-> r.known], !.view = "dashboard"]
SelectionKept(p) == IF p.selected \in p.latest.nodes \cup {None} THEN p ELSE Closed(p)

\* Mutant: the cache keeps what the catalog has lost.
AcceptOnly(p, r) == SelectionKept(StartTimers(WithSnapshot(p, r)))

\* loadLatest
AcceptLatest(p, r) ==
  LET q == WithSnapshot(p, r)
  IN  SelectionKept(StartTimers(
        [q EXCEPT !.cache = {k \in @ : k.node \in r.known},
                  !.fleet = IF @ = None THEN None ELSE @ \cap r.known]))

\* loadFleet, retainKnownHistory
AcceptFleet(p, r) == [p EXCEPT !.fleet = IF p.latest = None THEN r.nodes ELSE r.nodes \cap p.latest.known]

Known(p, key) == p.latest = None \/ key.node \in p.latest.known

\* Mutant: one entry too many.
CachesMore(cache, key) ==
  IF Cardinality(cache) <= MaxCached THEN {cache \cup {key}}
  ELSE {(cache \ {k}) \cup {key} : k \in cache \ {key}}

\* The new entry comes last and the first one makes room; which one that is, is left open.
Caches(cache, key) ==
  IF Cardinality(cache \cup {key}) <= MaxCached THEN {cache \cup {key}}
  ELSE {(cache \ {k}) \cup {key} : k \in cache \ {key}}

\* Mutant: any answer is shown.
ShownAlways(p, key) == [p EXCEPT !.detail = key, !.failed = FALSE]

Shown(p, key) == IF KeyOf(p) = key THEN [p EXCEPT !.detail = key, !.failed = FALSE] ELSE p

\* loadDetail
AcceptDetail(p, key) ==
  IF Known(p, key) THEN {Shown([p EXCEPT !.cache = c], key) : c \in Caches(p.cache, key)} ELSE {p}

\* Mutant: an error of the first request is only announced.
FailedLoading(p, r) ==
  IF r.status = "denied" THEN ShowAuth(p)
  ELSE [p EXCEPT !.failed = @ \/ (r.id \in Key /\ r.id = KeyOf(p) /\ p.detail = None)]

\* The catch of request, and of loadDetail what follows it.
Failed(p, r) ==
  IF r.status = "denied" \/ p.view = "loading" THEN ShowAuth(p)
  ELSE [p EXCEPT !.failed = @ \/ (r.id \in Key /\ r.id = KeyOf(p) /\ p.detail = None)]

-----------------------------------------------------------------------------

Init ==
  /\ LoginInit
  /\ rows = [n \in Nodes |-> "live"]
  /\ page = ShowAuth(Loaded(None, FALSE))
  /\ wire = {} /\ leaving = "no"
  /\ faults = 0 /\ clicks = 0

Fault == faults < MaxFaults /\ faults' = faults + 1
Click == clicks < MaxClicks /\ clicks' = clicks + 1
Awaited(id) == {r \in wire : r.id = id}

\* The page is loaded again: by its user, or because a login link leads to it.
Load(node, hidden) ==
  /\ page.view = "auth" /\ leaving = "no" /\ \A b \in Browsers : login[b] = None
  /\ page' = Loaded(node, hidden)
  /\ wire' = Asked({}, {Latest})
  /\ UNCHANGED <<now, loginVars, rows, leaving, faults, clicks>>

Replaced(r, s) == wire' = (wire \ {r}) \cup {s}
Visible == {n \in Nodes : rows[n] = "live"}

\* GET /api/v1/dashboard/latest: of the queries that loadDashboardCatalog makes at the
\* same time, two matter.  When known comes first, the answer is one that the order
\* below gives to a slower request.
ServeLatest(r) ==
  /\ r.id = Latest
  /\ \/ r.status = "asked" /\ ~ Authorized(r.session) /\ Replaced(r, [r EXCEPT !.status = "denied"])
     \/ /\ r.status = "asked" /\ Authorized(r.session)
        /\ Replaced(r, [r EXCEPT !.status = "nodes", !.nodes = Visible])
     \/ /\ r.status = "nodes"
        /\ Replaced(r, [r EXCEPT !.status = "ok", !.known = {n \in Nodes : rows[n] # "gone"}])

\* GET /api/v1/dashboard/history; of one node only as long as it is visible.
ServeHistory(r) ==
  /\ r.id # Latest /\ r.status = "asked"
  /\ LET shown == IF r.id = Fleet THEN Visible ELSE {r.id.node} \cap Visible IN
     Replaced(r, [r EXCEPT !.nodes = shown,
                           !.status = IF ~ Authorized(r.session) THEN "denied"
                                      ELSE IF r.id # Fleet /\ shown = {} THEN "failed" ELSE "ok"])

\* The catalog cannot be read, or the network fails.
ServeFails(r) ==
  /\ r.status \in {"asked", "nodes"} /\ Fault
  /\ Replaced(r, [r EXCEPT !.status = "failed", !.nodes = {}])

Serve(id) ==
  /\ \E r \in Awaited(id) :
       \/ (ServeLatest(r) \/ ServeHistory(r)) /\ UNCHANGED faults
       \/ ServeFails(r)
  /\ UNCHANGED <<now, loginVars, rows, page, leaving, clicks>>

\* The first snapshot is followed by the history of what is selected.
ReceiveLatest(r) ==
  LET p == AcceptLatest(page, r) IN
  IF page.view = "loading" THEN Become(p, wire \ {r}, {Current(p)})
  ELSE IF p.selected = page.selected THEN Become(p, wire \ {r}, {})
  ELSE \E ids \in StaleFleet(p) : Become(p, wire \ {r}, ids)

\* request: what comes after its await.
Receive(id) ==
  /\ \E r \in Awaited(id) :
       \/ page.ended /\ Become(page, wire \ {r}, {})
       \/ ~ page.ended /\ r.status = "ok" /\ id = Latest /\ ReceiveLatest(r)
       \/ ~ page.ended /\ r.status = "ok" /\ id = Fleet /\ Become(AcceptFleet(page, r), wire \ {r}, {})
       \/ /\ ~ page.ended /\ r.status = "ok" /\ id \in Key
          /\ \E p \in AcceptDetail(page, id) : Become(p, wire \ {r}, {})
       \/ ~ page.ended /\ r.status \in {"denied", "failed"} /\ Become(Failed(page, r), wire \ {r}, {})
  /\ UNCHANGED <<now, loginVars, rows, leaving, faults, clicks>>

-----------------------------------------------------------------------------

Unasked == UNCHANGED <<now, loginVars, rows, leaving, faults>>

\* The timers of startTimers.
PollLatest == page.timers /\ Become(page, wire, {Latest}) /\ Unasked /\ UNCHANGED clicks
PollHistory == page.timers /\ Become(page, wire, {Current(page)}) /\ Unasked /\ UNCHANGED clicks

\* refresh
Refresh == page.view = "dashboard" /\ Become(page, wire, {Latest, Current(page)}) /\ Unasked /\ UNCHANGED clicks

\* openNode, also of navigateBack; a node that is not in the snapshot is not opened.
OpenNode(n) ==
  /\ page.latest # None /\ n \in page.latest.nodes /\ Click
  /\ LET p == Opened(page, n) IN Become(p, wire, {KeyOf(p)})
  /\ Unasked

\* closeNode, also of navigateBack.
CloseNode ==
  /\ page.selected # None /\ Click
  /\ \E ids \in StaleFleet(page) : Become(Closed(page), wire, ids)
  /\ Unasked

SetHours(h) ==
  /\ page.view = "dashboard" /\ page.selected # None /\ h # page.hours /\ Click
  /\ LET p == Restored([page EXCEPT !.hours = h]) IN Become(p, wire, {KeyOf(p)})
  /\ Unasked

\* visibilityChanged; it does nothing to a page whose session has ended.
Hide ==
  /\ ~ page.hidden /\ page.view # "auth" /\ Click
  /\ Become([page EXCEPT !.hidden = TRUE, !.timers = FALSE], wire, {})
  /\ Unasked

\* Mutant: the timers stay stopped.
ShowOnce ==
  /\ page.hidden
  /\ LET p == [page EXCEPT !.hidden = FALSE] IN Become(p, wire, {Latest})
  /\ Unasked /\ UNCHANGED clicks

Show ==
  /\ page.hidden
  /\ LET p == StartTimers([page EXCEPT !.hidden = FALSE])
         stale == IF p.selected = None THEN StaleFleet(p)
                  ELSE IF KeyOf(p) \in p.cache THEN {{}, {KeyOf(p)}} ELSE {{KeyOf(p)}}
     IN  \E ids \in stale : Become(p, wire, ids \cup {Latest})
  /\ Unasked /\ UNCHANGED clicks

\* logout: POST /auth/logout clears the cookie, and then the page ends its session.
LogOut ==
  /\ \/ /\ page.view = "dashboard" /\ leaving = "no"
        /\ leaving' = "asked" /\ UNCHANGED <<cookie, page, wire, faults>>
     \/ /\ leaving = "asked"
        /\ leaving' = "answered" /\ cookie' = [cookie EXCEPT ![Self] = None]
        /\ UNCHANGED <<page, wire, faults>>
     \/ leaving = "asked" /\ leaving' = "no" /\ Fault /\ UNCHANGED <<cookie, page, wire>>
     \/ /\ leaving = "answered" /\ leaving' = "no"
        /\ Become([ShowAuth(page) EXCEPT !.selected = None], wire, {})
        /\ UNCHANGED <<cookie, faults>>
  /\ UNCHANGED <<now, tokens, drawn, login, grants, rows, clicks>>

-----------------------------------------------------------------------------

\* prepareNodeDeletion, permanentlyDeleteNode.  New nodes (index.ts:385) are left out.
Delete(n) ==
  /\ rows[n] # "gone"
  /\ rows' = [rows EXCEPT ![n] = IF @ = "live" THEN "locked" ELSE "gone"]
  /\ UNCHANGED <<now, loginVars, page, wire, leaving, faults, clicks>>

\* What a page does between two loads and who opens which link do not depend on each
\* other; the order "links first" stands for all.
LogIn ==
  /\ page.view = "auth"
  /\ \/ \E t \in Tokens : Issue(t) /\ UNCHANGED <<now, login, cookie, grants, faults>>
     \/ \E b \in Browsers :
          \/ \E t \in drawn : Open(b, t) /\ UNCHANGED faults
          \/ (Consume(b) \/ Grant(b)) /\ UNCHANGED faults
          \/ LoseLogin(b) /\ Fault
  /\ UNCHANGED <<rows, page, wire, leaving, clicks>>

\* The daily cleanup.
Cleanup ==
  /\ page.view = "auth"
  /\ tokens' = KeptTokens(now) /\ tokens' # tokens
  /\ UNCHANGED <<now, drawn, login, cookie, grants, rows, page, wire, leaving, faults, clicks>>

Tick ==
  /\ now < MaxNow /\ \A b \in Browsers : login[b] = None
  /\ now' = now + 1
  /\ UNCHANGED <<loginVars, rows, page, wire, leaving, faults, clicks>>

Next ==
  \/ \E n \in Nodes \cup {None}, hidden \in BOOLEAN : Load(n, hidden)
  \/ \E id \in Ids : Serve(id) \/ Receive(id)
  \/ PollLatest \/ PollHistory \/ Refresh
  \/ \E n \in Nodes : OpenNode(n)
  \/ \E h \in Ranges : SetHours(h)
  \/ CloseNode \/ Hide \/ Show \/ LogOut
  \/ \E n \in Leaving : Delete(n)
  \/ LogIn \/ Cleanup \/ Tick

Spec == Init /\ [][Next]_vars

\* Requests are answered and the timers of the page go off.
Fairness ==
  /\ \A id \in Ids : WF_vars(Serve(id)) /\ WF_vars(Receive(id))
  /\ WF_vars(PollLatest)

LiveSpec == Spec /\ Fairness

-----------------------------------------------------------------------------
(***************************************************************************)
(* Properties.                                                             *)
(***************************************************************************)

Empty(p) == p.latest = None /\ p.fleet = None /\ p.detail = None /\ p.cache = {} /\ ~ p.timers

\* A page whose session ended holds nothing of it, and no answer still under way brings
\* it back ("A late response from an expired session must never restore the dashboard").
SignedOutForGood == [][page.view = "auth" => Empty(page) /\ page'.view # "dashboard"]_vars

\* The charts are those of the node and range that are selected, whatever the order in
\* which the answers to earlier selections arrive.
DetailMatchesSelection == page.detail # None => page.detail = KeyOf(page)

\* A history that was asked for before a node was deleted and arrives after the snapshot
\* that has lost the node does not put it back, nor does the cache.
DeletedNotKept ==
  page.latest # None =>
    /\ page.fleet # None => page.fleet \subseteq page.latest.known
    /\ \A k \in page.cache : k.node \in page.latest.known
    /\ page.selected \in page.latest.nodes \cup {None}

\* An older snapshot never follows a newer one: a node that is gone does not come back.
\* Nodes only leave here, so what a snapshot knows tells which of two is older.
NewerSnapshotStays ==
  [][page.latest # None /\ page'.latest # None => page'.latest.known \subseteq page.latest.known]_vars

\* A page does not stay at its first picture, whatever becomes of its first request.
LoadingEnds == page.view = "loading" ~> page.view # "loading"

\* A dashboard that is looked at loses a node once it is marked for deletion.
DeletionReachesPage ==
  \A n \in Nodes :
    rows[n] # "live" /\ CanRefresh(page) ~> ~ CanRefresh(page) \/ n \notin page.latest.nodes
=============================================================================
