------------------------- MODULE DashboardPageProofs -------------------------
(***************************************************************************)
(* Theorems of DashboardPage for any number of browsers, links, nodes and  *)
(* ranges and every bound: one session for a link, and what a page may     *)
(* show.                                                                   *)
(***************************************************************************)
EXTENDS DashboardPage, FiniteSetTheorems, TLAPS

-----------------------------------------------------------------------------
(***************************************************************************)
(* What the page holds.                                                    *)
(***************************************************************************)

Kept(p) ==
  p.latest # None =>
    /\ p.fleet # None => p.fleet \subseteq p.latest.known
    /\ \A k \in p.cache : k.node \in p.latest.known
    /\ p.selected \in p.latest.nodes \cup {None}

CacheOK(c) == IsFiniteSet(c) /\ Cardinality(c) <= MaxCached

PageInv(p) ==
  /\ p \in Page
  /\ CacheOK(p.cache)
  /\ p.ended <=> p.view = "auth"
  /\ p.view = "auth" => Empty(p)
  /\ p.view = "loading" => p.latest = None
  /\ p.detail # None => p.detail = KeyOf(p)
  /\ Kept(p)

LEMMA EmptyCache == CacheOK({})
BY PageAssumption, FS_EmptySet DEF CacheOK

LEMMA SmallerCache ==
  ASSUME NEW c, CacheOK(c), NEW d \in SUBSET c
  PROVE  CacheOK(d)
<1>1. IsFiniteSet(d) /\ Cardinality(d) <= Cardinality(c)
  BY FS_Subset DEF CacheOK
<1>2. Cardinality(d) \in Nat /\ Cardinality(c) \in Nat /\ MaxCached \in Nat
  BY <1>1, FS_CardinalityType, PageAssumption DEF CacheOK
<1> QED
  BY <1>1, <1>2 DEF CacheOK

\* A new entry makes room for itself.
LEMMA CachesBounded ==
  ASSUME NEW c, CacheOK(c), NEW key, NEW d \in Caches(c, key)
  PROVE  CacheOK(d) /\ d \subseteq c \cup {key}
<1>1. IsFiniteSet(c \cup {key}) /\ Cardinality(c \cup {key}) \in Nat /\ MaxCached \in Nat
  BY FS_AddElement, FS_CardinalityType, PageAssumption DEF CacheOK
<1>2. CASE Cardinality(c \cup {key}) <= MaxCached
  BY <1>1, <1>2 DEF Caches, CacheOK
<1>3. CASE ~ Cardinality(c \cup {key}) <= MaxCached
  <2>1. PICK k \in c \ {key} : d = (c \ {k}) \cup {key}
    BY <1>3 DEF Caches
  <2>2. IsFiniteSet(c \ {k}) /\ Cardinality(c \ {k}) = Cardinality(c) - 1
    BY <2>1, FS_RemoveElement DEF CacheOK
  <2>3. IsFiniteSet(d) /\ Cardinality(d) \in {Cardinality(c \ {k}), Cardinality(c \ {k}) + 1}
    BY <2>1, <2>2, FS_AddElement
  <2>4. Cardinality(c) \in Nat
    BY FS_CardinalityType DEF CacheOK
  <2> QED
    BY <1>1, <2>1, <2>2, <2>3, <2>4 DEF CacheOK
<1> QED
  BY <1>2, <1>3

LEMMA LoadedInv ==
  ASSUME NEW node \in Nodes \cup {None}, NEW hidden \in BOOLEAN
  PROVE  PageInv(Loaded(node, hidden)) /\ Loaded(node, hidden).latest = None
<1> DEFINE h0 == CHOOSE h \in Short : TRUE
<1>1. h0 \in Ranges
  BY PageAssumption
<1> HIDE DEF h0
<1>2. Loaded(node, hidden) =
        [view |-> "loading", hidden |-> hidden, timers |-> FALSE, latest |-> None, fleet |-> None,
         detail |-> None, selected |-> node, hours |-> h0, cache |-> {}, failed |-> FALSE,
         ended |-> FALSE]
  BY DEF Loaded, h0
<1> DEFINE q == Loaded(node, hidden)
<1>3. q \in Page
  BY <1>1, <1>2 DEF Page
<1>4. q.view = "loading" /\ q.latest = None /\ q.detail = None /\ q.ended = FALSE /\ q.cache = {}
  BY <1>2
<1>5. ~ q.ended
  BY <1>4
<1> HIDE DEF q
<1>6. PageInv(q)
  BY <1>3, <1>4, <1>5, EmptyCache DEF PageInv, Kept
<1> QED
  BY <1>4, <1>6 DEF q

LEMMA ShowAuthInv ==
  ASSUME NEW p \in Page
  PROVE  PageInv(ShowAuth(p)) /\ ShowAuth(p).view = "auth" /\ ShowAuth(p).latest = None
<1> DEFINE q == ShowAuth(p)
<1>1. q \in Page
  BY DEF ShowAuth, Page
<1>2. q.view = "auth" /\ q.latest = None /\ q.fleet = None /\ q.detail = None /\ q.cache = {}
  BY DEF ShowAuth, Page
<1>3. q.ended = TRUE /\ q.timers = FALSE
  BY DEF ShowAuth, Page
<1>4. q.ended /\ ~ q.timers
  BY <1>3
<1> HIDE DEF q
<1>5. PageInv(q)
  BY <1>1, <1>2, <1>4, EmptyCache DEF PageInv, Kept, Empty
<1> QED
  BY <1>2, <1>5 DEF q

LEMMA StartTimersInv ==
  ASSUME NEW p \in Page, PageInv(p)
  PROVE  /\ PageInv(StartTimers(p))
         /\ StartTimers(p).latest = p.latest /\ StartTimers(p).view = p.view
         /\ StartTimers(p).selected = p.selected
<1> DEFINE t == p.timers \/ CanRefresh(p)
<1>1. t \in BOOLEAN /\ (p.view = "auth" => t = FALSE)
  BY DEF Page, PageInv, Empty, CanRefresh
<1>2. StartTimers(p) = [p EXCEPT !.timers = t]
  BY DEF StartTimers
<1> HIDE DEF t
<1> QED
  BY <1>1, <1>2 DEF Page, PageInv, Kept, Empty, KeyOf

LEMMA StartTimersFacts ==
  ASSUME NEW p \in Page
  PROVE  \E t \in BOOLEAN : StartTimers(p) = [p EXCEPT !.timers = t]
<1> DEFINE t == p.timers \/ CanRefresh(p)
<1>1. t \in BOOLEAN
  BY DEF Page, CanRefresh
<1>2. StartTimers(p) = [p EXCEPT !.timers = t]
  BY DEF StartTimers
<1> HIDE DEF t
<1> QED
  BY <1>1, <1>2

LEMMA ClosedInv ==
  ASSUME NEW p \in Page, PageInv(p)
  PROVE  PageInv(Closed(p)) /\ Closed(p).latest = p.latest
BY DEF Closed, Page, PageInv, Kept, Empty

\* Selecting another node or range shows what is stored of it, or nothing.
LEMMA RestoredInv ==
  ASSUME NEW p \in Page, p.ended <=> p.view = "auth", p.view # "auth",
         p.view = "loading" => p.latest = None, Kept(p), CacheOK(p.cache)
  PROVE  PageInv(Restored(p)) /\ Restored(p).latest = p.latest
<1> DEFINE d == Restored(p).detail
<1>1. d \in {None, KeyOf(p)} /\ (d # None => p.selected # None)
  BY DEF Restored, Page
<1>2. Restored(p) = [p EXCEPT !.failed = FALSE, !.detail = d]
  BY DEF Restored, Page
<1>3. d \in Key \cup {None}
  BY <1>1 DEF KeyOf, Key, Page
<1> HIDE DEF d
<1> QED
  BY <1>1, <1>2, <1>3 DEF Page, PageInv, Kept, KeyOf

LEMMA OpenedInv ==
  ASSUME NEW p \in Page, PageInv(p), p.latest # None, NEW n \in Nodes, n \in p.latest.nodes
  PROVE  PageInv(Opened(p, n)) /\ Opened(p, n).latest = p.latest
<1> DEFINE q == [p EXCEPT !.selected = n]
<1>1. q \in Page /\ q.latest = p.latest /\ q.view = p.view /\ (q.ended <=> p.ended)
      /\ q.cache = p.cache
  BY DEF Page
<1>2. Kept(q) /\ p.view # "auth"
  BY DEF Page, PageInv, Kept, Empty
<1> HIDE DEF q
<1>3. PageInv(Restored(q)) /\ Restored(q).latest = q.latest
  BY <1>1, <1>2, RestoredInv DEF PageInv
<1> QED
  BY <1>1, <1>3 DEF Opened, q

\* The snapshot takes out of the page what the catalog has lost.
LEMMA AcceptLatestInv ==
  ASSUME NEW p \in Page, PageInv(p), p.view # "auth", NEW r \in Request
  PROVE  PageInv(AcceptLatest(p, r)) /\ AcceptLatest(p, r).latest = [nodes |-> r.nodes, known |-> r.known]
<1> DEFINE l == [nodes |-> r.nodes, known |-> r.known]
           c == {k \in p.cache : k.node \in r.known}
           f == IF p.fleet = None THEN None ELSE p.fleet \cap r.known
           q == [p EXCEPT !.latest = l, !.view = "dashboard", !.cache = c, !.fleet = f]
<1>1. l \in Snapshot /\ l.nodes = r.nodes /\ l.known = r.known
  BY DEF Snapshot, Request
<1>2. c \in SUBSET Key /\ f \in (SUBSET Nodes) \cup {None}
  BY DEF Page
<1>3. (\A k \in c : k.node \in r.known) /\ (f # None => f \subseteq r.known) /\ CacheOK(c)
  BY SmallerCache DEF PageInv
<1>4. [WithSnapshot(p, r) EXCEPT !.cache = {k \in @ : k.node \in r.known},
                                 !.fleet = IF @ = None THEN None ELSE @ \cap r.known] = q
  BY DEF WithSnapshot, Page
<1> HIDE DEF l, c, f
<1>5. q \in Page /\ q.latest = l /\ q.view = "dashboard" /\ q.cache = c /\ q.fleet = f
      /\ q.selected = p.selected /\ q.hours = p.hours /\ q.detail = p.detail /\ q.ended = p.ended
  BY <1>1, <1>2 DEF Page
<1> HIDE DEF q
<1>6. PICK t \in BOOLEAN : StartTimers(q) = [q EXCEPT !.timers = t]
  BY <1>5, StartTimersFacts
<1> DEFINE w == StartTimers(q)
<1>7. w \in Page /\ w.latest = l /\ w.view = "dashboard" /\ w.cache = c /\ w.fleet = f
      /\ w.selected = p.selected /\ w.hours = p.hours /\ w.detail = p.detail /\ w.ended = p.ended
  BY <1>5, <1>6 DEF Page
<1>8. AcceptLatest(p, r) = SelectionKept(w)
  BY <1>4 DEF AcceptLatest
<1> HIDE DEF w
<1>9. w.detail # None => w.detail = KeyOf(w)
  BY <1>7 DEF PageInv, KeyOf
<1>10. ~ w.ended
  BY <1>7 DEF PageInv
<1>11. CASE w.selected \in l.nodes \cup {None}
  BY <1>1, <1>3, <1>7, <1>8, <1>9, <1>10, <1>11 DEF SelectionKept, PageInv, Kept, l
<1>12. CASE w.selected \notin l.nodes \cup {None}
  <2> DEFINE z == Closed(w)
  <2>1. z \in Page /\ z.latest = l /\ z.view = "dashboard" /\ z.cache = c /\ z.fleet = f
        /\ z.selected = None /\ z.detail = None /\ z.ended = w.ended
    BY <1>7 DEF Closed, Page
  <2>2. AcceptLatest(p, r) = z
    BY <1>7, <1>8, <1>12 DEF SelectionKept
  <2> HIDE DEF z
  <2> QED
    BY <1>1, <1>3, <1>10, <2>1, <2>2 DEF PageInv, Kept, l
<1> QED
  BY <1>11, <1>12

LEMMA AcceptFleetInv ==
  ASSUME NEW p \in Page, PageInv(p), p.view # "auth", NEW r \in Request
  PROVE  PageInv(AcceptFleet(p, r)) /\ AcceptFleet(p, r).latest = p.latest
<1> DEFINE f == IF p.latest = None THEN r.nodes ELSE r.nodes \cap p.latest.known
<1>1. f \in (SUBSET Nodes) \cup {None} /\ (p.latest # None => f \subseteq p.latest.known)
  BY DEF Request
<1>2. AcceptFleet(p, r) = [p EXCEPT !.fleet = f]
  BY DEF AcceptFleet
<1> HIDE DEF f
<1> QED
  BY <1>1, <1>2 DEF Page, PageInv, Kept, KeyOf

LEMMA ShownInv ==
  ASSUME NEW p \in Page, PageInv(p), p.view # "auth", NEW key \in Key
  PROVE  PageInv(Shown(p, key)) /\ Shown(p, key).latest = p.latest
<1>1. CASE KeyOf(p) = key
  <2> DEFINE q == [p EXCEPT !.detail = key, !.failed = FALSE]
  <2>1. q \in Page /\ q.detail = key /\ q.selected = p.selected /\ q.hours = p.hours
        /\ q.latest = p.latest /\ q.view = p.view /\ q.ended = p.ended /\ q.fleet = p.fleet
        /\ q.cache = p.cache
    BY DEF Page
  <2>2. Shown(p, key) = q
    BY <1>1 DEF Shown
  <2> HIDE DEF q
  <2> QED
    BY <1>1, <2>1, <2>2 DEF PageInv, Kept, KeyOf
<1> QED
  BY <1>1 DEF Shown

LEMMA AcceptDetailInv ==
  ASSUME NEW p \in Page, PageInv(p), p.view # "auth", NEW key \in Key, NEW q \in AcceptDetail(p, key)
  PROVE  PageInv(q) /\ q.latest = p.latest
<1>1. ASSUME Known(p, key), NEW c \in Caches(p.cache, key), q = Shown([p EXCEPT !.cache = c], key)
      PROVE  PageInv(q) /\ q.latest = p.latest
  <2> DEFINE w == [p EXCEPT !.cache = c]
  <2>1. c \subseteq p.cache \cup {key} /\ c \in SUBSET Key /\ CacheOK(c)
    BY <1>1, CachesBounded DEF PageInv, Page
  <2>2. w \in Page /\ w.cache = c /\ w.detail = p.detail /\ w.selected = p.selected
        /\ w.hours = p.hours /\ w.latest = p.latest /\ w.view = p.view /\ w.ended = p.ended
        /\ w.fleet = p.fleet
    BY <2>1 DEF Page
  <2> HIDE DEF w
  <2>3. Kept(w)
    BY <1>1, <2>1, <2>2 DEF Kept, PageInv, Known
  <2>4. PageInv(w)
    BY <2>1, <2>2, <2>3 DEF PageInv, KeyOf
  <2>5. q = Shown(w, key)
    BY <1>1 DEF w
  <2> QED
    BY <2>2, <2>4, <2>5, ShownInv
<1>2. CASE ~ Known(p, key)
  BY <1>2 DEF AcceptDetail
<1> QED
  BY <1>1, <1>2 DEF AcceptDetail

LEMMA FailedInv ==
  ASSUME NEW p \in Page, PageInv(p), p.view # "auth", NEW r \in Request
  PROVE  PageInv(Failed(p, r)) /\ Failed(p, r).latest \in {None, p.latest}
<1>1. CASE r.status = "denied" \/ p.view = "loading"
  BY <1>1, ShowAuthInv DEF Failed
<1>2. CASE ~ (r.status = "denied" \/ p.view = "loading")
  <2> DEFINE f == p.failed \/ (r.id \in Key /\ r.id = KeyOf(p) /\ p.detail = None)
  <2>1. f \in BOOLEAN
    BY DEF Page
  <2>2. Failed(p, r) = [p EXCEPT !.failed = f]
    BY <1>2 DEF Failed
  <2> HIDE DEF f
  <2> QED
    BY <2>1, <2>2 DEF Page, PageInv, Kept, KeyOf, Empty
<1> QED
  BY <1>1, <1>2

LEMMA HiddenInv ==
  ASSUME NEW p \in Page, PageInv(p), NEW h \in BOOLEAN, NEW t \in BOOLEAN, p.timers \/ ~ t
  PROVE  /\ PageInv([p EXCEPT !.hidden = h]) /\ PageInv([p EXCEPT !.hidden = h, !.timers = t])
         /\ [p EXCEPT !.hidden = h] \in Page
         /\ [p EXCEPT !.hidden = h].latest = p.latest
         /\ [p EXCEPT !.hidden = h, !.timers = t].latest = p.latest
BY DEF Page, PageInv, Kept, KeyOf, Empty

LEMMA SetHoursInv ==
  ASSUME NEW p \in Page, PageInv(p), p.view # "auth", NEW h \in Ranges
  PROVE  LET q == Restored([p EXCEPT !.hours = h]) IN PageInv(q) /\ q.latest = p.latest
<1> DEFINE q == [p EXCEPT !.hours = h]
<1>1. q \in Page /\ q.latest = p.latest /\ q.view = p.view /\ (q.ended <=> p.ended) /\ Kept(q)
      /\ q.cache = p.cache
  BY DEF Page, PageInv, Kept
<1> HIDE DEF q
<1>2. PageInv(Restored(q)) /\ Restored(q).latest = q.latest
  BY <1>1, RestoredInv DEF PageInv
<1> QED
  BY <1>1, <1>2 DEF q

LEMMA LeftInv ==
  ASSUME NEW p \in Page
  PROVE  LET q == [ShowAuth(p) EXCEPT !.selected = None] IN PageInv(q) /\ q.latest = None
<1> DEFINE q == ShowAuth(p)
<1>1. q \in Page /\ PageInv(q) /\ q.latest = None /\ q.view = "auth"
  BY ShowAuthInv DEF PageInv
<1> HIDE DEF q
<1>2. PageInv([q EXCEPT !.selected = None]) /\ [q EXCEPT !.selected = None].latest = None
  BY <1>1 DEF Page, PageInv, Kept, Empty
<1> QED
  BY <1>2 DEF q

-----------------------------------------------------------------------------
(***************************************************************************)
(* Login links.                                                            *)
(***************************************************************************)

\* A link that can open nothing any more.
Spent(t) == t \in drawn /\ (tokens[t] = None \/ tokens[t].used = TRUE)

Granting(b) == login[b] # None /\ login[b].stage = "grant"

LoginInv ==
  /\ LoginTypeOK
  /\ \A t \in Tokens : t \notin drawn => tokens[t] = None
  /\ \A g \in grants : Spent(g.token)
  /\ \A b \in Browsers : Granting(b) =>
       /\ Spent(login[b].token)
       /\ \A g \in grants : g.token # login[b].token
       /\ \A c \in Browsers : Granting(c) /\ login[c].token = login[b].token => c = b
  /\ OneSessionPerLink

LEMMA LoginInitInv == LoginInit => LoginInv
BY LoginAssumption DEF LoginInit, LoginInv, LoginTypeOK, Granting, OneSessionPerLink

LEMMA LoginFacts ==
  ASSUME LoginInv, NEW b \in Browsers, login[b] # None
  PROVE  login[b] \in Login /\ login[b].token \in Tokens /\ login[b].at \in Nat
BY DEF LoginInv, LoginTypeOK, Login

LEMMA IssueInv ==
  ASSUME LoginInv, NEW t \in Tokens, Issue(t), UNCHANGED <<now, login, cookie, grants>>
  PROVE  LoginInv'
<1> USE DEF LoginInv
<1> DEFINE row == [expires |-> now + LoginTtl, used |-> FALSE]
<1>1. row \in Row
  BY LoginAssumption DEF LoginTypeOK, Row
<1>2. tokens' = [tokens EXCEPT ![t] = row] /\ drawn' = drawn \cup {t} /\ t \notin drawn
  BY DEF Issue
<1> HIDE DEF row
<1>3. LoginTypeOK'
  BY <1>1, <1>2 DEF LoginTypeOK
<1>4. \A v \in Tokens : Spent(v) => Spent(v)' /\ v # t
  BY <1>2 DEF Spent, LoginTypeOK
<1>5. \A g \in grants : g.token \in Tokens
  BY DEF LoginTypeOK
<1>6. \A b \in Browsers : Granting(b)' => Granting(b) /\ login[b].token \in Tokens
  BY LoginFacts DEF Granting
<1>7. \A v \in Tokens : v \notin drawn' => tokens'[v] = None
  BY <1>2 DEF LoginTypeOK
<1> QED
  BY <1>3, <1>4, <1>5, <1>6, <1>7 DEF Granting, OneSessionPerLink

LEMMA OpenInv ==
  ASSUME LoginInv, NEW b \in Browsers, NEW t \in drawn, Open(b, t)
  PROVE  LoginInv'
<1> USE DEF LoginInv
<1> DEFINE l == [token |-> t, at |-> now, stage |-> "consume"]
<1>1. l \in Login /\ l.stage = "consume"
  BY LoginAssumption DEF LoginTypeOK, Login
<1>2. login' = [login EXCEPT ![b] = l] /\ UNCHANGED <<now, tokens, drawn, cookie, grants>>
  BY DEF Open
<1> HIDE DEF l
<1>3. LoginTypeOK'
  BY <1>1, <1>2 DEF LoginTypeOK
<1>4. \A c \in Browsers : Granting(c)' => Granting(c) /\ login'[c] = login[c]
  BY <1>1, <1>2 DEF Granting, LoginTypeOK
<1> QED
  BY <1>2, <1>3, <1>4 DEF Spent, OneSessionPerLink

LEMMA LoseLoginInv ==
  ASSUME LoginInv, NEW b \in Browsers, login' = [login EXCEPT ![b] = None],
         UNCHANGED <<now, tokens, drawn, cookie, grants>>
  PROVE  LoginInv'
<1> USE DEF LoginInv
<1>1. LoginTypeOK'
  BY DEF LoginTypeOK
<1>2. \A c \in Browsers : Granting(c)' => Granting(c) /\ login'[c] = login[c]
  BY DEF Granting, LoginTypeOK
<1> QED
  BY <1>1, <1>2 DEF Spent, OneSessionPerLink

LEMMA ConsumeInv == ASSUME LoginInv, NEW b \in Browsers, Consume(b) PROVE LoginInv'
<1> USE DEF LoginInv
<1>0. PICK t \in Tokens : t = login[b].token
  BY LoginFacts DEF Consume
<1>1. login[b] \in Login /\ UNCHANGED <<now, drawn, cookie, grants>>
  BY LoginFacts DEF Consume
<1>2. CASE UNCHANGED tokens /\ login' = [login EXCEPT ![b] = None]
  BY <1>1, <1>2, LoseLoginInv
<1>3. CASE /\ Usable(t, login[b].at) /\ tokens' = [tokens EXCEPT ![t].used = TRUE]
           /\ login' = [login EXCEPT ![b].stage = "grant"]
  <2>1. tokens[t] \in Row /\ tokens[t].used # TRUE /\ t \in drawn
    BY <1>3 DEF Usable, LoginTypeOK
  <2> DEFINE l == [login[b] EXCEPT !.stage = "grant"]
             row == [tokens[t] EXCEPT !.used = TRUE]
  <2>2. l \in Login /\ l.token = t /\ l.stage = "grant" /\ row \in Row /\ row.used = TRUE
    BY <1>0, <1>1, <2>1 DEF Login, Row
  <2>3. login' = [login EXCEPT ![b] = l] /\ tokens' = [tokens EXCEPT ![t] = row]
    BY <1>3
  <2> HIDE DEF l, row
  <2>4. LoginTypeOK'
    BY <1>1, <2>2, <2>3 DEF LoginTypeOK
  <2>5. Spent(t)' /\ ~ Spent(t) /\ \A v \in Tokens : v # t => (Spent(v) <=> Spent(v)')
    BY <1>1, <2>1, <2>2, <2>3, LoginAssumption DEF Spent, LoginTypeOK, Row
  <2>6. \A c \in Browsers : c # b /\ Granting(c)' =>
          Granting(c) /\ login'[c] = login[c] /\ login[c].token \in Tokens /\ Spent(login[c].token)
    BY <2>2, <2>3, LoginFacts DEF Granting, LoginTypeOK
  <2>7. login'[b].token = t
    BY <2>2, <2>3 DEF LoginTypeOK
  <2>8. \A g \in grants : g.token \in Tokens /\ g.token # t /\ Spent(g.token)'
    BY <2>5 DEF LoginTypeOK
  <2>9. \A v \in Tokens : v \notin drawn' => tokens'[v] = None
    BY <1>1, <2>1, <2>3 DEF LoginTypeOK
  <2> QED
    BY <1>1, <2>4, <2>5, <2>6, <2>7, <2>8, <2>9 DEF OneSessionPerLink
<1> QED
  BY <1>0, <1>2, <1>3 DEF Consume

LEMMA GrantInv == ASSUME LoginInv, NEW b \in Browsers, Grant(b) PROVE LoginInv'
<1> USE DEF LoginInv
<1> DEFINE s == [token |-> login[b].token, issued |-> login[b].at]
           g0 == [browser |-> b, token |-> login[b].token, at |-> login[b].at]
<1>1. login[b] \in Login /\ UNCHANGED <<now, tokens, drawn>> /\ Granting(b)
      /\ cookie' = [cookie EXCEPT ![b] = s] /\ grants' = grants \cup {g0}
      /\ login' = [login EXCEPT ![b] = None]
  BY LoginFacts DEF Grant, Granting
<1>2. s \in Session /\ g0.token = login[b].token
      /\ g0 \in [browser : Browsers, token : Tokens, at : Nat]
  BY <1>1 DEF Login, Session
<1> HIDE DEF s, g0
<1>3. LoginTypeOK'
  BY <1>1, <1>2 DEF LoginTypeOK
<1>4. \A c \in Browsers : Granting(c)' => c # b /\ Granting(c) /\ login'[c] = login[c]
  BY <1>1 DEF Granting, LoginTypeOK
<1> QED
  BY <1>1, <1>2, <1>3, <1>4 DEF Spent, OneSessionPerLink

LEMMA CleanupInv ==
  ASSUME LoginInv, tokens' = KeptTokens(now), UNCHANGED <<now, drawn, login, cookie, grants>>
  PROVE  LoginInv'
<1> USE DEF LoginInv
<1>1. \A t \in Tokens : tokens'[t] \in {None, tokens[t]}
  BY DEF KeptTokens
<1>2. LoginTypeOK'
  BY DEF LoginTypeOK, KeptTokens
<1>3. \A t \in Tokens : Spent(t) => Spent(t)'
  BY <1>1 DEF Spent
<1>4. (\A g \in grants : g.token \in Tokens)
      /\ \A b \in Browsers : Granting(b) => login[b].token \in Tokens
  BY LoginFacts DEF LoginTypeOK, Granting
<1> QED
  BY <1>1, <1>2, <1>3, <1>4 DEF Granting, OneSessionPerLink

-----------------------------------------------------------------------------
(***************************************************************************)
(* The page and its requests.                                              *)
(***************************************************************************)

Remaining == {n \in Nodes : rows[n] # "gone"}

\* One request for each id; a snapshot under way knows nothing the shown one does not
\* know, and both know every node that is left.
WireInv ==
  /\ wire \subseteq Request
  /\ \A r, s \in wire : r.id = s.id => r = s
  /\ page.latest # None => Remaining \subseteq page.latest.known
  /\ \A r \in wire : r.id = Latest /\ r.status = "ok" =>
       /\ Remaining \subseteq r.known
       /\ page.latest # None => r.known \subseteq page.latest.known

BoundsInv ==
  /\ rows \in [Nodes -> {"live", "locked", "gone"}]
  /\ leaving \in {"no", "asked", "answered"}
  /\ faults \in 0..MaxFaults /\ clicks \in 0..MaxClicks

IInv == LoginInv /\ BoundsInv /\ PageInv(page) /\ WireInv

LEMMA IdsFacts == Latest \in Ids /\ Fleet \in Ids /\ Key \subseteq Ids /\ Latest # Fleet /\ Latest \notin Key
  /\ Fleet \notin Key
BY PageAssumption DEF Ids, Latest, Fleet, Key

LEMMA AskedFacts ==
  ASSUME LoginInv, NEW requests \in SUBSET Request, NEW ids \in SUBSET Ids
  PROVE  /\ Asked(requests, ids) \subseteq Request /\ requests \subseteq Asked(requests, ids)
         /\ \A r \in Asked(requests, ids) \ requests :
              r.status = "asked" /\ r.id \in ids /\ \A s \in requests : s.id # r.id
         /\ \A r, s \in Asked(requests, ids) \ requests : r.id = s.id => r = s
<1>1. cookie[Self] \in Session \cup {None}
  BY PageAssumption DEF LoginInv, LoginTypeOK
<1>2. \A i \in ids : [id |-> i, session |-> cookie[Self], status |-> "asked", nodes |-> {}, known |-> {}]
                       \in Request
  BY <1>1 DEF Request
<1> QED
  BY <1>2 DEF Asked, Pending

\* What Become needs to know of the page it makes.
LEMMA BecomeStep ==
  ASSUME IInv, NEW q \in Page, PageInv(q), NEW requests \in SUBSET wire, NEW ids \in SUBSET Ids,
         Become(q, requests, ids), LoginInv', BoundsInv', rows' = rows, cookie' = cookie,
         q.latest # None => Remaining \subseteq q.latest.known,
         \A r \in requests : r.id = Latest /\ r.status = "ok" /\ q.latest # None
           => r.known \subseteq q.latest.known
  PROVE  IInv'
<1> USE DEF IInv
<1>1. page' = q /\ requests \subseteq Request
  BY DEF Become, WireInv
<1> DEFINE asked == IF CanRefresh(q) THEN ids ELSE {}
<1>2. \/ wire' \subseteq requests
      \/ wire' = Asked(requests, asked)
  BY DEF Become
<1>3. asked \in SUBSET Ids
  OBVIOUS
<1> HIDE DEF asked
<1>4. /\ Asked(requests, asked) \subseteq Request /\ requests \subseteq Asked(requests, asked)
      /\ \A r \in Asked(requests, asked) \ requests :
           r.status = "asked" /\ r.id \in asked /\ \A s \in requests : s.id # r.id
      /\ \A r, s \in Asked(requests, asked) \ requests : r.id = s.id => r = s
  BY <1>1, <1>3, AskedFacts
<1>5. wire' \subseteq Request
  BY <1>1, <1>2, <1>4
<1>6. \A r, s \in wire' : r.id = s.id => r = s
  BY <1>2, <1>4 DEF WireInv
<1>7. \A r \in wire' : r.id = Latest /\ r.status = "ok" => r \in requests
  BY <1>2, <1>4
<1>8. Remaining' = Remaining
  BY DEF Remaining
<1>9. WireInv'
  BY <1>1, <1>5, <1>6, <1>7, <1>8 DEF WireInv
<1> QED
  BY <1>1, <1>9

\* How a page may change: to a snapshot that knows no more, and from a session that has
\* ended not to a dashboard.
Moves(q) ==
  /\ page.latest # None /\ q.latest # None => q.latest.known \subseteq page.latest.known
  /\ page.view = "auth" => q.view # "dashboard"

\* A callback that changes neither the snapshot nor anything outside the page.
LEMMA CallbackStep ==
  ASSUME IInv, NEW q, PageInv(q), q.latest \in {None, page.latest},
         page.view = "auth" => q.view # "dashboard",
         NEW requests \in SUBSET wire, NEW ids \in SUBSET Ids, Become(q, requests, ids),
         UNCHANGED <<now, loginVars, rows>>, BoundsInv'
  PROVE  IInv' /\ Moves(page')
<1> USE DEF IInv
<1>1. LoginInv'
  BY DEF loginVars, LoginInv, LoginTypeOK, Spent, Granting, OneSessionPerLink
<1>2. q \in Page /\ page' = q
  BY DEF PageInv, Become
<1>3. q.latest # None => Remaining \subseteq q.latest.known
  BY DEF WireInv
<1>4. \A r \in requests : r.id = Latest /\ r.status = "ok" /\ q.latest # None
        => r.known \subseteq q.latest.known
  BY DEF WireInv
<1>5. IInv'
  BY <1>1, <1>2, <1>3, <1>4, BecomeStep DEF loginVars
<1>6. Moves(q)
  BY DEF Moves
<1> QED
  BY <1>2, <1>5, <1>6 DEF Moves

LEMMA KeyOfType == ASSUME NEW p \in Page, p.selected # None PROVE KeyOf(p) \in Key
BY DEF KeyOf, Key, Page

LEMMA CurrentType == ASSUME NEW p \in Page PROVE Current(p) \in Ids
BY KeyOfType, IdsFacts DEF Current

LEMMA BoundsFacts ==
  ASSUME BoundsInv, UNCHANGED <<rows, leaving>>,
         UNCHANGED faults \/ Fault, UNCHANGED clicks \/ Click
  PROVE  BoundsInv'
BY PageAssumption DEF BoundsInv, Fault, Click

LEMMA TimerStep == ASSUME IInv, PollLatest \/ PollHistory \/ Refresh PROVE IInv' /\ Moves(page')
<1> USE DEF IInv
<1>1. PageInv(page) /\ page \in Page /\ page.view # "auth"
  BY DEF PollLatest, PollHistory, Refresh, PageInv, Empty
<1>2. BoundsInv' /\ UNCHANGED <<now, loginVars, rows>>
  BY BoundsFacts DEF PollLatest, PollHistory, Refresh, Unasked
<1>3. {Latest} \in SUBSET Ids /\ {Current(page)} \in SUBSET Ids /\ {Latest, Current(page)} \in SUBSET Ids
  BY <1>1, IdsFacts, CurrentType
<1>4. PICK ids \in SUBSET Ids : Become(page, wire, ids)
  BY <1>3 DEF PollLatest, PollHistory, Refresh
<1> QED
  BY <1>1, <1>2, <1>4, CallbackStep

LEMMA OpenNodeStep == ASSUME IInv, NEW n \in Nodes, OpenNode(n) PROVE IInv' /\ Moves(page')
<1> USE DEF IInv
<1>1. PageInv(page) /\ page \in Page /\ page.view # "auth" /\ page.latest # None
      /\ n \in page.latest.nodes
  BY DEF OpenNode, PageInv, Empty
<1>2. BoundsInv' /\ UNCHANGED <<now, loginVars, rows>>
  BY BoundsFacts DEF OpenNode, Unasked
<1> DEFINE q == Opened(page, n)
<1>3. PageInv(q) /\ q.latest = page.latest
  BY <1>1, OpenedInv
<1>4. Become(q, wire, {KeyOf(q)})
  BY DEF OpenNode
<1>5. q.selected # None
  <2>1. q.selected = n
    BY <1>1 DEF Opened, Restored, Page
  <2> QED
    BY <2>1, PageAssumption
<1> HIDE DEF q
<1>6. {KeyOf(q)} \in SUBSET Ids
  BY <1>3, <1>5, KeyOfType, IdsFacts DEF PageInv
<1> QED
  BY <1>1, <1>2, <1>3, <1>4, <1>6, CallbackStep

LEMMA CloseNodeStep == ASSUME IInv, CloseNode PROVE IInv' /\ Moves(page')
<1> USE DEF IInv
<1>1. PageInv(page) /\ page \in Page
  BY DEF PageInv
<1>2. BoundsInv' /\ UNCHANGED <<now, loginVars, rows>>
  BY BoundsFacts DEF CloseNode, Unasked
<1> DEFINE q == Closed(page)
<1>3. PageInv(q) /\ q.latest = page.latest
  BY <1>1, ClosedInv
<1>4. q.view = page.view
  BY <1>1 DEF Closed, Page
<1>5. PICK ids \in StaleFleet(page) : Become(q, wire, ids)
  BY DEF CloseNode
<1>6. ids \in SUBSET Ids
  BY <1>5, IdsFacts DEF StaleFleet
<1>7. page.view = "auth" => q.view # "dashboard"
  BY <1>4
<1> HIDE DEF q
<1> QED
  BY <1>2, <1>3, <1>5, <1>6, <1>7, CallbackStep

LEMMA SetHoursStep == ASSUME IInv, NEW h \in Ranges, SetHours(h) PROVE IInv' /\ Moves(page')
<1> USE DEF IInv
<1>1. PageInv(page) /\ page \in Page /\ page.view # "auth"
  BY DEF SetHours, PageInv
<1>2. BoundsInv' /\ UNCHANGED <<now, loginVars, rows>>
  BY BoundsFacts DEF SetHours, Unasked
<1> DEFINE q == Restored([page EXCEPT !.hours = h])
<1>3. PageInv(q) /\ q.latest = page.latest
  BY <1>1, SetHoursInv
<1>4. Become(q, wire, {KeyOf(q)})
  BY DEF SetHours
<1>5. q.selected # None
  BY <1>1 DEF SetHours, Restored, Page
<1> HIDE DEF q
<1>6. {KeyOf(q)} \in SUBSET Ids
  BY <1>3, <1>5, KeyOfType, IdsFacts DEF PageInv
<1> QED
  BY <1>1, <1>2, <1>3, <1>4, <1>6, CallbackStep

LEMMA HideStep == ASSUME IInv, Hide PROVE IInv' /\ Moves(page')
<1> USE DEF IInv
<1>1. PageInv(page) /\ page \in Page /\ page.view # "auth"
  BY DEF Hide, PageInv
<1>2. BoundsInv' /\ UNCHANGED <<now, loginVars, rows>>
  BY BoundsFacts DEF Hide, Unasked
<1> DEFINE q == [page EXCEPT !.hidden = TRUE, !.timers = FALSE]
<1>3. PageInv(q) /\ q.latest = page.latest
  BY <1>1, HiddenInv
<1>4. Become(q, wire, {})
  BY DEF Hide
<1> HIDE DEF q
<1> QED
  BY <1>1, <1>2, <1>3, <1>4, CallbackStep

LEMMA ShowStep == ASSUME IInv, Show PROVE IInv' /\ Moves(page')
<1> USE DEF IInv
<1>1. PageInv(page) /\ page \in Page
  BY DEF PageInv
<1>2. BoundsInv' /\ UNCHANGED <<now, loginVars, rows>>
  BY BoundsFacts DEF Show, Unasked
<1> DEFINE w == [page EXCEPT !.hidden = FALSE]
           q == StartTimers(w)
<1>3. PageInv(w) /\ w \in Page /\ w.latest = page.latest /\ w.view = page.view
  BY <1>1, HiddenInv DEF Page
<1> HIDE DEF w
<1>4. PageInv(q) /\ q \in Page /\ q.latest = page.latest /\ q.view = page.view
  BY <1>3, StartTimersInv DEF PageInv
<1> HIDE DEF q
<1>5. PICK ids : Become(q, wire, ids \cup {Latest})
                 /\ ids \in (IF q.selected = None THEN StaleFleet(q)
                           ELSE IF KeyOf(q) \in q.cache THEN {{}, {KeyOf(q)}} ELSE {{KeyOf(q)}})
  BY DEF Show, q, w
<1>6. ids \cup {Latest} \in SUBSET Ids
  BY <1>4, <1>5, KeyOfType, IdsFacts DEF StaleFleet
<1>7. page.view = "auth" => q.view # "dashboard"
  BY <1>4
<1> QED
  BY <1>2, <1>4, <1>5, <1>6, <1>7, CallbackStep

\* What comes after the await of a request.
LEMMA ReceiveStep == ASSUME IInv, NEW id \in Ids, Receive(id) PROVE IInv' /\ Moves(page')
<1> USE DEF IInv
<1>1. PageInv(page) /\ page \in Page
  BY DEF PageInv
<1>2. BoundsInv' /\ UNCHANGED <<now, loginVars, rows>>
  BY BoundsFacts DEF Receive
<1>3. PICK r \in wire : r.id = id /\
       (\/ page.ended /\ Become(page, wire \ {r}, {})
        \/ ~ page.ended /\ r.status = "ok" /\ id = Latest /\ ReceiveLatest(r)
        \/ ~ page.ended /\ r.status = "ok" /\ id = Fleet /\ Become(AcceptFleet(page, r), wire \ {r}, {})
        \/ /\ ~ page.ended /\ r.status = "ok" /\ id \in Key
           /\ \E p \in AcceptDetail(page, id) : Become(p, wire \ {r}, {})
        \/ ~ page.ended /\ r.status \in {"denied", "failed"} /\ Become(Failed(page, r), wire \ {r}, {}))
  BY DEF Receive, Awaited
<1>4. r \in Request /\ wire \ {r} \in SUBSET wire /\ {} \in SUBSET Ids
  BY <1>3 DEF WireInv
<1>5. ~ page.ended => page.view # "auth"
  BY DEF PageInv
<1>6. CASE page.ended /\ Become(page, wire \ {r}, {})
  BY <1>1, <1>2, <1>4, <1>6, CallbackStep DEF PageInv
<1>7. CASE ~ page.ended /\ Become(AcceptFleet(page, r), wire \ {r}, {})
  <2> DEFINE q == AcceptFleet(page, r)
  <2>1. PageInv(q) /\ q.latest = page.latest
    BY <1>1, <1>4, <1>5, <1>7, AcceptFleetInv
  <2>2. Become(q, wire \ {r}, {})
    BY <1>7
  <2> HIDE DEF q
  <2> QED
    BY <1>2, <1>4, <1>5, <1>7, <2>1, <2>2, CallbackStep
<1>8. ASSUME ~ page.ended, id \in Key, NEW q \in AcceptDetail(page, id), Become(q, wire \ {r}, {})
      PROVE  IInv' /\ Moves(page')
  <2>1. PageInv(q) /\ q.latest = page.latest
    BY <1>1, <1>5, <1>8, AcceptDetailInv
  <2> QED
    BY <1>2, <1>4, <1>5, <1>8, <2>1, CallbackStep
<1>9. CASE ~ page.ended /\ Become(Failed(page, r), wire \ {r}, {})
  <2> DEFINE q == Failed(page, r)
  <2>1. PageInv(q) /\ q.latest \in {None, page.latest}
    BY <1>1, <1>4, <1>5, <1>9, FailedInv
  <2>2. Become(q, wire \ {r}, {})
    BY <1>9
  <2> HIDE DEF q
  <2> QED
    BY <1>2, <1>4, <1>5, <1>9, <2>1, <2>2, CallbackStep
<1>10. CASE ~ page.ended /\ r.status = "ok" /\ id = Latest /\ ReceiveLatest(r)
  <2> DEFINE q == AcceptLatest(page, r)
  <2>1. PageInv(q) /\ q.latest = [nodes |-> r.nodes, known |-> r.known]
    BY <1>1, <1>4, <1>5, <1>10, AcceptLatestInv
  <2>2. Become(q, wire \ {r}, {Current(q)}) \/ Become(q, wire \ {r}, {})
        \/ \E ids \in StaleFleet(q) : Become(q, wire \ {r}, ids)
    BY <1>10 DEF ReceiveLatest
  <2> HIDE DEF q
  <2>3. q \in Page /\ q.latest.known = r.known
    BY <2>1 DEF PageInv
  <2>4. PICK ids \in SUBSET Ids : Become(q, wire \ {r}, ids)
    <3>1. {Current(q)} \in SUBSET Ids /\ {} \in SUBSET Ids /\ StaleFleet(q) \subseteq SUBSET Ids
      BY <2>3, CurrentType, IdsFacts DEF StaleFleet
    <3> QED
      BY <2>2, <3>1
  <2>5. LoginInv'
    BY <1>2 DEF loginVars, LoginInv, LoginTypeOK, Spent, Granting, OneSessionPerLink
  <2>6. Remaining \subseteq q.latest.known
    BY <1>3, <1>10, <2>3 DEF WireInv
  <2>7. \A s \in wire \ {r} : ~ (s.id = Latest)
    BY <1>3, <1>10 DEF WireInv
  <2>8. IInv'
    BY <1>2, <1>4, <2>1, <2>3, <2>4, <2>5, <2>6, <2>7, BecomeStep DEF loginVars
  <2>9. Moves(q)
    BY <1>3, <1>5, <1>10, <2>3 DEF Moves, WireInv
  <2>10. page' = q
    BY <2>4 DEF Become
  <2> QED
    BY <2>8, <2>9, <2>10 DEF Moves
<1> QED
  BY <1>3, <1>6, <1>7, <1>8, <1>9, <1>10

-----------------------------------------------------------------------------
(***************************************************************************)
(* Everything but the callbacks of the page.                               *)
(***************************************************************************)

\* An answer of the Worker takes the place of its request.
LEMMA ReplacedStep ==
  ASSUME WireInv, NEW r \in wire, NEW s \in Request, s.id = r.id, Replaced(r, s),
         UNCHANGED <<rows, page>>,
         s.id = Latest /\ s.status = "ok" => s.known = Remaining
  PROVE  WireInv'
<1>1. wire' = (wire \ {r}) \cup {s} /\ Remaining' = Remaining
  BY DEF Replaced, Remaining
<1>2. \A a \in wire \ {r} : a.id # s.id
  BY DEF WireInv
<1>3. \A a, c \in wire' : a.id = c.id => a = c
  BY <1>1, <1>2 DEF WireInv
<1>4. s.id = Latest /\ s.status = "ok" =>
        Remaining \subseteq s.known /\ (page.latest # None => s.known \subseteq page.latest.known)
  BY DEF WireInv
<1> QED
  BY <1>1, <1>3, <1>4 DEF WireInv

LEMMA ServeStep == ASSUME IInv, NEW id \in Ids, Serve(id) PROVE IInv' /\ Moves(page')
<1> USE DEF IInv
<1>1. UNCHANGED <<now, loginVars, rows, page, leaving, clicks>>
  BY DEF Serve
<1>2. LoginInv'
  BY <1>1 DEF loginVars, LoginInv, LoginTypeOK, Spent, Granting, OneSessionPerLink
<1>3. BoundsInv'
  BY BoundsFacts DEF Serve, ServeFails
<1>4. PICK r \in wire : ServeLatest(r) \/ ServeHistory(r) \/ ServeFails(r)
  BY DEF Serve, Awaited
<1>5. r \in Request
  BY <1>4 DEF WireInv
<1>6. CASE ServeLatest(r)
  <2>1. ASSUME Replaced(r, [r EXCEPT !.status = "denied"]) PROVE WireInv'
    <3> DEFINE s == [r EXCEPT !.status = "denied"]
    <3>1. s \in Request /\ s.id = r.id /\ s.status = "denied" /\ Replaced(r, s)
      BY <1>5, <2>1 DEF Request
    <3> HIDE DEF s
    <3> QED
      BY <1>1, <3>1, ReplacedStep
  <2>2. ASSUME Replaced(r, [r EXCEPT !.status = "nodes", !.nodes = Visible]) PROVE WireInv'
    <3> DEFINE s == [r EXCEPT !.status = "nodes", !.nodes = Visible]
    <3>0. Visible \in SUBSET Nodes
      BY DEF Visible
    <3>1. s \in Request /\ s.id = r.id /\ s.status = "nodes" /\ Replaced(r, s)
      BY <1>5, <2>2, <3>0 DEF Request
    <3> HIDE DEF s
    <3> QED
      BY <1>1, <3>1, ReplacedStep
  <2>3. ASSUME Replaced(r, [r EXCEPT !.status = "ok", !.known = Remaining]) PROVE WireInv'
    <3> DEFINE s == [r EXCEPT !.status = "ok", !.known = Remaining]
    <3>0. Remaining \in SUBSET Nodes
      BY DEF Remaining
    <3>1. s \in Request /\ s.id = r.id /\ s.known = Remaining /\ Replaced(r, s)
      BY <1>5, <2>3, <3>0 DEF Request
    <3> HIDE DEF s
    <3> QED
      BY <1>1, <3>1, ReplacedStep
  <2> QED
    BY <1>1, <1>2, <1>3, <1>6, <2>1, <2>2, <2>3 DEF ServeLatest, Remaining, Moves
<1>7. CASE ServeHistory(r)
  <2> DEFINE shown == IF r.id = Fleet THEN Visible ELSE {r.id.node} \cap Visible
             st == IF ~ Authorized(r.session) THEN "denied"
                   ELSE IF r.id # Fleet /\ shown = {} THEN "failed" ELSE "ok"
             s == [r EXCEPT !.nodes = shown, !.status = st]
  <2>1. shown \in SUBSET Nodes /\ st \in {"denied", "failed", "ok"}
    BY DEF Visible
  <2>2. Replaced(r, s) /\ r.id # Latest
    BY <1>7 DEF ServeHistory
  <2> HIDE DEF shown, st
  <2>3. s \in Request /\ s.id = r.id
    BY <1>5, <2>1 DEF Request
  <2> HIDE DEF s
  <2>4. WireInv'
    BY <1>1, <2>2, <2>3, ReplacedStep
  <2> QED
    BY <1>1, <1>2, <1>3, <2>4 DEF Moves
<1>8. CASE ServeFails(r)
  <2> DEFINE s == [r EXCEPT !.status = "failed", !.nodes = {}]
  <2>1. s \in Request /\ s.id = r.id /\ s.status = "failed" /\ Replaced(r, s)
    BY <1>5, <1>8 DEF Request, ServeFails
  <2> HIDE DEF s
  <2>2. WireInv'
    BY <1>1, <2>1, ReplacedStep
  <2> QED
    BY <1>1, <1>2, <1>3, <2>2 DEF Moves
<1> QED
  BY <1>4, <1>6, <1>7, <1>8

LEMMA LoadStep ==
  ASSUME IInv, NEW n \in Nodes \cup {None}, NEW hidden \in BOOLEAN, Load(n, hidden)
  PROVE  IInv' /\ Moves(page')
<1> USE DEF IInv
<1>1. UNCHANGED <<now, loginVars, rows, leaving, faults, clicks>> /\ page' = Loaded(n, hidden)
      /\ wire' = Asked({}, {Latest})
  BY DEF Load
<1>2. LoginInv' /\ BoundsInv'
  BY <1>1 DEF loginVars, LoginInv, LoginTypeOK, Spent, Granting, OneSessionPerLink, BoundsInv
<1>3. PageInv(Loaded(n, hidden)) /\ Loaded(n, hidden).latest = None
  BY LoadedInv
<1>4. Loaded(n, hidden).view = "loading"
  BY DEF Loaded
<1>5. wire' \subseteq Request /\ \A r \in wire' : r.status = "asked"
  BY <1>1, AskedFacts, IdsFacts
<1>6. \A r, s \in wire' : r.id = s.id => r = s
  BY <1>1, AskedFacts, IdsFacts
<1>7. WireInv'
  BY <1>1, <1>3, <1>5, <1>6 DEF WireInv
<1> QED
  BY <1>1, <1>2, <1>3, <1>4, <1>7 DEF Moves

LEMMA LogOutStep == ASSUME IInv, LogOut PROVE IInv' /\ Moves(page')
<1> USE DEF IInv
<1>1. UNCHANGED <<now, tokens, drawn, login, grants, rows, clicks>>
  BY DEF LogOut
<1>2. BoundsInv'
  BY <1>1, PageAssumption DEF LogOut, BoundsInv, Fault
<1>3. cookie' \in [Browsers -> Session \cup {None}]
  BY DEF LogOut, LoginInv, LoginTypeOK
<1>4. LoginInv'
  BY <1>1, <1>3 DEF LoginInv, LoginTypeOK, Spent, Granting, OneSessionPerLink
<1>5. CASE UNCHANGED <<page, wire>>
  BY <1>1, <1>2, <1>4, <1>5 DEF WireInv, Remaining, Moves
<1>6. CASE Become([ShowAuth(page) EXCEPT !.selected = None], wire, {}) /\ UNCHANGED cookie
  <2> DEFINE q == [ShowAuth(page) EXCEPT !.selected = None]
  <2>1. PageInv(q) /\ q.latest = None
    BY LeftInv DEF PageInv
  <2>2. q.view # "dashboard" /\ Become(q, wire, {})
    BY <1>6, ShowAuthInv DEF PageInv, Page
  <2> HIDE DEF q
  <2>3. UNCHANGED <<now, loginVars, rows>>
    BY <1>1, <1>6 DEF loginVars
  <2>4. {} \in SUBSET Ids /\ wire \in SUBSET wire
    OBVIOUS
  <2> QED
    BY <1>2, <2>1, <2>2, <2>3, <2>4, CallbackStep
<1> QED
  BY <1>5, <1>6 DEF LogOut

LEMMA DeleteStep == ASSUME IInv, NEW n \in Nodes, Delete(n) PROVE IInv' /\ Moves(page')
<1> USE DEF IInv
<1>1. UNCHANGED <<now, loginVars, page, wire, leaving, faults, clicks>>
      /\ rows' = [rows EXCEPT ![n] = IF @ = "live" THEN "locked" ELSE "gone"]
  BY DEF Delete
<1>2. LoginInv' /\ BoundsInv'
  BY <1>1 DEF loginVars, LoginInv, LoginTypeOK, Spent, Granting, OneSessionPerLink, BoundsInv
<1>3. Remaining' \subseteq Remaining
  BY <1>1 DEF Remaining, BoundsInv, Delete
<1>4. WireInv'
  BY <1>1, <1>3 DEF WireInv
<1> QED
  BY <1>1, <1>2, <1>4 DEF Moves

LEMMA LogInStep == ASSUME IInv, LogIn \/ Cleanup PROVE IInv' /\ Moves(page')
<1> USE DEF IInv
<1>1. UNCHANGED <<now, rows, page, wire, leaving, clicks>> /\ (UNCHANGED faults \/ Fault)
  BY DEF LogIn, Cleanup, Consume, Grant, Open, LoseLogin
<1>2. BoundsInv'
  BY <1>1, BoundsFacts
<1>3. ASSUME NEW b \in Browsers, LoseLogin(b) PROVE LoginInv'
  BY <1>3, LoseLoginInv DEF LoseLogin
<1>4. LoginInv'
  BY <1>3, IssueInv, OpenInv, ConsumeInv, GrantInv, CleanupInv DEF LogIn, Cleanup, LoginInv, LoginTypeOK
<1>5. WireInv'
  BY <1>1 DEF WireInv, Remaining
<1> QED
  BY <1>1, <1>2, <1>4, <1>5 DEF Moves

LEMMA TickStep == ASSUME IInv, Tick \/ UNCHANGED vars PROVE IInv' /\ Moves(page')
<1> USE DEF IInv
<1>1. UNCHANGED <<loginVars, rows, page, wire, leaving, faults, clicks>>
  BY DEF Tick, vars
<1>2. now' \in 0..MaxNow
  BY LoginAssumption DEF Tick, vars, LoginInv, LoginTypeOK
<1>3. LoginInv' /\ BoundsInv' /\ WireInv'
  BY <1>1, <1>2 DEF loginVars, LoginInv, LoginTypeOK, Spent, Granting, OneSessionPerLink, BoundsInv,
     WireInv, Remaining
<1> QED
  BY <1>1, <1>3 DEF Moves

-----------------------------------------------------------------------------

LEMMA InitInv == Init => IInv
<1> SUFFICES ASSUME Init PROVE IInv
  OBVIOUS
<1>1. LoginInv
  BY LoginInitInv DEF Init
<1>2. Loaded(None, FALSE) \in Page
  BY LoadedInv DEF PageInv
<1>3. PageInv(page) /\ page.latest = None
  BY <1>2, ShowAuthInv DEF Init
<1>4. BoundsInv
  BY PageAssumption DEF Init, BoundsInv
<1>5. WireInv
  BY <1>3 DEF Init, WireInv
<1> QED
  BY <1>1, <1>3, <1>4, <1>5 DEF IInv

LEMMA NextInv == IInv /\ [Next]_vars => IInv' /\ Moves(page')
<1> SUFFICES ASSUME IInv, [Next]_vars PROVE IInv' /\ Moves(page')
  OBVIOUS
<1>1. ASSUME NEW n \in Leaving, Delete(n) PROVE IInv' /\ Moves(page')
  BY <1>1, DeleteStep, PageAssumption
<1> QED
  BY <1>1, LoadStep, ServeStep, ReceiveStep, TimerStep, OpenNodeStep, SetHoursStep, CloseNodeStep,
     HideStep, ShowStep, LogOutStep, LogInStep, TickStep DEF Next

LEMMA InvParts ==
  IInv => TypeOK /\ OneSessionPerLink /\ DetailMatchesSelection /\ DeletedNotKept
<1> SUFFICES ASSUME IInv PROVE TypeOK /\ OneSessionPerLink /\ DetailMatchesSelection /\ DeletedNotKept
  OBVIOUS
<1>1. PageInv(page) /\ WireInv /\ BoundsInv /\ LoginInv
  BY DEF IInv
<1>2. TypeOK
  BY <1>1 DEF TypeOK, PageInv, CacheOK, WireInv, BoundsInv, LoginInv
<1>3. OneSessionPerLink
  BY <1>1 DEF LoginInv
<1>4. DetailMatchesSelection /\ DeletedNotKept
  BY <1>1 DEF PageInv, Kept, DetailMatchesSelection, DeletedNotKept
<1> QED
  BY <1>2, <1>3, <1>4

\* What every step needs and keeps.
THEOREM PageInvariant == Spec => []IInv
BY InitInv, NextInv, PTL DEF Spec

\* The variables of page, sessions and links have their types, and the history cache its
\* bound (useDashboard.ts: cacheHistory).
THEOREM DashboardTypesCorrect == Spec => []TypeOK
BY PageInvariant, InvParts, PTL

\* A login link opens one session, whoever opens it how often at the same time and
\* whatever the cleanup removes (dashboard-auth.ts: consumeDashboardLogin).
THEOREM OneSession == Spec => []OneSessionPerLink
BY PageInvariant, InvParts, PTL

\* The charts are those of the selection, for any order of the answers
\* (useDashboard.ts: loadDetail).
THEOREM DetailSelected == Spec => []DetailMatchesSelection
BY PageInvariant, InvParts, PTL

\* What the catalog has lost is not on the page after the snapshot that says so
\* (useDashboard.ts: loadLatest, retainKnownHistory).
THEOREM DeletedGone == Spec => []DeletedNotKept
BY PageInvariant, InvParts, PTL

\* No answer brings a page back whose session has ended (useDashboard.ts:
\* invalidateRequests, showAuth).
THEOREM SignedOut == Spec => SignedOutForGood
<1>1. IInv /\ [Next]_vars => [page.view = "auth" => Empty(page) /\ page'.view # "dashboard"]_vars
  BY NextInv DEF IInv, PageInv, Moves
<1> QED
  BY <1>1, PageInvariant, PTL DEF Spec, SignedOutForGood

\* One request at a time for each thing that is asked (useDashboard.ts: request) is
\* enough: no snapshot is followed by an older one.
THEOREM SnapshotsInOrder == Spec => NewerSnapshotStays
<1>1. IInv /\ [Next]_vars
      => [page.latest # None /\ page'.latest # None => page'.latest.known \subseteq page.latest.known]_vars
  BY NextInv DEF Moves
<1> QED
  BY <1>1, PageInvariant, PTL DEF Spec, NewerSnapshotStays
=============================================================================
