---------------------------- MODULE RollupsProofs ----------------------------
(***************************************************************************)
(* Theorems of Rollups for every set of samples and every length of the    *)
(* windows: what was purged is not written back, and no run makes an       *)
(* average smaller.                                                        *)
(***************************************************************************)
EXTENDS Rollups, TLAPS

-----------------------------------------------------------------------------
(***************************************************************************)
(* Days.                                                                   *)
(***************************************************************************)

LEMMA DivFacts ==
  ASSUME NEW t \in Int, NEW d \in Int, d > 0
  PROVE  t \div d \in Int /\ (t \div d) * d <= t /\ t < (t \div d) * d + d
<1>1. t \div d \in Int
  BY SMT
<1>2. (t \div d) * d <= t
  BY Z3
<1>3. t < (t \div d) * d + d
  BY Z3
<1> QED
  BY <1>1, <1>2, <1>3

LEMMA DayStartFacts ==
  ASSUME NEW t \in Nat
  PROVE  /\ t \div Day \in Int /\ dayStart(t) = (t \div Day) * Day
         /\ dayStart(t) \in Int /\ dayStart(t) <= t /\ t < dayStart(t) + Day
<1>1. Day \in Int /\ Day > 0
  BY RollupsAssumption
<1>2. t \div Day \in Int /\ (t \div Day) * Day <= t /\ t < (t \div Day) * Day + Day
  BY <1>1, DivFacts
<1> QED
  BY <1>1, <1>2 DEF dayStart

\* Multiples of a day do not fall within a day.
LEMMA DaysApart ==
  ASSUME NEW i \in Int, NEW k \in Int, i < k
  PROVE  i * Day + Day <= k * Day
<1>1. i + 1 <= k /\ Day \in Nat
  BY RollupsAssumption
<1>2. (i + 1) * Day <= k * Day
  BY <1>1, SMTT(30)
<1>3. (i + 1) * Day = i * Day + Day
  BY <1>1, SMTT(30)
<1> QED
  BY <1>2, <1>3

\* What happened before a day's start happened on a day that ended by then, what
\* happened since did on that day or later.
LEMMA DayOrder ==
  ASSUME NEW t \in Nat, NEW k \in Int
  PROVE  /\ t < k * Day => dayStart(t) + Day <= k * Day
         /\ t >= k * Day => dayStart(t) >= k * Day
<1> DEFINE i == t \div Day
<1>1. i \in Int /\ dayStart(t) = i * Day /\ dayStart(t) <= t /\ t < dayStart(t) + Day
  BY DayStartFacts
<1> HIDE DEF i
<1>2. Day \in Int /\ k * Day \in Int /\ i * Day \in Int
  BY <1>1, RollupsAssumption
<1>3. ASSUME t < k * Day PROVE dayStart(t) + Day <= k * Day
  <2>1. CASE i < k
    BY <1>1, <2>1, DaysApart
  <2>2. CASE i = k
    BY <1>1, <1>2, <1>3, <2>2
  <2>3. CASE k < i
    <3>1. k * Day + Day <= i * Day
      BY <1>1, <2>3, DaysApart
    <3> QED
      BY <1>1, <1>2, <1>3, <3>1, RollupsAssumption
  <2> QED
    BY <1>1, <2>1, <2>2, <2>3
<1>4. ASSUME t >= k * Day PROVE dayStart(t) >= k * Day
  <2>1. CASE i < k
    <3>1. i * Day + Day <= k * Day
      BY <1>1, <2>1, DaysApart
    <3> QED
      BY <1>1, <1>2, <1>4, <3>1
  <2>2. CASE i = k
    BY <1>1, <1>2, <2>2
  <2>3. CASE k < i
    <3>1. k * Day + Day <= i * Day
      BY <1>1, <2>3, DaysApart
    <3> QED
      BY <1>1, <1>2, <3>1, RollupsAssumption
  <2> QED
    BY <1>1, <2>1, <2>2, <2>3
<1> QED
  BY <1>3, <1>4

LEMMA DayStartInBuckets == ASSUME NEW t \in 0..MaxNow PROVE dayStart(t) \in Buckets
<1> DEFINE i == t \div Day
<1>1. t \in Nat /\ t <= MaxNow /\ MaxNow \in Nat /\ Day \in Int /\ Day > 0
  BY RollupsAssumption
<1>2. i \in Int /\ dayStart(t) = i * Day /\ dayStart(t) \in Int /\ dayStart(t) <= t
  BY <1>1, DayStartFacts
<1>3. i >= 0
  BY <1>1, Z3
<1> HIDE DEF i
<1>4. i * Day >= 0
  BY <1>1, <1>2, <1>3, SMTT(30)
<1>5. (i * Day) % Day = 0
  BY <1>1, <1>2, Z3
<1> QED
  BY <1>1, <1>2, <1>4, <1>5 DEF Buckets

-----------------------------------------------------------------------------
(***************************************************************************)
(* The inductive invariant.                                                *)
(***************************************************************************)

Todo == IF run # None THEN run.todo ELSE {}
SameDay(g, r) == g.node = r.node /\ g.bucket = r.bucket

\* Averages are of nodes of the catalog, and a purged node is not one of them.
NodesKnown ==
  /\ \A r \in rollups : r.node \in catalog
  /\ catalog \cap purged = {}

\* A raw row is as old as its round at most, and leaves only when it is too old.
RawFollows ==
  /\ \A s \in Samples : raw[s] # None => s \in accepted /\ s.round_at <= raw[s]
  /\ \A s \in accepted : raw[s] # None \/ s.round_at < now - RawDays * Day

\* Averages, and what a run is about to write, are of samples that were accepted; there
\* is one for a node and a day.
OfAccepted ==
  /\ \A r \in rollups : r.of \subseteq OfDay(r.node, r.bucket)
  /\ \A r, q \in rollups : SameDay(r, q) => r = q
  /\ \A g \in Todo : g.node \in purged \/ g.of \subseteq OfDay(g.node, g.bucket)
  /\ \A g, q \in Todo : SameDay(g, q) => g = q

\* What a run is about to write has all the samples of the average it replaces.
TodoGains ==
  \A g \in Todo, r \in rollups :
    SameDay(g, r) /\ ~ Straddled(r.node, r.bucket) => r.of \subseteq g.of

IInv == TypeOK /\ NodesKnown /\ RawFollows /\ OfAccepted /\ TodoGains

LEMMA InitInv == Init => IInv
<1> SUFFICES ASSUME Init PROVE IInv
  OBVIOUS
<1>1. TypeOK
  BY RollupsAssumption DEF Init, TypeOK
<1> QED
  BY <1>1 DEF Init, IInv, NodesKnown, RawFollows, OfAccepted, TodoGains, Todo

-----------------------------------------------------------------------------
(***************************************************************************)
(* Types.                                                                  *)
(***************************************************************************)

LEMMA GroupsTypes ==
  ASSUME TypeOK, RawFollows
  PROVE  Selected \subseteq Samples /\ Groups(Selected) \subseteq Group
<1>1. ASSUME NEW s \in Selected
      PROVE  s \in Samples /\ s.node \in Nodes /\ s.checked_at \in 0..MaxNow
  <2>1. s \in Samples /\ raw[s] # None /\ s.checked_at \in Nat /\ s.round_at \in Nat
        /\ s.checked_at <= s.round_at /\ s.node \in Nodes
    BY RollupsAssumption DEF Selected, Stored
  <2>2. s.round_at <= raw[s] /\ raw[s] \in 0..MaxNow
    BY <2>1 DEF RawFollows, TypeOK
  <2> QED
    BY <2>1, <2>2, RollupsAssumption
<1>2. \A s \in Selected : dayStart(s.checked_at) \in Buckets
  BY <1>1, DayStartInBuckets
<1> QED
  BY <1>1, <1>2 DEF Groups, Group

LEMMA TypeStep == TypeOK /\ RawFollows /\ [Next]_vars => TypeOK'
<1> SUFFICES ASSUME TypeOK, RawFollows, [Next]_vars PROVE TypeOK'
  OBVIOUS
<1> USE DEF TypeOK
<1>1. ASSUME NEW s \in Samples, Report(s) PROVE TypeOK'
  BY <1>1, RollupsAssumption DEF Report
<1>2. CASE Start
  <2>1. dayStart(now) \in Buckets
    BY DayStartInBuckets
  <2>2. ASSUME NEW due \in SUBSET Group, run' = [todo |-> due, stage |-> "write", whole |-> TRUE]
        PROVE  TypeOK'
    BY <1>2, <2>1, <2>2 DEF Start
  <2>3. CASE run' = [todo |-> {}, stage |-> "clean", whole |-> FALSE]
    BY <1>2, <2>1, <2>3 DEF Start
  <2>4. {g \in Groups(Selected) : g.of # {}} \subseteq Group
    BY GroupsTypes
  <2> QED
    BY <1>2, <2>2, <2>3, <2>4 DEF Start
<1>3. CASE Write
  <2>1. run \in [todo : SUBSET Group, stage : {"write", "clean"}, whole : BOOLEAN]
    BY <1>3 DEF Write
  <2>2. CASE UNCHANGED rollups /\ run' = [todo |-> {}, stage |-> "clean", whole |-> FALSE]
    BY <1>3, <2>2 DEF Write
  <2>4. CASE UNCHANGED rollups /\ run' = [run EXCEPT !.stage = "clean"]
    BY <1>3, <2>1, <2>4 DEF Write
  <2>3. ASSUME NEW batch \in SUBSET run.todo, rollups' = Upserted(batch),
               run' = [run EXCEPT !.todo = @ \ batch]
        PROVE  TypeOK'
    <3>1. rollups' \subseteq Group
      BY <2>1, <2>3 DEF Upserted
    <3>2. run' \in [todo : SUBSET Group, stage : {"write", "clean"}, whole : BOOLEAN]
      BY <2>1, <2>3
    <3> QED
      BY <1>3, <3>1, <3>2 DEF Write
  <2> QED
    BY <1>3, <2>2, <2>3, <2>4 DEF Write
<1>4. CASE Clean
  <2>1. raw' \in [Samples -> 0..MaxNow \cup {None}]
    BY <1>4 DEF Clean, KeptRaw
  <2>2. rollups' \subseteq Group /\ rebuilt' \subseteq Buckets
    BY <1>4 DEF Clean
  <2> QED
    BY <1>4, <2>1, <2>2 DEF Clean
<1>5. ASSUME NEW n \in Nodes, Purge(n) PROVE TypeOK'
  BY <1>5 DEF Purge
<1>6. CASE Tick
  BY <1>6, RollupsAssumption DEF Tick
<1>7. CASE UNCHANGED vars
  BY <1>7 DEF vars
<1> QED
  BY <1>1, <1>2, <1>3, <1>4, <1>5, <1>6, <1>7 DEF Next

-----------------------------------------------------------------------------
(***************************************************************************)
(* A run that selects a round of a day selects every round of that day     *)
(* that was ever accepted: the window is made of whole days and shorter    *)
(* than the time raw rows are kept.                                        *)
(***************************************************************************)

LEMMA WindowFacts ==
  ASSUME TypeOK
  PROVE  \E k \in Int, w \in Int :
           /\ dayStart(now) = k * Day /\ dayStart(now) - Window * Day = w * Day
           /\ now - RawDays * Day < w * Day
<1> DEFINE k == now \div Day
<1>1. now \in Nat
  BY RollupsAssumption DEF TypeOK
<1>2. k \in Int /\ dayStart(now) = k * Day /\ now < dayStart(now) + Day
  BY <1>1, DayStartFacts
<1> HIDE DEF k
<1>3. Window \in Int /\ RawDays \in Int /\ Day \in Int /\ Window < RawDays
  BY RollupsAssumption
<1>4. Window * Day + Day <= RawDays * Day
  BY <1>3, DaysApart
<1>5. k * Day - Window * Day = (k - Window) * Day
  BY <1>2, <1>3, SMTT(30)
<1>6. k - Window \in Int /\ k * Day \in Int /\ Window * Day \in Int /\ RawDays * Day \in Int
  BY <1>2, <1>3
<1>7. now - RawDays * Day < k * Day - Window * Day
  BY <1>1, <1>2, <1>3, <1>4, <1>6
<1> QED
  BY <1>2, <1>5, <1>6, <1>7

LEMMA WholeDaySelected ==
  ASSUME TypeOK, RawFollows, NEW s \in accepted, NEW t \in Selected,
         dayStart(s.round_at) = dayStart(t.round_at)
  PROVE  s \in Selected
<1>1. PICK k \in Int, w \in Int :
        /\ dayStart(now) = k * Day /\ dayStart(now) - Window * Day = w * Day
        /\ now - RawDays * Day < w * Day
  BY WindowFacts
<1>2. s \in Samples /\ t \in Samples /\ s.round_at \in Nat /\ t.round_at \in Nat
      /\ t.round_at >= w * Day /\ t.round_at < k * Day
  BY <1>1, RollupsAssumption DEF TypeOK, Selected, Stored
<1>3. dayStart(t.round_at) >= w * Day /\ dayStart(t.round_at) + Day <= k * Day
  BY <1>1, <1>2, DayOrder
<1>4. dayStart(s.round_at) \in Int /\ dayStart(s.round_at) <= s.round_at
      /\ s.round_at < dayStart(s.round_at) + Day
  BY <1>2, DayStartFacts
<1>5. now - RawDays * Day \in Int /\ w * Day \in Int /\ k * Day \in Int /\ Day \in Int
  BY <1>1, RollupsAssumption DEF TypeOK
<1>6. s.round_at >= w * Day /\ s.round_at < k * Day
  BY <1>2, <1>3, <1>4, <1>5
<1>7. raw[s] # None
  BY <1>1, <1>2, <1>5, <1>6 DEF RawFollows
<1> QED
  BY <1>1, <1>2, <1>6, <1>7 DEF Selected, Stored

LEMMA GroupsFacts ==
  ASSUME NEW g \in Groups(Selected)
  PROVE  g.of = {s \in Selected : s.node = g.node /\ dayStart(s.checked_at) = g.bucket}
BY DEF Groups

LEMMA GroupsUnique ==
  ASSUME NEW g \in Groups(Selected), NEW q \in Groups(Selected), SameDay(g, q)
  PROVE  g = q
BY DEF Groups, SameDay

LEMMA GroupsGain ==
  ASSUME TypeOK, RawFollows, OfAccepted,
         NEW g \in Groups(Selected), g.of # {}, NEW r \in rollups, SameDay(g, r),
         ~ Straddled(r.node, r.bucket)
  PROVE  r.of \subseteq g.of
<1>1. PICK t \in g.of : TRUE
  OBVIOUS
<1>2. t \in Selected /\ t.node = r.node /\ dayStart(t.checked_at) = r.bucket
  BY <1>1, GroupsFacts DEF SameDay
<1>3. t \in OfDay(r.node, r.bucket)
  BY <1>2 DEF Selected, Stored, RawFollows, OfDay
<1>4. ASSUME NEW s \in r.of PROVE s \in g.of
  <2>1. s \in OfDay(r.node, r.bucket) /\ s \in accepted
    BY <1>4 DEF OfAccepted, OfDay
  <2>2. dayStart(s.round_at) = dayStart(t.round_at)
    BY <1>3, <2>1 DEF Straddled
  <2>3. s \in Selected
    BY <1>2, <2>1, <2>2, WholeDaySelected
  <2> QED
    BY <2>1, <2>3, GroupsFacts DEF OfDay, SameDay
<1> QED
  BY <1>4

-----------------------------------------------------------------------------
(***************************************************************************)
(* The invariant is preserved, one action at a time.                       *)
(***************************************************************************)

LEMMA ReportStep == ASSUME IInv, NEW s \in Samples, Report(s), TypeOK' PROVE IInv'
<1> USE DEF IInv
<1>1. /\ UNCHANGED <<now, rollups, run, purged>> /\ s.node \notin purged
      /\ raw' = [raw EXCEPT ![s] = now] /\ s.round_at <= now
      /\ catalog' = catalog \cup {s.node} /\ accepted' = accepted \cup {s}
  BY DEF Report
<1>2. raw'[s] = now /\ \A v \in Samples : v # s => raw'[v] = raw[v]
  BY <1>1 DEF TypeOK
<1>3. now # None
  BY RollupsAssumption DEF TypeOK
<1>4. RawFollows'
  BY <1>1, <1>2, <1>3 DEF RawFollows, TypeOK
<1>5. \A n, d : OfDay(n, d) \subseteq OfDay(n, d)'
  BY <1>1 DEF OfDay
<1>6. \A n, d : Straddled(n, d) => Straddled(n, d)'
  BY <1>5 DEF Straddled
<1>7. OfAccepted'
  BY <1>1, <1>5 DEF OfAccepted, Todo, SameDay
<1>8. TodoGains'
  BY <1>1, <1>6 DEF TodoGains, Todo, SameDay
<1>9. NodesKnown'
  BY <1>1 DEF NodesKnown
<1> QED
  BY <1>4, <1>7, <1>8, <1>9

LEMMA StartStep == ASSUME IInv, Start, TypeOK' PROVE IInv'
<1> USE DEF IInv
<1>1. UNCHANGED <<now, catalog, raw, rollups, accepted, purged>>
  BY DEF Start
<1>2. RawFollows' /\ NodesKnown'
  BY <1>1 DEF RawFollows, NodesKnown
<1>3. \A g \in Todo' : g \in Groups(Selected) /\ g.of # {}
  BY DEF Start, Todo
<1>4. \A g \in Todo' : g.of \subseteq OfDay(g.node, g.bucket)
  BY <1>3, GroupsFacts DEF OfDay, Selected, Stored, RawFollows
<1>5. \A g, q \in Todo' : SameDay(g, q) => g = q
  BY <1>3, GroupsUnique
<1>6. \A g \in Todo', r \in rollups :
        SameDay(g, r) /\ ~ Straddled(r.node, r.bucket) => r.of \subseteq g.of
  BY <1>3, GroupsGain
<1>7. OfAccepted'
  BY <1>1, <1>4, <1>5 DEF OfAccepted, OfDay, SameDay
<1>8. TodoGains'
  BY <1>1, <1>6 DEF TodoGains, SameDay, Straddled, OfDay
<1> QED
  BY <1>2, <1>7, <1>8

\* A batch replaces the averages of its nodes and days.
LEMMA UpsertedFacts ==
  ASSUME NEW batch, NEW r \in Upserted(batch)
  PROVE  \/ /\ r \in rollups
            /\ \A g \in batch : g.node \in catalog => ~ SameDay(g, r)
         \/ r \in batch /\ r.node \in catalog
BY DEF Upserted, SameDay

LEMMA WriteStep == ASSUME IInv, Write, TypeOK' PROVE IInv'
<1> USE DEF IInv
<1>1. /\ UNCHANGED <<now, catalog, raw, accepted, purged>>
      /\ run \in [todo : SUBSET Group, stage : {"write", "clean"}, whole : BOOLEAN]
      /\ Todo = run.todo
  BY DEF Write, TypeOK, Todo
<1>2. RawFollows'
  BY <1>1 DEF RawFollows
<1>3. CASE UNCHANGED rollups /\ Todo' \subseteq Todo
  <2>1. OfAccepted'
    BY <1>1, <1>3 DEF OfAccepted, OfDay, SameDay
  <2>2. TodoGains'
    BY <1>1, <1>3 DEF TodoGains, Straddled, OfDay, SameDay
  <2> QED
    BY <1>1, <1>2, <1>3, <2>1, <2>2 DEF NodesKnown
<1>4. ASSUME NEW batch \in SUBSET run.todo, rollups' = Upserted(batch),
             run' = [run EXCEPT !.todo = @ \ batch]
      PROVE  IInv'
  <2>1. Todo' \subseteq Todo \ batch /\ batch \subseteq Todo
    BY <1>1, <1>4 DEF Todo
  <2>2. \A r \in rollups' :
          \/ r \in rollups /\ \A g \in batch : g.node \in catalog => ~ SameDay(g, r)
          \/ r \in batch /\ r.node \in catalog
    BY <1>4, UpsertedFacts
  <2>3. \A r \in rollups' : r.node \in catalog /\ r.node \notin purged
    BY <2>2 DEF NodesKnown
  <2>4. \A r \in rollups' : r.of \subseteq OfDay(r.node, r.bucket)
    BY <2>1, <2>2, <2>3 DEF OfAccepted
  <2>5. \A r, q \in rollups' : SameDay(r, q) => r = q
    BY <2>1, <2>2, <2>3 DEF OfAccepted, SameDay
  <2>6. OfAccepted'
    BY <1>1, <2>1, <2>4, <2>5 DEF OfAccepted, OfDay, SameDay
  <2>7. \A g \in Todo \ batch, r \in batch : ~ SameDay(g, r)
    BY <2>1 DEF OfAccepted
  <2>8. TodoGains'
    BY <1>1, <2>1, <2>2, <2>7 DEF TodoGains, Straddled, OfDay, SameDay
  <2> QED
    BY <1>1, <1>2, <2>3, <2>6, <2>8 DEF NodesKnown
<1>5. CASE UNCHANGED rollups /\ run' = [run EXCEPT !.stage = "clean"]
  BY <1>1, <1>3, <1>5 DEF Todo
<1>6. CASE UNCHANGED rollups /\ run' = [todo |-> {}, stage |-> "clean", whole |-> FALSE]
  BY <1>3, <1>6 DEF Todo
<1> QED
  BY <1>4, <1>5, <1>6 DEF Write

LEMMA CleanStep == ASSUME IInv, Clean, TypeOK' PROVE IInv'
<1> USE DEF IInv
<1>1. /\ UNCHANGED <<now, catalog, accepted, purged>> /\ rollups' \subseteq rollups /\ Todo' = {}
      /\ raw' = KeptRaw(now) \/ raw' = raw
  BY DEF Clean, Todo
<1>2. \A s \in Samples : raw'[s] = raw[s] \/ (raw'[s] = None /\ raw[s] < now - RawDays * Day)
  BY <1>1 DEF KeptRaw
<1>3. now - RawDays * Day \in Int /\ \A s \in Samples : s.round_at \in Int
      /\ (raw[s] # None => raw[s] \in Int)
  BY RollupsAssumption DEF TypeOK
<1>4. accepted \subseteq Samples
  BY DEF TypeOK
<1>5. RawFollows'
  <2>1. \A s \in Samples : raw'[s] # None => s \in accepted' /\ s.round_at <= raw'[s]
    BY <1>1, <1>2 DEF RawFollows
  <2>2. \A s \in accepted : raw'[s] # None \/ s.round_at < now - RawDays * Day
    BY <1>2, <1>3, <1>4 DEF RawFollows
  <2> QED
    BY <1>1, <2>1, <2>2 DEF RawFollows
<1>6. OfAccepted'
  BY <1>1 DEF OfAccepted, OfDay, SameDay
<1> QED
  BY <1>1, <1>5, <1>6 DEF NodesKnown, TodoGains

LEMMA PurgeStep == ASSUME IInv, NEW n \in Nodes, Purge(n), TypeOK' PROVE IInv'
<1> USE DEF IInv
<1>1. /\ UNCHANGED <<now, run>> /\ Todo' = Todo
      /\ catalog' = catalog \ {n} /\ purged' = purged \cup {n}
      /\ rollups' = {r \in rollups : r.node # n}
      /\ accepted' = {s \in accepted : s.node # n}
      /\ accepted \subseteq Samples
  BY DEF Purge, Todo, TypeOK
<1>2. \A s \in Samples : raw'[s] = IF s.node = n THEN None ELSE raw[s]
  BY DEF Purge
<1>3. RawFollows'
  BY <1>1, <1>2 DEF RawFollows
<1>4. \A m, d : m # n => OfDay(m, d)' = OfDay(m, d)
  BY <1>1 DEF OfDay
<1>5. OfAccepted'
  BY <1>1, <1>4 DEF OfAccepted, SameDay
<1>6. TodoGains'
  BY <1>1, <1>4 DEF TodoGains, SameDay, Straddled
<1> QED
  BY <1>1, <1>3, <1>5, <1>6 DEF NodesKnown

LEMMA TickStep == ASSUME IInv, Tick, TypeOK' PROVE IInv'
<1> USE DEF IInv
<1>1. /\ UNCHANGED <<catalog, raw, rollups, run, accepted, purged>> /\ now' = now + 1
      /\ Todo' = Todo /\ accepted \subseteq Samples
  BY DEF Tick, Todo, TypeOK
<1>2. now \in Int /\ RawDays * Day \in Int /\ \A s \in Samples : s.round_at \in Int
  BY RollupsAssumption DEF TypeOK
<1>3. RawFollows'
  BY <1>1, <1>2 DEF RawFollows
<1>4. OfAccepted' /\ TodoGains'
  BY <1>1 DEF OfAccepted, TodoGains, OfDay, Straddled, SameDay
<1> QED
  BY <1>1, <1>3, <1>4 DEF NodesKnown

LEMMA NextInv == IInv /\ [Next]_vars => IInv'
<1> SUFFICES ASSUME IInv, [Next]_vars PROVE IInv'
  OBVIOUS
<1>0. TypeOK'
  BY TypeStep DEF IInv
<1>1. CASE UNCHANGED vars
  BY <1>0, <1>1 DEF vars, IInv, NodesKnown, RawFollows, OfAccepted, TodoGains, Todo, OfDay,
     Straddled, SameDay
<1> QED
  BY <1>0, <1>1, ReportStep, StartStep, WriteStep, CleanStep, PurgeStep, TickStep DEF Next

\* What every step needs and keeps.
THEOREM RollupsInvariant == Spec => []IInv
BY InitInv, NextInv, PTL DEF Spec

\* The variables of the daily run have their types (index.ts: scheduled).
THEOREM RollupsTypesCorrect == Spec => []TypeOK
BY RollupsInvariant, PTL DEF IInv

\* However long ago a run has read the rows of a node, it writes none of them once the
\* node is purged (observability.ts: the WHERE EXISTS of the upserts).
THEOREM NoPurgedAverages == Spec => []PurgedStaysPurged
<1>1. IInv => PurgedStaysPurged
  BY DEF IInv, NodesKnown, PurgedStaysPurged
<1> QED
  BY <1>1, RollupsInvariant, PTL

\* For every length of the windows with Window < RawDays (3 and 31 in the code), no run,
\* cleanup or late report takes samples out of an average (compactRecentObservability).
THEOREM AveragesGrow == Spec => AveragesOnlyGain
<1>1. ASSUME IInv, [Next]_vars
      PROVE  [\A r \in rollups, q \in rollups' :
                r.node = q.node /\ r.bucket = q.bucket /\ ~ Straddled(r.node, r.bucket)
                  => r.of \subseteq q.of]_vars
  <2> USE DEF IInv
  <2>1. CASE rollups' \subseteq rollups
    BY <1>1, <2>1 DEF OfAccepted, SameDay
  <2>2. ASSUME run # None, NEW batch \in SUBSET run.todo, rollups' = Upserted(batch),
               NEW r \in rollups, NEW q \in rollups', SameDay(r, q),
               ~ Straddled(r.node, r.bucket)
        PROVE  r.of \subseteq q.of
    <3>1. CASE q \in rollups
      BY <1>1, <2>2, <3>1 DEF OfAccepted
    <3>2. CASE q \in batch
      BY <1>1, <2>2, <3>2 DEF TodoGains, Todo, SameDay
    <3> QED
      BY <2>2, <3>1, <3>2, UpsertedFacts
  <2>3. CASE Write
    BY <2>1, <2>2, <2>3 DEF Write, SameDay
  <2>4. CASE ~ Write
    BY <1>1, <2>1, <2>4 DEF Next, Report, Start, Clean, Purge, Tick, vars
  <2> QED
    BY <2>3, <2>4
<1> QED
  BY <1>1, RollupsInvariant, PTL DEF Spec, AveragesOnlyGain

-----------------------------------------------------------------------------
(***************************************************************************)
(* Averages end up whole.  A run that is not interrupted has, or is about  *)
(* to write, the whole average of every day it covers that is over; and    *)
(* no report of such a day can come any more.                              *)
(***************************************************************************)

Full(n, d) == [node |-> n, bucket |-> d, of |-> OfDay(n, d)]
Asked(n, d) == OfDay(n, d) # {} /\ ~ Straddled(n, d)
Over(d) == d + 2 * Day <= dayStart(now)
Covered(d) == dayStart(now) - Window * Day <= d /\ Over(d)

AcceptedKnown == \A s \in accepted : s.node \in catalog

RebuiltAreOver == \A d \in rebuilt : Over(d)

RunWhole ==
  run # None /\ run.whole =>
    /\ run.stage = "clean" => run.todo = {}
    /\ \A n \in Nodes, d \in Buckets :
         Covered(d) /\ Asked(n, d) => Full(n, d) \in rollups \cup run.todo

WInv == AcceptedKnown /\ RebuiltAreOver /\ RunWhole /\ WholeDays

LEMMA NumberFacts ==
  ASSUME TypeOK
  PROVE  /\ now \in Nat /\ dayStart(now) \in Int /\ dayStart(now) <= now /\ Day \in Nat /\ Day > 0
         /\ \A d \in Buckets : d \in Int
         /\ \A s \in Samples : /\ s.checked_at \in Nat /\ s.round_at \in Nat /\ s.node \in Nodes
                               /\ dayStart(s.round_at) <= s.round_at
                               /\ s.round_at < dayStart(s.round_at) + Day
<1>1. now \in Nat /\ MaxNow \in Nat /\ Day \in Nat /\ Day > 0
  BY RollupsAssumption DEF TypeOK
<1>2. \A s \in Samples : s.checked_at \in Nat /\ s.round_at \in Nat /\ s.node \in Nodes
  BY RollupsAssumption
<1>3. \A s \in Samples : dayStart(s.round_at) <= s.round_at /\ s.round_at < dayStart(s.round_at) + Day
  BY <1>2, DayStartFacts
<1> QED
  BY <1>1, <1>2, <1>3, DayStartFacts DEF Buckets

\* A day that is over gets no other report but of a round that straddles its end.
LEMMA NoLateReport ==
  ASSUME TypeOK, NEW s \in Samples, Report(s), NEW n \in Nodes, NEW d \in Buckets, Over(d), Asked(n, d)'
  PROVE  OfDay(n, d)' = OfDay(n, d) /\ Asked(n, d)
<1>1. accepted' = accepted \cup {s} /\ now <= s.round_at + Day
  BY DEF Report
<1>2. s \notin OfDay(n, d)'
  <2> SUFFICES ASSUME s \in OfDay(n, d)' PROVE FALSE
    OBVIOUS
  <2>1. dayStart(s.round_at) = d
    BY DEF Asked, Straddled
  <2> QED
    BY <1>1, <2>1, NumberFacts DEF Over
<1>3. OfDay(n, d)' = OfDay(n, d)
  BY <1>1, <1>2 DEF OfDay
<1> QED
  BY <1>3 DEF Asked, Straddled

\* A run selects whole days that are over.
LEMMA CoveredSelected ==
  ASSUME IInv, NEW n \in Nodes, NEW d \in Buckets, Covered(d), Asked(n, d)
  PROVE  Full(n, d) \in Groups(Selected)
<1>0. TypeOK /\ RawFollows /\ accepted \subseteq Samples
  BY DEF IInv, TypeOK
<1>1. PICK k \in Int, w \in Int :
        /\ dayStart(now) = k * Day /\ dayStart(now) - Window * Day = w * Day
        /\ now - RawDays * Day < w * Day
  BY <1>0, WindowFacts
<1>2. now - RawDays * Day \in Int /\ w * Day \in Int /\ k * Day \in Int
  BY <1>0, <1>1, RollupsAssumption DEF TypeOK
<1>3. ASSUME NEW s \in OfDay(n, d) PROVE s \in Selected /\ s.node = n /\ dayStart(s.checked_at) = d
  <2>1. s \in accepted /\ s \in Samples /\ s.node = n /\ dayStart(s.checked_at) = d
        /\ dayStart(s.round_at) = d
    BY <1>0, <1>3 DEF OfDay, Asked, Straddled
  <2>2. s.round_at >= w * Day /\ s.round_at < k * Day
    BY <1>0, <1>1, <1>2, <2>1, NumberFacts DEF Covered, Over
  <2>3. ~ (s.round_at < now - RawDays * Day)
    BY <1>0, <1>1, <1>2, <2>1, <2>2, NumberFacts
  <2>4. raw[s] # None
    BY <1>0, <2>1, <2>3 DEF RawFollows
  <2> QED
    BY <1>1, <2>1, <2>2, <2>4 DEF Selected, Stored
<1>4. Selected \subseteq accepted
  BY <1>0 DEF Selected, Stored, RawFollows
<1>5. OfDay(n, d) = {s \in Selected : s.node = n /\ dayStart(s.checked_at) = d}
  BY <1>3, <1>4 DEF OfDay
<1>6. PICK t \in OfDay(n, d) : TRUE
  BY DEF Asked
<1>7. n \in {s.node : s \in Selected} /\ d \in {dayStart(s.checked_at) : s \in Selected}
  BY <1>3, <1>6
<1>8. [node |-> n, bucket |-> d,
       of |-> {s \in Selected : s.node = n /\ dayStart(s.checked_at) = d}] \in Groups(Selected)
  <2> DEFINE nodes == {s.node : s \in Selected}
             days  == {dayStart(s.checked_at) : s \in Selected}
             G(m, e) == [node |-> m, bucket |-> e,
                         of |-> {s \in Selected : s.node = m /\ dayStart(s.checked_at) = e}]
  <2>1. Groups(Selected) = {G(m, e) : m \in nodes, e \in days}
    BY DEF Groups
  <2>2. n \in nodes /\ d \in days
    BY <1>7
  <2> HIDE DEF nodes, days, G
  <2>3. G(n, d) \in Groups(Selected)
    BY <2>1, <2>2
  <2> QED
    BY <2>3 DEF G
<1> QED
  BY <1>5, <1>8 DEF Full

\* A batch leaves a whole average whole, and writes one that it has.
LEMMA BatchKeepsFull ==
  ASSUME IInv, AcceptedKnown, run # None, NEW batch \in SUBSET run.todo,
         NEW n \in Nodes, NEW d \in Buckets, Asked(n, d), Full(n, d) \in rollups \cup batch
  PROVE  Full(n, d) \in Upserted(batch)
<1>0. n \in catalog /\ n \notin purged /\ Todo = run.todo /\ run.todo \subseteq Group
  BY DEF AcceptedKnown, Asked, OfDay, IInv, NodesKnown, Todo, TypeOK
<1>1. Full(n, d).node = n /\ Full(n, d).bucket = d /\ Full(n, d).of = OfDay(n, d)
  BY DEF Full
<1>2. CASE Full(n, d) \in batch
  BY <1>0, <1>1, <1>2 DEF Upserted
<1>3. CASE Full(n, d) \in rollups /\ \A g \in batch : ~ (g.node = n /\ g.bucket = d)
  BY <1>1, <1>3 DEF Upserted
<1>4. ASSUME Full(n, d) \in rollups, NEW g \in batch, g.node = n, g.bucket = d
      PROVE  Full(n, d) \in batch
  <2>1. g.of \subseteq OfDay(n, d)
    BY <1>0, <1>4 DEF IInv, OfAccepted
  <2>2. OfDay(n, d) \subseteq g.of
    BY <1>0, <1>1, <1>4 DEF IInv, TodoGains, SameDay, Asked
  <2>3. g = Full(n, d)
    BY <1>0, <1>4, <2>1, <2>2 DEF Group, Full
  <2> QED
    BY <1>4, <2>3
<1> QED
  BY <1>2, <1>3, <1>4

LEMMA WInit == Init => WInv
BY DEF Init, WInv, AcceptedKnown, RebuiltAreOver, RunWhole, WholeDays

LEMMA WReport == ASSUME IInv, WInv, NEW s \in Samples, Report(s) PROVE WInv'
<1>0. TypeOK /\ rebuilt \subseteq Buckets
  BY DEF IInv, TypeOK
<1>1. /\ UNCHANGED <<now, rollups, run, rebuilt>>
      /\ catalog' = catalog \cup {s.node} /\ accepted' = accepted \cup {s}
  BY DEF Report
<1>2. AcceptedKnown'
  BY <1>1 DEF WInv, AcceptedKnown
<1>3. RebuiltAreOver'
  BY <1>1 DEF WInv, RebuiltAreOver, Over
<1>4. ASSUME NEW n \in Nodes, NEW d \in Buckets, Over(d), Asked(n, d)'
      PROVE  Asked(n, d) /\ Full(n, d)' = Full(n, d)
  BY <1>0, <1>4, NoLateReport DEF Full
<1>5. RunWhole'
  BY <1>1, <1>4 DEF WInv, RunWhole, Covered, Over
<1>6. WholeDays'
  <2> SUFFICES ASSUME NEW n \in Nodes, NEW d \in rebuilt, Asked(n, d)', d >= now - KeptDays * Day
               PROVE  Full(n, d)' \in rollups
    BY <1>1 DEF WholeDays, Asked, Full
  <2>1. Over(d) /\ d \in Buckets
    BY <1>0 DEF WInv, RebuiltAreOver
  <2>2. Asked(n, d) /\ Full(n, d)' = Full(n, d)
    BY <1>4, <2>1
  <2> QED
    BY <2>2 DEF WInv, WholeDays, Asked, Full
<1> QED
  BY <1>2, <1>3, <1>5, <1>6 DEF WInv

LEMMA WStart == ASSUME IInv, WInv, Start PROVE WInv'
<1>1. UNCHANGED <<now, catalog, rollups, accepted, rebuilt>>
  BY DEF Start
<1>2. AcceptedKnown' /\ RebuiltAreOver' /\ WholeDays'
  BY <1>1 DEF WInv, AcceptedKnown, RebuiltAreOver, Over, WholeDays, OfDay, Straddled
<1>3. ASSUME run' = [todo |-> {g \in Groups(Selected) : g.of # {}}, stage |-> "write", whole |-> TRUE]
      PROVE  RunWhole'
  <2>1. run'.stage = "write" /\ run'.todo = {g \in Groups(Selected) : g.of # {}}
    BY <1>3
  <2>2. \A n \in Nodes, d \in Buckets :
          Covered(d) /\ Asked(n, d) => Full(n, d) \in run'.todo
    BY <2>1, CoveredSelected DEF Full, Asked
  <2> QED
    BY <1>1, <2>1, <2>2 DEF RunWhole, Covered, Over, Asked, Full, OfDay, Straddled
<1>4. ASSUME run' = [todo |-> {}, stage |-> "clean", whole |-> FALSE] PROVE RunWhole'
  BY <1>4 DEF RunWhole
<1> QED
  BY <1>2, <1>3, <1>4 DEF WInv, Start

LEMMA WWrite == ASSUME IInv, WInv, Write PROVE WInv'
<1>0. rebuilt \subseteq Buckets /\ AcceptedKnown
  BY DEF IInv, WInv, TypeOK
<1>1. /\ UNCHANGED <<now, catalog, accepted, rebuilt>> /\ run # None /\ run.stage = "write"
      /\ run \in [todo : SUBSET Group, stage : {"write", "clean"}, whole : BOOLEAN]
  BY DEF Write, IInv, TypeOK
<1>2. AcceptedKnown' /\ RebuiltAreOver'
  BY <1>1 DEF WInv, AcceptedKnown, RebuiltAreOver, Over
<1>3. ASSUME NEW n, NEW d PROVE Asked(n, d)' = Asked(n, d) /\ Full(n, d)' = Full(n, d)
                                /\ Covered(d)' = Covered(d)
  BY <1>1 DEF Asked, Full, Covered, Over, OfDay, Straddled
<1>4. ASSUME UNCHANGED rollups PROVE WholeDays'
  BY <1>1, <1>4 DEF WInv, WholeDays, OfDay, Straddled
<1>5. ASSUME NEW batch \in SUBSET run.todo, rollups' = Upserted(batch),
             run' = [run EXCEPT !.todo = run.todo \ batch]
      PROVE  WholeDays' /\ RunWhole'
  <2>1. run'.todo = run.todo \ batch /\ run'.whole = run.whole /\ run'.stage = "write"
    BY <1>1, <1>5
  <2>2. ASSUME NEW n \in Nodes, NEW d \in rebuilt, Asked(n, d), d >= now - KeptDays * Day
        PROVE  Full(n, d) \in rollups'
    <3>1. Full(n, d) \in rollups
      BY <2>2 DEF WInv, WholeDays, Asked, Full
    <3> QED
      BY <1>0, <1>1, <1>5, <2>2, <3>1, BatchKeepsFull
  <2>3. WholeDays'
    BY <1>1, <2>2 DEF WholeDays, Asked, Full, OfDay, Straddled
  <2>4. ASSUME run.whole, NEW n \in Nodes, NEW d \in Buckets, Covered(d), Asked(n, d)
        PROVE  Full(n, d) \in rollups' \cup run'.todo
    <3>1. Full(n, d) \in rollups \cup batch \/ Full(n, d) \in run.todo \ batch
      BY <1>1, <2>4 DEF WInv, RunWhole
    <3> QED
      BY <1>0, <1>1, <1>5, <2>1, <2>4, <3>1, BatchKeepsFull
  <2>5. RunWhole'
    BY <1>3, <2>1, <2>4 DEF RunWhole
  <2> QED
    BY <2>3, <2>5
<1>6. ASSUME run.todo = {}, run' = [run EXCEPT !.stage = "clean"], UNCHANGED rollups PROVE RunWhole'
  <2>1. run'.todo = {} /\ run'.whole = run.whole
    BY <1>1, <1>6
  <2> QED
    BY <1>1, <1>3, <1>6, <2>1 DEF WInv, RunWhole
<1>7. ASSUME run' = [todo |-> {}, stage |-> "clean", whole |-> FALSE] PROVE RunWhole'
  BY <1>7 DEF RunWhole
<1> QED
  BY <1>2, <1>4, <1>5, <1>6, <1>7 DEF Write, WInv

LEMMA WClean == ASSUME IInv, WInv, Clean PROVE WInv'
<1>0. /\ now \in Nat /\ KeptDays * Day \in Int /\ rebuilt \subseteq Buckets
      /\ run \in [todo : SUBSET Group, stage : {"write", "clean"}, whole : BOOLEAN]
  BY RollupsAssumption DEF IInv, TypeOK, Clean
<1>1. /\ UNCHANGED <<now, catalog, accepted>> /\ run' = None /\ run # None /\ run.stage = "clean"
      /\ \/ rollups' = {r \in rollups : r.bucket >= now - KeptDays * Day}
         \/ rollups' = rollups
      /\ \A d \in rebuilt' : d \in rebuilt \/ (run.whole /\ d \in Buckets /\ Covered(d))
  BY DEF Clean, Covered, Over
<1>2. AcceptedKnown' /\ RunWhole'
  BY <1>1 DEF WInv, AcceptedKnown, RunWhole
<1>3. RebuiltAreOver'
  BY <1>1 DEF WInv, RebuiltAreOver, Over, Covered
<1>4. ASSUME NEW n \in Nodes, NEW d \in rebuilt', Asked(n, d), d >= now - KeptDays * Day
      PROVE  Full(n, d) \in rollups'
  <2>1. Full(n, d) \in rollups
    <3>1. CASE d \in rebuilt
      BY <1>4, <3>1 DEF WInv, WholeDays, Asked, Full
    <3>2. CASE run.whole /\ d \in Buckets /\ Covered(d)
      BY <1>1, <1>4, <3>2 DEF WInv, RunWhole
    <3> QED
      BY <1>1, <1>4, <3>1, <3>2
  <2>2. Full(n, d).bucket = d
    BY DEF Full
  <2> QED
    BY <1>1, <1>4, <2>1, <2>2
<1>5. WholeDays'
  BY <1>1, <1>4 DEF WholeDays, Asked, Full, OfDay, Straddled
<1> QED
  BY <1>2, <1>3, <1>5 DEF WInv

LEMMA WPurge == ASSUME IInv, WInv, NEW p \in Nodes, Purge(p) PROVE WInv'
<1>1. /\ UNCHANGED <<now, run, rebuilt>> /\ catalog' = catalog \ {p}
      /\ rollups' = {r \in rollups : r.node # p}
      /\ accepted' = {s \in accepted : s.node # p}
  BY DEF Purge
<1>2. ASSUME NEW n, NEW d, Asked(n, d)'
      PROVE  n # p /\ Asked(n, d) /\ Full(n, d)' = Full(n, d) /\ Full(n, d).node = n
  <2>1. n # p
    BY <1>1, <1>2 DEF Asked, OfDay
  <2>2. OfDay(n, d)' = OfDay(n, d)
    BY <1>1, <2>1 DEF OfDay
  <2> QED
    BY <1>2, <2>1, <2>2 DEF Asked, Full, Straddled
<1>3. AcceptedKnown' /\ RebuiltAreOver'
  BY <1>1 DEF WInv, AcceptedKnown, RebuiltAreOver, Over
<1>4. RunWhole'
  BY <1>1, <1>2 DEF WInv, RunWhole, Covered, Over
<1>5. ASSUME NEW n \in Nodes, NEW d \in rebuilt, Asked(n, d)', d >= now - KeptDays * Day
      PROVE  Full(n, d)' \in rollups'
  <2>1. n # p /\ Asked(n, d) /\ Full(n, d)' = Full(n, d) /\ Full(n, d).node = n
    BY <1>2, <1>5
  <2>2. Full(n, d) \in rollups
    BY <1>5, <2>1 DEF WInv, WholeDays, Asked, Full
  <2> QED
    BY <1>1, <2>1, <2>2
<1>6. WholeDays'
  BY <1>1, <1>5 DEF WholeDays, Asked, Full
<1> QED
  BY <1>3, <1>4, <1>6 DEF WInv

LEMMA WTick == ASSUME IInv, WInv, Tick PROVE WInv'
<1>0. TypeOK /\ rebuilt \subseteq Buckets
  BY DEF IInv, TypeOK
<1>1. UNCHANGED <<catalog, rollups, accepted, rebuilt, run>> /\ run = None /\ now' = now + 1
  BY DEF Tick
<1>2. /\ now \in Nat /\ dayStart(now) \in Int /\ dayStart(now) <= now /\ Day \in Nat
      /\ now \div Day \in Int /\ dayStart(now) = (now \div Day) * Day /\ KeptDays * Day \in Int
      /\ \A d \in Buckets : d \in Int
  BY <1>0, NumberFacts, DayStartFacts, RollupsAssumption
<1>3. dayStart(now') >= dayStart(now) /\ dayStart(now') \in Int
  <2> DEFINE k == now \div Day
  <2>1. k \in Int /\ dayStart(now) = k * Day
    BY <1>2
  <2> HIDE DEF k
  <2>2. now + 1 \in Nat /\ now + 1 >= k * Day
    BY <1>2, <2>1
  <2>3. dayStart(now + 1) >= k * Day /\ dayStart(now + 1) \in Int
    BY <2>1, <2>2, DayOrder, DayStartFacts
  <2> QED
    BY <1>1, <2>1, <2>3
<1>4. RebuiltAreOver'
  BY <1>0, <1>1, <1>2, <1>3 DEF WInv, RebuiltAreOver, Over, dayStart
<1>5. WholeDays'
  BY <1>0, <1>1, <1>2 DEF WInv, WholeDays, OfDay, Straddled
<1> QED
  BY <1>1, <1>4, <1>5 DEF WInv, AcceptedKnown, RunWhole

LEMMA WNext == IInv /\ WInv /\ [Next]_vars => WInv'
<1> SUFFICES ASSUME IInv, WInv, [Next]_vars PROVE WInv'
  OBVIOUS
<1>1. CASE UNCHANGED vars
  BY <1>1 DEF vars, WInv, AcceptedKnown, RebuiltAreOver, RunWhole, WholeDays, Over, Covered, Asked, Full,
     OfDay, Straddled
<1> QED
  BY <1>1, WReport, WStart, WWrite, WClean, WPurge, WTick DEF Next

\* For every length of the windows: once one run has covered a day after its last report,
\* its averages are those of all its samples until they expire, whatever runs were missed
\* or failed before or after ("so a missed run heals on the next one", observability.ts).
THEOREM DaysEndWhole == Spec => []WholeDays
<1>1. WInv => WholeDays
  BY DEF WInv
<1> QED
  BY <1>1, WInit, WNext, RollupsInvariant, PTL DEF Spec
=============================================================================
