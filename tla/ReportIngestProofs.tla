------------------------- MODULE ReportIngestProofs -------------------------
(***************************************************************************)
(* Theorems of ReportIngest, for any number of nodes, invocations and      *)
(* requests and for any bounds.                                            *)
(***************************************************************************)
EXTENDS ReportIngest, TLAPS, WellFoundedInduction

-----------------------------------------------------------------------------
(***************************************************************************)
(* What the helpers return.                                                *)
(***************************************************************************)

\* A set of bounded naturals has a largest element.
LEMMA LargestExists ==
  ASSUME NEW S, S \subseteq 0..MaxSafe, S # {}
  PROVE  \E t \in S : \A u \in S : u <= t
<1> DEFINE T == {MaxSafe - s : s \in S}
<1>1. MaxSafe \in Nat
  BY BoundsAssumption
<1>2. T \subseteq Nat /\ T # {}
  <2>1. ASSUME NEW s \in S PROVE MaxSafe - s \in Nat
    BY <1>1
  <2>2. PICK s \in S : TRUE
    OBVIOUS
  <2>3. MaxSafe - s \in T
    BY <2>2
  <2> QED
    BY <2>1, <2>3
<1>3. PICK m \in T : \A y \in T : ~ (<<y, m>> \in OpToRel(<, Nat))
  BY <1>2, NatLessThanWellFounded, WFMin
<1>4. PICK t \in S : m = MaxSafe - t
  BY <1>3
<1>5. ASSUME NEW u \in S PROVE u <= t
  <2>1. MaxSafe - u \in T /\ MaxSafe - u \in Nat /\ m \in Nat
    BY <1>2, <1>3
  <2>2. ~ (MaxSafe - u < m)
    BY <2>1, <1>3 DEF OpToRel
  <2> QED
    BY <2>1, <2>2, <1>1, <1>4
<1> QED
  BY <1>5

\* The time of a round is the newest of its checks, or zero when there are none.
LEMMA RoundAtType ==
  ASSUME NEW r \in Report
  PROVE  /\ RoundAt(r) \in 0..MaxSafe
         /\ RoundAt(r) # 0 => \E p \in Reported(r) : RoundAt(r) = r.probes[p].at
         /\ \A p \in Reported(r) : r.probes[p].at <= RoundAt(r)
<1> DEFINE checks == {0} \cup {r.probes[p].at : p \in Reported(r)}
<1>1. ASSUME NEW p \in Reported(r) PROVE r.probes[p].at \in 1..MaxSafe
  BY NoneAssumption DEF Reported, Report, Probe
<1>2. checks \subseteq 0..MaxSafe /\ checks # {}
  BY <1>1, BoundsAssumption
<1>3. \E t \in checks : \A u \in checks : u <= t
  BY <1>2, LargestExists
<1>4. RoundAt(r) \in checks /\ \A t \in checks : t <= RoundAt(r)
  BY <1>3 DEF RoundAt
<1> QED
  BY <1>2, <1>4

\* Dropping probes leaves a report, of the same node and time.
LEMMA VisibleType ==
  ASSUME NEW r \in Report, NEW keys
  PROVE  /\ Visible(r, keys) \in Report
         /\ Visible(r, keys).node = r.node
         /\ Visible(r, keys).gen = r.gen
<1>1. [p \in Probes |->
         IF r.probes[p] = None THEN None
         ELSE IF r.probes[p].target = None THEN r.probes[p]
         ELSE IF keys[r.probes[p].target] = None THEN None
         ELSE r.probes[p]] \in [Probes -> Probe \cup {None}]
  BY DEF Report
<1> QED
  BY <1>1 DEF Visible, Report

\* What is stored of a report is the report, but for its probes.
LEMMA VisibleKeeps ==
  ASSUME NEW r \in Report, NEW keys
  PROVE  /\ Visible(r, keys).node = r.node /\ Visible(r, keys).gen = r.gen
         /\ Visible(r, keys).marks = r.marks /\ Visible(r, keys).services = r.services
BY DEF Visible, Report

\* A rate is taken over a positive time and never negative, and starts at the
\* time of the report it was computed from.
LEMMA NetworkRateType ==
  ASSUME NEW r \in Report, NEW row \in Row \cup {None}
  PROVE  /\ NetworkRate(r, row) \in Rate \cup {None}
         /\ NetworkRate(r, row) # None =>
              /\ row # None
              /\ row.report.gen < r.gen
              /\ row.report.gen = r.gen - NetworkRate(r, row).seconds
<1>1. CASE row = None \/ ~ Comparable(r, row.report)
  BY <1>1 DEF NetworkRate
<1>2. CASE row # None /\ Comparable(r, row.report)
  <2>1. row.report \in Report
    BY <1>2 DEF Row
  <2>2. r.net \in Net /\ row.report.net \in Net
    BY <1>2, <2>1 DEF Comparable, Report
  <2>3. r.net.bytes \in Nat /\ row.report.net.bytes \in Nat /\ r.gen \in Nat /\ row.report.gen \in Nat
    BY <2>1, <2>2, BoundsAssumption DEF Net, Report
  <2>4. r.net.bytes - row.report.net.bytes \in Nat /\ r.gen - row.report.gen \in 1..RateWindow
    BY <1>2, <2>3, BoundsAssumption DEF Comparable
  <2>5. NetworkRate(r, row) =
          [bytes |-> r.net.bytes - row.report.net.bytes, seconds |-> r.gen - row.report.gen]
    BY <1>2 DEF NetworkRate
  <2> QED
    BY <1>2, <2>3, <2>4, <2>5 DEF Rate, Comparable
<1> QED
  BY <1>1, <1>2

LEMMA CataloguedType ==
  ASSUME NEW entry \in CatalogEntry, NEW r \in Report
  PROVE  Catalogued(entry, r) \in CatalogEntry
<1>1. [s \in Services |->
         IF r.services[s] # None THEN "on"
         ELSE IF entry.services[s] = "on" THEN "off" ELSE entry.services[s]]
         \in [Services -> {"absent", "off", "on"}]
  BY DEF CatalogEntry
<1> DEFINE Entries == [target : Nodes \cup {None}, enabled : BOOLEAN]
<1>2. ASSUME NEW p \in Probes
      PROVE  (IF r.probes[p] # None THEN [target |-> r.probes[p].target, enabled |-> TRUE]
              ELSE IF entry.probes[p] = None THEN None
              ELSE [entry.probes[p] EXCEPT !.enabled = FALSE]) \in Entries \cup {None}
  <2>1. r.probes[p] \in Probe \cup {None} /\ entry.probes[p] \in Entries \cup {None}
    BY DEF Report, CatalogEntry
  <2> QED
    BY <2>1 DEF Probe
<1> QED
  BY <1>1, <1>2 DEF Catalogued, CatalogEntry

-----------------------------------------------------------------------------
(***************************************************************************)
(* What the helpers on nonce lists return.  A list is looked at from its   *)
(* end: what matters of an entry is how many came after it.                *)
(***************************************************************************)

\* Induction up to a bound, by the least number for which the claim fails.
LEMMA UpTo ==
  ASSUME NEW L \in Nat, NEW S, 0 \in S,
         \A i \in 0..L : i # L /\ i \in S => i + 1 \in S
  PROVE  0..L \subseteq S
<1> DEFINE T == (0..L) \ S
<1>1. T \subseteq Nat
  OBVIOUS
<1> SUFFICES ASSUME T # {} PROVE FALSE
  OBVIOUS
<1>2. PICK m \in T : \A y \in T : ~ (<<y, m>> \in OpToRel(<, Nat))
  BY <1>1, NatLessThanWellFounded, WFMin
<1>3. m \in T /\ \A y \in T : ~ (y < m)
  BY <1>1, <1>2 DEF OpToRel
<1>4. m \in 0..L /\ m - 1 \in 0..L /\ m - 1 # L /\ m - 1 \in S
  BY <1>3
<1>5. (m - 1) + 1 \in S
  BY <1>4
<1> QED
  BY <1>3, <1>4, <1>5

\* kept[i] of Fresh
FreshStep(kept, list, at, i) ==
  IF i = 0 THEN <<>>
  ELSE IF at - list[i].at <= MaxAge THEN Append(kept[i - 1], list[i])
  ELSE kept[i - 1]

KeptBy(kept, list, at) == kept = [i \in 0..Len(list) |-> FreshStep(kept, list, at, i)]

LEMMA KeptExists ==
  ASSUME NEW list, Len(list) \in Nat, NEW at
  PROVE  \E kept : KeptBy(kept, list, at)
<1> DEFINE L == Len(list)
           S == {m \in 0..L : \E f : f = [i \in 0..m |-> FreshStep(f, list, at, i)]}
<1>1. 0 \in S
  <2> DEFINE f == [i \in 0..0 |-> <<>>]
  <2>1. f = [i \in 0..0 |-> FreshStep(f, list, at, i)]
    BY DEF FreshStep
  <2> QED
    BY <2>1
<1>2. ASSUME NEW m \in 0..L, m # L, m \in S PROVE m + 1 \in S
  <2>1. PICK f : f = [i \in 0..m |-> FreshStep(f, list, at, i)]
    BY <1>2
  <2> DEFINE g == [i \in 0..(m + 1) |-> IF i = m + 1 THEN FreshStep(f, list, at, m + 1) ELSE f[i]]
  <2>2. \A i \in 0..m : g[i] = f[i]
    BY <1>2
  <2>3. \A i \in 0..(m + 1) : i # 0 => i - 1 \in 0..m
    BY <1>2
  <2>4. ASSUME NEW i \in 0..(m + 1) PROVE FreshStep(g, list, at, i) = FreshStep(f, list, at, i)
    BY <2>2, <2>3 DEF FreshStep
  <2>5. ASSUME NEW i \in 0..(m + 1) PROVE g[i] = FreshStep(f, list, at, i)
    <3>1. CASE i = m + 1
      BY <3>1
    <3>2. CASE i # m + 1
      <4>1. i \in 0..m
        BY <1>2, <3>2
      <4>2. f[i] = FreshStep(f, list, at, i)
        BY <2>1, <4>1
      <4> QED
        BY <2>2, <4>1, <4>2
    <3> QED
      BY <3>1, <3>2
  <2>6. g = [i \in 0..(m + 1) |-> FreshStep(g, list, at, i)]
    BY <2>4, <2>5
  <2>7. m + 1 \in 0..L
    BY <1>2
  <2> HIDE DEF g
  <2> QED
    BY <2>6, <2>7
<1> HIDE DEF S
<1>3. 0..L \subseteq S
  BY <1>1, <1>2, UpTo
<1>4. L \in S
  BY <1>3
<1> QED
  BY <1>4 DEF S, KeptBy

LEMMA FreshIs ==
  ASSUME NEW list, Len(list) \in Nat, NEW at
  PROVE  \E kept : KeptBy(kept, list, at) /\ Fresh(list, at) = kept[Len(list)]
<1> DEFINE kept == CHOOSE f : KeptBy(f, list, at)
<1>1. KeptBy(kept, list, at)
  BY KeptExists
<1>2. Fresh(list, at) = kept[Len(list)]
  BY DEF Fresh, KeptBy, FreshStep
<1> QED
  BY <1>1, <1>2

\* Element e is on the list, with at most d elements after it.
Within(list, e, d) == \E j \in 1..Len(list) : list[j] = e /\ Len(list) - j <= d

\* Filtering gives elements of the list, keeps every fresh one, and puts no more
\* elements behind it than there were.
LEMMA FreshKeeps ==
  ASSUME NEW E, NEW list \in Seq(E), NEW at
  PROVE  /\ Fresh(list, at) \in Seq(E)
         /\ \A j \in 1..Len(Fresh(list, at)) : \E i \in 1..Len(list) : Fresh(list, at)[j] = list[i]
         /\ \A i \in 1..Len(list) : at - list[i].at <= MaxAge =>
              Within(Fresh(list, at), list[i], Len(list) - i)
<1> DEFINE L == Len(list)
           Good(s, m) ==
             /\ s \in Seq(E)
             /\ \A j \in 1..Len(s) : \E i \in 1..m : s[j] = list[i]
             /\ \A i \in 1..m : at - list[i].at <= MaxAge => Within(s, list[i], m - i)
<1>0. L \in Nat /\ \A i \in 1..L : list[i] \in E
  OBVIOUS
<1>1. PICK kept : KeptBy(kept, list, at) /\ Fresh(list, at) = kept[L]
  BY <1>0, FreshIs
<1>2. \A i \in 0..L : kept[i] = FreshStep(kept, list, at, i)
  BY <1>1 DEF KeptBy
<1> DEFINE S == {m \in 0..L : Good(kept[m], m)}
<1>3. 0 \in S
  <2>1. kept[0] = <<>>
    BY <1>0, <1>2 DEF FreshStep
  <2>2. <<>> \in Seq(E) /\ 1..0 = {} /\ Len(<<>>) = 0
    OBVIOUS
  <2>5. ASSUME NEW s, s = <<>> PROVE Good(s, 0)
    <3>1. s \in Seq(E) /\ 1..Len(s) = {}
      BY <2>2, <2>5
    <3> QED
      BY <2>2, <3>1
  <2> QED
    BY <1>0, <2>1, <2>5, 0 \in 0..L
<1>4. ASSUME NEW m \in 0..L, m # L, m \in S PROVE m + 1 \in S
  <2> DEFINE old == kept[m]
             new == kept[m + 1]
             e == list[m + 1]
  <2>1. m + 1 \in 1..L /\ m + 1 \in 0..L /\ e \in E /\ Good(old, m) /\ m \in Nat
    BY <1>0, <1>4
  <2>2. new = IF at - e.at <= MaxAge THEN Append(old, e) ELSE old
    BY <1>0, <1>2, <2>1 DEF FreshStep
  <2> HIDE DEF new, old, e
  <2>3. CASE at - e.at <= MaxAge
    <3>1. new = Append(old, e) /\ Len(new) = Len(old) + 1 /\ new[Len(new)] = e
          /\ \A j \in 1..Len(old) : new[j] = old[j]
      BY <2>1, <2>2, <2>3
    <3>2. new \in Seq(E)
      BY <2>1, <3>1
    <3>3. ASSUME NEW j \in 1..Len(new) PROVE \E i \in 1..(m + 1) : new[j] = list[i]
      <4>1. CASE j = Len(new)
        BY <2>1, <3>1, <4>1 DEF e
      <4>2. CASE j # Len(new)
        <5>1. j \in 1..Len(old) /\ new[j] = old[j]
          BY <2>1, <3>1, <4>2
        <5>2. PICK i \in 1..m : old[j] = list[i]
          BY <2>1, <5>1
        <5> QED
          BY <2>1, <5>1, <5>2
      <4> QED
        BY <4>1, <4>2
    <3>4. ASSUME NEW i \in 1..(m + 1), at - list[i].at <= MaxAge
          PROVE  Within(new, list[i], m + 1 - i)
      <4>1. CASE i = m + 1
        <5>1. Len(new) \in 1..Len(new) /\ Len(new) - Len(new) <= m + 1 - i
          BY <2>1, <3>1, <4>1
        <5> QED
          BY <3>1, <4>1, <5>1 DEF Within, e
      <4>2. CASE i # m + 1
        <5>1. i \in 1..m
          BY <2>1, <4>2
        <5>2. PICK j \in 1..Len(old) : old[j] = list[i] /\ Len(old) - j <= m - i
          BY <2>1, <3>4, <5>1 DEF Within
        <5>3. j \in 1..Len(new) /\ new[j] = list[i] /\ Len(new) - j <= m + 1 - i
          BY <2>1, <3>1, <5>1, <5>2
        <5> QED
          BY <5>3 DEF Within
      <4> QED
        BY <4>1, <4>2
    <3>5. Good(new, m + 1)
      BY <3>2, <3>3, <3>4
    <3> QED
      BY <2>1, <3>5 DEF new
  <2>4. CASE ~ (at - e.at <= MaxAge)
    <3>1. new = old
      BY <2>2, <2>4
    <3>2. ASSUME NEW j \in 1..Len(new) PROVE \E i \in 1..(m + 1) : new[j] = list[i]
      <4>1. PICK i \in 1..m : old[j] = list[i]
        BY <2>1, <3>1
      <4> QED
        BY <2>1, <3>1, <4>1
    <3>3. ASSUME NEW i \in 1..(m + 1), at - list[i].at <= MaxAge
          PROVE  Within(new, list[i], m + 1 - i)
      <4>1. i \in 1..m
        BY <2>1, <2>4, <3>3 DEF e
      <4>2. PICK j \in 1..Len(old) : old[j] = list[i] /\ Len(old) - j <= m - i
        BY <2>1, <3>3, <4>1 DEF Within
      <4>3. Len(old) - j <= m + 1 - i
        BY <2>1, <4>1, <4>2
      <4> QED
        BY <3>1, <4>2, <4>3 DEF Within
    <3>4. Good(new, m + 1)
      BY <2>1, <3>1, <3>2, <3>3
    <3> QED
      BY <2>1, <3>4 DEF new
  <2> QED
    BY <2>3, <2>4
<1> HIDE DEF S
<1>5. 0..L \subseteq S
  BY <1>0, <1>3, <1>4, UpTo
<1>6. Good(kept[L], L)
  BY <1>0, <1>5 DEF S
<1> QED
  BY <1>1, <1>6

LEMMA FreshWithin ==
  ASSUME NEW E, NEW list \in Seq(E), NEW at, NEW e, NEW d \in Nat,
         Within(list, e, d), at - e.at <= MaxAge
  PROVE  Within(Fresh(list, at), e, d)
<1>1. PICK i \in 1..Len(list) : list[i] = e /\ Len(list) - i <= d
  BY DEF Within
<1>2. Within(Fresh(list, at), list[i], Len(list) - i)
  BY <1>1, FreshKeeps
<1>3. PICK j \in 1..Len(Fresh(list, at)) :
        Fresh(list, at)[j] = e /\ Len(Fresh(list, at)) - j <= Len(list) - i
  BY <1>1, <1>2 DEF Within
<1>4. Len(Fresh(list, at)) \in Nat /\ Len(list) \in Nat
  BY FreshKeeps
<1>5. Len(Fresh(list, at)) - j <= d
  BY <1>1, <1>3, <1>4
<1> QED
  BY <1>3, <1>5 DEF Within

\* The last k elements, in place.
LEMMA LastOfIs ==
  ASSUME NEW E, NEW list \in Seq(E), NEW k \in Nat
  PROVE  /\ LastOf(list, k) \in Seq(E)
         /\ Len(LastOf(list, k)) = IF Len(list) > k THEN k ELSE Len(list)
         /\ \A i \in 1..Len(LastOf(list, k)) :
              /\ i + (Len(list) - Len(LastOf(list, k))) \in 1..Len(list)
              /\ LastOf(list, k)[i] = list[i + (Len(list) - Len(LastOf(list, k)))]
<1> DEFINE L == Len(list)
           from == IF L > k THEN L - k + 1 ELSE 1
           last == SubSeq(list, from, L)
<1>1. L \in Nat /\ from \in 1..(L + 1) /\ LastOf(list, k) = last
  BY DEF LastOf
<1>2. Len(last) = IF from <= L THEN L - from + 1 ELSE 0
  BY <1>1
<1>3. \A i \in 1..Len(last) : last[i] = list[from + i - 1] /\ from + i - 1 \in 1..L
  BY <1>1, <1>2
<1>4. last \in Seq(E)
  BY <1>1
<1> HIDE DEF last, L
<1>5. Len(last) = IF L > k THEN k ELSE L
  BY <1>1, <1>2
<1>6. Len(last) \in Nat /\ from - 1 = L - Len(last)
  BY <1>1, <1>5
<1> HIDE DEF from
<1>7. \A i \in 1..Len(last) : from + i - 1 = i + (L - Len(last))
  BY <1>1, <1>6
<1> QED
  BY <1>1, <1>3, <1>4, <1>5, <1>7 DEF L

LEMMA LastOfWithin ==
  ASSUME NEW E, NEW list \in Seq(E), NEW k \in Nat, NEW e, NEW d \in Nat, d < k,
         Within(list, e, d)
  PROVE  Within(LastOf(list, k), e, d)
<1> DEFINE last == LastOf(list, k)
           gap == Len(list) - Len(last)
<1>1. PICK j \in 1..Len(list) : list[j] = e /\ Len(list) - j <= d
  BY DEF Within
<1>2. /\ Len(last) = IF Len(list) > k THEN k ELSE Len(list)
      /\ \A i \in 1..Len(last) : last[i] = list[i + gap]
      /\ Len(list) \in Nat
  BY LastOfIs
<1> HIDE DEF last
<1>3. j - gap \in 1..Len(last) /\ (j - gap) + gap = j /\ Len(last) - (j - gap) <= d
  BY <1>1, <1>2
<1>4. last[j - gap] = e
  BY <1>1, <1>2, <1>3
<1> QED
  BY <1>3, <1>4 DEF Within, last

LEMMA AppendWithin ==
  ASSUME NEW E, NEW list \in Seq(E), NEW x \in E
  PROVE  /\ Within(Append(list, x), x, 0)
         /\ \A e, d : d \in Nat /\ Within(list, e, d) => Within(Append(list, x), e, d + 1)
<1> DEFINE longer == Append(list, x)
<1>1. /\ Len(longer) = Len(list) + 1 /\ longer[Len(longer)] = x /\ Len(list) \in Nat
      /\ \A j \in 1..Len(list) : longer[j] = list[j]
  OBVIOUS
<1> HIDE DEF longer
<1>2. Within(longer, x, 0)
  <2>1. Len(longer) \in 1..Len(longer) /\ Len(longer) - Len(longer) <= 0
    BY <1>1
  <2> QED
    BY <1>1, <2>1 DEF Within
<1>3. ASSUME NEW e, NEW d \in Nat, Within(list, e, d) PROVE Within(longer, e, d + 1)
  <2>1. PICK j \in 1..Len(list) : list[j] = e /\ Len(list) - j <= d
    BY <1>3 DEF Within
  <2>2. j \in 1..Len(longer) /\ longer[j] = e /\ Len(longer) - j <= d + 1
    BY <1>1, <2>1
  <2> QED
    BY <2>2 DEF Within
<1> QED
  BY <1>2, <1>3 DEF longer

NonceEntry == [nonce : Nonces, at : Nat]

\* The list to write: it holds the new nonce, every fresh one that NonceLimit has room
\* for, and nothing that was not on the list.
LEMMA NextNoncesIs ==
  ASSUME NEW list \in Seq(NonceEntry), NEW c \in Nonces, NEW at \in Nat
  PROVE  /\ NextNonces(list, c, at) \in Seq(NonceEntry)
         /\ Within(NextNonces(list, c, at), [nonce |-> c, at |-> at], 0)
         /\ \A e, d : d \in Nat /\ Within(list, e, d) /\ at - e.at <= MaxAge /\ d + 1 < NonceLimit
              => Within(NextNonces(list, c, at), e, d + 1)
         /\ \A j \in 1..Len(NextNonces(list, c, at)) :
              \/ NextNonces(list, c, at)[j].nonce = c
              \/ \E i \in 1..Len(list) : NextNonces(list, c, at)[j] = list[i]
<1> DEFINE new == [nonce |-> c, at |-> at]
           fresh == Fresh(list, at)
           kept == LastOf(fresh, NonceLimit)
           longer == Append(kept, new)
           next == LastOf(longer, NonceLimit)
<1>0. NonceLimit \in Nat /\ NonceLimit > 0 /\ new \in NonceEntry /\ NextNonces(list, c, at) = next
      /\ new.nonce = c
  BY BoundsAssumption DEF NonceEntry, NextNonces
<1>1. fresh \in Seq(NonceEntry) /\ \A j \in 1..Len(fresh) : \E i \in 1..Len(list) : fresh[j] = list[i]
  BY FreshKeeps
<1>2. kept \in Seq(NonceEntry) /\ \A j \in 1..Len(kept) : \E i \in 1..Len(fresh) : kept[j] = fresh[i]
  BY <1>0, <1>1, LastOfIs
<1>3. longer \in Seq(NonceEntry) /\ \A j \in 1..Len(longer) : longer[j] = new \/ \E i \in 1..Len(kept) : longer[j] = kept[i]
  BY <1>0, <1>2
<1>4. next \in Seq(NonceEntry) /\ \A j \in 1..Len(next) : \E i \in 1..Len(longer) : next[j] = longer[i]
  BY <1>0, <1>3, LastOfIs
<1>5. Within(next, new, 0)
  <2>1. Within(longer, new, 0)
    BY <1>0, <1>2, AppendWithin
  <2> QED
    BY <1>0, <1>3, <2>1, LastOfWithin
<1>6. ASSUME NEW e, NEW d \in Nat, Within(list, e, d), at - e.at <= MaxAge, d + 1 < NonceLimit
      PROVE  Within(next, e, d + 1)
  <2>1. Within(fresh, e, d)
    BY <1>6, FreshWithin
  <2>2. Within(kept, e, d)
    BY <1>0, <1>1, <1>6, <2>1, LastOfWithin
  <2>3. Within(longer, e, d + 1)
    BY <1>0, <1>2, <2>2, AppendWithin
  <2>4. d + 1 \in Nat
    OBVIOUS
  <2> HIDE DEF longer
  <2> QED
    BY <1>0, <1>3, <1>6, <2>3, <2>4, LastOfWithin
<1> HIDE DEF fresh, kept, longer, next, new
<1>7. ASSUME NEW j \in 1..Len(next)
      PROVE  next[j].nonce = c \/ \E i \in 1..Len(list) : next[j] = list[i]
  <2>1. PICK i \in 1..Len(longer) : next[j] = longer[i]
    BY <1>4
  <2>2. CASE longer[i] = new
    BY <1>0, <2>1, <2>2
  <2>3. CASE \E k \in 1..Len(kept) : longer[i] = kept[k]
    BY <1>1, <1>2, <2>1, <2>3
  <2> QED
    BY <1>3, <2>2, <2>3
<1> QED
  BY <1>0, <1>4, <1>5, <1>6, <1>7 DEF new

\* What is fresh and near the end of the list is refused.
LEMMA RememberedIsReplayed ==
  ASSUME NEW list \in Seq(NonceEntry), NEW at, NEW e, NEW d \in Nat,
         Within(list, e, d), at - e.at <= MaxAge, d < NonceLimit
  PROVE  Replayed(list, e.nonce, at)
<1> DEFINE last == LastOf(Fresh(list, at), NonceLimit)
<1>1. Fresh(list, at) \in Seq(NonceEntry) /\ Within(Fresh(list, at), e, d)
  BY FreshKeeps, FreshWithin
<1>2. last \in Seq(NonceEntry) /\ Within(last, e, d)
  BY <1>1, BoundsAssumption, LastOfIs, LastOfWithin
<1>3. PICK j \in 1..Len(last) : last[j] = e
  BY <1>2 DEF Within
<1>4. DOMAIN last = 1..Len(last)
  BY <1>2
<1> QED
  BY <1>3, <1>4 DEF Replayed

\* What is not on the list is not refused.
LEMMA UnknownIsAccepted ==
  ASSUME NEW list \in Seq(NonceEntry), NEW at, NEW c,
         \A i \in 1..Len(list) : list[i].nonce # c
  PROVE  ~ Replayed(list, c, at)
<1> DEFINE last == LastOf(Fresh(list, at), NonceLimit)
<1>1. Fresh(list, at) \in Seq(NonceEntry)
      /\ \A j \in 1..Len(Fresh(list, at)) : \E i \in 1..Len(list) : Fresh(list, at)[j] = list[i]
  BY FreshKeeps
<1>2. last \in Seq(NonceEntry)
      /\ \A j \in 1..Len(last) : \E i \in 1..Len(Fresh(list, at)) : last[j] = Fresh(list, at)[i]
  BY <1>1, BoundsAssumption, LastOfIs
<1>3. DOMAIN last = 1..Len(last)
  BY <1>2
<1>4. \A j \in 1..Len(last) : last[j].nonce # c
  BY <1>1, <1>2
<1> QED
  BY <1>3, <1>4 DEF Replayed

-----------------------------------------------------------------------------
(***************************************************************************)
(* Type correctness.                                                       *)
(***************************************************************************)

\* What the batch of invocation h writes has the types of the tables.
LEMMA CommitTypes ==
  ASSUME TypeOK, NEW h \in Handlers, phase[h] # "idle"
  PROVE  LET q == job[h].request
             r == Visible(q.report, job[h].keys)
         IN  /\ q \in Request
             /\ r \in Report
             /\ r.node \in Nodes
             /\ r.node = q.report.node /\ r.gen = q.report.gen
             /\ r.gen \in 1..MaxSafe
             /\ NetworkRate(r, prior[h]) \in Rate \cup {None}
             /\ [received |-> job[h].at, source |-> q.source, report |-> r,
                 rate |-> NetworkRate(r, prior[h])] \in Row
<1>1. job[h] \in Job
  BY DEF TypeOK
<1>2. job[h].request \in Request
  BY <1>1, RequestsAssumption DEF Job
<1>3. job[h].request.report \in Report
  BY <1>2 DEF Request
<1>4. prior[h] \in Row \cup {None}
  BY DEF TypeOK
<1> DEFINE r == Visible(job[h].request.report, job[h].keys)
<1>5. r \in Report /\ r.node = job[h].request.report.node /\ r.gen = job[h].request.report.gen
  BY <1>3, VisibleType
<1>6. r.node \in Nodes /\ r.gen \in 1..MaxSafe
  BY <1>5 DEF Report
<1>7. NetworkRate(r, prior[h]) \in Rate \cup {None}
  BY <1>4, <1>5, NetworkRateType
<1>8. job[h].at \in Nat /\ job[h].request.source \in Sources \cup {None}
  BY <1>1, <1>2 DEF Job, Request
<1>9. [received |-> job[h].at, source |-> job[h].request.source, report |-> r,
       rate |-> NetworkRate(r, prior[h])] \in Row
  BY <1>5, <1>7, <1>8 DEF Row
<1> QED
  BY <1>2, <1>5, <1>6, <1>7, <1>9

\* The handler variables keep their types when invocation h ends.
LEMMA FinishTypes ==
  ASSUME TypeOK, NEW h \in Handlers, Finish(h)
  PROVE  /\ phase' \in [Handlers -> {"idle", "authenticated", "decided"}]
         /\ job' \in [Handlers -> Job \cup {None}]
         /\ \A k \in Handlers : phase'[k] # "idle" => job'[k] \in Job
         /\ prior' \in [Handlers -> Row \cup {None}]
         /\ DOMAIN remembered' = Handlers
BY DEF TypeOK, Finish

\* The rounds stay rounds: one is added only with a positive time.
LEMMA AddRoundType ==
  ASSUME TypeOK, NEW r \in Report, NEW row \in Row \cup {None}
  PROVE  AddRound(r, row) \subseteq Round
<1> DEFINE seen == IF row = None THEN 0 ELSE RoundAt(row.report)
<1>1. RoundAt(r) \in 0..MaxSafe
  BY RoundAtType
<1>2. seen \in 0..MaxSafe
  BY RoundAtType, BoundsAssumption DEF Row
<1>3. r.node \in Nodes /\ Reported(r) \subseteq Probes
  BY DEF Report, Reported
<1>4. CASE RoundAt(r) <= seen \/ \E x \in rounds : x.node = r.node /\ x.at = RoundAt(r)
  BY <1>4 DEF AddRound, TypeOK
<1>5. CASE ~ (RoundAt(r) <= seen) /\ ~ \E x \in rounds : x.node = r.node /\ x.at = RoundAt(r)
  <2>1. RoundAt(r) \in 1..MaxSafe
    BY <1>1, <1>2, <1>5
  <2>2. [node |-> r.node, at |-> RoundAt(r), probes |-> Reported(r)] \in Round
    BY <2>1, <1>3 DEF Round
  <2>3. AddRound(r, row) = rounds \cup {[node |-> r.node, at |-> RoundAt(r), probes |-> Reported(r)]}
    BY <1>5 DEF AddRound
  <2> QED
    BY <2>2, <2>3 DEF TypeOK
<1> QED
  BY <1>4, <1>5

LEMMA TypeInit == Init => TypeOK
<1> SUFFICES ASSUME Init PROVE TypeOK
  OBVIOUS
<1>1. env \in Inventory
  BY InventoriesAssumption DEF Init
<1>2. [node |-> "absent", retired |-> FALSE,
        services |-> [s \in Services |-> "absent"], probes |-> [p \in Probes |-> None]]
        \in CatalogEntry
  BY DEF CatalogEntry
<1>3. catalog \in [Nodes -> CatalogEntry]
  BY <1>2 DEF Init
<1> QED
  BY <1>1, <1>3 DEF Init, TypeOK

LEMMA TypeStep == TypeOK /\ [Next]_vars => TypeOK'
<1> SUFFICES ASSUME TypeOK, [Next]_vars PROVE TypeOK'
  OBVIOUS
<1> USE DEF tableVars, handlerVars
<1>1. ASSUME NEW h \in Handlers, NEW q \in Requests, Authenticate(h, q) PROVE TypeOK'
  <2>1. [request |-> q, at |-> now, keys |-> env.keys] \in Job
    BY DEF Job, TypeOK, Inventory
  <2> QED
    BY <1>1, <2>1 DEF Authenticate, TypeOK
<1>2. ASSUME NEW h \in Handlers, ReadPrior(h) PROVE TypeOK'
  <2>1. job[h] \in Job
    BY <1>2 DEF ReadPrior, TypeOK
  <2>2. job[h].request.report.node \in Nodes
    BY <2>1, RequestsAssumption DEF Job, Request, Report
  <2>3. latest[job[h].request.report.node] \in Row \cup {None}
    BY <2>2 DEF TypeOK
  <2> QED
    BY <1>2, <2>1, <2>3 DEF ReadPrior, TypeOK
<1>3. ASSUME NEW h \in Handlers, RefuseReplay(h) PROVE TypeOK'
  <2>1. Finish(h)
    BY <1>3 DEF RefuseReplay
  <2> QED
    BY <1>3, <2>1, FinishTypes DEF RefuseReplay, TypeOK
<1>4. ASSUME NEW h \in Handlers, Commit(h) PROVE TypeOK'
  <2> DEFINE r == Visible(job[h].request.report, job[h].keys)
             rate == NetworkRate(r, prior[h])
             row == [received |-> job[h].at, source |-> job[h].request.source,
                     report |-> r, rate |-> rate]
  <2>1. phase[h] # "idle" /\ Finish(h)
    BY <1>4 DEF Commit
  <2>2. r \in Report /\ r.node \in Nodes /\ r.gen \in 1..MaxSafe /\ rate \in Rate \cup {None}
        /\ row \in Row
    BY <2>1, CommitTypes
  <2>3. latest' \in [Nodes -> Row \cup {None}]
        /\ \A n \in Nodes : latest'[n] # None => latest'[n].report.node = n
    <3>1. CASE Supersedes(r, latest[r.node])
      <4>1. latest' = [latest EXCEPT ![r.node] = row]
        BY <1>4, <3>1 DEF Commit
      <4>2. row.report.node = r.node
        OBVIOUS
      <4> HIDE DEF r, row
      <4> QED
        BY <2>2, <4>1, <4>2 DEF TypeOK
    <3>2. CASE ~ Supersedes(r, latest[r.node])
      <4>1. latest' = latest
        BY <1>4, <3>2 DEF Commit
      <4> QED
        BY <4>1 DEF TypeOK
    <3> QED
      BY <3>1, <3>2
  <2>4. DOMAIN recentNonces' = Nodes
    <3>1. recentNonces' = recentNonces \/ recentNonces' = [recentNonces EXCEPT ![r.node] = remembered[h]]
      BY <1>4 DEF Commit
    <3> QED
      BY <3>1 DEF TypeOK
  <2>5. samples' \subseteq Sample
    <3>1. samples' = AddSample(r, rate)
      BY <1>4 DEF Commit
    <3>2. [node |-> r.node, gen |-> r.gen, rate |-> rate] \in Sample
      BY <2>2 DEF Sample
    <3> HIDE DEF r, rate
    <3> QED
      BY <3>1, <3>2 DEF AddSample, TypeOK
  <2>6. rounds' \subseteq Round
    <3>1. rounds' = AddRound(r, prior[h])
      BY <1>4 DEF Commit
    <3>2. prior[h] \in Row \cup {None}
      BY DEF TypeOK
    <3> HIDE DEF r
    <3> QED
      BY <2>2, <3>1, <3>2, AddRoundType
  <2>7. catalog' \in [Nodes -> CatalogEntry]
    <3>1. catalog' = [catalog EXCEPT ![r.node] = Catalogued(catalog[r.node], r)]
      BY <1>4 DEF Commit
    <3>2. Catalogued(catalog[r.node], r) \in CatalogEntry
      BY <2>2, CataloguedType DEF TypeOK
    <3> HIDE DEF r
    <3> QED
      BY <3>1, <3>2, <2>2 DEF TypeOK
  <2>8. now' = now /\ env' = env
    BY <1>4 DEF Commit
  <2> HIDE DEF r, rate, row
  <2>9. now \in Nat /\ env \in Inventory
    BY DEF TypeOK
  <2> QED
    BY <2>1, <2>3, <2>4, <2>5, <2>6, <2>7, <2>8, <2>9, FinishTypes DEF TypeOK
<1>5. ASSUME NEW h \in Handlers, Fail(h) PROVE TypeOK'
  <2>1. Finish(h)
    BY <1>5 DEF Fail
  <2> QED
    BY <1>5, <2>1, FinishTypes DEF Fail, TypeOK
<1>6. ASSUME NEW inventory \in Inventories, Publish(inventory) PROVE TypeOK'
  <2>1. inventory \in Inventory
    BY InventoriesAssumption
  <2> QED
    BY <1>6, <2>1 DEF Publish, TypeOK
<1>7. CASE Tick
  BY <1>7 DEF Tick, TypeOK
<1>8. CASE UNCHANGED vars
  BY <1>8 DEF vars, TypeOK
<1> QED
  BY <1>1, <1>2, <1>3, <1>4, <1>5, <1>6, <1>7, <1>8 DEF Next, Handle

\* Whatever requests arrive and however invocations overlap, the tables hold
\* only values of their types: in particular no stored rate is negative or
\* taken over no time.
THEOREM TypeCorrect == Spec => []TypeOK
<1> QED
  BY TypeInit, TypeStep, PTL DEF Spec

\* The lists hold nonces with the times they were accepted at.
NonceLists ==
  /\ recentNonces \in [Nodes -> Seq(NonceEntry)]
  /\ remembered \in [Handlers -> Seq(NonceEntry)]

LEMMA NonceListsInit == Init => NonceLists
BY DEF Init, NonceLists

LEMMA NonceListsStep == TypeOK /\ NonceLists /\ [Next]_vars => NonceLists'
<1> SUFFICES ASSUME TypeOK, NonceLists, [Next]_vars PROVE NonceLists'
  OBVIOUS
<1> USE DEF tableVars, handlerVars
<1>1. <<>> \in Seq(NonceEntry)
  OBVIOUS
<1>2. ASSUME NEW h \in Handlers, ReadPrior(h) PROVE NonceLists'
  <2> DEFINE n == job[h].request.report.node
             next == NextNonces(recentNonces[n], job[h].request.nonce, job[h].at)
  <2>1. job[h] \in Job
    BY <1>2 DEF ReadPrior, TypeOK
  <2>2. n \in Nodes /\ job[h].request.nonce \in Nonces /\ job[h].at \in Nat
    BY <2>1, RequestsAssumption DEF Job, Request, Report
  <2>3. next \in Seq(NonceEntry)
    BY <2>2, NextNoncesIs DEF NonceLists
  <2>4. remembered' = [remembered EXCEPT ![h] = next] /\ recentNonces' = recentNonces
    BY <1>2 DEF ReadPrior
  <2> HIDE DEF next
  <2> QED
    BY <2>3, <2>4 DEF NonceLists
<1>3. ASSUME NEW h \in Handlers, RefuseReplay(h) \/ Fail(h) PROVE NonceLists'
  BY <1>1, <1>3 DEF RefuseReplay, Fail, Finish, NonceLists
<1>4. ASSUME NEW h \in Handlers, Commit(h) PROVE NonceLists'
  <2>1. remembered' = [remembered EXCEPT ![h] = <<>>]
    BY <1>4 DEF Commit, Finish
  <2>2. recentNonces' = recentNonces \/ \E n : recentNonces' = [recentNonces EXCEPT ![n] = remembered[h]]
    BY <1>4 DEF Commit
  <2> QED
    BY <1>1, <2>1, <2>2 DEF NonceLists
<1>5. CASE \E h \in Handlers, q \in Requests : Authenticate(h, q)
  BY <1>5 DEF Authenticate, NonceLists
<1>6. CASE (\E inventory \in Inventories : Publish(inventory)) \/ Tick \/ UNCHANGED vars
  BY <1>6 DEF Publish, Tick, vars, NonceLists
<1> QED
  BY <1>2, <1>3, <1>4, <1>5, <1>6 DEF Next, Handle

-----------------------------------------------------------------------------
(***************************************************************************)
(* The invariants.  A batch is decided from prior[h], which may be long    *)
(* gone from node_latest when it commits, so none of them is inductive by  *)
(* itself.  What saves the handler is that history only grows: the row it  *)
(* has read was backed by a sample and by a round, and still is.           *)
(***************************************************************************)

\* Old was stored: its sample is in the history, and so is its round or a
\* newer one.
Backed(old) ==
  /\ \E s \in SamplesOf(old.node) : s.gen = old.gen
  /\ RoundAt(old) # 0 => \E x \in RoundsOf(old.node) : x.at >= RoundAt(old)

PriorBacked ==
  \A h \in Handlers : phase[h] = "decided" /\ prior[h] # None =>
    /\ prior[h].report.node = job[h].request.report.node
    /\ Backed(prior[h].report)

IInv == TypeOK /\ LatestIsNewest /\ NewestRoundRecorded /\ DerivedFromOlder /\ PriorBacked

\* Two reports of a history are told apart by their time, and AddSample adds
\* at most the one of r.
LEMMA AddSampleIs ==
  ASSUME NEW r, NEW rate
  PROVE  /\ samples \subseteq AddSample(r, rate)
         /\ \E s \in AddSample(r, rate) : s.node = r.node /\ s.gen = r.gen
         /\ \A s \in AddSample(r, rate) : s \in samples \/
              (s.node = r.node /\ s.gen = r.gen /\ s.rate = rate)
<1> DEFINE new == [node |-> r.node, gen |-> r.gen, rate |-> rate]
<1>1. new.node = r.node /\ new.gen = r.gen /\ new.rate = rate
  OBVIOUS
<1>2. AddSample(r, rate) = samples \cup {new} \/
        (AddSample(r, rate) = samples /\ \E s \in samples : s.node = r.node /\ s.gen = r.gen)
  BY DEF AddSample
<1> HIDE DEF new
<1> QED
  BY <1>1, <1>2

\* History only grows.
LEMMA HistoryGrows ==
  ASSUME TypeOK, [Next]_vars
  PROVE  samples \subseteq samples' /\ rounds \subseteq rounds'
<1> USE DEF tableVars, handlerVars
<1>1. ASSUME NEW h \in Handlers, Commit(h)
      PROVE  samples \subseteq samples' /\ rounds \subseteq rounds'
  <2> DEFINE r == Visible(job[h].request.report, job[h].keys)
  <2>1. samples' = AddSample(r, NetworkRate(r, prior[h])) /\ rounds' = AddRound(r, prior[h])
    BY <1>1 DEF Commit
  <2> HIDE DEF r
  <2> QED
    BY <2>1, AddSampleIs DEF AddRound
<1>2. CASE \E h \in Handlers, q \in Requests : Authenticate(h, q)
  BY <1>2 DEF Authenticate
<1>3. ASSUME NEW h \in Handlers, ReadPrior(h) \/ RefuseReplay(h) \/ Fail(h)
      PROVE  samples \subseteq samples' /\ rounds \subseteq rounds'
  BY <1>3 DEF ReadPrior, RefuseReplay, Fail
<1>4. CASE (\E inventory \in Inventories : Publish(inventory)) \/ Tick \/ UNCHANGED vars
  BY <1>4 DEF Publish, Tick, vars
<1> QED
  BY <1>1, <1>2, <1>3, <1>4 DEF Next, Handle

\* A row of node_latest is backed.
LEMMA LatestBacked ==
  ASSUME TypeOK, LatestIsNewest, NewestRoundRecorded, NEW n \in Nodes, latest[n] # None
  PROVE  latest[n].report.node = n /\ Backed(latest[n].report)
BY DEF TypeOK, LatestIsNewest, NewestRoundRecorded, RoundRecorded, Backed

\* The row an invocation decides from is backed.
LEMMA PriorBackedStep == IInv /\ [Next]_vars => PriorBacked'
<1> SUFFICES ASSUME IInv, [Next]_vars, NEW h \in Handlers, phase'[h] = "decided", prior'[h] # None
             PROVE  (/\ prior[h].report.node = job[h].request.report.node
                     /\ Backed(prior[h].report))'
  BY DEF PriorBacked
<1> USE DEF tableVars, handlerVars
<1>0. TypeOK
  BY DEF IInv
<1>1. samples \subseteq samples' /\ rounds \subseteq rounds'
  BY <1>0, HistoryGrows
<1>2. ASSUME NEW old, Backed(old), old = prior'[h].report, old.node = job'[h].request.report.node
      PROVE  (/\ prior[h].report.node = job[h].request.report.node
              /\ Backed(prior[h].report))'
  BY <1>1, <1>2 DEF Backed, SamplesOf, RoundsOf
<1>3. CASE phase[h] = "decided" /\ prior'[h] = prior[h] /\ job'[h] = job[h]
  <2>1. prior[h].report.node = job[h].request.report.node /\ Backed(prior[h].report)
    BY <1>3 DEF IInv, PriorBacked
  <2> QED
    BY <1>2, <1>3, <2>1
<1>4. CASE ReadPrior(h)
  <2> DEFINE n == job[h].request.report.node
  <2>1. n \in Nodes
    BY <1>0, <1>4, RequestsAssumption DEF ReadPrior, TypeOK, Job, Request, Report
  <2>2. prior'[h] = latest[n] /\ job'[h] = job[h]
    BY <1>0, <1>4 DEF ReadPrior, TypeOK
  <2>3. latest[n].report.node = n /\ Backed(latest[n].report)
    BY <1>0, <2>1, <2>2, LatestBacked DEF IInv
  <2> QED
    BY <1>2, <2>2, <2>3
<1>5. ASSUME NEW k \in Handlers, NEW q \in Requests, Authenticate(k, q)
      PROVE  phase[h] = "decided" /\ prior'[h] = prior[h] /\ job'[h] = job[h]
  BY <1>0, <1>5 DEF Authenticate, TypeOK
<1>6. ASSUME NEW k \in Handlers, k # h, Handle(k)
      PROVE  phase[h] = "decided" /\ prior'[h] = prior[h] /\ job'[h] = job[h]
  BY <1>0, <1>6 DEF Handle, ReadPrior, RefuseReplay, Commit, Fail, Finish, TypeOK
<1>7. ~ RefuseReplay(h) /\ ~ Commit(h) /\ ~ Fail(h)
  BY <1>0 DEF RefuseReplay, Commit, Fail, Finish, TypeOK
<1>8. CASE (\E inventory \in Inventories : Publish(inventory)) \/ Tick \/ UNCHANGED vars
  <2>1. phase[h] = "decided" /\ prior'[h] = prior[h] /\ job'[h] = job[h]
    BY <1>8 DEF Publish, Tick, vars
  <2> QED
    BY <1>3, <2>1
<1> QED
  BY <1>3, <1>4, <1>5, <1>6, <1>7, <1>8 DEF Next, Handle

\* What the batch of invocation h writes.
LEMMA CommitWrites ==
  ASSUME TypeOK, NEW h \in Handlers, Commit(h)
  PROVE  \E r \in Report, rate \in Rate \cup {None}, row \in Row :
           /\ r.node \in Nodes /\ r.gen \in 1..MaxSafe
           /\ r.node = job[h].request.report.node
           /\ row.report = r
           /\ rate = NetworkRate(r, prior[h])
           /\ samples' = AddSample(r, rate)
           /\ rounds' = AddRound(r, prior[h])
           /\ events' = events \cup NewEvents(r, row.source, prior[h])
           /\ IF Supersedes(r, latest[r.node])
              THEN latest' = [latest EXCEPT ![r.node] = row]
              ELSE latest' = latest
<1> DEFINE r == Visible(job[h].request.report, job[h].keys)
           rate == NetworkRate(r, prior[h])
           row == [received |-> job[h].at, source |-> job[h].request.source,
                   report |-> r, rate |-> rate]
<1>1. phase[h] # "idle"
  BY DEF Commit
<1>2. r \in Report /\ r.node \in Nodes /\ r.gen \in 1..MaxSafe /\ rate \in Rate \cup {None}
      /\ row \in Row /\ r.node = job[h].request.report.node
  BY <1>1, CommitTypes
<1>3. row.report = r /\ row.source = job[h].request.source
  OBVIOUS
<1>4. /\ samples' = AddSample(r, rate)
      /\ rounds' = AddRound(r, prior[h])
      /\ events' = events \cup NewEvents(r, row.source, prior[h])
      /\ IF Supersedes(r, latest[r.node])
         THEN latest' = [latest EXCEPT ![r.node] = row]
         ELSE latest' = latest
  BY DEF Commit
<1>5. rate = NetworkRate(r, prior[h])
  OBVIOUS
<1> HIDE DEF r, rate, row
<1> QED
  BY <1>2, <1>3, <1>4, <1>5

\* Everything an invariant needs to know of the batch of invocation h.
LEMMA CommitEffect ==
  ASSUME IInv, NEW h \in Handlers, Commit(h)
  PROVE  \E r \in Report, rate \in Rate \cup {None}, row \in Row :
           /\ r.node \in Nodes /\ r.gen \in 1..MaxSafe
           /\ row.report = r
           /\ rate = NetworkRate(r, prior[h])
           /\ samples' = AddSample(r, rate)
           /\ rounds' = AddRound(r, prior[h])
           /\ events' = events \cup NewEvents(r, row.source, prior[h])
           /\ IF Supersedes(r, latest[r.node])
              THEN latest' = [latest EXCEPT ![r.node] = row]
              ELSE latest' = latest
           /\ prior[h] # None => prior[h] \in Row /\ prior[h].report.node = r.node
                                 /\ Backed(prior[h].report)
<1>1. prior[h] # None => /\ prior[h] \in Row
                         /\ prior[h].report.node = job[h].request.report.node
                         /\ Backed(prior[h].report)
  BY DEF IInv, PriorBacked, TypeOK, Commit
<1>2. TypeOK
  BY DEF IInv
<1> QED
  BY <1>1, <1>2, CommitWrites

\* Steps other than a commit leave the tables alone.
LEMMA OnlyCommitWrites ==
  ASSUME [Next]_vars, ~ \E h \in Handlers : Commit(h)
  PROVE  UNCHANGED tableVars
<1> USE DEF tableVars, handlerVars
<1>1. CASE \E h \in Handlers, q \in Requests : Authenticate(h, q)
  BY <1>1 DEF Authenticate
<1>2. CASE \E h \in Handlers : ReadPrior(h) \/ RefuseReplay(h) \/ Fail(h)
  BY <1>2 DEF ReadPrior, RefuseReplay, Fail
<1>3. CASE (\E inventory \in Inventories : Publish(inventory)) \/ Tick \/ UNCHANGED vars
  BY <1>3 DEF Publish, Tick, vars
<1> QED
  BY <1>1, <1>2, <1>3 DEF Next, Handle

LEMMA LatestIsNewestStep == TypeOK /\ LatestIsNewest /\ [Next]_vars => LatestIsNewest'
<1> SUFFICES ASSUME TypeOK, LatestIsNewest, [Next]_vars PROVE LatestIsNewest'
  OBVIOUS
<1>1. CASE ~ \E h \in Handlers : Commit(h)
  BY <1>1, OnlyCommitWrites DEF tableVars, LatestIsNewest, SamplesOf
<1>2. ASSUME NEW h \in Handlers, Commit(h) PROVE LatestIsNewest'
  <2>1. PICK r \in Report, rate \in Rate \cup {None}, row \in Row :
           /\ r.node \in Nodes /\ r.gen \in 1..MaxSafe
           /\ row.report = r
           /\ samples' = AddSample(r, rate)
           /\ IF Supersedes(r, latest[r.node])
              THEN latest' = [latest EXCEPT ![r.node] = row]
              ELSE latest' = latest
    BY <1>2, CommitWrites
  <2>2. /\ samples \subseteq samples'
        /\ \E s \in samples' : s.node = r.node /\ s.gen = r.gen
        /\ \A s \in samples' : s \in samples \/ (s.node = r.node /\ s.gen = r.gen)
    BY <2>1, AddSampleIs
  <2>3. /\ latest \in [Nodes -> Row \cup {None}]
        /\ \A s \in samples : s.gen \in Nat
        /\ \A n \in Nodes : latest[n] # None => latest[n].report.gen \in Nat
    BY BoundsAssumption DEF TypeOK, Sample, Row, Report
  <2>4. LatestIsNewest
    OBVIOUS
  <2>5. r.gen \in Nat /\ row # None
    BY <2>1, NoneAssumption
  <2> SUFFICES ASSUME NEW n \in Nodes
               PROVE  (IF latest[n] = None
                       THEN SamplesOf(n) = {}
                       ELSE /\ \E s \in SamplesOf(n) : s.gen = latest[n].report.gen
                            /\ \A s \in SamplesOf(n) : s.gen <= latest[n].report.gen)'
    BY DEF LatestIsNewest
  <2>6. CASE n # r.node
    <3>1. latest'[n] = latest[n]
      BY <2>1, <2>3, <2>6
    <3>2. \A s \in samples' : s.node = n => s \in samples
      BY <2>2, <2>6
    <3> QED
      BY <3>1, <3>2, <2>2, <2>4 DEF LatestIsNewest, SamplesOf
  <2>7. CASE n = r.node /\ Supersedes(r, latest[n])
    <3>1. latest'[n] = row
      BY <2>1, <2>3, <2>7
    <3>2. ASSUME NEW s \in samples, s.node = n PROVE s.gen <= r.gen
      <4>1. latest[n] # None /\ s.gen <= latest[n].report.gen
        BY <3>2, <2>4 DEF LatestIsNewest, SamplesOf
      <4> QED
        BY <4>1, <2>3, <2>5, <2>7 DEF Supersedes
    <3> QED
      BY <3>1, <3>2, <2>1, <2>2, <2>5, <2>7 DEF SamplesOf
  <2>8. CASE n = r.node /\ ~ Supersedes(r, latest[n])
    <3>1. latest' = latest
      BY <2>1, <2>8
    <3>2. latest[n] # None
      BY <2>8 DEF Supersedes
    <3>3. ~ (r.gen >= latest[n].report.gen)
      BY <2>8, <3>2 DEF Supersedes
    <3>4. latest[n].report.gen \in Nat /\ r.gen \in Nat
      BY <3>2, <2>3, <2>5
    <3>5. r.gen <= latest[n].report.gen
      BY <3>3, <3>4
    <3> QED
      BY <3>1, <3>2, <3>5, <2>2, <2>4, <2>8 DEF LatestIsNewest, SamplesOf
  <2> QED
    BY <2>6, <2>7, <2>8
<1> QED
  BY <1>1, <1>2

LEMMA NewestRoundRecordedStep == IInv /\ [Next]_vars => NewestRoundRecorded'
<1> SUFFICES ASSUME IInv, [Next]_vars, NEW n \in Nodes,
                    latest'[n] # None, RoundAt(latest'[n].report) # 0
             PROVE  \E x \in rounds' : x.node = n /\ x.at >= RoundAt(latest'[n].report)
  BY DEF NewestRoundRecorded, RoundRecorded, RoundsOf
<1>0. rounds \subseteq rounds' /\ NewestRoundRecorded
  BY HistoryGrows DEF IInv
<1>1. CASE latest'[n] = latest[n]
  BY <1>0, <1>1 DEF NewestRoundRecorded, RoundRecorded, RoundsOf
<1>2. ASSUME NEW h \in Handlers, Commit(h), latest'[n] # latest[n]
      PROVE  \E x \in rounds' : x.node = n /\ x.at >= RoundAt(latest'[n].report)
  <2>1. PICK r \in Report, row \in Row :
           /\ r.node \in Nodes
           /\ row.report = r
           /\ rounds' = AddRound(r, prior[h])
           /\ IF Supersedes(r, latest[r.node])
              THEN latest' = [latest EXCEPT ![r.node] = row]
              ELSE latest' = latest
           /\ prior[h] # None => prior[h] \in Row /\ prior[h].report.node = r.node
                                 /\ Backed(prior[h].report)
    BY <1>2, CommitEffect
  <2>2. latest \in [Nodes -> Row \cup {None}]
    BY DEF IInv, TypeOK
  <2>3. n = r.node /\ latest'[n].report = r
    BY <1>2, <2>1, <2>2
  <2>4. RoundAt(r) \in Nat /\ RoundAt(r) # 0 /\ \A x \in rounds : x.at \in Nat
    BY <2>3, RoundAtType, BoundsAssumption DEF IInv, TypeOK, Round
  <2> SUFFICES \E x \in rounds' : x.node = n /\ x.at >= RoundAt(r)
    BY <2>3
  <2>5. CASE \E x \in rounds : x.node = r.node /\ x.at = RoundAt(r)
    BY <2>3, <2>4, <2>5, <1>0
  <2>6. CASE prior[h] # None /\ RoundAt(r) <= RoundAt(prior[h].report)
    <3>1. prior[h].report \in Report
      BY <2>1, <2>6 DEF Row
    <3>2. RoundAt(prior[h].report) \in Nat /\ RoundAt(prior[h].report) # 0
      BY <3>1, <2>4, <2>6, RoundAtType, BoundsAssumption
    <3>3. PICK x \in rounds : x.node = n /\ x.at >= RoundAt(prior[h].report)
      BY <3>2, <2>1, <2>3, <2>6 DEF Backed, RoundsOf
    <3> QED
      BY <3>2, <3>3, <2>4, <2>6, <1>0
  <2>7. CASE /\ ~ \E x \in rounds : x.node = r.node /\ x.at = RoundAt(r)
             /\ prior[h] = None \/ ~ (RoundAt(r) <= RoundAt(prior[h].report))
    <3> DEFINE x == [node |-> r.node, at |-> RoundAt(r), probes |-> Reported(r)]
    <3>1. ~ (RoundAt(r) <= IF prior[h] = None THEN 0 ELSE RoundAt(prior[h].report))
      BY <2>4, <2>7
    <3>2. AddRound(r, prior[h]) = rounds \cup {x}
      BY <3>1, <2>7 DEF AddRound
    <3>3. x \in rounds' /\ x.node = n /\ x.at = RoundAt(r)
      BY <3>2, <2>1, <2>3
    <3> QED
      BY <3>3, <2>4
  <2> QED
    BY <2>5, <2>6, <2>7
<1>3. CASE ~ \E h \in Handlers : Commit(h)
  BY <1>1, <1>3, OnlyCommitWrites DEF tableVars
<1> QED
  BY <1>1, <1>2, <1>3

LEMMA DerivedFromOlderStep == IInv /\ [Next]_vars => DerivedFromOlder'
<1> SUFFICES ASSUME IInv, [Next]_vars PROVE DerivedFromOlder'
  OBVIOUS
<1>1. CASE ~ \E h \in Handlers : Commit(h)
  BY <1>1, OnlyCommitWrites DEF IInv, tableVars, DerivedFromOlder, SamplesOf
<1>2. ASSUME NEW h \in Handlers, Commit(h) PROVE DerivedFromOlder'
  <2>1. PICK r \in Report, rate \in Rate \cup {None}, row \in Row :
           /\ r.node \in Nodes /\ r.gen \in 1..MaxSafe
           /\ rate = NetworkRate(r, prior[h])
           /\ samples' = AddSample(r, rate)
           /\ events' = events \cup NewEvents(r, row.source, prior[h])
           /\ prior[h] # None => prior[h] \in Row /\ prior[h].report.node = r.node
                                 /\ Backed(prior[h].report)
    BY <1>2, CommitEffect
  <2>2. /\ samples \subseteq samples'
        /\ \E s \in samples' : s.node = r.node /\ s.gen = r.gen
        /\ \A s \in samples' : s \in samples \/ (s.node = r.node /\ s.gen = r.gen /\ s.rate = rate)
    BY <2>1, AddSampleIs
  <2>3. DerivedFromOlder
    BY DEF IInv
  <2>4. prior[h] # None => \E o \in samples : o.node = r.node /\ o.gen = prior[h].report.gen
    BY <2>1 DEF Backed, SamplesOf
  <2>5. ASSUME NEW s \in samples', s.rate # None
        PROVE  \E o \in samples' : o.node = s.node /\ o.gen = s.gen - s.rate.seconds
    <3>1. CASE s \in samples
      BY <2>2, <2>3, <2>5, <3>1 DEF DerivedFromOlder, SamplesOf
    <3>2. CASE s.node = r.node /\ s.gen = r.gen /\ s.rate = rate
      <4>1. prior[h] # None /\ prior[h].report.gen = r.gen - rate.seconds
        BY <2>1, <2>5, <3>2, NetworkRateType DEF IInv, TypeOK
      <4> QED
        BY <4>1, <2>2, <2>4, <3>2
    <3> QED
      BY <2>2, <3>1, <3>2
  <2>6. ASSUME NEW e \in events'
        PROVE  /\ \E s \in samples' : s.node = e.node /\ s.gen = e.at
               /\ \E o \in samples' : o.node = e.node /\ o.gen < e.at
    <3>1. CASE e \in events
      BY <2>2, <2>3, <3>1 DEF DerivedFromOlder, SamplesOf
    <3>2. CASE e \in NewEvents(r, row.source, prior[h])
      <4>1. prior[h] # None /\ ~ (r.gen <= prior[h].report.gen)
            /\ e \in Changes(r, row.source, prior[h])
        BY <3>2 DEF NewEvents
      <4>2. e.node = r.node /\ e.at = r.gen
        BY <4>1 DEF Changes
      <4>3. r.gen \in Nat /\ prior[h].report.gen \in Nat
        BY <2>1, <4>1, BoundsAssumption DEF Row, Report
      <4>4. prior[h].report.gen < r.gen
        BY <4>1, <4>3
      <4> QED
        BY <4>1, <4>2, <4>4, <2>2, <2>4
    <3> QED
      BY <2>1, <3>1, <3>2
  <2> QED
    BY <2>5, <2>6 DEF DerivedFromOlder, SamplesOf
<1> QED
  BY <1>1, <1>2

LEMMA IInvInit == Init => IInv
<1> SUFFICES ASSUME Init PROVE IInv
  OBVIOUS
<1>1. TypeOK
  BY TypeInit
<1>2. LatestIsNewest /\ NewestRoundRecorded /\ DerivedFromOlder
  BY DEF Init, LatestIsNewest, NewestRoundRecorded, RoundRecorded, DerivedFromOlder,
     SamplesOf
<1>3. PriorBacked
  BY DEF Init, PriorBacked
<1> QED
  BY <1>1, <1>2, <1>3 DEF IInv

LEMMA IInvStep == IInv /\ [Next]_vars => IInv'
<1>1. IInv /\ [Next]_vars => TypeOK'
  BY TypeStep DEF IInv
<1> QED
  BY <1>1, LatestIsNewestStep, NewestRoundRecordedStep, DerivedFromOlderStep, PriorBackedStep
  DEF IInv

LEMMA IInvHolds == Spec => []IInv
BY IInvInit, IInvStep, PTL DEF Spec

\* Late, repeated and overlapping reports never leave a card older than the
\* history, nor a history without a card.
THEOREM CardIsNewest == Spec => []LatestIsNewest
<1>1. IInv => LatestIsNewest
  BY DEF IInv
<1> QED
  BY <1>1, IInvHolds, PTL

\* The comparison with a row that has been replaced since never loses the
\* newest probe round.
THEOREM RoundsAreKept == Spec => []NewestRoundRecorded
<1>1. IInv => NewestRoundRecorded
  BY DEF IInv
<1> QED
  BY <1>1, IInvHolds, PTL

\* Every rate and every event is taken against an older report of the history.
THEOREM ComparisonsLookBack == Spec => []DerivedFromOlder
<1>1. IInv => DerivedFromOlder
  BY DEF IInv
<1> QED
  BY <1>1, IInvHolds, PTL

-----------------------------------------------------------------------------
(***************************************************************************)
(* Refinement: a commit is Accept of the abstract store, everything else   *)
(* is a stutter.                                                           *)
(***************************************************************************)

newestBar == [n \in Nodes |-> IF latest[n] = None THEN None ELSE latest[n].report.gen]
historyBar == [n \in Nodes |-> {s.gen : s \in SamplesOf(n)}]

LEMMA StoreInitRefined == Init => Store!StoreInit
BY DEF Init, Store!StoreInit, SamplesOf

LEMMA StoreStepRefined == IInv /\ [Next]_vars => [Store!StoreNext]_Store!storeVars
<1> SUFFICES ASSUME IInv, [Next]_vars PROVE [Store!StoreNext]_Store!storeVars
  OBVIOUS
<1>1. CASE ~ \E h \in Handlers : Commit(h)
  <2>1. UNCHANGED <<newestBar, historyBar>>
    BY <1>1, OnlyCommitWrites DEF tableVars, newestBar, historyBar, SamplesOf
  <2> QED
    BY <2>1 DEF Store!storeVars, newestBar, historyBar
<1>2. ASSUME NEW h \in Handlers, Commit(h) PROVE Store!StoreNext
  <2>1. PICK r \in Report, rate \in Rate \cup {None}, row \in Row :
           /\ r.node \in Nodes /\ r.gen \in 1..MaxSafe
           /\ row.report = r
           /\ samples' = AddSample(r, rate)
           /\ IF Supersedes(r, latest[r.node])
              THEN latest' = [latest EXCEPT ![r.node] = row]
              ELSE latest' = latest
    BY <1>2, CommitEffect
  <2>2. /\ samples \subseteq samples'
        /\ \E s \in samples' : s.node = r.node /\ s.gen = r.gen
        /\ \A s \in samples' : s \in samples \/ (s.node = r.node /\ s.gen = r.gen)
    BY <2>1, AddSampleIs
  <2>3. latest \in [Nodes -> Row \cup {None}] /\ row # None /\ r.gen # None
    BY <2>1, NoneAssumption DEF IInv, TypeOK
  <2>4. newestBar' = [newestBar EXCEPT ![r.node] = Store!Later(r.gen, newestBar[r.node])]
    <3>1. newestBar[r.node] = IF latest[r.node] = None THEN None ELSE latest[r.node].report.gen
      BY <2>1 DEF newestBar
    <3>2. ASSUME NEW n \in Nodes
          PROVE  newestBar'[n] = IF n = r.node THEN Store!Later(r.gen, newestBar[r.node]) ELSE newestBar[n]
      <4>1. CASE n # r.node
        BY <4>1, <2>1, <2>3 DEF newestBar
      <4>2. CASE n = r.node /\ Supersedes(r, latest[n])
        BY <4>2, <3>1, <2>1, <2>3 DEF newestBar, Supersedes, Store!Later
      <4>3. CASE n = r.node /\ ~ Supersedes(r, latest[n])
        <5>1. latest' = latest /\ latest[n] # None /\ ~ (r.gen >= latest[n].report.gen)
          BY <4>3, <2>1 DEF Supersedes
        <5>2. latest[n].report.gen # None
          BY <5>1, <2>3, NoneAssumption DEF Row, Report
        <5> QED
          BY <4>3, <5>1, <5>2, <3>1 DEF newestBar, Store!Later
      <4> QED
        BY <4>1, <4>2, <4>3
    <3> QED
      BY <3>2, <2>1 DEF newestBar
  <2>5. historyBar' = [historyBar EXCEPT ![r.node] = historyBar[r.node] \cup {r.gen}]
    <3>1. ASSUME NEW n \in Nodes
          PROVE  historyBar'[n] = IF n = r.node THEN historyBar[n] \cup {r.gen} ELSE historyBar[n]
      BY <2>2 DEF historyBar, SamplesOf
    <3> QED
      BY <3>1, <2>1 DEF historyBar
  <2>6. Store!Accept(r.node, r.gen)
    BY <2>4, <2>5 DEF Store!Accept, newestBar, historyBar
  <2> QED
    BY <2>1, <2>6 DEF Store!StoreNext
<1> QED
  BY <1>1, <1>2

\* The report path implements the abstract store.
THEOREM StoreImplemented == Spec => ImplementsStore
<1>1. Spec => Store!StoreSpec
  BY StoreInitRefined, StoreStepRefined, IInvHolds, PTL DEF Spec, Store!StoreSpec
<1> QED
  BY <1>1 DEF ImplementsStore

-----------------------------------------------------------------------------
(***************************************************************************)
(* One invocation at a time: the Agent waits for an answer before it sends *)
(* again.  Then the row a batch was decided from is still the one in       *)
(* node_latest when it commits.                                            *)
(***************************************************************************)

OneInvocation == \A h, k \in Handlers : h = k

PriorCurrent ==
  \A h \in Handlers : phase[h] = "decided" => prior[h] = latest[job[h].request.report.node]

RInv == TypeOK /\ LatestIsNewest /\ PriorCurrent /\ RatesDoNotOverlap

LEMMA PriorCurrentStep ==
  TypeOK /\ PriorCurrent /\ OneInvocation /\ [Next]_vars => PriorCurrent'
<1> SUFFICES ASSUME TypeOK, PriorCurrent, OneInvocation, [Next]_vars,
                    NEW h \in Handlers, phase'[h] = "decided"
             PROVE  prior'[h] = latest'[job'[h].request.report.node]
  BY DEF PriorCurrent
<1> USE DEF tableVars, handlerVars
<1>1. CASE \E k \in Handlers, q \in Requests : Authenticate(k, q)
  BY <1>1 DEF Authenticate, TypeOK, OneInvocation
<1>2. ASSUME NEW k \in Handlers, Handle(k) PROVE prior'[h] = latest'[job'[h].request.report.node]
  <2>1. k = h
    BY DEF OneInvocation
  <2>2. ReadPrior(h)
    BY <1>2, <2>1 DEF Handle, RefuseReplay, Commit, Fail, Finish, TypeOK
  <2> QED
    BY <2>2 DEF ReadPrior, TypeOK
<1>3. CASE (\E inventory \in Inventories : Publish(inventory)) \/ Tick \/ UNCHANGED vars
  BY <1>3 DEF Publish, Tick, vars, PriorCurrent
<1> QED
  BY <1>1, <1>2, <1>3 DEF Next

\* A sample that is compared at all is newer than every sample of its node, and
\* its rate starts at the newest of them.
LEMMA RatesThroughCommit ==
  ASSUME TypeOK, LatestIsNewest, PriorCurrent, RatesDoNotOverlap, NEW h \in Handlers, Commit(h)
  PROVE  RatesDoNotOverlap'
<1>1. PICK r \in Report, rate \in Rate \cup {None} :
        /\ r.node \in Nodes /\ r.gen \in 1..MaxSafe
        /\ r.node = job[h].request.report.node
        /\ rate = NetworkRate(r, prior[h])
        /\ samples' = AddSample(r, rate)
  BY CommitWrites
<1>2. prior[h] = latest[r.node]
  BY <1>1 DEF PriorCurrent, Commit
<1>3. latest[r.node] \in Row \cup {None}
  BY <1>1 DEF TypeOK
<1>4. rate # None => /\ latest[r.node] # None
                     /\ latest[r.node].report.gen < r.gen
                     /\ latest[r.node].report.gen = r.gen - rate.seconds
  BY <1>1, <1>2, <1>3, NetworkRateType
<1>5. latest[r.node] # None =>
        \A s \in samples : s.node = r.node => s.gen <= latest[r.node].report.gen
  BY <1>1 DEF LatestIsNewest, SamplesOf
<1>6. \A s \in samples' : s \in samples \/ (s.node = r.node /\ s.gen = r.gen /\ s.rate = rate)
  BY <1>1, AddSampleIs
<1>7. /\ \A s \in samples : s.gen \in Nat
      /\ r.gen \in Nat
      /\ latest[r.node] # None => latest[r.node].report.gen \in Nat
  BY <1>1, <1>3, BoundsAssumption DEF TypeOK, Sample, Row, Report
<1> SUFFICES ASSUME NEW s \in samples', NEW t \in samples', s.node = t.node,
                    s.rate # None, t.rate # None, s.gen < t.gen
             PROVE  s.gen <= t.gen - t.rate.seconds
  BY DEF RatesDoNotOverlap
<1>8. CASE s \in samples /\ t \in samples
  BY <1>8 DEF RatesDoNotOverlap
<1>9. CASE s \in samples /\ t \notin samples
  BY <1>4, <1>5, <1>6, <1>9
<1>10. CASE s \notin samples
  <2>1. s.node = r.node /\ s.gen = r.gen /\ s.rate = rate
    BY <1>6, <1>10
  <2>2. t \in samples
    BY <1>6, <1>7, <2>1
  <2>3. t.gen <= latest[r.node].report.gen /\ latest[r.node].report.gen < r.gen
    BY <1>4, <1>5, <2>1, <2>2
  <2> QED
    BY <1>4, <1>7, <2>1, <2>2, <2>3
<1> QED
  BY <1>8, <1>9, <1>10

\* With one invocation at a time the spans of the stored rates never overlap,
\* however late, often and out of order the reports arrive.
THEOREM RatesApart == Spec /\ OneInvocation => []RatesDoNotOverlap
<1>1. Init => RInv
  <2>1. Init => LatestIsNewest /\ PriorCurrent /\ RatesDoNotOverlap
    BY DEF Init, LatestIsNewest, SamplesOf, PriorCurrent, RatesDoNotOverlap
  <2> QED
    BY <2>1, TypeInit DEF RInv
<1>2. RInv /\ OneInvocation /\ [Next]_vars => RInv'
  <2> SUFFICES ASSUME RInv, OneInvocation, [Next]_vars PROVE RInv'
    OBVIOUS
  <2>1. TypeOK' /\ LatestIsNewest' /\ PriorCurrent'
    BY TypeStep, LatestIsNewestStep, PriorCurrentStep DEF RInv
  <2>2. RatesDoNotOverlap'
    <3>1. CASE \E h \in Handlers : Commit(h)
      BY <3>1, RatesThroughCommit DEF RInv
    <3>2. CASE ~ \E h \in Handlers : Commit(h)
      BY <3>2, OnlyCommitWrites DEF tableVars, RInv, RatesDoNotOverlap
    <3> QED
      BY <3>1, <3>2
  <2> QED
    BY <2>1, <2>2 DEF RInv
<1>3. OneInvocation => []OneInvocation
  <2>1. OneInvocation => OneInvocation'
    BY DEF OneInvocation
  <2> QED
    BY <2>1, PTL
<1>4. RInv => RatesDoNotOverlap
  BY DEF RInv
<1> QED
  BY <1>1, <1>2, <1>3, <1>4, PTL DEF Spec
=============================================================================
