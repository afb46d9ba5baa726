------------------------- MODULE NodeDeletionProofs -------------------------
(***************************************************************************)
(* Theorems of NodeDeletion: the report path keeps its types and its       *)
(* newest card although rows are taken away under it, the lock holds, what *)
(* was erased stays erased once no old invocation is left, and a purge     *)
(* takes nothing else from the peers, nor the rounds their cards show.     *)
(***************************************************************************)
EXTENDS NodeDeletion, ReportIngestProofs

-----------------------------------------------------------------------------
(***************************************************************************)
(* What the handlers write.                                                *)
(***************************************************************************)

LEMMA PrepareTypes ==
  ASSUME TypeOK, NEW n \in Nodes, PrepareDeletion(n)
  PROVE  catalog' \in [Nodes -> CatalogEntry]
<1> DEFINE Entries == [target : Nodes \cup {None}, enabled : BOOLEAN]
           States == {"absent", "off", "on"}
<1>1. ASSUME NEW m \in Nodes PROVE catalog'[m] \in CatalogEntry
  <2> DEFINE services == IF m = n THEN [s \in Services |-> SwitchedOff(catalog[m].services[s])]
                         ELSE catalog[m].services
             probes == [p \in Probes |->
               IF catalog[m].probes[p] # None /\ (m = n \/ Linked(m, p, n))
               THEN [catalog[m].probes[p] EXCEPT !.enabled = FALSE]
               ELSE catalog[m].probes[p]]
             node == IF m = n THEN SwitchedOff(catalog[m].node) ELSE catalog[m].node
             retired == catalog[m].retired \/ (m = n /\ catalog[m].node # "absent")
  <2>1. catalog[m] \in CatalogEntry
    BY DEF TypeOK
  <2>2. services \in [Services -> States]
    BY <2>1 DEF CatalogEntry, SwitchedOff
  <2>3. ASSUME NEW p \in Probes PROVE probes[p] \in Entries \cup {None}
    <3>1. catalog[m].probes[p] \in Entries \cup {None}
      BY <2>1 DEF CatalogEntry
    <3> QED
      BY <3>1
  <2>4. node \in States /\ retired \in BOOLEAN
    BY <2>1 DEF CatalogEntry, SwitchedOff
  <2>5. probes \in [Probes -> Entries \cup {None}]
    BY <2>3
  <2>6. catalog'[m] = [node |-> node, retired |-> retired, services |-> services, probes |-> probes]
    BY DEF PrepareDeletion
  <2> HIDE DEF node, retired, services, probes
  <2> QED
    BY <2>2, <2>4, <2>5, <2>6 DEF CatalogEntry
<1>2. DOMAIN catalog' = Nodes /\ catalog' = [m \in Nodes |-> catalog'[m]]
  BY DEF PrepareDeletion
<1> QED
  BY <1>1, <1>2

\* What a purge of n leaves of a peer's row is a row for the same report.
LEMMA UnlinkedType ==
  ASSUME TypeOK, NEW n, NEW m \in Nodes, latest[m] # None
  PROVE  /\ Unlinked(m, n) \in Row
         /\ Unlinked(m, n).report.node = m
         /\ Unlinked(m, n).report.gen = latest[m].report.gen
         /\ \A p \in Probes : Unlinked(m, n).report.probes[p] =
              IF latest[m].report.probes[p] = None THEN None
              ELSE IF latest[m].report.probes[p].target = n \/ Linked(m, p, n) THEN None
              ELSE latest[m].report.probes[p]
<1> DEFINE old == latest[m].report.probes
           probes == [p \in Probes |->
              IF old[p] = None THEN None
              ELSE IF old[p].target = n \/ Linked(m, p, n) THEN None ELSE old[p]]
           report == [latest[m].report EXCEPT !.probes = probes]
<1>1. latest[m] \in Row /\ latest[m].report \in Report /\ latest[m].report.node = m
  BY DEF TypeOK, Row
<1>2. probes \in [Probes -> Probe \cup {None}]
  BY <1>1 DEF Report
<1>3. Unlinked(m, n) = [latest[m] EXCEPT !.report = report]
  BY <1>1 DEF Unlinked, Row, Report
<1>4. \A p \in Probes : probes[p] =
        IF old[p] = None THEN None
        ELSE IF old[p].target = n \/ Linked(m, p, n) THEN None ELSE old[p]
  OBVIOUS
<1> HIDE DEF probes
<1>5. /\ report \in Report /\ report.node = m /\ report.gen = latest[m].report.gen
      /\ report.probes = probes
  BY <1>1, <1>2 DEF Report
<1> HIDE DEF report
<1> QED
  BY <1>1, <1>3, <1>4, <1>5 DEF Row

LEMMA EraseTypes ==
  ASSUME TypeOK, NEW n \in Nodes, Erase(n)
  PROVE  /\ latest' \in [Nodes -> Row \cup {None}]
         /\ \A m \in Nodes : latest'[m] # None =>
              /\ m # n /\ latest[m] # None
              /\ latest'[m].report.node = m
              /\ latest'[m].report.gen = latest[m].report.gen
         /\ \A m \in Nodes : m # n /\ latest[m] # None => latest'[m] # None
         /\ rounds' \subseteq Round
         /\ catalog' \in [Nodes -> CatalogEntry]
<1>1. ASSUME NEW m \in Nodes, m # n, latest[m] # None
      PROVE  latest'[m] \in Row /\ latest'[m].report.node = m
             /\ latest'[m].report.gen = latest[m].report.gen
  <2>1. latest'[m] = Unlinked(m, n)
    BY <1>1 DEF Erase
  <2> QED
    BY <1>1, <2>1, UnlinkedType
<1>2. ASSUME NEW m \in Nodes, m = n \/ latest[m] = None PROVE latest'[m] = None
  BY <1>2 DEF Erase
<1>3. latest' = [m \in Nodes |-> latest'[m]]
  BY DEF Erase
<1>4. latest' \in [Nodes -> Row \cup {None}]
  <2>1. ASSUME NEW m \in Nodes PROVE latest'[m] \in Row \cup {None}
    BY <1>1, <1>2
  <2> QED
    BY <1>3, <2>1
<1>5. rounds' \subseteq Round
  <2>1. ASSUME NEW y \in rounds PROVE [y EXCEPT !.probes = {p \in @ : ~ Linked(y.node, p, n)}] \in Round
    <3>1. y \in Round
      BY DEF TypeOK
    <3>2. {p \in y.probes : ~ Linked(y.node, p, n)} \in SUBSET Probes
      BY <3>1 DEF Round
    <3> QED
      BY <3>1, <3>2 DEF Round
  <2> QED
    BY <2>1 DEF Erase, Without, RoundsWithout
<1>6. ASSUME NEW m \in Nodes PROVE catalog'[m] \in CatalogEntry
  <2>1. catalog[m] \in CatalogEntry
    BY DEF TypeOK
  <2>2. NoEntry \in CatalogEntry
    BY DEF NoEntry, CatalogEntry
  <2> DEFINE probes == [p \in Probes |-> IF Linked(m, p, n) THEN None ELSE catalog[m].probes[p]]
  <2>3. probes \in [Probes -> [target : Nodes \cup {None}, enabled : BOOLEAN] \cup {None}]
    BY <2>1 DEF CatalogEntry
  <2>4. catalog'[m] = IF m = n THEN NoEntry ELSE [catalog[m] EXCEPT !.probes = probes]
    BY DEF Erase
  <2> HIDE DEF probes
  <2> QED
    BY <2>1, <2>2, <2>3, <2>4 DEF CatalogEntry
<1>7. catalog' \in [Nodes -> CatalogEntry]
  <2>1. catalog' = [m \in Nodes |-> catalog'[m]]
    BY DEF Erase
  <2> QED
    BY <1>6, <2>1
<1>8. \A m \in Nodes : m # n /\ latest[m] # None => latest'[m] # None
  BY <1>1, NoneAssumption
<1>9. \A m \in Nodes : latest'[m] # None =>
        /\ m # n /\ latest[m] # None
        /\ latest'[m].report.node = m
        /\ latest'[m].report.gen = latest[m].report.gen
  BY <1>1, <1>2
<1> QED
  BY <1>4, <1>5, <1>7, <1>8, <1>9

LEMMA DeletionTypeStep == TypeOK /\ [DeletionNext]_deletionVars => TypeOK'
<1> SUFFICES ASSUME TypeOK, [DeletionNext]_deletionVars PROVE TypeOK'
  OBVIOUS
<1>1. CASE ReportStep
  BY <1>1, TypeStep DEF ReportStep
<1>2. ASSUME NEW n \in Nodes, PrepareDeletion(n) PROVE TypeOK'
  <2>1. UNCHANGED <<now, env, handlerVars, latest, recentNonces, samples, rounds>>
    BY <1>2 DEF PrepareDeletion
  <2> QED
    BY <1>2, <2>1, PrepareTypes DEF TypeOK, handlerVars
<1>3. ASSUME NEW n \in Nodes, Erase(n) PROVE TypeOK'
  <2>1. UNCHANGED <<now, env, handlerVars>>
    BY <1>3 DEF Erase
  <2>2. recentNonces' = [recentNonces EXCEPT ![n] = <<>>] /\ samples' \subseteq samples
    BY <1>3 DEF Erase, Without
  <2> QED
    BY <1>3, <2>1, <2>2, EraseTypes DEF TypeOK, handlerVars
<1>4. ASSUME NEW n \in Nodes, CheckPurge(n) \/ VerifyPurge(n) \/ AbortPurge(n) PROVE TypeOK'
  <2>1. UNCHANGED vars
    BY <1>4 DEF CheckPurge, VerifyPurge, AbortPurge
  <2> QED
    BY <2>1, TypeStep
<1>5. CASE UNCHANGED deletionVars
  <2>1. UNCHANGED vars
    BY <1>5 DEF deletionVars
  <2> QED
    BY <2>1, TypeStep
<1> QED
  BY <1>1, <1>2, <1>3, <1>4, <1>5 DEF DeletionNext

\* Locks and purges leave every table well typed.
THEOREM DeletionTypeCorrect == DeletionSpec => []TypeOK
<1>1. DeletionInit => TypeOK
  BY TypeInit DEF DeletionInit
<1> QED
  BY <1>1, DeletionTypeStep, PTL DEF DeletionSpec

-----------------------------------------------------------------------------
(***************************************************************************)
(* The card is the newest report.  In ReportIngest this followed from an   *)
(* invariant that says history only grows; here it does not, and the proof *)
(* rests on the clause of the upsert alone, so it also holds for a row     *)
(* that an old invocation puts back after a purge.                         *)
(***************************************************************************)

LEMMA DeletionNewestStep ==
  TypeOK /\ LatestIsNewest /\ [DeletionNext]_deletionVars => LatestIsNewest'
<1> SUFFICES ASSUME TypeOK, LatestIsNewest, [DeletionNext]_deletionVars PROVE LatestIsNewest'
  OBVIOUS
<1>1. CASE ReportStep
  BY <1>1, LatestIsNewestStep DEF ReportStep
<1>2. ASSUME NEW n \in Nodes, Erase(n) PROVE LatestIsNewest'
  <2>1. \A s : s \in samples' <=> s \in samples /\ s.node # n
    BY <1>2 DEF Erase, Without
  <2>2. /\ \A m \in Nodes : latest'[m] # None =>
             m # n /\ latest[m] # None /\ latest'[m].report.gen = latest[m].report.gen
        /\ \A m \in Nodes : m # n /\ latest[m] # None => latest'[m] # None
    BY <1>2, EraseTypes
  <2> SUFFICES ASSUME NEW m \in Nodes
               PROVE  (IF latest[m] = None
                       THEN SamplesOf(m) = {}
                       ELSE /\ \E s \in SamplesOf(m) : s.gen = latest[m].report.gen
                            /\ \A s \in SamplesOf(m) : s.gen <= latest[m].report.gen)'
    BY DEF LatestIsNewest
  <2>3. CASE m = n
    BY <2>1, <2>2, <2>3 DEF SamplesOf
  <2>4. CASE m # n
    <3>1. SamplesOf(m)' = SamplesOf(m)
      BY <2>1, <2>4 DEF SamplesOf
    <3> QED
      BY <2>2, <2>4, <3>1 DEF LatestIsNewest
  <2> QED
    BY <2>3, <2>4
<1>3. CASE \/ \E n \in Nodes : \/ PrepareDeletion(n) \/ CheckPurge(n)
                              \/ VerifyPurge(n) \/ AbortPurge(n)
           \/ UNCHANGED deletionVars
  <2>1. UNCHANGED <<latest, samples>>
    BY <1>3 DEF PrepareDeletion, CheckPurge, VerifyPurge, AbortPurge, vars, tableVars, deletionVars
  <2> QED
    BY <2>1 DEF LatestIsNewest, SamplesOf
<1> QED
  BY <1>1, <1>2, <1>3 DEF DeletionNext

\* Purging nodes under concurrent reports never leaves a card that is not the
\* newest report of the history, nor history without a card.
THEOREM CardStaysNewest == DeletionSpec => []LatestIsNewest
<1>1. DeletionInit => TypeOK /\ LatestIsNewest
  BY TypeInit DEF DeletionInit, Init, LatestIsNewest, SamplesOf
<1>2. TypeOK /\ LatestIsNewest /\ [DeletionNext]_deletionVars => (TypeOK /\ LatestIsNewest)'
  BY DeletionTypeStep, DeletionNewestStep
<1> QED
  BY <1>1, <1>2, PTL DEF DeletionSpec

-----------------------------------------------------------------------------
(***************************************************************************)
(* The lock.                                                               *)
(***************************************************************************)

\* A node with its lock set is hidden, whatever its other columns say.
LEMMA RetiredIsHidden ==
  ASSUME NEW n \in Nodes, catalog[n].retired
  PROVE  Hidden(n)
BY NoneAssumption DEF Hidden, Shown, ProbeShown, Linked

\* Only its purge takes the lock from a node.
LEMMA LockStays ==
  ASSUME TypeOK, [DeletionNext]_deletionVars, NEW n \in Nodes, catalog[n].retired, ~ Erase(n)
  PROVE  catalog'[n].retired
<1>1. ASSUME NEW h \in Handlers, Commit(h) PROVE catalog'[n].retired
  <2> DEFINE r == Visible(job[h].request.report, job[h].keys)
  <2>1. catalog' = [catalog EXCEPT ![r.node] = Catalogued(catalog[r.node], r)]
    BY <1>1 DEF Commit
  <2> HIDE DEF r
  <2> QED
    BY <2>1 DEF TypeOK, Catalogued
<1>2. CASE ReportStep /\ ~ \E h \in Handlers : Commit(h)
  BY <1>2, OnlyCommitWrites DEF ReportStep, tableVars
<1>3. ASSUME NEW m \in Nodes, PrepareDeletion(m) PROVE catalog'[n].retired
  BY <1>3 DEF PrepareDeletion
<1>4. ASSUME NEW m \in Nodes, m # n, Erase(m) PROVE catalog'[n].retired
  <2>1. catalog'[n] = [catalog[n] EXCEPT !.probes =
              [p \in Probes |-> IF Linked(n, p, m) THEN None ELSE @[p]]]
    BY <1>4 DEF Erase
  <2>2. catalog[n] \in CatalogEntry
    BY DEF TypeOK
  <2> QED
    BY <2>1, <2>2 DEF CatalogEntry
<1>5. CASE \/ \E m \in Nodes : CheckPurge(m) \/ VerifyPurge(m) \/ AbortPurge(m)
           \/ UNCHANGED deletionVars
  BY <1>5 DEF CheckPurge, VerifyPurge, AbortPurge, vars, tableVars, deletionVars
<1> QED
  BY <1>1, <1>2, <1>3, <1>4, <1>5 DEF DeletionNext

\* Neither reports in flight nor those of the peers show a locked node, or a probe
\* towards it, before the purge.
THEOREM LockAlwaysHolds == DeletionSpec => LockHolds
<1>1. TypeOK /\ [DeletionNext]_deletionVars =>
        [\A n \in Nodes : catalog[n].retired /\ ~ Erase(n) => Hidden(n)']_deletionVars
  <2> SUFFICES ASSUME TypeOK, [DeletionNext]_deletionVars, NEW n \in Nodes,
                      catalog[n].retired, ~ Erase(n)
               PROVE  Hidden(n)'
    OBVIOUS
  <2>1. catalog'[n].retired
    BY LockStays
  <2> QED
    BY <2>1, NoneAssumption DEF Hidden, Shown, ProbeShown, Linked
<1> QED
  BY <1>1, DeletionTypeCorrect, PTL DEF DeletionSpec, LockHolds

-----------------------------------------------------------------------------
(***************************************************************************)
(* What is erased stays erased.  The inductive part is that an invocation  *)
(* only runs for a node that had a secret among the bindings it captured:  *)
(* with n drained, no invocation can write for n, and none keeps a probe   *)
(* towards it.                                                             *)
(***************************************************************************)

Credentialed ==
  \A h \in Handlers : phase[h] # "idle" => job[h].keys[job[h].request.report.node] # None

\* The deletion handlers do not touch the invocations of the report path.
LEMMA DeletionLeavesHandlers ==
  ASSUME [DeletionNext]_deletionVars, ~ ReportStep
  PROVE  UNCHANGED <<now, env, handlerVars>>
BY DEF DeletionNext, PrepareDeletion, CheckPurge, Erase, VerifyPurge, AbortPurge, vars, deletionVars

\* An invocation that is running was running already, or has just been
\* authenticated against the current bindings.
LEMMA WhereInvocationsComeFrom ==
  ASSUME TypeOK, [Next]_vars, NEW h \in Handlers, phase'[h] # "idle"
  PROVE  (phase[h] # "idle" /\ job'[h] = job[h]) \/
         (\E q \in Requests : job'[h] = [request |-> q, at |-> now, keys |-> env.keys]
                             /\ Authentic(q))
<1> USE DEF handlerVars, TypeOK
<1>1. ASSUME NEW k \in Handlers, NEW q \in Requests, Authenticate(k, q)
      PROVE  (phase[h] # "idle" /\ job'[h] = job[h]) \/
             (job'[h] = [request |-> q, at |-> now, keys |-> env.keys] /\ Authentic(q))
  BY <1>1 DEF Authenticate
<1>2. ASSUME NEW k \in Handlers, ReadPrior(k) PROVE phase[h] # "idle" /\ job'[h] = job[h]
  BY <1>2 DEF ReadPrior
<1>3. ASSUME NEW k \in Handlers, RefuseReplay(k) \/ Commit(k) \/ Fail(k)
      PROVE  phase[h] # "idle" /\ job'[h] = job[h]
  <2>1. Finish(k)
    BY <1>3 DEF RefuseReplay, Commit, Fail
  <2> QED
    BY <2>1 DEF Finish
<1>4. CASE (\E inventory \in Inventories : Publish(inventory)) \/ Tick \/ UNCHANGED vars
  BY <1>4 DEF Publish, Tick, vars
<1> QED
  BY <1>1, <1>2, <1>3, <1>4 DEF Next, Handle

LEMMA CredentialedStep ==
  TypeOK /\ Credentialed /\ [DeletionNext]_deletionVars => Credentialed'
<1> SUFFICES ASSUME TypeOK, Credentialed, [DeletionNext]_deletionVars,
                    NEW h \in Handlers, phase'[h] # "idle"
             PROVE  job'[h].keys[job'[h].request.report.node] # None
  BY DEF Credentialed
<1>1. CASE ReportStep
  <2>1. [Next]_vars
    BY <1>1 DEF ReportStep
  <2>2. (phase[h] # "idle" /\ job'[h] = job[h]) \/
        (\E q \in Requests : job'[h] = [request |-> q, at |-> now, keys |-> env.keys]
                            /\ Authentic(q))
    BY <2>1, WhereInvocationsComeFrom
  <2>3. CASE phase[h] # "idle" /\ job'[h] = job[h]
    BY <2>3 DEF Credentialed
  <2>4. ASSUME NEW q \in Requests, Authentic(q),
               job'[h] = [request |-> q, at |-> now, keys |-> env.keys]
        PROVE  job'[h].keys[job'[h].request.report.node] # None
    <3>1. job'[h].request = q /\ job'[h].keys = env.keys
      BY <2>4
    <3> QED
      BY <3>1, <2>4 DEF Authentic
  <2> QED
    BY <2>2, <2>3, <2>4
<1>2. CASE ~ ReportStep
  BY <1>2, DeletionLeavesHandlers DEF Credentialed, handlerVars
<1> QED
  BY <1>1, <1>2

\* While n has no secret, no invocation that captured one starts.
LEMMA DrainedStays ==
  ASSUME TypeOK, [DeletionNext]_deletionVars, NEW n \in Nodes, Drained(n), env.keys[n] = None
  PROVE  Drained(n)'
<1> SUFFICES ASSUME NEW h \in Handlers, phase'[h] # "idle" PROVE job'[h].keys[n] = None
  BY DEF Drained
<1>1. CASE ReportStep
  <2>1. [Next]_vars
    BY <1>1 DEF ReportStep
  <2>2. (phase[h] # "idle" /\ job'[h] = job[h]) \/
        (\E q \in Requests : job'[h] = [request |-> q, at |-> now, keys |-> env.keys]
                            /\ Authentic(q))
    BY <2>1, WhereInvocationsComeFrom
  <2>3. CASE phase[h] # "idle" /\ job'[h] = job[h]
    BY <2>3 DEF Drained
  <2>4. ASSUME NEW q \in Requests, Authentic(q),
               job'[h] = [request |-> q, at |-> now, keys |-> env.keys]
        PROVE  job'[h].keys[n] = None
    BY <2>4
  <2> QED
    BY <2>2, <2>3, <2>4
<1>2. CASE ~ ReportStep
  BY <1>2, DeletionLeavesHandlers DEF Drained, handlerVars
<1> QED
  BY <1>1, <1>2

\* The batch of invocation h carries nothing of a node without a secret.
LEMMA CommitAvoids ==
  ASSUME TypeOK, Credentialed, NEW h \in Handlers, Commit(h),
         NEW n \in Nodes, Drained(n)
  PROVE  LET r == Visible(job[h].request.report, job[h].keys)
         IN  /\ r \in Report /\ r.node \in Nodes /\ r.node # n
             /\ \A p \in Probes : r.probes[p] # None => r.probes[p].target # n
<1>1. phase[h] # "idle"
  BY DEF Commit
<1>2. job[h].keys[n] = None /\ job[h].keys[job[h].request.report.node] # None
  BY <1>1 DEF Drained, Credentialed
<1> DEFINE r == Visible(job[h].request.report, job[h].keys)
<1>3. r \in Report /\ r.node \in Nodes /\ r.node = job[h].request.report.node
  BY <1>1, CommitTypes
<1>4. r.node # n
  BY <1>2, <1>3
<1>5. job[h].request.report \in Report
  BY <1>1, RequestsAssumption DEF TypeOK, Job, Request
<1>6. r.probes = [p \in Probes |->
         IF job[h].request.report.probes[p] = None THEN None
         ELSE IF job[h].request.report.probes[p].target = None THEN job[h].request.report.probes[p]
         ELSE IF job[h].keys[job[h].request.report.probes[p].target] = None THEN None
         ELSE job[h].request.report.probes[p]]
  BY <1>5 DEF Visible, Report
<1>7. ASSUME NEW p \in Probes, r.probes[p] # None PROVE r.probes[p].target # n
  BY <1>2, <1>6, <1>7, NoneAssumption
<1> QED
  BY <1>3, <1>4, <1>7

\* A batch that carries nothing of an erased node leaves it erased.
LEMMA ErasedThroughCommit ==
  ASSUME TypeOK, Credentialed, NEW h \in Handlers, Commit(h),
         NEW n \in Nodes, Drained(n), Erased(n)
  PROVE  Erased(n)'
<1> DEFINE r == Visible(job[h].request.report, job[h].keys)
           rate == NetworkRate(r, prior[h])
           row == [received |-> job[h].at, source |-> job[h].request.source,
                   report |-> r, rate |-> rate]
<1>1. /\ r \in Report /\ r.node \in Nodes /\ r.node # n
      /\ \A p \in Probes : r.probes[p] # None => r.probes[p].target # n
  BY CommitAvoids
<1>2. /\ catalog' = [catalog EXCEPT ![r.node] = Catalogued(catalog[r.node], r)]
      /\ latest' = latest \/ latest' = [latest EXCEPT ![r.node] = row]
      /\ samples' = AddSample(r, rate)
      /\ rounds' = AddRound(r, prior[h])
      /\ events' = events \cup NewEvents(r, job[h].request.source, prior[h])
  BY DEF Commit
<1>3. row.report = r
  OBVIOUS
<1> HIDE DEF r, rate, row
<1>4. latest'[n] = latest[n] /\ catalog'[n] = catalog[n]
  BY <1>1, <1>2 DEF TypeOK
<1>5. \A t \in samples' \cup rounds' \cup events' :
        t \in samples \cup rounds \cup events \/ t.node = r.node
  <2>1. \A t \in samples' : t \in samples \/ t.node = r.node
    BY <1>2, AddSampleIs
  <2>2. \A t \in rounds' : t \in rounds \/ t.node = r.node
    BY <1>2 DEF AddRound
  <2>3. \A t \in NewEvents(r, job[h].request.source, prior[h]) : t.node = r.node
    BY DEF NewEvents, Changes
  <2> QED
    BY <1>2, <2>1, <2>2, <2>3
<1>6. ASSUME NEW m \in Nodes, m # n, NEW p \in Probes PROVE ~ Linked(m, p, n)'
  <2>1. ~ Linked(m, p, n)
    BY <1>6 DEF Erased, Remains
  <2>2. CASE m # r.node
    BY <1>1, <1>2, <2>1, <2>2 DEF TypeOK, Linked
  <2>3. CASE m = r.node
    <3>1. catalog'[m] = Catalogued(catalog[m], r)
      BY <1>1, <1>2, <2>3 DEF TypeOK
    <3>2. catalog'[m].probes[p] =
            IF r.probes[p] # None THEN [target |-> r.probes[p].target, enabled |-> TRUE]
            ELSE IF catalog[m].probes[p] = None THEN None
            ELSE [catalog[m].probes[p] EXCEPT !.enabled = FALSE]
      BY <3>1 DEF Catalogued
    <3>3. catalog[m].probes[p] \in [target : Nodes \cup {None}, enabled : BOOLEAN] \cup {None}
      BY DEF TypeOK, CatalogEntry
    <3> QED
      BY <1>1, <2>1, <3>2, <3>3 DEF Linked
  <2> QED
    BY <2>2, <2>3
<1>7. ASSUME NEW m \in Nodes, NEW p \in Probes, latest'[m] # None,
             latest'[m].report.probes[p] # None
      PROVE  latest'[m].report.probes[p].target # n
  BY <1>1, <1>2, <1>3, <1>7 DEF TypeOK, Erased
<1> QED
  BY <1>1, <1>4, <1>5, <1>6, <1>7 DEF Erased, Remains

\* Locking any node brings nothing back.
LEMMA ErasedThroughPrepare ==
  ASSUME TypeOK, NEW k \in Nodes, PrepareDeletion(k), NEW n \in Nodes, Erased(n)
  PROVE  Erased(n)'
<1>1. UNCHANGED <<latest, samples, rounds, events>>
  BY DEF PrepareDeletion
<1>2. ASSUME NEW m \in Nodes, NEW p \in Probes
      PROVE  /\ catalog'[m].probes[p] # None => catalog[m].probes[p] # None
             /\ catalog'[m].probes[p] # None =>
                  catalog'[m].probes[p].target = catalog[m].probes[p].target
  <2>1. catalog[m].probes[p] \in [target : Nodes \cup {None}, enabled : BOOLEAN] \cup {None}
    BY DEF TypeOK, CatalogEntry
  <2>2. catalog'[m].probes[p] =
          IF catalog[m].probes[p] # None /\ (m = k \/ Linked(m, p, k))
          THEN [catalog[m].probes[p] EXCEPT !.enabled = FALSE]
          ELSE catalog[m].probes[p]
    BY DEF PrepareDeletion
  <2> QED
    BY <2>1, <2>2
<1>3. catalog'[n].node = "absent"
  BY DEF PrepareDeletion, SwitchedOff, Erased, Remains
<1>4. \A s \in Services : catalog'[n].services[s] = "absent"
  BY DEF PrepareDeletion, SwitchedOff, Erased, Remains
<1>5. \A p \in Probes : catalog'[n].probes[p] = None
  BY <1>2 DEF Erased, Remains
<1>6. \A m \in Nodes \ {n}, p \in Probes : ~ Linked(m, p, n)'
  BY <1>2 DEF Erased, Remains, Linked
<1> QED
  BY <1>1, <1>3, <1>4, <1>5, <1>6 DEF Erased, Remains

\* Purging any node brings nothing back.
LEMMA ErasedThroughErase ==
  ASSUME TypeOK, NEW k \in Nodes, Erase(k), NEW n \in Nodes, Erased(n)
  PROVE  Erased(n)'
<1>1. ASSUME NEW m \in Nodes, latest'[m] # None
      PROVE  latest[m] # None /\ latest'[m] = Unlinked(m, k)
  BY <1>1 DEF Erase
<1>2. latest'[n] = None
  BY <1>1 DEF Erased, Remains
<1>3. ASSUME NEW m \in Nodes, NEW p \in Probes, latest'[m] # None,
             latest'[m].report.probes[p] # None
      PROVE  latest'[m].report.probes[p].target # n
  <2>1. latest[m] # None /\ latest'[m].report.probes[p] = latest[m].report.probes[p]
    BY <1>1, <1>3, UnlinkedType
  <2> QED
    BY <1>3, <2>1 DEF Erased
<1>4. ASSUME NEW t \in samples' \cup rounds' \cup events' PROVE t.node # n
  <2>1. CASE t \in samples' \cup events'
    BY <2>1 DEF Erase, Without, RoundsWithout, Erased, Remains
  <2>2. CASE t \in rounds'
    <3>1. PICK y \in rounds : t = [y EXCEPT !.probes = {p \in @ : ~ Linked(y.node, p, k)}]
      BY <2>2 DEF Erase, Without, RoundsWithout
    <3>2. y \in Round
      BY DEF TypeOK
    <3>3. t.node = y.node
      BY <3>1, <3>2 DEF Round
    <3> QED
      BY <3>3 DEF Erased, Remains
  <2> QED
    BY <2>1, <2>2
<1>5. ASSUME NEW m \in Nodes
      PROVE  /\ catalog'[m].node \in {catalog[m].node, "absent"}
             /\ \A s \in Services : catalog'[m].services[s] \in {catalog[m].services[s], "absent"}
             /\ \A p \in Probes : catalog'[m].probes[p] \in {catalog[m].probes[p], None}
  <2>1. CASE m = k
    BY <2>1 DEF Erase, NoEntry
  <2>2. CASE m # k
    <3>1. catalog'[m] = [catalog[m] EXCEPT !.probes =
              [p \in Probes |-> IF Linked(m, p, k) THEN None ELSE @[p]]]
      BY <2>2 DEF Erase
    <3>2. catalog[m] \in CatalogEntry
      BY DEF TypeOK
    <3> QED
      BY <3>1, <3>2 DEF CatalogEntry
  <2> QED
    BY <2>1, <2>2
<1>6. ASSUME NEW m \in Nodes, m # n, NEW p \in Probes PROVE ~ Linked(m, p, n)'
  <2>1. ~ Linked(m, p, n)
    BY <1>6 DEF Erased, Remains
  <2> QED
    BY <1>5, <2>1 DEF Linked
<1>7. catalog'[n].node = "absent" /\ (\A s \in Services : catalog'[n].services[s] = "absent")
      /\ (\A p \in Probes : catalog'[n].probes[p] = None)
  BY <1>5 DEF Erased, Remains
<1> QED
  BY <1>2, <1>3, <1>4, <1>6, <1>7 DEF Erased, Remains

LEMMA ErasedStaysStep ==
  ASSUME TypeOK, Credentialed, [DeletionNext]_deletionVars,
         NEW n \in Nodes, Erased(n), Drained(n)
  PROVE  Erased(n)'
<1>1. ASSUME NEW h \in Handlers, Commit(h) PROVE Erased(n)'
  BY <1>1, ErasedThroughCommit
<1>2. ASSUME UNCHANGED tableVars PROVE Erased(n)'
  BY <1>2 DEF Erased, Remains, Linked, tableVars
<1>3. CASE ReportStep
  <2>1. [Next]_vars
    BY <1>3 DEF ReportStep
  <2> QED
    BY <1>1, <1>2, <2>1, OnlyCommitWrites
<1>4. CASE \E k \in Nodes : PrepareDeletion(k) \/ Erase(k)
  BY <1>4, ErasedThroughPrepare, ErasedThroughErase
<1>5. CASE \/ \E k \in Nodes : CheckPurge(k) \/ VerifyPurge(k) \/ AbortPurge(k)
           \/ UNCHANGED deletionVars
  <2>1. UNCHANGED tableVars
    BY <1>5 DEF CheckPurge, VerifyPurge, AbortPurge, vars, deletionVars
  <2> QED
    BY <1>2, <2>1
<1> QED
  BY <1>3, <1>4, <1>5 DEF DeletionNext

\* Queued reports of the node and of every peer that probes it cannot recreate a
\* purged node, once the invocations from before the removal of its credentials
\* have ended.
THEOREM ErasedForGood == DeletionSpec => ErasedStaysErased
<1>1. DeletionInit => Credentialed
  BY DEF DeletionInit, Init, Credentialed
<1>2. DeletionSpec => []Credentialed
  BY <1>1, CredentialedStep, DeletionTypeCorrect, PTL DEF DeletionSpec
<1>3. TypeOK /\ Credentialed /\ [DeletionNext]_deletionVars =>
        [\A n \in Nodes :
           Erased(n) /\ Drained(n) /\ env.keys[n] = None /\ env'.keys[n] = None
           => Erased(n)' /\ Drained(n)']_deletionVars
  BY ErasedStaysStep, DrainedStays
<1> QED
  BY <1>2, <1>3, DeletionTypeCorrect, PTL DEF DeletionSpec, ErasedStaysErased

-----------------------------------------------------------------------------
(***************************************************************************)
(* A purge finds the links to the node by the names in the peers'          *)
(* catalogs.  Cards, history and catalog agree on what a name measures     *)
(* only as far as the reports of the node do, hence the hypothesis; the    *)
(* invariant is that all three repeat what a request says.                 *)
(***************************************************************************)

\* Some request has node m measure target t with its probe p.
Says(m, p, t) ==
  \E q \in Requests : /\ q.report.node = m /\ q.report.probes[p] # None
                      /\ q.report.probes[p].target = t

\* No probe name is used for a second target.
OneTarget ==
  \A m \in Nodes, p \in Probes, t, u \in Nodes \cup {None} : Says(m, p, t) /\ Says(m, p, u) => t = u

CatalogSaid ==
  \A m \in Nodes, p \in Probes :
    catalog[m].probes[p] # None => Says(m, p, catalog[m].probes[p].target)

CardsSaid ==
  \A m \in Nodes, p \in Probes :
    latest[m] # None /\ latest[m].report.probes[p] # None =>
      Says(m, p, latest[m].report.probes[p].target)

MeasuredSaid ==
  \A o \in measured : /\ o.node \in Nodes /\ o.probe \in Probes
                      /\ o.target \in Nodes \cup {None}
                      /\ Says(o.node, o.probe, o.target)

SaidInv == CatalogSaid /\ CardsSaid /\ MeasuredSaid

\* What a request says is in the range of targets.
LEMMA SaidTarget ==
  ASSUME NEW m, NEW p \in Probes, NEW t, Says(m, p, t)
  PROVE  t \in Nodes \cup {None}
<1>1. PICK q \in Requests : q.report.probes[p] # None /\ q.report.probes[p].target = t
  BY DEF Says
<1>2. q.report \in Report
  BY RequestsAssumption DEF Request
<1> QED
  BY <1>1, <1>2 DEF Report, Probe

\* A batch stores only what its request says.
LEMMA VisibleIsSaid ==
  ASSUME TypeOK, NEW h \in Handlers, phase[h] # "idle", NEW p \in Probes,
         Visible(job[h].request.report, job[h].keys).probes[p] # None
  PROVE  Says(Visible(job[h].request.report, job[h].keys).node, p,
              Visible(job[h].request.report, job[h].keys).probes[p].target)
<1> DEFINE q == job[h].request
           r == Visible(q.report, job[h].keys)
<1>1. q \in Requests /\ q.report \in Report
  BY RequestsAssumption DEF TypeOK, Job, Request
<1>2. r.node = q.report.node
  BY <1>1, VisibleType
<1>3. r.probes[p] = q.report.probes[p]
  BY <1>1 DEF Visible, Report
<1> QED
  BY <1>1, <1>2, <1>3 DEF Says

LEMMA SaidThroughCommit ==
  ASSUME TypeOK, SaidInv, NEW h \in Handlers, Commit(h), ReportStep
  PROVE  SaidInv'
<1> DEFINE r == Visible(job[h].request.report, job[h].keys)
           rate == NetworkRate(r, prior[h])
           row == [received |-> job[h].at, source |-> job[h].request.source,
                   report |-> r, rate |-> rate]
<1>1. r \in Report /\ r.node \in Nodes
  BY CommitTypes DEF Commit
<1>2. \A p \in Probes : r.probes[p] # None => Says(r.node, p, r.probes[p].target)
  BY VisibleIsSaid DEF Commit
<1>3. /\ catalog' = [catalog EXCEPT ![r.node] = Catalogued(catalog[r.node], r)]
      /\ latest' = latest \/ latest' = [latest EXCEPT ![r.node] = row]
      /\ rounds' = AddRound(r, prior[h])
  BY DEF Commit
<1>4. row.report = r
  OBVIOUS
<1> HIDE DEF r, rate, row
<1>5. \A p \in Probes : catalog'[r.node].probes[p] =
        IF r.probes[p] # None THEN [target |-> r.probes[p].target, enabled |-> TRUE]
        ELSE IF catalog[r.node].probes[p] = None THEN None
        ELSE [catalog[r.node].probes[p] EXCEPT !.enabled = FALSE]
  BY <1>1, <1>3 DEF TypeOK, Catalogued
<1>6. ASSUME NEW p \in Probes, r.probes[p] # None
      PROVE  catalog'[r.node].probes[p].target = r.probes[p].target
  <2>1. catalog'[r.node].probes[p] = [target |-> r.probes[p].target, enabled |-> TRUE]
    BY <1>5, <1>6
  <2> QED
    BY <2>1
<1>7. CatalogSaid'
  <2> SUFFICES ASSUME NEW m \in Nodes, NEW p \in Probes, catalog'[m].probes[p] # None
               PROVE  Says(m, p, catalog'[m].probes[p].target)
    BY DEF CatalogSaid, Says
  <2>1. CASE m # r.node
    BY <1>1, <1>3, <2>1 DEF TypeOK, SaidInv, CatalogSaid
  <2>2. CASE m = r.node /\ r.probes[p] # None
    BY <1>2, <1>6, <2>2
  <2>3. CASE m = r.node /\ r.probes[p] = None
    <3>1. catalog[m].probes[p] # None
      BY <1>5, <2>3
    <3>2. catalog[m].probes[p] \in [target : Nodes \cup {None}, enabled : BOOLEAN]
      BY <3>1 DEF TypeOK, CatalogEntry
    <3>3. catalog'[m].probes[p].target = catalog[m].probes[p].target
      BY <1>5, <2>3, <3>1, <3>2
    <3> QED
      BY <3>1, <3>3 DEF SaidInv, CatalogSaid
  <2> QED
    BY <2>1, <2>2, <2>3
<1>8. CardsSaid'
  <2> SUFFICES ASSUME NEW m \in Nodes, NEW p \in Probes,
                      latest'[m] # None, latest'[m].report.probes[p] # None
               PROVE  Says(m, p, latest'[m].report.probes[p].target)
    BY DEF CardsSaid, Says
  <2>1. CASE latest'[m] = latest[m]
    BY <2>1 DEF SaidInv, CardsSaid
  <2>2. CASE m = r.node /\ latest'[m] = row
    BY <1>2, <1>4, <2>2
  <2> QED
    BY <1>1, <1>3, <2>1, <2>2 DEF TypeOK
<1>9. ASSUME NEW x \in rounds' \ rounds PROVE x.node = r.node /\ x.probes = Reported(r)
  BY <1>3 DEF AddRound
<1>10. MeasuredSaid'
  <2> SUFFICES ASSUME NEW o \in measured'
               PROVE  /\ o.node \in Nodes /\ o.probe \in Probes
                      /\ o.target \in Nodes \cup {None}
                      /\ Says(o.node, o.probe, o.target)
    BY DEF MeasuredSaid, Says
  <2>1. CASE o \in measured
    BY <2>1 DEF SaidInv, MeasuredSaid
  <2>2. CASE o \notin measured
    <3>1. PICK x \in rounds' \ rounds : \E p \in x.probes :
            o = [node |-> x.node, at |-> x.at, probe |-> p,
                 target |-> catalog'[x.node].probes[p].target]
      BY <2>2 DEF ReportStep
    <3>2. PICK p \in x.probes :
            o = [node |-> x.node, at |-> x.at, probe |-> p,
                 target |-> catalog'[x.node].probes[p].target]
      BY <3>1
    <3>3. x.node = r.node /\ p \in Probes /\ r.probes[p] # None
      BY <1>9, <3>2 DEF Reported
    <3>4. catalog'[x.node].probes[p].target = r.probes[p].target
      BY <1>6, <3>3
    <3>5. o.node = r.node /\ o.probe = p /\ o.target = r.probes[p].target
      BY <3>2, <3>3, <3>4
    <3> QED
      BY <1>1, <1>2, <3>3, <3>5, SaidTarget
  <2> QED
    BY <2>1, <2>2
<1> QED
  BY <1>7, <1>8, <1>10 DEF SaidInv

\* What a lock or a purge leaves was there before.
LEMMA SaidThroughAdmin ==
  ASSUME TypeOK, SaidInv, NEW n \in Nodes, PrepareDeletion(n) \/ Erase(n)
  PROVE  SaidInv'
<1>1. ASSUME NEW m \in Nodes, NEW p \in Probes, catalog'[m].probes[p] # None
      PROVE  catalog[m].probes[p] # None
             /\ catalog'[m].probes[p].target = catalog[m].probes[p].target
  <2>1. catalog[m] \in CatalogEntry
        /\ catalog[m].probes[p] \in [target : Nodes \cup {None}, enabled : BOOLEAN] \cup {None}
    BY DEF TypeOK, CatalogEntry
  <2>2. CASE PrepareDeletion(n)
    <3>1. catalog'[m].probes[p] =
            IF catalog[m].probes[p] # None /\ (m = n \/ Linked(m, p, n))
            THEN [catalog[m].probes[p] EXCEPT !.enabled = FALSE]
            ELSE catalog[m].probes[p]
      BY <2>2 DEF PrepareDeletion
    <3> QED
      BY <1>1, <2>1, <3>1
  <2>3. CASE Erase(n)
    <3>1. m # n
      BY <1>1, <2>3 DEF Erase, NoEntry
    <3>2. catalog'[m].probes[p] = IF Linked(m, p, n) THEN None ELSE catalog[m].probes[p]
      BY <2>1, <2>3, <3>1 DEF Erase, CatalogEntry
    <3> QED
      BY <1>1, <3>2
  <2> QED
    BY <2>2, <2>3
<1>2. ASSUME NEW m \in Nodes, NEW p \in Probes,
             latest'[m] # None, latest'[m].report.probes[p] # None
      PROVE  latest[m] # None /\ latest'[m].report.probes[p] = latest[m].report.probes[p]
  <2>1. CASE PrepareDeletion(n)
    BY <1>2, <2>1 DEF PrepareDeletion
  <2>2. CASE Erase(n)
    <3>1. latest[m] # None /\ latest'[m] = Unlinked(m, n)
      BY <1>2, <2>2 DEF Erase
    <3> QED
      BY <1>2, <3>1, UnlinkedType
  <2> QED
    BY <2>1, <2>2
<1>3. measured' \subseteq measured
  BY DEF PrepareDeletion, Erase, Without
<1>4. CatalogSaid'
  BY <1>1 DEF SaidInv, CatalogSaid, Says
<1>5. CardsSaid'
  BY <1>2 DEF SaidInv, CardsSaid, Says
<1>6. MeasuredSaid'
  BY <1>3 DEF SaidInv, MeasuredSaid, Says
<1> QED
  BY <1>4, <1>5, <1>6 DEF SaidInv

LEMMA SaidStep == TypeOK /\ SaidInv /\ [DeletionNext]_deletionVars => SaidInv'
<1> SUFFICES ASSUME TypeOK, SaidInv, [DeletionNext]_deletionVars PROVE SaidInv'
  OBVIOUS
<1>1. ASSUME NEW h \in Handlers, Commit(h), ReportStep PROVE SaidInv'
  BY <1>1, SaidThroughCommit
<1>2. ASSUME UNCHANGED <<catalog, latest, measured>> PROVE SaidInv'
  BY <1>2 DEF SaidInv, CatalogSaid, CardsSaid, MeasuredSaid, Says
<1>3. CASE ReportStep
  <2>1. CASE \E h \in Handlers : Commit(h)
    BY <1>1, <1>3, <2>1
  <2>2. CASE ~ \E h \in Handlers : Commit(h)
    <3>1. UNCHANGED tableVars
      BY <1>3, <2>2, OnlyCommitWrites DEF ReportStep
    <3>2. UNCHANGED measured
      BY <1>3, <3>1 DEF ReportStep, tableVars
    <3> QED
      BY <1>2, <3>1, <3>2 DEF tableVars
  <2> QED
    BY <2>1, <2>2
<1>4. CASE \E n \in Nodes : PrepareDeletion(n) \/ Erase(n)
  BY <1>4, SaidThroughAdmin
<1>5. CASE \/ \E n \in Nodes : CheckPurge(n) \/ VerifyPurge(n) \/ AbortPurge(n)
           \/ UNCHANGED deletionVars
  <2>1. UNCHANGED <<catalog, latest, measured>>
    BY <1>5 DEF CheckPurge, VerifyPurge, AbortPurge, vars, tableVars, deletionVars
  <2> QED
    BY <1>2, <2>1
<1> QED
  BY <1>3, <1>4, <1>5 DEF DeletionNext

\* A link found by name measures nothing but the node that is purged.
LEMMA LinkedOnlyToPurged ==
  ASSUME SaidInv, OneTarget, NEW n, NEW m \in Nodes, NEW p \in Probes, NEW t,
         Says(m, p, t), t # n
  PROVE  ~ Linked(m, p, n)
<1> SUFFICES ASSUME Linked(m, p, n) PROVE FALSE
  OBVIOUS
<1>1. Says(m, p, n)
  BY DEF Linked, SaidInv, CatalogSaid
<1> QED
  BY <1>1, SaidTarget DEF OneTarget

\* Where no probe name is used for a second target, a purge takes from the peers,
\* their cards and their history what measured the purged node and nothing else.
THEOREM PurgeKeepsTheRest == DeletionSpec /\ OneTarget => PeersKeepTheRest
<1>1. DeletionInit => SaidInv
  BY DEF DeletionInit, Init, SaidInv, CatalogSaid, CardsSaid, MeasuredSaid
<1>2. DeletionSpec => []SaidInv
  BY <1>1, SaidStep, DeletionTypeCorrect, PTL DEF DeletionSpec
<1>3. ASSUME TypeOK, SaidInv, OneTarget, NEW n \in Nodes, Erase(n)
      PROVE  \A o \in measured : o.node # n /\ o.target # n /\ Held(o) => Held(o)'
  <2> SUFFICES ASSUME NEW o \in measured, o.node # n, o.target # n, Held(o)
               PROVE  \E y \in rounds' : y.node = o.node /\ y.at = o.at /\ o.probe \in y.probes
    BY DEF Held
  <2>1. PICK x \in rounds : x.node = o.node /\ x.at = o.at /\ o.probe \in x.probes
    BY DEF Held
  <2>2. x \in Round
    BY <1>3 DEF TypeOK
  <2> DEFINE y == [x EXCEPT !.probes = {p \in @ : ~ Linked(x.node, p, n)}]
  <2>3. ~ Linked(x.node, o.probe, n)
    <3>1. /\ o.node \in Nodes /\ o.probe \in Probes
          /\ Says(o.node, o.probe, o.target)
      BY <1>3 DEF SaidInv, MeasuredSaid
    <3> QED
      BY <1>3, <2>1, <3>1, LinkedOnlyToPurged
  <2>4. y \in rounds'
    BY <1>3, <2>1 DEF Erase, Without, RoundsWithout
  <2>5. y.node = x.node /\ y.at = x.at /\ o.probe \in y.probes
    BY <2>1, <2>2, <2>3 DEF Round
  <2> QED
    BY <2>1, <2>4, <2>5
<1>4. ASSUME TypeOK, SaidInv, OneTarget, NEW n \in Nodes, Erase(n),
             NEW m \in Nodes \ {n}, latest[m] # None
      PROVE  /\ latest'[m] # None
             /\ \A p \in Probes :
                  latest[m].report.probes[p] # None /\ latest[m].report.probes[p].target # n =>
                    latest'[m].report.probes[p] = latest[m].report.probes[p]
  <2>1. latest'[m] # None
    BY <1>4, EraseTypes
  <2>2. latest'[m] = Unlinked(m, n)
    BY <1>4 DEF Erase
  <2>3. ASSUME NEW p \in Probes, latest[m].report.probes[p] # None,
               latest[m].report.probes[p].target # n
        PROVE  latest'[m].report.probes[p] = latest[m].report.probes[p]
    <3>1. Says(m, p, latest[m].report.probes[p].target)
      BY <1>4, <2>3 DEF SaidInv, CardsSaid
    <3>2. ~ Linked(m, p, n)
      BY <1>4, <2>3, <3>1, LinkedOnlyToPurged
    <3> QED
      BY <1>4, <2>2, <2>3, <3>2, UnlinkedType
  <2> QED
    BY <2>1, <2>3
<1>5. TypeOK /\ SaidInv /\ OneTarget /\ [DeletionNext]_deletionVars =>
        [\A n \in Nodes : Erase(n) =>
           /\ \A o \in measured : o.node # n /\ o.target # n /\ Held(o) => Held(o)'
           /\ \A m \in Nodes \ {n} : latest[m] # None =>
                /\ latest'[m] # None
                /\ \A p \in Probes :
                     LET probe == latest[m].report.probes[p]
                     IN  probe # None /\ probe.target # n =>
                           latest'[m].report.probes[p] = probe]_deletionVars
  BY <1>3, <1>4
<1>6. OneTarget => []OneTarget
  <2>1. OneTarget => OneTarget'
    BY DEF OneTarget, Says
  <2> QED
    BY <2>1, PTL
<1> QED
  BY <1>2, <1>5, <1>6, DeletionTypeCorrect, PTL DEF DeletionSpec, PeersKeepTheRest
-----------------------------------------------------------------------------
(***************************************************************************)
(* The rounds of the peers.  An invocation skips the insertion of a round  *)
(* because the row it read had one as new.  A purge of another node keeps  *)
(* that round, if with fewer probes, and makes the card's round no newer,  *)
(* so the row read still has its round when the batch commits.  Of a node  *)
(* that was purged itself this is false.                                   *)
(***************************************************************************)

RoundBacked(old) ==
  RoundAt(old) # 0 => \E x \in RoundsOf(old.node) : x.at >= RoundAt(old)

\* The row an invocation read has its round in the history, unless it was purged.
PriorRounds ==
  \A h \in Handlers : phase[h] = "decided" /\ prior[h] # None =>
    /\ prior[h].report.node = job[h].request.report.node
    /\ prior[h].report.node \notin purged => RoundBacked(prior[h].report)

PeerInv == RoundsOfPeersStay /\ PriorRounds

\* A batch leaves the card of its node with its round in the history.
LEMMA CommitRecords ==
  ASSUME TypeOK, PeerInv, NEW h \in Handlers, Commit(h), purged' = purged,
         NEW n \in Nodes \ purged
  PROVE  RoundRecorded(n)'
<1>1. rounds \subseteq rounds' /\ RoundRecorded(n)
  <2>1. [Next]_vars
    BY DEF Next, Handle
  <2> QED
    BY <2>1, HistoryGrows DEF PeerInv, RoundsOfPeersStay
<1>2. PICK r \in Report, row \in Row :
        /\ r.node \in Nodes
        /\ r.node = job[h].request.report.node
        /\ row.report = r
        /\ rounds' = AddRound(r, prior[h])
        /\ IF Supersedes(r, latest[r.node])
           THEN latest' = [latest EXCEPT ![r.node] = row]
           ELSE latest' = latest
  BY CommitWrites
<1>3. CASE latest'[n] = latest[n]
  BY <1>1, <1>3 DEF RoundRecorded, RoundsOf
<1>4. CASE latest'[n] # latest[n]
  <2>1. n = r.node /\ latest'[n].report = r
    BY <1>2, <1>4 DEF TypeOK
  <2>2. RoundAt(r) \in Nat /\ \A x \in rounds : x.at \in Nat
    BY RoundAtType, BoundsAssumption DEF TypeOK, Round
  <2> SUFFICES ASSUME RoundAt(r) # 0
               PROVE  \E x \in rounds' : x.node = n /\ x.at >= RoundAt(r)
    BY <2>1 DEF RoundRecorded, RoundsOf
  <2>3. CASE \E x \in rounds : x.node = r.node /\ x.at = RoundAt(r)
    BY <1>1, <2>1, <2>2, <2>3
  <2>4. CASE prior[h] # None /\ RoundAt(r) <= RoundAt(prior[h].report)
    <3>1. prior[h] \in Row /\ prior[h].report.node = n /\ RoundBacked(prior[h].report)
      BY <1>2, <2>1, <2>4 DEF PeerInv, PriorRounds, TypeOK, Commit
    <3>2. RoundAt(prior[h].report) \in Nat
      BY <3>1, RoundAtType, BoundsAssumption DEF Row
    <3>3. PICK x \in rounds : x.node = n /\ x.at >= RoundAt(prior[h].report)
      BY <2>2, <2>4, <3>1, <3>2 DEF RoundBacked, RoundsOf
    <3> QED
      BY <1>1, <2>2, <2>4, <3>2, <3>3
  <2>5. CASE /\ ~ \E x \in rounds : x.node = r.node /\ x.at = RoundAt(r)
             /\ ~ (prior[h] # None /\ RoundAt(r) <= RoundAt(prior[h].report))
    <3> DEFINE new == [node |-> r.node, at |-> RoundAt(r), probes |-> Reported(r)]
    <3>1. new.node = n /\ new.at = RoundAt(r)
      BY <2>1
    <3>2. new \in rounds'
      BY <1>2, <2>2, <2>5 DEF AddRound
    <3> HIDE DEF new
    <3> QED
      BY <2>2, <3>1, <3>2
  <2> QED
    BY <2>3, <2>4, <2>5
<1> QED
  BY <1>3, <1>4

\* The row an invocation decides from is backed unless its node was purged.
LEMMA PriorRoundsStep ==
  ASSUME TypeOK, PeerInv, [Next]_vars, purged' = purged
  PROVE  PriorRounds'
<1> SUFFICES ASSUME NEW h \in Handlers, phase'[h] = "decided", prior'[h] # None
             PROVE  (/\ prior[h].report.node = job[h].request.report.node
                     /\ prior[h].report.node \notin purged => RoundBacked(prior[h].report))'
  BY DEF PriorRounds
<1> USE DEF tableVars, handlerVars
<1>1. rounds \subseteq rounds'
  BY HistoryGrows
<1>2. CASE phase[h] = "decided" /\ prior'[h] = prior[h] /\ job'[h] = job[h]
  <2>1. /\ prior[h].report.node = job[h].request.report.node
        /\ prior[h].report.node \notin purged => RoundBacked(prior[h].report)
    BY <1>2 DEF PeerInv, PriorRounds
  <2> QED
    BY <1>1, <1>2, <2>1 DEF RoundBacked, RoundsOf
<1>3. CASE ReadPrior(h)
  <2> DEFINE n == job[h].request.report.node
  <2>1. n \in Nodes
    BY <1>3, RequestsAssumption DEF ReadPrior, TypeOK, Job, Request, Report
  <2>2. prior'[h] = latest[n] /\ job'[h] = job[h]
    BY <1>3 DEF ReadPrior, TypeOK
  <2>3. latest[n].report.node = n
    BY <2>1, <2>2 DEF TypeOK
  <2>4. n \notin purged => RoundBacked(latest[n].report)
    BY <2>1, <2>2, <2>3 DEF PeerInv, RoundsOfPeersStay, RoundRecorded, RoundBacked
  <2> QED
    BY <1>1, <2>2, <2>3, <2>4 DEF RoundBacked, RoundsOf
<1>4. ASSUME NEW k \in Handlers, NEW q \in Requests, Authenticate(k, q)
      PROVE  phase[h] = "decided" /\ prior'[h] = prior[h] /\ job'[h] = job[h]
  BY <1>4 DEF Authenticate, TypeOK
<1>5. ASSUME NEW k \in Handlers, k # h, Handle(k)
      PROVE  phase[h] = "decided" /\ prior'[h] = prior[h] /\ job'[h] = job[h]
  BY <1>5 DEF Handle, ReadPrior, RefuseReplay, Commit, Fail, Finish, TypeOK
<1>6. ~ RefuseReplay(h) /\ ~ Commit(h) /\ ~ Fail(h)
  BY DEF RefuseReplay, Commit, Fail, Finish, TypeOK
<1>7. CASE (\E inventory \in Inventories : Publish(inventory)) \/ Tick \/ UNCHANGED vars
  <2>1. phase[h] = "decided" /\ prior'[h] = prior[h] /\ job'[h] = job[h]
    BY <1>7 DEF Publish, Tick, vars
  <2> QED
    BY <1>2, <2>1
<1> QED
  BY <1>2, <1>3, <1>4, <1>5, <1>6, <1>7 DEF Next, Handle

\* A purge of k keeps a round of every other node at every time there was one.
LEMMA EraseKeepsTimes ==
  ASSUME TypeOK, NEW k \in Nodes, Erase(k), NEW x \in rounds, x.node # k
  PROVE  \E y \in rounds' : y.node = x.node /\ y.at = x.at
<1> DEFINE y == [x EXCEPT !.probes = {p \in @ : ~ Linked(x.node, p, k)}]
<1>1. y.node = x.node /\ y.at = x.at
  BY DEF TypeOK, Round
<1>2. y \in rounds'
  BY DEF Erase, RoundsWithout, Without
<1> HIDE DEF y
<1> QED
  BY <1>1, <1>2

\* It makes the round on the card of another node no newer.
LEMMA EraseAgesCards ==
  ASSUME TypeOK, NEW k \in Nodes, Erase(k), NEW n \in Nodes, latest'[n] # None
  PROVE  /\ latest[n] # None
         /\ RoundAt(latest'[n].report) \in Nat /\ RoundAt(latest[n].report) \in Nat
         /\ RoundAt(latest'[n].report) <= RoundAt(latest[n].report)
<1>1. latest'[n] \in Row /\ latest[n] \in Row /\ latest[n] # None /\ n # k
  BY EraseTypes DEF TypeOK
<1>2. latest'[n] = Unlinked(n, k)
  BY <1>1 DEF Erase
<1> DEFINE new == latest'[n].report
           old == latest[n].report
<1>3. new \in Report /\ old \in Report
  BY <1>1 DEF Row
<1>4. \A p \in Reported(new) : p \in Reported(old) /\ new.probes[p] = old.probes[p]
  BY <1>1, <1>2, UnlinkedType DEF Reported
<1> HIDE DEF new, old
<1>5. RoundAt(new) \in Nat /\ RoundAt(old) \in Nat
  BY <1>3, RoundAtType, BoundsAssumption
<1>6. RoundAt(new) <= RoundAt(old)
  <2>1. CASE RoundAt(new) = 0
    BY <1>5, <2>1
  <2>2. CASE RoundAt(new) # 0
    <3>1. PICK p \in Reported(new) : RoundAt(new) = new.probes[p].at
      BY <1>3, <2>2, RoundAtType
    <3>2. old.probes[p].at <= RoundAt(old)
      BY <1>3, <1>4, RoundAtType
    <3> QED
      BY <1>4, <3>1, <3>2
  <2> QED
    BY <2>1, <2>2
<1> QED
  BY <1>1, <1>5, <1>6 DEF new, old

LEMMA PeerInvThroughErase ==
  ASSUME TypeOK, PeerInv, NEW k \in Nodes, Erase(k)
  PROVE  PeerInv'
<1>1. purged' = purged \cup {k} /\ UNCHANGED handlerVars
  BY DEF Erase
<1>2. \A x \in rounds : x.at \in Nat
  BY BoundsAssumption DEF TypeOK, Round
<1>3. ASSUME NEW n \in Nodes \ purged' PROVE RoundRecorded(n)'
  <2> SUFFICES ASSUME latest'[n] # None, RoundAt(latest'[n].report) # 0
               PROVE  \E y \in rounds' : y.node = n /\ y.at >= RoundAt(latest'[n].report)
    BY DEF RoundRecorded, RoundsOf
  <2>1. /\ latest[n] # None
        /\ RoundAt(latest'[n].report) \in Nat /\ RoundAt(latest[n].report) \in Nat
        /\ RoundAt(latest'[n].report) <= RoundAt(latest[n].report)
    BY EraseAgesCards
  <2>2. PICK x \in rounds : x.node = n /\ x.at >= RoundAt(latest[n].report)
    BY <1>1, <2>1 DEF PeerInv, RoundsOfPeersStay, RoundRecorded, RoundsOf
  <2>3. PICK y \in rounds' : y.node = x.node /\ y.at = x.at
    BY <1>1, <2>2, EraseKeepsTimes
  <2> QED
    BY <1>2, <2>1, <2>2, <2>3
<1>4. ASSUME NEW h \in Handlers, phase'[h] = "decided", prior'[h] # None
      PROVE  (/\ prior[h].report.node = job[h].request.report.node
              /\ prior[h].report.node \notin purged => RoundBacked(prior[h].report))'
  <2>1. prior'[h] = prior[h] /\ job'[h] = job[h] /\ phase'[h] = phase[h]
    BY <1>1 DEF handlerVars
  <2>2. /\ prior[h].report.node = job[h].request.report.node
        /\ prior[h].report.node \notin purged => RoundBacked(prior[h].report)
    BY <1>4, <2>1 DEF PeerInv, PriorRounds
  <2> DEFINE old == prior[h].report
  <2>3. ASSUME old.node \notin purged', RoundAt(old) # 0
        PROVE  \E y \in rounds' : y.node = old.node /\ y.at >= RoundAt(old)
    <3>1. PICK x \in rounds : x.node = old.node /\ x.at >= RoundAt(old)
      BY <1>1, <2>2, <2>3 DEF RoundBacked, RoundsOf
    <3>2. PICK y \in rounds' : y.node = x.node /\ y.at = x.at
      BY <1>1, <2>3, <3>1, EraseKeepsTimes
    <3> QED
      BY <3>1, <3>2
  <2> QED
    BY <2>1, <2>2, <2>3 DEF RoundBacked, RoundsOf
<1> QED
  BY <1>3, <1>4 DEF PeerInv, RoundsOfPeersStay, PriorRounds

LEMMA PeerStep == TypeOK /\ PeerInv /\ [DeletionNext]_deletionVars => PeerInv'
<1> SUFFICES ASSUME TypeOK, PeerInv, [DeletionNext]_deletionVars PROVE PeerInv'
  OBVIOUS
<1>1. CASE UNCHANGED <<rounds, latest, purged, handlerVars>>
  BY <1>1 DEF PeerInv, RoundsOfPeersStay, RoundRecorded, RoundsOf, PriorRounds, RoundBacked,
              handlerVars
<1>2. CASE ReportStep
  <2>1. [Next]_vars /\ purged' = purged
    BY <1>2 DEF ReportStep
  <2>2. PriorRounds'
    BY <2>1, PriorRoundsStep
  <2>3. ASSUME NEW n \in Nodes \ purged PROVE RoundRecorded(n)'
    <3>1. CASE \E h \in Handlers : Commit(h)
      BY <2>1, <3>1, CommitRecords
    <3>2. CASE ~ \E h \in Handlers : Commit(h)
      <4>1. UNCHANGED <<latest, rounds>>
        BY <2>1, <3>2, OnlyCommitWrites DEF tableVars
      <4> QED
        BY <4>1 DEF PeerInv, RoundsOfPeersStay, RoundRecorded, RoundsOf
    <3> QED
      BY <3>1, <3>2
  <2> QED
    BY <2>1, <2>2, <2>3 DEF PeerInv, RoundsOfPeersStay
<1>3. ASSUME NEW n \in Nodes, Erase(n) PROVE PeerInv'
  BY <1>3, PeerInvThroughErase
<1>4. ASSUME NEW n \in Nodes, PrepareDeletion(n) \/ CheckPurge(n) \/ VerifyPurge(n) \/ AbortPurge(n)
      PROVE  UNCHANGED <<rounds, latest, purged, handlerVars>>
  BY <1>4 DEF PrepareDeletion, CheckPurge, VerifyPurge, AbortPurge, vars, tableVars
<1>5. CASE UNCHANGED deletionVars
  BY <1>1, <1>5 DEF deletionVars, vars, tableVars
<1> QED
  BY <1>1, <1>2, <1>3, <1>4, <1>5 DEF DeletionNext

\* Whatever is purged, and with whatever invocations at work, the history keeps the
\* probe round of the card, or a newer one, of every node that was not purged itself.
THEOREM PeerRoundsStay == DeletionSpec => []RoundsOfPeersStay
<1>1. DeletionInit => TypeOK /\ PeerInv
  BY TypeInit DEF DeletionInit, Init, PeerInv, RoundsOfPeersStay, RoundRecorded, PriorRounds
<1>2. TypeOK /\ PeerInv /\ [DeletionNext]_deletionVars => (TypeOK /\ PeerInv)'
  BY DeletionTypeStep, PeerStep
<1>3. PeerInv => RoundsOfPeersStay
  BY DEF PeerInv
<1> QED
  BY <1>1, <1>2, <1>3, PTL DEF DeletionSpec

=============================================================================
