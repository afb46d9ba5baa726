---------------------------- MODULE ReportIngest ----------------------------
(***************************************************************************)
(* The Worker's report path (worker/src/index.ts, handleReport).           *)
(*                                                                         *)
(* Every POST /api/v1/report is an invocation of its own.  An invocation   *)
(* authenticates the request against the bindings it was started with,     *)
(* awaits a SELECT of the node's latest row, decides from that row, and    *)
(* only then awaits one atomic D1 batch.  Between its steps other          *)
(* invocations may run, so what it decided from may be stale when its      *)
(* batch commits.  A Handlers element is one concurrent invocation.        *)
(*                                                                         *)
(* The network is any: a member of Requests may arrive at any time, in any *)
(* order, any number of times, or never.                                   *)
(*                                                                         *)
(* The daily cleanup (index.ts:435) is in Rollups.  Here no row expires,   *)
(* so what is said of the history holds for as long as its rows are kept.  *)
(***************************************************************************)
EXTENDS Integers, Sequences, FiniteSets

CONSTANTS
  Nodes,        \* node identifiers
  Services,     \* service names an Agent may report on
  Probes,       \* probe names
  Values,       \* boot ids, versions, start times, service states
  Scopes,       \* identities of the selected network interfaces
  Sources,      \* source addresses, records [net, host]
  Secrets,      \* per-node HMAC secrets
  Nonces,       \* request nonces
  Requests,     \* the requests that can reach the Worker
  Inventories,  \* the values NODE_KEYS and REVOKED_NODE_IDS are published with
  Handlers,     \* concurrent invocations of handleReport
  MaxAge,       \* REPORT_MAX_AGE_SECONDS after clamping
  Day,          \* DAY_SECONDS
  RateWindow,   \* the longest interval a rate is derived over (3600 s)
  NonceLimit,   \* remembered nonces per node (40)
  MaxNow,       \* bound on the Worker's clock, for model checking
  MaxSafe,      \* Number.MAX_SAFE_INTEGER: the largest number validation accepts
  None          \* SQL NULL, an absent row, an absent key

VARIABLES
  now,          \* the Worker's clock, in seconds
  env,          \* current bindings: [keys, revoked]
  phase,        \* phase[h]: how far invocation h has come
  job,          \* job[h]: [request, at, keys] captured when h authenticated
  prior,        \* prior[h]: the node_latest row h read
  remembered,   \* remembered[h]: the recent_nonces_json h is going to write
  latest,       \* node_latest, without recent_nonces_json
  recentNonces, \* node_latest.recent_nonces_json
  samples,      \* metric_samples
  rounds,       \* probe_rounds
  events,       \* observability_events, by dedup_key
  catalog       \* node_catalog, service_catalog and probe_catalog

handlerVars == <<phase, job, prior, remembered>>
tableVars   == <<latest, recentNonces, samples, rounds, events, catalog>>
vars == <<now, env, handlerVars, tableVars>>

-----------------------------------------------------------------------------
(***************************************************************************)
(* Data.                                                                   *)
(***************************************************************************)

\* The three scalars of a report whose change is an event of its own; the
\* name is the event type.
Marks == {"reboot", "agent_version", "agent_restart"}

Probe == [target : Nodes \cup {None}, at : 1..MaxSafe]
Net   == [scope : Scopes, bytes : 0..MaxSafe]

Report ==
  [node     : Nodes,
   gen      : 1..MaxSafe,                           \* generated_at
   marks    : [Marks -> Values],
   services : [Services -> Values \cup {None}],     \* None: not reported
   probes   : [Probes -> Probe \cup {None}],
   net      : Net \cup {None}]                      \* None: network_valid is false

Request ==
  [report : Report, secret : Secrets, timestamp : Int, nonce : Nonces,
   source : Sources \cup {None}]

Inventory == [keys : [Nodes -> Secrets \cup {None}], revoked : SUBSET Nodes]

Rate == [bytes : Nat, seconds : 1..RateWindow]
Row  == [received : Nat, source : Sources \cup {None}, report : Report,
         rate : Rate \cup {None}]

Sample == [node : Nodes, gen : 1..MaxSafe, rate : Rate \cup {None}]
Round  == [node : Nodes, at : 1..MaxSafe, probes : SUBSET Probes]
Job    == [request : Requests, at : Nat, keys : [Nodes -> Secrets \cup {None}]]

CatalogEntry ==
  [node     : {"absent", "off", "on"},
   retired  : BOOLEAN,
   services : [Services -> {"absent", "off", "on"}],
   probes   : [Probes -> [target : Nodes \cup {None}, enabled : BOOLEAN] \cup {None}]]

ASSUME RequestsAssumption == Requests \subseteq Request
ASSUME InventoriesAssumption ==
  /\ Inventories \subseteq Inventory
  /\ Inventories # {}
ASSUME BoundsAssumption ==
  /\ MaxAge \in Nat /\ Day \in Nat /\ RateWindow \in Nat /\ MaxNow \in Nat
  /\ MaxSafe \in Nat \ {0} /\ NonceLimit \in Nat \ {0}
ASSUME NoneAssumption ==
  /\ None \notin Nodes /\ None \notin Values /\ None \notin Sources
  /\ None \notin Secrets /\ None \notin Int
  /\ None \notin Probe /\ None \notin Net /\ None \notin Rate /\ None \notin Row
  /\ None \notin Job

-----------------------------------------------------------------------------
(***************************************************************************)
(* What the handler computes.                                              *)
(***************************************************************************)

\* The checks made before the database is touched: timestamp window, age of
\* the report itself, revocation, and the signature under the current secret.
Authentic(q) ==
  /\ q.timestamp - now <= MaxAge
  /\ now - q.timestamp <= MaxAge
  /\ q.report.gen <= now + MaxAge
  /\ q.report.gen >= now - Day
  /\ q.report.node \notin env.revoked
  /\ env.keys[q.report.node] # None
  /\ q.secret = env.keys[q.report.node]

\* Mutant: probes are stored whatever they point at.
UnfilteredReport(r, keys) == r

\* The report as it is stored: a probe towards a node without credentials is
\* dropped.
Visible(r, keys) ==
  [r EXCEPT !.probes = [p \in Probes |->
     IF r.probes[p] = None THEN None
     ELSE IF r.probes[p].target = None THEN r.probes[p]
     ELSE IF keys[r.probes[p].target] = None THEN None
     ELSE r.probes[p]]]

Reported(r) == {p \in Probes : r.probes[p] # None}

\* The time of a probe round is its newest check; zero without probes.
RoundAt(r) ==
  LET checks == {0} \cup {r.probes[p].at : p \in Reported(r)}
  IN  CHOOSE t \in checks : \A u \in checks : u <= t

\* Nonces still inside the window, oldest first; kept[i] are those of the first i.
Fresh(list, at) ==
  LET kept[i \in 0..Len(list)] ==
        IF i = 0 THEN <<>>
        ELSE IF at - list[i].at <= MaxAge THEN Append(kept[i - 1], list[i])
        ELSE kept[i - 1]
  IN  kept[Len(list)]

LastOf(list, k) ==
  SubSeq(list, IF Len(list) > k THEN Len(list) - k + 1 ELSE 1, Len(list))

Replayed(list, nonce, at) ==
  \E i \in DOMAIN LastOf(Fresh(list, at), NonceLimit) :
    LastOf(Fresh(list, at), NonceLimit)[i].nonce = nonce

\* Mutant: the new nonce takes the place of the remembered ones.
ForgetfulNonces(list, nonce, at) == <<[nonce |-> nonce, at |-> at]>>

NextNonces(list, nonce, at) ==
  LastOf(Append(LastOf(Fresh(list, at), NonceLimit), [nonce |-> nonce, at |-> at]),
         NonceLimit)

\* Mutant: neither the boot nor the direction of the counter is looked at.
UncheckedComparable(r, old) ==
  /\ r.net # None /\ old.net # None
  /\ r.gen > old.gen /\ r.gen - old.gen <= RateWindow

\* computeNetworkRates: a rate needs a previous report of the same boot over
\* the same interfaces, taken earlier but not too long ago, and a counter that
\* did not go back.
Comparable(r, old) ==
  /\ old.marks["reboot"] = r.marks["reboot"]
  /\ r.net # None /\ old.net # None
  /\ r.net.scope = old.net.scope
  /\ r.gen > old.gen /\ r.gen - old.gen <= RateWindow
  /\ r.net.bytes >= old.net.bytes

NetworkRate(r, row) ==
  IF row = None THEN None
  ELSE IF ~ Comparable(r, row.report) THEN None
  ELSE [bytes |-> r.net.bytes - row.report.net.bytes, seconds |-> r.gen - row.report.gen]

OldState(old, s) == IF old.services[s] = None THEN "unknown" ELSE old.services[s]

\* The events a report adds when compared with the row the handler has read.
\* Their identity is dedup_key; a second insertion is ignored.
Changes(r, source, row) ==
  LET old == row.report
      Event(type, subject, value) ==
        [node |-> r.node, type |-> type, at |-> r.gen, subject |-> subject, value |-> value]
  IN  {Event(m, m, r.marks[m]) : m \in {k \in Marks : old.marks[k] # r.marks[k]}}
        \cup
      {Event("service_state", s, r.services[s]) :
          s \in {k \in Services : r.services[k] # None /\ OldState(old, k) # r.services[k]}}
        \cup
      IF row.source # None /\ source # None /\ row.source # source
      THEN {Event("source_ip", "source_ip", source.net)} ELSE {}

\* Mutant: a late report is compared like a new one.
UnguardedEvents(r, source, row) == IF row = None THEN {} ELSE Changes(r, source, row)

NewEvents(r, source, row) ==
  IF row = None THEN {}
  ELSE IF r.gen <= row.report.gen THEN {}
  ELSE Changes(r, source, row)

\* Mutant: no primary key.
UnkeyedSample(r, rate) == samples \cup {[node |-> r.node, gen |-> r.gen, rate |-> rate]}

\* INSERT OR IGNORE INTO metric_samples, keyed by (reported_at, node_id).
AddSample(r, rate) ==
  IF \E s \in samples : s.node = r.node /\ s.gen = r.gen THEN samples
  ELSE samples \cup {[node |-> r.node, gen |-> r.gen, rate |-> rate]}

\* The round is inserted only when it is newer than the one in the row the
\* handler has read, and INSERT OR IGNORE keys it by (round_at, node_id).
AddRound(r, row) ==
  LET seen == IF row = None THEN 0 ELSE RoundAt(row.report)
  IN  IF \/ RoundAt(r) <= seen
         \/ \E x \in rounds : x.node = r.node /\ x.at = RoundAt(r)
      THEN rounds
      ELSE rounds \cup {[node |-> r.node, at |-> RoundAt(r), probes |-> Reported(r)]}

\* Mutant: the rows are replaced instead of updated, retired_at included.
ReplacedRows(entry, r) ==
  [node     |-> "on",
   retired  |-> FALSE,
   services |-> [s \in Services |-> IF r.services[s] # None THEN "on" ELSE "absent"],
   probes   |-> [p \in Probes |->
     IF r.probes[p] # None THEN [target |-> r.probes[p].target, enabled |-> TRUE] ELSE None]]

\* catalogStatements: the node, its services and its probes are enabled as
\* reported, what is no longer reported is disabled, retired_at is untouched.
Catalogued(entry, r) ==
  [node     |-> "on",
   retired  |-> entry.retired,
   services |-> [s \in Services |->
     IF r.services[s] # None THEN "on"
     ELSE IF entry.services[s] = "on" THEN "off" ELSE entry.services[s]],
   probes   |-> [p \in Probes |->
     IF r.probes[p] # None THEN [target |-> r.probes[p].target, enabled |-> TRUE]
     ELSE IF entry.probes[p] = None THEN None
     ELSE [entry.probes[p] EXCEPT !.enabled = FALSE]]]

\* Mutant: the conflict clause without its WHERE.
AlwaysSupersedes(r, row) == TRUE

\* ON CONFLICT(node_id) DO UPDATE ... WHERE excluded.reported_at >= reported_at.
Supersedes(r, row) == IF row = None THEN TRUE ELSE r.gen >= row.report.gen

-----------------------------------------------------------------------------
(***************************************************************************)
(* Behaviour.                                                              *)
(***************************************************************************)

Init ==
  /\ now = 0
  /\ env \in Inventories
  /\ phase = [h \in Handlers |-> "idle"]
  /\ job = [h \in Handlers |-> None]
  /\ prior = [h \in Handlers |-> None]
  /\ remembered = [h \in Handlers |-> <<>>]
  /\ latest = [n \in Nodes |-> None]
  /\ recentNonces = [n \in Nodes |-> <<>>]
  /\ samples = {}
  /\ rounds = {}
  /\ events = {}
  /\ catalog = [n \in Nodes |->
       [node |-> "absent", retired |-> FALSE,
        services |-> [s \in Services |-> "absent"], probes |-> [p \in Probes |-> None]]]

\* The invocation is over; its local state is gone.
Finish(h) ==
  /\ phase' = [phase EXCEPT ![h] = "idle"]
  /\ job' = [job EXCEPT ![h] = None]
  /\ prior' = [prior EXCEPT ![h] = None]
  /\ remembered' = [remembered EXCEPT ![h] = <<>>]

\* A request that fails a check is answered 401 or 422 and changes nothing, so
\* only the authentic ones take a step.
Authenticate(h, q) ==
  /\ phase[h] = "idle"
  /\ Authentic(q)
  /\ phase' = [phase EXCEPT ![h] = "authenticated"]
  /\ job' = [job EXCEPT ![h] = [request |-> q, at |-> now, keys |-> env.keys]]
  /\ UNCHANGED <<now, env, prior, remembered, tableVars>>

\* The SELECT from node_latest, and the nonce check against what it returned.
ReadPrior(h) ==
  LET n == job[h].request.report.node
  IN  /\ phase[h] = "authenticated"
      /\ ~ Replayed(recentNonces[n], job[h].request.nonce, job[h].at)
      /\ phase' = [phase EXCEPT ![h] = "decided"]
      /\ prior' = [prior EXCEPT ![h] = latest[n]]
      /\ remembered' = [remembered EXCEPT ![h] =
           NextNonces(recentNonces[n], job[h].request.nonce, job[h].at)]
      /\ UNCHANGED <<now, env, job, tableVars>>

\* 409 "replayed request".
RefuseReplay(h) ==
  /\ phase[h] = "authenticated"
  /\ Replayed(recentNonces[job[h].request.report.node], job[h].request.nonce, job[h].at)
  /\ Finish(h)
  /\ UNCHANGED <<now, env, tableVars>>

\* The atomic batch: everything was decided from prior[h], but the conflict
\* clauses are evaluated against the tables as they are now.
Commit(h) ==
  LET q    == job[h].request
      r    == Visible(q.report, job[h].keys)
      n    == r.node
      rate == NetworkRate(r, prior[h])
  IN  /\ phase[h] = "decided"
      /\ catalog' = [catalog EXCEPT ![n] = Catalogued(catalog[n], r)]
      /\ IF Supersedes(r, latest[n])
         THEN /\ latest' = [latest EXCEPT ![n] =
                   [received |-> job[h].at, source |-> q.source, report |-> r, rate |-> rate]]
              /\ recentNonces' = [recentNonces EXCEPT ![n] = remembered[h]]
         ELSE UNCHANGED <<latest, recentNonces>>
      /\ samples' = AddSample(r, rate)
      /\ rounds' = AddRound(r, prior[h])
      /\ events' = events \cup NewEvents(r, q.source, prior[h])
      /\ Finish(h)
      /\ UNCHANGED <<now, env>>

\* The invocation is evicted or a D1 call throws: nothing of it is stored.
Fail(h) ==
  /\ phase[h] # "idle"
  /\ Finish(h)
  /\ UNCHANGED <<now, env, tableVars>>

\* The operator publishes the secrets (lumectl, wrangler secret bulk).
\* Invocations already running keep the bindings they were started with.
Publish(inventory) ==
  /\ env' = inventory
  /\ env # inventory
  /\ UNCHANGED <<now, handlerVars, tableVars>>

Tick ==
  /\ now < MaxNow
  /\ now' = now + 1
  /\ UNCHANGED <<env, handlerVars, tableVars>>

Handle(h) == ReadPrior(h) \/ RefuseReplay(h) \/ Commit(h) \/ Fail(h)

Next ==
  \/ \E h \in Handlers, q \in Requests : Authenticate(h, q)
  \/ \E h \in Handlers : Handle(h)
  \/ \E inventory \in Inventories : Publish(inventory)
  \/ Tick

Spec == Init /\ [][Next]_vars

-----------------------------------------------------------------------------
(***************************************************************************)
(* Properties.                                                             *)
(***************************************************************************)

\* Every variable holds what the schema and the validation allow.  A rate, when
\* there is one, spans a positive number of seconds and never a negative number
\* of bytes.  The content of the nonce lists matters to ReportHistory!ReplayRefused.
TypeOK ==
  /\ now \in Nat
  /\ env \in Inventory
  /\ phase \in [Handlers -> {"idle", "authenticated", "decided"}]
  /\ job \in [Handlers -> Job \cup {None}]
  /\ \A h \in Handlers : phase[h] # "idle" => job[h] \in Job
  /\ prior \in [Handlers -> Row \cup {None}]
  /\ DOMAIN remembered = Handlers
  /\ latest \in [Nodes -> Row \cup {None}]
  /\ \A n \in Nodes : latest[n] # None => latest[n].report.node = n
  /\ DOMAIN recentNonces = Nodes
  /\ samples \subseteq Sample
  /\ rounds \subseteq Round
  /\ catalog \in [Nodes -> CatalogEntry]

SamplesOf(n) == {s \in samples : s.node = n}
RoundsOf(n) == {x \in rounds : x.node = n}

\* The card of a node shows the newest report of its history, and there is a
\* card as soon as there is history, although the batch that writes both was
\* decided from a row that other invocations may have replaced since.
LatestIsNewest ==
  \A n \in Nodes :
    IF latest[n] = None
    THEN SamplesOf(n) = {}
    ELSE /\ \E s \in SamplesOf(n) : s.gen = latest[n].report.gen
         /\ \A s \in SamplesOf(n) : s.gen <= latest[n].report.gen

\* The probe round on the card of n is in the history, or a newer one is.
RoundRecorded(n) ==
  latest[n] # None /\ RoundAt(latest[n].report) # 0 =>
    \E x \in RoundsOf(n) : x.at >= RoundAt(latest[n].report)

\* Skipping the insertion because the row read carried the round already loses no
\* round of a card, as long as nothing deletes rounds (NodeDeletion!RoundsOfPeersStay
\* says what is left of it next to purges).
NewestRoundRecorded == \A n \in Nodes : RoundRecorded(n)

\* Rates and events come from comparing a report with an older one of the same
\* node.  Whatever arrives late, twice or concurrently, each rate in the history
\* starts at the time of a report in the history, and an event is dated by a
\* report in the history that is not the oldest one there.
DerivedFromOlder ==
  /\ \A s \in samples : s.rate # None =>
       \E o \in SamplesOf(s.node) : o.gen = s.gen - s.rate.seconds
  /\ \A e \in events :
       /\ \E s \in SamplesOf(e.node) : s.gen = e.at
       /\ \E o \in SamplesOf(e.node) : o.gen < e.at

\* The spans the stored rates are averages over never overlap, so no traffic of
\* a node is shown twice, although a late report is compared with a newer row.
\* It is a property of one invocation at a time: two that read the same row both
\* derive a rate from it.
RatesDoNotOverlap ==
  \A s, t \in samples :
    s.node = t.node /\ s.rate # None /\ t.rate # None /\ s.gen < t.gen =>
      s.gen <= t.gen - t.rate.seconds

\* The report path implements the abstract store: each batch accepts exactly
\* one report, and everything else is invisible to the dashboard.
Store == INSTANCE ReportStore WITH
  Nothing <- None,
  Times   <- 1..MaxSafe,
  newest  <- [n \in Nodes |-> IF latest[n] = None THEN None ELSE latest[n].report.gen],
  history <- [n \in Nodes |-> {s.gen : s \in SamplesOf(n)}]

ImplementsStore == Store!StoreSpec
=============================================================================
