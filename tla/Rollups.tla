------------------------------- MODULE Rollups -------------------------------
(***************************************************************************)
(* The daily run of the Worker (scheduled in worker/src/index.ts): the     *)
(* rebuild of the last days' averages from raw rows (observability.ts) and *)
(* the removal of what is too old, while late reports still arrive and     *)
(* nodes are purged.                                                       *)
(*                                                                         *)
(* A sample stands for a metric row, or for one probe of a round: its day  *)
(* is that of checked_at, but it is selected by the round's round_at, the  *)
(* time of the last probe.  An average is represented by the set of        *)
(* samples it is taken of.                                                 *)
(***************************************************************************)
EXTENDS Integers, FiniteSets

CONSTANTS
  Nodes, None,
  Samples,   \* what may be reported: [node, checked_at, round_at]
  Day,       \* units of time in a day; a run is over within a unit
  Window,    \* days that are rebuilt (3)
  RawDays,   \* days for which raw rows are kept (31)
  KeptDays,  \* days for which averages are kept (91)
  Limit,     \* statements in a batch (80)
  MaxNow     \* end of time, for model checking

ASSUME RollupsAssumption ==
  /\ Samples \subseteq [node : Nodes, checked_at : Nat, round_at : Nat]
  /\ \A s \in Samples : s.checked_at <= s.round_at /\ s.round_at < s.checked_at + Day
  /\ {Day, Window, RawDays, KeptDays, Limit} \subseteq Nat \ {0} /\ MaxNow \in Nat
  /\ Window < RawDays
  /\ None \notin Nat

VARIABLES
  now,
  catalog,   \* nodes with catalog rows
  raw,       \* metric_samples, probe_rounds: received_at of each sample that is stored
  rollups,   \* metric_series_rollups, probe_series_rollups: node, bucket, samples
  run,       \* the scheduled run: None, or [todo, stage, whole]
  ran,       \* the day of the last run
  accepted,  \* every sample ever stored whose node was not purged
  rebuilt,   \* the days whose averages a completed run computed when no report of theirs
             \* could come any more
  purged     \* nodes that were removed for good

vars == <<now, catalog, raw, rollups, run, ran, accepted, rebuilt, purged>>

\* Mutant: not rounded down.
Instant(t) == t

dayStart(t) == (t \div Day) * Day

Buckets == {d \in 0..MaxNow : d % Day = 0}
Group == [node : Nodes, bucket : Buckets, of : SUBSET Samples]

TypeOK ==
  /\ now \in 0..MaxNow
  /\ catalog \subseteq Nodes /\ purged \subseteq Nodes
  /\ raw \in [Samples -> 0..MaxNow \cup {None}]
  /\ rollups \subseteq Group
  /\ run = None \/ run \in [todo : SUBSET Group, stage : {"write", "clean"}, whole : BOOLEAN]
  /\ ran \in Buckets \cup {None}
  /\ accepted \subseteq Samples
  /\ rebuilt \subseteq Buckets

Init ==
  /\ now = 0
  /\ catalog = {} /\ purged = {}
  /\ raw = [s \in Samples |-> None]
  /\ rollups = {}
  /\ run = None /\ ran = None
  /\ accepted = {} /\ rebuilt = {}

-----------------------------------------------------------------------------

Stored == {s \in Samples : raw[s] # None}

\* handleReport: a report is at most a day old; the round of one that is sent again is
\* known already.  Credentials of a purged node are gone.  The age is taken from the
\* round, which may be up to a probe interval older than the report that carries it.
Report(s) ==
  /\ s.node \notin purged /\ raw[s] = None /\ s \notin accepted
  /\ s.round_at <= now /\ now <= s.round_at + Day
  /\ raw' = [raw EXCEPT ![s] = now]
  /\ catalog' = catalog \cup {s.node}
  /\ accepted' = accepted \cup {s}
  /\ UNCHANGED <<now, rollups, run, ran, rebuilt, purged>>

\* Mutant: the days before the last one are taken for done.
ShortWindow == {s \in Stored : s.round_at >= dayStart(now) - (Window - 1) * Day /\ s.round_at < dayStart(now)}

\* compactRecentObservability: the range of both queries.
Selected == {s \in Stored : s.round_at >= dayStart(now) - Window * Day /\ s.round_at < dayStart(now)}

\* metricGroups, probeGroups
Groups(samples) ==
  {[node |-> n, bucket |-> d, of |-> {s \in samples : s.node = n /\ dayStart(s.checked_at) = d}] :
     n \in {s.node : s \in samples}, d \in {dayStart(s.checked_at) : s \in samples}}

\* The daily cron trigger; compactDailyObservability reads, or fails to.
Start ==
  /\ run = None /\ ran # dayStart(now)
  /\ ran' = dayStart(now)
  /\ \/ run' = [todo |-> {g \in Groups(Selected) : g.of # {}}, stage |-> "write", whole |-> TRUE]
     \/ run' = [todo |-> {}, stage |-> "clean", whole |-> FALSE]
  /\ UNCHANGED <<now, catalog, raw, rollups, accepted, rebuilt, purged>>

\* Mutant: the catalog is not looked at.
UpsertedAll(groups) ==
  {r \in rollups : \A g \in groups : g.node # r.node \/ g.bucket # r.bucket} \cup groups

\* INSERT ... WHERE EXISTS ... ON CONFLICT DO UPDATE
Upserted(groups) ==
  LET known == {g \in groups : g.node \in catalog}
  IN  {r \in rollups : \A g \in known : g.node # r.node \/ g.bucket # r.bucket} \cup known

\* runBatches: one batch is a transaction; an error ends the rebuild and is swallowed.
Write ==
  /\ run # None /\ run.stage = "write"
  /\ \/ /\ run.todo # {}
        /\ \E batch \in SUBSET run.todo :
             /\ Cardinality(batch) = Limit \/ (Cardinality(run.todo) < Limit /\ batch = run.todo)
             /\ rollups' = Upserted(batch)
             /\ run' = [run EXCEPT !.todo = @ \ batch]
     \/ run.todo = {} /\ run' = [run EXCEPT !.stage = "clean"] /\ UNCHANGED rollups
     \/ run' = [todo |-> {}, stage |-> "clean", whole |-> FALSE] /\ UNCHANGED rollups
  /\ UNCHANGED <<now, catalog, raw, ran, accepted, rebuilt, purged>>

\* Mutant: raw rows are removed as soon as their day has been averaged once.
EarlyRaw(at) == [s \in Samples |-> IF raw[s] # None /\ raw[s] < at - Day THEN None ELSE raw[s]]

KeptRaw(at) == [s \in Samples |-> IF raw[s] # None /\ raw[s] < at - RawDays * Day THEN None ELSE raw[s]]

\* cleanup, in one batch; it may fail.
Clean ==
  /\ run # None /\ run.stage = "clean"
  /\ run' = None
  /\ \/ /\ raw' = KeptRaw(now)
        /\ rollups' = {r \in rollups : r.bucket >= now - KeptDays * Day}
     \/ UNCHANGED <<raw, rollups>>
  /\ rebuilt' = IF run.whole
                THEN rebuilt \cup {d \in Buckets : dayStart(now) - Window * Day <= d /\ d + 2 * Day <= dayStart(now)}
                ELSE rebuilt
  /\ UNCHANGED <<now, catalog, ran, accepted, purged>>

\* permanentlyDeleteNode; no report of the node is in flight.
Purge(n) ==
  /\ n \in catalog
  /\ catalog' = catalog \ {n} /\ purged' = purged \cup {n}
  /\ raw' = [s \in Samples |-> IF s.node = n THEN None ELSE raw[s]]
  /\ rollups' = {r \in rollups : r.node # n}
  /\ accepted' = {s \in accepted : s.node # n}
  /\ UNCHANGED <<now, run, ran, rebuilt>>

Tick ==
  /\ now < MaxNow /\ run = None
  /\ now' = now + 1
  /\ UNCHANGED <<catalog, raw, rollups, run, ran, accepted, rebuilt, purged>>

Next ==
  \/ \E s \in Samples : Report(s)
  \/ Start \/ Write \/ Clean
  \/ \E n \in Nodes : Purge(n)
  \/ Tick

Spec == Init /\ [][Next]_vars

-----------------------------------------------------------------------------
(***************************************************************************)
(* Properties.                                                             *)
(***************************************************************************)

\* A rebuild that read the rows of a node before it was purged writes none of them back.
PurgedStaysPurged == \A r \in rollups : r.node \notin purged

OfDay(n, d) == {s \in accepted : s.node = n /\ dayStart(s.checked_at) = d}

\* A round that begins before midnight and ends after it: the run that no longer covers
\* the earlier day still selects the round, and replaces that day's average by one of
\* the round's early probes.
Straddled(n, d) == \E s \in OfDay(n, d) : dayStart(s.round_at) # d

\* A run that was missed or failed is made up for: once one run has covered a day after
\* its last report, the average is that of all its samples and stays it until it expires,
\* although the raw rows go before ("so a missed run heals on the next one").
WholeDays ==
  \A n \in Nodes, d \in rebuilt :
    OfDay(n, d) # {} /\ ~ Straddled(n, d) /\ d >= now - KeptDays * Day
      => [node |-> n, bucket |-> d, of |-> OfDay(n, d)] \in rollups

\* No later run takes samples out of an average, however late it is and whatever the
\* cleanup removed before.
AveragesOnlyGain ==
  [][\A r \in rollups, q \in rollups' :
       r.node = q.node /\ r.bucket = q.bucket /\ ~ Straddled(r.node, r.bucket) => r.of \subseteq q.of]_vars
=============================================================================
