# Lume Monitor: verification project

TLA+ models of Lume Monitor, TLC configurations that model-check them, and
TLAPS proofs. All paths below are relative to the repository root, which the
modules and `PROJECT.json` call `src/`.

    tlc -workers 2 -config MCReportHistory.cfg MCReportHistory.tla
    tlapm ReportIngestProofs.tla

## 1. The system

An **Agent** (Go, one process per VPS, started by systemd) takes one report per
interval (30 s or more), signs it with the node's secret and posts it to a
**Worker** (TypeScript on Cloudflare), which stores it in **D1** (SQLite, one
atomic batch per report).  The Worker also serves the dashboard's data, answers
a Telegram bot, and runs a daily job.  The **management tool** (`lumectl`, Node,
on the operator's machine) installs Agents, publishes the Worker's secrets,
deploys and rolls back the Worker, and takes nodes offline.

| Component | State it keeps | Operations | Hard because | What makes it correct |
|---|---|---|---|---|
| Report ingest (`worker/src/index.ts` handleReport, `observability.ts`, `node-catalog.ts`) | the tables of D1; bindings captured per invocation | authenticate, read the latest row, commit one batch | invocations interleave; the batch is decided from a row read earlier; reports arrive late, twice, or never | card = newest report; the round of the card is in the history, purges aside; rates and events compare with an older report; replays refused; retries idempotent |
| Agent cycle (`agent/cmd`, `internal/sender`, `internal/spool`) | `pending.json`, the report in memory | resend, collect, send, spool | crash anywhere, lost answers, failed file operations | the newest report is never lost; a retry is not a replay; recovery once the trouble ends |
| Node deletion, Worker side (`node-deletion.ts`, `catalog.ts`) | `retired_at`, all tables of the node, peers' rows | lock, purge, verify | reports in flight and peers' probes write the same rows | locked nodes hidden; purged nodes do not come back; peers keep their own data |
| Management (`lumectl.mjs`, `management.mjs`, `node-deletion.mjs`, `private-node-data.mjs`, `key-inventory.ts`) | private copies on the operators' machines: keys, the list last seen on the Worker, nodes, configurations, deletion jobs | add, configure, deploy, revoke, sync, adopt, set up, delete | interruption between any two steps; lost answers; stale copies; two nodes that probe each other deleted at once | no copy that is out of date overwrites a credential; finished means gone; an interrupted deletion can be finished |
| Rollups and cleanup (`observability.ts` 122-216, `index.ts` 435-445, 534-554) | rollup tables, raw rows | rebuild three days in batches, delete expired rows | missed or partial runs, late samples, purges meanwhile | averages end up whole and stay so; nothing purged comes back |
| One VPS (`deploy/install-agent.sh`, `upgrade-agent.sh`, `vpsmon-agent.service`, `agent/internal/traffic`) | three files, backups, systemd's service, traffic.json | install, upgrade, undo, start, stop; count | a script fails or is cut at any command and is tried again; reboots, clock steps, counters that start again | a way back to one whole version; no byte counted twice, none lost that can be known |
| Telegram (`telegram.ts`) | claimed updates, the owner | claim, bind, answer, release, clean up | redelivery while at work, failed calls, concurrent binding | one owner; each update answered once, and in the end |
| Dashboard login (`dashboard-auth.ts`) | login tokens, sessions | draw, use, expire, log out | one link opened twice at once | one session per link |
| Dashboard page (`useDashboard.ts`, `dashboardApi.ts`, `dashboard-data.ts`) | snapshot, histories, cache, selection, timers | load, poll, select, hide, log out | late and failed answers, nodes deleted meanwhile | what is shown belongs to the selection; deleted nodes disappear; a session that ended stays ended |
| Worker rollback (`worker-rollback.mjs`) | none of its own | deploy, watch, restore | failure after the change | the previous version runs again (not modelled, section 6) |

`PROJECT.json` lists every component with its status, and the hazards with the
lines at which they bite.

Interactions: Agent and Worker exchange one request and one answer; Worker
invocations share nothing but D1; the management tool calls admin routes and
publishes secrets, which only new invocations see, and runs the deployment
scripts on the hosts by SSH; a purge touches the rows of the peers that probe the
node, and the averages the daily run is about to write; the dashboard page reads
through a session that a login link of the Telegram bot has opened.

## 2. Modules

| Module | Models | Extends / instantiates |
|---|---|---|
| `ReportIngest` | handleReport as concurrent invocations | instantiates `ReportStore` |
| `ReportStore` | what the report path promises the dashboard | |
| `ReportHistory` | `ReportIngest` with a record of what was accepted, for properties about the past | extends `ReportIngest` |
| `ReportDelivery` | Agent, spool, lossy network, Worker | extends `ReportIngest` |
| `NodeDeletion` | the admin deletion routes next to the report path | extends `ReportIngest` |
| `Rollups` | the daily run: averages and retention | |
| `Management` | the management tool on one or more machines | |
| `AgentHost` | one VPS: deployment scripts, systemd, traffic accounting | |
| `TelegramBot` | the webhook and the cleanup of its claims | |
| `DashboardLogin` | login links and sessions | |
| `DashboardPage` | the page in a browser and the Worker's answers to it | extends `DashboardLogin` |
| `...Proofs` | theorems about the module of that name | extend it |
| `MC...` | small instances | extend the module of that name |

The Worker's modules meet in the rows and the credentials: `ReportIngest` has the
tables, `NodeDeletion` the purges that erase them, `Rollups` the averages made of
them; `Management` has the operator's side of a deletion, in which the Worker's
three steps are single steps (`Management.Lock`, `Purge`), and one deployment of an
Agent is one step (`AgentHost` has it command by command).

### ReportIngest

An element of `Handlers` is one running invocation.  It captures its bindings
and clock when it authenticates a request (`Authenticate`, `job[h]`), awaits the
SELECT of the node's latest row (`ReadPrior` or `RefuseReplay`, `prior[h]`,
`remembered[h]`), and awaits one atomic batch (`Commit`).  Any other step may
come between.  `Fail` is a D1 error or an evicted invocation.  `Publish` changes
the bindings for later invocations only.

| Variable | Code |
|---|---|
| `env` | NODE_KEYS and REVOKED_NODE_IDS |
| `latest`, `recentNonces` | node_latest; `rate` stands for both network rates, `bytes` for both counters |
| `samples`, `rounds`, `events` | metric_samples, probe_rounds, observability_events, by their primary keys |
| `catalog` | node_catalog, service_catalog, probe_catalog |

What decides the control is kept: the timestamp window, the report's age, the
revocation, the nonce list with its window and its limit of 40, the comparison
of boot, interfaces, time and counters, the conflict clauses (`>=`, INSERT OR
IGNORE), the round guard, the event guard, the filter for probes without a
credentialed target.  Reports are records of the few fields that this control
reads; names and texts are model values.  A request that fails its checks is
answered and changes nothing, so it takes no step.

`ImplementsStore` is the refinement: with `newest` read from the card and
`history` from the samples, each batch is one `Accept` of `ReportStore` and
every other step is a stutter.

### ReportDelivery

One Agent whose unit of time is the report interval.  A cycle is `StartCycle`
(resend pending.json or not), `EndResend`, `Collect`, `EndSend`; `Crash` may come
anywhere and `Restart` is systemd's.  The network is `wire`: `Deliver` and `Drop`
take a request from it in any order.  `CommitAndAnswer` is the Worker's 202; an
answer that is not seen is `SendFails` while the batch is committed.  `healthy`
says that trouble is over (`Heal`).  The composition is a behaviour of
`ReportIngest` (theorem `DeliveryIngests`), so everything proved there holds here.

### NodeDeletion

`PrepareDeletion` is the lock.  A purge is an invocation with awaits between
`CheckPurge` (credentials, lock), `Erase` (the atomic batch) and `VerifyPurge`
(the count); `AbortPurge` ends it anywhere.  `gone` is the set of nodes the
operator was told are deleted.  `measured` and `purged` are history variables: the
target each stored measurement had, which the code does not store, and the nodes ever
purged.  `Hidden` is the filter of
`loadDashboardCatalog`.

### Rollups

A `Sample` is a metric row, or one probe of a round: its day is that of
`checked_at`, but the queries select it by the round's last probe (`round_at`).  An
average is the set of samples it is taken of, so `WholeDays` and `AveragesOnlyGain`
speak of what an average is made of and not of numbers.  A run is `Start` (the
queries, from which `todo` is made), one `Write` per batch, `Clean`; it may be
missed, fail to read, or stop between two batches.  `Upserted` is the guard
against nodes that a purge has removed since the queries
(`observability.ts:155-156`).

### Management

One variable holds each machine's private copy (`host[h]`), one the command at work
(`op`): commands are serial, as `docs/reference/development.md` demands, and every step of a
command is one save or one call.  `Interrupt` ends the process between any two of
them; an answer that is lost is an interruption after its call.  A publication is
`CheckKeys`, `PutKeys`, `NoteKeys` and the same for the revoked ones: the list read
is compared with the copy's last one (`seen`) or with what it intends (`Accepts`).
A deletion is the job of `deleteManagedNode`: credentials, lock, host, peers, data,
local files, each step of which a resumed job may take again.  Ghosts: `gone` (what
was reported deleted), `cut` (links removed from a peer's file).

### AgentHost

The three installed files (`files`, the version of each), the upgrade backups, and
the service.  A script (`script`) is at one of its commands: `Install` and
`Upgrade` are the checks and the backup, then `Stop`, three times `Copy`, `Reload`,
`Start`, `Verify`, `Compare`, `Prune`; `Fails` and `CopyFails` go to the rollback
(`UndoStop`, `UndoInstall` or three times `UndoUpgrade`, `UndoStart`), which may fail
too (`UndoFails`).  `Cut` ends a script anywhere, `Reboot` the host.  `Observe` is
`Tracker.Observe` with its save; the reset day and the time zone are the set of
midnights that open a period, so `Period` is those up to now; an interface has one
counter.  Ghosts: `moved` (bytes that really passed), `truth` (since when the period
is counted, up to when, and which counters have not started again), `cutShort`.

### TelegramBot

An element of `Invocations` is one run of the webhook: it reads the owner, claims
the update, binds or answers, sends, and releases the claim after an error.
Telegram is the environment: it delivers an update until one delivery is answered
200, for a day at most, and delivers it again when it waits no longer for an answer
although that delivery may still be at work.  `hurt` and `unsure` are ghosts:
updates whose claim was left behind, and those with an answer that arrived in a call
that failed.

### DashboardLogin and DashboardPage

The page is one record, changed by the functions of `useDashboard`
(`ShowAuth`, `Refresh`, ...), which are operators on it; each response, timer and
click is one step.  A request is in `wire` under what it asks for, since the page
asks for nothing twice at a time.  The Worker authorizes a request and reads the
catalog in several queries, between which a deletion may come: `nodes` are those
shown, `known` those the answer names as existing.
`DashboardLogin` has the token's single UPDATE and the answer that sets the cookie as
two steps.

## 3. Runs

| Run | Instance | Shows |
|---|---|---|
| `history` | 1 invocation at a time, 4 reports in every order, one retried; one leaves its service out, the last comes after a reboot with a lower counter, without probes and with an unknown service; 4 commits, nonce limit 2 | `TypeOK`, `DerivedFromOlder`, `EventsExplainCard`, `ReplayRefused`, `RatesDoNotOverlap`, `ImplementsStore`, `RetryAddsNothing` |
| `deletion` | 2 nodes, one probing the other, 2 invocations, 2 reports of each node, of which the second repeats the plain round of the first and the peer's second adds the link, 3 inventories, the clock at rest | `LatestIsNewest`, `RoundsOfPeersStay`, `LockHolds`, `ErasedStaysErased`, `PeersKeepTheRest` |
| `delivery` | 1 Agent, 2 invocations, 3 intervals, 5 requests, crashes and losses anywhere, reports expire after one interval, with fairness | `NewestSurvives`, `RetryIsNoReplay`, `RecoversFromTrouble` |
| `rollups` | 2 nodes, 5 samples of which one belongs to a round that goes beyond midnight, days of 2 units, window 3, raw rows 4 and averages 6 days, 7 days, batches of 1 | `TypeOK`, `PurgedStaysPurged`, `WholeDays`, `AveragesOnlyGain` |
| `management` | 2 machines, one of which deploys, 2 nodes that probe each other, 3 secrets, 2 commands besides resumed deletions, 1 interruption | `TypeOK`, `DoneMeansGone`, `CutLinksAreDeployed`, `DeletionEnds`, `ComparedNotOverwritten` |
| `agent_host` | 2 versions that count the same interface from other days, nothing or one version installed, 2 deployments, 2 faults, 1 backup kept | `TypeOK`, `DeploymentRecoverable`, `TotalsAreTrue`, `TotalsOnlyGrow` |
| `webhook` | 2 users who both bind, one command, 2 invocations, updates and claims kept 1 unit, 1 fault | `TypeOK`, `OnlyOwnerServed`, `AnsweredOnce`, `CommandAnswered` |
| `dashboard` | 1 node that is deleted, 2 ranges, 1 link opened by 2 browsers, cache of 1, 2 requests at a time, 2 clicks, 1 fault | `TypeOK`, `OneSessionPerLink`, `DetailMatchesSelection`, `DeletedNotKept`, `SignedOutForGood`, `NewerSnapshotStays`, `LoadingEnds`, `DeletionReachesPage` |
| `retry_rate` (violation) | `history` with the two first reports | finding 1 |
| `in_flight_report` (violation) | `deletion` with 1 invocation | finding 2 |
| `reused_name` (violation) | 3 nodes, a probe name used for two targets | finding 3 |
| `stale_setup` (violation) | `management` with 3 nodes and no interruption | finding 4 |

`ReportIngest` has no run of its own: `history` and `deletion` are runs of it with
more around it, and all five of its properties are theorems (section 5), also for
invocations that run concurrently.  Of these, `NewestRoundRecorded` is only proved:
next to purges, in `deletion`, it is false of purged nodes (section 4), and
`RoundsOfPeersStay` is what is left of it.  `history` has one invocation at a time, so
for `DerivedFromOlder` TLC exercises late and repeated reports, and the theorem alone
covers rows that are overtaken by another invocation.

**Bounds.**  `MaxNow`, `MaxSends`, `MaxAccepted`, `MaxSafe`, `MaxCommands`,
`MaxFaults`, `MaxRuns`, `MaxBytes`, `MaxAsked` and `MaxClicks` only bound the search.
Two invocations suffice for stale decisions, since each decides from one row and
meets the tables once; two reports of a node, which two invocations may serve in any
order, give a late and a competing one.  Outside `deletion`, whose clock rests,
`MaxAge` is 1 and `Day` at most 4 so that requests and reports expire within
the clock; `NonceLimit` is 1 or 2 so that the list overflows; `RateWindow` is 1 to 3
so that intervals fall inside and outside.  In `delivery` five requests are what a
report that is resent in vain and two later cycles take.  `rollups` runs long enough
for a missed run, the end of raw rows and that of averages.  In `management` two
commands and one interruption give two deletions at once, a publication from another
machine between the steps of a job, and a resumed job after any step.  In
`agent_host` two deployments and two faults give an upgrade that is cut, tried again
and fails while it is undone.  In `webhook` and `dashboard` a unit of time is longer
than a request.  The theorems hold for every value of the constants.

**Symmetry** is not used.  **Deadlock** is not checked: the clock, the requests and
the commands are bounded, so every instance ends.

**Fairness.**
* `delivery`: the Agent's next step and its restart (ticker, `Restart=on-failure`);
  that some request in the network is delivered or refused (the client waits at most
  12 s and a cycle is cut off after 25 s), that some invocation at work goes on (the
  Worker's runtime runs it to its end), and time.  All of it weak.  Fairness promises
  nothing while `healthy` is false; afterwards losses, failures and crashes are
  disabled, and a cycle ends within its interval, which main.go:43 enforces.
* `management`: weak for the command at work, since a process runs on until it is
  interrupted; strong for resuming an unfinished deletion, and for adopting the
  deployment anew when the tool refuses because its copy is out of date, which are
  what the tool tells the operator to do.  No other command is fair.
* `webhook`: weak for every invocation at work, and for Telegram's next delivery of an
  update that no invocation is working on.
* `dashboard`: weak for the Worker's and the browser's part of every request, and for
  the page's timer.

**Properties.**  Report path:

* `LatestIsNewest`: the card is the newest report of the history, and there is
  one as soon as there is history.
* `DerivedFromOlder`: rates start, and events are dated, at reports in the history.
* `EventsExplainCard`: replaying the event list from the first report gives the
  state on the card, but for a service that a report left out and that comes back
  as `unknown`.  One invocation at a time: two that read the same row can
  each miss the other's change, which needs an answer slower than the Agent's
  12 s client timeout.
* `ReplayRefused`: a request that became the card is refused for `MaxAge`, or
  until `NonceLimit` later ones became the card.  A report older than the card
  leaves its nonce unstored; `RetryAddsNothing` bounds what repeating it can do.
* `RatesDoNotOverlap`, `RetryAddsNothing`: no traffic, sample or event appears twice;
  a retry adds a probe round only when the card has gone back to an older round since
  (`~ RoundNotLost`).
* `NewestSurvives`: the newest finished report is on the card or in the spool.  A
  report that can be neither sent nor saved is lost in the code as well and is not
  counted as finished.
* `RetryIsNoReplay`, `RecoversFromTrouble`: the Agent's side.

Deletion and averages:

* `LockHolds`: a locked node, and probes towards it, stay hidden although reports
  re-enable their rows.
* `ErasedStaysErased`: with no invocation left from before the removal of its
  credentials, nothing recreates a purged node.
* `PeersKeepTheRest`: a purge takes nothing else from the peers, provided a probe
  name never changes its target.
* `RoundsOfPeersStay`: skipping a probe round because the row read had one as new loses
  no round of a card, although a purge of another node takes probes from rows and
  rounds meanwhile.  Nodes that were purged themselves are left out (section 4).
* `PurgedStaysPurged`: a rebuild that read a node before its purge writes nothing back.
* `WholeDays`, `AveragesOnlyGain`: a day one run has covered after its last report
  keeps the average of all its samples until that expires, whatever was missed before
  and although the raw rows go.  Days with a round that goes beyond midnight are left
  out (section 4).

Management:

* `ComparedNotOverwritten`: a publication of a command that compares first changes no
  credential on the Worker but that of a node its machine is deleting.
* `DoneMeansGone`: what was reported deleted is gone from the Worker, the host, the
  peers' files and the copy.
* `CutLinksAreDeployed`: a link removed from a peer's file is removed from its Agent
  too, or the job still knows the peer.  It and `DoneMeansGone` hold where one machine
  deploys, as in the run: a second one with a copy from before the deletion could still
  install the Agent, since `installNode` consults only the copy.
* `DeletionEnds`: a deletion once begun ends, also when two nodes that probe each
  other go at once; it waits for a peer that is revoked, which the tool refuses to
  deploy.

One VPS:

* `DeploymentRecoverable`: a script that ends by itself leaves one version, the new or
  the previous one, and an Agent that runs what is installed; if it was cut short, a
  backup of one whole version is there for as long as the files are of several.
* `TotalsAreTrue`, `TotalsOnlyGrow`: the total of an interface is at most what it has
  moved since the count of its period began, and exactly that, if its counter has not
  started again; it does not fall when the clock goes back over a reset day and on.

Bot and dashboard: `OnlyOwnerServed`, `AnsweredOnce` (twice only if an answer arrived
in a call that failed), `CommandAnswered` (unless the claim was left behind),
`OneSessionPerLink`, `DetailMatchesSelection`, `DeletedNotKept`, `SignedOutForGood`,
`NewerSnapshotStays`, `LoadingEnds`, `DeletionReachesPage`.

`PROJECT.json` names, for every property, a plausible bug (a definition marked
`Mutant` in the module) under which TLC finds the property violated.

## 4. Findings

1. **A retry blanks the rate.**  A report resent after a lost answer is compared
   with its own row: the elapsed time is 0, the rates are null, and `>=` in the
   upsert puts them on the card (`observability.ts:37`, `index.ts:302`).  The
   methodology, section 12, lists other causes only.  The history keeps the rate.
2. **A report in flight recreates a purged node.**  An invocation authenticated
   before the credentials were removed can commit after the purge was verified
   and answered `deleted: true` (`index.ts:385`).  The window is one invocation.
   The daily rebuild guards against this, the report path does not.
3. **A purge finds links by probe name, and names are reused.**  After a link
   named `link` was moved from one node to another, purging the second node
   removes the measurements of the first (`node-deletion.ts:129`).
4. **A setup from an old copy removes a key.**  `setup`, which is offered again for an
   existing deployment, publishes the keys of its copy without the comparison that
   `docs/reference/development.md:62` promises (`lumectl.mjs:973`).  A node that another machine has
   added meanwhile loses its key, and the machine then notes the loss as what it knows.

Seen while modelling or proving, and part of the models, but promised by no document,
so without a run:

* A service that one report leaves out and the next one names again in the state
  `unknown` comes back without an event, since `unknown` is what the comparison takes a
  missing state for (`index.ts:363`; the Agent sends `unknown` when systemctl gives no
  state).
* A late report whose round is not newer than the card's leaves that round out
  (`index.ts:317`).  If the card then goes to a report with an older round or none, a
  retry of the late report stores the round after all.

The attempts to prove `EventsExplainCard` and `RetryAddsNothing` without these two
cases failed at them, TLC found the counterexamples once the instance of `history` had
such reports, and the properties now name them.

* A purge erases the rounds of a node after an invocation has read its row.  If its
  report repeats the round of that row (a retry, or the cached probes of
  `main.go:73-76`), the batch skips the round (`index.ts:317`), and the card it puts back
  shows a round the history lacks, until the next newer one.  That the card comes back
  is finding 2; asked of purged nodes too, `RoundsOfPeersStay` is refuted in `deletion`.
* A round that goes beyond midnight at the start of the window is selected by its last
  probe, so that its first probes make a group for the day before, which replaces that
  day's finished average by one of a probe or two (`observability.ts:178`).  `WholeDays`
  and `AveragesOnlyGain` leave such days out and are refuted without that.
* The confirmation of a binding is never sent again once its first sending failed: the
  update comes again, but is then from the owner and no command (`telegram.ts:178`).
* `node configure` saves the changed file before it notes that the file awaits
  deployment (`lumectl.mjs:1170`).
* An installation that is cut between its three copies, or fails before its rollback is
  defined, leaves files that both scripts refuse afterwards: the installer what
  exists, the upgrade what is missing (`install-agent.sh:34-40`,
  `upgrade-agent.sh:90-95`), while the guide says an interrupted deployment is
  continued from the menu.
* An upgrade that is cut after `systemctl stop` and tried again finds the Agent stopped
  and leaves it so (`upgrade-agent.sh:144`); so does one that meets the Agent while
  systemd waits to start it again, which is not `active` either.
* An upgrade that is undone after its Agent has counted with other traffic settings
  leaves totals that start from zero, under the old settings as well.
* The guide (line 123) and the methodology (line 199) say that traffic is not counted
  while the Agent is stopped; within one boot it is, as the tests of `traffic` demand, and `TotalsAreTrue` says so too.
* Every rollback of the Worker is refused before its first change, because the
  dashboard data that its baseline is made of has no `app_version` (`lumectl.mjs:749`,
  `dashboard-data.ts:188-195`).

## 5. Proofs

Assumed about the constants: that they are well formed (requests, inventories,
messages, samples, settings), that bounds are naturals, that `None` is no value of
the sets it is joined to, and in `Rollups` that the window is shorter than the time
raw rows are kept.  These are the `ASSUME`s of the modules, which TLC evaluates.
All theorems are of the form `Spec => []Inv`, `Spec => [][A]_vars`, or
that of a refinement; seven have hypotheses about constants besides (`OneInvocation`,
`OneReportPerTime`, `OneTarget`, `OneDeployer`), given with them below.  They hold for any number of nodes, invocations, machines and so on.

* `ReportIngestProofs`: `TypeCorrect`, `CardIsNewest`, `RoundsAreKept`,
  `ComparisonsLookBack`, `StoreImplemented`, `RatesApart`.  None of the invariants is inductive:
  a batch is decided from `prior[h]`, which the tables may no longer hold.  The
  inductive invariant is

      IInv == TypeOK /\ LatestIsNewest /\ NewestRoundRecorded
              /\ DerivedFromOlder /\ PriorBacked

  where `PriorBacked` says that the row an invocation read has a sample in the
  history, and a round as new as its own.  It is preserved because history only
  grows, and gives each commit the older report that its rate, its events and its
  skipped round rely on.  The lemmas on the nonce list are here too: what `NextNonces`
  and `Replayed` return is related entry by entry to the list they were given
  (`Fresh` is a recursive function, since the prover does not know `SelectSeq`), by
  induction over the length of a prefix in the form of `UpTo`: there is no least length
  for which the claim fails.  `RatesApart` assumes `OneInvocation` (at most one element in
  `Handlers`): the row read is then still the card (`PriorCurrent`).  Two invocations
  that read the same row both derive a rate from it, and the spans overlap.
* `ReportDeliveryProofs`: `DeliveryIngests` (every step of the composition is a
  step of `ReportIngest` or a stutter, so everything proved there holds here) and
  `NewestIsKept`, by

      DInv == IInv /\ AgentTypeOK /\ JobNonces /\ AnswersMatch /\ NewestSurvives

  `JobNonces` and `AnswersMatch` tie the nonce the Agent waits for to the
  report its request carried, so that a late answer to an earlier request is never
  taken for the current one.
  `RetriesAccepted` adds, in `UInv`, that a nonce somebody remembers (`Noted`: on the
  list of a card or on the one an invocation is about to write) belongs to no request
  in the network and to no invocation that has still to look at the list.  A number is
  used for one request, and a request leaves the network when it is delivered.

  The theorems about `ReportHistory`, whose steps are steps of `ReportIngest` by
  definition, are in the same module: `RetriesAddNothing`, `EventsExplain`,
  `ReplaysRefused`.  All assume `OneInvocation`, under which the row an invocation read is still the card.  They share
  `HBase` and a description of what a recorded commit does (`Recorded`), and add:
  - `LInv`: the card is an accepted report that won; what was accepted has its sample,
    and its round unless a card had one as new (`RoundsKept`).
  - `EInv`: `EventsExplainCard` is inductive on top of `LInv`, case by case: a report
    that becomes the card adds an event exactly where it differs from the card, dated
    later than all others of the node; a late one adds none.  `EventsExplain` also assumes
    `OneReportPerTime`: requests of a node with the same `generated_at` carry the same
    state.  An Agent makes one report per interval of 30 s or more and is started again
    after 15 s at the earliest, so only repetitions share the time.  Two different reports
    of one second would put the second on the card (`>=`) without an event.
  - `NInv`: a request that became the card is on the nonce list behind at most as many
    entries as reports became the card since, or it is too old, or there were `NonceLimit`
    of them (`WonRemembered`); what an invocation has decided it decided on the list that
    is still there (`NoncesCurrent`); requests are recorded in the order in which they
    arrived (`TimesOrdered`).
* `NodeDeletionProofs`: `DeletionTypeCorrect`, `CardStaysNewest`,
  `LockAlwaysHolds`, `ErasedForGood`, `PurgeKeepsTheRest`, `PeerRoundsStay`.  History shrinks here, so `PriorBacked` is
  false and `LatestIsNewest` is proved from the upsert's clause alone.
  `ErasedForGood` rests on `Credentialed`: an invocation runs only for a node
  whose secret is among the bindings it captured, and stores no probe towards a
  node without one.  `PurgeKeepsTheRest` assumes `OneTarget` (no probe name is used for
  a second target; the run `reused_name` shows what happens otherwise) and rests on
  `SaidInv`: catalog, cards and history give a probe the target a request gave it.
  `PeerRoundsStay` rests on `PriorRounds`: the row an invocation has read still has its
  round in the history, unless its node was purged; a purge of another node keeps the
  times of the rounds and makes the round on a card no newer.
* `RollupsProofs`: `RollupsTypesCorrect`, `NoPurgedAverages`, `AveragesGrow`,
  `DaysEndWhole`.  A run
  selects whole days and raw rows outlast the window, so a run that selects one sample
  of a day selects every sample of it ever accepted; hence what it is about to write
  contains the average that is there (the invariant relates `run.todo`, `rollups`,
  `raw` and `accepted`).  Purged nodes are not in the catalog, which is what the guard
  of a batch asks.
  `DaysEndWhole` adds `WInv`: a run that has failed at nothing has written, or is about
  to write, the average of all samples of every covered day that is over, and no
  report of such a day can still come unless its round goes beyond midnight.
* `ManagementProofs`: `ManagementTypesCorrect`, `ComparedKeysStay`, `DeletedIsGone`,
  `CutsAreDeployed`.  The invariant says
  that a copy differs from the list it last saw only for nodes it is adding or
  deleting, and that between the comparison and the write the Worker's list is the
  one compared, for commands are serial.  `setup` has no such step (finding 4).
  The last two assume one deploying machine (`OneDeployer`) and rest on `DInv`: what
  a deletion has achieved at each stage, a job that has seen its Agent removed keeps
  it from being installed, and a peer whose link was cut is on the job until it has
  been deployed.
* `TelegramBotProofs`: `BotTypesCorrect`, `OneOwner`, `OneAnswer`.  The owner never
  changes; the claim of an invocation at work was made within its own unit of time, so
  the cleanup cannot take it; a claim that was removed belongs to an update Telegram
  has given up.  An answered update is therefore still claimed, or dead, or its answer
  was unsure.
* `DashboardPageProofs`: `DashboardTypesCorrect`, `OneSession`, `DetailSelected`,
  `DeletedGone`, `SignedOut`, `SnapshotsInOrder`.  There is one request for each thing
  that can be asked; an answer under way knows no more nodes than the snapshot shown,
  since the page asks for the next one only when it has the last; nodes that are gone
  do not come back; a page that ended its session holds nothing; a token that was used,
  or is being used, cannot be used.
* `AgentHostProofs`: `TypesAlways`, `RecoverableAlways`, `TotalsAlwaysTrue`,
  `TotalsAlwaysGrow`.  What the scripts leave is proved from `ScriptInv`, which says
  for each command what is in place: the files copied so far, a last backup with every
  file, one whole backup among them, and whether the Agent may run.  A last backup of
  mixed versions is possible only after a script that was cut short.  The totals rest on
  `CounterTrue` (an interface has moved at least what its counter has grown by since the
  last sample, and just that unless it has started again) and on `PeriodsInOrder`
  (periods counted before are not later than the present one, since a sample after a
  step back is not taken).

Only model-checked: liveness (`RecoversFromTrouble`, `DeletionEnds`, `CommandAnswered`,
`LoadingEnds`, `DeletionReachesPage`), which rests on fairness, hence on `ENABLED`, and
is outside the prover.  Every invariant and every action property that a passing run
checks is stated by a theorem.  Induction over data with the library's theorems is
outside the prover as well; no module uses `ENABLED` or a RECURSIVE operator.

## 6. Not modelled

* Bytes: HMAC is equality of secrets, JSON and validation messages are absent, the
  ranges validation guarantees are the type `Report`.
* `ReportIngest` and what extends it: the daily cleanup of samples, rounds and events
  (`index.ts:435-441`).  `LatestIsNewest`, `NewestRoundRecorded`, `RoundsOfPeersStay`,
  `DerivedFromOlder` and `EventsExplainCard` speak of rows within their retention: a card
  outlives the samples, rounds and events that go with age.  `Rollups` has the expiry of
  raw rows.
* A prior row whose report_json no longer validates after an upgrade, which the
  code treats as no previous report.
* `ReportDelivery`: the clocks of Agent and Worker agree; two cycles never share a
  second (interval 30 s or more, restart after 15 s); `-once` and `-dry-run`; a
  report over the spool's 64 KiB; request duplication (Go's transport does not
  repeat a POST; duplicates are covered by `ReportIngest` and `ReportHistory`).
* `NodeDeletion`: a client that gives up on a purge which goes on.
* `Rollups`: the numbers of an average; that a report may be up to a probe interval
  newer than the round it carries, so that its round may arrive a little more than a day
  old (an interval is at most an hour, the window of a rebuild three days).
* `Management`: commands that run at the same time on two machines, which
  `docs/reference/development.md` forbids; adoption is one step; which installer is
  chosen, the fingerprints of a configuration and the audit after it; prompts.
  `DeletionEnds` says nothing of peers that are revoked.
* `AgentHost`: received and sent bytes are one count, and counters do not overflow
  64 bits; the months and time zones behind the midnights; two backups of the same
  second, which would share a directory; the directories, the account and the modes of
  the files; the other services that the scripts protect, whose change is a failure; that interfaces
  chosen automatically may be others after a change of routes (`network.go:112-118`),
  which the code treats like changed settings.
* `TelegramBot`: the text of the status, the command menu, the registration of the
  webhook; updates that are no private messages, which are answered and ignored.
* `DashboardPage`: nodes that are added or come back (`index.ts:385`), so that
  `NewerSnapshotStays` speaks of deletions only; what the charts show, the numbers of the histories, URL and scroll;
  which entry the cache loses when it is full is left open.
* The Worker's deployment and rollback (`worker-rollback.mjs`, parts of `lumectl.mjs`):
  one process that deploys, waits for reports and deploys again, with no state between
  attempts; the Cloudflare services that decide how it goes are not in the repository,
  and at present it is refused before its first change (section 4).
* Collection from /proc, checks and probes, charts, prompts, `audit-agent.sh`, CI:
  they change no state that another part reads, or only produce the reports that the
  models enumerate.

## 7. What is left

1. `WorkerRollback`, once a rollback can start: the previous version runs again after
   every failure, and a schema that was migrated meanwhile is still read by it.
2. What two invocations at a time still guarantee of the event list and of the nonces.
3. Two commands of the management tool at the same time, to see what the serial rule
   protects from.
