---------------------------- MODULE NodeDeletion ----------------------------
(***************************************************************************)
(* Taking a node offline, on the Worker's side: the admin handlers of      *)
(* worker/src/node-deletion.ts next to the report path (ReportIngest).     *)
(*                                                                         *)
(* The management tool first removes the node from both credential lists   *)
(* (Publish), then sets the deletion lock (PrepareDeletion), cleans up the *)
(* hosts, and finally purges the node.  A purge is one invocation of three *)
(* steps between which reports go on arriving: checks, one atomic batch,   *)
(* and a count of what is left.  Reports authenticated before the          *)
(* credentials went are still being served with the bindings they captured.*)
(***************************************************************************)
EXTENDS ReportIngest

VARIABLES
  purging,  \* purging[n]: how far the purge of n has come
  gone,     \* the nodes whose purge was answered "deleted", until published anew
  measured, \* what the stored rounds measured: [node, at, probe, target]
  purged    \* the nodes that a purge has ever erased

deletionVars == <<vars, purging, gone, measured, purged>>

DeletionInit ==
  /\ Init
  /\ purging = [n \in Nodes |-> "none"]
  /\ gone = {}
  /\ measured = {}
  /\ purged = {}

-----------------------------------------------------------------------------

CredentialsRemoved(n) == env.keys[n] = None /\ n \notin env.revoked

\* Mutant: whatever the peer has catalogued is taken for its link to n.
AnyProbe(m, p, n) == catalog[m].probes[p] # None

\* A probe of node m, as catalogued, that measures the link to node n.
Linked(m, p, n) == catalog[m].probes[p] # None /\ catalog[m].probes[p].target = n

\* The catalog entry of a node without rows.
NoEntry ==
  [node |-> "absent", retired |-> FALSE,
   services |-> [s \in Services |-> "absent"], probes |-> [p \in Probes |-> None]]

SwitchedOff(state) == IF state = "absent" THEN "absent" ELSE "off"

\* Mutant: a table missing from nodeTables.
TableForgotten(rows, n) == rows

\* DELETE FROM <table> WHERE node_id = n.
Without(rows, n) == {t \in rows : t.node # n}

\* The peer's row without the observations that refer to n, by their target or by
\* the name the peer's catalog gives the link.
Unlinked(m, n) ==
  [latest[m] EXCEPT !.report.probes = [p \in Probes |->
     IF @[p] = None THEN None
     ELSE IF @[p].target = n \/ Linked(m, p, n) THEN None ELSE @[p]]]

\* Mutant: a peer's round goes as a whole when it holds the link.
RoundsDropped(n) ==
  {x \in Without(rounds, n) : \A p \in x.probes : ~ Linked(x.node, p, n)}

\* The rounds without those of n, the peers' ones without the link to n, though the
\* row stays when that empties it.
RoundsWithout(n) ==
  {[x EXCEPT !.probes = {p \in @ : ~ Linked(x.node, p, n)}] : x \in Without(rounds, n)}

\* The rows the summary counts: those of the node and the peers' probes to it.
Remains(n) ==
  \/ latest[n] # None \/ catalog[n].node # "absent"
  \/ \E s \in Services : catalog[n].services[s] # "absent"
  \/ \E p \in Probes : catalog[n].probes[p] # None
  \/ \E t \in samples \cup rounds \cup events : t.node = n
  \/ \E m \in Nodes \ {n}, p \in Probes : Linked(m, p, n)

\* The lock: the node is disabled and retired_at is set, when it has a row; its
\* services, its probes and the probes towards it are disabled.
PrepareDeletion(n) ==
  /\ CredentialsRemoved(n)
  /\ catalog' = [m \in Nodes |->
       [node     |-> IF m = n THEN SwitchedOff(catalog[m].node) ELSE catalog[m].node,
        retired  |-> catalog[m].retired \/ (m = n /\ catalog[m].node # "absent"),
        services |-> IF m = n THEN [s \in Services |-> SwitchedOff(catalog[m].services[s])]
                     ELSE catalog[m].services,
        probes   |-> [p \in Probes |->
          IF catalog[m].probes[p] # None /\ (m = n \/ Linked(m, p, n))
          THEN [catalog[m].probes[p] EXCEPT !.enabled = FALSE]
          ELSE catalog[m].probes[p]]]]
  /\ UNCHANGED <<now, env, handlerVars, latest, recentNonces, samples, rounds, events,
                 purging, gone, measured, purged>>

\* 409 unless the credentials are gone and an enabled node has its lock.
CheckPurge(n) ==
  /\ purging[n] = "none"
  /\ CredentialsRemoved(n)
  /\ catalog[n].node = "on" => catalog[n].retired
  /\ purging' = [purging EXCEPT ![n] = "checked"]
  /\ UNCHANGED <<vars, gone, measured, purged>>

\* The node leaves every table; from the peers go the probes that measured the
\* link to it, by the names their catalogs give them, and nothing else.
Erase(n) ==
  /\ purging[n] = "checked"
  /\ purging' = [purging EXCEPT ![n] = "erased"]
  /\ latest' = [m \in Nodes |->
       IF m = n \/ latest[m] = None THEN None ELSE Unlinked(m, n)]
  /\ recentNonces' = [recentNonces EXCEPT ![n] = <<>>]
  /\ samples' = Without(samples, n)
  /\ events' = Without(events, n)
  /\ rounds' = RoundsWithout(n)
  /\ catalog' = [m \in Nodes |->
       IF m = n THEN NoEntry
       ELSE [catalog[m] EXCEPT !.probes =
              [p \in Probes |-> IF Linked(m, p, n) THEN None ELSE @[p]]]]
  /\ measured' = Without(measured, n)
  /\ purged' = purged \cup {n}
  /\ UNCHANGED <<now, env, handlerVars, gone>>

\* "node deletion verification failed" when rows are back already.
VerifyPurge(n) ==
  /\ purging[n] = "erased"
  /\ purging' = [purging EXCEPT ![n] = "none"]
  /\ gone' = IF Remains(n) THEN gone ELSE gone \cup {n}
  /\ UNCHANGED <<vars, measured, purged>>

\* The invocation is evicted or a D1 call throws; the tool may try again.
AbortPurge(n) ==
  /\ purging[n] # "none"
  /\ purging' = [purging EXCEPT ![n] = "none"]
  /\ UNCHANGED <<vars, gone, measured, purged>>

\* A step of the report path; a node published again is a new node.  A round is
\* inserted with the catalog rows of its probes, which hold their targets.
ReportStep ==
  /\ Next
  /\ measured' = measured \cup UNION
       {{[node |-> x.node, at |-> x.at, probe |-> p, target |-> catalog'[x.node].probes[p].target] :
           p \in x.probes} : x \in rounds' \ rounds}
  /\ gone' = {n \in gone : env'.keys[n] = None}
  /\ UNCHANGED <<purging, purged>>

DeletionNext ==
  \/ ReportStep
  \/ \E n \in Nodes : \/ PrepareDeletion(n) \/ CheckPurge(n) \/ Erase(n)
                      \/ VerifyPurge(n) \/ AbortPurge(n)

DeletionSpec == DeletionInit /\ [][DeletionNext]_deletionVars

-----------------------------------------------------------------------------
(***************************************************************************)
(* What the dashboard shows (loadDashboardCatalog).                        *)
(***************************************************************************)

Shown(n) == catalog[n].node = "on" /\ ~ catalog[n].retired

\* Targets without a row of their own are not filtered.
ProbeShown(m, p) ==
  /\ Shown(m)
  /\ catalog[m].probes[p] # None
  /\ catalog[m].probes[p].enabled
  /\ catalog[m].probes[p].target # None => ~ catalog[catalog[m].probes[p].target].retired

\* Neither the node nor a probe towards it is on the dashboard.
Hidden(n) == ~ Shown(n) /\ \A m \in Nodes, p \in Probes : Linked(m, p, n) => ~ ProbeShown(m, p)

-----------------------------------------------------------------------------
(***************************************************************************)
(* Properties.                                                             *)
(***************************************************************************)

\* Nothing of the node is stored, peers' reports included.
Erased(n) ==
  /\ ~ Remains(n)
  /\ \A m \in Nodes, p \in Probes :
       latest[m] # None /\ latest[m].report.probes[p] # None =>
         latest[m].report.probes[p].target # n

\* No invocation in flight was authenticated while n had credentials.
Drained(n) == \A h \in Handlers : phase[h] # "idle" => job[h].keys[n] = None

\* The lock holds: once set, the reports still in flight and those of the peers
\* enable what they like, but neither the node nor a probe towards it is shown
\* again before the purge.
LockHolds ==
  [][\A n \in Nodes : catalog[n].retired /\ ~ Erase(n) => Hidden(n)']_deletionVars

\* Queued peer reports cannot recreate a deleted node (index.ts:252): when no
\* invocation from before the removal of its credentials is left, what is erased
\* stays erased until the node is published again, whoever still probes it.
ErasedStaysErased ==
  [][\A n \in Nodes :
       Erased(n) /\ Drained(n) /\ env.keys[n] = None /\ env'.keys[n] = None
       => Erased(n)' /\ Drained(n)']_deletionVars

\* The measurement o is in the history.
Held(o) == \E x \in rounds : x.node = o.node /\ x.at = o.at /\ o.probe \in x.probes

\* A purge removes only what refers to the node (node-deletion.ts:21 and 110): what
\* the peers measured towards other targets stays, on their cards and in their
\* history.  It holds as long as no probe name is used for a second target, since
\* the purge finds the link by its name.
PeersKeepTheRest ==
  [][\A n \in Nodes : Erase(n) =>
       /\ \A o \in measured : o.node # n /\ o.target # n /\ Held(o) => Held(o)'
       /\ \A m \in Nodes \ {n} : latest[m] # None =>
            /\ latest'[m] # None
            /\ \A p \in Probes :
                 LET probe == latest[m].report.probes[p]
                 IN  probe # None /\ probe.target # n => latest'[m].report.probes[p] = probe]_deletionVars

\* Purging its neighbours takes no probe round of a card from the history, although
\* a purge empties rounds that invocations at work have read and will not insert
\* again (index.ts:317).  A node that was purged itself is left out: an invocation
\* that read its row before the purge puts a card back whose round is gone.
RoundsOfPeersStay == \A n \in Nodes \ purged : RoundRecorded(n)

\* A node whose purge was answered "deleted" has left no trace.  The Worker means
\* this to hold against queued reports (index.ts:252) and against rebuilds in
\* flight (observability.ts:155); a report in flight breaks it.
DeletedStaysDeleted == \A n \in gone : Erased(n)
=============================================================================
