------------------------------ MODULE Management ------------------------------
(***************************************************************************)
(* The management tool (tools/lumectl.mjs) on one or more operators'       *)
(* machines: the credentials it publishes to the Worker, the configurations *)
(* it deploys to Agents, and the resumable job that takes a node offline.  *)
(*                                                                         *)
(* Every machine keeps a private copy (.lume/) of what it manages and      *)
(* compares it with the Worker's before it overwrites anything.  Commands  *)
(* run one at a time (development.md: operations must be serial); each is a *)
(* sequence of steps, every one of which saves the copy or calls out, and  *)
(* may be interrupted between any two of them.  An answer that is lost is  *)
(* an interruption after the step it answers.                              *)
(***************************************************************************)
EXTENDS Naturals

CONSTANTS
  Hosts,         \* operators' machines, each with a copy
  Deployers,     \* those that reach the VPSs by SSH
  Nodes, Secrets, None,
  FirstKeys,     \* NODE_KEYS of the deployment the behaviour starts from
  FirstTargets,  \* whom each Agent probes there
  MaxCommands,   \* commands other than resumed deletions (bound of the search)
  MaxFaults      \* interruptions (bound of the search)

\* A configuration file, an entry of state.json's nodes and one of its pendingDeletes.
Config == [secret : Secrets, targets : SUBSET Nodes]
Managed == [pending : BOOLEAN, confirm : BOOLEAN]
Job == [peers : SUBSET Nodes, remoteDone : BOOLEAN]

ASSUME ManagementAssumption ==
  /\ Deployers \subseteq Hosts
  /\ None \notin Nodes \cup Secrets \cup Config \cup Managed \cup Job
  /\ FirstKeys \in [Nodes -> Secrets \cup {None}]
  /\ FirstTargets \in [Nodes -> SUBSET Nodes]
  /\ MaxCommands \in Nat /\ MaxFaults \in Nat

VARIABLES
  server,    \* the Worker's secrets: [keys, revoked]
  rows,      \* node_catalog: "none", "live", or "locked" by retired_at
  links,     \* probe_catalog: <<m, n>> when m has a probe towards n
  agent,     \* the configuration installed on each VPS: [secret, targets]
  host,      \* the copy of each machine
  op,        \* the command at work
  used,      \* secrets generated so far
  budget,    \* commands and faults so far: [commands, faults]
  gone,      \* <<h, n>>: h has reported n as deleted, until n is named again
  cut        \* <<h, m, n>>: h removed the probe towards n from m's configuration

remote == <<server, rows, links, agent>>
ghosts == <<gone, cut>>
vars == <<remote, host, op, used, budget, ghosts>>

Inventory == [keys : [Nodes -> Secrets \cup {None}], revoked : SUBSET Nodes]

\* state.json (nodeKeys, revokedNodeIds, keyInventory, nodes, pendingDeletes) and
\* the configuration files.
Copy == [keys : [Nodes -> Secrets \cup {None}], revoked : SUBSET Nodes, seen : Inventory,
         nodes : [Nodes -> Managed \cup {None}], jobs : [Nodes -> Job \cup {None}],
         config : [Nodes -> Config \cup {None}]]

Kinds == {"add", "configure", "apply", "delete", "revoke", "sync", "setup"}
Stages == {"save", "mark", "install", "confirm", "drop", "check_keys", "put_keys", "note_keys",
           "check_revoked", "put_revoked", "note_revoked", "lock", "uninstall", "uninstalled",
           "clean", "detach", "purge", "sweep"}
\* todo: the nodes still to deploy; on: the one being confirmed.
Command == [kind : Kinds, host : Hosts, node : Nodes \cup {None}, at : Stages,
            todo : SUBSET Nodes, on : Nodes \cup {None}]

TypeOK ==
  /\ server \in Inventory
  /\ rows \in [Nodes -> {"none", "live", "locked"}]
  /\ links \subseteq Nodes \X Nodes
  /\ agent \in [Nodes -> Config \cup {None}]
  /\ host \in [Hosts -> Copy]
  /\ op \in Command \cup {None}
  /\ used \subseteq Secrets
  /\ budget \in [commands : 0..MaxCommands, faults : 0..MaxFaults]
  /\ gone \subseteq Hosts \X Nodes
  /\ cut \subseteq Hosts \X Nodes \X Nodes

-----------------------------------------------------------------------------

Installed == {n \in Nodes : FirstKeys[n] # None}
FirstConfig == [n \in Nodes |->
  IF n \in Installed THEN [secret |-> FirstKeys[n], targets |-> FirstTargets[n]] ELSE None]

\* A deployment at work, managed or adopted by every machine.
Init ==
  /\ server = [keys |-> FirstKeys, revoked |-> {}]
  /\ rows = [n \in Nodes |-> IF n \in Installed THEN "live" ELSE "none"]
  /\ links = {l \in Installed \X Installed : l[2] \in FirstTargets[l[1]]}
  /\ agent = FirstConfig
  /\ host = [h \in Hosts |->
       [keys |-> FirstKeys, revoked |-> {}, seen |-> [keys |-> FirstKeys, revoked |-> {}],
        nodes |-> [n \in Nodes |->
          IF n \in Installed THEN [pending |-> FALSE, confirm |-> FALSE] ELSE None],
        jobs |-> [n \in Nodes |-> None], config |-> FirstConfig]]
  /\ op = None
  /\ used = {FirstKeys[n] : n \in Installed}
  /\ budget = [commands |-> 0, faults |-> 0]
  /\ gone = {} /\ cut = {}

\* Mutant: the comparison never refuses.
Trusting(h) == TRUE

\* The list the copy stands for, and whether the Worker's list is that one or the
\* last one seen there; anything else is another machine's change.
Intended(h) == [keys |-> host[h].keys, revoked |-> host[h].revoked]
Accepts(h) == server \in {host[h].seen, Intended(h)}

KnownNodes(h) == {n \in Nodes : host[h].nodes[n] # None}
Leaving(h) == {n \in Nodes : host[h].jobs[n] # None}

Begin(kind, h, n, at, todo) ==
  op' = [kind |-> kind, host |-> h, node |-> n, at |-> at, todo |-> todo, on |-> None]
Step(stage) == op # None /\ op.at = stage
Goto(stage) == op' = [op EXCEPT !.at = stage]
Spend ==
  /\ op = None
  /\ budget.commands < MaxCommands
  /\ budget' = [budget EXCEPT !.commands = @ + 1]

\* Mutant: the entry is replaced, not marked.
MarkedAfresh(copy, ids) ==
  [copy EXCEPT !.nodes = [m \in Nodes |-> IF m \in ids THEN [pending |-> TRUE] ELSE @[m]]]

\* The copy with nodes marked as awaiting deployment.
Marked(copy, ids) ==
  [copy EXCEPT !.nodes = [m \in Nodes |->
     IF m \in ids /\ @[m] # None THEN [@[m] EXCEPT !.pending = TRUE] ELSE @[m]]]

\* Mutant: links to nodes without credentials too.
CataloguedAll(n) ==
  /\ rows' = [rows EXCEPT ![n] = IF @ = "none" THEN "live" ELSE @]
  /\ links' = links \cup {<<n, t>> : t \in agent[n].targets}

\* A report of n that the Worker accepts: the catalog gets its row and its links to
\* nodes with credentials; a locked row stays locked.
Authentic(n) ==
  agent[n] # None /\ n \notin server.revoked /\ server.keys[n] = agent[n].secret
Catalogued(n) ==
  /\ rows' = [rows EXCEPT ![n] = IF @ = "none" THEN "live" ELSE @]
  /\ links' = links \cup {<<n, t>> : t \in {t \in agent[n].targets : server.keys[t] # None}}

Report(n) ==
  /\ Authentic(n) /\ Catalogued(n)
  /\ UNCHANGED <<server, agent, host, op, used, budget, ghosts>>

-----------------------------------------------------------------------------
(***************************************************************************)
(* Publishing the two lists (publishNodeKeys, publishRevokedNodeIds).      *)
(***************************************************************************)

\* The next stage of a command whose list has been noted; op is None at its end.
AfterKeys == CASE op.kind = "delete" -> Goto("check_revoked")
               [] op.kind = "add" -> Goto("install") \/ op' = None
               [] OTHER -> op' = None
AfterRevoked == IF op.kind = "delete" THEN Goto("lock") ELSE op' = None

CheckKeys ==
  /\ Step("check_keys")
  /\ \/ /\ Accepts(op.host)
        /\ host' = [host EXCEPT ![op.host].seen = server]
        /\ Goto("put_keys")
     \/ ~ Accepts(op.host) /\ op' = None /\ UNCHANGED host
  /\ UNCHANGED <<remote, used, budget, ghosts>>

PutKeys ==
  /\ Step("put_keys")
  /\ server' = [server EXCEPT !.keys = host[op.host].keys]
  /\ gone' = {g \in gone : host[op.host].keys[g[2]] = None}
  /\ Goto("note_keys")
  /\ UNCHANGED <<rows, links, agent, host, used, budget, cut>>

\* Setup reads both lists back; the others note what they published.
NoteKeys ==
  /\ Step("note_keys")
  /\ host' = [host EXCEPT ![op.host] =
       IF op.kind = "setup" THEN [@ EXCEPT !.seen = server, !.revoked = server.revoked]
                            ELSE [@ EXCEPT !.seen.keys = host[op.host].keys]]
  /\ AfterKeys
  /\ UNCHANGED <<remote, used, budget, ghosts>>

\* A deletion takes the node off the list in memory; the list is saved whether or
\* not the comparison, which uses it, succeeds.
CheckRevoked ==
  LET h == op.host
      asked == IF op.kind = "delete" THEN host[h].revoked \ {op.node} ELSE host[h].revoked
      known == server \in {host[h].seen, [keys |-> host[h].keys, revoked |-> asked]}
  IN  /\ Step("check_revoked")
      /\ host' = [host EXCEPT ![h].revoked = asked,
                              ![h].seen = IF known THEN server ELSE @]
      /\ IF known THEN Goto("put_revoked") ELSE op' = None
      /\ UNCHANGED <<remote, used, budget, ghosts>>

PutRevoked ==
  /\ Step("put_revoked")
  /\ server' = [server EXCEPT !.revoked = host[op.host].revoked]
  /\ gone' = {g \in gone : g[2] \notin host[op.host].revoked}
  /\ Goto("note_revoked")
  /\ UNCHANGED <<rows, links, agent, host, used, budget, cut>>

NoteRevoked ==
  /\ Step("note_revoked")
  /\ host' = [host EXCEPT ![op.host].seen.revoked = host[op.host].revoked]
  /\ AfterRevoked
  /\ UNCHANGED <<remote, used, budget, ghosts>>

Publication == CheckKeys \/ PutKeys \/ NoteKeys \/ CheckRevoked \/ PutRevoked \/ NoteRevoked

-----------------------------------------------------------------------------
(***************************************************************************)
(* Commands on single nodes, and deployment.                               *)
(***************************************************************************)

\* node add: the configuration file with a new secret, then the record, then the
\* publication, then the first installation if the operator gave a target.
Add(h, n, secret, targets) ==
  /\ Spend /\ Accepts(h)
  /\ host[h].keys[n] = None /\ host[h].nodes[n] = None /\ host[h].jobs[n] = None
  /\ secret \in Secrets \ used
  /\ targets \subseteq KnownNodes(h) \ Leaving(h)
  /\ used' = used \cup {secret}
  /\ host' = [host EXCEPT ![h].seen = server,
                          ![h].config[n] = [secret |-> secret, targets |-> targets]]
  /\ gone' = {g \in gone : g[2] # n}
  /\ cut' = {c \in cut : c[2] # n /\ c[3] \notin targets}
  /\ Begin("add", h, n, "save", {n})
  /\ UNCHANGED remote

SaveNode ==
  /\ Step("save")
  /\ host' = [host EXCEPT ![op.host].keys[op.node] = host[op.host].config[op.node].secret,
                          ![op.host].nodes[op.node] = [pending |-> TRUE, confirm |-> FALSE]]
  /\ Goto("check_keys")
  /\ UNCHANGED <<remote, used, budget, ghosts>>

\* node configure: the file first, then the record that it awaits deployment.
Configure(h, n, targets) ==
  /\ Spend
  /\ host[h].nodes[n] # None /\ host[h].jobs[n] = None /\ host[h].config[n] # None
  /\ targets \subseteq (KnownNodes(h) \ Leaving(h)) \cup host[h].config[n].targets
  /\ n \notin targets /\ targets # host[h].config[n].targets
  /\ host' = [host EXCEPT ![h].config[n].targets = targets]
  /\ cut' = cut \ {<<h, n, t>> : t \in targets}
  /\ Begin("configure", h, n, "mark", {n})
  /\ UNCHANGED <<remote, used, gone>>

\* node apply, for one node or for all that await deployment.
Apply(h, ids) ==
  /\ Spend
  /\ ids # {} /\ ids \subseteq KnownNodes(h)
  /\ Begin("apply", h, None, "mark", ids)
  /\ UNCHANGED <<remote, host, used, ghosts>>

\* applyNodes: nodes going offline, and unknown ones, are refused as a whole; the
\* others are marked before the first is deployed.  A configuration may wait.
Mark ==
  LET h == op.host IN
  /\ Step("mark")
  /\ IF op.todo \cap Leaving(h) # {} \/ ~ op.todo \subseteq KnownNodes(h)
     THEN op' = None /\ UNCHANGED host
     ELSE /\ host' = [host EXCEPT ![h] = Marked(@, op.todo)]
          /\ Goto("install") \/ (op.kind = "configure" /\ op' = None)
  /\ UNCHANGED <<remote, used, budget, ghosts>>

Installable(h, n) ==
  /\ h \in Deployers
  /\ host[h].jobs[n] = None /\ host[h].nodes[n] # None /\ host[h].keys[n] # None
  /\ host[h].config[n] # None

\* installNode until the installer has run.
Install(n) ==
  LET h == op.host IN
  /\ Step("install") /\ n \in op.todo /\ Installable(h, n)
  /\ agent' = [agent EXCEPT ![n] = host[h].config[n]]
  /\ host' = [host EXCEPT ![h].nodes[n].pending = TRUE]
  /\ op' = [op EXCEPT !.at = "confirm", !.on = n]
  /\ UNCHANGED <<server, rows, links, used, budget, ghosts>>

Next1 == op' = [op EXCEPT !.at = "install", !.todo = @ \ {op.on}, !.on = None]

\* waitForFirstReport: while the tool polls adminNodes, a report comes that was signed
\* and made with the configuration just installed.
FirstReport(n) == Authentic(n) /\ Catalogued(n)

\* The Agent's report with the expected fingerprint is on the Worker.
Confirm ==
  /\ Step("confirm")
  /\ FirstReport(op.on)
  /\ host' = [host EXCEPT ![op.host].nodes[op.on] = [pending |-> FALSE, confirm |-> FALSE]]
  /\ Next1
  /\ UNCHANGED <<server, agent, used, budget, ghosts>>

\* The service had been stopped: the configuration is in place, unconfirmed.
LeaveStopped ==
  /\ Step("confirm")
  /\ host' = [host EXCEPT ![op.host].nodes[op.on].confirm = TRUE]
  /\ Next1
  /\ UNCHANGED <<remote, used, budget, ghosts>>

\* The node cannot be installed, or no such report comes within 90 s: the command
\* ends and the node stays pending.
GiveUp ==
  /\ \/ Step("install") /\ \E n \in op.todo : ~ Installable(op.host, n)
     \/ Step("confirm") /\ ~ Authentic(op.on)
  /\ op' = None
  /\ UNCHANGED <<remote, host, used, budget, ghosts>>

\* The last node is deployed: a deletion goes on, other commands end.
EndDeploy ==
  /\ Step("install") /\ op.todo = {}
  /\ IF op.kind = "delete" THEN Goto("purge") ELSE op' = None
  /\ UNCHANGED <<remote, host, used, budget, ghosts>>

Deployment == Mark \/ (\E n \in Nodes : Install(n)) \/ Confirm \/ LeaveStopped \/ GiveUp \/ EndDeploy

\* node revoke, with or without --undo.
Revoke(h, n, revoked) ==
  /\ Spend /\ Accepts(h)
  /\ revoked \in {host[h].revoked \cup {n}, host[h].revoked \ {n}}
  /\ host' = [host EXCEPT ![h].seen = server, ![h].revoked = revoked]
  /\ gone' = {g \in gone : g[2] # n}
  /\ Begin("revoke", h, n, "check_revoked", {})
  /\ UNCHANGED <<remote, used, cut>>

SyncKeys(h) ==
  /\ Spend
  /\ Begin("sync", h, None, "check_keys", {})
  /\ UNCHANGED <<remote, host, used, ghosts>>

\* setup on an existing deployment writes NODE_KEYS without the comparison.
Setup(h) ==
  /\ Spend
  /\ Begin("setup", h, None, "put_keys", {})
  /\ UNCHANGED <<remote, host, used, ghosts>>

\* What adminNodes answers about the deletion of n.
DeletionPending(n) == rows[n] = "locked"

\* verifyKeyInventory: the Worker's proof for n was made with the secret in config.
Proven(n, config) == config # None /\ config.secret = server.keys[n]

\* Adoption replaces the copy by the Worker's lists and the configurations of the
\* nodes on it, read by SSH or from files, here those of machine k, whose secrets the
\* Worker's proofs confirm.  Deletion jobs are kept, and those that the Worker shows
\* are added.
Adopt(h, k, bySsh) ==
  LET listed == {n \in Nodes : server.keys[n] # None}
      from(n) == IF n \in bySsh THEN agent[n] ELSE host[k].config[n]
  IN  /\ op = None
      /\ bySsh \subseteq listed
      /\ \A n \in listed : Proven(n, from(n))
      /\ host' = [host EXCEPT ![h] =
           [keys |-> server.keys, revoked |-> server.revoked, seen |-> server,
            nodes |-> [n \in Nodes |->
              IF n \in listed THEN [pending |-> FALSE, confirm |-> FALSE] ELSE None],
            jobs |-> [n \in Nodes |->
              IF @.jobs[n] = None /\ DeletionPending(n)
              THEN [peers |-> {}, remoteDone |-> FALSE] ELSE @.jobs[n]],
            config |-> [n \in Nodes |-> IF n \in listed THEN from(n) ELSE @.config[n]]]]
      /\ cut' = {c \in cut : c[1] = h => /\ host[h].jobs[c[3]] # None
                                        /\ c[2] \in host[h].jobs[c[3]].peers}
      /\ gone' = {g \in gone : g[1] = h => \A n \in listed : g[2] \notin from(n).targets}
      /\ UNCHANGED <<remote, op, used, budget>>

-----------------------------------------------------------------------------
(***************************************************************************)
(* Taking a node offline (deleteManagedNode), from the start or resumed.   *)
(***************************************************************************)

\* The nodes whose local configurations probe n, and those of the Worker's links.
FilePeers(h, n) ==
  {m \in Nodes \ {n} : host[h].config[m] # None /\ n \in host[h].config[m].targets}
LinkPeers(n) == {m \in Nodes \ {n} : <<m, n>> \in links}

\* Mutant: the peers are those found now.
PeersFound(h, n) == FilePeers(h, n) \cup {m \in LinkPeers(n) : host[h].nodes[m] # None}

\* The peers the job knows already stay on it: their files may be clean by now.
JobPeers(h, n) ==
  PeersFound(h, n) \cup (IF host[h].jobs[n] = None THEN {} ELSE host[h].jobs[n].peers)

Delete(h, n) ==
  LET job == host[h].jobs[n] IN
  /\ IF job = None THEN Spend ELSE op = None /\ UNCHANGED budget
  /\ Accepts(h)
  /\ \/ job # None \/ host[h].nodes[n] # None \/ host[h].keys[n] # None
     \/ host[h].config[n] # None \/ rows[n] # "none" \/ FilePeers(h, n) # {}
  /\ \A m \in LinkPeers(n) : host[h].keys[m] # None => host[h].nodes[m] # None
  /\ \A m \in JobPeers(h, n) : host[h].nodes[m] # None => host[h].config[m] # None
  /\ host' = [host EXCEPT ![h].seen = server,
       ![h].jobs[n] = [peers |-> JobPeers(h, n),
                       remoteDone |-> IF job = None THEN FALSE ELSE job.remoteDone]]
  /\ Begin("delete", h, n, "drop", {})
  /\ UNCHANGED <<remote, used, ghosts>>

DropKey ==
  /\ Step("drop")
  /\ host' = [host EXCEPT ![op.host].keys[op.node] = None]
  /\ Goto("check_keys")
  /\ UNCHANGED <<remote, used, budget, ghosts>>

CredentialsRemoved(n) == server.keys[n] = None /\ n \notin server.revoked

\* prepareDeletion; the Worker refuses it as long as there are credentials.
Lock ==
  LET n == op.node IN
  /\ Step("lock") /\ CredentialsRemoved(n)
  /\ rows' = [rows EXCEPT ![n] = IF @ = "live" THEN "locked" ELSE @]
  /\ Goto(IF host[op.host].jobs[n].remoteDone THEN "clean" ELSE "uninstall")
  /\ UNCHANGED <<server, links, agent, host, used, budget, ghosts>>

\* uninstall-agent.sh: only the node that is named loses its Agent.
AgentRemoved(n) == agent' = [agent EXCEPT ![n] = None]

\* By SSH, or the operator says that there is no Agent.
Uninstall ==
  /\ Step("uninstall")
  /\ op.host \in Deployers \/ agent[op.node] = None
  /\ AgentRemoved(op.node)
  /\ Goto("uninstalled")
  /\ UNCHANGED <<server, rows, links, host, used, budget, ghosts>>

NoteUninstalled ==
  /\ Step("uninstalled")
  /\ host' = [host EXCEPT ![op.host].jobs[op.node].remoteDone = TRUE]
  /\ Goto("clean")
  /\ UNCHANGED <<remote, used, budget, ghosts>>

\* applyNodeFilePlan, one file at a time; the node's own directory last.
CleanPeer(m) ==
  LET h == op.host IN
  /\ Step("clean") /\ m \in FilePeers(h, op.node)
  /\ host' = [host EXCEPT ![h].config[m].targets = @ \ {op.node}]
  /\ cut' = cut \cup {<<h, m, op.node>>}
  /\ UNCHANGED <<remote, op, used, budget, gone>>

RemoveFiles ==
  /\ Step("clean") /\ FilePeers(op.host, op.node) = {}
  /\ host' = [host EXCEPT ![op.host].config[op.node] = None]
  /\ Goto("detach")
  /\ UNCHANGED <<remote, used, budget, ghosts>>

\* Mutant: only the lists are cleaned.
WithoutCredentials(copy, n) ==
  [copy EXCEPT !.keys[n] = None, !.revoked = @ \ {n}, !.seen.keys[n] = None]

\* The node leaves the copy, and the peers of the other jobs; its own job stays.
WithoutNode(copy, n) ==
  [copy EXCEPT !.keys[n] = None, !.revoked = @ \ {n},
               !.seen.keys[n] = None, !.seen.revoked = @ \ {n}, !.nodes[n] = None,
               !.jobs = [m \in Nodes |->
                 IF m = n \/ @[m] = None THEN @[m] ELSE [@[m] EXCEPT !.peers = copy.jobs[m].peers \ {n}]]]

\* The peers are marked before the node leaves the copy; they are deployed next.
Detach ==
  LET h == op.host  n == op.node  peers == host[h].jobs[n].peers IN
  /\ Step("detach")
  /\ host' = [host EXCEPT ![h] = WithoutNode(Marked(@, peers), n)]
  /\ op' = [op EXCEPT !.at = "mark", !.todo = (peers \cap KnownNodes(h)) \ {n}]
  /\ UNCHANGED <<remote, used, budget, ghosts>>

\* permanentlyDeleteNode, as NodeDeletion has it in detail.
Purge ==
  LET n == op.node IN
  /\ Step("purge") /\ CredentialsRemoved(n) /\ rows[n] # "live"
  /\ rows' = [rows EXCEPT ![n] = "none"]
  /\ links' = {l \in links : n \notin {l[1], l[2]}}
  /\ Goto("sweep")
  /\ UNCHANGED <<server, agent, host, used, budget, ghosts>>

Sweep ==
  LET h == op.host  n == op.node  config == host[h].config IN
  /\ Step("sweep")
  /\ host' = [host EXCEPT ![h].jobs[n] = None, ![h].config = [m \in Nodes |->
       IF m = n \/ @[m] = None THEN None ELSE [@[m] EXCEPT !.targets = config[m].targets \ {n}]]]
  /\ gone' = gone \cup {<<h, n>>}
  /\ op' = None
  /\ UNCHANGED <<remote, used, budget, cut>>

\* The Worker's 409, or a VPS out of reach: the job stays.
Refused ==
  /\ \/ (Step("lock") \/ Step("purge")) /\ ~ CredentialsRemoved(op.node)
     \/ Step("purge") /\ rows[op.node] = "live"
     \/ Step("uninstall") /\ op.host \notin Deployers /\ agent[op.node] # None
  /\ op' = None
  /\ UNCHANGED <<remote, host, used, budget, ghosts>>

Deletion ==
  \/ DropKey \/ Lock \/ Uninstall \/ NoteUninstalled \/ (\E m \in Nodes : CleanPeer(m))
  \/ RemoveFiles \/ Detach \/ Purge \/ Sweep \/ Refused

-----------------------------------------------------------------------------

\* The terminal is closed, a call fails, or its answer is lost.
Interrupt ==
  /\ op # None /\ budget.faults < MaxFaults
  /\ op' = None
  /\ budget' = [budget EXCEPT !.faults = @ + 1]
  /\ UNCHANGED <<remote, host, used, ghosts>>

Work == SaveNode \/ Publication \/ Deployment \/ Deletion

Next ==
  \/ Work \/ Interrupt
  \/ \E n \in Nodes : Report(n)
  \/ \E h \in Hosts :
       \/ \E n \in Nodes, secret \in Secrets, targets \in SUBSET Nodes : Add(h, n, secret, targets)
       \/ \E n \in Nodes, targets \in SUBSET Nodes : Configure(h, n, targets)
       \/ \E ids \in SUBSET Nodes : Apply(h, ids)
       \/ \E n \in Nodes : Delete(h, n)
       \/ \E n \in Nodes, revoked \in SUBSET Nodes : Revoke(h, n, revoked)
       \/ SyncKeys(h) \/ Setup(h)
       \/ \E k \in Hosts, bySsh \in SUBSET Nodes : Adopt(h, k, bySsh)

Spec == Init /\ [][Next]_vars

\* The tool's process runs on; the operator resumes an unfinished deletion, and
\* adopts the deployment anew when the tool asks for it.
Fairness ==
  /\ WF_vars(Work)
  /\ \A h \in Deployers :
       /\ \A n \in Nodes : SF_vars(host[h].jobs[n] # None /\ Delete(h, n))
       /\ SF_vars(~ Accepts(h) /\ \E k \in Hosts : Adopt(h, k, {}))

LiveSpec == Spec /\ Fairness

-----------------------------------------------------------------------------
(***************************************************************************)
(* Properties.                                                             *)
(***************************************************************************)

\* A copy that is out of date overwrites nothing (development.md, key inventory):
\* a credential leaves the Worker only because its node is going offline on the
\* machine that publishes, whatever was interrupted before.
NeverOverwritten ==
  [][\A n \in Nodes : server.keys[n] # None /\ server'.keys[n] # server.keys[n]
       => host[op.host].jobs[n] # None]_vars

\* The same for the commands that compare first: all but setup.
ComparedNotOverwritten ==
  [][\A n \in Nodes : server.keys[n] # None /\ server'.keys[n] # server.keys[n]
       => op.kind = "setup" \/ host[op.host].jobs[n] # None]_vars

\* What "deleted" means: no credential, no rows, no link from or to the node, no
\* Agent, no local record, no file that names it, and no peer that still probes it
\* without being marked for deployment.
DoneMeansGone ==
  \A g \in gone :
    LET h == g[1]  n == g[2]  copy == host[h] IN
    /\ CredentialsRemoved(n) /\ rows[n] = "none" /\ \A l \in links : n \notin {l[1], l[2]}
    /\ h \in Deployers => agent[n] = None
    /\ copy.keys[n] = None /\ n \notin copy.revoked /\ copy.nodes[n] = None /\ copy.config[n] = None
    /\ FilePeers(h, n) = {}

\* A link that a deletion removed from a peer's file is also removed from its Agent, or
\* the job still knows the peer, although a resumed job finds the file clean.
CutLinksAreDeployed ==
  \A c \in cut :
    LET copy == host[c[1]]  m == c[2]  n == c[3] IN
    c[1] \in Deployers /\ copy.nodes[m] # None /\ copy.config[m] # None
    /\ n \notin copy.config[m].targets /\ agent[m] # None /\ n \in agent[m].targets
    => copy.jobs[n] # None /\ m \in copy.jobs[n].peers

\* A deletion once begun comes to its end, also when two nodes that probe each other
\* go at once and each step may fail; it waits only for a peer that is revoked.
DeletionEnds ==
  \A h \in Deployers, n \in Nodes :
    host[h].jobs[n] # None ~>
      host[h].jobs[n] = None \/ \E m \in host[h].jobs[n].peers : m \in server.revoked
=============================================================================
