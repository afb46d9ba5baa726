-------------------------- MODULE ManagementProofs --------------------------
(***************************************************************************)
(* Theorems of Management for every number of machines, nodes, commands    *)
(* and interruptions: types; no comparing command overwrites the           *)
(* credential of a node it does not take offline; a deletion that is done  *)
(* has removed everything, and the links it cuts are cut on the peers.     *)
(***************************************************************************)
EXTENDS Management, TLAPS

-----------------------------------------------------------------------------
(***************************************************************************)
(* The inductive invariant.                                                *)
(***************************************************************************)

\* A copy differs from the list it has seen on the Worker only in nodes it adds and in
\* nodes it takes offline.
CopyOK(copy) ==
  \A n \in Nodes : copy.seen.keys[n] # None /\ copy.keys[n] # copy.seen.keys[n] => copy.jobs[n] # None

CopiesFollow == \A h \in Hosts : CopyOK(host[h])

DeleteStages == {"drop", "lock", "uninstall", "uninstalled", "clean", "detach", "purge", "sweep"}

\* What the command at work relies on at its stage.
CommandOK ==
  op # None =>
    LET copy == host[op.host] IN
    /\ op.at = "save" =>
         /\ op.node \in Nodes /\ copy.config[op.node] # None
         /\ op.kind = "add" /\ copy.seen.keys[op.node] = None
    /\ op.kind = "delete" => op.node \in Nodes /\ copy.jobs[op.node] # None
    /\ op.at \in DeleteStages => op.kind = "delete"
    /\ op.kind = "delete" /\ op.at \in {"mark", "install", "confirm", "purge", "sweep"}
         => copy.seen.keys[op.node] = None
    /\ op.at = "confirm" => op.on \in Nodes /\ copy.nodes[op.on] # None
    /\ op.at = "put_keys" /\ op.kind # "setup" => server = copy.seen
    /\ op.at = "note_keys" => server.keys = copy.keys

IInv == TypeOK /\ CopiesFollow /\ CommandOK

LEMMA InitInv == Init => IInv
<1> SUFFICES ASSUME Init PROVE IInv
  OBVIOUS
<1> USE ManagementAssumption
<1>1. FirstConfig \in [Nodes -> Config \cup {None}]
  BY DEF FirstConfig, Installed, Config
<1> DEFINE nodes0 == [n \in Nodes |->
             IF n \in Installed THEN [pending |-> FALSE, confirm |-> FALSE] ELSE None]
           jobs0 == [n \in Nodes |-> None]
           copy == [keys |-> FirstKeys, revoked |-> {}, seen |-> [keys |-> FirstKeys, revoked |-> {}],
                    nodes |-> nodes0, jobs |-> jobs0, config |-> FirstConfig]
<1>2. nodes0 \in [Nodes -> Managed \cup {None}] /\ jobs0 \in [Nodes -> Job \cup {None}]
  BY DEF Managed
<1>3. host = [h \in Hosts |-> copy]
  BY DEF Init
<1> HIDE DEF nodes0, jobs0
<1>4. copy \in Copy /\ copy.keys = copy.seen.keys
  BY <1>1, <1>2 DEF Copy, Inventory
<1> HIDE DEF copy
<1>5. host \in [Hosts -> Copy] /\ CopiesFollow
  BY <1>3, <1>4 DEF CopiesFollow, CopyOK
<1>6. rows \in [Nodes -> {"none", "live", "locked"}] /\ links \subseteq Nodes \X Nodes
  BY DEF Init, Installed
<1>7. used \subseteq Secrets
  BY DEF Init, Installed
<1>8. server \in Inventory /\ op = None /\ budget \in [commands : 0..MaxCommands, faults : 0..MaxFaults]
  BY DEF Init, Inventory
<1>9. TypeOK
  BY <1>1, <1>5, <1>6, <1>7, <1>8 DEF Init, TypeOK
<1> QED
  BY <1>5, <1>8, <1>9 DEF IInv, CommandOK

-----------------------------------------------------------------------------
(***************************************************************************)
(* Commands and copies.                                                    *)
(***************************************************************************)

LEMMA GotoFacts ==
  ASSUME op \in Command, NEW stage \in Stages, Goto(stage)
  PROVE  /\ op' \in Command /\ op'.at = stage /\ op'.kind = op.kind /\ op'.host = op.host
         /\ op'.node = op.node /\ op'.todo = op.todo /\ op'.on = op.on
BY DEF Goto, Command

LEMMA BeginFacts ==
  ASSUME NEW kind \in Kinds, NEW h \in Hosts, NEW n \in Nodes \cup {None}, NEW stage \in Stages,
         NEW todo \in SUBSET Nodes, Begin(kind, h, n, stage, todo)
  PROVE  /\ op' \in Command /\ op'.at = stage /\ op'.kind = kind /\ op'.host = h
         /\ op'.node = n /\ op'.todo = todo
BY DEF Begin, Command

LEMMA SpendFacts ==
  ASSUME TypeOK, Spend \/ (op = None /\ UNCHANGED budget)
  PROVE  op = None /\ budget' \in [commands : 0..MaxCommands, faults : 0..MaxFaults]
<1>1. CASE Spend
  <2>1. budget.commands + 1 \in 0..MaxCommands
    BY <1>1, ManagementAssumption DEF Spend, TypeOK
  <2> QED
    BY <1>1, <2>1 DEF Spend, TypeOK
<1> QED
  BY <1>1 DEF TypeOK

\* One machine's copy is replaced.
LEMMA HostFacts ==
  ASSUME TypeOK, CopiesFollow, NEW h \in Hosts, NEW c \in Copy, CopyOK(c),
         host' = [host EXCEPT ![h] = c]
  PROVE  /\ host' \in [Hosts -> Copy] /\ host'[h] = c
         /\ \A k \in Hosts : CopyOK(host'[k])
BY DEF TypeOK, CopiesFollow

LEMMA CopyFacts ==
  ASSUME NEW c \in Copy
  PROVE  /\ c.keys \in [Nodes -> Secrets \cup {None}] /\ c.revoked \in SUBSET Nodes
         /\ c.seen \in Inventory /\ c.nodes \in [Nodes -> Managed \cup {None}]
         /\ c.jobs \in [Nodes -> Job \cup {None}] /\ c.config \in [Nodes -> Config \cup {None}]
         /\ c.seen.keys \in [Nodes -> Secrets \cup {None}] /\ c.seen.revoked \in SUBSET Nodes
BY DEF Copy, Inventory

LEMMA HostCopy == ASSUME TypeOK, NEW h \in Hosts PROVE host[h] \in Copy
BY DEF TypeOK

\* The list is compared, and noted as seen.
LEMMA SeenFacts ==
  ASSUME TypeOK, NEW c \in Copy, CopyOK(c), NEW r \in SUBSET Nodes,
         server \in {c.seen, [keys |-> c.keys, revoked |-> r]}
  PROVE  /\ [c EXCEPT !.seen = server] \in Copy
         /\ \A d : d = [c EXCEPT !.seen = server]
              => /\ CopyOK(d) /\ d.keys = c.keys /\ d.revoked = c.revoked /\ d.seen = server
                 /\ d.nodes = c.nodes /\ d.jobs = c.jobs /\ d.config = c.config
<1> DEFINE d == [c EXCEPT !.seen = server]
<1>1. d \in Copy /\ d.keys = c.keys /\ d.revoked = c.revoked /\ d.seen = server
      /\ d.nodes = c.nodes /\ d.jobs = c.jobs /\ d.config = c.config
  BY DEF Copy, TypeOK
<1>2. server = c.seen \/ server.keys = c.keys
  OBVIOUS
<1> HIDE DEF d
<1>3. CopyOK(d)
  BY <1>1, <1>2 DEF CopyOK
<1> QED
  BY <1>1, <1>3 DEF d

LEMMA OpFacts ==
  ASSUME TypeOK, op # None
  PROVE  op \in Command /\ op.host \in Hosts /\ host[op.host] \in Copy /\ op.todo \in SUBSET Nodes
BY DEF TypeOK, Command

\* A command that ends, or is interrupted, leaves nothing to rely on.
LEMMA EndStep ==
  ASSUME IInv, op' = None, UNCHANGED <<remote, host, used>>,
         gone' \subseteq gone, cut' \subseteq cut,
         budget' \in [commands : 0..MaxCommands, faults : 0..MaxFaults]
  PROVE  IInv'
BY DEF IInv, TypeOK, CommandOK, CopiesFollow, remote

LEMMA SaveNodeStep == ASSUME IInv, SaveNode PROVE IInv'
<1> USE DEF IInv
<1>1. op # None /\ op.at = "save" /\ UNCHANGED <<remote, used, budget, ghosts>>
  BY DEF SaveNode, Step
<1>2. PICK h \in Hosts, c \in Copy : h = op.host /\ c = host[h]
  BY <1>1, OpFacts
<1>3. PICK n \in Nodes : n = op.node /\ c.config[n] # None /\ c.seen.keys[n] = None /\ op.kind = "add"
  BY <1>1, <1>2 DEF CommandOK
<1>4. c.config[n].secret \in Secrets
  BY <1>3, CopyFacts DEF Config
<1> DEFINE d == [c EXCEPT !.keys[n] = c.config[n].secret,
                          !.nodes[n] = [pending |-> TRUE, confirm |-> FALSE]]
<1>5. d \in Copy /\ d.seen = c.seen /\ d.jobs = c.jobs
      /\ \A m \in Nodes \ {n} : d.keys[m] = c.keys[m]
  BY <1>4 DEF Copy, Managed
<1>6. host' = [host EXCEPT ![h] = d]
  BY <1>2, <1>3, HostCopy DEF SaveNode, TypeOK
<1> HIDE DEF d
<1>7. CopyOK(d)
  BY <1>2, <1>3, <1>5 DEF CopyOK, CopiesFollow
<1>8. host' \in [Hosts -> Copy] /\ host'[h] = d /\ \A k \in Hosts : CopyOK(host'[k])
  BY <1>5, <1>6, <1>7, HostFacts
<1>9. op' \in Command /\ op'.at = "check_keys" /\ op'.kind = "add"
  BY <1>1, <1>3, OpFacts, GotoFacts DEF SaveNode, Stages
<1>10. TypeOK'
  BY <1>1, <1>8, <1>9 DEF TypeOK, remote, ghosts
<1>11. CommandOK'
  BY <1>9 DEF CommandOK, DeleteStages
<1> QED
  BY <1>8, <1>10, <1>11 DEF CopiesFollow

LEMMA CheckKeysStep == ASSUME IInv, CheckKeys PROVE IInv'
<1> USE DEF IInv
<1>1. op # None /\ op.at = "check_keys" /\ UNCHANGED <<remote, used, budget, ghosts>>
  BY DEF CheckKeys, Step
<1>2. PICK h \in Hosts, c \in Copy : h = op.host /\ c = host[h]
  BY <1>1, OpFacts
<1>3. CASE op' = None /\ UNCHANGED host
  BY <1>1, <1>3, EndStep DEF TypeOK, ghosts
<1>4. CASE Accepts(h) /\ host' = [host EXCEPT ![h].seen = server] /\ Goto("put_keys")
  <2> DEFINE d == [c EXCEPT !.seen = server]
  <2>1. CopyOK(c) /\ c.revoked \in SUBSET Nodes /\ server \in {c.seen, [keys |-> c.keys, revoked |-> c.revoked]}
    BY <1>2, <1>4, CopyFacts DEF CopiesFollow, Accepts, Intended
  <2>2. d \in Copy /\ CopyOK(d) /\ d.jobs = c.jobs /\ d.seen = server
    BY <2>1, SeenFacts
  <2>3. host' = [host EXCEPT ![h] = d]
    BY <1>2, <1>4
  <2> HIDE DEF d
  <2>4. host' \in [Hosts -> Copy] /\ host'[h] = d /\ \A k \in Hosts : CopyOK(host'[k])
    BY <2>2, <2>3, HostFacts
  <2>5. op' \in Command /\ op'.at = "put_keys" /\ op'.kind = op.kind /\ op'.host = h /\ op'.node = op.node
    BY <1>1, <1>2, <1>4, OpFacts, GotoFacts DEF Stages
  <2>6. TypeOK'
    BY <1>1, <2>4, <2>5 DEF TypeOK, remote, ghosts
  <2>7. op.kind = "delete" => op.node \in Nodes /\ c.jobs[op.node] # None
    BY <1>1, <1>2 DEF CommandOK
  <2>8. CommandOK'
    BY <1>1, <2>2, <2>4, <2>5, <2>7 DEF CommandOK, DeleteStages, remote
  <2> QED
    BY <2>4, <2>6, <2>8 DEF CopiesFollow
<1> QED
  BY <1>2, <1>3, <1>4 DEF CheckKeys

LEMMA PutKeysStep == ASSUME IInv, PutKeys PROVE IInv'
<1> USE DEF IInv
<1>1. op # None /\ op.at = "put_keys" /\ UNCHANGED <<rows, links, agent, host, used, budget, cut>>
      /\ gone' \subseteq gone
  BY DEF PutKeys, Step
<1>2. PICK h \in Hosts, c \in Copy : h = op.host /\ c = host[h]
  BY <1>1, OpFacts
<1>3. server' \in Inventory /\ server'.keys = c.keys
  BY <1>2, CopyFacts DEF PutKeys, TypeOK, Inventory
<1>4. op' \in Command /\ op'.at = "note_keys" /\ op'.kind = op.kind /\ op'.host = h /\ op'.node = op.node
  BY <1>1, <1>2, OpFacts, GotoFacts DEF PutKeys, Stages
<1>5. TypeOK'
  BY <1>1, <1>3, <1>4 DEF TypeOK
<1>6. op.kind = "delete" => op.node \in Nodes /\ c.jobs[op.node] # None
  BY <1>1, <1>2 DEF CommandOK
<1>7. CommandOK'
  BY <1>1, <1>2, <1>3, <1>4, <1>6 DEF CommandOK, DeleteStages
<1> QED
  BY <1>1, <1>5, <1>7 DEF CopiesFollow

LEMMA NoteKeysStep == ASSUME IInv, NoteKeys PROVE IInv'
<1> USE DEF IInv
<1>1. op # None /\ op.at = "note_keys" /\ UNCHANGED <<remote, used, budget, ghosts>>
  BY DEF NoteKeys, Step
<1>2. PICK h \in Hosts, c \in Copy : h = op.host /\ c = host[h]
  BY <1>1, OpFacts
<1>3. server.keys = c.keys /\ server \in Inventory /\ server.revoked \in SUBSET Nodes
  BY <1>1, <1>2 DEF CommandOK, TypeOK, Inventory
<1> DEFINE d == IF op.kind = "setup" THEN [c EXCEPT !.seen = server, !.revoked = server.revoked]
                ELSE [c EXCEPT !.seen.keys = c.keys]
<1>4. d \in Copy /\ d.jobs = c.jobs /\ d.seen.keys = d.keys
  <2>1. CASE op.kind = "setup"
    BY <1>3, <2>1 DEF Copy
  <2>2. CASE op.kind # "setup"
    BY <2>2 DEF Copy, Inventory
  <2> QED
    BY <2>1, <2>2
<1>5. host' = [host EXCEPT ![h] = d]
  BY <1>2 DEF NoteKeys
<1> HIDE DEF d
<1>6. CopyOK(d)
  BY <1>4 DEF CopyOK
<1>7. host' \in [Hosts -> Copy] /\ host'[h] = d /\ \A k \in Hosts : CopyOK(host'[k])
  BY <1>4, <1>5, <1>6, HostFacts
<1>8. op.kind = "delete" => op.node \in Nodes /\ c.jobs[op.node] # None
  BY <1>1, <1>2 DEF CommandOK
<1>9. CASE op' = None
  BY <1>1, <1>7, <1>9 DEF TypeOK, remote, ghosts, CommandOK, CopiesFollow
<1>10. ASSUME NEW stage \in {"check_revoked", "install"}, Goto(stage),
              stage = "install" => op.kind = "add"
       PROVE  IInv'
  <2>1. op' \in Command /\ op'.at = stage /\ op'.kind = op.kind /\ op'.host = h /\ op'.node = op.node
    BY <1>1, <1>2, <1>10, OpFacts, GotoFacts DEF Stages
  <2>2. TypeOK'
    BY <1>1, <1>7, <2>1 DEF TypeOK, remote, ghosts
  <2>3. CommandOK'
    BY <1>4, <1>7, <1>8, <1>10, <2>1 DEF CommandOK, DeleteStages
  <2> QED
    BY <1>7, <2>2, <2>3 DEF CopiesFollow
<1> QED
  BY <1>9, <1>10 DEF NoteKeys, AfterKeys

LEMMA CheckRevokedStep == ASSUME IInv, CheckRevoked PROVE IInv'
<1> USE DEF IInv
<1>1. op # None /\ op.at = "check_revoked" /\ UNCHANGED <<remote, used, budget, ghosts>>
  BY DEF CheckRevoked, Step
<1>2. PICK h \in Hosts, c \in Copy : h = op.host /\ c = host[h]
  BY <1>1, OpFacts
<1>3. PICK asked \in SUBSET Nodes :
        asked = IF op.kind = "delete" THEN c.revoked \ {op.node} ELSE c.revoked
  BY CopyFacts
<1> DEFINE seen1 == IF server \in {c.seen, [keys |-> c.keys, revoked |-> asked]} THEN server ELSE c.seen
           d == [c EXCEPT !.revoked = asked, !.seen = seen1]
<1>4. host' = [host EXCEPT ![h] = d]
  BY <1>2, <1>3 DEF CheckRevoked
<1>6. op' = None \/ Goto("put_revoked")
  BY DEF CheckRevoked
<1>11. seen1 \in Inventory /\ (seen1 = c.seen \/ (seen1 = server /\ server.keys = c.keys))
  BY CopyFacts DEF TypeOK
<1> HIDE DEF seen1
<1>5. d \in Copy /\ d.keys = c.keys /\ d.jobs = c.jobs
      /\ (d.seen = c.seen \/ (d.seen = server /\ server.keys = c.keys))
  BY <1>11 DEF Copy
<1> HIDE DEF d
<1>7. CopyOK(d)
  BY <1>2, <1>5 DEF CopyOK, CopiesFollow
<1>8. host' \in [Hosts -> Copy] /\ host'[h] = d /\ \A k \in Hosts : CopyOK(host'[k])
  BY <1>4, <1>5, <1>7, HostFacts
<1>9. CASE op' = None
  BY <1>1, <1>8, <1>9 DEF TypeOK, remote, ghosts, CommandOK, CopiesFollow
<1>10. CASE Goto("put_revoked")
  <2>1. op' \in Command /\ op'.at = "put_revoked" /\ op'.kind = op.kind /\ op'.host = h /\ op'.node = op.node
    BY <1>1, <1>2, <1>10, OpFacts, GotoFacts DEF Stages
  <2>2. TypeOK'
    BY <1>1, <1>8, <2>1 DEF TypeOK, remote, ghosts
  <2>3. op.kind = "delete" => op.node \in Nodes /\ c.jobs[op.node] # None
    BY <1>1, <1>2 DEF CommandOK
  <2>4. CommandOK'
    BY <1>5, <1>8, <2>1, <2>3 DEF CommandOK, DeleteStages
  <2> QED
    BY <1>8, <2>2, <2>4 DEF CopiesFollow
<1> QED
  BY <1>6, <1>9, <1>10

LEMMA PutRevokedStep == ASSUME IInv, PutRevoked PROVE IInv'
<1> USE DEF IInv
<1>1. op # None /\ op.at = "put_revoked" /\ UNCHANGED <<rows, links, agent, host, used, budget, cut>>
      /\ gone' \subseteq gone
  BY DEF PutRevoked, Step
<1>2. PICK h \in Hosts, c \in Copy : h = op.host /\ c = host[h]
  BY <1>1, OpFacts
<1>3. server' \in Inventory
  BY <1>2, CopyFacts DEF PutRevoked, TypeOK, Inventory
<1>4. op' \in Command /\ op'.at = "note_revoked" /\ op'.kind = op.kind /\ op'.host = h /\ op'.node = op.node
  BY <1>1, <1>2, OpFacts, GotoFacts DEF PutRevoked, Stages
<1>5. TypeOK'
  BY <1>1, <1>3, <1>4 DEF TypeOK
<1>6. op.kind = "delete" => op.node \in Nodes /\ c.jobs[op.node] # None
  BY <1>1, <1>2 DEF CommandOK
<1>7. CommandOK'
  BY <1>1, <1>2, <1>4, <1>6 DEF CommandOK, DeleteStages
<1> QED
  BY <1>1, <1>5, <1>7 DEF CopiesFollow

LEMMA NoteRevokedStep == ASSUME IInv, NoteRevoked PROVE IInv'
<1> USE DEF IInv
<1>1. op # None /\ op.at = "note_revoked" /\ UNCHANGED <<remote, used, budget, ghosts>>
  BY DEF NoteRevoked, Step
<1>2. PICK h \in Hosts, c \in Copy : h = op.host /\ c = host[h]
  BY <1>1, OpFacts
<1> DEFINE d == [c EXCEPT !.seen.revoked = c.revoked]
<1>3. d \in Copy /\ d.keys = c.keys /\ d.jobs = c.jobs /\ d.seen.keys = c.seen.keys
  BY DEF Copy, Inventory
<1>4. host' = [host EXCEPT ![h] = d]
  BY <1>2 DEF NoteRevoked
<1> HIDE DEF d
<1>5. CopyOK(d)
  BY <1>2, <1>3 DEF CopyOK, CopiesFollow
<1>6. host' \in [Hosts -> Copy] /\ host'[h] = d /\ \A k \in Hosts : CopyOK(host'[k])
  BY <1>3, <1>4, <1>5, HostFacts
<1>7. CASE op' = None
  BY <1>1, <1>6, <1>7 DEF TypeOK, remote, ghosts, CommandOK, CopiesFollow
<1>8. CASE op.kind = "delete" /\ Goto("lock")
  <2>1. op' \in Command /\ op'.at = "lock" /\ op'.kind = op.kind /\ op'.host = h /\ op'.node = op.node
    BY <1>1, <1>2, <1>8, OpFacts, GotoFacts DEF Stages
  <2>2. TypeOK'
    BY <1>1, <1>6, <2>1 DEF TypeOK, remote, ghosts
  <2>3. op.node \in Nodes /\ c.jobs[op.node] # None
    BY <1>1, <1>2, <1>8 DEF CommandOK
  <2>4. CommandOK'
    BY <1>3, <1>6, <1>8, <2>1, <2>3 DEF CommandOK, DeleteStages
  <2> QED
    BY <1>6, <2>2, <2>4 DEF CopiesFollow
<1> QED
  BY <1>7, <1>8 DEF NoteRevoked, AfterRevoked

-----------------------------------------------------------------------------
(***************************************************************************)
(* Deployment.                                                             *)
(***************************************************************************)

LEMMA MarkedFacts ==
  ASSUME NEW c \in Copy, NEW ids \in SUBSET Nodes
  PROVE  /\ Marked(c, ids) \in Copy
         /\ Marked(c, ids).keys = c.keys /\ Marked(c, ids).revoked = c.revoked
         /\ Marked(c, ids).seen = c.seen /\ Marked(c, ids).jobs = c.jobs
         /\ Marked(c, ids).config = c.config
<1> DEFINE nodes1 == [m \in Nodes |->
             IF m \in ids /\ c.nodes[m] # None THEN [c.nodes[m] EXCEPT !.pending = TRUE] ELSE c.nodes[m]]
<1>1. ASSUME NEW m \in Nodes, c.nodes[m] # None
      PROVE  [c.nodes[m] EXCEPT !.pending = TRUE] \in Managed
  <2>1. PICK e \in Managed : e = c.nodes[m]
    BY <1>1, CopyFacts
  <2>2. [e EXCEPT !.pending = TRUE] \in Managed
    BY DEF Managed
  <2> QED
    BY <2>1, <2>2
<1>2. nodes1 \in [Nodes -> Managed \cup {None}]
  BY <1>1, CopyFacts
<1>3. Marked(c, ids) = [c EXCEPT !.nodes = nodes1]
  BY DEF Marked, Copy
<1> HIDE DEF nodes1
<1> QED
  BY <1>2, <1>3 DEF Copy

\* The types of everything but the lists, the copies and the command.
RestOK ==
  /\ rows \in [Nodes -> {"none", "live", "locked"}]
  /\ links \subseteq Nodes \X Nodes
  /\ agent \in [Nodes -> Config \cup {None}]
  /\ used \subseteq Secrets
  /\ budget \in [commands : 0..MaxCommands, faults : 0..MaxFaults]
  /\ gone \subseteq Hosts \X Nodes
  /\ cut \subseteq Hosts \X Nodes \X Nodes

LEMMA RestUnchanged ==
  ASSUME TypeOK, UNCHANGED <<rows, links, agent, used, budget, ghosts>>
  PROVE  RestOK'
BY DEF TypeOK, RestOK, ghosts

\* A step of a command that leaves the lists of its copy alone.
LEMMA LocalStep ==
  ASSUME IInv, op # None, NEW d \in Copy, host' = [host EXCEPT ![op.host] = d],
         d.keys = host[op.host].keys, d.seen = host[op.host].seen,
         \A n \in Nodes : host[op.host].jobs[n] # None => d.jobs[n] # None,
         server' = server, RestOK',
         op' \in Command, op'.kind = op.kind, op'.host = op.host, op'.node = op.node,
         op'.at \notin {"save", "put_keys", "note_keys"},
         op'.at \in DeleteStages => op.kind = "delete",
         op'.at = "confirm" => op'.on \in Nodes /\ d.nodes[op'.on] # None,
         op.kind = "delete" /\ op'.at \in {"mark", "install", "confirm", "purge", "sweep"}
           => host[op.host].seen.keys[op.node] = None
  PROVE  IInv'
<1> USE DEF IInv
<1>1. PICK h \in Hosts, c \in Copy : h = op.host /\ c = host[h]
  BY OpFacts
<1>2. CopyOK(d)
  BY <1>1 DEF CopyOK, CopiesFollow
<1>3. host' \in [Hosts -> Copy] /\ host'[h] = d /\ \A k \in Hosts : CopyOK(host'[k])
  BY <1>1, <1>2, HostFacts
<1>4. TypeOK'
  BY <1>3 DEF TypeOK, RestOK
<1>5. op.kind = "delete" => op.node \in Nodes /\ d.jobs[op.node] # None
  BY DEF CommandOK
<1>6. CommandOK'
  BY <1>1, <1>3, <1>5 DEF CommandOK
<1> QED
  BY <1>3, <1>4, <1>6 DEF CopiesFollow

\* The last step of a command, if it leaves the lists of its copy alone.
LEMMA EndLocalStep ==
  ASSUME IInv, op # None, op' = None, NEW d \in Copy, host' = [host EXCEPT ![op.host] = d],
         CopyOK(d), UNCHANGED <<remote, used, budget>>, gone' \subseteq Hosts \X Nodes, cut' \subseteq cut
  PROVE  IInv'
<1> USE DEF IInv
<1>1. host' \in [Hosts -> Copy] /\ \A k \in Hosts : CopyOK(host'[k])
  BY OpFacts, HostFacts
<1> QED
  BY <1>1 DEF TypeOK, remote, CommandOK, CopiesFollow

LEMMA MarkStep == ASSUME IInv, Mark PROVE IInv'
<1> USE DEF IInv
<1>1. op # None /\ op.at = "mark" /\ UNCHANGED <<remote, used, budget, ghosts>>
  BY DEF Mark, Step
<1>2. PICK h \in Hosts, c \in Copy : h = op.host /\ c = host[h]
  BY <1>1, OpFacts
<1>3. CASE op' = None /\ UNCHANGED host
  BY <1>1, <1>3, EndStep DEF TypeOK, ghosts
<1>4. CASE host' = [host EXCEPT ![h] = Marked(c, op.todo)] /\ (op' = None \/ Goto("install"))
  <2> DEFINE d == Marked(c, op.todo)
  <2>1. d \in Copy /\ d.keys = c.keys /\ d.seen = c.seen /\ d.jobs = c.jobs
    BY <1>1, OpFacts, MarkedFacts
  <2>2. host' = [host EXCEPT ![h] = d]
    BY <1>4
  <2> HIDE DEF d
  <2>3. CASE op' = None
    <3>1. CopyOK(d)
      BY <1>2, <2>1 DEF CopyOK, CopiesFollow
    <3> QED
      BY <1>1, <1>2, <2>1, <2>2, <2>3, <3>1, EndLocalStep DEF TypeOK, ghosts
  <2>4. CASE Goto("install")
    <3>1. op' \in Command /\ op'.at = "install" /\ op'.kind = op.kind /\ op'.host = h /\ op'.node = op.node
      BY <1>1, <1>2, <2>4, OpFacts, GotoFacts DEF Stages
    <3>2. op.kind = "delete" => host[op.host].seen.keys[op.node] = None
      BY <1>1 DEF CommandOK
    <3>3. RestOK' /\ server' = server
      BY <1>1, RestUnchanged DEF remote
    <3>4. op'.at \notin {"save", "put_keys", "note_keys", "confirm"} \cup DeleteStages
      BY <3>1 DEF DeleteStages
    <3> HIDE DEF IInv
    <3> QED
      BY <1>1, <1>2, <2>1, <2>2, <3>1, <3>2, <3>3, <3>4, LocalStep
  <2> QED
    BY <1>4, <2>3, <2>4
<1> QED
  BY <1>2, <1>3, <1>4 DEF Mark

LEMMA InstallStep == ASSUME IInv, NEW n \in Nodes, Install(n) PROVE IInv'
<1> USE DEF IInv
<1>1. op # None /\ op.at = "install" /\ UNCHANGED <<server, rows, links, used, budget, ghosts>>
  BY DEF Install, Step
<1>2. PICK h \in Hosts, c \in Copy : h = op.host /\ c = host[h]
  BY <1>1, OpFacts
<1>3. PICK e \in Managed : e = c.nodes[n]
  BY <1>2, CopyFacts DEF Install, Installable
<1> DEFINE f == [e EXCEPT !.pending = TRUE]
           d == [c EXCEPT !.nodes[n] = f]
<1>4. f \in Managed
  BY DEF Managed
<1>5. host' = [host EXCEPT ![h] = d]
  BY <1>2, <1>3 DEF Install
<1> HIDE DEF f
<1>6. d \in Copy /\ d.keys = c.keys /\ d.seen = c.seen /\ d.jobs = c.jobs /\ d.nodes[n] = f
  BY <1>4 DEF Copy
<1> HIDE DEF d
<1>7. f # None
  BY <1>4, ManagementAssumption
<1>8. op' \in Command /\ op'.at = "confirm" /\ op'.kind = op.kind /\ op'.host = h /\ op'.node = op.node
      /\ op'.on = n
  BY <1>1, <1>2, OpFacts DEF Install, Command, Stages
<1>9. agent' \in [Nodes -> Config \cup {None}]
  BY <1>2, CopyFacts DEF Install, TypeOK
<1>10. op.kind = "delete" => host[op.host].seen.keys[op.node] = None
  BY <1>1 DEF CommandOK
<1>11. RestOK' /\ server' = server
  BY <1>1, <1>9 DEF TypeOK, RestOK, ghosts
<1>12. op'.at \notin {"save", "put_keys", "note_keys"} \cup DeleteStages
  BY <1>8 DEF DeleteStages
<1> HIDE DEF IInv
<1> QED
  BY <1>1, <1>2, <1>5, <1>6, <1>7, <1>8, <1>10, <1>11, <1>12, LocalStep

LEMMA CataloguedFacts ==
  ASSUME TypeOK, NEW n \in Nodes, Authentic(n), Catalogued(n)
  PROVE  rows' \in [Nodes -> {"none", "live", "locked"}] /\ links' \subseteq Nodes \X Nodes
<1>1. agent[n] \in Config /\ agent[n].targets \in SUBSET Nodes
  BY DEF TypeOK, Authentic, Config
<1> QED
  BY <1>1 DEF Catalogued, TypeOK

LEMMA ConfirmStep == ASSUME IInv, Confirm \/ LeaveStopped PROVE IInv'
<1> USE DEF IInv
<1>1. op # None /\ op.at = "confirm" /\ UNCHANGED <<server, agent, used, budget, ghosts>> /\ Next1
  BY DEF Confirm, FirstReport, LeaveStopped, Step, remote
<1>2. PICK h \in Hosts, c \in Copy : h = op.host /\ c = host[h]
  BY <1>1, OpFacts
<1>3. PICK n \in Nodes : n = op.on /\ c.nodes[n] # None
  BY <1>1, <1>2 DEF CommandOK
<1>4. PICK e \in Managed : e = c.nodes[n]
  BY <1>3, CopyFacts
<1>5. rows' \in [Nodes -> {"none", "live", "locked"}] /\ links' \subseteq Nodes \X Nodes
  BY <1>3, CataloguedFacts DEF Confirm, FirstReport, LeaveStopped, remote, TypeOK
<1>6. [e EXCEPT !.confirm = TRUE] \in Managed /\ [pending |-> FALSE, confirm |-> FALSE] \in Managed
  BY DEF Managed
<1>7. PICK f \in Managed : host' = [host EXCEPT ![h].nodes[n] = f]
  <2>1. CASE Confirm
    BY <1>2, <1>3, <1>6, <2>1 DEF Confirm, FirstReport
  <2>2. CASE LeaveStopped
    BY <1>2, <1>3, <1>4, <1>6, <2>2 DEF LeaveStopped
  <2> QED
    BY <2>1, <2>2
<1> DEFINE d == [c EXCEPT !.nodes[n] = f]
<1>8. d \in Copy /\ d.keys = c.keys /\ d.seen = c.seen /\ d.jobs = c.jobs
  BY DEF Copy
<1>9. host' = [host EXCEPT ![h] = d]
  BY <1>2, <1>7
<1> HIDE DEF d
<1>10. op' \in Command /\ op'.at = "install" /\ op'.kind = op.kind /\ op'.host = h /\ op'.node = op.node
  BY <1>1, <1>2, OpFacts DEF Next1, Command, Stages
<1>11. op.kind = "delete" => host[op.host].seen.keys[op.node] = None
  BY <1>1 DEF CommandOK
<1>12. RestOK' /\ server' = server
  BY <1>1, <1>5 DEF TypeOK, RestOK, ghosts
<1>13. op'.at \notin {"save", "put_keys", "note_keys", "confirm"} \cup DeleteStages
  BY <1>10 DEF DeleteStages
<1> HIDE DEF IInv
<1> QED
  BY <1>1, <1>2, <1>8, <1>9, <1>10, <1>11, <1>12, <1>13, LocalStep

\* A step of a command that changes no copy.
LEMMA RemoteStep ==
  ASSUME IInv, op # None, NEW stage \in Stages, Goto(stage), UNCHANGED <<server, host>>, RestOK',
         stage \notin {"save", "put_keys", "note_keys", "confirm"},
         stage \in DeleteStages => op.kind = "delete",
         op.kind = "delete" /\ stage \in {"mark", "install", "confirm", "purge", "sweep"}
           => host[op.host].seen.keys[op.node] = None
  PROVE  IInv'
<1> USE DEF IInv
<1>1. op' \in Command /\ op'.at = stage /\ op'.kind = op.kind /\ op'.host = op.host /\ op'.node = op.node
  BY OpFacts, GotoFacts
<1>2. host' = [host EXCEPT ![op.host] = host[op.host]] /\ host[op.host] \in Copy
  BY OpFacts DEF TypeOK
<1> HIDE DEF IInv
<1> QED
  BY <1>1, <1>2, LocalStep

LEMMA EndDeployStep == ASSUME IInv, EndDeploy \/ GiveUp PROVE IInv'
<1> USE DEF IInv
<1>1. UNCHANGED <<remote, host, used, budget, ghosts>>
  BY DEF EndDeploy, GiveUp
<1>2. CASE op' = None
  BY <1>1, <1>2, EndStep DEF TypeOK, ghosts
<1>3. CASE op # None /\ op.at = "install" /\ op.kind = "delete" /\ Goto("purge")
  <2>1. host[op.host].seen.keys[op.node] = None
    BY <1>3 DEF CommandOK
  <2>2. RestOK' /\ UNCHANGED <<server, host>>
    BY <1>1, RestUnchanged DEF remote
  <2> QED
    BY <1>3, <2>1, <2>2, RemoteStep DEF Stages
<1> QED
  BY <1>2, <1>3 DEF EndDeploy, GiveUp, Step

-----------------------------------------------------------------------------
(***************************************************************************)
(* Taking a node offline.                                                  *)
(***************************************************************************)

\* A command begins or goes on with a new copy that is OK.
LEMMA CopyStep ==
  ASSUME IInv, op' \in Command, NEW d \in Copy, CopyOK(d), host' = [host EXCEPT ![op'.host] = d],
         server' = server, RestOK',
         op'.at \notin {"note_keys", "confirm"},
         op'.at = "put_keys" => op'.kind = "setup",
         op'.at = "save" => /\ op'.node \in Nodes /\ d.config[op'.node] # None
                            /\ op'.kind = "add" /\ d.seen.keys[op'.node] = None,
         op'.kind = "delete" => op'.node \in Nodes /\ d.jobs[op'.node] # None,
         op'.at \in DeleteStages => op'.kind = "delete",
         op'.kind = "delete" /\ op'.at \in {"mark", "install", "confirm", "purge", "sweep"}
           => d.seen.keys[op'.node] = None
  PROVE  IInv'
<1> USE DEF IInv
<1>1. op'.host \in Hosts
  BY DEF Command
<1>2. host' \in [Hosts -> Copy] /\ host'[op'.host] = d /\ \A k \in Hosts : CopyOK(host'[k])
  BY <1>1, HostFacts
<1>3. TypeOK'
  BY <1>2 DEF TypeOK, RestOK
<1>4. CommandOK'
  BY <1>2 DEF CommandOK
<1> QED
  BY <1>2, <1>3, <1>4 DEF CopiesFollow

LEMMA DeleteFacts ==
  ASSUME IInv, op # None, op.at \in DeleteStages
  PROVE  /\ op.kind = "delete" /\ op.node \in Nodes /\ host[op.host].jobs[op.node] # None
         /\ CopyOK(host[op.host])
         /\ op.at \in {"purge", "sweep"} => host[op.host].seen.keys[op.node] = None
BY OpFacts DEF IInv, CommandOK, CopiesFollow

LEMMA DropKeyStep == ASSUME IInv, DropKey PROVE IInv'
<1>1. op # None /\ op.at = "drop" /\ UNCHANGED <<remote, used, budget, ghosts>> /\ TypeOK
  BY DEF DropKey, Step, IInv
<1>2. PICK h \in Hosts, c \in Copy, n \in Nodes : h = op.host /\ c = host[h] /\ n = op.node
  BY <1>1, OpFacts, DeleteFacts DEF DeleteStages
<1>3. op.kind = "delete" /\ c.jobs[n] # None /\ CopyOK(c)
  BY <1>1, <1>2, DeleteFacts DEF DeleteStages
<1> DEFINE d == [c EXCEPT !.keys[n] = None]
<1>4. d \in Copy /\ d.jobs = c.jobs /\ d.seen = c.seen /\ \A m \in Nodes \ {n} : d.keys[m] = c.keys[m]
  BY DEF Copy
<1>5. host' = [host EXCEPT ![h] = d]
  BY <1>2 DEF DropKey
<1> HIDE DEF d
<1>6. CopyOK(d)
  BY <1>3, <1>4 DEF CopyOK
<1>7. op' \in Command /\ op'.at = "check_keys" /\ op'.kind = "delete" /\ op'.host = h /\ op'.node = n
  BY <1>1, <1>2, <1>3, OpFacts, GotoFacts DEF DropKey, Stages
<1>8. RestOK' /\ server' = server
  BY <1>1, RestUnchanged DEF remote
<1>9. op'.at \notin {"save", "put_keys", "note_keys", "confirm", "mark", "install"} \cup DeleteStages
  BY <1>7 DEF DeleteStages
<1> QED
  BY <1>3, <1>4, <1>5, <1>6, <1>7, <1>8, <1>9, CopyStep DEF DeleteStages

LEMMA LockStep == ASSUME IInv, Lock PROVE IInv'
<1>1. op # None /\ op.at = "lock" /\ UNCHANGED <<server, links, agent, host, used, budget, ghosts>> /\ TypeOK
  BY DEF Lock, Step, IInv
<1>2. op.kind = "delete"
  BY <1>1, DeleteFacts DEF DeleteStages
<1>3. PICK stage \in {"clean", "uninstall"} : Goto(stage)
  BY DEF Lock
<1>4. rows' \in [Nodes -> {"none", "live", "locked"}]
  BY <1>1 DEF Lock, TypeOK
<1>5. RestOK'
  BY <1>1, <1>4 DEF TypeOK, RestOK, ghosts
<1> QED
  BY <1>1, <1>2, <1>3, <1>5, RemoteStep DEF Stages

LEMMA UninstallStep == ASSUME IInv, Uninstall PROVE IInv'
<1>1. op # None /\ op.at = "uninstall" /\ UNCHANGED <<server, rows, links, host, used, budget, ghosts>> /\ TypeOK
  BY DEF Uninstall, AgentRemoved, Step, IInv
<1>2. op.kind = "delete"
  BY <1>1, DeleteFacts DEF DeleteStages
<1>3. agent' \in [Nodes -> Config \cup {None}]
  BY DEF Uninstall, AgentRemoved, IInv, TypeOK
<1>4. RestOK'
  BY <1>1, <1>3 DEF TypeOK, RestOK, ghosts
<1> QED
  BY <1>1, <1>2, <1>4, RemoteStep DEF Uninstall, AgentRemoved, Stages

LEMMA NoteUninstalledStep == ASSUME IInv, NoteUninstalled PROVE IInv'
<1>1. op # None /\ op.at = "uninstalled" /\ UNCHANGED <<remote, used, budget, ghosts>> /\ TypeOK
  BY DEF NoteUninstalled, Step, IInv
<1>2. PICK h \in Hosts, c \in Copy, n \in Nodes : h = op.host /\ c = host[h] /\ n = op.node
  BY <1>1, OpFacts, DeleteFacts DEF DeleteStages
<1>3. op.kind = "delete" /\ c.jobs[n] # None /\ CopyOK(c)
  BY <1>1, <1>2, DeleteFacts DEF DeleteStages
<1>4. PICK j \in Job : j = c.jobs[n]
  BY <1>3, CopyFacts
<1> DEFINE f == [j EXCEPT !.remoteDone = TRUE]
           d == [c EXCEPT !.jobs[n] = f]
<1>5. f \in Job /\ f # None
  BY ManagementAssumption DEF Job
<1>6. host' = [host EXCEPT ![h] = d]
  BY <1>2, <1>4 DEF NoteUninstalled
<1> HIDE DEF f
<1>7. d \in Copy /\ d.keys = c.keys /\ d.seen = c.seen
      /\ \A m \in Nodes : c.jobs[m] # None => d.jobs[m] # None
  BY <1>5 DEF Copy
<1> HIDE DEF d
<1>8. op' \in Command /\ op'.at = "clean" /\ op'.kind = "delete" /\ op'.host = h /\ op'.node = n
  BY <1>1, <1>2, <1>3, OpFacts, GotoFacts DEF NoteUninstalled, Stages
<1>9. RestOK' /\ server' = server
  BY <1>1, RestUnchanged DEF remote
<1> QED
  BY <1>1, <1>2, <1>3, <1>6, <1>7, <1>8, <1>9, LocalStep

LEMMA CleanPeerStep == ASSUME IInv, NEW m \in Nodes, CleanPeer(m) PROVE IInv'
<1>1. op # None /\ op.at = "clean" /\ UNCHANGED <<remote, op, used, budget, gone>> /\ TypeOK
  BY DEF CleanPeer, Step, IInv
<1>2. PICK h \in Hosts, c \in Copy, n \in Nodes : h = op.host /\ c = host[h] /\ n = op.node
  BY <1>1, OpFacts, DeleteFacts DEF DeleteStages
<1>3. op.kind = "delete" /\ op \in Command
  BY <1>1, <1>2, OpFacts, DeleteFacts DEF DeleteStages
<1>4. PICK e \in Config : e = c.config[m]
  BY <1>2, CopyFacts DEF CleanPeer, FilePeers
<1> DEFINE f == [e EXCEPT !.targets = e.targets \ {n}]
           d == [c EXCEPT !.config[m] = f]
<1>5. f \in Config
  BY DEF Config
<1>6. host' = [host EXCEPT ![h] = d]
  BY <1>2, <1>4 DEF CleanPeer
<1> HIDE DEF f
<1>7. d \in Copy /\ d.keys = c.keys /\ d.seen = c.seen /\ d.jobs = c.jobs
  BY <1>5 DEF Copy
<1> HIDE DEF d
<1>8. cut' \subseteq Hosts \X Nodes \X Nodes
  BY <1>1, <1>2 DEF CleanPeer, TypeOK
<1>9. RestOK' /\ server' = server
  BY <1>1, <1>8 DEF TypeOK, RestOK, remote
<1> QED
  BY <1>1, <1>2, <1>3, <1>6, <1>7, <1>9, LocalStep

LEMMA RemoveFilesStep == ASSUME IInv, RemoveFiles PROVE IInv'
<1>1. op # None /\ op.at = "clean" /\ UNCHANGED <<remote, used, budget, ghosts>> /\ TypeOK
  BY DEF RemoveFiles, Step, IInv
<1>2. PICK h \in Hosts, c \in Copy, n \in Nodes : h = op.host /\ c = host[h] /\ n = op.node
  BY <1>1, OpFacts, DeleteFacts DEF DeleteStages
<1>3. op.kind = "delete"
  BY <1>1, DeleteFacts DEF DeleteStages
<1> DEFINE d == [c EXCEPT !.config[n] = None]
<1>4. d \in Copy /\ d.keys = c.keys /\ d.seen = c.seen /\ d.jobs = c.jobs
  BY DEF Copy
<1>5. host' = [host EXCEPT ![h] = d]
  BY <1>2 DEF RemoveFiles
<1> HIDE DEF d
<1>6. op' \in Command /\ op'.at = "detach" /\ op'.kind = "delete" /\ op'.host = h /\ op'.node = n
  BY <1>1, <1>2, <1>3, OpFacts, GotoFacts DEF RemoveFiles, Stages
<1>7. RestOK' /\ server' = server
  BY <1>1, RestUnchanged DEF remote
<1> QED
  BY <1>1, <1>2, <1>3, <1>4, <1>5, <1>6, <1>7, LocalStep

LEMMA WithoutNodeFacts ==
  ASSUME NEW c \in Copy, NEW n \in Nodes
  PROVE  LET d == WithoutNode(c, n) IN
         /\ d \in Copy /\ d.keys[n] = None /\ d.seen.keys[n] = None
         /\ \A m \in Nodes \ {n} : d.keys[m] = c.keys[m] /\ d.seen.keys[m] = c.seen.keys[m]
         /\ \A m \in Nodes : c.jobs[m] # None => d.jobs[m] # None
<1> DEFINE jobs1 == [m \in Nodes |->
             IF m = n \/ c.jobs[m] = None THEN c.jobs[m] ELSE [c.jobs[m] EXCEPT !.peers = c.jobs[m].peers \ {n}]]
           seen1 == [c.seen EXCEPT !.keys[n] = None, !.revoked = c.seen.revoked \ {n}]
           keys1 == [c.keys EXCEPT ![n] = None]
           nodes1 == [c.nodes EXCEPT ![n] = None]
<1>1. ASSUME NEW m \in Nodes, c.jobs[m] # None
      PROVE  [c.jobs[m] EXCEPT !.peers = c.jobs[m].peers \ {n}] \in Job
  <2>1. PICK j \in Job : j = c.jobs[m]
    BY <1>1, CopyFacts
  <2>2. [j EXCEPT !.peers = @ \ {n}] \in Job
    BY DEF Job
  <2> QED
    BY <2>1, <2>2
<1>2. jobs1 \in [Nodes -> Job \cup {None}] /\ \A m \in Nodes : c.jobs[m] # None => jobs1[m] # None
  BY <1>1, CopyFacts, ManagementAssumption
<1>3. /\ seen1 \in Inventory /\ seen1.keys[n] = None
      /\ \A m \in Nodes \ {n} : seen1.keys[m] = c.seen.keys[m]
  BY CopyFacts DEF Inventory
<1>4. /\ keys1 \in [Nodes -> Secrets \cup {None}] /\ keys1[n] = None
      /\ \A m \in Nodes \ {n} : keys1[m] = c.keys[m]
  BY CopyFacts
<1>5. nodes1 \in [Nodes -> Managed \cup {None}]
  BY CopyFacts
<1>6. WithoutNode(c, n) = [c EXCEPT !.keys = keys1, !.revoked = c.revoked \ {n}, !.seen = seen1,
                                    !.nodes = nodes1, !.jobs = jobs1]
  BY DEF WithoutNode, Copy, Inventory
<1> HIDE DEF jobs1, seen1, keys1, nodes1
<1> QED
  BY <1>2, <1>3, <1>4, <1>5, <1>6 DEF Copy

LEMMA DetachStep == ASSUME IInv, Detach PROVE IInv'
<1>1. op # None /\ op.at = "detach" /\ UNCHANGED <<remote, used, budget, ghosts>> /\ TypeOK
  BY DEF Detach, Step, IInv
<1>2. PICK h \in Hosts, c \in Copy, n \in Nodes : h = op.host /\ c = host[h] /\ n = op.node
  BY <1>1, OpFacts, DeleteFacts DEF DeleteStages
<1>3. op.kind = "delete" /\ c.jobs[n] # None /\ CopyOK(c)
  BY <1>1, <1>2, DeleteFacts DEF DeleteStages
<1>4. PICK j \in Job : j = c.jobs[n]
  BY <1>3, CopyFacts
<1>5. PICK peers \in SUBSET Nodes : peers = j.peers
  BY DEF Job
<1> DEFINE b == Marked(c, peers)
           d == WithoutNode(b, n)
<1>6. b \in Copy /\ b.keys = c.keys /\ b.seen = c.seen /\ b.jobs = c.jobs
  BY MarkedFacts
<1>7. host' = [host EXCEPT ![h] = d]
  BY <1>2, <1>4, <1>5 DEF Detach
<1> HIDE DEF b
<1>8. /\ d \in Copy /\ d.keys[n] = None /\ d.seen.keys[n] = None
      /\ \A m \in Nodes \ {n} : d.keys[m] = b.keys[m] /\ d.seen.keys[m] = b.seen.keys[m]
      /\ \A m \in Nodes : b.jobs[m] # None => d.jobs[m] # None
  BY <1>6, WithoutNodeFacts
<1> HIDE DEF d
<1>9. CopyOK(d)
  BY <1>3, <1>6, <1>8 DEF CopyOK
<1>10. PICK todo \in SUBSET Nodes : op' = [op EXCEPT !.at = "mark", !.todo = todo]
  BY <1>2, <1>4, <1>5 DEF Detach
<1>11. op' \in Command /\ op'.at = "mark" /\ op'.kind = "delete" /\ op'.host = h /\ op'.node = n
  BY <1>1, <1>2, <1>3, <1>10, OpFacts DEF Command, Stages
<1>12. RestOK' /\ server' = server
  BY <1>1, RestUnchanged DEF remote
<1> QED
  BY <1>3, <1>6, <1>7, <1>8, <1>9, <1>11, <1>12, CopyStep

LEMMA PurgeStep == ASSUME IInv, Purge PROVE IInv'
<1>1. op # None /\ op.at = "purge" /\ UNCHANGED <<server, agent, host, used, budget, ghosts>> /\ TypeOK
  BY DEF Purge, Step, IInv
<1>2. op.kind = "delete" /\ host[op.host].seen.keys[op.node] = None
  BY <1>1, DeleteFacts DEF DeleteStages
<1>3. rows' \in [Nodes -> {"none", "live", "locked"}] /\ links' \subseteq Nodes \X Nodes
  BY <1>1 DEF Purge, TypeOK
<1>4. RestOK'
  BY <1>1, <1>3 DEF TypeOK, RestOK, ghosts
<1> QED
  BY <1>1, <1>2, <1>4, RemoteStep DEF Purge, Stages

LEMMA SweepStep == ASSUME IInv, Sweep PROVE IInv'
<1>1. op # None /\ op.at = "sweep" /\ UNCHANGED <<remote, used, budget, cut>> /\ op' = None /\ TypeOK
  BY DEF Sweep, Step, IInv
<1>2. PICK h \in Hosts, c \in Copy, n \in Nodes : h = op.host /\ c = host[h] /\ n = op.node
  BY <1>1, OpFacts, DeleteFacts DEF DeleteStages
<1>3. c.seen.keys[n] = None /\ CopyOK(c)
  BY <1>1, <1>2, DeleteFacts DEF DeleteStages
<1> DEFINE config1 == [m \in Nodes |->
             IF m = n \/ c.config[m] = None THEN None ELSE [c.config[m] EXCEPT !.targets = c.config[m].targets \ {n}]]
           d == [c EXCEPT !.jobs[n] = None, !.config = config1]
<1>4. ASSUME NEW m \in Nodes, c.config[m] # None
      PROVE  [c.config[m] EXCEPT !.targets = c.config[m].targets \ {n}] \in Config
  <2>1. PICK e \in Config : e = c.config[m]
    BY <1>4, CopyFacts
  <2>2. [e EXCEPT !.targets = @ \ {n}] \in Config
    BY DEF Config
  <2> QED
    BY <2>1, <2>2
<1>5. config1 \in [Nodes -> Config \cup {None}]
  BY <1>4
<1>6. host' = [host EXCEPT ![h] = d]
  BY <1>2 DEF Sweep
<1> HIDE DEF config1
<1>7. d \in Copy /\ d.keys = c.keys /\ d.seen = c.seen
      /\ \A m \in Nodes \ {n} : d.jobs[m] = c.jobs[m]
  BY <1>5 DEF Copy
<1> HIDE DEF d
<1>8. CopyOK(d)
  BY <1>3, <1>7 DEF CopyOK
<1>9. gone' \subseteq Hosts \X Nodes
  BY <1>1, <1>2 DEF Sweep, TypeOK
<1> QED
  BY <1>1, <1>2, <1>6, <1>7, <1>8, <1>9, EndLocalStep

LEMMA RefusedStep == ASSUME IInv, Refused PROVE IInv'
BY EndStep DEF Refused, IInv, TypeOK, ghosts

-----------------------------------------------------------------------------
(***************************************************************************)
(* Commands begin.                                                         *)
(***************************************************************************)

LEMMA ReportStep == ASSUME IInv, NEW n \in Nodes, Report(n) PROVE IInv'
<1>1. rows' \in [Nodes -> {"none", "live", "locked"}] /\ links' \subseteq Nodes \X Nodes
  BY CataloguedFacts DEF Report, IInv
<1> QED
  BY <1>1 DEF IInv, TypeOK, Report, CommandOK, CopiesFollow, ghosts

LEMMA AddStep ==
  ASSUME IInv, NEW h \in Hosts, NEW n \in Nodes, NEW secret \in Secrets, NEW targets \in SUBSET Nodes,
         Add(h, n, secret, targets)
  PROVE  IInv'
<1>1. TypeOK /\ CopiesFollow /\ UNCHANGED remote /\ used' \subseteq Secrets
      /\ gone' \subseteq gone /\ cut' \subseteq cut
  BY DEF IInv, Add, TypeOK
<1>2. PICK c \in Copy : c = host[h] /\ CopyOK(c)
  BY <1>1, HostCopy DEF CopiesFollow
<1>3. budget' \in [commands : 0..MaxCommands, faults : 0..MaxFaults]
  BY <1>1, SpendFacts DEF Add
<1> DEFINE b == [c EXCEPT !.seen = server]
           e == [secret |-> secret, targets |-> targets]
           d == [b EXCEPT !.config[n] = e]
<1>4. b \in Copy /\ CopyOK(b) /\ b.keys = c.keys /\ b.jobs = c.jobs /\ b.seen = server
  <2>1. c.revoked \in SUBSET Nodes /\ server \in {c.seen, [keys |-> c.keys, revoked |-> c.revoked]}
    BY <1>2, CopyFacts DEF Add, Accepts, Intended
  <2> QED
    BY <1>1, <1>2, <2>1, SeenFacts
<1>5. b.seen.keys[n] = None
  BY <1>2, <1>4 DEF CopyOK, Add
<1>6. e \in Config /\ e # None
  BY ManagementAssumption DEF Config
<1>7. host' = [host EXCEPT ![h] = d]
  BY <1>2 DEF Add
<1> HIDE DEF b, e
<1>8. d \in Copy /\ d.keys = b.keys /\ d.seen = b.seen /\ d.jobs = b.jobs /\ d.config[n] # None
  BY <1>4, <1>6 DEF Copy
<1> HIDE DEF d
<1>9. CopyOK(d)
  BY <1>4, <1>8 DEF CopyOK
<1>10. op' \in Command /\ op'.at = "save" /\ op'.kind = "add" /\ op'.host = h /\ op'.node = n
  BY BeginFacts DEF Add, Kinds, Stages
<1>11. RestOK' /\ server' = server
  BY <1>1, <1>3 DEF TypeOK, RestOK, remote
<1> QED
  BY <1>5, <1>7, <1>8, <1>9, <1>10, <1>11, CopyStep DEF DeleteStages

LEMMA ConfigureStep ==
  ASSUME IInv, NEW h \in Hosts, NEW n \in Nodes, NEW targets \in SUBSET Nodes, Configure(h, n, targets)
  PROVE  IInv'
<1>1. TypeOK /\ CopiesFollow /\ UNCHANGED <<remote, used, gone>> /\ cut' \subseteq cut
  BY DEF IInv, Configure
<1>2. PICK c \in Copy : c = host[h] /\ CopyOK(c)
  BY <1>1, HostCopy DEF CopiesFollow
<1>3. budget' \in [commands : 0..MaxCommands, faults : 0..MaxFaults]
  BY <1>1, SpendFacts DEF Configure
<1>4. PICK e \in Config : e = c.config[n]
  BY <1>2, CopyFacts DEF Configure
<1> DEFINE f == [e EXCEPT !.targets = targets]
           d == [c EXCEPT !.config[n] = f]
<1>5. f \in Config
  BY DEF Config
<1>6. host' = [host EXCEPT ![h] = d]
  BY <1>2, <1>4 DEF Configure
<1> HIDE DEF f
<1>7. d \in Copy /\ d.keys = c.keys /\ d.seen = c.seen /\ d.jobs = c.jobs
  BY <1>5 DEF Copy
<1> HIDE DEF d
<1>8. CopyOK(d)
  BY <1>2, <1>7 DEF CopyOK
<1>9. op' \in Command /\ op'.at = "mark" /\ op'.kind = "configure" /\ op'.host = h
  BY BeginFacts DEF Configure, Kinds, Stages
<1>10. RestOK' /\ server' = server
  BY <1>1, <1>3 DEF TypeOK, RestOK, remote
<1> QED
  BY <1>6, <1>7, <1>8, <1>9, <1>10, CopyStep DEF DeleteStages

\* apply, sync and setup change nothing when they begin.
LEMMA PlainStep ==
  ASSUME IInv, NEW h \in Hosts, Spend, NEW todo \in SUBSET Nodes, UNCHANGED <<remote, host, used, ghosts>>,
         \/ Begin("apply", h, None, "mark", todo)
         \/ Begin("sync", h, None, "check_keys", todo)
         \/ Begin("setup", h, None, "put_keys", todo)
  PROVE  IInv'
<1>1. TypeOK /\ CopiesFollow
  BY DEF IInv
<1>2. PICK c \in Copy : c = host[h] /\ CopyOK(c)
  BY <1>1, HostCopy DEF CopiesFollow
<1>3. budget' \in [commands : 0..MaxCommands, faults : 0..MaxFaults]
  BY <1>1, SpendFacts
<1>4. host' = [host EXCEPT ![h] = c]
  BY <1>1, <1>2 DEF TypeOK
<1>5. /\ op' \in Command /\ op'.host = h
      /\ <<op'.kind, op'.at>> \in {<<"apply", "mark">>, <<"sync", "check_keys">>, <<"setup", "put_keys">>}
  BY DEF Begin, Command, Kinds, Stages
<1>6. RestOK' /\ server' = server
  BY <1>1, <1>3 DEF TypeOK, RestOK, remote, ghosts
<1> QED
  BY <1>2, <1>4, <1>5, <1>6, CopyStep DEF DeleteStages

LEMMA RevokeStep ==
  ASSUME IInv, NEW h \in Hosts, NEW n \in Nodes, NEW revoked \in SUBSET Nodes, Revoke(h, n, revoked)
  PROVE  IInv'
<1>1. TypeOK /\ CopiesFollow /\ UNCHANGED <<remote, used, cut>> /\ gone' \subseteq gone
  BY DEF IInv, Revoke
<1>2. PICK c \in Copy : c = host[h] /\ CopyOK(c)
  BY <1>1, HostCopy DEF CopiesFollow
<1>3. budget' \in [commands : 0..MaxCommands, faults : 0..MaxFaults]
  BY <1>1, SpendFacts DEF Revoke
<1> DEFINE b == [c EXCEPT !.seen = server]
           d == [b EXCEPT !.revoked = revoked]
<1>4. b \in Copy /\ CopyOK(b)
  <2>1. c.revoked \in SUBSET Nodes /\ server \in {c.seen, [keys |-> c.keys, revoked |-> c.revoked]}
    BY <1>2, CopyFacts DEF Revoke, Accepts, Intended
  <2> QED
    BY <1>1, <1>2, <2>1, SeenFacts
<1>5. host' = [host EXCEPT ![h] = d]
  BY <1>2 DEF Revoke
<1> HIDE DEF b
<1>6. d \in Copy /\ d.keys = b.keys /\ d.seen = b.seen /\ d.jobs = b.jobs
  BY <1>4 DEF Copy
<1> HIDE DEF d
<1>7. CopyOK(d)
  BY <1>4, <1>6 DEF CopyOK
<1>8. op' \in Command /\ op'.at = "check_revoked" /\ op'.kind = "revoke" /\ op'.host = h
  BY BeginFacts DEF Revoke, Kinds, Stages
<1>9. RestOK' /\ server' = server
  BY <1>1, <1>3 DEF TypeOK, RestOK, remote
<1> QED
  BY <1>5, <1>6, <1>7, <1>8, <1>9, CopyStep DEF DeleteStages

LEMMA DeleteStep == ASSUME IInv, NEW h \in Hosts, NEW n \in Nodes, Delete(h, n) PROVE IInv'
<1>1. TypeOK /\ CopiesFollow /\ UNCHANGED <<remote, used, ghosts>>
  BY DEF IInv, Delete
<1>2. PICK c \in Copy : c = host[h] /\ CopyOK(c)
  BY <1>1, HostCopy DEF CopiesFollow
<1>3. budget' \in [commands : 0..MaxCommands, faults : 0..MaxFaults]
  BY <1>1, SpendFacts DEF Delete
<1>4. PICK j \in Job : host' = [host EXCEPT ![h].seen = server, ![h].jobs[n] = j]
  <2>1. JobPeers(h, n) \in SUBSET Nodes
    BY <1>2, CopyFacts DEF JobPeers, PeersFound, FilePeers, LinkPeers, Job
  <2>2. (IF host[h].jobs[n] = None THEN FALSE ELSE host[h].jobs[n].remoteDone) \in BOOLEAN
    BY <1>2, CopyFacts DEF Job
  <2>3. [peers |-> JobPeers(h, n),
         remoteDone |-> IF host[h].jobs[n] = None THEN FALSE ELSE host[h].jobs[n].remoteDone] \in Job
    BY <2>1, <2>2 DEF Job
  <2> QED
    BY <2>3 DEF Delete
<1> DEFINE b == [c EXCEPT !.seen = server]
           d == [b EXCEPT !.jobs[n] = j]
<1>5. b \in Copy /\ CopyOK(b)
  <2>1. c.revoked \in SUBSET Nodes /\ server \in {c.seen, [keys |-> c.keys, revoked |-> c.revoked]}
    BY <1>2, CopyFacts DEF Delete, Accepts, Intended
  <2> QED
    BY <1>1, <1>2, <2>1, SeenFacts
<1>6. host' = [host EXCEPT ![h] = d]
  BY <1>2, <1>4
<1> HIDE DEF b
<1>7. d \in Copy /\ d.keys = b.keys /\ d.seen = b.seen /\ d.jobs = [b.jobs EXCEPT ![n] = j]
  BY <1>5 DEF Copy
<1> HIDE DEF d
<1>8. d.jobs[n] # None /\ \A m \in Nodes : b.jobs[m] # None => d.jobs[m] # None
  BY <1>5, <1>7, CopyFacts, ManagementAssumption
<1>9. CopyOK(d)
  BY <1>5, <1>7, <1>8 DEF CopyOK
<1>10. op' \in Command /\ op'.at = "drop" /\ op'.kind = "delete" /\ op'.host = h /\ op'.node = n
  BY BeginFacts DEF Delete, Kinds, Stages
<1>11. RestOK' /\ server' = server
  BY <1>1, <1>3 DEF TypeOK, RestOK, remote, ghosts
<1> QED
  BY <1>6, <1>7, <1>8, <1>9, <1>10, <1>11, CopyStep DEF DeleteStages

LEMMA AdoptStep ==
  ASSUME IInv, NEW h \in Hosts, NEW k \in Hosts, NEW bySsh \in SUBSET Nodes, Adopt(h, k, bySsh)
  PROVE  IInv'
<1>1. /\ TypeOK /\ CopiesFollow /\ op = None /\ UNCHANGED <<remote, op, used, budget>>
      /\ gone' \subseteq gone /\ cut' \subseteq cut
  BY DEF IInv, Adopt, DeletionPending, Proven
<1>2. PICK c \in Copy : c = host[h]
  BY <1>1, HostCopy
<1> DEFINE listed == {n \in Nodes : server.keys[n] # None}
           from(n) == IF n \in bySsh THEN agent[n] ELSE host[k].config[n]
           nodes1 == [n \in Nodes |-> IF n \in listed THEN [pending |-> FALSE, confirm |-> FALSE] ELSE None]
           jobs1 == [n \in Nodes |-> IF c.jobs[n] = None /\ rows[n] = "locked"
                       THEN [peers |-> {}, remoteDone |-> FALSE] ELSE c.jobs[n]]
           config1 == [n \in Nodes |-> IF n \in listed THEN from(n) ELSE c.config[n]]
           d == [keys |-> server.keys, revoked |-> server.revoked, seen |-> server,
                 nodes |-> nodes1, jobs |-> jobs1, config |-> config1]
<1>3. nodes1 \in [Nodes -> Managed \cup {None}]
  BY DEF Managed
<1>4. jobs1 \in [Nodes -> Job \cup {None}]
  BY CopyFacts DEF Job
<1>5. config1 \in [Nodes -> Config \cup {None}]
  <2>1. ASSUME NEW n \in Nodes PROVE from(n) \in Config \cup {None} /\ c.config[n] \in Config \cup {None}
    BY <1>1, HostCopy, CopyFacts DEF TypeOK
  <2> HIDE DEF from, listed
  <2> QED
    BY <2>1
<1>6. host' = [host EXCEPT ![h] = d]
  BY <1>2 DEF Adopt, DeletionPending, Proven
<1>7. server.keys \in [Nodes -> Secrets \cup {None}] /\ server.revoked \in SUBSET Nodes /\ server \in Inventory
  BY <1>1 DEF TypeOK, Inventory
<1> HIDE DEF nodes1, jobs1, config1
<1>8. d \in Copy /\ d.keys = d.seen.keys
  BY <1>3, <1>4, <1>5, <1>7 DEF Copy
<1> HIDE DEF d
<1>9. CopyOK(d)
  BY <1>8 DEF CopyOK
<1>10. host' \in [Hosts -> Copy] /\ \A g \in Hosts : CopyOK(host'[g])
  BY <1>1, <1>6, <1>8, <1>9, HostFacts
<1> QED
  BY <1>1, <1>10 DEF IInv, TypeOK, CommandOK, CopiesFollow, remote

LEMMA InterruptStep == ASSUME IInv, Interrupt PROVE IInv'
<1>1. budget' \in [commands : 0..MaxCommands, faults : 0..MaxFaults]
  BY ManagementAssumption DEF Interrupt, IInv, TypeOK
<1> QED
  BY <1>1, EndStep DEF Interrupt, ghosts

-----------------------------------------------------------------------------
(***************************************************************************)
(* The theorems.                                                           *)
(***************************************************************************)

LEMMA NextInv == IInv /\ [Next]_vars => IInv'
<1> SUFFICES ASSUME IInv, [Next]_vars PROVE IInv'
  OBVIOUS
<1>1. CASE Work
  <2>1. CASE SaveNode \/ Publication
    BY <2>1, SaveNodeStep, CheckKeysStep, PutKeysStep, NoteKeysStep, CheckRevokedStep,
       PutRevokedStep, NoteRevokedStep DEF Publication
  <2>2. CASE Deployment
    BY <2>2, MarkStep, InstallStep, ConfirmStep, EndDeployStep DEF Deployment
  <2>3. CASE Deletion
    BY <2>3, DropKeyStep, LockStep, UninstallStep, NoteUninstalledStep, CleanPeerStep,
       RemoveFilesStep, DetachStep, PurgeStep, SweepStep, RefusedStep DEF Deletion
  <2> QED
    BY <1>1, <2>1, <2>2, <2>3 DEF Work
<1>2. CASE Interrupt
  BY <1>2, InterruptStep
<1>3. ASSUME NEW n \in Nodes, Report(n) PROVE IInv'
  BY <1>3, ReportStep
<1>4. ASSUME NEW h \in Hosts, NEW n \in Nodes, NEW secret \in Secrets, NEW targets \in SUBSET Nodes,
             Add(h, n, secret, targets)
      PROVE  IInv'
  BY <1>4, AddStep
<1>5. ASSUME NEW h \in Hosts, NEW n \in Nodes, NEW targets \in SUBSET Nodes,
             Configure(h, n, targets) \/ Revoke(h, n, targets)
      PROVE  IInv'
  BY <1>5, ConfigureStep, RevokeStep
<1>6. ASSUME NEW h \in Hosts, NEW todo \in SUBSET Nodes, Apply(h, todo) \/ SyncKeys(h) \/ Setup(h)
      PROVE  IInv'
  <2>1. CASE Apply(h, todo)
    BY <2>1, PlainStep DEF Apply
  <2>2. CASE SyncKeys(h) \/ Setup(h)
    <3>1. {} \in SUBSET Nodes
      OBVIOUS
    <3> QED
      BY <2>2, <3>1, PlainStep DEF SyncKeys, Setup
  <2> QED
    BY <1>6, <2>1, <2>2
<1>7. ASSUME NEW h \in Hosts, NEW n \in Nodes, Delete(h, n) PROVE IInv'
  BY <1>7, DeleteStep
<1>8. ASSUME NEW h \in Hosts, NEW k \in Hosts, NEW bySsh \in SUBSET Nodes, Adopt(h, k, bySsh) PROVE IInv'
  BY <1>8, AdoptStep
<1>9. CASE UNCHANGED vars
  BY <1>9 DEF vars, remote, ghosts, IInv, TypeOK, CommandOK, CopiesFollow
<1>10. {} \in SUBSET Nodes
  OBVIOUS
<1> QED
  BY <1>1, <1>2, <1>3, <1>4, <1>5, <1>6, <1>7, <1>8, <1>9, <1>10 DEF Next

\* The inductive invariant (publishNodeKeys and the commands around it, lumectl.mjs).
THEOREM ManagementInvariant == Spec => []IInv
BY InitInv, NextInv, PTL DEF Spec

\* Every copy, command and list stays well-formed, whatever is interrupted (lumectl.mjs).
THEOREM ManagementTypesCorrect == Spec => []TypeOK
<1>1. IInv => TypeOK
  BY DEF IInv
<1> QED
  BY <1>1, ManagementInvariant, PTL

\* A command that compares the key inventory before it publishes removes or replaces no
\* credential but that of a node its machine takes offline (publishNodeKeys).
THEOREM ComparedKeysStay == Spec => ComparedNotOverwritten
<1> DEFINE Kept == \A n \in Nodes : server.keys[n] # None /\ server'.keys[n] # server.keys[n]
                     => op.kind = "setup" \/ host[op.host].jobs[n] # None
<1>1. IInv /\ [Next]_vars => [Kept]_vars
  <2> SUFFICES ASSUME IInv, Next PROVE Kept
    BY DEF vars
  <2>1. CASE PutKeys
    <3>1. op # None /\ op.at = "put_keys" /\ server'.keys = host[op.host].keys
      BY <2>1 DEF PutKeys, Step, IInv, TypeOK, Inventory
    <3>2. op.kind # "setup" => server = host[op.host].seen
      BY <3>1 DEF IInv, CommandOK
    <3>3. CopyOK(host[op.host])
      BY <3>1, OpFacts DEF IInv, CopiesFollow
    <3> QED
      BY <3>1, <3>2, <3>3 DEF CopyOK
  <2>2. CASE server'.keys = server.keys
    BY <2>2
  <2>3. CASE PutRevoked
    BY <2>2, <2>3 DEF PutRevoked, IInv, TypeOK, Inventory
  <2>4. CASE server' = server
    BY <2>2, <2>4
  <2>5. Publication => PutKeys \/ PutRevoked \/ server' = server
    BY DEF Publication, CheckKeys, NoteKeys, CheckRevoked, NoteRevoked, remote
  <2>6. SaveNode \/ Deployment => server' = server
    BY DEF SaveNode, Deployment, Mark, Install, Confirm, FirstReport, LeaveStopped, GiveUp, EndDeploy, remote
  <2>7. Deletion => server' = server
    BY DEF Deletion, DropKey, Lock, Uninstall, AgentRemoved, NoteUninstalled, CleanPeer, RemoveFiles, Detach,
       Purge, Sweep, Refused, remote
  <2>8. Next => Work \/ server' = server
    <3>1. ASSUME NEW h, NEW n, NEW secret, NEW targets
          PROVE  Add(h, n, secret, targets) \/ Configure(h, n, targets) \/ Apply(h, targets)
                 \/ Delete(h, n) \/ Revoke(h, n, targets) \/ SyncKeys(h) \/ Setup(h)
                 \/ Adopt(h, n, targets) => server' = server
      BY DEF Add, Configure, Apply, Delete, Revoke, SyncKeys, Setup, Adopt, DeletionPending, Proven, remote
    <3>2. Interrupt => server' = server
      BY DEF Interrupt, remote
    <3>3. ASSUME NEW n PROVE Report(n) => server' = server
      BY DEF Report
    <3> QED
      BY <3>1, <3>2, <3>3 DEF Next
  <2> QED
    BY <2>1, <2>3, <2>4, <2>5, <2>6, <2>7, <2>8 DEF Work
<1> QED
  BY <1>1, ManagementInvariant, PTL DEF Spec, ComparedNotOverwritten

-----------------------------------------------------------------------------
(***************************************************************************)
(* What "deleted" means, and the links a deletion cuts, with one machine   *)
(* that deploys.  A second one with a copy from before the deletion could  *)
(* install the Agent again.                                                *)
(***************************************************************************)

OneDeployer == \A h, k \in Deployers : h = k

GoneThere(n) == CredentialsRemoved(n) /\ rows[n] = "none" /\ \A l \in links : n \notin {l[1], l[2]}
NoRecord(copy, n) == copy.keys[n] = None /\ n \notin copy.revoked /\ copy.nodes[n] = None
PeersIn(copy, n) == {m \in Nodes \ {n} : copy.config[m] # None /\ n \in copy.config[m].targets}
NoFile(copy, n) == copy.config[n] = None /\ PeersIn(copy, n) = {}
Gone(h, n) ==
  GoneThere(n) /\ (h \in Deployers => agent[n] = None) /\ NoRecord(host[h], n) /\ NoFile(host[h], n)

AllGone == \A h \in Hosts, n \in Nodes : <<h, n>> \in gone => Gone(h, n)

\* A job that has seen its Agent removed keeps it from being installed again.
AgentsRemoved ==
  \A h \in Deployers, n \in Nodes :
    host[h].jobs[n] # None /\ host[h].jobs[n].remoteDone => agent[n] = None

\* m probes n, or will once it is deployed.
Probing(copy, m, n) ==
  /\ copy.nodes[m] # None /\ copy.config[m] # None
  /\ n \in copy.config[m].targets \/ (agent[m] # None /\ n \in agent[m].targets)

CutKnown ==
  \A h \in Deployers, m \in Nodes, n \in Nodes :
    <<h, m, n>> \in cut /\ Probing(host[h], m, n)
      => host[h].jobs[n] # None /\ m \in host[h].jobs[n].peers

Detached == {"mark", "install", "confirm", "purge", "sweep"}

\* What a deletion has achieved at each of its stages, and what a command that may
\* bring a node back has yet to do.
DeletionAt ==
  op # None =>
    LET copy == host[op.host]  n == op.node IN
    /\ op.at = "save" => <<op.host, n>> \notin gone
    /\ op.at = "uninstalled" /\ op.host \in Deployers => agent[n] = None
    /\ op.kind = "delete" /\ op.at \in Detached \cup {"clean", "detach"} => copy.jobs[n].remoteDone
    /\ op.kind = "delete" /\ op.at \in Detached => NoRecord(copy, n)
    /\ op.at = "sweep" => GoneThere(n)

CuttingAt ==
  op # None /\ op.host \in Deployers =>
    LET h == op.host  copy == host[h]  n == op.node IN
    /\ op.at = "save" => \A t \in Nodes : <<h, n, t>> \notin cut
    /\ op.at = "confirm" => agent[op.on] = copy.config[op.on]
    /\ op.kind = "delete" =>
         /\ PeersIn(copy, n) \subseteq copy.jobs[n].peers
         /\ op.at \in Detached \cup {"detach"} => PeersIn(copy, n) = {}
         /\ op.at \in Detached => \A m \in Nodes : <<h, m, n>> \in cut /\ Probing(copy, m, n)
              => op.at \notin {"purge", "sweep"} /\ m \in op.todo

DInv == OneDeployer /\ AllGone /\ AgentsRemoved /\ CutKnown /\ DeletionAt /\ CuttingAt

LEMMA InitDone == Init /\ OneDeployer => DInv
<1> SUFFICES ASSUME Init, OneDeployer PROVE DInv
  OBVIOUS
<1>1. gone = {} /\ cut = {} /\ op = None
  BY DEF Init
<1>2. \A h \in Hosts, n \in Nodes : host[h].jobs[n] = None
  BY DEF Init
<1>3. AgentsRemoved
  BY <1>2, ManagementAssumption DEF AgentsRemoved
<1> QED
  BY <1>1, <1>3 DEF DInv, AllGone, CutKnown, DeletionAt, CuttingAt

\* The copy of one machine changes, nothing elsewhere.
LEMMA LocalDone ==
  ASSUME IInv, DInv, NEW h \in Hosts, NEW d, host' = [host EXCEPT ![h] = d],
         UNCHANGED remote, gone' \subseteq gone,
         \A k \in Hosts, m, n \in Nodes : k # h /\ <<k, m, n>> \in cut' => <<k, m, n>> \in cut,
         \A n \in Nodes : <<h, n>> \in gone' /\ Gone(h, n) => NoRecord(d, n) /\ NoFile(d, n),
         \A n \in Nodes : h \in Deployers /\ d.jobs[n] # None /\ d.jobs[n].remoteDone => agent[n] = None,
         \A m, n \in Nodes : h \in Deployers /\ <<h, m, n>> \in cut' /\ Probing(d, m, n)
           => d.jobs[n] # None /\ m \in d.jobs[n].peers,
         DeletionAt', CuttingAt'
  PROVE  DInv'
<1>1. host'[h] = d /\ \A k \in Hosts : k # h => host'[k] = host[k]
  BY DEF IInv, TypeOK
<1>2. \A n : GoneThere(n)' <=> GoneThere(n)
  BY DEF GoneThere, CredentialsRemoved, remote
<1>3. AllGone'
  <2> SUFFICES ASSUME NEW k \in Hosts, NEW n \in Nodes, <<k, n>> \in gone' PROVE Gone(k, n)'
    BY DEF AllGone
  <2>1. Gone(k, n)
    BY DEF DInv, AllGone
  <2>2. NoRecord(host'[k], n) /\ NoFile(host'[k], n)
    BY <1>1, <2>1 DEF Gone
  <2> QED
    BY <1>2, <2>1, <2>2 DEF Gone, NoRecord, NoFile, PeersIn, remote
<1>4. AgentsRemoved'
  BY <1>1, ManagementAssumption DEF DInv, AgentsRemoved, remote
<1>5. CutKnown'
  BY <1>1, ManagementAssumption DEF DInv, CutKnown, Probing, remote
<1> QED
  BY <1>3, <1>4, <1>5 DEF DInv, OneDeployer

\* A step that changes nothing but the lists of the copy, and these in a way that suits
\* the nodes that are gone.
LEMMA ListsDone ==
  ASSUME IInv, DInv, op # None, NEW d, host' = [host EXCEPT ![op.host] = d], UNCHANGED <<remote, ghosts>>,
         d.nodes = host[op.host].nodes, d.jobs = host[op.host].jobs, d.config = host[op.host].config,
         \A n \in Nodes : d.keys[n] \in {host[op.host].keys[n], None},
         d.revoked \subseteq host[op.host].revoked \cup server.revoked,
         \/ op' = None
         \/ /\ op'.kind = op.kind /\ op'.host = op.host /\ op'.node = op.node
            /\ op'.at \notin {"save", "uninstalled", "confirm", "sweep"}
            /\ op.kind = "delete" => op'.at \notin Detached \cup {"clean", "detach"}
  PROVE  DInv'
<1>1. PICK h \in Hosts, c \in Copy : h = op.host /\ c = host[h]
  BY OpFacts DEF IInv
<1>2. host'[h] = d
  BY <1>1 DEF IInv, TypeOK
<1>3. ASSUME NEW n \in Nodes, <<h, n>> \in gone', Gone(h, n) PROVE NoRecord(d, n) /\ NoFile(d, n)
  BY <1>1, <1>3 DEF Gone, GoneThere, CredentialsRemoved, NoRecord, NoFile, PeersIn
<1>4. ASSUME NEW m \in Nodes, NEW n \in Nodes, h \in Deployers, <<h, m, n>> \in cut', Probing(d, m, n)
      PROVE  d.jobs[n] # None /\ m \in d.jobs[n].peers
  BY <1>1, <1>4 DEF DInv, CutKnown, Probing, ghosts
<1>5. DeletionAt'
  BY <1>1, <1>2 DEF DeletionAt
<1>6. CuttingAt'
  BY <1>1, <1>2 DEF DInv, CuttingAt, PeersIn
<1>7. \A n \in Nodes : h \in Deployers /\ d.jobs[n] # None /\ d.jobs[n].remoteDone => agent[n] = None
  BY <1>1 DEF DInv, AgentsRemoved
<1> QED
  BY <1>1, <1>3, <1>4, <1>5, <1>6, <1>7, LocalDone DEF ghosts

LEMMA ListStepsDone ==
  ASSUME IInv, DInv, CheckKeys \/ NoteKeys \/ CheckRevoked \/ NoteRevoked \/ DropKey
  PROVE  DInv'
<1>1. op # None /\ UNCHANGED <<remote, ghosts>> /\ TypeOK
  BY DEF CheckKeys, NoteKeys, CheckRevoked, NoteRevoked, DropKey, Step, IInv
<1>2. PICK h \in Hosts, c \in Copy : h = op.host /\ c = host[h]
  BY <1>1, OpFacts
<1>3. \A stage \in Stages : Goto(stage) =>
        op'.at = stage /\ op'.kind = op.kind /\ op'.host = op.host /\ op'.node = op.node
  BY <1>1, OpFacts, GotoFacts
<1>4. c.keys \in [Nodes -> Secrets \cup {None}]
  BY CopyFacts
<1>5. CASE CheckKeys
  <2>1. PICK d : /\ host' = [host EXCEPT ![h] = d] /\ d = [c EXCEPT !.seen = d.seen]
                 /\ op' = None \/ Goto("put_keys")
    <3>1. CASE UNCHANGED host
      <4>1. host' = [host EXCEPT ![h] = c] /\ c = [c EXCEPT !.seen = c.seen]
        BY <1>2, <3>1, <1>1 DEF Copy, TypeOK
      <4> QED
        BY <1>5, <4>1 DEF CheckKeys
    <3>2. CASE host' = [host EXCEPT ![h].seen = server]
      <4> DEFINE d == [c EXCEPT !.seen = server]
      <4>1. host' = [host EXCEPT ![h] = d] /\ d.seen = server
        BY <1>2, <3>2 DEF Copy
      <4> QED
        BY <1>5, <4>1 DEF CheckKeys
    <3> QED
      BY <1>2, <1>5, <3>1, <3>2 DEF CheckKeys
  <2>2. d.nodes = c.nodes /\ d.jobs = c.jobs /\ d.config = c.config /\ d.keys = c.keys /\ d.revoked = c.revoked
    BY <2>1 DEF Copy
  <2> QED
    BY <1>1, <1>2, <1>3, <2>1, <2>2, ListsDone DEF Stages, Detached
<1>6. CASE NoteKeys
  <2> DEFINE d == IF op.kind = "setup" THEN [c EXCEPT !.seen = server, !.revoked = server.revoked]
                  ELSE [c EXCEPT !.seen.keys = c.keys]
  <2>1. host' = [host EXCEPT ![h] = d]
    BY <1>2, <1>6 DEF NoteKeys
  <2>2. /\ d.nodes = c.nodes /\ d.jobs = c.jobs /\ d.config = c.config /\ d.keys = c.keys
        /\ d.revoked \subseteq c.revoked \cup server.revoked
    BY DEF Copy
  <2> HIDE DEF d
  <2>3. op' = None \/ Goto("check_revoked") \/ (op.kind = "add" /\ Goto("install"))
    BY <1>6 DEF NoteKeys, AfterKeys
  <2> QED
    BY <1>1, <1>2, <1>3, <2>1, <2>2, <2>3, ListsDone DEF Stages, Detached
<1>7. CASE CheckRevoked
  <2>1. PICK s, r : /\ host' = [host EXCEPT ![h] = [c EXCEPT !.revoked = r, !.seen = s]]
                    /\ r \subseteq c.revoked
    <3> DEFINE asked == IF op.kind = "delete" THEN host[h].revoked \ {op.node} ELSE host[h].revoked
    <3>1. asked \subseteq c.revoked
      BY <1>2
    <3>2. PICK known : host' = [host EXCEPT ![h].revoked = asked, ![h].seen = IF known THEN server ELSE @]
      BY <1>2, <1>7 DEF CheckRevoked
    <3> HIDE DEF asked
    <3>3. host' = [host EXCEPT ![h] = [c EXCEPT !.revoked = asked, !.seen = IF known THEN server ELSE c.seen]]
      BY <1>1, <1>2, <3>2 DEF TypeOK, Copy
    <3> QED
      BY <3>1, <3>3
  <2> DEFINE d == [c EXCEPT !.revoked = r, !.seen = s]
  <2>2. d.nodes = c.nodes /\ d.jobs = c.jobs /\ d.config = c.config /\ d.keys = c.keys /\ d.revoked = r
    BY DEF Copy
  <2>3. op' = None \/ Goto("put_revoked")
    BY <1>7 DEF CheckRevoked
  <2>4. host' = [host EXCEPT ![h] = d]
    BY <2>1
  <2> HIDE DEF d
  <2> QED
    BY <1>1, <1>2, <1>3, <2>1, <2>2, <2>3, <2>4, ListsDone DEF Stages, Detached
<1>8. CASE NoteRevoked
  <2> DEFINE d == [c EXCEPT !.seen.revoked = c.revoked]
  <2>1. host' = [host EXCEPT ![h] = d]
    BY <1>2, <1>8 DEF NoteRevoked
  <2>2. d.nodes = c.nodes /\ d.jobs = c.jobs /\ d.config = c.config /\ d.keys = c.keys /\ d.revoked = c.revoked
    BY DEF Copy
  <2> HIDE DEF d
  <2>3. op' = None \/ Goto("lock")
    BY <1>8 DEF NoteRevoked, AfterRevoked
  <2> QED
    BY <1>1, <1>2, <1>3, <2>1, <2>2, <2>3, ListsDone DEF Stages, Detached
<1>9. CASE DropKey
  <2> DEFINE d == [c EXCEPT !.keys[op.node] = None]
  <2>1. host' = [host EXCEPT ![h] = d]
    BY <1>2, <1>9 DEF DropKey
  <2>2. d.nodes = c.nodes /\ d.jobs = c.jobs /\ d.config = c.config /\ d.revoked = c.revoked
        /\ \A n \in Nodes : d.keys[n] \in {c.keys[n], None}
    BY <1>4 DEF Copy
  <2> HIDE DEF d
  <2>3. Goto("check_keys")
    BY <1>9 DEF DropKey
  <2> QED
    BY <1>1, <1>2, <1>3, <2>1, <2>2, <2>3, ListsDone DEF Stages, Detached
<1> QED
  BY <1>5, <1>6, <1>7, <1>8, <1>9

\* A step that leaves the copies, and the nodes that are gone, as they are.
LEMMA RemoteDone ==
  ASSUME IInv, DInv, UNCHANGED <<host, cut>>, gone' \subseteq gone,
         \A n \in Nodes : agent'[n] \in {agent[n], None},
         \A h \in Hosts, n \in Nodes : <<h, n>> \in gone' /\ Gone(h, n) => GoneThere(n)',
         DeletionAt', CuttingAt'
  PROVE  DInv'
<1>1. AllGone'
  BY DEF DInv, AllGone, Gone, NoRecord, NoFile, PeersIn
<1>2. AgentsRemoved'
  BY ManagementAssumption DEF DInv, AgentsRemoved
<1>3. CutKnown'
  BY DEF DInv, CutKnown, Probing
<1> QED
  BY <1>1, <1>2, <1>3 DEF DInv, OneDeployer

LEMMA PutStepsDone == ASSUME IInv, DInv, PutKeys \/ PutRevoked PROVE DInv'
<1>1. op # None /\ UNCHANGED <<rows, links, agent, host, cut>> /\ TypeOK
  BY DEF PutKeys, PutRevoked, Step, IInv
<1>2. PICK h \in Hosts, c \in Copy : h = op.host /\ c = host[h]
  BY <1>1, OpFacts
<1>3. /\ op'.kind = op.kind /\ op'.host = op.host /\ op'.node = op.node
      /\ op'.at \in {"note_keys", "note_revoked"}
  BY <1>1, OpFacts, GotoFacts DEF PutKeys, PutRevoked, Stages
<1>4. gone' \subseteq gone /\ \A n \in Nodes : CredentialsRemoved(n) /\ (\E k \in Hosts : <<k, n>> \in gone')
        => CredentialsRemoved(n)'
  BY <1>1 DEF PutKeys, PutRevoked, CredentialsRemoved, TypeOK, Inventory
<1>5. DeletionAt'
  BY <1>3 DEF DeletionAt, Detached
<1>6. CuttingAt'
  BY <1>1, <1>3 DEF DInv, CuttingAt, Detached
<1>7. \A n \in Nodes : agent'[n] \in {agent[n], None}
  BY <1>1
<1>8. \A k \in Hosts, n \in Nodes : <<k, n>> \in gone' /\ Gone(k, n) => GoneThere(n)'
  BY <1>1, <1>4 DEF Gone, GoneThere
<1> QED
  BY <1>1, <1>4, <1>5, <1>6, <1>7, <1>8, RemoteDone

\* Marking brings no record back and takes none away.
LEMMA MarkedNodes ==
  ASSUME NEW c \in Copy, NEW ids \in SUBSET Nodes, NEW m \in Nodes
  PROVE  Marked(c, ids).nodes[m] = None <=> c.nodes[m] = None
<1>1. ASSUME c.nodes[m] # None PROVE [c.nodes[m] EXCEPT !.pending = TRUE] # None
  <2>1. PICK e \in Managed : e = c.nodes[m]
    BY <1>1, CopyFacts
  <2>2. [e EXCEPT !.pending = TRUE] \in Managed
    BY DEF Managed
  <2> QED
    BY <2>1, <2>2, ManagementAssumption
<1> QED
  BY <1>1, CopyFacts DEF Marked, Copy

LEMMA MarkDone == ASSUME IInv, DInv, Mark PROVE DInv'
<1>1. op # None /\ op.at = "mark" /\ UNCHANGED <<remote, used, budget, ghosts>> /\ TypeOK
  BY DEF Mark, Step, IInv
<1>2. PICK h \in Hosts, c \in Copy : h = op.host /\ c = host[h] /\ op.todo \in SUBSET Nodes
  BY <1>1, OpFacts
<1>3. PICK d \in Copy :
        /\ host' = [host EXCEPT ![h] = d]
        /\ op' = None \/ Goto("install")
        /\ d.keys = c.keys /\ d.revoked = c.revoked /\ d.jobs = c.jobs /\ d.config = c.config
        /\ \A m \in Nodes : d.nodes[m] = None <=> c.nodes[m] = None
  <2>1. CASE op' = None /\ UNCHANGED host
    <3>1. host' = [host EXCEPT ![h] = c]
      BY <1>1, <1>2, <2>1 DEF TypeOK
    <3> QED
      BY <2>1, <3>1
  <2>2. CASE host' = [host EXCEPT ![h] = Marked(c, op.todo)] /\ (op' = None \/ Goto("install"))
    BY <1>2, <2>2, MarkedFacts, MarkedNodes
  <2> QED
    BY <1>2, <2>1, <2>2 DEF Mark
<1>4. host'[h] = d
  BY <1>1, <1>3 DEF TypeOK
<1>5. op' = None \/ /\ op'.at = "install" /\ op'.kind = op.kind /\ op'.host = h /\ op'.node = op.node
                    /\ op'.todo = op.todo
  BY <1>1, <1>2, <1>3, OpFacts, GotoFacts DEF Stages
<1>6. \A n \in Nodes : NoRecord(c, n) => NoRecord(d, n)
  BY <1>3 DEF NoRecord
<1>7. \A n \in Nodes : NoFile(c, n) => NoFile(d, n)
  BY <1>3 DEF NoFile, PeersIn
<1>8. \A m, n \in Nodes : Probing(d, m, n) => Probing(c, m, n)
  BY <1>3 DEF Probing
<1>9. op.kind = "delete" => op.node \in Nodes
  BY <1>1 DEF IInv, CommandOK
<1>10. DeletionAt'
  BY <1>1, <1>2, <1>3, <1>4, <1>5, <1>6, <1>9 DEF DInv, DeletionAt, Detached, NoRecord
<1>11. CuttingAt'
  <2>1. \A m, n \in Nodes : Probing(d, m, n)' => Probing(c, m, n)
    BY <1>1, <1>8 DEF Probing, remote
  <2> QED
    BY <1>1, <1>2, <1>3, <1>4, <1>5, <1>9, <2>1 DEF DInv, CuttingAt, Detached, PeersIn, ghosts
<1>12. \A n \in Nodes : <<h, n>> \in gone' /\ Gone(h, n) => NoRecord(d, n) /\ NoFile(d, n)
  BY <1>2, <1>6, <1>7 DEF Gone
<1>13. \A n \in Nodes : h \in Deployers /\ d.jobs[n] # None /\ d.jobs[n].remoteDone => agent[n] = None
  BY <1>2, <1>3 DEF DInv, AgentsRemoved
<1>14. \A m, n \in Nodes : h \in Deployers /\ <<h, m, n>> \in cut' /\ Probing(d, m, n)
         => d.jobs[n] # None /\ m \in d.jobs[n].peers
  BY <1>1, <1>2, <1>3, <1>8 DEF DInv, CutKnown, ghosts
<1> QED
  BY <1>1, <1>3, <1>10, <1>11, <1>12, <1>13, <1>14, LocalDone DEF ghosts

LEMMA SaveNodeDone == ASSUME IInv, DInv, SaveNode PROVE DInv'
<1>1. op # None /\ op.at = "save" /\ UNCHANGED <<remote, used, budget, ghosts>> /\ TypeOK
  BY DEF SaveNode, Step, IInv
<1>2. PICK h \in Hosts, c \in Copy, n \in Nodes : h = op.host /\ c = host[h] /\ n = op.node
  BY <1>1, OpFacts DEF IInv, CommandOK
<1> DEFINE d == [c EXCEPT !.keys[n] = c.config[n].secret,
                          !.nodes[n] = [pending |-> TRUE, confirm |-> FALSE]]
<1>3. host' = [host EXCEPT ![h] = d]
  BY <1>1, <1>2 DEF SaveNode, TypeOK
<1>4. /\ d.revoked = c.revoked /\ d.jobs = c.jobs /\ d.config = c.config
      /\ \A m \in Nodes \ {n} : d.keys[m] = c.keys[m] /\ d.nodes[m] = c.nodes[m]
  BY DEF Copy
<1> HIDE DEF d
<1>5. op'.at = "check_keys" /\ op'.kind = "add"
  BY <1>1, OpFacts, GotoFacts DEF SaveNode, Stages, IInv, CommandOK
<1>6. <<h, n>> \notin gone /\ (h \in Deployers => \A t \in Nodes : <<h, n, t>> \notin cut)
  BY <1>1, <1>2 DEF DInv, DeletionAt, CuttingAt
<1>7. ASSUME NEW m \in Nodes, <<h, m>> \in gone', Gone(h, m) PROVE NoRecord(d, m) /\ NoFile(d, m)
  BY <1>1, <1>2, <1>4, <1>6, <1>7 DEF Gone, NoRecord, NoFile, PeersIn, ghosts
<1>8. DeletionAt' /\ CuttingAt'
  BY <1>5 DEF DeletionAt, CuttingAt, Detached
<1>9. \A m \in Nodes : h \in Deployers /\ d.jobs[m] # None /\ d.jobs[m].remoteDone => agent[m] = None
  BY <1>2, <1>4 DEF DInv, AgentsRemoved
<1>10. \A m, t \in Nodes : h \in Deployers /\ <<h, m, t>> \in cut' /\ Probing(d, m, t)
         => d.jobs[t] # None /\ m \in d.jobs[t].peers
  BY <1>1, <1>2, <1>4, <1>6 DEF DInv, CutKnown, Probing, ghosts
<1> QED
  BY <1>1, <1>3, <1>7, <1>8, <1>9, <1>10, LocalDone DEF ghosts

LEMMA InstallDone == ASSUME IInv, DInv, NEW n \in Nodes, Install(n) PROVE DInv'
<1>1. op # None /\ op.at = "install" /\ UNCHANGED <<server, rows, links, used, budget, ghosts>> /\ TypeOK
  BY DEF Install, Step, IInv
<1>2. PICK h \in Hosts, c \in Copy : h = op.host /\ c = host[h]
  BY <1>1, OpFacts
<1>3. /\ h \in Deployers /\ c.jobs[n] = None /\ c.nodes[n] # None /\ c.config[n] # None
      /\ \A k \in Deployers : k = h
  BY <1>2 DEF Install, Installable, DInv, OneDeployer
<1>4. PICK d : /\ host' = [host EXCEPT ![h] = d]
               /\ d.keys = c.keys /\ d.revoked = c.revoked /\ d.jobs = c.jobs /\ d.config = c.config
               /\ \A m \in Nodes \ {n} : d.nodes[m] = c.nodes[m]
  <2> DEFINE d == [c EXCEPT !.nodes[n].pending = TRUE]
  <2>1. host' = [host EXCEPT ![h] = d]
    BY <1>2 DEF Install
  <2>2. /\ d.keys = c.keys /\ d.revoked = c.revoked /\ d.jobs = c.jobs /\ d.config = c.config
        /\ \A m \in Nodes \ {n} : d.nodes[m] = c.nodes[m]
    BY DEF Copy
  <2> HIDE DEF d
  <2> QED
    BY <2>1, <2>2
<1>5. host'[h] = d /\ \A k \in Hosts : k # h => host'[k] = host[k]
  BY <1>1, <1>4 DEF TypeOK
<1>6. agent'[n] = c.config[n] /\ \A m \in Nodes \ {n} : agent'[m] = agent[m]
  BY <1>1, <1>2 DEF Install, TypeOK
<1>7. /\ op'.at = "confirm" /\ op'.kind = op.kind /\ op'.host = h /\ op'.node = op.node
      /\ op'.on = n /\ op'.todo = op.todo
  BY <1>1, <1>2, OpFacts DEF Install, Command
<1>8. op.kind = "delete" => op.node \in Nodes
  BY <1>1 DEF IInv, CommandOK
<1>9. \A m, t \in Nodes : Probing(d, m, t)' => Probing(c, m, t)
  BY <1>3, <1>4, <1>6 DEF Probing
<1>10. AllGone'
  <2> SUFFICES ASSUME NEW k \in Hosts, NEW m \in Nodes, <<k, m>> \in gone PROVE Gone(k, m)'
    BY <1>1 DEF AllGone, ghosts
  <2>1. Gone(k, m)
    BY DEF DInv, AllGone
  <2>2. k \in Deployers \/ k = h => m # n
    BY <1>2, <1>3, <2>1 DEF Gone, NoRecord
  <2>3. NoRecord(host'[k], m) /\ NoFile(host'[k], m)
    BY <1>2, <1>4, <1>5, <2>1, <2>2 DEF Gone, NoRecord, NoFile, PeersIn
  <2>4. GoneThere(m)'
    BY <1>1, <2>1 DEF Gone, GoneThere, CredentialsRemoved
  <2> QED
    BY <1>6, <2>1, <2>2, <2>3, <2>4 DEF Gone, NoRecord, NoFile, PeersIn
<1>11. AgentsRemoved'
  BY <1>2, <1>3, <1>4, <1>5, <1>6 DEF DInv, AgentsRemoved
<1>12. CutKnown'
  BY <1>1, <1>2, <1>3, <1>4, <1>5, <1>9 DEF DInv, CutKnown, ghosts
<1>13. DeletionAt'
  <2>1. op.kind = "delete" => op.node # n /\ NoRecord(c, op.node)
    BY <1>1, <1>2, <1>3 DEF DInv, DeletionAt, Detached, NoRecord
  <2>2. op.kind = "delete" => NoRecord(d, op.node)
    BY <1>4, <1>8, <2>1 DEF NoRecord
  <2> QED
    BY <1>1, <1>2, <1>4, <1>5, <1>7, <2>2 DEF DInv, DeletionAt, Detached, NoRecord
<1>14. CuttingAt'
  BY <1>1, <1>2, <1>3, <1>4, <1>5, <1>6, <1>7, <1>8, <1>9 DEF DInv, CuttingAt, Detached, PeersIn, ghosts
<1> QED
  BY <1>10, <1>11, <1>12, <1>13, <1>14 DEF DInv, OneDeployer

\* A report adds no row and no link of a node that is gone.
LEMMA CataloguedGone ==
  ASSUME TypeOK, NEW m \in Nodes, Authentic(m), Catalogued(m), server' = server,
         NEW n \in Nodes, GoneThere(n)
  PROVE  GoneThere(n)'
<1>1. server.keys[n] = None /\ agent[m] \in Config
  BY DEF GoneThere, CredentialsRemoved, Authentic, TypeOK
<1>2. m # n
  BY <1>1, ManagementAssumption DEF Authentic, Config
<1>3. rows'[n] = "none"
  BY <1>2 DEF GoneThere, Catalogued, TypeOK
<1>4. \A l \in links' : n \notin {l[1], l[2]}
  BY <1>1, <1>2 DEF GoneThere, Catalogued
<1> QED
  BY <1>3, <1>4 DEF GoneThere, CredentialsRemoved

LEMMA ConfirmDone == ASSUME IInv, DInv, Confirm \/ LeaveStopped PROVE DInv'
<1>1. op # None /\ op.at = "confirm" /\ UNCHANGED <<server, agent, used, budget, ghosts>> /\ Next1 /\ TypeOK
  BY DEF Confirm, FirstReport, LeaveStopped, Step, remote, IInv
<1>2. PICK h \in Hosts, c \in Copy : h = op.host /\ c = host[h] /\ op.todo \in SUBSET Nodes
  BY <1>1, OpFacts
<1>3. PICK m \in Nodes : m = op.on /\ c.nodes[m] # None
  BY <1>1, <1>2 DEF IInv, CommandOK
<1>4. PICK d : /\ host' = [host EXCEPT ![h] = d]
               /\ d.keys = c.keys /\ d.revoked = c.revoked /\ d.jobs = c.jobs /\ d.config = c.config
               /\ \A n \in Nodes \ {m} : d.nodes[n] = c.nodes[n]
  <2>1. PICK f : host' = [host EXCEPT ![h] = [c EXCEPT !.nodes[m] = f]]
    <3>1. CASE Confirm
      BY <1>2, <1>3, <3>1 DEF Confirm, FirstReport
    <3>2. CASE LeaveStopped
      <4> DEFINE f == [c.nodes[m] EXCEPT !.confirm = TRUE]
      <4>1. host' = [host EXCEPT ![h] = [c EXCEPT !.nodes[m] = f]]
        BY <1>2, <1>3, <3>2 DEF LeaveStopped
      <4> QED
        BY <4>1
    <3> QED
      BY <3>1, <3>2
  <2> DEFINE d == [c EXCEPT !.nodes[m] = f]
  <2>2. /\ d.keys = c.keys /\ d.revoked = c.revoked /\ d.jobs = c.jobs /\ d.config = c.config
        /\ \A n \in Nodes \ {m} : d.nodes[n] = c.nodes[n]
    BY DEF Copy
  <2>3. host' = [host EXCEPT ![h] = d]
    BY <2>1
  <2> HIDE DEF d
  <2> QED
    BY <2>2, <2>3
<1>5. host'[h] = d /\ \A k \in Hosts : k # h => host'[k] = host[k]
  BY <1>1, <1>4 DEF TypeOK
<1>6. /\ op'.at = "install" /\ op'.kind = op.kind /\ op'.host = h /\ op'.node = op.node
      /\ op'.todo = op.todo \ {m}
  BY <1>1, <1>2, <1>3, OpFacts DEF Next1, Command
<1>7. op.kind = "delete" => op.node \in Nodes
  BY <1>1 DEF IInv, CommandOK
<1>8. \A x, t \in Nodes : Probing(d, x, t)' => Probing(c, x, t)
  BY <1>1, <1>3, <1>4 DEF Probing
<1>9. ASSUME NEW n \in Nodes, GoneThere(n) PROVE GoneThere(n)'
  <2>1. CASE Confirm
    BY <1>1, <1>3, <1>9, <2>1, CataloguedGone DEF Confirm, FirstReport
  <2>2. CASE LeaveStopped
    BY <1>9, <2>2 DEF LeaveStopped, GoneThere, CredentialsRemoved, remote
  <2> QED
    BY <2>1, <2>2
<1>10. AllGone'
  <2> SUFFICES ASSUME NEW k \in Hosts, NEW n \in Nodes, <<k, n>> \in gone PROVE Gone(k, n)'
    BY <1>1 DEF AllGone, ghosts
  <2>1. Gone(k, n)
    BY DEF DInv, AllGone
  <2>2. NoRecord(host'[k], n) /\ NoFile(host'[k], n)
    BY <1>2, <1>3, <1>4, <1>5, <2>1 DEF Gone, NoRecord, NoFile, PeersIn
  <2> QED
    BY <1>1, <1>9, <2>1, <2>2 DEF Gone, NoRecord, NoFile, PeersIn
<1>11. AgentsRemoved'
  BY <1>1, <1>2, <1>4, <1>5, ManagementAssumption DEF DInv, AgentsRemoved
<1>12. CutKnown'
  <2> SUFFICES ASSUME NEW k \in Deployers, NEW x \in Nodes, NEW t \in Nodes,
                      <<k, x, t>> \in cut, Probing(host[k], x, t)'
               PROVE  host'[k].jobs[t] # None /\ x \in host'[k].jobs[t].peers
    BY <1>1 DEF CutKnown, ghosts, Probing
  <2>1. k \in Hosts
    BY ManagementAssumption
  <2>2. Probing(host[k], x, t)
    BY <1>1, <1>2, <1>5, <1>8, <2>1 DEF Probing
  <2> QED
    BY <1>2, <1>4, <1>5, <2>1, <2>2 DEF DInv, CutKnown
<1>13. DeletionAt'
  <2>1. op.kind = "delete" => op.node # m /\ NoRecord(c, op.node)
    BY <1>1, <1>2, <1>3 DEF DInv, DeletionAt, Detached, NoRecord
  <2>2. op.kind = "delete" => NoRecord(d, op.node)
    BY <1>4, <1>7, <2>1 DEF NoRecord
  <2> QED
    BY <1>1, <1>2, <1>4, <1>5, <1>6, <2>2 DEF DInv, DeletionAt, Detached, NoRecord
<1>14. CuttingAt'
  <2> SUFFICES ASSUME h \in Deployers, op.kind = "delete" PROVE CuttingAt'
    BY <1>6 DEF CuttingAt
  <2> DEFINE n == op.node
  <2>1. n \in Nodes /\ n # m
    BY <1>1, <1>2, <1>3, <1>7 DEF DInv, DeletionAt, Detached, NoRecord
  <2>2. PeersIn(c, n) = {} /\ \A x \in Nodes : <<h, x, n>> \in cut /\ Probing(c, x, n) => x \in op.todo
    BY <1>1, <1>2 DEF DInv, CuttingAt, Detached
  <2>3. agent[m] = c.config[m]
    BY <1>1, <1>2, <1>3 DEF DInv, CuttingAt
  <2>4. ~ Probing(c, m, n)
    BY <2>1, <2>2, <2>3 DEF Probing, PeersIn
  <2>5. \A x \in Nodes : <<h, x, n>> \in cut' /\ Probing(d, x, n)' => x \in op'.todo
    BY <1>1, <1>3, <1>6, <1>8, <2>1, <2>2, <2>4 DEF ghosts
  <2>6. PeersIn(d, n) = {}
    BY <1>4, <2>2 DEF PeersIn
  <2> QED
    BY <1>5, <1>6, <2>5, <2>6 DEF CuttingAt, Detached, PeersIn
<1> QED
  BY <1>10, <1>11, <1>12, <1>13, <1>14 DEF DInv, OneDeployer

LEMMA EndDeployDone == ASSUME IInv, DInv, EndDeploy \/ GiveUp \/ Refused \/ Interrupt PROVE DInv'
<1>1. UNCHANGED <<remote, host, used, ghosts>>
  BY DEF EndDeploy, GiveUp, Refused, Interrupt
<1>2. op' = None \/ /\ op # None /\ op.at = "install" /\ op.kind = "delete" /\ op.todo = {}
                    /\ Goto("purge")
  BY DEF EndDeploy, GiveUp, Refused, Interrupt, Step
<1>3. op' = None \/ /\ op'.at = "purge" /\ op'.kind = op.kind /\ op'.host = op.host /\ op'.node = op.node
                    /\ op'.todo = op.todo
  BY <1>2, OpFacts, GotoFacts DEF Stages, IInv
<1>4. DeletionAt'
  BY <1>1, <1>2, <1>3 DEF DInv, DeletionAt, Detached, NoRecord
<1>5. CuttingAt'
  BY <1>1, <1>2, <1>3 DEF DInv, CuttingAt, Detached, PeersIn, Probing, remote, ghosts
<1>6. \A n \in Nodes : agent'[n] \in {agent[n], None}
  BY <1>1 DEF remote
<1>7. \A k \in Hosts, n \in Nodes : <<k, n>> \in gone' /\ Gone(k, n) => GoneThere(n)'
  BY <1>1 DEF Gone, GoneThere, CredentialsRemoved, remote
<1> QED
  BY <1>1, <1>4, <1>5, <1>6, <1>7, RemoteDone DEF ghosts

LEMMA ReportDone == ASSUME IInv, DInv, NEW m \in Nodes, Report(m) PROVE DInv'
<1>1. UNCHANGED <<server, agent, host, op, used, budget, ghosts>> /\ Authentic(m) /\ Catalogued(m) /\ TypeOK
  BY DEF Report, IInv
<1>2. \A n \in Nodes : GoneThere(n) => GoneThere(n)'
  BY <1>1, CataloguedGone
<1>3. op # None /\ op.at = "sweep" => op.node \in Nodes
  BY DEF IInv, CommandOK, DeleteStages
<1>4. DeletionAt'
  BY <1>1, <1>2, <1>3 DEF DInv, DeletionAt, NoRecord, ghosts
<1>5. CuttingAt'
  BY <1>1 DEF DInv, CuttingAt, PeersIn, Probing, ghosts
<1>6. \A k \in Hosts, n \in Nodes : <<k, n>> \in gone' /\ Gone(k, n) => GoneThere(n)'
  BY <1>2 DEF Gone
<1> QED
  BY <1>1, <1>4, <1>5, <1>6, RemoteDone DEF ghosts

LEMMA PlainDone ==
  ASSUME IInv, DInv, NEW h \in Hosts, NEW ids \in SUBSET Nodes, Apply(h, ids) \/ SyncKeys(h) \/ Setup(h)
  PROVE  DInv'
<1>1. UNCHANGED <<remote, host, used, ghosts>>
  BY DEF Apply, SyncKeys, Setup
<1>2. op'.kind \in {"apply", "sync", "setup"} /\ op'.at \in {"mark", "check_keys", "put_keys"}
  BY DEF Apply, SyncKeys, Setup, Begin
<1>3. DeletionAt' /\ CuttingAt'
  BY <1>2 DEF DeletionAt, CuttingAt
<1>4. \A k \in Hosts, n \in Nodes : <<k, n>> \in gone' /\ Gone(k, n) => GoneThere(n)'
  BY <1>1 DEF Gone, GoneThere, CredentialsRemoved, remote
<1> QED
  BY <1>1, <1>3, <1>4, RemoteDone DEF ghosts, remote

LEMMA AddDone ==
  ASSUME IInv, DInv, NEW h \in Hosts, NEW n \in Nodes, NEW secret \in Secrets, NEW targets \in SUBSET Nodes,
         Add(h, n, secret, targets)
  PROVE  DInv'
<1>1. UNCHANGED remote /\ TypeOK
  BY DEF Add, IInv
<1>2. PICK c \in Copy : c = host[h]
  BY <1>1, HostCopy
<1> DEFINE d == [c EXCEPT !.seen = server, !.config[n] = [secret |-> secret, targets |-> targets]]
<1>3. host' = [host EXCEPT ![h] = d]
  BY <1>2 DEF Add
<1>4. /\ d.keys = c.keys /\ d.revoked = c.revoked /\ d.nodes = c.nodes /\ d.jobs = c.jobs
      /\ d.config[n].targets = targets /\ \A m \in Nodes \ {n} : d.config[m] = c.config[m]
  BY DEF Copy
<1> HIDE DEF d
<1>5. /\ gone' = {g \in gone : g[2] # n} /\ cut' = {x \in cut : x[2] # n /\ x[3] \notin targets}
      /\ \A m \in targets : c.nodes[m] # None
  BY <1>2 DEF Add, KnownNodes
<1>6. op'.at = "save" /\ op'.kind = "add" /\ op'.host = h /\ op'.node = n
  BY DEF Add, Begin
<1>7. ASSUME NEW m \in Nodes, <<h, m>> \in gone', Gone(h, m) PROVE NoRecord(d, m) /\ NoFile(d, m)
  <2>1. m # n /\ m \notin targets
    BY <1>2, <1>5, <1>7 DEF Gone, NoRecord
  <2> QED
    BY <1>2, <1>4, <1>7, <2>1 DEF Gone, NoRecord, NoFile, PeersIn
<1>8. DeletionAt' /\ CuttingAt'
  BY <1>5, <1>6 DEF DeletionAt, CuttingAt, Detached
<1>9. \A m \in Nodes : h \in Deployers /\ d.jobs[m] # None /\ d.jobs[m].remoteDone => agent[m] = None
  BY <1>2, <1>4 DEF DInv, AgentsRemoved
<1>10. \A m, t \in Nodes : h \in Deployers /\ <<h, m, t>> \in cut' /\ Probing(d, m, t)
         => d.jobs[t] # None /\ m \in d.jobs[t].peers
  BY <1>2, <1>4, <1>5 DEF DInv, CutKnown, Probing
<1>11. gone' \subseteq gone /\ cut' \subseteq cut
  BY <1>5
<1> QED
  BY <1>1, <1>3, <1>7, <1>8, <1>9, <1>10, <1>11, LocalDone

LEMMA ConfigureDone ==
  ASSUME IInv, DInv, NEW h \in Hosts, NEW n \in Nodes, NEW targets \in SUBSET Nodes, Configure(h, n, targets)
  PROVE  DInv'
<1>1. UNCHANGED <<remote, gone>> /\ TypeOK
  BY DEF Configure, IInv
<1>2. PICK c \in Copy : c = host[h]
  BY <1>1, HostCopy
<1>3. PICK e \in Config : e = c.config[n] /\ c.config[n] # None /\ c.nodes[n] # None
  BY <1>2, CopyFacts DEF Configure
<1> DEFINE f == [e EXCEPT !.targets = targets]
           d == [c EXCEPT !.config[n] = f]
<1>4. host' = [host EXCEPT ![h] = d]
  BY <1>2, <1>3 DEF Configure
<1>5. f.targets = targets
  BY DEF Config
<1> HIDE DEF f
<1>6. /\ d.keys = c.keys /\ d.revoked = c.revoked /\ d.nodes = c.nodes /\ d.jobs = c.jobs
      /\ d.config[n].targets = targets /\ \A m \in Nodes \ {n} : d.config[m] = c.config[m]
  BY <1>5 DEF Copy
<1> HIDE DEF d
<1>7. /\ cut' = cut \ {<<h, n, t>> : t \in targets}
      /\ \A m \in targets : c.nodes[m] # None \/ m \in c.config[n].targets
  BY <1>2 DEF Configure, KnownNodes
<1>8. op'.at = "mark" /\ op'.kind = "configure"
  BY DEF Configure, Begin
<1>9. ASSUME NEW m \in Nodes, <<h, m>> \in gone', Gone(h, m) PROVE NoRecord(d, m) /\ NoFile(d, m)
  <2>1. m # n /\ m \notin targets
    BY <1>2, <1>3, <1>7, <1>9 DEF Gone, NoRecord, NoFile, PeersIn
  <2> QED
    BY <1>2, <1>6, <1>9, <2>1 DEF Gone, NoRecord, NoFile, PeersIn
<1>10. DeletionAt' /\ CuttingAt'
  BY <1>8 DEF DeletionAt, CuttingAt, Detached
<1>11. \A m \in Nodes : h \in Deployers /\ d.jobs[m] # None /\ d.jobs[m].remoteDone => agent[m] = None
  BY <1>2, <1>6 DEF DInv, AgentsRemoved
<1>12. ASSUME NEW m \in Nodes, NEW t \in Nodes, h \in Deployers, <<h, m, t>> \in cut', Probing(d, m, t)
       PROVE  d.jobs[t] # None /\ m \in d.jobs[t].peers
  <2>1. <<h, m, t>> \in cut /\ (m = n => t \notin targets)
    BY <1>7, <1>12
  <2>2. Probing(c, m, t)
    BY <1>3, <1>6, <1>12, <2>1 DEF Probing
  <2> QED
    BY <1>2, <1>6, <1>12, <2>1, <2>2 DEF DInv, CutKnown
<1>13. gone' \subseteq gone /\ cut' \subseteq cut
  BY <1>1, <1>7
<1> QED
  BY <1>1, <1>4, <1>9, <1>10, <1>11, <1>12, <1>13, LocalDone

LEMMA RevokeDone ==
  ASSUME IInv, DInv, NEW h \in Hosts, NEW n \in Nodes, NEW revoked \in SUBSET Nodes, Revoke(h, n, revoked)
  PROVE  DInv'
<1>1. UNCHANGED <<remote, cut>> /\ TypeOK
  BY DEF Revoke, IInv
<1>2. PICK c \in Copy : c = host[h]
  BY <1>1, HostCopy
<1> DEFINE d == [c EXCEPT !.seen = server, !.revoked = revoked]
<1>3. host' = [host EXCEPT ![h] = d]
  BY <1>2 DEF Revoke
<1>4. d.keys = c.keys /\ d.revoked = revoked /\ d.nodes = c.nodes /\ d.jobs = c.jobs /\ d.config = c.config
  BY DEF Copy
<1> HIDE DEF d
<1>5. gone' = {g \in gone : g[2] # n} /\ revoked \subseteq c.revoked \cup {n}
  BY <1>2 DEF Revoke
<1>6. op'.at = "check_revoked" /\ op'.kind = "revoke"
  BY DEF Revoke, Begin
<1>7. ASSUME NEW m \in Nodes, <<h, m>> \in gone', Gone(h, m) PROVE NoRecord(d, m) /\ NoFile(d, m)
  <2>1. m # n
    BY <1>5, <1>7
  <2> QED
    BY <1>2, <1>4, <1>5, <1>7, <2>1 DEF Gone, NoRecord, NoFile, PeersIn
<1>8. DeletionAt' /\ CuttingAt'
  BY <1>6 DEF DeletionAt, CuttingAt
<1>9. \A m \in Nodes : h \in Deployers /\ d.jobs[m] # None /\ d.jobs[m].remoteDone => agent[m] = None
  BY <1>2, <1>4 DEF DInv, AgentsRemoved
<1>10. \A m, t \in Nodes : h \in Deployers /\ <<h, m, t>> \in cut' /\ Probing(d, m, t)
         => d.jobs[t] # None /\ m \in d.jobs[t].peers
  BY <1>1, <1>2, <1>4 DEF DInv, CutKnown, Probing
<1>11. gone' \subseteq gone
  BY <1>5
<1> QED
  BY <1>1, <1>3, <1>7, <1>8, <1>9, <1>10, <1>11, LocalDone

LEMMA DeleteDone == ASSUME IInv, DInv, NEW h \in Hosts, NEW n \in Nodes, Delete(h, n) PROVE DInv'
<1>1. UNCHANGED <<remote, ghosts>> /\ TypeOK
  BY DEF Delete, IInv
<1>2. PICK c \in Copy : c = host[h]
  BY <1>1, HostCopy
<1> DEFINE j == [peers |-> JobPeers(h, n),
                 remoteDone |-> IF c.jobs[n] = None THEN FALSE ELSE c.jobs[n].remoteDone]
           d == [c EXCEPT !.seen = server, !.jobs[n] = j]
<1>3. host' = [host EXCEPT ![h] = d]
  BY <1>2 DEF Delete
<1>4. j.peers = JobPeers(h, n) /\ (j.remoteDone => c.jobs[n] # None /\ c.jobs[n].remoteDone) /\ j # None
  <2>1. JobPeers(h, n) \in SUBSET Nodes
    BY <1>2, CopyFacts DEF JobPeers, PeersFound, FilePeers, LinkPeers, Job
  <2>2. j.remoteDone \in BOOLEAN
    BY CopyFacts DEF Job
  <2>3. j \in Job
    BY <2>1, <2>2 DEF Job
  <2> QED
    BY <2>3, ManagementAssumption
<1> HIDE DEF j
<1>5. /\ d.keys = c.keys /\ d.revoked = c.revoked /\ d.nodes = c.nodes /\ d.config = c.config
      /\ d.jobs[n] = j /\ \A m \in Nodes \ {n} : d.jobs[m] = c.jobs[m]
  BY DEF Copy
<1> HIDE DEF d
<1>6. host'[h] = d
  BY <1>1, <1>3 DEF TypeOK
<1>7. PeersIn(c, n) \subseteq j.peers /\ (c.jobs[n] # None => c.jobs[n].peers \subseteq j.peers)
  BY <1>2, <1>4 DEF JobPeers, PeersFound, FilePeers, PeersIn
<1>8. op'.at = "drop" /\ op'.kind = "delete" /\ op'.host = h /\ op'.node = n
  BY DEF Delete, Begin
<1>9. ASSUME NEW m \in Nodes, <<h, m>> \in gone', Gone(h, m) PROVE NoRecord(d, m) /\ NoFile(d, m)
  BY <1>2, <1>5, <1>9 DEF Gone, NoRecord, NoFile, PeersIn
<1>10. DeletionAt' /\ CuttingAt'
  BY <1>5, <1>6, <1>7, <1>8 DEF DeletionAt, CuttingAt, Detached, PeersIn
<1>11. \A m \in Nodes : h \in Deployers /\ d.jobs[m] # None /\ d.jobs[m].remoteDone => agent[m] = None
  BY <1>2, <1>4, <1>5 DEF DInv, AgentsRemoved
<1>12. ASSUME NEW m \in Nodes, NEW t \in Nodes, h \in Deployers, <<h, m, t>> \in cut', Probing(d, m, t)
       PROVE  d.jobs[t] # None /\ m \in d.jobs[t].peers
  <2>1. c.jobs[t] # None /\ m \in c.jobs[t].peers
    BY <1>1, <1>2, <1>5, <1>12 DEF DInv, CutKnown, Probing, ghosts
  <2> QED
    BY <1>4, <1>5, <1>7, <2>1
<1> QED
  BY <1>1, <1>3, <1>9, <1>10, <1>11, <1>12, LocalDone DEF ghosts

LEMMA AdoptDone ==
  ASSUME IInv, DInv, NEW h \in Hosts, NEW k \in Hosts, NEW bySsh \in SUBSET Nodes, Adopt(h, k, bySsh)
  PROVE  DInv'
<1>1. op = None /\ UNCHANGED <<remote, op>> /\ TypeOK
  BY DEF Adopt, DeletionPending, Proven, IInv
<1>2. PICK c \in Copy : c = host[h]
  BY <1>1, HostCopy
<1> DEFINE listed == {n \in Nodes : server.keys[n] # None}
           from(n) == IF n \in bySsh THEN agent[n] ELSE host[k].config[n]
           nodes1 == [n \in Nodes |-> IF n \in listed THEN [pending |-> FALSE, confirm |-> FALSE] ELSE None]
           jobs1 == [n \in Nodes |-> IF c.jobs[n] = None /\ rows[n] = "locked"
                       THEN [peers |-> {}, remoteDone |-> FALSE] ELSE c.jobs[n]]
           config1 == [n \in Nodes |-> IF n \in listed THEN from(n) ELSE c.config[n]]
           d == [keys |-> server.keys, revoked |-> server.revoked, seen |-> server,
                 nodes |-> nodes1, jobs |-> jobs1, config |-> config1]
<1>3. host' = [host EXCEPT ![h] = d]
  BY <1>2 DEF Adopt, DeletionPending, Proven
<1>4. /\ gone' = {g \in gone : g[1] = h => \A n \in listed : g[2] \notin from(n).targets}
      /\ cut' = {x \in cut : x[1] = h => c.jobs[x[3]] # None /\ x[2] \in c.jobs[x[3]].peers}
  BY <1>2 DEF Adopt, DeletionPending, Proven
<1>5. \A n \in Nodes : /\ n \in listed => config1[n] = from(n)
                       /\ n \notin listed => config1[n] = c.config[n] /\ nodes1[n] = None
  OBVIOUS
<1>6. \A n \in Nodes : /\ c.jobs[n] # None => jobs1[n] = c.jobs[n]
                       /\ c.jobs[n] = None => jobs1[n] = None \/ jobs1[n].remoteDone = FALSE
  OBVIOUS
<1>7. \A n \in Nodes : n \in listed <=> server.keys[n] # None
  OBVIOUS
<1> HIDE DEF listed, from, nodes1, jobs1, config1
<1>8. /\ d.keys = server.keys /\ d.revoked = server.revoked
      /\ d.nodes = nodes1 /\ d.jobs = jobs1 /\ d.config = config1
  OBVIOUS
<1> HIDE DEF d
<1>9. ASSUME NEW n \in Nodes, <<h, n>> \in gone', Gone(h, n) PROVE NoRecord(d, n) /\ NoFile(d, n)
  <2>1. n \notin listed /\ server.keys[n] = None /\ n \notin server.revoked
    BY <1>7, <1>9 DEF Gone, GoneThere, CredentialsRemoved
  <2>2. \A m \in listed : n \notin from(m).targets
    BY <1>4, <1>9
  <2>3. \A m \in Nodes \ {n} : c.config[m] # None => n \notin c.config[m].targets
    BY <1>2, <1>9 DEF Gone, NoFile, PeersIn
  <2>4. \A m \in Nodes \ {n} : config1[m] # None => n \notin config1[m].targets
    BY <1>5, <2>2, <2>3
  <2> QED
    BY <1>2, <1>5, <1>8, <1>9, <2>1, <2>4 DEF Gone, NoRecord, NoFile, PeersIn
<1>10. DeletionAt' /\ CuttingAt'
  BY <1>1 DEF DeletionAt, CuttingAt
<1>11. \A n \in Nodes : h \in Deployers /\ d.jobs[n] # None /\ d.jobs[n].remoteDone => agent[n] = None
  BY <1>2, <1>6, <1>8 DEF DInv, AgentsRemoved
<1>12. \A m, t \in Nodes : h \in Deployers /\ <<h, m, t>> \in cut' /\ Probing(d, m, t)
         => d.jobs[t] # None /\ m \in d.jobs[t].peers
  BY <1>4, <1>6, <1>8
<1>13. gone' \subseteq gone /\ \A g \in Hosts, m, n \in Nodes : <<g, m, n>> \in cut' => <<g, m, n>> \in cut
  BY <1>4
<1> QED
  BY <1>1, <1>3, <1>9, <1>10, <1>11, <1>12, <1>13, LocalDone

LEMMA LockDone == ASSUME IInv, DInv, Lock PROVE DInv'
<1>1. op # None /\ UNCHANGED <<server, links, agent, host, ghosts>> /\ TypeOK
  BY DEF Lock, Step, IInv
<1>2. /\ op'.kind = op.kind /\ op'.host = op.host /\ op'.node = op.node
      /\ op'.at \in {"clean", "uninstall"}
      /\ op'.at = "clean" => host[op.host].jobs[op.node].remoteDone
  BY <1>1, OpFacts, GotoFacts DEF Lock, Stages
<1>3. \A n \in Nodes : GoneThere(n) => GoneThere(n)'
  BY <1>1 DEF Lock, GoneThere, CredentialsRemoved, TypeOK
<1>4. DeletionAt'
  BY <1>1, <1>2 DEF DeletionAt, Detached
<1>5. CuttingAt'
  BY <1>1, <1>2 DEF DInv, CuttingAt, Detached, PeersIn
<1>6. \A k \in Hosts, n \in Nodes : <<k, n>> \in gone' /\ Gone(k, n) => GoneThere(n)'
  BY <1>3 DEF Gone
<1> QED
  BY <1>1, <1>4, <1>5, <1>6, RemoteDone DEF ghosts

LEMMA UninstallDone == ASSUME IInv, DInv, Uninstall PROVE DInv'
<1>1. op # None /\ op.at = "uninstall" /\ UNCHANGED <<server, rows, links, host, ghosts>> /\ TypeOK
  BY DEF Uninstall, AgentRemoved, Step, IInv
<1>2. /\ op'.kind = op.kind /\ op'.host = op.host /\ op'.node = op.node /\ op'.at = "uninstalled"
  BY <1>1, OpFacts, GotoFacts DEF Uninstall, AgentRemoved, Stages
<1>3. op.node \in Nodes
  BY <1>1, DeleteFacts DEF DeleteStages
<1>4. agent'[op.node] = None /\ \A n \in Nodes : agent'[n] \in {agent[n], None}
  BY <1>1, <1>3 DEF Uninstall, AgentRemoved, TypeOK
<1>5. DeletionAt'
  BY <1>1, <1>2, <1>4 DEF DeletionAt, Detached
<1>6. CuttingAt'
  BY <1>1, <1>2 DEF DInv, CuttingAt, Detached, PeersIn
<1>7. \A k \in Hosts, n \in Nodes : <<k, n>> \in gone' /\ Gone(k, n) => GoneThere(n)'
  BY <1>1 DEF Gone, GoneThere, CredentialsRemoved
<1> QED
  BY <1>1, <1>4, <1>5, <1>6, <1>7, RemoteDone DEF ghosts

LEMMA NoteUninstalledDone == ASSUME IInv, DInv, NoteUninstalled PROVE DInv'
<1>1. op # None /\ op.at = "uninstalled" /\ UNCHANGED <<remote, ghosts>> /\ TypeOK
  BY DEF NoteUninstalled, Step, IInv
<1>2. PICK h \in Hosts, c \in Copy, n \in Nodes : h = op.host /\ c = host[h] /\ n = op.node
  BY <1>1, OpFacts, DeleteFacts DEF DeleteStages
<1>3. PICK j \in Job : j = c.jobs[n] /\ c.jobs[n] # None
  BY <1>1, <1>2, DeleteFacts, CopyFacts DEF DeleteStages
<1> DEFINE f == [j EXCEPT !.remoteDone = TRUE]
           d == [c EXCEPT !.jobs[n] = f]
<1>4. f.peers = j.peers /\ f.remoteDone /\ f # None
  <2>1. f \in Job
    BY DEF Job
  <2> QED
    BY <2>1, ManagementAssumption DEF Job
<1>5. host' = [host EXCEPT ![h] = d]
  BY <1>2, <1>3 DEF NoteUninstalled
<1> HIDE DEF f
<1>6. /\ d.keys = c.keys /\ d.revoked = c.revoked /\ d.nodes = c.nodes /\ d.config = c.config
      /\ d.jobs[n] = f /\ \A m \in Nodes \ {n} : d.jobs[m] = c.jobs[m]
  BY DEF Copy
<1> HIDE DEF d
<1>7. host'[h] = d
  BY <1>1, <1>5 DEF TypeOK
<1>8. op'.kind = op.kind /\ op'.host = h /\ op'.node = n /\ op'.at = "clean"
  BY <1>1, <1>2, OpFacts, GotoFacts DEF NoteUninstalled, Stages
<1>9. h \in Deployers => agent[n] = None
  BY <1>1, <1>2 DEF DInv, DeletionAt
<1>10. ASSUME NEW m \in Nodes, <<h, m>> \in gone', Gone(h, m) PROVE NoRecord(d, m) /\ NoFile(d, m)
  BY <1>2, <1>6, <1>10 DEF Gone, NoRecord, NoFile, PeersIn
<1>11. DeletionAt'
  BY <1>4, <1>6, <1>7, <1>8 DEF DeletionAt, Detached
<1>12. CuttingAt'
  BY <1>1, <1>2, <1>3, <1>4, <1>6, <1>7, <1>8 DEF DInv, CuttingAt, Detached, PeersIn
<1>13. \A m \in Nodes : h \in Deployers /\ d.jobs[m] # None /\ d.jobs[m].remoteDone => agent[m] = None
  BY <1>2, <1>6, <1>9 DEF DInv, AgentsRemoved
<1>14. \A m, t \in Nodes : h \in Deployers /\ <<h, m, t>> \in cut' /\ Probing(d, m, t)
         => d.jobs[t] # None /\ m \in d.jobs[t].peers
  BY <1>1, <1>2, <1>3, <1>4, <1>6 DEF DInv, CutKnown, Probing, ghosts
<1> QED
  BY <1>1, <1>5, <1>10, <1>11, <1>12, <1>13, <1>14, LocalDone DEF ghosts

LEMMA CleanPeerDone == ASSUME IInv, DInv, NEW m \in Nodes, CleanPeer(m) PROVE DInv'
<1>1. op # None /\ op.at = "clean" /\ UNCHANGED <<remote, op, gone>> /\ TypeOK
  BY DEF CleanPeer, Step, IInv
<1>2. PICK h \in Hosts, c \in Copy, n \in Nodes : h = op.host /\ c = host[h] /\ n = op.node
  BY <1>1, OpFacts, DeleteFacts DEF DeleteStages
<1>3. op.kind = "delete" /\ c.jobs[n] # None
  BY <1>1, <1>2, DeleteFacts DEF DeleteStages
<1>4. m \in PeersIn(c, n) /\ cut' = cut \cup {<<h, m, n>>}
  BY <1>2 DEF CleanPeer, FilePeers, PeersIn
<1>5. PICK e \in Config : e = c.config[m]
  BY <1>4, CopyFacts DEF PeersIn
<1> DEFINE f == [e EXCEPT !.targets = e.targets \ {n}]
           d == [c EXCEPT !.config[m] = f]
<1>6. f.targets = e.targets \ {n}
  BY DEF Config
<1>7. host' = [host EXCEPT ![h] = d]
  BY <1>2, <1>5 DEF CleanPeer
<1> HIDE DEF f
<1>8. /\ d.keys = c.keys /\ d.revoked = c.revoked /\ d.nodes = c.nodes /\ d.jobs = c.jobs
      /\ d.config[m] = f /\ \A x \in Nodes \ {m} : d.config[x] = c.config[x]
  BY DEF Copy
<1> HIDE DEF d
<1>9. host'[h] = d
  BY <1>1, <1>7 DEF TypeOK
<1>10. \A x \in Nodes : c.config[x] = None => d.config[x] = None
  BY <1>4, <1>8 DEF PeersIn
<1>11. \A x \in Nodes : PeersIn(d, x) \subseteq PeersIn(c, x)
  BY <1>4, <1>5, <1>6, <1>8 DEF PeersIn
<1>12. \A x, t \in Nodes : Probing(d, x, t) => Probing(c, x, t)
  BY <1>4, <1>5, <1>6, <1>8 DEF PeersIn, Probing
<1>13. ASSUME NEW x \in Nodes, <<h, x>> \in gone', Gone(h, x) PROVE NoRecord(d, x) /\ NoFile(d, x)
  BY <1>2, <1>8, <1>10, <1>11, <1>13 DEF Gone, NoRecord, NoFile
<1>14. DeletionAt'
  BY <1>1, <1>2, <1>8, <1>9 DEF DInv, DeletionAt, Detached
<1>15. h \in Deployers => PeersIn(c, n) \subseteq c.jobs[n].peers
  BY <1>1, <1>2, <1>3 DEF DInv, CuttingAt
<1>16. CuttingAt'
  <2>1. h \in Deployers => PeersIn(d, n)' \subseteq d.jobs[n].peers
    BY <1>8, <1>11, <1>15 DEF PeersIn
  <2> QED
    BY <1>1, <1>2, <1>9, <2>1 DEF CuttingAt, Detached, PeersIn
<1>17. \A x \in Nodes : h \in Deployers /\ d.jobs[x] # None /\ d.jobs[x].remoteDone => agent[x] = None
  BY <1>2, <1>8 DEF DInv, AgentsRemoved
<1>18. \A x, t \in Nodes : h \in Deployers /\ <<h, x, t>> \in cut' /\ Probing(d, x, t)
         => d.jobs[t] # None /\ x \in d.jobs[t].peers
  BY <1>2, <1>3, <1>4, <1>8, <1>12, <1>15 DEF DInv, CutKnown
<1>19. \A k \in Hosts, x, t \in Nodes : k # h /\ <<k, x, t>> \in cut' => <<k, x, t>> \in cut
  BY <1>4
<1> QED
  BY <1>1, <1>7, <1>13, <1>14, <1>16, <1>17, <1>18, <1>19, LocalDone

LEMMA RemoveFilesDone == ASSUME IInv, DInv, RemoveFiles PROVE DInv'
<1>1. op # None /\ op.at = "clean" /\ UNCHANGED <<remote, ghosts>> /\ TypeOK
  BY DEF RemoveFiles, Step, IInv
<1>2. PICK h \in Hosts, c \in Copy, n \in Nodes : h = op.host /\ c = host[h] /\ n = op.node
  BY <1>1, OpFacts, DeleteFacts DEF DeleteStages
<1>3. op.kind = "delete" /\ PeersIn(c, n) = {}
  BY <1>1, <1>2, DeleteFacts DEF DeleteStages, RemoveFiles, FilePeers, PeersIn
<1> DEFINE d == [c EXCEPT !.config[n] = None]
<1>4. host' = [host EXCEPT ![h] = d]
  BY <1>2 DEF RemoveFiles
<1>5. /\ d.keys = c.keys /\ d.revoked = c.revoked /\ d.nodes = c.nodes /\ d.jobs = c.jobs
      /\ d.config[n] = None /\ \A x \in Nodes \ {n} : d.config[x] = c.config[x]
  BY DEF Copy
<1> HIDE DEF d
<1>6. host'[h] = d
  BY <1>1, <1>4 DEF TypeOK
<1>7. op'.kind = op.kind /\ op'.host = h /\ op'.node = n /\ op'.at = "detach"
  BY <1>1, <1>2, OpFacts, GotoFacts DEF RemoveFiles, Stages
<1>8. \A x \in Nodes : PeersIn(d, x) \subseteq PeersIn(c, x)
  BY <1>5 DEF PeersIn
<1>9. ASSUME NEW x \in Nodes, <<h, x>> \in gone', Gone(h, x) PROVE NoRecord(d, x) /\ NoFile(d, x)
  BY <1>2, <1>5, <1>8, <1>9 DEF Gone, NoRecord, NoFile
<1>10. DeletionAt'
  BY <1>1, <1>2, <1>3, <1>5, <1>6, <1>7 DEF DInv, DeletionAt, Detached
<1>11. CuttingAt'
  <2>1. PeersIn(d, n)' = {}
    BY <1>3, <1>8 DEF PeersIn
  <2> QED
    BY <1>6, <1>7, <2>1 DEF CuttingAt, Detached, PeersIn
<1>12. \A x \in Nodes : h \in Deployers /\ d.jobs[x] # None /\ d.jobs[x].remoteDone => agent[x] = None
  BY <1>2, <1>5 DEF DInv, AgentsRemoved
<1>13. \A x, t \in Nodes : h \in Deployers /\ <<h, x, t>> \in cut' /\ Probing(d, x, t)
         => d.jobs[t] # None /\ x \in d.jobs[t].peers
  BY <1>1, <1>2, <1>5 DEF DInv, CutKnown, Probing, ghosts
<1> QED
  BY <1>1, <1>4, <1>9, <1>10, <1>11, <1>12, <1>13, LocalDone DEF ghosts

LEMMA DetachDone == ASSUME IInv, DInv, Detach PROVE DInv'
<1>1. op # None /\ op.at = "detach" /\ UNCHANGED <<remote, ghosts>> /\ TypeOK
  BY DEF Detach, Step, IInv
<1>2. PICK h \in Hosts, c \in Copy, n \in Nodes : h = op.host /\ c = host[h] /\ n = op.node
  BY <1>1, OpFacts, DeleteFacts DEF DeleteStages
<1>3. PICK j \in Job : j = c.jobs[n] /\ c.jobs[n] # None /\ op.kind = "delete"
  BY <1>1, <1>2, DeleteFacts, CopyFacts DEF DeleteStages
<1>4. PICK peers \in SUBSET Nodes : peers = j.peers
  BY DEF Job
<1> DEFINE b == Marked(c, peers)
           d == WithoutNode(b, n)
<1>5. /\ b \in Copy /\ b.keys = c.keys /\ b.revoked = c.revoked /\ b.jobs = c.jobs /\ b.config = c.config
      /\ \A m \in Nodes : b.nodes[m] = None <=> c.nodes[m] = None
  BY MarkedFacts, MarkedNodes
<1>6. host' = [host EXCEPT ![h] = d]
  BY <1>2, <1>3, <1>4 DEF Detach
<1> HIDE DEF b
<1>7. /\ d.keys[n] = None /\ \A m \in Nodes \ {n} : d.keys[m] = c.keys[m]
      /\ d.revoked = c.revoked \ {n} /\ d.config = c.config
      /\ d.nodes[n] = None /\ \A m \in Nodes \ {n} : d.nodes[m] = None <=> c.nodes[m] = None
  BY <1>5, CopyFacts DEF WithoutNode, Copy
<1>8. /\ d.jobs[n] = c.jobs[n]
      /\ \A m \in Nodes \ {n} :
           /\ c.jobs[m] = None => d.jobs[m] = None
           /\ c.jobs[m] # None => /\ d.jobs[m] # None /\ d.jobs[m].peers = c.jobs[m].peers \ {n}
                                  /\ d.jobs[m].remoteDone = c.jobs[m].remoteDone
  <2>1. d.jobs = [m \in Nodes |-> IF m = n \/ c.jobs[m] = None THEN c.jobs[m]
                                  ELSE [c.jobs[m] EXCEPT !.peers = c.jobs[m].peers \ {n}]]
    BY <1>5 DEF WithoutNode, Copy
  <2>2. ASSUME NEW m \in Nodes, c.jobs[m] # None
        PROVE  LET f == [c.jobs[m] EXCEPT !.peers = c.jobs[m].peers \ {n}] IN
               f # None /\ f.peers = c.jobs[m].peers \ {n} /\ f.remoteDone = c.jobs[m].remoteDone
    <3>1. PICK i \in Job : i = c.jobs[m]
      BY <2>2, CopyFacts
    <3>2. [i EXCEPT !.peers = i.peers \ {n}] \in Job
      BY DEF Job
    <3> QED
      BY <3>1, <3>2, ManagementAssumption DEF Job
  <2> HIDE DEF d
  <2> QED
    BY <2>1, <2>2
<1> HIDE DEF d
<1>9. host'[h] = d
  BY <1>1, <1>6 DEF TypeOK
<1>10. /\ op'.kind = op.kind /\ op'.host = h /\ op'.node = n /\ op'.at = "mark"
       /\ op'.todo = {m \in peers : c.nodes[m] # None /\ m # n}
  BY <1>1, <1>2, <1>3, <1>4, OpFacts DEF Detach, Command, KnownNodes
<1>11. \A m, t \in Nodes : Probing(d, m, t) => m # n /\ Probing(c, m, t)
  BY <1>7 DEF Probing
<1>12. ASSUME NEW m \in Nodes, <<h, m>> \in gone', Gone(h, m) PROVE NoRecord(d, m) /\ NoFile(d, m)
  BY <1>2, <1>7, <1>12 DEF Gone, NoRecord, NoFile, PeersIn
<1>13. DeletionAt'
  <2>1. NoRecord(d, n) /\ d.jobs[n].remoteDone
    BY <1>1, <1>2, <1>3, <1>7, <1>8 DEF DInv, DeletionAt, NoRecord
  <2> QED
    BY <1>9, <1>10, <2>1 DEF DeletionAt, Detached, NoRecord
<1>14. CuttingAt'
  <2> SUFFICES ASSUME h \in Deployers PROVE CuttingAt'
    BY <1>10 DEF CuttingAt
  <2>1. PeersIn(d, n)' = {}
    BY <1>1, <1>2, <1>3, <1>7 DEF DInv, CuttingAt, PeersIn
  <2>2. ASSUME NEW m \in Nodes, <<h, m, n>> \in cut', Probing(d, m, n)' PROVE m \in op'.todo
    <3>1. Probing(c, m, n) /\ m # n /\ <<h, m, n>> \in cut
      BY <1>1, <1>11, <2>2 DEF Probing, remote, ghosts
    <3>2. m \in peers
      BY <1>2, <1>3, <1>4, <3>1 DEF DInv, CutKnown
    <3> QED
      BY <1>10, <3>1, <3>2 DEF Probing
  <2> QED
    BY <1>9, <1>10, <2>1, <2>2 DEF CuttingAt, Detached, PeersIn
<1>15. ASSUME NEW m \in Nodes, h \in Deployers, d.jobs[m] # None, d.jobs[m].remoteDone PROVE agent[m] = None
  <2>1. c.jobs[m] # None /\ c.jobs[m].remoteDone
    BY <1>8, <1>15
  <2> QED
    BY <1>2, <1>15, <2>1 DEF DInv, AgentsRemoved
<1>16. ASSUME NEW m \in Nodes, NEW t \in Nodes, h \in Deployers, <<h, m, t>> \in cut', Probing(d, m, t)
       PROVE  d.jobs[t] # None /\ m \in d.jobs[t].peers
  <2>1. m # n /\ c.jobs[t] # None /\ m \in c.jobs[t].peers
    BY <1>1, <1>2, <1>11, <1>16 DEF DInv, CutKnown, ghosts
  <2> QED
    BY <1>8, <2>1
<1> QED
  BY <1>1, <1>6, <1>12, <1>13, <1>14, <1>15, <1>16, LocalDone DEF ghosts

LEMMA PurgeDone == ASSUME IInv, DInv, Purge PROVE DInv'
<1>1. op # None /\ op.at = "purge" /\ UNCHANGED <<server, agent, host, ghosts>> /\ TypeOK
  BY DEF Purge, Step, IInv
<1>2. op'.kind = op.kind /\ op'.host = op.host /\ op'.node = op.node /\ op'.at = "sweep"
  BY <1>1, OpFacts, GotoFacts DEF Purge, Stages
<1>3. op.kind = "delete" /\ op.node \in Nodes
  BY <1>1, DeleteFacts DEF DeleteStages
<1>4. GoneThere(op.node)'
  BY <1>1, <1>2, <1>3 DEF Purge, GoneThere, CredentialsRemoved, TypeOK
<1>5. \A n \in Nodes : GoneThere(n) => GoneThere(n)'
  BY <1>1, <1>3 DEF Purge, GoneThere, CredentialsRemoved, TypeOK
<1>6. DeletionAt'
  BY <1>1, <1>2, <1>3, <1>4 DEF DInv, DeletionAt, Detached, NoRecord
<1>7. CuttingAt'
  BY <1>1, <1>2, <1>3 DEF DInv, CuttingAt, Detached, PeersIn, Probing, ghosts
<1>8. \A k \in Hosts, n \in Nodes : <<k, n>> \in gone' /\ Gone(k, n) => GoneThere(n)'
  BY <1>5 DEF Gone
<1> QED
  BY <1>1, <1>6, <1>7, <1>8, RemoteDone DEF ghosts

LEMMA SweepDone == ASSUME IInv, DInv, Sweep PROVE DInv'
<1>1. op # None /\ op.at = "sweep" /\ UNCHANGED <<remote, cut>> /\ op' = None /\ TypeOK
  BY DEF Sweep, Step, IInv
<1>2. PICK h \in Hosts, c \in Copy, n \in Nodes : h = op.host /\ c = host[h] /\ n = op.node
  BY <1>1, OpFacts, DeleteFacts DEF DeleteStages
<1>3. op.kind = "delete" /\ c.jobs[n] # None
  BY <1>1, <1>2, DeleteFacts DEF DeleteStages
<1> DEFINE config1 == [m \in Nodes |->
             IF m = n \/ c.config[m] = None THEN None ELSE [c.config[m] EXCEPT !.targets = c.config[m].targets \ {n}]]
           d == [c EXCEPT !.jobs[n] = None, !.config = config1]
<1>4. ASSUME NEW m \in Nodes, c.config[m] # None
      PROVE  [c.config[m] EXCEPT !.targets = c.config[m].targets \ {n}].targets = c.config[m].targets \ {n}
  <2>1. PICK e \in Config : e = c.config[m]
    BY <1>4, CopyFacts
  <2>2. [e EXCEPT !.targets = e.targets \ {n}].targets = e.targets \ {n}
    BY DEF Config
  <2> QED
    BY <2>1, <2>2
<1>5. \A m \in Nodes : config1[m] # None =>
        m # n /\ c.config[m] # None /\ config1[m].targets = c.config[m].targets \ {n}
  BY <1>4
<1>6. host' = [host EXCEPT ![h] = d] /\ gone' = gone \cup {<<h, n>>}
  BY <1>2 DEF Sweep
<1> HIDE DEF config1
<1>7. /\ d.keys = c.keys /\ d.revoked = c.revoked /\ d.nodes = c.nodes /\ d.config = config1
      /\ d.jobs[n] = None /\ \A m \in Nodes \ {n} : d.jobs[m] = c.jobs[m]
  BY DEF Copy
<1> HIDE DEF d
<1>8. host'[h] = d /\ \A k \in Hosts : k # h => host'[k] = host[k]
  BY <1>1, <1>6 DEF TypeOK
<1>9. GoneThere(n) /\ NoRecord(c, n) /\ c.jobs[n].remoteDone
  BY <1>1, <1>2, <1>3 DEF DInv, DeletionAt, Detached
<1>10. h \in Deployers => agent[n] = None
  BY <1>2, <1>3, <1>9 DEF DInv, AgentsRemoved
<1>11. NoFile(d, n)
  <2>1. config1[n] = None
    BY <1>5
  <2> QED
    BY <1>5, <1>7, <2>1 DEF NoFile, PeersIn
<1>12. AllGone'
  <2> SUFFICES ASSUME NEW k \in Hosts, NEW m \in Nodes, <<k, m>> \in gone' PROVE Gone(k, m)'
    BY DEF AllGone
  <2>1. GoneThere(m) /\ (k \in Deployers => agent[m] = None) /\ NoRecord(host'[k], m) /\ NoFile(host'[k], m)
    <3>1. CASE k = h /\ m = n
      BY <1>7, <1>8, <1>9, <1>10, <1>11, <3>1 DEF NoRecord
    <3>2. CASE <<k, m>> \in gone
      <4>1. Gone(k, m)
        BY <3>2 DEF DInv, AllGone
      <4>2. CASE k = h
        <5>1. NoRecord(c, m) /\ NoFile(c, m)
          BY <1>2, <4>1, <4>2 DEF Gone
        <5>2. NoRecord(d, m) /\ NoFile(d, m)
          BY <1>5, <1>7, <5>1 DEF NoRecord, NoFile, PeersIn
        <5> QED
          BY <1>8, <4>1, <4>2, <5>2 DEF Gone
      <4>3. CASE k # h
        BY <1>8, <4>1, <4>3 DEF Gone
      <4> QED
        BY <4>2, <4>3
    <3> QED
      BY <1>6, <3>1, <3>2
  <2> QED
    BY <1>1, <2>1 DEF Gone, GoneThere, CredentialsRemoved, NoRecord, NoFile, PeersIn, remote
<1>13. AgentsRemoved'
  <2> SUFFICES ASSUME NEW k \in Deployers, NEW m \in Nodes, host'[k].jobs[m] # None, host'[k].jobs[m].remoteDone
               PROVE  agent[m] = None
    BY <1>1 DEF AgentsRemoved, remote
  <2>1. host[k].jobs[m] # None /\ host[k].jobs[m].remoteDone
    BY <1>2, <1>7, <1>8, ManagementAssumption
  <2> QED
    BY <2>1 DEF DInv, AgentsRemoved
<1>14. CutKnown'
  <2> SUFFICES ASSUME NEW k \in Deployers, NEW m \in Nodes, NEW t \in Nodes,
                      <<k, m, t>> \in cut, Probing(host[k], m, t)'
               PROVE  host'[k].jobs[t] # None /\ m \in host'[k].jobs[t].peers
    BY <1>1 DEF CutKnown
  <2>1. k \in Hosts
    BY ManagementAssumption
  <2>2. Probing(host[k], m, t)
    BY <1>1, <1>2, <1>5, <1>7, <1>8, <2>1 DEF Probing, remote
  <2>3. host[k].jobs[t] # None /\ m \in host[k].jobs[t].peers
    BY <2>2 DEF DInv, CutKnown
  <2>4. k = h => t # n
    BY <1>1, <1>2, <1>3, <2>2 DEF DInv, CuttingAt, Detached
  <2> QED
    BY <1>2, <1>7, <1>8, <2>1, <2>3, <2>4
<1> QED
  BY <1>1, <1>12, <1>13, <1>14 DEF DInv, OneDeployer, DeletionAt, CuttingAt

LEMMA NextDone == IInv /\ DInv /\ [Next]_vars => DInv'
<1> SUFFICES ASSUME IInv, DInv, [Next]_vars PROVE DInv'
  OBVIOUS
<1>1. CASE Work
  <2>1. CASE SaveNode \/ Publication \/ DropKey
    BY <2>1, SaveNodeDone, ListStepsDone, PutStepsDone DEF Publication
  <2>2. CASE Deployment
    BY <2>2, MarkDone, InstallDone, ConfirmDone, EndDeployDone DEF Deployment
  <2>3. CASE Deletion /\ ~ DropKey
    BY <2>3, LockDone, UninstallDone, NoteUninstalledDone, CleanPeerDone, RemoveFilesDone, DetachDone,
       PurgeDone, SweepDone, EndDeployDone DEF Deletion
  <2> QED
    BY <1>1, <2>1, <2>2, <2>3 DEF Work
<1>2. CASE Interrupt
  BY <1>2, EndDeployDone
<1>3. ASSUME NEW n \in Nodes, Report(n) PROVE DInv'
  BY <1>3, ReportDone
<1>4. ASSUME NEW h \in Hosts, NEW n \in Nodes, NEW secret \in Secrets, NEW targets \in SUBSET Nodes,
             Add(h, n, secret, targets)
      PROVE  DInv'
  BY <1>4, AddDone
<1>5. ASSUME NEW h \in Hosts, NEW n \in Nodes, NEW targets \in SUBSET Nodes,
             Configure(h, n, targets) \/ Revoke(h, n, targets)
      PROVE  DInv'
  BY <1>5, ConfigureDone, RevokeDone
<1>6. ASSUME NEW h \in Hosts, NEW ids \in SUBSET Nodes, Apply(h, ids) \/ SyncKeys(h) \/ Setup(h) PROVE DInv'
  BY <1>6, PlainDone
<1>7. ASSUME NEW h \in Hosts, NEW n \in Nodes, Delete(h, n) PROVE DInv'
  BY <1>7, DeleteDone
<1>8. ASSUME NEW h \in Hosts, NEW k \in Hosts, NEW bySsh \in SUBSET Nodes, Adopt(h, k, bySsh) PROVE DInv'
  BY <1>8, AdoptDone
<1>9. CASE UNCHANGED vars
  <2>1. UNCHANGED <<remote, host, op, ghosts>>
    BY <1>9 DEF vars
  <2>2. DeletionAt'
    BY <2>1 DEF DInv, DeletionAt, NoRecord, GoneThere, CredentialsRemoved, remote, ghosts
  <2>3. CuttingAt'
    BY <2>1 DEF DInv, CuttingAt, PeersIn, Probing, remote, ghosts
  <2> QED
    BY <2>1, <2>2, <2>3, RemoteDone DEF Gone, GoneThere, CredentialsRemoved, remote, ghosts
<1>10. {} \in SUBSET Nodes
  OBVIOUS
<1> QED
  BY <1>1, <1>2, <1>3, <1>4, <1>5, <1>6, <1>7, <1>8, <1>9, <1>10 DEF Next

\* The invariant of deletions, where one machine deploys (deleteManagedNode, lumectl.mjs).
THEOREM DeletionInvariant == Spec /\ OneDeployer => []DInv
<1>1. IInv /\ DInv /\ [Next]_vars => DInv'
  BY NextDone
<1> QED
  BY <1>1, InitDone, ManagementInvariant, PTL DEF Spec

\* Where one machine deploys, what is reported as deleted has no credential, row, link,
\* Agent, record or file left, whatever was interrupted, by any number of machines
\* (deleteManagedNode, lumectl.mjs).
THEOREM DeletedIsGone == Spec /\ OneDeployer => []DoneMeansGone
<1>1. IInv /\ DInv => DoneMeansGone
  <2> SUFFICES ASSUME IInv, DInv, NEW g \in gone
               PROVE  LET h == g[1]  n == g[2]  copy == host[h] IN
                      /\ CredentialsRemoved(n) /\ rows[n] = "none" /\ \A l \in links : n \notin {l[1], l[2]}
                      /\ h \in Deployers => agent[n] = None
                      /\ copy.keys[n] = None /\ n \notin copy.revoked /\ copy.nodes[n] = None /\ copy.config[n] = None
                      /\ FilePeers(h, n) = {}
    BY DEF DoneMeansGone
  <2>1. PICK h \in Hosts, n \in Nodes : g = <<h, n>>
    BY DEF IInv, TypeOK
  <2>2. Gone(h, n)
    BY <2>1 DEF DInv, AllGone
  <2> QED
    BY <2>1, <2>2 DEF Gone, GoneThere, NoRecord, NoFile, PeersIn, FilePeers
<1> QED
  BY <1>1, DeletionInvariant, ManagementInvariant, PTL

\* Where one machine deploys, a link that a deletion cut in a peer's file is cut in its
\* Agent too, or is known to the job, which deploys the peer when it is resumed
\* (applyNodeFilePlan and the deployment of the peers, lumectl.mjs).
THEOREM CutsAreDeployed == Spec /\ OneDeployer => []CutLinksAreDeployed
<1>1. IInv /\ DInv => CutLinksAreDeployed
  <2> SUFFICES ASSUME IInv, DInv, NEW x \in cut
               PROVE  LET copy == host[x[1]]  m == x[2]  n == x[3] IN
                      x[1] \in Deployers /\ copy.nodes[m] # None /\ copy.config[m] # None
                      /\ n \notin copy.config[m].targets /\ agent[m] # None /\ n \in agent[m].targets
                      => copy.jobs[n] # None /\ m \in copy.jobs[n].peers
    BY DEF CutLinksAreDeployed
  <2>1. PICK h \in Hosts, m \in Nodes, n \in Nodes : x = <<h, m, n>>
    BY DEF IInv, TypeOK
  <2> QED
    BY <2>1 DEF DInv, CutKnown, Probing
<1> QED
  BY <1>1, DeletionInvariant, ManagementInvariant, PTL
=============================================================================
