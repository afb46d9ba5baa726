------------------------ MODULE ReportDeliveryProofs ------------------------
(***************************************************************************)
(* Theorems of ReportDelivery and ReportHistory, the specifications that   *)
(* are built on ReportIngest.  Delivering reports is a way of ingesting    *)
(* them, and so is recording them: what is proved of ReportIngest holds of *)
(* both.  Of deliveries: the newest report survives, and no attempt is     *)
(* taken for a replay.  Of histories, with one invocation at a time: what  *)
(* retries add, what the event list tells and which replays are refused.   *)
(***************************************************************************)
EXTENDS ReportDelivery, ReportHistory, ReportIngestProofs, FiniteSetTheorems

-----------------------------------------------------------------------------
(***************************************************************************)
(* The agent side alone.                                                   *)
(***************************************************************************)

AgentTypeOK ==
  /\ now \in 0..MaxNow
  /\ agent \in {"idle", "resending", "collecting", "sending", "down"}
  /\ pending \in Collected \cup {None}
  /\ current \in Collected \cup {None}
  /\ agent = "resending" => pending # None
  /\ agent = "sending" => current # None
  /\ sends \in 0..MaxSends
  /\ wire \subseteq Requests
  /\ \A q \in wire : q.nonce \in 1..sends
  /\ acks \subseteq 1..sends
  /\ done \in Nat

\* The request an Agent makes is one the Worker knows of.
LEMMA NewRequestType ==
  ASSUME AgentTypeOK, sends < MaxSends, NEW r \in Collected
  PROVE  NewRequest(r) \in Requests /\ sends + 1 \in 1..MaxSends
<1>1. sends + 1 \in 1..MaxSends
  BY DeliveryAssumption DEF AgentTypeOK
<1>2. \A t \in 0..MaxNow, k \in 1..MaxSends :
        [report |-> r, secret |-> Secret, timestamp |-> t, nonce |-> k, source |-> None] \in Requests
  BY DeliveryAssumption
<1>3. now \in 0..MaxNow
  BY DEF AgentTypeOK
<1> QED
  BY <1>1, <1>2, <1>3 DEF NewRequest

LEMMA PostType ==
  ASSUME AgentTypeOK, NEW r \in Collected, Post(r)
  PROVE  /\ sends' = sends + 1 /\ sends' \in 0..MaxSends
         /\ wire' \subseteq Requests
         /\ \A q \in wire' : q.nonce \in 1..sends'
         /\ acks' = {}
         /\ \A q \in wire' : q.nonce = sends' => q.report = r
<1>1. NewRequest(r) \in Requests /\ sends + 1 \in 1..MaxSends
  BY NewRequestType DEF Post
<1>2. NewRequest(r).nonce = sends + 1 /\ NewRequest(r).report = r
  BY DEF NewRequest
<1>3. sends' = sends + 1 /\ wire' = wire \cup {NewRequest(r)} /\ acks' = {}
  BY DEF Post
<1>4. sends \in Nat /\ wire \subseteq Requests /\ (\A q \in wire : q.nonce \in 1..sends)
  BY DeliveryAssumption DEF AgentTypeOK
<1> HIDE DEF NewRequest
<1>5. \A q \in wire' : q.nonce \in 1..sends'
  BY <1>1, <1>2, <1>3, <1>4
<1>6. \A q \in wire' : q.nonce = sends' => q.report = r
  BY <1>2, <1>3, <1>4
<1> QED
  BY <1>1, <1>3, <1>4, <1>5, <1>6

LEMMA AgentTypeInit == DeliveryInit => AgentTypeOK
BY BoundsAssumption, DeliveryAssumption DEF DeliveryInit, Init, AgentTypeOK

-----------------------------------------------------------------------------
(***************************************************************************)
(* Every step of a delivery is a step of the report path or leaves it      *)
(* alone.                                                                  *)
(***************************************************************************)

LEMMA DeliveryRefinesStep == AgentTypeOK /\ [DeliveryNext]_deliveryVars => [Next]_vars
<1> SUFFICES ASSUME AgentTypeOK, [DeliveryNext]_deliveryVars PROVE [Next]_vars
  OBVIOUS
<1>1. CASE StartCycle \/ EndResend \/ Collect \/ EndSend \/ Crash \/ Restart \/ Heal
  BY <1>1 DEF StartCycle, EndResend, Collect, EndSend, Crash, Restart, Heal
<1>2. CASE Wait
  BY <1>2 DEF Wait, Next
<1>3. ASSUME NEW h \in Handlers, Serve(h) PROVE Next
  BY <1>3 DEF Serve, CommitAndAnswer, Next, Handle
<1>4. ASSUME NEW h \in Handlers, NEW q \in wire, Deliver(h, q) PROVE Next
  <2>1. q \in Requests
    BY DEF AgentTypeOK
  <2> QED
    BY <1>4, <2>1 DEF Deliver, Next
<1>5. ASSUME NEW q \in wire, Drop(q) PROVE UNCHANGED vars
  BY <1>5 DEF Drop
<1>6. CASE UNCHANGED deliveryVars
  BY <1>6 DEF deliveryVars
<1> QED
  BY <1>1, <1>2, <1>3, <1>4, <1>5, <1>6 DEF DeliveryNext

\* The nonces of the invocations under way have been used.
JobNonces == \A h \in Handlers : phase[h] # "idle" => job[h].request.nonce \in 1..sends

LEMMA AgentTypeStep == AgentTypeOK /\ JobNonces /\ [DeliveryNext]_deliveryVars => AgentTypeOK'
<1> SUFFICES ASSUME AgentTypeOK, JobNonces, [DeliveryNext]_deliveryVars PROVE AgentTypeOK'
  OBVIOUS
<1>0. Collected \subseteq Report /\ None \notin Collected /\ \A r \in Collected : r.gen \in Nat
  BY DeliveryAssumption, BoundsAssumption DEF Report
<1>1. CASE StartCycle
  <2>1. now' = now
    BY <1>1 DEF StartCycle, vars
  <2>2. CASE pending # None /\ Post(pending) /\ agent' = "resending"
    <3>1. pending \in Collected
      BY <2>2 DEF AgentTypeOK
    <3> QED
      BY <1>1, <2>1, <2>2, <3>1, PostType DEF StartCycle, AgentTypeOK
  <2>3. CASE agent' = "collecting" /\ UNCHANGED <<sends, wire, acks>>
    BY <1>1, <2>1, <2>3 DEF StartCycle, AgentTypeOK
  <2> QED
    BY <1>1, <2>2, <2>3 DEF StartCycle
<1>2. CASE EndResend
  BY <1>2 DEF EndResend, Delete, AgentTypeOK, vars
<1>3. CASE Collect
  <2>1. now' = now
    BY <1>3 DEF Collect, vars
  <2>2. PICK r \in Collected : current' = r /\ Post(r)
    BY <1>3 DEF Collect
  <2>3. sends' \in 0..MaxSends /\ wire' \subseteq Requests
        /\ acks' = {} /\ (\A q \in wire' : q.nonce \in 1..sends')
    BY <2>2, PostType
  <2> QED
    BY <1>0, <1>3, <2>1, <2>2, <2>3 DEF Collect, AgentTypeOK
<1>4. CASE EndSend
  <2>1. now' = now /\ current \in Collected
    BY <1>4 DEF EndSend, AgentTypeOK, vars
  <2> QED
    BY <1>0, <1>4, <2>1 DEF EndSend, Delete, AgentTypeOK
<1>5. CASE Crash \/ Restart \/ Heal
  BY <1>5 DEF Crash, Restart, Heal, AgentTypeOK, vars
<1>6. CASE Wait
  BY <1>6, BoundsAssumption DEF Wait, Tick, AgentTypeOK, agentVars
<1>7. ASSUME NEW h \in Handlers, Serve(h) PROVE AgentTypeOK'
  BY <1>7 DEF Serve, CommitAndAnswer, Commit, ReadPrior, RefuseReplay, Fail,
              AgentTypeOK, JobNonces, agentVars
<1>8. ASSUME NEW h \in Handlers, NEW q \in wire, Deliver(h, q) PROVE AgentTypeOK'
  BY <1>8 DEF Deliver, Authenticate, AgentTypeOK
<1>9. ASSUME NEW q \in wire, Drop(q) PROVE AgentTypeOK'
  BY <1>9 DEF Drop, AgentTypeOK, vars
<1>10. CASE UNCHANGED deliveryVars
  BY <1>10 DEF deliveryVars, agentVars, vars, AgentTypeOK
<1> QED
  BY <1>1, <1>2, <1>3, <1>4, <1>5, <1>6, <1>7, <1>8, <1>9, <1>10 DEF DeliveryNext

LEMMA JobNoncesStep ==
  TypeOK /\ AgentTypeOK /\ JobNonces /\ [DeliveryNext]_deliveryVars => JobNonces'
<1> SUFFICES ASSUME TypeOK, AgentTypeOK, JobNonces, [DeliveryNext]_deliveryVars PROVE JobNonces'
  OBVIOUS
<1>0. sends \in Nat /\ MaxSends \in Nat
  BY DeliveryAssumption DEF AgentTypeOK
<1>1. CASE StartCycle \/ Collect
  <2>1. phase' = phase /\ job' = job /\ (sends' = sends \/ sends' = sends + 1)
    BY <1>1 DEF StartCycle, Collect, Post, vars, handlerVars
  <2> QED
    BY <1>0, <2>1 DEF JobNonces
<1>2. CASE EndResend \/ EndSend \/ Crash \/ Restart \/ Heal \/ Wait \/ UNCHANGED deliveryVars
  BY <1>2 DEF EndResend, EndSend, Crash, Restart, Heal, Wait, Tick, vars, handlerVars, agentVars,
              deliveryVars, JobNonces
<1>3. ASSUME NEW h \in Handlers, Serve(h) PROVE JobNonces'
  <2>1. sends' = sends
    BY <1>3 DEF Serve, CommitAndAnswer, agentVars
  <2>2. \A k \in Handlers : phase'[k] # "idle" => phase[k] # "idle" /\ job'[k] = job[k]
    BY <1>3 DEF Serve, CommitAndAnswer, Commit, ReadPrior, RefuseReplay, Fail, Finish, TypeOK
  <2> QED
    BY <2>1, <2>2 DEF JobNonces
<1>4. ASSUME NEW h \in Handlers, NEW q \in wire, Deliver(h, q) PROVE JobNonces'
  <2>1. sends' = sends /\ q.nonce \in 1..sends
    BY <1>4 DEF Deliver, AgentTypeOK
  <2>2. phase' = [phase EXCEPT ![h] = "authenticated"]
        /\ job' = [job EXCEPT ![h] = [request |-> q, at |-> now, keys |-> env.keys]]
    BY <1>4 DEF Deliver, Authenticate
  <2>3. \A k \in Handlers : IF k = h THEN job'[k].request = q
                            ELSE phase'[k] = phase[k] /\ job'[k] = job[k]
    BY <2>2 DEF TypeOK
  <2> QED
    BY <2>1, <2>3 DEF JobNonces
<1>5. ASSUME NEW q \in wire, Drop(q) PROVE JobNonces'
  BY <1>5 DEF Drop, vars, handlerVars, JobNonces
<1> QED
  BY <1>1, <1>2, <1>3, <1>4, <1>5 DEF DeliveryNext

-----------------------------------------------------------------------------
(***************************************************************************)
(* What a 202 means.                                                       *)
(***************************************************************************)

Stored(r) == latest[Self] # None /\ latest[Self].report.gen >= r.gen

\* Once stored, always stored.
LEMMA StoredStays ==
  ASSUME IInv, [Next]_vars, NEW r \in Report, Stored(r)
  PROVE  Stored(r)'
<1>1. CASE ~ \E h \in Handlers : Commit(h)
  BY <1>1, OnlyCommitWrites DEF tableVars, Stored
<1>2. ASSUME NEW h \in Handlers, Commit(h) PROVE Stored(r)'
  <2>1. PICK c \in Report, row \in Row :
           /\ c.node \in Nodes /\ c.gen \in 1..MaxSafe
           /\ row.report = c
           /\ IF Supersedes(c, latest[c.node])
              THEN latest' = [latest EXCEPT ![c.node] = row]
              ELSE latest' = latest
    BY <1>2, CommitEffect
  <2>2. latest \in [Nodes -> Row \cup {None}] /\ row # None /\ Self \in Nodes
    BY <2>1, NoneAssumption, DeliveryAssumption DEF IInv, TypeOK
  <2>3. latest[Self] # None /\ latest[Self].report.gen >= r.gen
    BY DEF Stored
  <2>4. latest[Self].report.gen \in Nat /\ r.gen \in Nat /\ c.gen \in Nat
    BY <2>1, <2>2, <2>3, BoundsAssumption DEF Row, Report
  <2>5. CASE c.node = Self /\ Supersedes(c, latest[Self])
    <3>1. latest'[Self] = row /\ c.gen >= latest[Self].report.gen
      BY <2>1, <2>2, <2>3, <2>5 DEF Supersedes
    <3> QED
      BY <3>1, <2>1, <2>2, <2>3, <2>4 DEF Stored
  <2>6. CASE ~ (c.node = Self /\ Supersedes(c, latest[Self]))
    <3>1. latest'[Self] = latest[Self]
      BY <2>1, <2>2, <2>6
    <3> QED
      BY <3>1, <2>3 DEF Stored
  <2> QED
    BY <2>5, <2>6
<1> QED
  BY <1>1, <1>2

\* What is committed is stored.
LEMMA CommitStores ==
  ASSUME IInv, NEW h \in Handlers, Commit(h), job[h].request.report.node = Self
  PROVE  latest'[Self] # None /\ latest'[Self].report.gen >= job[h].request.report.gen
<1> DEFINE r == Visible(job[h].request.report, job[h].keys)
           row == [received |-> job[h].at, source |-> job[h].request.source,
                   report |-> r, rate |-> NetworkRate(r, prior[h])]
<1>1. TypeOK /\ phase[h] # "idle"
  BY DEF IInv, Commit
<1>2. r.node = Self /\ r.gen = job[h].request.report.gen /\ r.gen \in Nat /\ row \in Row
      /\ r \in Report /\ Self \in Nodes
  BY <1>1, CommitTypes, BoundsAssumption
<1>3. row.report = r /\ row # None
  BY <1>2, NoneAssumption
<1>4. IF Supersedes(r, latest[r.node])
      THEN latest' = [latest EXCEPT ![r.node] = row]
      ELSE UNCHANGED latest
  BY DEF Commit
<1> HIDE DEF r, row
<1>5. latest \in [Nodes -> Row \cup {None}]
  BY <1>1 DEF TypeOK
<1>6. CASE Supersedes(r, latest[Self])
  <2>1. latest'[Self] = row
    BY <1>2, <1>4, <1>5, <1>6
  <2> QED
    BY <2>1, <1>2, <1>3
<1>7. CASE ~ Supersedes(r, latest[Self])
  <2>1. latest'[Self] = latest[Self] /\ latest[Self] # None
    BY <1>2, <1>4, <1>7 DEF Supersedes
  <2>2. latest[Self].report.gen \in Nat
    BY <2>1, <1>2, <1>5, BoundsAssumption DEF Row, Report
  <2>3. ~ (r.gen >= latest[Self].report.gen)
    BY <1>7, <2>1 DEF Supersedes
  <2> QED
    BY <2>1, <2>2, <2>3, <1>2
<1> QED
  BY <1>6, <1>7

-----------------------------------------------------------------------------
(***************************************************************************)
(* The invariant.  The Agent believes an answer about "the last request    *)
(* made"; what makes that right is that a number is never used twice and   *)
(* that everything under way with this number carries the report awaited.  *)
(***************************************************************************)

Awaited == IF agent = "sending" THEN current ELSE pending

AnswersMatch ==
  agent \in {"resending", "sending"} =>
    /\ \A q \in wire : q.nonce = sends => q.report = Awaited
    /\ \A h \in Handlers : phase[h] # "idle" /\ job[h].request.nonce = sends =>
         job[h].request.report = Awaited
    /\ Acked => Stored(Awaited)

DInv ==
  /\ IInv /\ AgentTypeOK /\ JobNonces
  /\ AnswersMatch /\ NewestSurvives

\* A request just made is not answered yet, and nothing else has its number.
LEMMA PostIsNew ==
  ASSUME AgentTypeOK, JobNonces, NEW r \in Collected, Post(r), UNCHANGED <<phase, job>>,
         Awaited' = r
  PROVE  AnswersMatch'
<1>1. sends \in Nat
  BY DeliveryAssumption DEF AgentTypeOK
<1>2. sends' = sends + 1 /\ \A q \in wire' : q.nonce = sends' => q.report = r
  BY PostType
<1>3. acks' = {}
  BY PostType
<1>4. \A h \in Handlers : phase[h] # "idle" => job[h].request.nonce # sends'
  BY <1>1, <1>2 DEF JobNonces
<1> QED
  BY <1>2, <1>3, <1>4 DEF AnswersMatch, Acked

LEMMA AnswersMatchStep == DInv /\ [DeliveryNext]_deliveryVars => AnswersMatch'
<1> SUFFICES ASSUME DInv, [DeliveryNext]_deliveryVars PROVE AnswersMatch'
  OBVIOUS
<1>0. IInv /\ TypeOK /\ AgentTypeOK /\ JobNonces /\ AnswersMatch
  BY DEF DInv, IInv
<1>1. CASE StartCycle
  <2>1. UNCHANGED <<phase, job>> /\ pending' = pending
    BY <1>1 DEF StartCycle, vars, handlerVars
  <2>2. CASE pending # None /\ Post(pending) /\ agent' = "resending"
    <3>1. pending \in Collected
      BY <1>0, <2>2 DEF AgentTypeOK
    <3>2. Awaited' = pending
      BY <2>1, <2>2 DEF Awaited
    <3> QED
      BY <1>0, <2>1, <2>2, <3>1, <3>2, PostIsNew
  <2>3. CASE agent' = "collecting"
    BY <2>3 DEF AnswersMatch
  <2> QED
    BY <1>1, <2>2, <2>3 DEF StartCycle
<1>2. CASE Collect
  <2>1. UNCHANGED <<phase, job>> /\ agent' = "sending"
    BY <1>2 DEF Collect, vars, handlerVars
  <2>2. PICK r \in Collected : current' = r /\ Post(r)
    BY <1>2 DEF Collect
  <2>3. Awaited' = r
    BY <2>1, <2>2 DEF Awaited
  <2> QED
    BY <1>0, <2>1, <2>2, <2>3, PostIsNew
<1>3. CASE EndResend \/ EndSend \/ Crash \/ Restart
  <2>1. agent' \notin {"resending", "sending"}
    BY <1>3 DEF EndResend, EndSend, Crash, Restart
  <2> QED
    BY <2>1 DEF AnswersMatch
<1>4. CASE Wait \/ Heal \/ UNCHANGED deliveryVars
  BY <1>0, <1>4 DEF Wait, Tick, Heal, vars, handlerVars, tableVars, agentVars, deliveryVars,
                    AnswersMatch, Awaited, Acked, Stored
<1>5. ASSUME NEW h \in Handlers, NEW q \in wire, Deliver(h, q) PROVE AnswersMatch'
  <2>1. /\ agent' = agent /\ Awaited' = Awaited /\ sends' = sends /\ acks' = acks
        /\ latest' = latest /\ wire' \subseteq wire
    BY <1>5 DEF Deliver, Authenticate, Awaited, tableVars
  <2>2. phase' = [phase EXCEPT ![h] = "authenticated"]
        /\ job' = [job EXCEPT ![h] = [request |-> q, at |-> now, keys |-> env.keys]]
    BY <1>5 DEF Deliver, Authenticate
  <2>3. \A k \in Handlers : IF k = h THEN job'[k].request = q
                            ELSE phase'[k] = phase[k] /\ job'[k] = job[k]
    BY <1>0, <2>2 DEF TypeOK
  <2> QED
    BY <1>0, <2>1, <2>3 DEF AnswersMatch, Acked, Stored
<1>6. ASSUME NEW q \in wire, Drop(q) PROVE AnswersMatch'
  <2>1. /\ agent' = agent /\ Awaited' = Awaited /\ sends' = sends /\ acks' = acks
        /\ latest' = latest /\ wire' \subseteq wire /\ phase' = phase /\ job' = job
    BY <1>6 DEF Drop, Awaited, vars, tableVars, handlerVars
  <2> QED
    BY <1>0, <2>1 DEF AnswersMatch, Acked, Stored
<1>7. ASSUME NEW h \in Handlers, Serve(h) PROVE AnswersMatch'
  <2>1. agent' = agent /\ Awaited' = Awaited /\ sends' = sends /\ wire' = wire
    BY <1>7 DEF Serve, CommitAndAnswer, agentVars, Awaited
  <2>2. \A k \in Handlers : phase'[k] # "idle" => phase[k] # "idle" /\ job'[k] = job[k]
    BY <1>0, <1>7 DEF Serve, CommitAndAnswer, Commit, ReadPrior, RefuseReplay, Fail, Finish, TypeOK
  <2>3. ASSUME agent \in {"resending", "sending"}, Acked' PROVE Stored(Awaited)'
    <3>1. Awaited \in Collected /\ Awaited \in Report /\ Awaited.node = Self
      BY <1>0, <2>3, DeliveryAssumption DEF Awaited, AgentTypeOK
    <3>2. CASE Acked
      <4>1. Stored(Awaited)
        BY <1>0, <2>3, <3>2 DEF AnswersMatch
      <4>2. [Next]_vars
        BY <1>0, DeliveryRefinesStep
      <4>3. ASSUME NEW r \in Report, Stored(r), r = Awaited' PROVE Stored(Awaited)'
        <5>1. Stored(r)'
          BY <1>0, <4>2, <4>3, StoredStays
        <5> QED
          BY <4>3, <5>1 DEF Stored
      <4> QED
        BY <2>1, <3>1, <4>1, <4>3
    <3>3. CASE ~ Acked
      <4>1. Commit(h) /\ job[h].request.nonce = sends
        BY <1>7, <2>3, <2>1, <3>3 DEF Serve, CommitAndAnswer, Acked, agentVars
      <4>2. phase[h] # "idle"
        BY <4>1 DEF Commit
      <4>3. job[h].request.report = Awaited
        BY <1>0, <2>3, <4>1, <4>2 DEF AnswersMatch
      <4>4. latest'[Self] # None /\ latest'[Self].report.gen >= Awaited.gen
        BY <1>0, <3>1, <4>1, <4>3, CommitStores
      <4> QED
        BY <2>1, <4>4 DEF Stored
    <3> QED
      BY <3>2, <3>3
  <2> QED
    BY <1>0, <2>1, <2>2, <2>3 DEF AnswersMatch
<1> QED
  BY <1>1, <1>2, <1>3, <1>4, <1>5, <1>6, <1>7 DEF DeliveryNext

LEMMA NewestSurvivesStep == DInv /\ [DeliveryNext]_deliveryVars => NewestSurvives'
<1> SUFFICES ASSUME DInv, [DeliveryNext]_deliveryVars PROVE NewestSurvives'
  OBVIOUS
<1>0. IInv /\ TypeOK /\ AgentTypeOK /\ AnswersMatch /\ NewestSurvives /\ Self \in Nodes
  BY DeliveryAssumption DEF DInv, IInv
<1>1. /\ done \in Nat
      /\ \A r \in Collected : r \in Report /\ r.gen \in Nat
      /\ latest[Self] # None => latest[Self].report.gen \in Nat
  BY <1>0, DeliveryAssumption, BoundsAssumption DEF AgentTypeOK, TypeOK, Row, Report
<1>2. CASE EndResend
  <2>1. latest' = latest /\ done' = done
    BY <1>2 DEF EndResend, vars, tableVars
  <2>2. CASE pending' = pending
    BY <1>0, <2>1, <2>2 DEF NewestSurvives
  <2>3. CASE Acked
    <3>1. Stored(pending) /\ pending \in Collected
      BY <1>0, <1>2, <2>3 DEF AnswersMatch, Awaited, EndResend, AgentTypeOK
    <3>2. done # 0 => latest[Self] # None /\ latest[Self].report.gen >= done
      BY <1>0, <1>1, <3>1 DEF NewestSurvives, Stored
    <3> QED
      BY <2>1, <3>2 DEF NewestSurvives
  <2> QED
    BY <1>2, <2>2, <2>3 DEF EndResend
<1>3. CASE EndSend
  <2>1. latest' = latest /\ current \in Collected
    BY <1>0, <1>3 DEF EndSend, vars, tableVars, AgentTypeOK
  <2>2. CASE Acked /\ done' = current.gen
    <3>1. Stored(current)
      BY <1>0, <1>3, <2>2 DEF AnswersMatch, Awaited, EndSend
    <3> QED
      BY <2>1, <2>2, <3>1 DEF NewestSurvives, Stored
  <2>3. CASE pending' = current /\ done' = current.gen
    BY <1>1, <2>1, <2>3, DeliveryAssumption DEF NewestSurvives
  <2>4. CASE UNCHANGED <<pending, done>>
    BY <1>0, <2>1, <2>4 DEF NewestSurvives
  <2> QED
    BY <1>3, <2>2, <2>3, <2>4 DEF EndSend
<1>4. CASE pending' = pending /\ done' = done /\ ~ EndResend /\ ~ EndSend
  <2>1. [Next]_vars
    BY <1>0, DeliveryRefinesStep
  <2>2. ASSUME latest[Self] # None
        PROVE  latest'[Self] # None /\ latest'[Self].report.gen >= latest[Self].report.gen
    <3> DEFINE top == latest[Self].report
    <3>1. top \in Report /\ Stored(top)
      BY <1>0, <1>1, <2>2 DEF TypeOK, Row, Stored
    <3>2. ASSUME NEW r \in Report, Stored(r)
          PROVE  latest'[Self] # None /\ latest'[Self].report.gen >= r.gen
      BY <1>0, <2>1, <3>2, StoredStays DEF Stored
    <3> QED
      BY <3>1, <3>2
  <2>3. TypeOK'
    BY <1>0, <2>1, TypeStep
  <2>4. latest'[Self] # None => latest'[Self].report.gen \in Nat
    BY <1>0, <2>3, BoundsAssumption DEF TypeOK, Row, Report
  <2> QED
    BY <1>0, <1>1, <1>4, <2>2, <2>4 DEF NewestSurvives
<1>5. (pending' = pending /\ done' = done) \/ EndResend \/ EndSend
  BY DEF DeliveryNext, StartCycle, Collect, Crash, Restart, Wait, Heal, Serve, CommitAndAnswer,
         Deliver, Drop, agentVars, deliveryVars
<1> QED
  BY <1>2, <1>3, <1>4, <1>5

LEMMA DInvInit == DeliveryInit => DInv
<1> SUFFICES ASSUME DeliveryInit PROVE DInv
  OBVIOUS
<1>1. Init
  BY DEF DeliveryInit
<1>2. IInv /\ AgentTypeOK
  BY <1>1, IInvInit, AgentTypeInit
<1>3. JobNonces
  BY <1>1 DEF JobNonces, Init
<1>4. AnswersMatch /\ NewestSurvives
  BY DEF DeliveryInit, AnswersMatch, NewestSurvives
<1> QED
  BY <1>2, <1>3, <1>4 DEF DInv

LEMMA DInvStep == DInv /\ [DeliveryNext]_deliveryVars => DInv'
<1> SUFFICES ASSUME DInv, [DeliveryNext]_deliveryVars PROVE DInv'
  OBVIOUS
<1>1. IInv /\ TypeOK /\ AgentTypeOK /\ JobNonces
  BY DEF DInv, IInv
<1>2. IInv'
  BY <1>1, DeliveryRefinesStep, IInvStep
<1>3. AgentTypeOK' /\ JobNonces'
  BY <1>1, AgentTypeStep, JobNoncesStep
<1> QED
  BY <1>2, <1>3, AnswersMatchStep, NewestSurvivesStep DEF DInv

LEMMA DInvHolds == DeliverySpec => []DInv
BY DInvInit, DInvStep, PTL DEF DeliverySpec

\* Delivering reports over a network that loses and delays is a way of
\* ingesting them: every theorem of ReportIngest holds of it.
THEOREM DeliveryIngests == DeliverySpec => Spec
<1>1. DeliveryInit => Init
  BY DEF DeliveryInit
<1>2. DInv /\ [DeliveryNext]_deliveryVars => [Next]_vars
  BY DeliveryRefinesStep DEF DInv
<1> QED
  BY <1>1, <1>2, DInvHolds, PTL DEF DeliverySpec, Spec

\* However requests, answers, the process and its file fail, the newest report
\* of a finished cycle is on the card, in the spool, or superseded.
THEOREM NewestIsKept == DeliverySpec => []NewestSurvives
<1>1. DInv => NewestSurvives
  BY DEF DInv
<1> QED
  BY <1>1, DInvHolds, PTL

-----------------------------------------------------------------------------
(***************************************************************************)
(* No attempt is taken for a replay: its nonce is its own from the moment  *)
(* the request is made until the Worker has noted it.                      *)
(***************************************************************************)

Listed(list, c) == \E i \in 1..Len(list) : list[i].nonce = c

\* The Worker has noted c, or an invocation is going to.
Noted(c) ==
  \/ \E n \in Nodes : Listed(recentNonces[n], c)
  \/ \E h \in Handlers : Listed(remembered[h], c)

NoncesUnused ==
  /\ \A c : Noted(c) => c \in 1..sends
  /\ \A q \in wire : ~ Noted(q.nonce)
  /\ \A p, q \in wire : p.nonce = q.nonce => p = q
  /\ \A h \in Handlers : phase[h] = "authenticated" =>
       /\ ~ Noted(job[h].request.nonce)
       /\ \A q \in wire : q.nonce # job[h].request.nonce
       /\ \A k \in Handlers : phase[k] = "authenticated" /\ k # h =>
            job[k].request.nonce # job[h].request.nonce

UInv == DInv /\ NonceLists /\ NoncesUnused

\* A request is made under the next number, which nothing has.
LEMMA UnusedThroughPost ==
  ASSUME AgentTypeOK, JobNonces, NoncesUnused, NEW r \in Collected, Post(r),
         UNCHANGED <<phase, job, recentNonces, remembered>>
  PROVE  NoncesUnused'
<1>1. sends \in Nat /\ sends' = sends + 1 /\ wire' = wire \cup {NewRequest(r)}
  BY DeliveryAssumption DEF AgentTypeOK, Post
<1>2. NewRequest(r).nonce = sends + 1
  BY DEF NewRequest
<1>3. \A c : Noted(c)' <=> Noted(c)
  BY DEF Noted
<1>4. \A q \in wire : q.nonce \in 1..sends
  BY DEF AgentTypeOK
<1>5. sends + 1 \notin 1..sends /\ \A c \in 1..sends : c \in 1..(sends + 1)
  BY <1>1
<1> HIDE DEF NewRequest
<1>6. \A c : Noted(c)' => c \in 1..sends'
  BY <1>1, <1>3, <1>5 DEF NoncesUnused
<1>7. \A q \in wire' : ~ Noted(q.nonce)'
  BY <1>1, <1>2, <1>3, <1>5 DEF NoncesUnused
<1>8. \A p, q \in wire' : p.nonce = q.nonce => p = q
  BY <1>1, <1>2, <1>4, <1>5 DEF NoncesUnused
<1>9. ASSUME NEW h \in Handlers, phase[h] = "authenticated"
      PROVE  \A q \in wire' : q.nonce # job[h].request.nonce
  <2>1. job[h].request.nonce \in 1..sends
    BY <1>9 DEF JobNonces
  <2> QED
    BY <1>1, <1>2, <1>5, <1>9, <2>1 DEF NoncesUnused
<1> QED
  BY <1>3, <1>6, <1>7, <1>8, <1>9 DEF NoncesUnused

\* The Worker notes the nonce of the invocation that has passed the check, and what is
\* on the list already.
LEMMA UnusedThroughServe ==
  ASSUME TypeOK, NonceLists, JobNonces, NoncesUnused, NEW h \in Handlers, Serve(h)
  PROVE  NoncesUnused'
<1>1. sends' = sends /\ wire' = wire
  BY DEF Serve, CommitAndAnswer, agentVars
<1>2. CASE ReadPrior(h)
  <2> DEFINE q == job[h].request
             n == q.report.node
             next == NextNonces(recentNonces[n], q.nonce, job[h].at)
  <2>1. job[h] \in Job /\ phase[h] = "authenticated"
    BY <1>2 DEF ReadPrior, TypeOK
  <2>2. n \in Nodes /\ q.nonce \in Nonces /\ job[h].at \in Nat
    BY <2>1, RequestsAssumption DEF Job, Request, Report
  <2>3. \A c : Listed(next, c) => c = q.nonce \/ Listed(recentNonces[n], c)
    <3>1. recentNonces[n] \in Seq(NonceEntry)
      BY <2>2 DEF NonceLists
    <3>2. \A j \in 1..Len(next) :
            \/ next[j].nonce = q.nonce
            \/ \E i \in 1..Len(recentNonces[n]) : next[j] = recentNonces[n][i]
      BY <2>2, <3>1, NextNoncesIs
    <3> HIDE DEF next, q, n
    <3> QED
      BY <3>2 DEF Listed
  <2>4. /\ phase' = [phase EXCEPT ![h] = "decided"] /\ job' = job
        /\ remembered' = [remembered EXCEPT ![h] = next]
        /\ recentNonces' = recentNonces
    BY <1>2 DEF ReadPrior, tableVars
  <2>5. q.nonce \in 1..sends
    BY <2>1 DEF JobNonces
  <2> HIDE DEF next
  <2>6. \A k \in Handlers : remembered'[k] = IF k = h THEN next ELSE remembered[k]
    BY <2>4 DEF TypeOK
  <2>7. \A c : Noted(c)' => Noted(c) \/ c = q.nonce
    BY <2>2, <2>3, <2>4, <2>6 DEF Noted
  <2>8. \A k \in Handlers : phase'[k] = "authenticated" => k # h /\ phase[k] = "authenticated"
    BY <2>4 DEF TypeOK
  <2>9. \A p \in wire : ~ Noted(p.nonce)'
    BY <2>1, <2>7 DEF NoncesUnused
  <2>10. \A k \in Handlers : phase'[k] = "authenticated" => ~ Noted(job[k].request.nonce)'
    BY <2>1, <2>4, <2>7, <2>8 DEF NoncesUnused
  <2>11. \A c : Noted(c)' => c \in 1..sends
    BY <2>5, <2>7 DEF NoncesUnused
  <2> QED
    BY <1>1, <2>4, <2>8, <2>9, <2>10, <2>11 DEF NoncesUnused
<1>3. CASE Commit(h) \/ RefuseReplay(h) \/ Fail(h)
  <2>1. /\ phase' = [phase EXCEPT ![h] = "idle"] /\ job' = [job EXCEPT ![h] = None]
        /\ remembered' = [remembered EXCEPT ![h] = <<>>]
    BY <1>3 DEF Commit, RefuseReplay, Fail, Finish
  <2>2. recentNonces' = recentNonces \/ \E n : recentNonces' = [recentNonces EXCEPT ![n] = remembered[h]]
    BY <1>3 DEF Commit, RefuseReplay, Fail, tableVars
  <2>3. \A k \in Handlers : remembered'[k] = IF k = h THEN <<>> ELSE remembered[k]
    BY <2>1 DEF TypeOK
  <2>4. \A m \in Nodes : recentNonces'[m] = recentNonces[m] \/ recentNonces'[m] = remembered[h]
    BY <2>2 DEF TypeOK
  <2>5. \A c : ~ Listed(<<>>, c)
    BY DEF Listed
  <2>6. \A c : Noted(c)' => Noted(c)
    BY <2>3, <2>4, <2>5 DEF Noted
  <2>7. \A k \in Handlers : phase'[k] = "authenticated" => phase[k] = "authenticated" /\ job'[k] = job[k]
    BY <2>1 DEF TypeOK
  <2> QED
    BY <1>1, <2>6, <2>7 DEF NoncesUnused
<1> QED
  BY <1>2, <1>3 DEF Serve, CommitAndAnswer

LEMMA NoncesUnusedStep == UInv /\ [DeliveryNext]_deliveryVars => NoncesUnused'
<1> SUFFICES ASSUME UInv, [DeliveryNext]_deliveryVars PROVE NoncesUnused'
  OBVIOUS
<1>0. TypeOK /\ AgentTypeOK /\ JobNonces /\ NonceLists /\ NoncesUnused
  BY DEF UInv, DInv, IInv
<1> USE DEF handlerVars, tableVars
<1>1. ASSUME UNCHANGED <<phase, job, recentNonces, remembered, sends>>, wire' \subseteq wire
      PROVE  NoncesUnused'
  <2>1. \A c : Noted(c)' <=> Noted(c)
    BY <1>1 DEF Noted
  <2> QED
    BY <1>0, <1>1, <2>1 DEF NoncesUnused
<1>2. CASE StartCycle
  <2>1. CASE pending # None /\ Post(pending)
    <3>1. pending \in Collected
      BY <1>0, <2>1 DEF AgentTypeOK
    <3> QED
      BY <1>0, <1>2, <2>1, <3>1, UnusedThroughPost DEF StartCycle, vars
  <2>2. CASE UNCHANGED <<sends, wire, acks>>
    BY <1>1, <1>2, <2>2 DEF StartCycle, vars
  <2> QED
    BY <1>2, <2>1, <2>2 DEF StartCycle
<1>3. CASE Collect
  <2>1. PICK r \in Collected : Post(r)
    BY <1>3 DEF Collect
  <2> QED
    BY <1>0, <1>3, <2>1, UnusedThroughPost DEF Collect, vars
<1>4. CASE EndResend \/ EndSend \/ Crash \/ Restart \/ Heal \/ Wait \/ UNCHANGED deliveryVars
  BY <1>1, <1>4 DEF EndResend, EndSend, Crash, Restart, Heal, Wait, Tick, vars, agentVars, deliveryVars
<1>5. ASSUME NEW q \in wire, Drop(q) PROVE NoncesUnused'
  BY <1>1, <1>5 DEF Drop, vars
<1>6. ASSUME NEW h \in Handlers, Serve(h) PROVE NoncesUnused'
  BY <1>0, <1>6, UnusedThroughServe
<1>7. ASSUME NEW h \in Handlers, NEW q \in wire, Deliver(h, q) PROVE NoncesUnused'
  <2>1. /\ wire' = wire \ {q} /\ sends' = sends
        /\ phase' = [phase EXCEPT ![h] = "authenticated"]
        /\ job' = [job EXCEPT ![h] = [request |-> q, at |-> now, keys |-> env.keys]]
        /\ recentNonces' = recentNonces /\ remembered' = remembered
    BY <1>7 DEF Deliver, Authenticate
  <2>2. \A c : Noted(c)' <=> Noted(c)
    BY <2>1 DEF Noted
  <2>3. job'[h].request = q
        /\ \A k \in Handlers : k # h => phase'[k] = phase[k] /\ job'[k] = job[k]
    BY <1>0, <2>1 DEF TypeOK
  <2>4. \A p \in wire' : p \in wire /\ p.nonce # q.nonce
    BY <1>0, <2>1 DEF NoncesUnused
  <2> QED
    BY <1>0, <2>1, <2>2, <2>3, <2>4 DEF NoncesUnused
<1> QED
  BY <1>2, <1>3, <1>4, <1>5, <1>6, <1>7 DEF DeliveryNext

LEMMA UInvStep == UInv /\ [DeliveryNext]_deliveryVars => UInv'
<1>1. UInv /\ [DeliveryNext]_deliveryVars => [Next]_vars /\ TypeOK /\ NonceLists
  BY DeliveryRefinesStep DEF UInv, DInv, IInv
<1> QED
  BY <1>1, DInvStep, NonceListsStep, NoncesUnusedStep DEF UInv

LEMMA UInvInit == DeliveryInit => UInv
<1> SUFFICES ASSUME DeliveryInit PROVE UInv
  OBVIOUS
<1>1. DInv /\ NonceLists
  BY DInvInit, NonceListsInit DEF DeliveryInit
<1>2. \A c : ~ Noted(c)
  BY DEF DeliveryInit, Init, Noted, Listed
<1>3. wire = {} /\ \A h \in Handlers : phase[h] = "idle"
  BY DEF DeliveryInit, Init
<1> QED
  BY <1>1, <1>2, <1>3 DEF UInv, NoncesUnused

\* The Worker answers none of the Agent's attempts 409, first or repeated: whatever of
\* them was lost, delayed or overtaken, the nonce of a request that has arrived is not
\* on the list it is checked against.
THEOREM RetriesAccepted == DeliverySpec => []RetryIsNoReplay
<1>1. UInv => RetryIsNoReplay
  <2> SUFFICES ASSUME UInv, NEW h \in Handlers, phase[h] = "authenticated"
               PROVE  ~ Replayed(recentNonces[Self], job[h].request.nonce, job[h].at)
    BY DEF RetryIsNoReplay
  <2>1. Self \in Nodes /\ ~ Noted(job[h].request.nonce)
    BY DeliveryAssumption DEF UInv, NoncesUnused
  <2>2. recentNonces[Self] \in Seq(NonceEntry) /\ ~ Listed(recentNonces[Self], job[h].request.nonce)
    BY <2>1 DEF UInv, NonceLists, Noted
  <2> QED
    BY <2>2, UnknownIsAccepted DEF Listed
<1> QED
  BY <1>1, UInvInit, UInvStep, PTL DEF DeliverySpec

-----------------------------------------------------------------------------
(***************************************************************************)
(* ReportHistory: the record of accepted reports is a record only.         *)
(***************************************************************************)

\* A step of the history is a commit, which is recorded, or leaves the record and
\* every table alone.
LEMMA HistoryCases ==
  ASSUME [HistoryNext]_historyVars
  PROVE  /\ [Next]_vars
         /\ \/ \E h \in Handlers : RecordCommit(h)
            \/ UNCHANGED <<accepted, tableVars>>
<1> USE DEF tableVars, handlerVars
<1>1. CASE \E h \in Handlers : RecordCommit(h)
  BY <1>1 DEF RecordCommit, Next, Handle
<1>2. CASE UNCHANGED historyVars
  BY <1>2 DEF historyVars, vars
<1>3. ASSUME NEW h \in Handlers, UNCHANGED accepted, ReadPrior(h) \/ RefuseReplay(h) \/ Fail(h)
      PROVE  Next /\ UNCHANGED <<accepted, tableVars>>
  BY <1>3 DEF Next, Handle, ReadPrior, RefuseReplay, Fail
<1>4. CASE UNCHANGED accepted /\ \E h \in Handlers, q \in Requests : Authenticate(h, q)
  BY <1>4 DEF Next, Authenticate
<1>5. CASE UNCHANGED accepted /\ ((\E inventory \in Inventories : Publish(inventory)) \/ Tick)
  BY <1>5 DEF Next, Publish, Tick
<1> QED
  BY <1>1, <1>2, <1>3, <1>4, <1>5 DEF HistoryNext

Entry == [request : Requests, report : Report, at : Nat, won : BOOLEAN]

AcceptedOK ==
  /\ accepted \in Seq(Entry)
  /\ \A i \in 1..Len(accepted) :
       \E keys : accepted[i].report = Visible(accepted[i].request.report, keys)

\* What the lemmas on recorded commits rest on.
HBase == IInv /\ NonceLists /\ AcceptedOK /\ PriorCurrent

\* What a recorded commit of invocation h does, the row it has read being the current
\* one; x is the entry it adds to the record.
Recorded(h, r, row, x) ==
  LET n == r.node
  IN  /\ x.request = job[h].request /\ x.report = r /\ x.at = job[h].at
      /\ n = x.request.report.node
      /\ row.report = r
      /\ samples' = AddSample(r, NetworkRate(r, latest[n]))
      /\ rounds' = AddRound(r, latest[n])
      /\ events' = events \cup NewEvents(r, row.source, latest[n])
      /\ IF Supersedes(r, latest[n])
         THEN /\ x.won
              /\ latest' = [latest EXCEPT ![n] = row]
              /\ recentNonces' = [recentNonces EXCEPT ![n] = remembered[h]]
         ELSE /\ ~ x.won
              /\ UNCHANGED <<latest, recentNonces>>
      /\ Len(accepted) \in Nat /\ Len(accepted') = Len(accepted) + 1
      /\ accepted'[Len(accepted) + 1] = x
      /\ \A i \in 1..Len(accepted) : accepted'[i] = accepted[i]

LEMMA RecordEffect ==
  ASSUME HBase, NEW h \in Handlers, RecordCommit(h)
  PROVE  \E r \in Report, row \in Row, x \in Entry :
           /\ Recorded(h, r, row, x)
           /\ r.node \in Nodes
           /\ r = Visible(job[h].request.report, job[h].keys)
           /\ accepted' = Append(accepted, x)
           /\ phase[h] = "decided"
<1> DEFINE q == job[h].request
           r == Visible(q.report, job[h].keys)
           n == r.node
           rate == NetworkRate(r, prior[h])
           row == [received |-> job[h].at, source |-> q.source, report |-> r, rate |-> rate]
           x == [request |-> q, report |-> r, at |-> job[h].at, won |-> Supersedes(r, latest[n])]
<1>1. Commit(h) /\ accepted' = Append(accepted, x) /\ phase[h] = "decided"
  BY DEF RecordCommit, Commit
<1>2. TypeOK /\ accepted \in Seq(Entry)
  BY DEF HBase, IInv, AcceptedOK
<1>3. r \in Report /\ n \in Nodes /\ row \in Row /\ n = q.report.node
  BY <1>1, <1>2, CommitTypes
<1>4. job[h] \in Job
  BY <1>1, <1>2 DEF TypeOK
<1>5. q \in Requests /\ job[h].at \in Nat
  BY <1>4 DEF Job
<1>6. prior[h] = latest[n]
  BY <1>1, <1>3 DEF HBase, PriorCurrent
<1>7. /\ samples' = AddSample(r, rate)
      /\ rounds' = AddRound(r, prior[h])
      /\ events' = events \cup NewEvents(r, q.source, prior[h])
      /\ IF Supersedes(r, latest[n])
         THEN /\ latest' = [latest EXCEPT ![n] = row]
              /\ recentNonces' = [recentNonces EXCEPT ![n] = remembered[h]]
         ELSE UNCHANGED <<latest, recentNonces>>
  BY <1>1 DEF Commit
<1> HIDE DEF r
<1>8. Supersedes(r, latest[n]) \in BOOLEAN
  <2>1. CASE latest[n] = None
    BY <2>1 DEF Supersedes
  <2>2. CASE latest[n] # None
    <3>1. r.gen \in Int /\ latest[n].report.gen \in Int
      BY <1>2, <1>3, <2>2 DEF TypeOK, Row, Report
    <3>2. (r.gen >= latest[n].report.gen) \in BOOLEAN
      BY <3>1
    <3>3. Supersedes(r, latest[n]) = (r.gen >= latest[n].report.gen)
      BY <2>2, Zenon DEF Supersedes
    <3> QED
      BY <3>2, <3>3
  <2> QED
    BY <2>1, <2>2
<1>9. /\ x.request = q /\ x.report = r /\ x.at = job[h].at /\ x.won = Supersedes(r, latest[n])
      /\ row.report = r /\ row.source = q.source
      /\ rate = NetworkRate(r, prior[h])
  OBVIOUS
<1>10. x \in Entry
  BY <1>3, <1>5, <1>8 DEF Entry
<1> HIDE DEF x, row, rate
<1>11. /\ Len(accepted) \in Nat /\ Len(accepted') = Len(accepted) + 1
       /\ accepted'[Len(accepted) + 1] = x
       /\ \A i \in 1..Len(accepted) : accepted'[i] = accepted[i]
  BY <1>1, <1>2, <1>10
<1>12. IF Supersedes(r, latest[n]) THEN x.won ELSE ~ x.won
  BY <1>8, <1>9, Zenon
<1>13. Recorded(h, r, row, x)
  BY <1>3, <1>6, <1>7, <1>9, <1>11, <1>12 DEF Recorded
<1> QED
  BY <1>1, <1>3, <1>10, <1>13 DEF r

LEMMA AcceptedOKStep == HBase /\ [HistoryNext]_historyVars => AcceptedOK'
<1> SUFFICES ASSUME HBase, [HistoryNext]_historyVars PROVE AcceptedOK'
  OBVIOUS
<1>1. ASSUME NEW h \in Handlers, RecordCommit(h) PROVE AcceptedOK'
  <2>1. PICK r \in Report, row \in Row, x \in Entry :
          /\ Recorded(h, r, row, x)
          /\ r = Visible(job[h].request.report, job[h].keys)
          /\ accepted' = Append(accepted, x)
    BY <1>1, RecordEffect
  <2>2. accepted' \in Seq(Entry)
    BY <2>1 DEF HBase, AcceptedOK
  <2>3. ASSUME NEW i \in 1..Len(accepted')
        PROVE  \E keys : accepted'[i].report = Visible(accepted'[i].request.report, keys)
    <3>1. CASE i = Len(accepted) + 1
      BY <2>1, <3>1 DEF Recorded
    <3>2. CASE i # Len(accepted) + 1
      <4>1. i \in 1..Len(accepted) /\ accepted'[i] = accepted[i]
        BY <2>1, <3>2 DEF Recorded
      <4> QED
        BY <4>1 DEF HBase, AcceptedOK
    <3> QED
      BY <3>1, <3>2
  <2> QED
    BY <2>2, <2>3 DEF AcceptedOK
<1>2. CASE UNCHANGED accepted
  BY <1>2 DEF HBase, AcceptedOK
<1> QED
  BY <1>1, <1>2, HistoryCases

LEMMA HBaseInit == HistoryInit => HBase
<1> SUFFICES ASSUME HistoryInit PROVE HBase
  OBVIOUS
<1>1. IInv /\ NonceLists
  BY IInvInit, NonceListsInit DEF HistoryInit
<1>2. PriorCurrent
  BY DEF HistoryInit, Init, PriorCurrent
<1>3. AcceptedOK
  BY DEF HistoryInit, AcceptedOK
<1> QED
  BY <1>1, <1>2, <1>3 DEF HBase

LEMMA HBaseStep == HBase /\ OneInvocation /\ [HistoryNext]_historyVars => HBase'
<1> SUFFICES ASSUME HBase, OneInvocation, [HistoryNext]_historyVars PROVE HBase'
  OBVIOUS
<1>1. [Next]_vars
  BY HistoryCases
<1>2. IInv' /\ NonceLists' /\ PriorCurrent'
  BY <1>1, IInvStep, NonceListsStep, PriorCurrentStep DEF HBase, IInv
<1>3. AcceptedOK'
  BY AcceptedOKStep
<1> QED
  BY <1>2, <1>3 DEF HBase

-----------------------------------------------------------------------------
(***************************************************************************)
(* Retries.  What was accepted is in the history; the card is one of the   *)
(* accepted reports that have become the card.                             *)
(***************************************************************************)

CardAccepted ==
  \A n \in Nodes :
    IF latest[n] = None THEN AcceptedOf(n) = {}
    ELSE \E i \in AcceptedOf(n) : accepted[i].won /\ accepted[i].report = latest[n].report

AcceptedSampled ==
  \A i \in DOMAIN accepted : \E s \in samples :
    s.node = accepted[i].report.node /\ s.gen = accepted[i].report.gen

\* The round of an accepted report is in the history, unless it was no newer than that
\* of the card it was compared with.
RoundsKept ==
  \A i \in DOMAIN accepted :
    LET r == accepted[i].report IN
    \/ RoundAt(r) = 0
    \/ \E x \in rounds : x.node = r.node /\ x.at = RoundAt(r)
    \/ \E k \in AcceptedOf(r.node) : accepted[k].won /\ RoundAt(r) <= RoundAt(accepted[k].report)

\* What a recorded commit does to the accepted reports of a node.
LEMMA AcceptedOfGrows ==
  ASSUME HBase, NEW h, NEW r, NEW row, NEW x, Recorded(h, r, row, x), NEW n,
         accepted' = Append(accepted, x)
  PROVE  /\ DOMAIN accepted = 1..Len(accepted) /\ DOMAIN accepted' = 1..(Len(accepted) + 1)
         /\ AcceptedOf(n) \subseteq 1..Len(accepted)
         /\ AcceptedOf(n)' = IF n = r.node THEN AcceptedOf(n) \cup {Len(accepted) + 1} ELSE AcceptedOf(n)
         /\ \A i \in AcceptedOf(n) : accepted'[i] = accepted[i]
<1>1. DOMAIN accepted = 1..Len(accepted)
  BY DEF HBase, AcceptedOK
<1>2. accepted' \in Seq(Entry \cup {x})
  BY DEF HBase, AcceptedOK
<1>3. DOMAIN accepted' = 1..(Len(accepted) + 1)
  BY <1>2 DEF Recorded
<1>4. AcceptedOf(n) \subseteq 1..Len(accepted) /\ \A i \in AcceptedOf(n) : accepted'[i] = accepted[i]
  BY <1>1 DEF AcceptedOf, Recorded
<1>5. ASSUME NEW i
      PROVE  i \in AcceptedOf(n)' <=> i \in AcceptedOf(n) \/ (n = r.node /\ i = Len(accepted) + 1)
  <2>1. i \in 1..(Len(accepted) + 1) <=> i \in 1..Len(accepted) \/ i = Len(accepted) + 1
    BY DEF Recorded
  <2>2. i \in AcceptedOf(n)' <=> i \in 1..(Len(accepted) + 1) /\ accepted'[i].report.node = n
    BY <1>3 DEF AcceptedOf
  <2>3. i \in AcceptedOf(n) <=> i \in 1..Len(accepted) /\ accepted[i].report.node = n
    BY <1>1 DEF AcceptedOf
  <2>4. CASE i = Len(accepted) + 1
    <3>1. accepted'[i].report.node = r.node /\ i \notin 1..Len(accepted)
      BY <2>4 DEF Recorded
    <3> QED
      BY <2>1, <2>2, <2>3, <2>4, <3>1
  <2>5. CASE i # Len(accepted) + 1
    <3>1. i \in 1..Len(accepted) => accepted'[i] = accepted[i]
      BY DEF Recorded
    <3> QED
      BY <2>1, <2>2, <2>3, <2>5, <3>1
  <2> QED
    BY <2>4, <2>5
<1>6. AcceptedOf(n)' = IF n = r.node THEN AcceptedOf(n) \cup {Len(accepted) + 1} ELSE AcceptedOf(n)
  BY <1>5
<1> QED
  BY <1>1, <1>3, <1>4, <1>6

\* AddRound leaves a round of r's time behind, unless that of row is as new.
LEMMA AddRoundIs ==
  ASSUME NEW r \in Report, NEW row \in Row \cup {None}
  PROVE  /\ rounds \subseteq AddRound(r, row)
         /\ \/ RoundAt(r) = 0
            \/ row # None /\ RoundAt(r) <= RoundAt(row.report)
            \/ \E x \in AddRound(r, row) : x.node = r.node /\ x.at = RoundAt(r)
         /\ RoundAt(r) = 0 \/ (row # None /\ RoundAt(r) <= RoundAt(row.report))
            \/ (\E x \in rounds : x.node = r.node /\ x.at = RoundAt(r)) => AddRound(r, row) = rounds
<1> DEFINE new == [node |-> r.node, at |-> RoundAt(r), probes |-> Reported(r)]
<1>1. RoundAt(r) \in Nat
  BY RoundAtType, BoundsAssumption
<1>2. row # None => RoundAt(row.report) \in Nat
  BY RoundAtType, BoundsAssumption DEF Row
<1>3. new.node = r.node /\ new.at = RoundAt(r)
  OBVIOUS
<1> DEFINE seen == IF row = None THEN 0 ELSE RoundAt(row.report)
           known == \E x \in rounds : x.node = r.node /\ x.at = RoundAt(r)
<1>4. AddRound(r, row) = IF RoundAt(r) <= seen \/ known THEN rounds ELSE rounds \cup {new}
  BY DEF AddRound
<1>5. RoundAt(r) <= seen => RoundAt(r) = 0 \/ (row # None /\ RoundAt(r) <= RoundAt(row.report))
  BY <1>1, <1>2
<1>6. RoundAt(r) = 0 \/ (row # None /\ RoundAt(r) <= RoundAt(row.report)) => RoundAt(r) <= seen
  BY <1>1, <1>2
<1> HIDE DEF new, seen
<1> QED
  BY <1>3, <1>4, <1>5, <1>6

LInv == HBase /\ CardAccepted /\ AcceptedSampled /\ RoundsKept

LEMMA LInvCommit ==
  ASSUME LInv, NEW h \in Handlers, RecordCommit(h)
  PROVE  CardAccepted' /\ AcceptedSampled' /\ RoundsKept'
<1>0. HBase /\ latest \in [Nodes -> Row \cup {None}]
  BY DEF LInv, HBase, IInv, TypeOK
<1>1. PICK r \in Report, row \in Row, x \in Entry :
        /\ Recorded(h, r, row, x) /\ r.node \in Nodes /\ accepted' = Append(accepted, x)
  BY <1>0, RecordEffect
<1> DEFINE L == Len(accepted)
<1>2. /\ DOMAIN accepted = 1..L /\ DOMAIN accepted' = 1..(L + 1) /\ L \in Nat
      /\ \A n : AcceptedOf(n) \subseteq 1..L
      /\ \A n : AcceptedOf(n)' = IF n = r.node THEN AcceptedOf(n) \cup {L + 1} ELSE AcceptedOf(n)
      /\ \A n : \A i \in AcceptedOf(n) : accepted'[i] = accepted[i]
      /\ \A i \in 1..L : accepted'[i] = accepted[i]
      /\ accepted'[L + 1] = x /\ x.report = r
  <2>1. ASSUME NEW n
        PROVE  /\ DOMAIN accepted = 1..L /\ DOMAIN accepted' = 1..(L + 1)
               /\ AcceptedOf(n) \subseteq 1..L
               /\ AcceptedOf(n)' = IF n = r.node THEN AcceptedOf(n) \cup {L + 1} ELSE AcceptedOf(n)
               /\ \A i \in AcceptedOf(n) : accepted'[i] = accepted[i]
    BY <1>0, <1>1, AcceptedOfGrows
  <2>2. /\ L \in Nat /\ accepted'[L + 1] = x /\ x.report = r
        /\ \A i \in 1..L : accepted'[i] = accepted[i]
    BY <1>1 DEF Recorded
  <2> QED
    BY <2>1, <2>2
<1>3. samples \subseteq samples' /\ \E s \in samples' : s.node = r.node /\ s.gen = r.gen
  BY <1>1, AddSampleIs DEF Recorded
<1>4. latest[r.node] \in Row \cup {None} /\ rounds' = AddRound(r, latest[r.node])
  BY <1>0, <1>1 DEF Recorded
<1>5. row # None
  BY NoneAssumption
<1> HIDE DEF L
<1>6. CardAccepted'
  <2> SUFFICES ASSUME NEW n \in Nodes
               PROVE  IF latest'[n] = None THEN AcceptedOf(n)' = {}
                      ELSE \E i \in AcceptedOf(n)' :
                             accepted'[i].won /\ accepted'[i].report = latest'[n].report
    BY DEF CardAccepted
  <2>1. IF latest[n] = None THEN AcceptedOf(n) = {}
        ELSE \E i \in AcceptedOf(n) : accepted[i].won /\ accepted[i].report = latest[n].report
    BY DEF LInv, CardAccepted
  <2>2. CASE n = r.node /\ Supersedes(r, latest[n])
    <3>1. latest'[n] = row /\ x.won /\ row.report = r
      BY <1>0, <1>1, <2>2 DEF Recorded
    <3>2. L + 1 \in AcceptedOf(n)'
      BY <1>2, <2>2
    <3> QED
      BY <1>2, <1>5, <3>1, <3>2
  <2>3. CASE n = r.node /\ ~ Supersedes(r, latest[n])
    <3>1. latest[n] # None /\ latest' = latest
      BY <1>1, <2>3 DEF Recorded, Supersedes
    <3> QED
      BY <1>2, <2>1, <2>3, <3>1
  <2>4. CASE n # r.node
    <3>1. latest'[n] = latest[n]
      BY <1>0, <1>1, <2>4 DEF Recorded
    <3> QED
      BY <1>2, <2>1, <2>4, <3>1
  <2> QED
    BY <2>2, <2>3, <2>4
<1>7. AcceptedSampled'
  <2> SUFFICES ASSUME NEW i \in 1..(L + 1)
               PROVE  \E s \in samples' : s.node = accepted'[i].report.node /\ s.gen = accepted'[i].report.gen
    BY <1>2 DEF AcceptedSampled
  <2>1. CASE i = L + 1
    BY <1>2, <1>3, <2>1
  <2>2. CASE i # L + 1
    <3>1. i \in 1..L
      BY <1>2, <2>2
    <3>2. \E s \in samples : s.node = accepted[i].report.node /\ s.gen = accepted[i].report.gen
      BY <1>2, <3>1 DEF LInv, AcceptedSampled
    <3> QED
      BY <1>2, <1>3, <3>1, <3>2
  <2> QED
    BY <2>1, <2>2
<1>8. RoundsKept'
  <2> SUFFICES ASSUME NEW i \in 1..(L + 1), NEW old, old = accepted'[i].report
               PROVE  \/ RoundAt(old) = 0
                      \/ \E y \in rounds' : y.node = old.node /\ y.at = RoundAt(old)
                      \/ \E k \in AcceptedOf(old.node)' :
                           accepted'[k].won /\ RoundAt(old) <= RoundAt(accepted'[k].report)
    BY <1>2 DEF RoundsKept, AcceptedOf
  <2>1. rounds \subseteq rounds'
    BY <1>4, AddRoundIs
  <2>2. CASE i = L + 1
    <3>1. old = r
      BY <1>2, <2>2
    <3>2. CASE latest[r.node] # None /\ RoundAt(r) <= RoundAt(latest[r.node].report)
      <4>1. PICK k \in AcceptedOf(r.node) : accepted[k].won /\ accepted[k].report = latest[r.node].report
        BY <1>1, <3>2 DEF LInv, CardAccepted
      <4> QED
        BY <1>2, <3>1, <3>2, <4>1
    <3> QED
      BY <1>4, <3>1, <3>2, AddRoundIs
  <2>3. CASE i # L + 1
    <3>1. i \in 1..L /\ old = accepted[i].report
      BY <1>2, <2>3
    <3>2. \/ RoundAt(old) = 0
          \/ \E y \in rounds : y.node = old.node /\ y.at = RoundAt(old)
          \/ \E k \in AcceptedOf(old.node) :
               accepted[k].won /\ RoundAt(old) <= RoundAt(accepted[k].report)
      BY <1>2, <3>1 DEF LInv, RoundsKept
    <3>3. ASSUME NEW k \in AcceptedOf(old.node), accepted[k].won,
                 RoundAt(old) <= RoundAt(accepted[k].report)
          PROVE  \E j \in AcceptedOf(old.node)' :
                   accepted'[j].won /\ RoundAt(old) <= RoundAt(accepted'[j].report)
      <4>1. k \in AcceptedOf(old.node)' /\ accepted'[k] = accepted[k]
        BY <1>2
      <4> QED
        BY <3>3, <4>1
    <3> QED
      BY <2>1, <3>2, <3>3
  <2> QED
    BY <2>2, <2>3
<1> QED
  BY <1>6, <1>7, <1>8

LEMMA LInvStep == LInv /\ OneInvocation /\ [HistoryNext]_historyVars => LInv'
<1> SUFFICES ASSUME LInv, OneInvocation, [HistoryNext]_historyVars PROVE LInv'
  OBVIOUS
<1>1. HBase'
  BY HBaseStep DEF LInv
<1>2. CASE \E h \in Handlers : RecordCommit(h)
  BY <1>1, <1>2, LInvCommit DEF LInv
<1>3. CASE UNCHANGED <<accepted, tableVars>>
  BY <1>1, <1>3 DEF LInv, CardAccepted, AcceptedSampled, RoundsKept, AcceptedOf, tableVars
<1> QED
  BY <1>2, <1>3, HistoryCases

LEMMA LInvInit == HistoryInit => LInv
<1> SUFFICES ASSUME HistoryInit PROVE LInv
  OBVIOUS
<1>1. DOMAIN accepted = {} /\ latest = [n \in Nodes |-> None]
  BY DEF HistoryInit, Init
<1> QED
  BY <1>1, HBaseInit DEF LInv, CardAccepted, AcceptedSampled, RoundsKept, AcceptedOf

\* The step in which a retry is accepted.
LEMMA RetryStep ==
  ASSUME LInv, NEW h \in Handlers, RecordCommit(h),
         NEW i \in DOMAIN accepted, accepted[i].report = Visible(job[h].request.report, job[h].keys)
  PROVE  /\ UNCHANGED <<samples, events>>
         /\ RoundNotLost(accepted[i].report.node) => UNCHANGED rounds
<1>0. HBase /\ latest \in [Nodes -> Row \cup {None}]
  BY DEF LInv, HBase, IInv, TypeOK
<1>1. PICK r \in Report, row \in Row, x \in Entry :
        /\ Recorded(h, r, row, x) /\ r.node \in Nodes
        /\ r = Visible(job[h].request.report, job[h].keys)
  BY <1>0, RecordEffect
<1> DEFINE card == latest[r.node]
<1>2. r = accepted[i].report /\ i \in AcceptedOf(r.node)
  BY <1>1 DEF AcceptedOf
<1>3. card \in Row \cup {None} /\ card # None
  BY <1>0, <1>1, <1>2 DEF LInv, CardAccepted
<1>4. PICK s \in samples : s.node = r.node /\ s.gen = r.gen
  BY <1>2 DEF LInv, AcceptedSampled
<1>5. r.gen <= card.report.gen
  BY <1>1, <1>3, <1>4 DEF LInv, HBase, IInv, LatestIsNewest, SamplesOf
<1>6. samples' = samples
  BY <1>1, <1>4 DEF Recorded, AddSample
<1>7. events' = events
  BY <1>1, <1>3, <1>5 DEF Recorded, NewEvents
<1>8. ASSUME RoundNotLost(r.node) PROVE rounds' = rounds
  <2>1. \/ RoundAt(r) = 0
        \/ \E y \in rounds : y.node = r.node /\ y.at = RoundAt(r)
        \/ \E k \in AcceptedOf(r.node) : accepted[k].won /\ RoundAt(r) <= RoundAt(accepted[k].report)
    BY <1>2 DEF LInv, RoundsKept
  <2>2. CASE \E k \in AcceptedOf(r.node) : accepted[k].won /\ RoundAt(r) <= RoundAt(accepted[k].report)
    <3>1. PICK k \in AcceptedOf(r.node) : accepted[k].won /\ RoundAt(r) <= RoundAt(accepted[k].report)
      BY <2>2
    <3>2. RoundAt(accepted[k].report) <= RoundAt(card.report)
      BY <1>8, <3>1 DEF RoundNotLost
    <3>3. accepted[k].report \in Report /\ card.report \in Report
      <4>1. accepted \in Seq(Entry) /\ k \in DOMAIN accepted
        BY <1>0 DEF AcceptedOf, HBase, AcceptedOK
      <4>2. accepted[k] \in Entry
        BY <4>1
      <4> QED
        BY <1>3, <4>2 DEF Entry, Row
    <3>4. RoundAt(r) \in Int /\ RoundAt(accepted[k].report) \in Int /\ RoundAt(card.report) \in Int
      BY <3>3, RoundAtType, BoundsAssumption
    <3>5. RoundAt(r) <= RoundAt(card.report)
      BY <3>1, <3>2, <3>4
    <3> QED
      BY <1>1, <1>3, <3>5, AddRoundIs DEF Recorded
  <2>3. rounds' = AddRound(r, card)
    BY <1>1 DEF Recorded
  <2> QED
    BY <1>3, <2>1, <2>2, <2>3, AddRoundIs
<1> QED
  BY <1>2, <1>6, <1>7, <1>8

OneInvocationStays == OneInvocation => []OneInvocation

LEMMA OneInvocationIsConstant == OneInvocationStays
<1>1. OneInvocation => OneInvocation'
  BY DEF OneInvocation
<1> QED
  BY <1>1, PTL DEF OneInvocationStays

LEMMA LInvHolds == HistorySpec /\ OneInvocation => []LInv
BY LInvInit, LInvStep, OneInvocationIsConstant, PTL DEF HistorySpec, OneInvocationStays

\* With one invocation at a time a retry of an accepted report adds no sample and no
\* event, whatever was accepted in between, and no round either unless the card has
\* gone back to an older one.
THEOREM RetriesAddNothing == HistorySpec /\ OneInvocation => RetryAddsNothing
<1> DEFINE A(h) ==
      LET r == Visible(job[h].request.report, job[h].keys) IN
      RecordCommit(h) /\ (\E i \in DOMAIN accepted : accepted[i].report = r)
      => /\ UNCHANGED <<samples, events>>
         /\ RoundNotLost(r.node) => UNCHANGED rounds
<1>1. LInv => \A h \in Handlers : A(h)
  <2> SUFFICES ASSUME LInv, NEW h \in Handlers, RecordCommit(h), NEW i \in DOMAIN accepted,
                      accepted[i].report = Visible(job[h].request.report, job[h].keys)
               PROVE  A(h)
    OBVIOUS
  <2>1. /\ UNCHANGED <<samples, events>>
        /\ RoundNotLost(accepted[i].report.node) => UNCHANGED rounds
    BY RetryStep
  <2> QED
    BY <2>1
<1>2. LInv /\ [HistoryNext]_historyVars => [\A h \in Handlers : A(h)]_historyVars
  BY <1>1
<1> HIDE DEF A
<1>3. HistorySpec /\ OneInvocation => [][\A h \in Handlers : A(h)]_historyVars
  BY <1>2, LInvHolds, PTL DEF HistorySpec
<1> QED
  BY <1>3 DEF A, RetryAddsNothing

-----------------------------------------------------------------------------
(***************************************************************************)
(* The event list.  A change of state is dated by the report that brings   *)
(* it, which is newer than everything before, so it becomes the newest     *)
(* entry of its subject; a report that brings no entry is the card's own   *)
(* time again, or older than the card.                                     *)
(***************************************************************************)

\* An Agent makes one report per generated_at; what it repeats of it are attempts to
\* deliver the same report.
OneReportPerTime ==
  \A p, q \in Requests :
    p.report.node = q.report.node /\ p.report.gen = q.report.gen =>
      p.report.marks = q.report.marks /\ p.report.services = q.report.services

\* A set of numbers of accepted reports has a smallest element.
LEMMA SmallestExists ==
  ASSUME NEW S, S \subseteq Nat, S # {}
  PROVE  \E i \in S : \A j \in S : i <= j
<1>1. PICK m \in S : \A y \in S : ~ (<<y, m>> \in OpToRel(<, Nat))
  BY NatLessThanWellFounded, WFMin
<1>2. m \in S /\ \A y \in S : ~ (y < m)
  BY <1>1 DEF OpToRel
<1> QED
  BY <1>2

\* The events a report adds about a subject of the card.
LEMMA ChangesOf ==
  ASSUME NEW r, NEW source, NEW row
  PROVE  /\ \A m \in Marks : \A e :
              e \in Changes(r, source, row) /\ e.type = m /\ e.subject = m
              <=> /\ row.report.marks[m] # r.marks[m]
                  /\ e = [node |-> r.node, type |-> m, at |-> r.gen, subject |-> m, value |-> r.marks[m]]
         /\ \A s \in Services : \A e :
              e \in Changes(r, source, row) /\ e.type = "service_state" /\ e.subject = s
              <=> /\ r.services[s] # None /\ OldState(row.report, s) # r.services[s]
                  /\ e = [node |-> r.node, type |-> "service_state", at |-> r.gen, subject |-> s,
                          value |-> r.services[s]]
         /\ \A e \in Changes(r, source, row) : e.node = r.node /\ e.at = r.gen
<1> DEFINE Event(type, subject, value) ==
             [node |-> r.node, type |-> type, at |-> r.gen, subject |-> subject, value |-> value]
           A == {Event(m, m, r.marks[m]) : m \in {k \in Marks : row.report.marks[k] # r.marks[k]}}
           B == {Event("service_state", s, r.services[s]) :
                   s \in {k \in Services : r.services[k] # None /\ OldState(row.report, k) # r.services[k]}}
           C == IF row.source # None /\ source # None /\ row.source # source
                THEN {Event("source_ip", "source_ip", source.net)} ELSE {}
<1>1. Changes(r, source, row) = A \cup B \cup C
  BY DEF Changes
<1>2. \A e \in A : e.type \in Marks /\ e.type = e.subject /\ e.node = r.node /\ e.at = r.gen
  OBVIOUS
<1>3. \A e \in B : e.type = "service_state" /\ e.node = r.node /\ e.at = r.gen
  OBVIOUS
<1>4. \A e \in C : e.type = "source_ip" /\ e.node = r.node /\ e.at = r.gen
  OBVIOUS
<1>5. "service_state" \notin Marks /\ "source_ip" \notin Marks /\ "source_ip" # "service_state"
  BY DEF Marks
<1>6. ASSUME NEW m \in Marks, NEW e
      PROVE  e \in A /\ e.type = m <=> row.report.marks[m] # r.marks[m] /\ e = Event(m, m, r.marks[m])
  OBVIOUS
<1>7. ASSUME NEW s \in Services, NEW e
      PROVE  e \in B /\ e.subject = s
             <=> /\ r.services[s] # None /\ OldState(row.report, s) # r.services[s]
                 /\ e = Event("service_state", s, r.services[s])
  OBVIOUS
<1>8. \A type, subject, value : Event(type, subject, value).type = type /\ Event(type, subject, value).subject = subject
  OBVIOUS
<1> HIDE DEF A, B, C, Event
<1>9. ASSUME NEW m \in Marks, NEW e
      PROVE  e \in Changes(r, source, row) /\ e.type = m /\ e.subject = m
             <=> row.report.marks[m] # r.marks[m] /\ e = Event(m, m, r.marks[m])
  BY <1>1, <1>2, <1>3, <1>4, <1>5, <1>6
<1>10. ASSUME NEW s \in Services, NEW e
       PROVE  e \in Changes(r, source, row) /\ e.type = "service_state" /\ e.subject = s
              <=> /\ r.services[s] # None /\ OldState(row.report, s) # r.services[s]
                  /\ e = Event("service_state", s, r.services[s])
  BY <1>1, <1>2, <1>3, <1>4, <1>5, <1>7, <1>8
<1>11. \A e \in Changes(r, source, row) : e.node = r.node /\ e.at = r.gen
  BY <1>1, <1>2, <1>3, <1>4
<1> QED
  BY <1>9, <1>10, <1>11 DEF Event

\* An event newer than a log is its newest entry.
LEMMA NewestIs ==
  ASSUME NEW log, NEW e, e.at \in Int, \A f \in log : f.at \in Int /\ f.at < e.at
  PROVE  Newest(log \cup {e}) = e
<1> DEFINE P(x) == \A f \in log \cup {e} : f.at <= x.at
<1>1. e \in log \cup {e} /\ P(e)
  OBVIOUS
<1>2. \A x \in log \cup {e} : P(x) => x = e
  OBVIOUS
<1> QED
  BY <1>1, <1>2 DEF Newest

EInv == LInv /\ EventsExplainCard

\* An entry of a log is no newer than the card.
LEMMA LogDated ==
  ASSUME IInv, NEW n \in Nodes, NEW e \in events, e.node = n
  PROVE  latest[n] # None /\ latest[n].report.gen \in Nat /\ e.at \in Nat /\ e.at <= latest[n].report.gen
<1>1. PICK s \in samples : s.node = n /\ s.gen = e.at
  BY DEF IInv, DerivedFromOlder, SamplesOf
<1>2. latest[n] # None /\ s.gen <= latest[n].report.gen
  BY <1>1 DEF IInv, LatestIsNewest, SamplesOf
<1>3. latest[n].report.gen \in Nat /\ s.gen \in Nat
  BY <1>1, <1>2, BoundsAssumption DEF IInv, TypeOK, Sample, Row, Report
<1> QED
  BY <1>1, <1>2, <1>3

\* Explained, of a log.
Tells(log, was, is) == is = IF log = {} THEN was ELSE Newest(log).value

\* Replaying the event list from was brings the card's report is.
TellsCard(n, was, is) ==
  /\ \A m \in Marks : Tells(Log(n, m, m), was.marks[m], is.marks[m])
  /\ \A s \in Services : is.services[s] # None =>
       \/ Tells(Log(n, "service_state", s), was.services[s], is.services[s])
       \/ is.services[s] = "unknown" /\ LeftOut(n, s)

\* A commit adds a report after the others, so the first one stays the first.
LEMMA EarliestStays ==
  ASSUME HBase, NEW h, NEW r, NEW row, NEW x, Recorded(h, r, row, x), accepted' = Append(accepted, x),
         NEW n
  PROVE  /\ AcceptedOf(n) # {} => Earliest(n)' = Earliest(n)
         /\ AcceptedOf(n) = {} /\ n = r.node => Earliest(n)' = r
<1> DEFINE L == Len(accepted)
           S == AcceptedOf(n)
           Min(T, i) == i \in T /\ \A j \in T : i <= j
<1>1. /\ L \in Nat /\ S \subseteq 1..L /\ accepted'[L + 1] = x /\ x.report = r
      /\ S' = IF n = r.node THEN S \cup {L + 1} ELSE S
      /\ \A i \in S : accepted'[i] = accepted[i]
  BY AcceptedOfGrows DEF Recorded
<1>2. /\ Earliest(n) = accepted[CHOOSE i \in S : \A j \in S : i <= j].report
      /\ Earliest(n)' = accepted'[CHOOSE i \in S' : \A j \in S' : i <= j].report
  BY DEF Earliest
<1> HIDE DEF L, S
<1>3. ASSUME S # {} PROVE Earliest(n)' = Earliest(n)
  <2>1. PICK m \in S : \A j \in S : m <= j
    <3>1. S \subseteq Nat
      BY <1>1
    <3> QED
      BY <1>3, <3>1, SmallestExists
  <2>2. \A i \in S : (\A j \in S : i <= j) => i = m
    BY <1>1, <2>1
  <2>3. m \in S' /\ \A j \in S' : m <= j
    BY <1>1, <2>1
  <2>4. \A i \in S' : (\A j \in S' : i <= j) => i = m
    BY <1>1, <2>1, <2>3
  <2>5. (CHOOSE i \in S : \A j \in S : i <= j) = m
    BY <2>1, <2>2
  <2>6. (CHOOSE i \in S' : \A j \in S' : i <= j) = m
    BY <2>3, <2>4
  <2> QED
    BY <1>1, <1>2, <2>1, <2>5, <2>6
<1>4. ASSUME S = {}, n = r.node PROVE Earliest(n)' = r
  <2>1. S' = {L + 1}
    BY <1>1, <1>4
  <2>2. (CHOOSE i \in S' : \A j \in S' : i <= j) = L + 1
    BY <1>1, <2>1
  <2> QED
    BY <1>1, <1>2, <2>2
<1> QED
  BY <1>3, <1>4 DEF S

\* An accepted report has the marks and the services of its request.
LEMMA AcceptedReport ==
  ASSUME HBase, NEW i \in DOMAIN accepted
  PROVE  /\ accepted[i].request \in Requests
         /\ accepted[i].report.node = accepted[i].request.report.node
         /\ accepted[i].report.gen = accepted[i].request.report.gen
         /\ accepted[i].report.marks = accepted[i].request.report.marks
         /\ accepted[i].report.services = accepted[i].request.report.services
<1>1. accepted \in Seq(Entry) /\ i \in 1..Len(accepted)
  BY DEF HBase, AcceptedOK
<1>2. accepted[i] \in Entry
  BY <1>1
<1>3. accepted[i].request \in Requests /\ accepted[i].request.report \in Report
  BY <1>2, RequestsAssumption DEF Entry, Request
<1>4. PICK keys : accepted[i].report = Visible(accepted[i].request.report, keys)
  BY <1>1 DEF HBase, AcceptedOK
<1> QED
  BY <1>3, <1>4, VisibleKeeps

LEMMA ExplainCommit ==
  ASSUME EInv, OneReportPerTime, NEW h \in Handlers, RecordCommit(h)
  PROVE  EventsExplainCard'
<1>0. LInv /\ HBase /\ IInv /\ TypeOK /\ latest \in [Nodes -> Row \cup {None}]
  BY DEF EInv, LInv, HBase, IInv, TypeOK
<1>1. PICK r \in Report, row \in Row, x \in Entry :
        /\ Recorded(h, r, row, x) /\ r.node \in Nodes /\ accepted' = Append(accepted, x)
        /\ r = Visible(job[h].request.report, job[h].keys)
        /\ phase[h] = "decided"
  BY <1>0, RecordEffect
<1> DEFINE L == Len(accepted)
           New == NewEvents(r, row.source, latest[r.node])
<1>2. ASSUME NEW n
      PROVE  /\ AcceptedOf(n) \subseteq AcceptedOf(n)' /\ \A i \in AcceptedOf(n) : accepted'[i] = accepted[i]
             /\ AcceptedOf(n) # {} => Earliest(n)' = Earliest(n)
             /\ AcceptedOf(n) = {} /\ n = r.node => Earliest(n)' = r
  BY <1>0, <1>1, AcceptedOfGrows, EarliestStays
<1>3. events' = events \cup New
  BY <1>1 DEF Recorded
<1>4. ASSUME latest[r.node] # None PROVE r.gen \in Nat /\ latest[r.node].report.gen \in Nat
  BY <1>0, <1>1, <1>4, BoundsAssumption DEF Row, Report
<1>5. ASSUME latest[r.node] = None \/ r.gen <= latest[r.node].report.gen PROVE New = {}
  BY <1>5 DEF NewEvents
<1>6. ASSUME latest[r.node] # None, ~ (r.gen <= latest[r.node].report.gen)
      PROVE  New = Changes(r, row.source, latest[r.node])
  BY <1>6 DEF NewEvents
<1>7. \A e \in New : e.node = r.node
  BY <1>5, <1>6, ChangesOf
<1> HIDE DEF New
<1>8. ASSUME NEW n, NEW type, NEW subject
      PROVE  Log(n, type, subject)' =
               Log(n, type, subject) \cup {e \in New : e.node = n /\ e.type = type /\ e.subject = subject}
  BY <1>3 DEF Log
<1> SUFFICES ASSUME NEW n \in Nodes, latest'[n] # None
             PROVE  TellsCard(n, Earliest(n), latest[n].report)'
  BY DEF EventsExplainCard, Explained, Tells, TellsCard
<1>9. ASSUME latest[n] # None
      PROVE  /\ TellsCard(n, Earliest(n), latest[n].report)
             /\ \E i \in AcceptedOf(n) : accepted[i].won /\ accepted[i].report = latest[n].report
  BY <1>0, <1>9 DEF EInv, EventsExplainCard, Explained, Tells, TellsCard, LInv, CardAccepted
<1>10. ASSUME NEW s, LeftOut(n, s) PROVE LeftOut(n, s)'
  BY <1>2, <1>10 DEF LeftOut
\* The card says what it said, and nothing is added to the log.
<1>11. ASSUME latest[n] # None, n = r.node => New = {},
              latest'[n].report.marks = latest[n].report.marks,
              latest'[n].report.services = latest[n].report.services
       PROVE  TellsCard(n, Earliest(n), latest[n].report)'
  <2>1. \A type, subject : Log(n, type, subject)' = Log(n, type, subject)
    BY <1>7, <1>8, <1>11
  <2>2. Earliest(n)' = Earliest(n)
    BY <1>2, <1>9, <1>11
  <2> QED
    BY <1>9, <1>10, <1>11, <2>1, <2>2 DEF TellsCard
<1>12. CASE n # r.node
  <2>1. latest'[n] = latest[n]
    BY <1>0, <1>1, <1>12 DEF Recorded
  <2> QED
    BY <1>11, <1>12, <2>1
<1>13. CASE n = r.node /\ latest[n] = None
  <2>1. latest'[n].report = r
    BY <1>0, <1>1, <1>13 DEF Recorded, Supersedes
  <2>2. AcceptedOf(n) = {}
    BY <1>0, <1>13 DEF LInv, CardAccepted
  <2>3. Earliest(n)' = r
    BY <1>2, <1>13, <2>2
  <2>4. \A type, subject : Log(n, type, subject) = {}
    BY <1>0, <1>13, LogDated DEF Log
  <2>5. \A type, subject : Log(n, type, subject)' = {}
    BY <1>5, <1>8, <1>13, <2>4
  <2> QED
    BY <2>1, <2>3, <2>5 DEF TellsCard, Tells
<1>14. CASE n = r.node /\ latest[n] # None /\ r.gen < latest[n].report.gen
  <2>1. latest' = latest
    BY <1>1, <1>4, <1>14 DEF Recorded, Supersedes
  <2> QED
    BY <1>4, <1>5, <1>11, <1>14, <2>1
<1>15. CASE n = r.node /\ latest[n] # None /\ r.gen = latest[n].report.gen
  <2>1. latest'[n].report = r
    <3>1. Supersedes(r, latest[r.node])
      BY <1>4, <1>15 DEF Supersedes
    <3> QED
      BY <1>0, <1>1, <1>15, <3>1 DEF Recorded
  <2>2. PICK i \in AcceptedOf(n) : accepted[i].report = latest[n].report
    BY <1>9, <1>15
  <2>3. i \in DOMAIN accepted /\ accepted[i].report.node = n
    BY DEF AcceptedOf
  <2>4. x \in Entry /\ x.request = job[h].request /\ x.report = r /\ r.node = x.request.report.node
    BY <1>1 DEF Recorded
  <2>5. x.request \in Requests /\ x.request.report \in Report
    BY <2>4, RequestsAssumption DEF Entry, Request
  <2>6. r.gen = x.request.report.gen /\ r.marks = x.request.report.marks
        /\ r.services = x.request.report.services
    BY <1>1, <2>4, <2>5, VisibleKeeps
  <2>7. r.marks = latest[n].report.marks /\ r.services = latest[n].report.services
    BY <1>0, <1>15, <2>2, <2>3, <2>4, <2>5, <2>6, AcceptedReport DEF OneReportPerTime
  <2> QED
    BY <1>4, <1>5, <1>11, <1>15, <2>1, <2>7
<1>16. CASE n = r.node /\ latest[n] # None /\ latest[n].report.gen < r.gen
  <2> DEFINE old == latest[n].report
  <2>1. latest'[n].report = r /\ Earliest(n)' = Earliest(n)
    <3>1. Supersedes(r, latest[r.node])
      BY <1>4, <1>16 DEF Supersedes
    <3>2. latest'[n].report = r
      BY <1>0, <1>1, <1>16, <3>1 DEF Recorded
    <3> QED
      BY <1>2, <1>9, <1>16, <3>2
  <2>2. New = Changes(r, row.source, latest[n])
    BY <1>4, <1>6, <1>16
  <2>3. \A type, subject : \A f \in Log(n, type, subject) : f.at \in Int /\ f.at < r.gen
    BY <1>0, <1>4, <1>16, LogDated DEF Log
  \* A new entry tells the new state.
  <2>4. ASSUME NEW type, NEW subject, NEW value, NEW was,
               Log(n, type, subject)' = Log(n, type, subject) \cup
                 {[node |-> r.node, type |-> type, at |-> r.gen, subject |-> subject, value |-> value]}
        PROVE  Tells(Log(n, type, subject)', was, value)
    <3> DEFINE e == [node |-> r.node, type |-> type, at |-> r.gen, subject |-> subject, value |-> value]
    <3>1. e.at = r.gen /\ e.value = value /\ r.gen \in Int
      BY <1>4, <1>16
    <3> HIDE DEF e
    <3>2. Newest(Log(n, type, subject) \cup {e}) = e
      BY <2>3, <3>1, NewestIs
    <3>3. Log(n, type, subject)' = Log(n, type, subject) \cup {e}
      BY <2>4 DEF e
    <3> QED
      BY <3>1, <3>2, <3>3 DEF Tells
  <2>5. ASSUME NEW m \in Marks PROVE Tells(Log(n, m, m)', Earliest(n)'.marks[m], r.marks[m])
    <3>1. CASE old.marks[m] # r.marks[m]
      <4>1. Log(n, m, m)' = Log(n, m, m) \cup
              {[node |-> r.node, type |-> m, at |-> r.gen, subject |-> m, value |-> r.marks[m]]}
        BY <1>7, <1>8, <1>16, <2>2, <3>1, ChangesOf
      <4> QED
        BY <2>4, <4>1
    <3>2. CASE old.marks[m] = r.marks[m]
      <4>1. Log(n, m, m)' = Log(n, m, m)
        <5>1. {e \in New : e.node = n /\ e.type = m /\ e.subject = m} = {}
          BY <2>2, <3>2, ChangesOf
        <5> QED
          BY <1>8, <5>1
      <4> QED
        BY <1>9, <1>16, <2>1, <3>2, <4>1 DEF TellsCard
    <3> QED
      BY <3>1, <3>2
  <2>6. ASSUME NEW s \in Services, r.services[s] # None
        PROVE  \/ Tells(Log(n, "service_state", s)', Earliest(n)'.services[s], r.services[s])
               \/ r.services[s] = "unknown" /\ LeftOut(n, s)'
    <3>1. CASE OldState(old, s) # r.services[s]
      <4>1. Log(n, "service_state", s)' = Log(n, "service_state", s) \cup
              {[node |-> r.node, type |-> "service_state", at |-> r.gen, subject |-> s,
                value |-> r.services[s]]}
        BY <1>7, <1>8, <1>16, <2>2, <2>6, <3>1, ChangesOf
      <4> QED
        BY <2>4, <4>1
    <3>2. CASE OldState(old, s) = r.services[s] /\ old.services[s] # None
      <4>1. Log(n, "service_state", s)' = Log(n, "service_state", s)
        <5>1. {e \in New : e.node = n /\ e.type = "service_state" /\ e.subject = s} = {}
          BY <2>2, <3>2, ChangesOf
        <5> QED
          BY <1>8, <5>1
      <4>2. old.services[s] = r.services[s]
        BY <3>2 DEF OldState
      <4> QED
        BY <1>9, <1>10, <1>16, <2>1, <2>6, <4>1, <4>2 DEF TellsCard
    <3>3. CASE OldState(old, s) = r.services[s] /\ old.services[s] = None
      <4>1. r.services[s] = "unknown"
        BY <3>3 DEF OldState
      <4>2. LeftOut(n, s)
        BY <1>9, <1>16, <3>3 DEF LeftOut
      <4> QED
        BY <1>10, <4>1, <4>2
    <3> QED
      BY <3>1, <3>2, <3>3
  <2> QED
    BY <2>1, <2>5, <2>6 DEF TellsCard
<1> QED
  BY <1>4, <1>12, <1>13, <1>14, <1>15, <1>16

LEMMA EInvStep == EInv /\ OneInvocation /\ OneReportPerTime /\ [HistoryNext]_historyVars => EInv'
<1> SUFFICES ASSUME EInv, OneInvocation, OneReportPerTime, [HistoryNext]_historyVars PROVE EInv'
  OBVIOUS
<1>1. LInv'
  BY LInvStep DEF EInv
<1>2. CASE \E h \in Handlers : RecordCommit(h)
  BY <1>1, <1>2, ExplainCommit DEF EInv
<1>3. CASE UNCHANGED <<accepted, tableVars>>
  <2>1. events' = events /\ latest' = latest /\ accepted' = accepted
    BY <1>3 DEF tableVars
  <2>2. \A n, type, subject : Log(n, type, subject)' = Log(n, type, subject)
    BY <2>1 DEF Log
  <2>3. \A n, s : Earliest(n)' = Earliest(n) /\ LeftOut(n, s)' = LeftOut(n, s)
    BY <2>1 DEF Earliest, LeftOut, AcceptedOf
  <2>4. EventsExplainCard'
    BY <2>1, <2>2, <2>3 DEF EInv, EventsExplainCard, Explained
  <2> QED
    BY <1>1, <2>4 DEF EInv
<1> QED
  BY <1>2, <1>3, HistoryCases

LEMMA EInvInit == HistoryInit => EInv
BY LInvInit DEF EInv, EventsExplainCard, HistoryInit, Init

LEMMA OneReportPerTimeStays == OneReportPerTime => OneReportPerTime'
BY DEF OneReportPerTime

\* With one invocation at a time, and one report per time, replaying the event list
\* from the first report gives the state on the card.
THEOREM EventsExplain ==
  HistorySpec /\ OneInvocation /\ OneReportPerTime => []EventsExplainCard
<1>1. OneReportPerTime => []OneReportPerTime
  BY OneReportPerTimeStays, PTL
<1>2. EInv => EventsExplainCard
  BY DEF EInv
<1> QED
  BY <1>1, <1>2, EInvInit, EInvStep, OneInvocationIsConstant, PTL DEF HistorySpec, OneInvocationStays

-----------------------------------------------------------------------------
(***************************************************************************)
(* Replays.  A request that became the card has its nonce on the list,     *)
(* with at most as many entries behind it as reports have become the card  *)
(* since, until NonceLimit of them have or it is past its window.          *)
(***************************************************************************)

\* An invocation that has passed the nonce check has passed it on the list that is still
\* there, and is going to write the one that follows from it.
NoncesCurrent ==
  \A h \in Handlers : phase[h] = "decided" =>
    LET q == job[h].request
        n == q.report.node
    IN  /\ ~ Replayed(recentNonces[n], q.nonce, job[h].at)
        /\ remembered[h] = NextNonces(recentNonces[n], q.nonce, job[h].at)

\* Reports are recorded in the order in which their requests arrived.
TimesOrdered ==
  /\ \A i \in DOMAIN accepted : accepted[i].at <= now
  /\ \A i, j \in DOMAIN accepted : i < j => accepted[i].at <= accepted[j].at
  /\ \A h \in Handlers : phase[h] # "idle" =>
       job[h].at <= now /\ \A i \in DOMAIN accepted : accepted[i].at <= job[h].at

\* The reports that became the card of the node of the i-th after it and before the j-th.
Between(i, j) == {k \in AcceptedOf(accepted[i].report.node) : i < k /\ k < j /\ accepted[k].won}

NonceOf(i) == [nonce |-> accepted[i].request.nonce, at |-> accepted[i].at]

WonRemembered ==
  \A i \in DOMAIN accepted : accepted[i].won =>
    LET later == Cardinality(Between(i, Len(accepted) + 1)) IN
    \/ Within(recentNonces[accepted[i].report.node], NonceOf(i), later)
    \/ later >= NonceLimit
    \/ \E k \in DOMAIN accepted : i < k /\ accepted[k].at - accepted[i].at > MaxAge

NInv == HBase /\ NoncesCurrent /\ TimesOrdered /\ WonRemembered /\ ReplayRefused

LEMMA NoncesCurrentStep ==
  HBase /\ NoncesCurrent /\ OneInvocation /\ [HistoryNext]_historyVars => NoncesCurrent'
<1> SUFFICES ASSUME HBase, NoncesCurrent, OneInvocation, [HistoryNext]_historyVars,
                    NEW h \in Handlers, phase'[h] = "decided"
             PROVE  LET q == job'[h].request
                        n == q.report.node
                    IN  /\ ~ Replayed(recentNonces'[n], q.nonce, job'[h].at)
                        /\ remembered'[h] = NextNonces(recentNonces'[n], q.nonce, job'[h].at)
  BY DEF NoncesCurrent
<1> USE DEF tableVars, handlerVars
<1>0. TypeOK /\ [Next]_vars
  BY HistoryCases DEF HBase, IInv
<1>1. CASE \E k \in Handlers, q \in Requests : Authenticate(k, q)
  BY <1>0, <1>1 DEF Authenticate, TypeOK, OneInvocation
<1>2. ASSUME NEW k \in Handlers, Handle(k)
      PROVE  ReadPrior(h)
  <2>1. k = h
    BY DEF OneInvocation
  <2> QED
    BY <1>0, <1>2, <2>1 DEF Handle, RefuseReplay, Commit, Fail, Finish, TypeOK
<1>3. CASE ReadPrior(h)
  <2>1. job' = job /\ recentNonces' = recentNonces
        /\ ~ Replayed(recentNonces[job[h].request.report.node], job[h].request.nonce, job[h].at)
        /\ remembered' = [remembered EXCEPT ![h] =
             NextNonces(recentNonces[job[h].request.report.node], job[h].request.nonce, job[h].at)]
    BY <1>3 DEF ReadPrior
  <2>2. DOMAIN remembered = Handlers
    BY <1>0 DEF TypeOK
  <2> QED
    BY <2>1, <2>2
<1>4. CASE (\E inventory \in Inventories : Publish(inventory)) \/ Tick \/ UNCHANGED vars
  <2>1. phase' = phase /\ job' = job /\ recentNonces' = recentNonces /\ remembered' = remembered
    BY <1>4 DEF Publish, Tick, vars
  <2> QED
    BY <2>1 DEF NoncesCurrent
<1> QED
  BY <1>0, <1>1, <1>2, <1>3, <1>4 DEF Next

LEMMA TimesOrderedStep ==
  HBase /\ TimesOrdered /\ OneInvocation /\ [HistoryNext]_historyVars => TimesOrdered'
<1> SUFFICES ASSUME HBase, TimesOrdered, OneInvocation, [HistoryNext]_historyVars
             PROVE  TimesOrdered'
  OBVIOUS
<1> USE DEF tableVars, handlerVars
<1>0. /\ TypeOK /\ [Next]_vars /\ accepted \in Seq(Entry) /\ now \in Nat
      /\ \A i \in 1..Len(accepted) : accepted[i].at \in Nat
      /\ DOMAIN accepted = 1..Len(accepted)
  <2>1. TypeOK /\ [Next]_vars /\ accepted \in Seq(Entry)
    BY HistoryCases DEF HBase, IInv, AcceptedOK
  <2>2. \A i \in 1..Len(accepted) : accepted[i] \in Entry
    BY <2>1
  <2> QED
    BY <2>1, <2>2 DEF Entry, TypeOK
<1>1. ASSUME NEW h \in Handlers, RecordCommit(h) PROVE TimesOrdered'
  <2>1. PICK r \in Report, row \in Row, x \in Entry :
          Recorded(h, r, row, x) /\ accepted' = Append(accepted, x) /\ phase[h] = "decided"
    BY <1>1, RecordEffect
  <2> DEFINE L == Len(accepted)
  <2>2. /\ L \in Nat /\ DOMAIN accepted' = 1..(L + 1) /\ accepted'[L + 1] = x
        /\ \A i \in 1..L : accepted'[i] = accepted[i]
        /\ x.at = job[h].at
    <3>1. DOMAIN accepted' = 1..(L + 1)
      BY <2>1, AcceptedOfGrows
    <3> QED
      BY <2>1, <3>1 DEF Recorded
  <2>3. now' = now /\ phase'[h] = "idle"
    BY <1>0, <1>1 DEF RecordCommit, Commit, Finish, TypeOK
  <2>4. x.at \in Nat /\ x.at <= now /\ \A i \in 1..L : accepted[i].at <= x.at
    BY <1>0, <2>1, <2>2 DEF TimesOrdered, Entry
  <2>5. \A k \in Handlers : phase'[k] = "idle"
    BY <2>3 DEF OneInvocation
  <2> HIDE DEF L
  <2>6. \A i \in 1..(L + 1) : accepted'[i].at <= now'
    BY <1>0, <2>2, <2>3, <2>4 DEF TimesOrdered, L
  <2>7. ASSUME NEW i \in 1..(L + 1), NEW j \in 1..(L + 1), i < j
        PROVE  accepted'[i].at <= accepted'[j].at
    <3>1. i \in 1..L
      BY <2>2, <2>7
    <3>2. CASE j = L + 1
      BY <2>2, <2>4, <3>1, <3>2
    <3>3. CASE j # L + 1
      <4>1. j \in 1..L
        BY <2>2, <3>3
      <4>2. accepted[i].at <= accepted[j].at
        BY <1>0, <2>7, <3>1, <4>1 DEF TimesOrdered, L
      <4> QED
        BY <2>2, <3>1, <4>1, <4>2
    <3> QED
      BY <3>2, <3>3
  <2> QED
    BY <2>2, <2>5, <2>6, <2>7 DEF TimesOrdered
<1>2. CASE UNCHANGED <<accepted, tableVars>>
  <2> DEFINE Claim == /\ now' = now \/ now' = now + 1
                      /\ \A k \in Handlers : phase'[k] # "idle" =>
                           \/ phase[k] # "idle" /\ job'[k] = job[k]
                           \/ job'[k].at = now /\ now' = now
  <2>1. ASSUME NEW k \in Handlers, NEW q \in Requests, Authenticate(k, q) PROVE Claim
    <3>1. now' = now /\ job' = [job EXCEPT ![k] = [request |-> q, at |-> now, keys |-> env.keys]]
      BY <2>1 DEF Authenticate
    <3>2. \A j \in Handlers : job'[j].at = now
      BY <1>0, <3>1 DEF TypeOK, OneInvocation
    <3> QED
      BY <3>1, <3>2
  <2>2. ASSUME NEW k \in Handlers, ReadPrior(k) PROVE Claim
    BY <1>0, <2>2 DEF ReadPrior, TypeOK, OneInvocation
  <2>3. ASSUME NEW k \in Handlers, RefuseReplay(k) \/ Commit(k) \/ Fail(k) PROVE Claim
    <3>1. now' = now /\ phase' = [phase EXCEPT ![k] = "idle"]
      BY <2>3 DEF RefuseReplay, Commit, Fail, Finish
    <3>2. \A j \in Handlers : phase'[j] = "idle"
      BY <1>0, <3>1 DEF TypeOK, OneInvocation
    <3> QED
      BY <3>1, <3>2
  <2>4. ASSUME (\E inventory \in Inventories : Publish(inventory)) \/ Tick \/ UNCHANGED vars
        PROVE  Claim
    BY <2>4 DEF Publish, Tick, vars
  <2>5. Claim
    BY <1>0, <2>1, <2>2, <2>3, <2>4 DEF Next, Handle
  <2>6. now' \in Nat /\ now <= now'
    BY <1>0, <2>5
  <2>7. \A i \in DOMAIN accepted : accepted[i].at <= now'
    BY <1>0, <2>6 DEF TimesOrdered
  <2>8. ASSUME NEW k \in Handlers, phase'[k] # "idle"
        PROVE  job'[k].at <= now' /\ \A i \in DOMAIN accepted : accepted[i].at <= job'[k].at
    <3>1. CASE phase[k] # "idle" /\ job'[k] = job[k]
      <4>1. job[k].at \in Nat
        BY <1>0, <3>1 DEF TypeOK, Job
      <4> QED
        BY <1>0, <2>6, <3>1, <4>1 DEF TimesOrdered
    <3>2. CASE job'[k].at = now /\ now' = now
      BY <1>0, <3>2 DEF TimesOrdered
    <3> QED
      BY <2>5, <2>8, <3>1, <3>2
  <2> QED
    BY <1>2, <2>7, <2>8 DEF TimesOrdered
<1> QED
  BY <1>1, <1>2, HistoryCases

LEMMA BetweenFinite ==
  ASSUME HBase, NEW i, NEW j
  PROVE  IsFiniteSet(Between(i, j)) /\ Cardinality(Between(i, j)) \in Nat
<1>1. Between(i, j) \subseteq 1..Len(accepted) /\ Len(accepted) \in Nat
  BY DEF Between, AcceptedOf, HBase, AcceptedOK
<1>2. IsFiniteSet(1..Len(accepted))
  BY <1>1, FS_Interval
<1> QED
  BY <1>1, <1>2, FS_Subset, FS_CardinalityType

\* A name for the length before a step, to speak of it after the step.
IsLength(L) == L = Len(accepted)

\* What a recorded commit does to the reports between two others: the new one counts
\* when it becomes the card of the same node.
LEMMA BetweenGrows ==
  ASSUME HBase, NEW h, NEW r, NEW row, NEW x, Recorded(h, r, row, x), accepted' = Append(accepted, x),
         NEW n, NEW i, i \in AcceptedOf(n),
         NEW L, IsLength(L)
  PROVE  /\ Between(i, L + 2)' =
              IF n = r.node /\ x.won THEN Between(i, L + 1) \cup {L + 1} ELSE Between(i, L + 1)
         /\ L + 1 \notin Between(i, L + 1)
<1>0. accepted[i].report.node = n
  BY DEF AcceptedOf
<1>1. /\ L \in Nat /\ accepted'[L + 1] = x /\ i \in 1..L
      /\ AcceptedOf(n) \subseteq 1..L
      /\ AcceptedOf(n)' = IF n = r.node THEN AcceptedOf(n) \cup {L + 1} ELSE AcceptedOf(n)
      /\ \A k \in AcceptedOf(n) : accepted'[k] = accepted[k]
      /\ accepted'[i] = accepted[i]
  <2>1. /\ DOMAIN accepted = 1..Len(accepted) /\ AcceptedOf(n) \subseteq 1..Len(accepted)
        /\ AcceptedOf(n)' = IF n = r.node THEN AcceptedOf(n) \cup {Len(accepted) + 1} ELSE AcceptedOf(n)
        /\ \A k \in AcceptedOf(n) : accepted'[k] = accepted[k]
    BY AcceptedOfGrows
  <2>2. /\ Len(accepted) \in Nat /\ accepted'[Len(accepted) + 1] = x
        /\ \A k \in 1..Len(accepted) : accepted'[k] = accepted[k]
    BY DEF Recorded
  <2> QED
    BY <2>1, <2>2 DEF IsLength
<1> DEFINE S == AcceptedOf(n)
<1>2. \A j : Between(i, j) = {k \in S : i < k /\ k < j /\ accepted[k].won}
  BY <1>0 DEF Between
<1>3. \A j : Between(i, j)' = {k \in S' : i < k /\ k < j /\ accepted'[k].won}
  BY <1>1, <1>0 DEF Between, AcceptedOf
<1>4. S' = (IF n = r.node THEN S \cup {L + 1} ELSE S) /\ S \subseteq 1..L
      /\ \A k \in S : accepted'[k] = accepted[k]
  BY <1>1
<1> HIDE DEF S
<1> PICK j : j = L + 1
  OBVIOUS
<1> PICK k : k = L + 2
  OBVIOUS
<1>5. i < j /\ j < k /\ L \in Nat
  BY <1>1
<1>6. ASSUME NEW m
      PROVE  m \in Between(i, k)' <=> m \in Between(i, j) \/ (m = j /\ n = r.node /\ x.won)
  <2>1. m \in S => m < j /\ m < k /\ m # j
    <3>1. m \in S => m \in 1..L
      BY <1>4
    <3> QED
      BY <1>5, <3>1
  <2>2. m \in Between(i, j) <=> m \in S /\ i < m /\ m < j /\ accepted[m].won
    BY <1>2
  <2>3. m \in Between(i, k)' <=> m \in S' /\ i < m /\ m < k /\ accepted'[m].won
    BY <1>3
  <2>4. CASE m = j
    BY <1>1, <1>4, <1>5, <2>1, <2>2, <2>3, <2>4
  <2>5. CASE m # j
    BY <1>4, <2>1, <2>2, <2>3, <2>5
  <2> QED
    BY <2>4, <2>5
<1>7. j \notin Between(i, j)
  BY <1>1, <1>2, <1>4
<1>8. Between(i, k)' = IF n = r.node /\ x.won THEN Between(i, j) \cup {j} ELSE Between(i, j)
  BY <1>6
<1> QED
  BY <1>7, <1>8

\* The pairs of reports recorded before are not concerned.
LEMMA BetweenStays ==
  ASSUME HBase, NEW h, NEW r, NEW row, NEW x, Recorded(h, r, row, x), accepted' = Append(accepted, x),
         NEW i, i \in DOMAIN accepted, NEW j, j \in DOMAIN accepted \/ j = Len(accepted) + 1
  PROVE  Between(i, j)' = Between(i, j)
<1> PICK n : i \in AcceptedOf(n)
  BY DEF AcceptedOf
<1>0. accepted[i].report.node = n
  BY DEF AcceptedOf
<1>1. /\ DOMAIN accepted = 1..Len(accepted) /\ Len(accepted) \in Nat
      /\ AcceptedOf(n) \subseteq 1..Len(accepted)
      /\ AcceptedOf(n)' = IF n = r.node THEN AcceptedOf(n) \cup {Len(accepted) + 1} ELSE AcceptedOf(n)
      /\ \A k \in AcceptedOf(n) : accepted'[k] = accepted[k]
      /\ accepted'[i] = accepted[i]
  BY AcceptedOfGrows DEF Recorded
<1>2. ASSUME NEW k
      PROVE  k \in Between(i, j) <=> k \in AcceptedOf(n) /\ i < k /\ k < j /\ accepted[k].won
  BY <1>0 DEF Between
<1>3. ASSUME NEW k
      PROVE  k \in Between(i, j)' <=> k \in AcceptedOf(n)' /\ i < k /\ k < j /\ accepted'[k].won
  BY <1>1, <1>0 DEF Between, AcceptedOf
<1>4. ~ (Len(accepted) + 1 < j)
  BY <1>1
<1> QED
  BY <1>1, <1>2, <1>3, <1>4

\* The list a winning commit writes.
LEMMA WrittenList ==
  ASSUME HBase, NoncesCurrent, NEW h \in Handlers, phase[h] = "decided",
         NEW n, n = job[h].request.report.node
  PROVE  /\ recentNonces[n] \in Seq(NonceEntry) /\ n \in Nodes
         /\ job[h].request.nonce \in Nonces /\ job[h].at \in Nat
         /\ ~ Replayed(recentNonces[n], job[h].request.nonce, job[h].at)
         /\ remembered[h] = NextNonces(recentNonces[n], job[h].request.nonce, job[h].at)
<1>1. job[h] \in Job
  BY DEF HBase, IInv, TypeOK
<1>2. n \in Nodes /\ job[h].request.nonce \in Nonces /\ job[h].at \in Nat
  BY <1>1, RequestsAssumption DEF Job, Request, Report
<1> QED
  BY <1>2 DEF HBase, NonceLists, NoncesCurrent

LEMMA WonRememberedCommit ==
  ASSUME NInv, NEW h \in Handlers, RecordCommit(h)
  PROVE  WonRemembered'
<1>0. HBase /\ TypeOK /\ NoncesCurrent /\ recentNonces \in [Nodes -> Seq(NonceEntry)]
      /\ accepted \in Seq(Entry)
  BY DEF NInv, HBase, IInv, NonceLists, AcceptedOK
<1>1. PICK r \in Report, row \in Row, x \in Entry :
        Recorded(h, r, row, x) /\ accepted' = Append(accepted, x) /\ phase[h] = "decided"
        /\ r.node \in Nodes
  BY <1>0, RecordEffect
<1> PICK L : IsLength(L)
  BY DEF IsLength
<1> DEFINE n == r.node
           next == NextNonces(recentNonces[n], x.request.nonce, x.at)
           new == [nonce |-> x.request.nonce, at |-> x.at]
<1>2. /\ L \in Nat /\ DOMAIN accepted = 1..L /\ DOMAIN accepted' = 1..(L + 1)
      /\ Len(accepted') = L + 1 /\ accepted'[L + 1] = x
      /\ \A i \in 1..L : accepted'[i] = accepted[i]
      /\ x.report = r /\ x.request = job[h].request /\ x.at = job[h].at
      /\ n = x.request.report.node
      /\ IF x.won THEN recentNonces' = [recentNonces EXCEPT ![n] = remembered[h]]
                  ELSE recentNonces' = recentNonces
  <2>1. DOMAIN accepted = 1..L /\ DOMAIN accepted' = 1..(L + 1)
    BY <1>0, <1>1, AcceptedOfGrows DEF IsLength
  <2> QED
    BY <1>1, <2>1 DEF Recorded, IsLength
<1>3. /\ recentNonces[n] \in Seq(NonceEntry) /\ x.request.nonce \in Nonces /\ x.at \in Nat
      /\ remembered[h] = next
  BY <1>0, <1>1, <1>2, WrittenList
<1>4. /\ Within(next, new, 0)
      /\ \A e, d : d \in Nat /\ Within(recentNonces[n], e, d) /\ x.at - e.at <= MaxAge /\ d + 1 < NonceLimit
           => Within(next, e, d + 1)
  BY <1>3, NextNoncesIs
<1>5. x.won => recentNonces'[n] = next
  BY <1>0, <1>1, <1>2, <1>3
<1>6. NonceLimit \in Nat /\ MaxAge \in Nat
  BY BoundsAssumption
<1> HIDE DEF next, new
<1> SUFFICES ASSUME NEW i \in 1..(L + 1), accepted'[i].won
             PROVE  LET later == Cardinality(Between(i, L + 2)') IN
                    \/ Within(recentNonces'[accepted'[i].report.node],
                              [nonce |-> accepted'[i].request.nonce, at |-> accepted'[i].at], later)
                    \/ later >= NonceLimit
                    \/ \E k \in 1..(L + 1) : i < k /\ accepted'[k].at - accepted'[i].at > MaxAge
  <2>1. Len(accepted') + 1 = L + 2
    BY <1>2
  <2> QED
    BY <1>2, <2>1 DEF WonRemembered, NonceOf
<1>7. CASE i = L + 1
  <2>1. Between(i, L + 2)' = {}
    BY <1>2, <1>7 DEF Between, AcceptedOf
  <2>2. Cardinality(Between(i, L + 2)') = 0
    BY <2>1, FS_EmptySet
  <2>3. accepted'[i] = x /\ x.won /\ recentNonces'[n] = next
    BY <1>2, <1>5, <1>7
  <2> QED
    BY <1>2, <1>4, <2>2, <2>3 DEF new
<1>8. CASE i # L + 1
  <2> DEFINE a == accepted[i]
             later == Cardinality(Between(i, L + 1))
  <2>1. i \in 1..L /\ accepted'[i] = a /\ a.won
    BY <1>2, <1>8
  <2>2. a \in Entry
    BY <1>0, <1>2, <2>1
  <2>3. a.at \in Nat /\ NonceOf(i).at = a.at /\ NonceOf(i) = [nonce |-> a.request.nonce, at |-> a.at]
    BY <2>2 DEF Entry, NonceOf
  <2>4. /\ later \in Nat /\ IsFiniteSet(Between(i, L + 1))
        /\ Between(i, L + 2)' =
              IF a.report.node = n /\ x.won THEN Between(i, L + 1) \cup {L + 1} ELSE Between(i, L + 1)
        /\ L + 1 \notin Between(i, L + 1)
    <3>1. PICK m : i \in AcceptedOf(m)
      BY <1>2, <2>1 DEF AcceptedOf
    <3>2. Recorded(h, r, row, x) /\ accepted' = Append(accepted, x)
      BY <1>1
    <3>4. /\ Between(i, L + 2)' =
               IF m = n /\ x.won THEN Between(i, L + 1) \cup {L + 1} ELSE Between(i, L + 1)
          /\ L + 1 \notin Between(i, L + 1)
      BY <1>0, <3>1, <3>2, BetweenGrows
    <3>5. a.report.node = m
      BY <3>1 DEF AcceptedOf
    <3> QED
      BY <1>0, <3>4, <3>5, BetweenFinite
  <2>5. \/ Within(recentNonces[a.report.node], NonceOf(i), later)
        \/ later >= NonceLimit
        \/ \E k \in 1..L : i < k /\ accepted[k].at - a.at > MaxAge
    BY <1>2, <2>1 DEF NInv, WonRemembered, IsLength
  <2>6. CASE \E k \in 1..L : i < k /\ accepted[k].at - a.at > MaxAge
    <3>1. PICK k \in 1..L : i < k /\ accepted[k].at - a.at > MaxAge
      BY <2>6
    <3>2. k \in 1..(L + 1) /\ accepted'[k] = accepted[k]
      BY <1>2
    <3> QED
      BY <2>1, <3>1, <3>2
  <2>7. CASE a.report.node = n /\ x.won
    <3>1. Cardinality(Between(i, L + 2)') = later + 1
      BY <2>4, <2>7, FS_AddElement
    <3>2. CASE later >= NonceLimit
      BY <1>6, <2>4, <3>1, <3>2
    <3>3. CASE Within(recentNonces[n], NonceOf(i), later) /\ x.at - a.at > MaxAge
      <4>1. L + 1 \in 1..(L + 1) /\ i < L + 1
        BY <1>2, <2>1
      <4> QED
        BY <1>2, <2>1, <3>3, <4>1
    <3>4. CASE Within(recentNonces[n], NonceOf(i), later) /\ x.at - a.at <= MaxAge
      <4>1. CASE later + 1 < NonceLimit
        <5>1. Within(next, NonceOf(i), later + 1)
          BY <1>4, <2>3, <2>4, <3>4, <4>1
        <5> QED
          BY <1>5, <2>1, <2>3, <2>7, <3>1, <5>1
      <4>2. CASE ~ (later + 1 < NonceLimit)
        BY <1>6, <2>4, <3>1, <4>2
      <4> QED
        BY <4>1, <4>2
    <3>5. x.at - a.at <= MaxAge \/ x.at - a.at > MaxAge
      BY <1>3, <1>6, <2>3
    <3> QED
      BY <2>5, <2>6, <2>7, <3>2, <3>3, <3>4, <3>5
  <2>8. CASE ~ (a.report.node = n /\ x.won)
    <3>1. Cardinality(Between(i, L + 2)') = later
      BY <2>4, <2>8
    <3>2. recentNonces'[a.report.node] = recentNonces[a.report.node]
      <4>1. a.report.node \in Nodes
        BY <2>2 DEF Entry, Report
      <4> QED
        BY <1>0, <1>2, <2>8, <4>1
    <3> QED
      BY <2>1, <2>3, <2>5, <2>6, <3>1, <3>2
  <2> QED
    BY <2>7, <2>8
<1> QED
  BY <1>7, <1>8

LEMMA ReplayRefusedCommit ==
  ASSUME NInv, NEW h \in Handlers, RecordCommit(h)
  PROVE  ReplayRefused'
<1>0. HBase /\ NoncesCurrent /\ TimesOrdered /\ accepted \in Seq(Entry)
  BY DEF NInv, HBase, AcceptedOK
<1>1. PICK r \in Report, row \in Row, x \in Entry :
        Recorded(h, r, row, x) /\ accepted' = Append(accepted, x) /\ phase[h] = "decided"
        /\ r.node \in Nodes
  BY <1>0, RecordEffect
<1> PICK L : IsLength(L)
  BY DEF IsLength
<1>2. /\ L \in Nat /\ DOMAIN accepted = 1..L /\ DOMAIN accepted' = 1..(L + 1)
      /\ accepted'[L + 1] = x
      /\ \A i \in 1..L : accepted'[i] = accepted[i]
      /\ x.report = r /\ x.request = job[h].request /\ x.at = job[h].at
      /\ r.node = x.request.report.node
  <2>1. DOMAIN accepted = 1..L /\ DOMAIN accepted' = 1..(L + 1)
    BY <1>0, <1>1, AcceptedOfGrows DEF IsLength
  <2> QED
    BY <1>1, <2>1 DEF Recorded, IsLength
<1> SUFFICES ASSUME NEW i \in 1..(L + 1), NEW j \in 1..(L + 1),
                    i < j, accepted'[i].won,
                    accepted'[i].request.report.node = accepted'[j].request.report.node,
                    accepted'[i].request.nonce = accepted'[j].request.nonce,
                    ~ (accepted'[j].at - accepted'[i].at > MaxAge)
             PROVE  Cardinality(Between(i, j)') >= NonceLimit
  BY <1>2 DEF ReplayRefused, Between
<1>3. i \in 1..L /\ accepted'[i] = accepted[i] /\ i \in DOMAIN accepted
  BY <1>2
<1>4. j \in DOMAIN accepted \/ j = Len(accepted) + 1
  BY <1>2 DEF IsLength
<1>5. Between(i, j)' = Between(i, j)
  BY <1>0, <1>1, <1>3, <1>4, BetweenStays
<1>6. CASE j \in 1..L
  BY <1>2, <1>3, <1>5, <1>6 DEF NInv, ReplayRefused, Between
<1>7. CASE j = L + 1
  <2> DEFINE a == accepted[i]
             later == Cardinality(Between(i, L + 1))
  <2>1. a \in Entry /\ (\A k \in 1..L : accepted[k].at \in Nat) /\ x.at \in Nat /\ MaxAge \in Nat
        /\ NonceLimit \in Nat
    <3>1. \A k \in 1..L : accepted[k] \in Entry
      BY <1>0, <1>2
    <3>2. x \in Entry
      BY <1>1
    <3> QED
      BY <1>3, <3>1, <3>2, BoundsAssumption DEF Entry
  <2>2. a.report.node = a.request.report.node
    BY <1>0, <1>3, AcceptedReport
  <2>3. a.report.node = r.node /\ a.request.nonce = x.request.nonce /\ x.at - a.at <= MaxAge
        /\ a.at \in Nat /\ a.won
    BY <1>2, <1>3, <1>7, <2>1, <2>2
  <2>4. \/ Within(recentNonces[r.node], NonceOf(i), later)
        \/ later >= NonceLimit
        \/ \E k \in 1..L : i < k /\ accepted[k].at - a.at > MaxAge
    BY <1>2, <1>3, <2>3 DEF NInv, WonRemembered, IsLength
  <2>5. later \in Nat
    BY <1>0, BetweenFinite
  <2>6. ASSUME NEW k \in 1..L, accepted[k].at - a.at > MaxAge PROVE FALSE
    <3>1. accepted[k].at <= x.at
      BY <1>0, <1>1, <1>2 DEF TimesOrdered
    <3>2. accepted[k].at \in Nat
      BY <2>1
    <3> HIDE DEF a
    <3> QED
      BY <2>1, <2>3, <2>6, <3>1, <3>2
  <2>7. ASSUME Within(recentNonces[r.node], NonceOf(i), later), later < NonceLimit PROVE FALSE
    <3>1. NonceOf(i).nonce = x.request.nonce /\ NonceOf(i).at = a.at
      BY <2>3 DEF NonceOf
    <3>2. recentNonces[r.node] \in Seq(NonceEntry)
          /\ ~ Replayed(recentNonces[r.node], x.request.nonce, x.at)
      BY <1>0, <1>1, <1>2, WrittenList
    <3>3. Replayed(recentNonces[r.node], NonceOf(i).nonce, x.at)
      BY <2>3, <2>5, <2>7, <3>1, <3>2, RememberedIsReplayed
    <3> QED
      BY <3>1, <3>2, <3>3
  <2>8. later >= NonceLimit
    BY <2>1, <2>4, <2>5, <2>6, <2>7
  <2> QED
    BY <1>5, <1>7, <2>8
<1> QED
  BY <1>2, <1>6, <1>7

LEMMA NInvStep == NInv /\ OneInvocation /\ [HistoryNext]_historyVars => NInv'
<1> SUFFICES ASSUME NInv, OneInvocation, [HistoryNext]_historyVars PROVE NInv'
  OBVIOUS
<1>1. HBase' /\ NoncesCurrent' /\ TimesOrdered'
  BY HBaseStep, NoncesCurrentStep, TimesOrderedStep DEF NInv
<1>2. CASE \E h \in Handlers : RecordCommit(h)
  BY <1>1, <1>2, WonRememberedCommit, ReplayRefusedCommit DEF NInv
<1>3. CASE UNCHANGED <<accepted, tableVars>>
  <2>1. accepted' = accepted /\ recentNonces' = recentNonces
    BY <1>3 DEF tableVars
  <2>2. \A i, j : Between(i, j)' = Between(i, j)
    BY <2>1 DEF Between, AcceptedOf
  <2>3. WonRemembered'
    BY <2>1, <2>2 DEF NInv, WonRemembered, NonceOf
  <2>4. ReplayRefused'
    BY <2>1 DEF NInv, ReplayRefused, AcceptedOf
  <2> QED
    BY <1>1, <2>3, <2>4 DEF NInv
<1> QED
  BY <1>2, <1>3, HistoryCases

LEMMA NInvInit == HistoryInit => NInv
<1> SUFFICES ASSUME HistoryInit PROVE NInv
  OBVIOUS
<1>1. HBase
  BY HBaseInit
<1>2. DOMAIN accepted = {} /\ \A h \in Handlers : phase[h] = "idle"
  BY DEF HistoryInit, Init
<1>3. NoncesCurrent /\ TimesOrdered /\ WonRemembered /\ ReplayRefused
  BY <1>2 DEF NoncesCurrent, TimesOrdered, WonRemembered, ReplayRefused
<1> QED
  BY <1>1, <1>3 DEF NInv

\* With one invocation at a time a request that became the card is refused when it
\* comes again inside its window, until NonceLimit reports have become the card since.
THEOREM ReplaysRefused == HistorySpec /\ OneInvocation => []ReplayRefused
<1>1. NInv => ReplayRefused
  BY DEF NInv
<1> QED
  BY <1>1, NInvInit, NInvStep, OneInvocationIsConstant, PTL DEF HistorySpec, OneInvocationStays
=============================================================================
