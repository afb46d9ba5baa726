--------------------------- MODULE ReportDelivery ---------------------------
(***************************************************************************)
(* One Agent, its spool file and the Worker's report path (ReportIngest),  *)
(* joined by a network that loses and delays requests and answers.         *)
(*                                                                         *)
(* Agent: runOnce of agent/cmd/vpsmon-agent/main.go with internal/sender   *)
(* and internal/spool.  The process may be killed at any point; systemd    *)
(* starts it again.  Reading, writing, renaming and removing pending.json  *)
(* may fail.                                                               *)
(*                                                                         *)
(* The unit of time is the report interval.  A cycle never outlasts it     *)
(* (runOnce is cut off after 25 s, the interval is at least 30 s), but     *)
(* requests may linger in the network and in the Worker for longer.        *)
(***************************************************************************)
EXTENDS ReportIngest

CONSTANTS
  Self,      \* the node this Agent runs on
  Collected, \* the reports it can collect, at most one per time
  Secret,    \* the secret of its configuration
  MaxSends   \* bound on the requests it makes, for model checking

VARIABLES
  agent,     \* what the process is doing
  pending,   \* the report in pending.json, None without the file
  current,   \* the report collected in this cycle, held in memory
  cycleAt,   \* time of the last cycle started
  sends,     \* requests made so far; the number of one is its nonce
  wire,      \* requests the Worker has not received yet
  acks,      \* the request being waited for, once it is answered 202
  done,      \* time of the newest report whose cycle ran to its end
  healthy    \* from now on nothing is lost, late or killed

agentVars == <<agent, pending, current, cycleAt, sends, wire, acks, done, healthy>>
deliveryVars == <<vars, agentVars>>

ASSUME DeliveryAssumption ==
  /\ Self \in Nodes /\ Secret \in Secrets /\ MaxSends \in Nat
  /\ Collected \subseteq Report
  /\ \A r \in Collected : r.node = Self
  /\ None \notin Collected
  /\ \A r \in Collected, t \in 0..MaxNow, k \in 1..MaxSends :
       [report |-> r, secret |-> Secret, timestamp |-> t, nonce |-> k, source |-> None]
         \in Requests

-----------------------------------------------------------------------------

\* Mutant: the nonce is that of the report, so a retry repeats it.
ReportNonceRequest(report) ==
  [report |-> report, secret |-> Secret, timestamp |-> now, nonce |-> report.gen, source |-> None]

\* Send: every attempt has a fresh nonce and the time of the attempt.
NewRequest(report) ==
  [report |-> report, secret |-> Secret, timestamp |-> now, nonce |-> sends + 1, source |-> None]

Post(report) ==
  /\ sends < MaxSends
  /\ sends' = sends + 1
  /\ wire' = wire \cup {NewRequest(report)}
  /\ acks' = {}

\* The request being waited for is the last one made.
Acked == sends \in acks

\* Send returns an error: a refusal, a lost connection or the client timeout.
\* Without trouble it can only be that no answer will come any more.
SendFails ==
  \/ ~ healthy
  \/ /\ ~ Acked
     /\ \A q \in wire : q.nonce # sends
     /\ \A h \in Handlers : phase[h] # "idle" => job[h].request.nonce # sends

\* Removing pending.json; a failure is logged or ignored.
Delete == pending' = None \/ (~ healthy /\ pending' = pending)

DeliveryInit ==
  /\ Init
  /\ agent = "idle" /\ pending = None /\ current = None
  /\ cycleAt = 0 /\ sends = 0 /\ wire = {} /\ acks = {} /\ done = 0
  /\ healthy = FALSE

\* A cycle starts with the pending report, when there is one and it can be read.
StartCycle ==
  /\ agent = "idle" /\ cycleAt < now
  /\ cycleAt' = now
  /\ \/ /\ pending # None
        /\ Post(pending)
        /\ agent' = "resending"
     \/ /\ pending = None \/ ~ healthy
        /\ agent' = "collecting"
        /\ UNCHANGED <<sends, wire, acks>>
  /\ UNCHANGED <<vars, pending, current, done, healthy>>

\* Mutant: the pending report is removed however sending it ended.
EndResendForgetting ==
  /\ agent = "resending"
  /\ (Acked \/ SendFails) /\ Delete
  /\ agent' = "collecting"
  /\ UNCHANGED <<vars, current, cycleAt, sends, wire, acks, done, healthy>>

\* Mutant: the cycle ends when the pending report cannot be sent.
EndResendGivingUp ==
  /\ agent = "resending"
  /\ \/ Acked /\ Delete /\ agent' = "collecting"
     \/ SendFails /\ UNCHANGED pending /\ agent' = "idle"
  /\ UNCHANGED <<vars, current, cycleAt, sends, wire, acks, done, healthy>>

\* Whatever became of the pending report, the cycle goes on.
EndResend ==
  /\ agent = "resending"
  /\ \/ Acked /\ Delete
     \/ SendFails /\ UNCHANGED pending
  /\ agent' = "collecting"
  /\ UNCHANGED <<vars, current, cycleAt, sends, wire, acks, done, healthy>>

Collect ==
  /\ agent = "collecting"
  /\ \E r \in Collected :
       /\ r.gen = now
       /\ current' = r
       /\ Post(r)
  /\ agent' = "sending"
  /\ UNCHANGED <<vars, pending, cycleAt, done, healthy>>

\* The current report is delivered, or it replaces the pending one.  A report
\* that can be neither sent nor saved is lost; the older pending one stays.
EndSend ==
  /\ agent = "sending"
  /\ \/ Acked /\ Delete /\ done' = current.gen
     \/ SendFails /\ pending' = current /\ done' = current.gen
     \/ SendFails /\ ~ healthy /\ UNCHANGED <<pending, done>>
  /\ agent' = "idle"
  /\ current' = None
  /\ UNCHANGED <<vars, cycleAt, sends, wire, acks, healthy>>

\* The process is killed, or the host goes down.
Crash ==
  /\ ~ healthy /\ agent # "down"
  /\ agent' = "down"
  /\ current' = None
  /\ UNCHANGED <<vars, pending, cycleAt, sends, wire, acks, done, healthy>>

\* The first cycle of a new process starts at once.
Restart ==
  /\ agent = "down"
  /\ agent' = "idle"
  /\ UNCHANGED <<vars, pending, current, cycleAt, sends, wire, acks, done, healthy>>

Deliver(h, q) ==
  /\ q \in wire
  /\ Authenticate(h, q)
  /\ wire' = wire \ {q}
  /\ UNCHANGED <<agent, pending, current, cycleAt, sends, acks, done, healthy>>

\* Lost on the way, or refused by the Worker's first checks.
Drop(q) ==
  /\ q \in wire
  /\ ~ healthy \/ ~ Authentic(q)
  /\ wire' = wire \ {q}
  /\ UNCHANGED <<vars, agent, pending, current, cycleAt, sends, acks, done, healthy>>

\* The handler answers 202 once its batch is committed; an answer to a request that
\* was given up finds no one.
CommitAndAnswer(h) ==
  /\ Commit(h)
  /\ acks' = (acks \cup {job[h].request.nonce}) \cap {sends}
  /\ UNCHANGED <<agent, pending, current, cycleAt, sends, wire, done, healthy>>

Serve(h) ==
  \/ CommitAndAnswer(h)
  \/ (ReadPrior(h) \/ RefuseReplay(h) \/ (~ healthy /\ Fail(h))) /\ UNCHANGED agentVars

\* Time passes.  Without trouble a cycle ends within its interval.
Wait ==
  /\ healthy => agent = "idle" /\ cycleAt = now
  /\ Tick
  /\ UNCHANGED agentVars

\* The trouble ends while there is time for one more cycle.
Heal ==
  /\ ~ healthy /\ now < MaxNow
  /\ healthy' = TRUE
  /\ UNCHANGED <<vars, agent, pending, current, cycleAt, sends, wire, acks, done>>

DeliveryNext ==
  \/ StartCycle \/ EndResend \/ Collect \/ EndSend
  \/ Crash \/ Restart \/ Wait \/ Heal
  \/ \E h \in Handlers : Serve(h) \/ \E q \in wire : Deliver(h, q)
  \/ \E q \in wire : Drop(q)

DeliverySpec == DeliveryInit /\ [][DeliveryNext]_deliveryVars

\* The ticker of main, systemd's Restart, the network and the Worker's runtime
\* keep going.
Fairness ==
  /\ WF_deliveryVars(StartCycle \/ EndResend \/ Collect \/ EndSend \/ Restart)
  /\ WF_deliveryVars(\E q \in wire : Drop(q) \/ \E h \in Handlers : Deliver(h, q))
  /\ WF_deliveryVars(\E h \in Handlers : Serve(h))
  /\ WF_deliveryVars(Wait)

LiveDeliverySpec == DeliverySpec /\ Fairness

-----------------------------------------------------------------------------
(***************************************************************************)
(* Properties.                                                             *)
(***************************************************************************)

\* The newest report whose cycle has ended is on the card or in the spool, or
\* has been superseded by a newer one there: no crash, failed removal or lost
\* answer leaves only an older one.
NewestSurvives ==
  done # 0 => \/ latest[Self] # None /\ latest[Self].report.gen >= done
              \/ pending # None /\ pending.gen >= done

\* The Worker takes none of the Agent's retries for a replay: a resent report
\* may repeat everything but the nonce.
RetryIsNoReplay ==
  \A h \in Handlers : phase[h] = "authenticated" =>
    ~ Replayed(recentNonces[Self], job[h].request.nonce, job[h].at)

\* Once the trouble is over the spool is emptied, also of a report too old to
\* be accepted any more, and the card shows the newest report.
RecoversFromTrouble ==
  healthy ~> /\ agent = "idle" /\ pending = None
             /\ latest[Self] # None /\ latest[Self].report.gen = now
=============================================================================
