---------------------------- MODULE ReportHistory ----------------------------
(***************************************************************************)
(* ReportIngest with a record of the reports accepted so far, to state     *)
(* what the tables of a node say about its past.                           *)
(*                                                                         *)
(* The properties are those of one invocation at a time, which is how an   *)
(* Agent talks to the Worker as long as no answer is slower than its       *)
(* client timeout.  Requests still arrive late, out of order and again.    *)
(***************************************************************************)
EXTENDS ReportIngest

CONSTANT MaxAccepted  \* bound on the commits of a behaviour, for model checking

VARIABLE accepted     \* the commits so far: [request, report, at, won]

historyVars == <<vars, accepted>>

HistoryInit == Init /\ accepted = <<>>

\* Commit of invocation h, recorded; won says whether it became the card.
RecordCommit(h) ==
  LET q == job[h].request
      r == Visible(q.report, job[h].keys)
  IN  /\ Len(accepted) < MaxAccepted
      /\ Commit(h)
      /\ accepted' = Append(accepted,
           [request |-> q, report |-> r, at |-> job[h].at, won |-> Supersedes(r, latest[r.node])])

HistoryNext ==
  \/ \E h \in Handlers : RecordCommit(h)
  \/ /\ \/ \E h \in Handlers, q \in Requests : Authenticate(h, q)
        \/ \E h \in Handlers : ReadPrior(h) \/ RefuseReplay(h) \/ Fail(h)
        \/ \E inventory \in Inventories : Publish(inventory)
        \/ Tick
     /\ UNCHANGED accepted

HistorySpec == HistoryInit /\ [][HistoryNext]_historyVars

-----------------------------------------------------------------------------
(***************************************************************************)
(* Properties.                                                             *)
(***************************************************************************)

AcceptedOf(n) == {i \in DOMAIN accepted : accepted[i].report.node = n}

\* The first report of a node.
Earliest(n) == accepted[CHOOSE i \in AcceptedOf(n) : \A j \in AcceptedOf(n) : i <= j].report

\* The event list of a node about a subject, and its newest entry.
Log(n, type, subject) == {e \in events : e.node = n /\ e.type = type /\ e.subject = subject}
Newest(log) == CHOOSE e \in log : \A f \in log : f.at <= e.at

\* Replaying the event list from what was brings what is.
Explained(n, type, subject, was, is) ==
  is = IF Log(n, type, subject) = {} THEN was ELSE Newest(Log(n, type, subject)).value

\* A report that was the card did not name the service.
LeftOut(n, s) == \E i \in AcceptedOf(n) : accepted[i].won /\ accepted[i].report.services[s] = None

\* Replaying the event list from the first report gives the state on the card:
\* no change of state is missing from the list, and none is listed that a later
\* report has undone unseen.  Late reports and retries leave this so.  One change is
\* not listed: a service that a report has left out comes back as "unknown", which is
\* what the comparison takes a missing state for.
EventsExplainCard ==
  \A n \in Nodes : latest[n] # None =>
    LET was == Earliest(n)
        is  == latest[n].report
    IN  /\ \A m \in Marks : Explained(n, m, m, was.marks[m], is.marks[m])
        /\ \A s \in Services : is.services[s] # None =>
             \/ Explained(n, "service_state", s, was.services[s], is.services[s])
             \/ is.services[s] = "unknown" /\ LeftOut(n, s)

\* A request that became the card is answered 409 when it is delivered again
\* within the age window, until NonceLimit further reports have become the card.
ReplayRefused ==
  \A i, j \in DOMAIN accepted :
    /\ i < j /\ accepted[i].won
    /\ accepted[i].request.report.node = accepted[j].request.report.node
    /\ accepted[i].request.nonce = accepted[j].request.nonce
    => \/ accepted[j].at - accepted[i].at > MaxAge
       \/ Cardinality({k \in AcceptedOf(accepted[i].report.node) :
             i < k /\ k < j /\ accepted[k].won}) >= NonceLimit

\* The card of a node shows the newest probe round that it ever showed.
RoundNotLost(n) ==
  \A i \in AcceptedOf(n) : accepted[i].won =>
    RoundAt(accepted[i].report) <= RoundAt(latest[n].report)

\* A retry of a report already accepted adds nothing to the history, whatever was
\* accepted in between: no sample and no event, and no probe round either unless the
\* card has gone back to an older round, as it does when a probe is taken away.  Then
\* a round that was not newer than the card's, and was left out, comes in after all.
RetryAddsNothing ==
  [][\A h \in Handlers :
       LET r == Visible(job[h].request.report, job[h].keys) IN
       RecordCommit(h) /\ (\E i \in DOMAIN accepted : accepted[i].report = r)
       => /\ UNCHANGED <<samples, events>>
          /\ RoundNotLost(r.node) => UNCHANGED rounds]_historyVars

\* A card shows no rate only when the boot, the interfaces, the counter or the
\* collection give no base for one (monitoring-methodology.md, section 12): if
\* its report, when first accepted, had a predecessor in the history, the two
\* could not be compared.
BlankRateHasCause ==
  \A n \in Nodes : latest[n] # None /\ latest[n].rate = None =>
    LET arrived == CHOOSE i \in AcceptedOf(n) :
                     /\ accepted[i].report.gen = latest[n].report.gen
                     /\ \A j \in 1..(i - 1) : accepted[j].report.gen # latest[n].report.gen
        before  == {accepted[i].report : i \in AcceptedOf(n) \cap 1..(arrived - 1)}
    IN  before # {} =>
          \E r \in before : /\ \A o \in before : o.gen <= r.gen
                            /\ ~ Comparable(latest[n].report, r)
=============================================================================
