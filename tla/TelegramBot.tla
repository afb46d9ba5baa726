----------------------------- MODULE TelegramBot -----------------------------
(***************************************************************************)
(* The Telegram webhook (worker/src/telegram.ts) as concurrent invocations *)
(* of processTelegramWebhookUpdate, and the daily cleanup of its claims.   *)
(*                                                                         *)
(* Telegram is modelled from the outside: it delivers an update until one  *)
(* delivery is answered 200, for a day at most; when it waits no longer    *)
(* for an answer it delivers the update again although the first delivery  *)
(* may be at work; a message it was asked to send may arrive although the  *)
(* call fails.                                                             *)
(***************************************************************************)
EXTENDS Naturals

CONSTANTS
  Users, Updates, None,
  Message,      \* what each update is: [from, text]; every /bind has the right code
  Invocations,
  Day,          \* DAY_SECONDS: how long claims are kept, and updates at Telegram
  MaxNow,       \* end of time, for model checking
  MaxFaults     \* failed calls, lost answers and killed invocations (bound of the search)

Stages == {"owner", "claim", "bind", "handle", "send", "release", "answer", "fail"}
Job == [update : Updates, at : Stages, started : Nat, awaited : BOOLEAN]

ASSUME BotAssumption ==
  /\ Message \in [Updates -> [from : Users, text : {"bind", "panel", "status"}]]
  /\ {Day, MaxNow, MaxFaults} \subseteq Nat
  /\ None \notin Users \cup Nat \cup Job

VARIABLES
  now,
  owner,    \* settings: telegram_owner_user_id
  claims,   \* settings: telegram_webhook_update:<id>, with updated_at
  posted,   \* when each update was written
  inbox,    \* updates Telegram has no 200 for
  job,      \* the invocations of the webhook
  replies,  \* messages of the Bot that arrived, for each update
  faults,
  unsure,   \* updates one of whose answers arrived in a call that failed
  hurt      \* updates one of whose invocations was killed, could not tell whether it
            \* held the claim, could not release it, or was delivered again while at work

botVars == <<owner, claims, posted, inbox, job, replies>>
ghosts == <<faults, unsure, hurt>>
vars == <<now, botVars, ghosts>>

TypeOK ==
  /\ now \in 0..MaxNow
  /\ owner \in Users \cup {None}
  /\ claims \in [Updates -> 0..MaxNow \cup {None}]
  /\ posted \in [Updates -> 0..MaxNow \cup {None}]
  /\ inbox \subseteq Updates
  /\ job \in [Invocations -> Job \cup {None}]
  /\ replies \in [Updates -> Nat]
  /\ faults \in 0..MaxFaults
  /\ unsure \subseteq Updates /\ hurt \subseteq Updates

Init ==
  /\ now = 0
  /\ owner = None
  /\ claims = [u \in Updates |-> None]
  /\ posted = [u \in Updates |-> None]
  /\ inbox = {}
  /\ job = [i \in Invocations |-> None]
  /\ replies = [u \in Updates |-> 0]
  /\ faults = 0 /\ unsure = {} /\ hurt = {}

-----------------------------------------------------------------------------

From(u) == Message[u].from
Binding(u) == Message[u].text = "bind"
At(i, stage) == job[i] # None /\ job[i].at = stage
Goto(i, stage) == job' = [job EXCEPT ![i].at = stage]
Serving(u) == {i \in Invocations : job[i] # None /\ job[i].update = u}
Alive(u) == posted[u] # None /\ now <= posted[u] + Day

\* A call fails in the way the code has to expect.
Fault == faults < MaxFaults /\ faults' = faults + 1
NoFault == UNCHANGED ghosts

Post(u) ==
  /\ posted[u] = None
  /\ posted' = [posted EXCEPT ![u] = now]
  /\ inbox' = inbox \cup {u}
  /\ UNCHANGED <<now, owner, claims, job, replies, ghosts>>

\* Telegram waits for the invocation no more.
Unawaited(j) == [j EXCEPT !.awaited = FALSE]

\* The webhook's route, for the updates Telegram sends.  A second delivery beside the
\* first means that Telegram waits for the first no more.
Deliver(i, u) ==
  /\ u \in inbox /\ Alive(u) /\ job[i] = None
  /\ job' = [k \in Invocations |->
       IF k = i THEN [update |-> u, at |-> "owner", started |-> now, awaited |-> TRUE]
       ELSE IF k \in Serving(u) THEN Unawaited(job[k]) ELSE job[k]]
  /\ IF Serving(u) = {} THEN NoFault ELSE Fault /\ hurt' = hurt \cup {u} /\ UNCHANGED unsure
  /\ UNCHANGED <<now, owner, claims, posted, inbox, replies>>

\* resolveTelegramOwnerUserId and the checks that follow: a command of the owner, or
\* a binding while there is no owner; everything else is ignored.
ReadOwner(i) ==
  LET u == job[i].update IN
  /\ At(i, "owner")
  /\ \/ Goto(i, IF owner = (IF Binding(u) THEN None ELSE From(u)) THEN "claim" ELSE "answer") /\ NoFault
     \/ Goto(i, "fail") /\ Fault /\ UNCHANGED <<unsure, hurt>>
  /\ UNCHANGED <<now, owner, claims, posted, inbox, replies>>

\* Mutant: the update is processed also when it is claimed already.
ClaimAnyway(i) ==
  LET u == job[i].update IN
  /\ At(i, "claim")
  /\ claims' = [claims EXCEPT ![u] = job[i].started]
  /\ Goto(i, IF Binding(u) THEN "bind" ELSE "handle")
  /\ NoFault
  /\ UNCHANGED <<now, owner, posted, inbox, replies>>

\* Mutant: the row has the time it may be removed.
ClaimUntil(i) ==
  LET u == job[i].update IN
  /\ At(i, "claim")
  /\ claims' = [claims EXCEPT ![u] = IF @ = None THEN job[i].started + Day ELSE @]
  /\ Goto(i, IF claims[u] # None THEN "answer" ELSE IF Binding(u) THEN "bind" ELSE "handle")
  /\ NoFault
  /\ UNCHANGED <<now, owner, posted, inbox, replies>>

\* claimTelegramUpdate; a claimed update is a duplicate.  It is outside the code's try:
\* when the call fails, nobody releases a claim that was written nevertheless.
Claim(i) ==
  LET u == job[i].update IN
  /\ At(i, "claim")
  /\ \/ /\ claims[u] = None
        /\ claims' = [claims EXCEPT ![u] = job[i].started]
        /\ \/ Goto(i, IF Binding(u) THEN "bind" ELSE "handle") /\ NoFault
           \/ Goto(i, "fail") /\ Fault /\ hurt' = hurt \cup {u} /\ UNCHANGED unsure
     \/ claims[u] # None /\ Goto(i, "answer") /\ NoFault /\ UNCHANGED claims
     \/ Goto(i, "fail") /\ Fault /\ UNCHANGED <<claims, unsure, hurt>>
  /\ UNCHANGED <<now, owner, posted, inbox, replies>>

\* Mutant: the last one to bind is the owner.
BindOver(i) ==
  /\ At(i, "bind")
  /\ owner' = From(job[i].update)
  /\ Goto(i, "send") /\ NoFault
  /\ UNCHANGED <<now, claims, posted, inbox, replies>>

\* bindTelegramOwner: the first one wins, the others are ignored and stay claimed.
Bind(i) ==
  LET user == From(job[i].update) IN
  /\ At(i, "bind")
  /\ owner' = IF owner = None THEN user ELSE owner
  /\ \/ Goto(i, IF owner' = user THEN "send" ELSE "answer") /\ NoFault
     \/ Goto(i, "release") /\ Fault /\ UNCHANGED <<unsure, hurt>>
  /\ UNCHANGED <<now, claims, posted, inbox, replies>>

\* telegramCommandMessage: the status read from D1, the help, or a login link, whose
\* token is DashboardLogin's; when it fails the text says so.
Handle(i) ==
  /\ At(i, "handle") /\ Goto(i, "send")
  /\ UNCHANGED <<now, owner, claims, posted, inbox, replies, ghosts>>

Arrive(i) == replies' = [replies EXCEPT ![job[i].update] = @ + 1]

\* sendTelegramToChat; an error releases the claim, also when the message arrived.
Send(i) ==
  LET u == job[i].update IN
  /\ At(i, "send")
  /\ \/ Arrive(i) /\ Goto(i, "answer") /\ NoFault
     \/ Fault /\ Goto(i, "release") /\ UNCHANGED <<replies, unsure, hurt>>
     \/ Fault /\ Goto(i, "release") /\ Arrive(i) /\ unsure' = unsure \cup {u} /\ UNCHANGED hurt
  /\ UNCHANGED <<now, owner, claims, posted, inbox>>

\* Mutant: the claim is kept.
ReleaseNothing(i) ==
  /\ At(i, "release") /\ Goto(i, "fail") /\ NoFault
  /\ UNCHANGED <<now, owner, claims, posted, inbox, replies>>

\* releaseTelegramUpdate; the error is thrown on.
Release(i) ==
  LET u == job[i].update IN
  /\ At(i, "release") /\ Goto(i, "fail")
  /\ \/ claims' = [claims EXCEPT ![u] = None] /\ NoFault
     \/ Fault /\ hurt' = hurt \cup {u} /\ UNCHANGED <<claims, unsure>>
  /\ UNCHANGED <<now, owner, posted, inbox, replies>>

\* 200, or 502; Telegram may have stopped waiting, or the answer is lost.
Answer(i) ==
  LET u == job[i].update IN
  /\ At(i, "answer") \/ At(i, "fail")
  /\ job' = [job EXCEPT ![i] = None]
  /\ \/ inbox' = (IF At(i, "answer") /\ job[i].awaited THEN inbox \ {u} ELSE inbox) /\ NoFault
     \/ Fault /\ UNCHANGED <<inbox, unsure, hurt>>
  /\ UNCHANGED <<now, owner, claims, posted, replies>>

\* The invocation is killed between two of its calls.
Evict(i) ==
  /\ job[i] # None /\ Fault
  /\ job' = [job EXCEPT ![i] = None]
  /\ hurt' = hurt \cup {job[i].update}
  /\ UNCHANGED <<now, owner, claims, posted, inbox, replies, unsure>>

-----------------------------------------------------------------------------

\* Telegram gives an update up after a day.
Expire(u) ==
  /\ u \in inbox /\ ~ Alive(u) /\ Serving(u) = {}
  /\ inbox' = inbox \ {u}
  /\ UNCHANGED <<now, owner, claims, posted, job, replies, ghosts>>

\* The daily cleanup.
Cleanup ==
  /\ claims' = [u \in Updates |->
       IF claims[u] # None /\ claims[u] + Day < now THEN None ELSE claims[u]]
  /\ UNCHANGED <<now, owner, posted, inbox, job, replies, ghosts>>

\* A request is over within the unit of time.
Tick ==
  /\ now < MaxNow
  /\ \A i \in Invocations : job[i] = None
  /\ now' = now + 1
  /\ UNCHANGED <<botVars, ghosts>>

Serve(i) ==
  ReadOwner(i) \/ Claim(i) \/ Bind(i) \/ Handle(i) \/ Send(i) \/ Release(i) \/ Answer(i)

Next ==
  \/ \E u \in Updates : Post(u) \/ Expire(u)
  \/ \E i \in Invocations :
       \/ \E u \in Updates : Deliver(i, u)
       \/ Serve(i) \/ Evict(i)
  \/ Cleanup \/ Tick

Spec == Init /\ [][Next]_vars

\* Invocations run on; Telegram delivers what it has no answer for.
Fairness ==
  /\ \A i \in Invocations : WF_vars(Serve(i))
  /\ \A u \in Updates : WF_vars(Serving(u) = {} /\ \E i \in Invocations : Deliver(i, u))

LiveSpec == Spec /\ Fairness

-----------------------------------------------------------------------------
(***************************************************************************)
(* Properties.                                                             *)
(***************************************************************************)

\* There is one owner for ever, however many users send the code at the same time, and
\* nobody else is ever answered (architecture.md: "Only the bound owner's private chat
\* is accepted").
OnlyOwnerServed == \A u \in Updates : replies[u] > 0 => From(u) = owner

\* An update that Telegram delivers again and again is answered once, although its
\* claim is released after an error and removed after a day; twice only if an answer
\* arrived whose call failed.
AnsweredOnce == \A u \in Updates : replies[u] <= 1 \/ u \in unsure

\* A command of the owner is answered after any number of failed deliveries, unless an
\* invocation left it claimed or was still at work when Telegram tried again.
CommandAnswered ==
  \A u \in Updates :
    u \in inbox /\ owner = From(u) /\ ~ Binding(u) /\ Serving(u) = {}
      ~> replies[u] > 0 \/ u \in hurt \/ ~ Alive(u)
=============================================================================
