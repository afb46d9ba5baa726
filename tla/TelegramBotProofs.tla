-------------------------- MODULE TelegramBotProofs --------------------------
(***************************************************************************)
(* Theorems of TelegramBot for every number of users, updates and          *)
(* invocations and every bound: types, one owner, one answer.              *)
(***************************************************************************)
EXTENDS TelegramBot, TLAPS

\* An invocation between its claim and the end of its work holds the claim.
Holds(i) == job[i] # None /\ job[i].at \in {"bind", "handle", "send", "release"}

\* Who is served has been compared with the owner before, and the owner never changes.
OwnerChecked ==
  \A i \in Invocations : job[i] # None =>
    /\ job[i].at \in {"handle", "send"} => From(job[i].update) = owner
    /\ job[i].at = "claim" /\ ~ Binding(job[i].update) => From(job[i].update) = owner

\* Invocations serve what was posted at most a day ago, within one unit of time.
JobsAreFresh ==
  /\ \A u \in Updates : posted[u] # None => posted[u] <= now
  /\ \A i \in Invocations : job[i] # None => job[i].started = now /\ Alive(job[i].update)

\* A claim is as old as the work under it, and of one invocation.
ClaimsHeld ==
  /\ \A i \in Invocations : Holds(i) => claims[job[i].update] = now
  /\ \A i, k \in Invocations : Holds(i) /\ Holds(k) /\ job[i].update = job[k].update => i = k

ClaimsFollow ==
  \A u \in Updates : claims[u] # None => posted[u] # None /\ posted[u] <= claims[u]

\* What has been answered stays claimed for as long as Telegram may deliver it again.
AnswersClaimed ==
  \A u \in Updates : replies[u] > 0 =>
    /\ posted[u] # None
    /\ u \in unsure \/ (/\ claims[u] # None \/ ~ Alive(u)
                        /\ \A i \in Invocations : Holds(i) => job[i].update # u)

IInv ==
  /\ TypeOK /\ OnlyOwnerServed /\ OwnerChecked
  /\ JobsAreFresh /\ ClaimsHeld /\ ClaimsFollow /\ AnswersClaimed /\ AnsweredOnce

-----------------------------------------------------------------------------

LEMMA InitInv == Init => IInv
<1> SUFFICES ASSUME Init PROVE IInv
  OBVIOUS
<1> USE BotAssumption
<1>1. TypeOK
  BY DEF Init, TypeOK
<1> QED
  BY <1>1 DEF Init, IInv, OnlyOwnerServed, OwnerChecked, JobsAreFresh, ClaimsHeld, ClaimsFollow,
     AnswersClaimed, AnsweredOnce, Holds

\* The update of an invocation and its sender.
LEMMA JobFacts ==
  ASSUME TypeOK, NEW i \in Invocations, job[i] # None
  PROVE  job[i] \in Job /\ job[i].update \in Updates /\ From(job[i].update) \in Users
  BY BotAssumption DEF TypeOK, Job, From

\* A step of one invocation to another stage.
LEMMA GotoFacts ==
  ASSUME TypeOK, NEW i \in Invocations, job[i] # None, NEW stage \in Stages, Goto(i, stage)
  PROVE  /\ job' \in [Invocations -> Job \cup {None}]
         /\ \A k \in Invocations \ {i} : job'[k] = job[k]
         /\ job'[i] # None /\ job'[i].at = stage
         /\ job'[i].update = job[i].update /\ job'[i].started = job[i].started
<1>1. job' = [job EXCEPT ![i] = [job[i] EXCEPT !.at = stage]] /\ job[i] \in Job
  BY JobFacts DEF Goto, TypeOK
<1>2. [job[i] EXCEPT !.at = stage] \in Job
  BY <1>1 DEF Job
<1> QED
  BY <1>1, <1>2, BotAssumption DEF TypeOK, Job

LEMMA UnawaitedFacts ==
  ASSUME TypeOK, NEW k \in Invocations, job[k] # None
  PROVE  /\ Unawaited(job[k]) \in Job
         /\ \A j : j = Unawaited(job[k]) =>
              j.at = job[k].at /\ j.update = job[k].update /\ j.started = job[k].started
BY JobFacts DEF Unawaited, Job

-----------------------------------------------------------------------------
(***************************************************************************)
(* Types.                                                                  *)
(***************************************************************************)

LEMMA FaultsType ==
  ASSUME TypeOK, (Fault /\ unsure' \subseteq Updates /\ hurt' \subseteq Updates) \/ NoFault
  PROVE  faults' \in 0..MaxFaults /\ unsure' \subseteq Updates /\ hurt' \subseteq Updates
BY BotAssumption DEF TypeOK, Fault, NoFault, ghosts

\* The types, given that invocations are of now.
LEMMA TypeStep == TypeOK /\ JobsAreFresh /\ [Next]_vars => TypeOK'
<1> SUFFICES ASSUME TypeOK, JobsAreFresh, [Next]_vars PROVE TypeOK'
  OBVIOUS
<1> USE DEF TypeOK
<1>1. ASSUME NEW u \in Updates, Post(u) PROVE TypeOK'
  BY <1>1 DEF Post, ghosts
<1>2. ASSUME NEW u \in Updates, Expire(u) PROVE TypeOK'
  BY <1>2 DEF Expire, ghosts
<1>3. ASSUME NEW i \in Invocations, NEW u \in Updates, Deliver(i, u) PROVE TypeOK'
  <2>1. [update |-> u, at |-> "owner", started |-> now, awaited |-> TRUE] \in Job
    BY BotAssumption DEF Job, Stages
  <2>2. \A k \in Serving(u) : Unawaited(job[k]) \in Job
    BY UnawaitedFacts DEF Serving
  <2>3. job' \in [Invocations -> Job \cup {None}]
    BY <1>3, <2>1, <2>2 DEF Deliver
  <2>4. faults' \in 0..MaxFaults /\ unsure' \subseteq Updates /\ hurt' \subseteq Updates
    BY <1>3, FaultsType DEF Deliver, NoFault, ghosts
  <2> QED
    BY <1>3, <2>3, <2>4 DEF Deliver
<1>4. ASSUME NEW i \in Invocations, ReadOwner(i) PROVE TypeOK'
  <2>1. job' \in [Invocations -> Job \cup {None}]
    BY <1>4, GotoFacts DEF ReadOwner, At, Stages
  <2>2. faults' \in 0..MaxFaults /\ unsure' \subseteq Updates /\ hurt' \subseteq Updates
    BY <1>4, FaultsType DEF ReadOwner, NoFault, ghosts
  <2> QED
    BY <1>4, <2>1, <2>2 DEF ReadOwner
<1>5. ASSUME NEW i \in Invocations, Claim(i) PROVE TypeOK'
  <2>1. job[i] \in Job /\ job[i].update \in Updates
    BY <1>5, JobFacts DEF Claim, At
  <2>2. job' \in [Invocations -> Job \cup {None}]
    BY <1>5, GotoFacts DEF Claim, At, Stages
  <2>3. faults' \in 0..MaxFaults /\ unsure' \subseteq Updates /\ hurt' \subseteq Updates
    BY <1>5, <2>1, FaultsType DEF Claim, NoFault, ghosts
  <2>4. job[i].started \in 0..MaxNow
    BY <1>5 DEF Claim, At, JobsAreFresh
  <2>5. claims' \in [Updates -> 0..MaxNow \cup {None}]
    BY <1>5, <2>1, <2>4 DEF Claim
  <2> QED
    BY <1>5, <2>2, <2>3, <2>5 DEF Claim
<1>6. ASSUME NEW i \in Invocations, Bind(i) PROVE TypeOK'
  <2>1. From(job[i].update) \in Users
    BY <1>6, JobFacts DEF Bind, At
  <2>2. job' \in [Invocations -> Job \cup {None}]
    BY <1>6, GotoFacts DEF Bind, At, Stages
  <2>3. faults' \in 0..MaxFaults /\ unsure' \subseteq Updates /\ hurt' \subseteq Updates
    BY <1>6, FaultsType DEF Bind, NoFault, ghosts
  <2>4. owner' \in Users \cup {None}
    BY <1>6, <2>1 DEF Bind
  <2> QED
    BY <1>6, <2>2, <2>3, <2>4 DEF Bind
<1>7. ASSUME NEW i \in Invocations, Handle(i) PROVE TypeOK'
  <2>1. job' \in [Invocations -> Job \cup {None}]
    BY <1>7, GotoFacts DEF Handle, At, Stages
  <2> QED
    BY <1>7, <2>1 DEF Handle, ghosts
<1>8. ASSUME NEW i \in Invocations, Send(i) PROVE TypeOK'
  <2>1. job[i].update \in Updates
    BY <1>8, JobFacts DEF Send, At
  <2>2. job' \in [Invocations -> Job \cup {None}]
    BY <1>8, GotoFacts DEF Send, At, Stages
  <2>3. faults' \in 0..MaxFaults /\ unsure' \subseteq Updates /\ hurt' \subseteq Updates
    BY <1>8, <2>1, FaultsType DEF Send, NoFault, ghosts
  <2>4. replies' \in [Updates -> Nat]
    BY <1>8, <2>1 DEF Send, Arrive
  <2> QED
    BY <1>8, <2>2, <2>3, <2>4 DEF Send
<1>9. ASSUME NEW i \in Invocations, Release(i) PROVE TypeOK'
  <2>1. job[i].update \in Updates
    BY <1>9, JobFacts DEF Release, At
  <2>2. job' \in [Invocations -> Job \cup {None}]
    BY <1>9, GotoFacts DEF Release, At, Stages
  <2>3. faults' \in 0..MaxFaults /\ unsure' \subseteq Updates /\ hurt' \subseteq Updates
    BY <1>9, <2>1, FaultsType DEF Release, NoFault, ghosts
  <2> QED
    BY <1>9, <2>2, <2>3 DEF Release
<1>10. ASSUME NEW i \in Invocations, Answer(i) PROVE TypeOK'
  <2>1. faults' \in 0..MaxFaults /\ unsure' \subseteq Updates /\ hurt' \subseteq Updates
    BY <1>10, FaultsType DEF Answer, NoFault, ghosts
  <2>2. inbox' \subseteq Updates
    BY <1>10 DEF Answer
  <2>3. job' \in [Invocations -> Job \cup {None}]
    BY <1>10 DEF Answer
  <2> QED
    BY <1>10, <2>1, <2>2, <2>3 DEF Answer
<1>11. ASSUME NEW i \in Invocations, Evict(i) PROVE TypeOK'
  <2>1. job[i].update \in Updates
    BY <1>11, JobFacts DEF Evict
  <2>2. faults' \in 0..MaxFaults /\ unsure' \subseteq Updates /\ hurt' \subseteq Updates
    BY <1>11, <2>1, FaultsType DEF Evict
  <2>3. job' \in [Invocations -> Job \cup {None}]
    BY <1>11 DEF Evict
  <2> QED
    BY <1>11, <2>2, <2>3 DEF Evict
<1>12. CASE Cleanup
  BY <1>12 DEF Cleanup, ghosts
<1>13. CASE Tick
  BY <1>13, BotAssumption DEF Tick, botVars, ghosts
<1>14. CASE UNCHANGED vars
  BY <1>14 DEF vars, botVars, ghosts
<1> QED
  BY <1>1, <1>2, <1>3, <1>4, <1>5, <1>6, <1>7, <1>8, <1>9, <1>10, <1>11, <1>12, <1>13, <1>14
  DEF Next, Serve

-----------------------------------------------------------------------------
(***************************************************************************)
(* The invariant is preserved, one action at a time.                       *)
(***************************************************************************)

LEMMA PostStep == ASSUME IInv, NEW u \in Updates, Post(u), TypeOK' PROVE IInv'
<1> USE BotAssumption DEF IInv
<1>1. now' = now /\ owner' = owner /\ claims' = claims /\ job' = job /\ replies' = replies
      /\ unsure' = unsure /\ posted[u] = None /\ now \in Nat
  BY DEF Post, ghosts, TypeOK
<1>2. \A v \in Updates : posted[v] # None => posted'[v] = posted[v] /\ (Alive(v) <=> Alive(v)')
  BY <1>1 DEF Post, TypeOK, Alive
<1>3. JobsAreFresh'
  <2>1. \A v \in Updates : posted'[v] # None => posted'[v] <= now'
    BY <1>1, <1>2 DEF Post, TypeOK, JobsAreFresh
  <2>2. \A i \in Invocations : job[i] # None => Alive(job[i].update)'
    BY <1>1, <1>2, JobFacts DEF JobsAreFresh, Alive
  <2> QED
    BY <1>1, <2>1, <2>2 DEF JobsAreFresh
<1>4. AnswersClaimed'
  BY <1>1, <1>2 DEF AnswersClaimed, Holds
<1>5. ClaimsFollow' /\ ClaimsHeld'
  BY <1>1, <1>2 DEF ClaimsFollow, ClaimsHeld, Holds
<1> QED
  BY <1>1, <1>3, <1>4, <1>5 DEF OnlyOwnerServed, OwnerChecked, AnsweredOnce

LEMMA DeliverStep ==
  ASSUME IInv, NEW i \in Invocations, NEW u \in Updates, Deliver(i, u), TypeOK' PROVE IInv'
<1> USE BotAssumption DEF IInv
<1>1. now' = now /\ owner' = owner /\ claims' = claims /\ posted' = posted
      /\ replies' = replies /\ unsure' = unsure /\ job[i] = None /\ Alive(u)
      /\ now \in Nat /\ posted[u] \in Nat
  BY DEF Deliver, NoFault, ghosts, TypeOK, Alive
<1>2. \A v \in Updates : Alive(v) <=> Alive(v)'
  BY <1>1 DEF Alive
<1>3. job'[i] # None /\ job'[i].update = u /\ job'[i].at = "owner" /\ job'[i].started = now
  <2>1. [update |-> u, at |-> "owner", started |-> now, awaited |-> TRUE] \in Job
    BY <1>1 DEF Job, Stages
  <2> QED
    BY <2>1 DEF Deliver
<1>4. ASSUME NEW k \in Invocations, k # i, job'[k] # None
      PROVE  /\ job[k] # None
             /\ job'[k].update = job[k].update
             /\ job'[k].at = job[k].at /\ job'[k].started = job[k].started
  <2>1. job'[k] = IF k \in Serving(u) THEN Unawaited(job[k]) ELSE job[k]
    BY <1>4 DEF Deliver
  <2> QED
    BY <1>4, <2>1, UnawaitedFacts DEF Serving
<1>5. ~ Holds(i)' /\ \A k \in Invocations : Holds(k)' => Holds(k) /\ job'[k].update = job[k].update
  BY <1>3, <1>4 DEF Holds
<1>6. JobsAreFresh'
  BY <1>1, <1>2, <1>3, <1>4 DEF JobsAreFresh, Alive
<1>7. ClaimsHeld'
  BY <1>1, <1>5, <1>4 DEF ClaimsHeld, Holds
<1>8. AnswersClaimed'
  BY <1>1, <1>2, <1>5 DEF AnswersClaimed
<1>9. OwnerChecked'
  BY <1>1, <1>3, <1>4 DEF OwnerChecked, Binding, From
<1> QED
  BY <1>1, <1>6, <1>7, <1>8, <1>9 DEF OnlyOwnerServed, ClaimsFollow, AnsweredOnce, From

\* A step of an invocation that touches neither the owner, the claims nor the chat.
LEMMA QuietStep ==
  ASSUME IInv, NEW i \in Invocations, job[i] # None, NEW stage \in Stages, Goto(i, stage),
         TypeOK', UNCHANGED <<now, owner, claims, posted, replies, unsure>>,
         stage \in {"handle", "send"} => From(job[i].update) = owner,
         stage = "claim" /\ ~ Binding(job[i].update) => From(job[i].update) = owner,
         stage \in {"bind", "handle", "send", "release"} => Holds(i)
  PROVE  IInv'
<1> USE DEF IInv
<1>1. /\ \A k \in Invocations \ {i} : job'[k] = job[k]
      /\ job'[i] # None /\ job'[i].at = stage
      /\ job'[i].update = job[i].update /\ job'[i].started = job[i].started
  BY GotoFacts
<1>2. \A k \in Invocations :
        /\ job'[k] # None => job[k] # None /\ job'[k].update = job[k].update
        /\ Holds(k)' => Holds(k) /\ job'[k].update = job[k].update
  BY <1>1 DEF Holds
<1>3. OwnerChecked'
  BY <1>1 DEF OwnerChecked, Binding, From
<1>4. JobsAreFresh'
  BY <1>1 DEF JobsAreFresh, Alive
<1>5. ClaimsHeld'
  BY <1>1, <1>2 DEF ClaimsHeld
<1>6. AnswersClaimed'
  BY <1>2 DEF AnswersClaimed, Alive
<1> QED
  BY <1>3, <1>4, <1>5, <1>6 DEF OnlyOwnerServed, ClaimsFollow, AnsweredOnce, From

LEMMA ReadOwnerStep == ASSUME IInv, NEW i \in Invocations, ReadOwner(i), TypeOK' PROVE IInv'
<1>1. job[i] # None /\ UNCHANGED <<now, owner, claims, posted, replies, unsure>>
  BY DEF ReadOwner, At, NoFault, ghosts
<1>2. From(job[i].update) \in Users
  BY <1>1, JobFacts DEF IInv
<1>3. CASE Goto(i, "answer") \/ Goto(i, "fail")
  BY <1>1, <1>3, QuietStep DEF Stages
<1>4. CASE Goto(i, "claim") /\ owner = (IF Binding(job[i].update) THEN None ELSE From(job[i].update))
  BY <1>1, <1>4, QuietStep DEF Stages
<1> QED
  BY <1>3, <1>4 DEF ReadOwner

LEMMA HandleStep == ASSUME IInv, NEW i \in Invocations, Handle(i), TypeOK' PROVE IInv'
<1>1. job[i] # None /\ Goto(i, "send") /\ UNCHANGED <<now, owner, claims, posted, replies, unsure>>
  BY DEF Handle, At, ghosts
<1>2. From(job[i].update) = owner /\ Holds(i)
  BY DEF Handle, At, IInv, OwnerChecked, Holds
<1> QED
  BY <1>1, <1>2, QuietStep DEF Stages

LEMMA ClaimStep == ASSUME IInv, NEW i \in Invocations, Claim(i), TypeOK' PROVE IInv'
<1> DEFINE u == job[i].update
<1> USE DEF IInv
<1>1. job[i] # None /\ UNCHANGED <<now, owner, posted, replies>> /\ unsure' = unsure
      /\ job[i].at = "claim" /\ now \in Nat
  BY DEF Claim, At, NoFault, ghosts, TypeOK
<1>2. u \in Updates /\ job[i].started = now /\ posted[u] # None /\ posted[u] <= now /\ Alive(u)
  BY <1>1, JobFacts DEF JobsAreFresh, Alive
<1>3. CASE (Goto(i, "answer") \/ Goto(i, "fail")) /\ UNCHANGED claims
  BY <1>1, <1>3, QuietStep DEF Stages
<1>4. ASSUME claims[u] = None, claims' = [claims EXCEPT ![u] = now], NEW stage \in Stages,
             stage \in {"bind", "handle", "fail"}, Goto(i, stage),
             stage = "handle" => ~ Binding(u)
      PROVE  IInv'
  <2>1. /\ \A k \in Invocations \ {i} : job'[k] = job[k]
        /\ job'[i] # None /\ job'[i].at = stage
        /\ job'[i].update = u /\ job'[i].started = now
    BY <1>1, <1>2, <1>4, GotoFacts
  <2>2. claims'[u] = now /\ \A v \in Updates : v # u => claims'[v] = claims[v]
    BY <1>2, <1>4 DEF TypeOK
  <2>3. \A k \in Invocations : Holds(k) => job[k].update # u
    BY <1>1, <1>2, <1>4, BotAssumption DEF ClaimsHeld
  <2> HIDE DEF u
  <2>4. OwnerChecked'
    BY <1>1, <1>4, <2>1 DEF OwnerChecked, u, Binding, From
  <2>5. JobsAreFresh'
    BY <1>1, <1>2, <2>1 DEF JobsAreFresh, Alive
  <2>6. \A k \in Invocations : job[k] # None => job[k].update \in Updates
    BY JobFacts
  <2>7. ClaimsHeld'
    BY <1>1, <2>1, <2>2, <2>3, <2>6 DEF ClaimsHeld, Holds
  <2>8. ClaimsFollow'
    BY <1>1, <1>2, <2>2 DEF ClaimsFollow
  <2>9. \A v \in Updates : claims[v] # None => claims'[v] # None
    BY <1>4, <2>2
  <2>10. AnswersClaimed'
    <3>1. replies[u] > 0 => u \in unsure
      BY <1>1, <1>2, <1>4 DEF AnswersClaimed
    <3>2. ASSUME NEW v \in Updates, v # u, replies[v] > 0, v \notin unsure
          PROVE  /\ claims'[v] # None \/ ~ Alive(v)
                 /\ \A k \in Invocations : Holds(k)' => job'[k].update # v
      BY <2>1, <2>2, <3>2 DEF AnswersClaimed, Holds
    <3>3. \A v \in Updates : Alive(v) <=> Alive(v)'
      BY <1>1 DEF Alive
    <3> QED
      BY <1>1, <3>1, <3>2, <3>3 DEF AnswersClaimed
  <2> QED
    BY <1>1, <2>4, <2>5, <2>7, <2>8, <2>10 DEF OnlyOwnerServed, AnsweredOnce, From
<1> QED
  BY <1>2, <1>3, <1>4 DEF Claim, Stages

LEMMA BindStep == ASSUME IInv, NEW i \in Invocations, Bind(i), TypeOK' PROVE IInv'
<1> DEFINE u == job[i].update
<1> USE DEF IInv
<1>1. job[i] # None /\ UNCHANGED <<now, claims, posted, replies>> /\ unsure' = unsure
      /\ Holds(i)
  BY DEF Bind, At, NoFault, ghosts, Holds
<1>2. u \in Updates /\ From(u) \in Users
  BY <1>1, JobFacts
<1>3. owner' = IF owner = None THEN From(u) ELSE owner
  BY DEF Bind
<1>4. ASSUME NEW stage \in Stages, stage \in {"send", "answer", "release"}, Goto(i, stage),
             stage = "send" => owner' = From(u)
      PROVE  IInv'
  <2>1. /\ \A k \in Invocations \ {i} : job'[k] = job[k]
        /\ job'[i] # None /\ job'[i].at = stage
        /\ job'[i].update = u /\ job'[i].started = job[i].started
    BY <1>1, <1>4, GotoFacts
  <2> HIDE DEF u
  <2>2. \A k \in Invocations :
          /\ job'[k] # None => job[k] # None /\ job'[k].update = job[k].update
          /\ Holds(k)' => Holds(k) /\ job'[k].update = job[k].update
    BY <1>1, <2>1 DEF Holds, u
  <2>3. \A k \in Invocations : job[k] # None => From(job[k].update) # None
    BY JobFacts, BotAssumption
  <2>4. OwnerChecked'
    BY <1>3, <1>4, <2>1, <2>3 DEF OwnerChecked, Binding, From
  <2>5. OnlyOwnerServed'
    BY <1>1, <1>3, BotAssumption DEF OnlyOwnerServed, From
  <2>6. JobsAreFresh'
    BY <1>1, <2>1 DEF JobsAreFresh, Alive, u
  <2>7. ClaimsHeld'
    BY <1>1, <2>2 DEF ClaimsHeld
  <2>8. AnswersClaimed'
    BY <1>1, <2>2 DEF AnswersClaimed, Alive
  <2> QED
    BY <1>1, <2>4, <2>5, <2>6, <2>7, <2>8 DEF ClaimsFollow, AnsweredOnce
<1> QED
  BY <1>3, <1>4 DEF Bind, Stages

LEMMA SendStep == ASSUME IInv, NEW i \in Invocations, Send(i), TypeOK' PROVE IInv'
<1> DEFINE u == job[i].update
<1> USE DEF IInv
<1>1. job[i] # None /\ UNCHANGED <<now, owner, claims, posted>> /\ Holds(i)
      /\ job[i].at = "send" /\ now \in Nat
  BY DEF Send, At, Holds, TypeOK
<1>2. u \in Updates /\ From(u) = owner /\ claims[u] = now /\ posted[u] # None
  BY <1>1, JobFacts DEF OwnerChecked, ClaimsHeld, JobsAreFresh, Alive
<1>3. CASE Goto(i, "release") /\ UNCHANGED <<replies, unsure>>
  BY <1>1, <1>3, QuietStep DEF Stages
<1>4. ASSUME NEW stage \in Stages, stage \in {"answer", "release"}, Goto(i, stage), Arrive(i),
             unsure' = IF stage = "release" THEN unsure \cup {u} ELSE unsure
      PROVE  IInv'
  <2>1. /\ \A k \in Invocations \ {i} : job'[k] = job[k]
        /\ job'[i] # None /\ job'[i].at = stage
        /\ job'[i].update = u /\ job'[i].started = job[i].started
    BY <1>1, <1>4, GotoFacts
  <2>2. replies' = [replies EXCEPT ![u] = @ + 1]
    BY <1>4 DEF Arrive
  <2> HIDE DEF u
  <2>3. \A k \in Invocations :
          /\ job'[k] # None => job[k] # None /\ job'[k].update = job[k].update
          /\ Holds(k)' => Holds(k) /\ job'[k].update = job[k].update
    BY <1>1, <2>1 DEF Holds, u
  <2>4. replies[u] \in Nat /\ replies'[u] = replies[u] + 1
        /\ \A v \in Updates : v # u => replies'[v] = replies[v]
    BY <1>2, <2>2 DEF TypeOK
  <2>5. replies[u] > 0 => u \in unsure
    BY <1>1, <1>2 DEF AnswersClaimed, u
  <2>6. OwnerChecked'
    BY <1>1, <1>4, <2>1 DEF OwnerChecked, Binding, From
  <2>7. OnlyOwnerServed'
    BY <1>1, <1>2, <2>4 DEF OnlyOwnerServed, From
  <2>8. JobsAreFresh'
    BY <1>1, <2>1 DEF JobsAreFresh, Alive, u
  <2>9. ClaimsHeld'
    BY <1>1, <2>3 DEF ClaimsHeld
  <2>10. AnswersClaimed'
    <3>1. stage = "answer" =>
            \A k \in Invocations : Holds(k)' => job'[k].update # u
      BY <1>1, <2>1, <2>3 DEF ClaimsHeld, Holds, u
    <3>2. posted'[u] # None /\ (u \in unsure' \/ (claims'[u] # None
            /\ \A k \in Invocations : Holds(k)' => job'[k].update # u))
      BY <1>1, <1>2, <1>4, <3>1, BotAssumption
    <3>3. ASSUME NEW v \in Updates, v # u, replies'[v] > 0
          PROVE  /\ posted'[v] # None
                 /\ v \in unsure' \/ (/\ claims'[v] # None \/ ~ Alive(v)'
                                      /\ \A k \in Invocations : Holds(k)' => job'[k].update # v)
      BY <1>1, <1>4, <2>3, <2>4, <3>3 DEF AnswersClaimed, Alive
    <3> QED
      BY <3>2, <3>3 DEF AnswersClaimed
  <2>11. AnsweredOnce'
    BY <1>2, <1>4, <2>4, <2>5 DEF AnsweredOnce
  <2> QED
    BY <1>1, <2>6, <2>7, <2>8, <2>9, <2>10, <2>11 DEF ClaimsFollow
<1> QED
  BY <1>3, <1>4 DEF Send, NoFault, ghosts, Stages

LEMMA ReleaseStep == ASSUME IInv, NEW i \in Invocations, Release(i), TypeOK' PROVE IInv'
<1> DEFINE u == job[i].update
<1> USE DEF IInv
<1>1. job[i] # None /\ UNCHANGED <<now, owner, posted, replies>> /\ unsure' = unsure
      /\ Holds(i) /\ Goto(i, "fail")
  BY DEF Release, At, Holds, NoFault, ghosts
<1>2. u \in Updates
  BY <1>1, JobFacts
<1>3. CASE UNCHANGED claims
  BY <1>1, <1>3, QuietStep DEF Stages
<1>4. CASE claims' = [claims EXCEPT ![u] = None]
  <2>1. /\ \A k \in Invocations \ {i} : job'[k] = job[k]
        /\ job'[i] # None /\ job'[i].at = "fail"
        /\ job'[i].update = u /\ job'[i].started = job[i].started
    BY <1>1, GotoFacts DEF Stages
  <2>2. claims'[u] = None /\ \A v \in Updates : v # u => claims'[v] = claims[v]
    BY <1>2, <1>4 DEF TypeOK
  <2> HIDE DEF u
  <2>3. \A k \in Invocations :
          /\ job'[k] # None => job[k] # None /\ job'[k].update = job[k].update
          /\ Holds(k)' => Holds(k) /\ job'[k].update = job[k].update /\ job[k].update # u
    BY <1>1, <2>1 DEF Holds, u, ClaimsHeld
  <2>4. OwnerChecked'
    BY <1>1, <2>1 DEF OwnerChecked, Binding, From
  <2>5. JobsAreFresh'
    BY <1>1, <2>1 DEF JobsAreFresh, Alive, u
  <2>6. \A k \in Invocations : job[k] # None => job[k].update \in Updates
    BY JobFacts
  <2>7. ClaimsHeld'
    BY <1>1, <2>2, <2>3, <2>6 DEF ClaimsHeld, Holds
  <2>8. ClaimsFollow'
    BY <1>1, <2>2 DEF ClaimsFollow
  <2>9. replies[u] > 0 => u \in unsure
    BY <1>1, <1>2 DEF AnswersClaimed, u
  <2>10. AnswersClaimed'
    BY <1>1, <2>2, <2>3, <2>9 DEF AnswersClaimed, Alive
  <2> QED
    BY <1>1, <2>4, <2>5, <2>7, <2>8, <2>10 DEF OnlyOwnerServed, AnsweredOnce, From
<1> QED
  BY <1>3, <1>4 DEF Release

\* An invocation that ends, or is killed, leaves the rows as they are.
LEMMA EndStep ==
  ASSUME IInv, NEW i \in Invocations, job' = [job EXCEPT ![i] = None],
         UNCHANGED <<now, owner, claims, posted, replies, unsure>>, TypeOK'
  PROVE  IInv'
<1> USE DEF IInv
<1>1. \A k \in Invocations :
        /\ job'[k] # None => job'[k] = job[k] /\ job[k] # None
        /\ Holds(k)' => Holds(k) /\ job'[k] = job[k]
  BY DEF Holds, TypeOK
<1>2. OwnerChecked'
  BY <1>1 DEF OwnerChecked, Binding, From
<1>3. JobsAreFresh'
  BY <1>1 DEF JobsAreFresh, Alive
<1>4. ClaimsHeld'
  BY <1>1 DEF ClaimsHeld
<1>5. AnswersClaimed'
  BY <1>1 DEF AnswersClaimed, Alive
<1> QED
  BY <1>2, <1>3, <1>4, <1>5 DEF OnlyOwnerServed, ClaimsFollow, AnsweredOnce, From

\* The cleanup takes claims of updates Telegram has given up, and none that is held.
LEMMA CleanupStep == ASSUME IInv, Cleanup, TypeOK' PROVE IInv'
<1> USE BotAssumption DEF IInv
<1>1. UNCHANGED <<now, owner, posted, job, replies, unsure>> /\ now \in Nat
  BY DEF Cleanup, ghosts, TypeOK
<1>2. \A u \in Updates :
        /\ claims'[u] = IF claims[u] # None /\ claims[u] + Day < now THEN None ELSE claims[u]
        /\ claims[u] # None => claims[u] \in Nat
        /\ posted[u] # None => posted[u] \in Nat
  BY DEF Cleanup, TypeOK
<1>3. \A k \in Invocations : job[k] # None => job[k].update \in Updates
  BY JobFacts
<1>4. ClaimsHeld'
  BY <1>1, <1>2, <1>3 DEF ClaimsHeld, Holds
<1>5. ClaimsFollow'
  BY <1>1, <1>2 DEF ClaimsFollow
<1>6. \A u \in Updates : claims[u] # None /\ claims'[u] = None => ~ Alive(u)
  BY <1>1, <1>2 DEF ClaimsFollow, Alive
<1>7. AnswersClaimed'
  BY <1>1, <1>6 DEF AnswersClaimed, Alive, Holds
<1> QED
  BY <1>1, <1>4, <1>5, <1>7 DEF OnlyOwnerServed, OwnerChecked, JobsAreFresh, AnsweredOnce,
     Alive, From, Binding

LEMMA TickStep == ASSUME IInv, Tick, TypeOK' PROVE IInv'
<1> USE BotAssumption DEF IInv
<1>1. UNCHANGED <<owner, claims, posted, job, replies, unsure>> /\ now' = now + 1 /\ now \in Nat
      /\ \A i \in Invocations : job[i] = None
  BY DEF Tick, botVars, ghosts, TypeOK
<1>2. \A u \in Updates : posted[u] # None => posted[u] \in Nat
  BY DEF TypeOK
<1>3. \A u \in Updates : ~ Alive(u) => ~ Alive(u)'
  BY <1>1, <1>2 DEF Alive
<1>4. JobsAreFresh'
  BY <1>1, <1>2 DEF JobsAreFresh
<1>5. AnswersClaimed'
  BY <1>1, <1>3 DEF AnswersClaimed, Holds
<1> QED
  BY <1>1, <1>4, <1>5 DEF OnlyOwnerServed, OwnerChecked, ClaimsHeld, ClaimsFollow, AnsweredOnce,
     Holds, From

LEMMA NextInv == IInv /\ [Next]_vars => IInv'
<1> SUFFICES ASSUME IInv, [Next]_vars PROVE IInv'
  OBVIOUS
<1>0. TypeOK'
  BY TypeStep DEF IInv
<1>1. ASSUME NEW u \in Updates, Post(u) PROVE IInv'
  BY <1>0, <1>1, PostStep
<1>2. ASSUME NEW u \in Updates, Expire(u) PROVE IInv'
  BY <1>0, <1>2 DEF Expire, ghosts, IInv, OnlyOwnerServed, OwnerChecked, JobsAreFresh, ClaimsHeld,
     ClaimsFollow, AnswersClaimed, AnsweredOnce, Holds, Alive, From, Binding
<1>3. ASSUME NEW i \in Invocations, NEW u \in Updates, Deliver(i, u) PROVE IInv'
  BY <1>0, <1>3, DeliverStep
<1>4. ASSUME NEW i \in Invocations, Serve(i) PROVE IInv'
  <2>1. CASE Answer(i)
    BY <1>0, <2>1, EndStep DEF Answer, NoFault, ghosts
  <2> QED
    BY <1>0, <1>4, <2>1, ReadOwnerStep, ClaimStep, BindStep, HandleStep, SendStep, ReleaseStep
    DEF Serve
<1>5. ASSUME NEW i \in Invocations, Evict(i) PROVE IInv'
  BY <1>0, <1>5, EndStep DEF Evict
<1>6. CASE Cleanup
  BY <1>0, <1>6, CleanupStep
<1>7. CASE Tick
  BY <1>0, <1>7, TickStep
<1>8. CASE UNCHANGED vars
  BY <1>0, <1>8 DEF vars, botVars, ghosts, IInv, OnlyOwnerServed, OwnerChecked, JobsAreFresh,
     ClaimsHeld, ClaimsFollow, AnswersClaimed, AnsweredOnce, Holds, Alive, From, Binding
<1> QED
  BY <1>1, <1>2, <1>3, <1>4, <1>5, <1>6, <1>7, <1>8 DEF Next

\* What every step needs and keeps.
THEOREM BotInvariant == Spec => []IInv
BY InitInv, NextInv, PTL DEF Spec

\* The variables of the webhook have their types (telegram.ts, whole file).
THEOREM BotTypesCorrect == Spec => []TypeOK
BY BotInvariant, PTL DEF IInv

\* However many users send the code and however the calls fail, one of them becomes the
\* owner for ever and nobody else is answered (telegram.ts: bindTelegramOwner).
THEOREM OneOwner == Spec => []OnlyOwnerServed
BY BotInvariant, PTL DEF IInv

\* However often Telegram delivers an update and whenever the cleanup runs, it is
\* answered once, or an answer arrived whose call failed (claimTelegramUpdate).
THEOREM OneAnswer == Spec => []AnsweredOnce
BY BotInvariant, PTL DEF IInv
=============================================================================
