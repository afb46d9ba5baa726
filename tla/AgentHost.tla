------------------------------- MODULE AgentHost -------------------------------
(***************************************************************************)
(* One VPS: the scripts that install and upgrade the Agent                 *)
(* (deploy/install-agent.sh, deploy/upgrade-agent.sh), the systemd unit,   *)
(* and the traffic accounting of the Agent that runs there                 *)
(* (agent/internal/traffic).  Management.Install is one run of a script;   *)
(* ReportDelivery has the rest of the Agent.                               *)
(*                                                                         *)
(* A script may fail at every command and may be cut off between any two   *)
(* of them; the host may reboot; the clock may step back; interface        *)
(* counters may start again.  A version is what a deployment stages: a     *)
(* binary, a configuration and a unit that passed the preflight together.  *)
(***************************************************************************)
EXTENDS Naturals, Sequences

CONSTANTS
  Versions, None,
  Installed,   \* what may be installed at the start: versions, None for nothing
  Policy,      \* traffic settings of a version: [resets, names]; names that are found
               \* automatically (network.go:112) are taken not to change
  Interfaces,
  Keep,        \* VPSMON_KEEP_UPGRADE_BACKUPS
  MaxNow, MaxBytes, MaxRuns, MaxFaults   \* bounds of the search

Files == {"agent", "config", "unit"}
Order == <<"agent", "config", "unit">>

\* resets: the midnights that open a period, by reset day and time zone.
Policies == [resets : SUBSET Nat, names : SUBSET Interfaces]

Stages == {"stop", "copy", "reload", "start", "verify", "compare", "prune",
           "undo_stop", "undo", "undo_start"}
\* copied: how many files have been copied, or restored; active: is-active said so.
Script == [kind : {"install", "upgrade"}, to : Versions, at : Stages, copied : 0..3, active : BOOLEAN]

ASSUME HostAssumption ==
  /\ None \notin Versions \cup Script
  /\ Installed \subseteq Versions \cup {None}
  /\ Policy \in [Versions -> Policies]
  /\ Keep \in Nat \ {0}
  /\ MaxNow \in Nat /\ MaxBytes \in Nat /\ MaxRuns \in Nat /\ MaxFaults \in Nat

VARIABLES
  files,     \* what is installed: the version of each file
  backups,   \* the upgrade backups, oldest first
  service,   \* [state, enabled, config]; config: the one the process has read
  script,    \* the script at work
  clock, boot,
  net,       \* the counter of each interface: [bytes, index]
  traffic,   \* traffic.json, or None when there is none that can be read
  budget,    \* scripts and faults so far: [runs, faults]
  cutShort,  \* a script was cut short, and no later one has succeeded
  moved,     \* bytes that each interface has really moved
  truth      \* what the counts should be: [from, upto, exact, saved]

onDisk == <<files, backups>>
counting == <<net, traffic, moved, truth>>
vars == <<onDisk, service, script, clock, boot, counting, budget, cutShort>>

Set == [Files -> Versions \cup {None}]
AllOf(v) == [f \in Files |-> v]
Whole(set) == \E v \in Versions : set = AllOf(v)

Counter == [bytes : Nat, index : Nat]
\* The totals by interface; the file and the report have their sum, in both directions.
\* A period is known by the resets up to it, the last of which is period_start.
Traffic == [policy : Policies, period : SUBSET Nat, total : [Interfaces -> Nat], boot : Nat,
            counters : [Interfaces -> Counter], last : Nat]

TypeOK ==
  /\ files \in Set
  /\ backups \in Seq(Set)
  /\ service \in [state : {"inactive", "activating", "active"}, enabled : BOOLEAN,
                  config : Versions \cup {None}]
  /\ service.state = "active" => service.config \in Versions
  /\ script \in Script \cup {None}
  /\ clock \in Nat /\ boot \in Nat
  /\ net \in [Interfaces -> Counter]
  /\ traffic \in Traffic \cup {None}
  /\ budget \in [runs : Nat, faults : Nat]
  /\ cutShort \in BOOLEAN
  /\ moved \in [Interfaces -> Nat]
  /\ truth \in [from : [Interfaces -> Nat], upto : [Interfaces -> Nat],
                exact : SUBSET Interfaces, saved : SUBSET [period : SUBSET Nat, total : [Interfaces -> Nat]]]

-----------------------------------------------------------------------------
(***************************************************************************)
(* The unit (vpsmon-agent.service): Restart=on-failure.                    *)
(***************************************************************************)

Init ==
  /\ \E v \in Installed :
       /\ files = AllOf(v)
       /\ service \in {[state |-> "inactive", enabled |-> FALSE, config |-> None],
                       [state |-> IF v = None THEN "inactive" ELSE "active",
                        enabled |-> v # None, config |-> v]}
  /\ backups = <<>>
  /\ script = None
  /\ clock = 1 /\ boot = 0
  /\ net = [i \in Interfaces |-> [bytes |-> 0, index |-> 1]]
  /\ traffic = None
  /\ budget = [runs |-> 0, faults |-> 0]
  /\ cutShort = FALSE
  /\ moved = [i \in Interfaces |-> 0]
  /\ truth = [from |-> moved, upto |-> moved, exact |-> {}, saved |-> {}]

Fault == budget.faults < MaxFaults /\ budget' = [budget EXCEPT !.faults = @ + 1]

Running(v) == service' = [service EXCEPT !.state = "active", !.config = v]
Become(state) == service' = [service EXCEPT !.state = state, !.config = None]

\* systemd starts the Agent that is installed; one whose configuration is rejected
\* exits, and is tried again.
StartAgent ==
  /\ service.state = "activating" /\ None \notin {files["agent"], files["config"], files["unit"]}
  /\ Running(files["config"])
  /\ UNCHANGED <<onDisk, script, clock, boot, counting, budget, cutShort>>

AgentFails ==
  /\ service.state = "active" /\ Fault /\ Become("activating")
  /\ UNCHANGED <<onDisk, script, clock, boot, counting, cutShort>>

\* The operator: systemctl enable --now, disable --now.
SwitchOn ==
  /\ script = None /\ service.state = "inactive" /\ files["unit"] # None
  /\ service' = [state |-> "activating", enabled |-> TRUE, config |-> None]
  /\ UNCHANGED <<onDisk, script, clock, boot, counting, budget, cutShort>>

SwitchOff ==
  /\ script = None /\ service.state # "inactive"
  /\ service' = [state |-> "inactive", enabled |-> FALSE, config |-> None]
  /\ UNCHANGED <<onDisk, script, clock, boot, counting, budget, cutShort>>

-----------------------------------------------------------------------------
(***************************************************************************)
(* Traffic accounting (Tracker.Observe), and what happens to counters and  *)
(* the clock.                                                              *)
(***************************************************************************)

\* Mutants: a step back is not noticed; counts without looking at the identity of the
\* interface, or at the order of the counts.
NeverSteppedBack(policy) == FALSE
GrowthByName(i) ==
  IF i \in traffic.policy.names /\ traffic.boot = boot /\ net[i].bytes >= traffic.counters[i].bytes
  THEN net[i].bytes - traffic.counters[i].bytes ELSE 0
GrowthUnordered(i) ==
  IF i \in traffic.policy.names /\ traffic.boot = boot /\ net[i].index = traffic.counters[i].index
  THEN net[i].bytes - traffic.counters[i].bytes ELSE 0

Period(policy) == {r \in policy.resets : r <= clock}
SteppedBack(policy) == traffic # None /\ traffic.policy = policy /\ clock <= traffic.last
Continues(policy) == traffic # None /\ traffic.policy = policy /\ traffic.period = Period(policy)

Growth(i) ==
  IF /\ i \in traffic.policy.names /\ traffic.boot = boot
     /\ net[i].index = traffic.counters[i].index /\ net[i].bytes >= traffic.counters[i].bytes
  THEN net[i].bytes - traffic.counters[i].bytes
  ELSE 0

\* One sample that is saved.  No sample is saved when the interfaces cannot be read,
\* the file cannot be written, or in a dry run.
Observe ==
  LET policy == Policy[service.config]
      total  == [i \in Interfaces |->
                   IF Continues(policy) THEN traffic.total[i] + Growth(i) ELSE 0]
      new    == traffic = None \/ traffic.policy # policy
      begins == new \/ traffic.period # {r \in policy.resets : r <= clock}
  IN  /\ service.state = "active" /\ ~ SteppedBack(policy)
      /\ traffic' = [policy |-> policy, period |-> Period(policy), total |-> total, boot |-> boot,
                     counters |-> net, last |-> clock]
      /\ truth' = [from  |-> IF begins THEN moved ELSE truth.from,
                   upto  |-> moved,
                   exact |-> IF begins THEN policy.names ELSE truth.exact,
                   saved |-> (IF new THEN {} ELSE truth.saved)
                               \cup {[period |-> traffic'.period, total |-> total]}]
      /\ UNCHANGED <<onDisk, service, script, clock, boot, net, moved, budget, cutShort>>

\* traffic.json is lost, or cannot be read.
LoseTraffic ==
  /\ traffic # None /\ Fault
  /\ traffic' = None
  /\ UNCHANGED <<onDisk, service, script, clock, boot, net, moved, truth, cutShort>>

Move(i) ==
  /\ moved[i] < MaxBytes
  /\ moved' = [moved EXCEPT ![i] = @ + 1]
  /\ net' = [net EXCEPT ![i].bytes = @ + 1]
  /\ UNCHANGED <<onDisk, service, script, clock, boot, traffic, truth, budget, cutShort>>

\* A counter starts again, or an interface of the same name comes with its own.
Renew(i, n) ==
  /\ \/ n.index = net[i].index /\ n.bytes = 0
     \/ n.index = net[i].index + 1
  /\ Fault
  /\ net' = [net EXCEPT ![i] = n]
  /\ truth' = [truth EXCEPT !.exact = @ \ {i}]
  /\ UNCHANGED <<onDisk, service, script, clock, boot, traffic, moved, cutShort>>

Tick ==
  /\ clock < MaxNow /\ clock' = clock + 1
  /\ UNCHANGED <<onDisk, service, script, boot, counting, budget, cutShort>>

StepBack(t) ==
  /\ t < clock /\ Fault /\ clock' = t
  /\ UNCHANGED <<onDisk, service, script, boot, counting, cutShort>>

Reboot ==
  /\ Fault /\ boot' = boot + 1
  /\ Become(IF service.enabled /\ files["unit"] # None THEN "activating" ELSE "inactive")
  /\ script' = None /\ cutShort' = (cutShort \/ script # None)
  /\ net' = [i \in Interfaces |-> [net[i] EXCEPT !.bytes = 0]]
  /\ truth' = [truth EXCEPT !.exact = {}]
  /\ UNCHANGED <<onDisk, clock, traffic, moved>>

-----------------------------------------------------------------------------
(***************************************************************************)
(* The scripts.                                                            *)
(***************************************************************************)

Step(stage) == script # None /\ script.at = stage
Goto(stage) == script' = [script EXCEPT !.at = stage]
End(cut) == script' = None /\ cutShort' = cut
StillOther == UNCHANGED <<clock, boot, counting>>

Begin(kind, v, at) ==
  /\ script = None /\ budget.runs < MaxRuns
  /\ budget' = [budget EXCEPT !.runs = @ + 1]
  /\ script' = [kind |-> kind, to |-> v, at |-> at, copied |-> 0,
                active |-> kind = "upgrade" /\ service.state = "active"]

\* Refuses to overwrite anything.
Install(v) ==
  /\ Begin("install", v, "copy") /\ files = AllOf(None)
  /\ UNCHANGED <<onDisk, service, cutShort>> /\ StillOther

\* Refuses when a file is missing; the staged files pass the preflight; the installed
\* ones are saved.
Upgrade(v) ==
  /\ Begin("upgrade", v, "stop") /\ \A f \in Files : files[f] # None
  /\ backups' = Append(backups, files)
  /\ UNCHANGED <<files, service, cutShort>> /\ StillOther

\* It ends among the three copies of the backup.
BackupCut ==
  /\ script = None /\ cutShort' = TRUE
  /\ budget.runs < MaxRuns /\ budget.faults < MaxFaults
  /\ budget' = [runs |-> budget.runs + 1, faults |-> budget.faults + 1]
  /\ \A f \in Files : files[f] # None
  /\ \E n \in 0..2 : backups' = Append(backups,
       [f \in Files |-> IF \E k \in 1..n : Order[k] = f THEN files[f] ELSE None])
  /\ UNCHANGED <<files, service, script>> /\ StillOther

Stop ==
  /\ Step("stop") /\ Become("inactive") /\ Goto("copy")
  /\ UNCHANGED <<onDisk, budget, cutShort>> /\ StillOther

Copy ==
  /\ Step("copy")
  /\ IF script.copied < 3
     THEN /\ files' = [files EXCEPT ![Order[script.copied + 1]] = script.to]
          /\ script' = [script EXCEPT !.copied = @ + 1]
     ELSE Goto("reload") /\ UNCHANGED files
  /\ UNCHANGED <<backups, service, budget, cutShort>> /\ StillOther

\* The installer has no rollback yet.
CopyFails ==
  /\ Step("copy") /\ Fault
  /\ IF script.kind = "upgrade" THEN Goto("undo_stop") /\ UNCHANGED cutShort ELSE End(TRUE)
  /\ UNCHANGED <<onDisk, service>> /\ StillOther

\* The unit is read again; the installer also makes its preflight.
Reload ==
  /\ Step("reload") /\ Goto("start")
  /\ UNCHANGED <<onDisk, service, budget, cutShort>> /\ StillOther

\* The installer enables the unit; after an upgrade the Agent is as it was.
Start ==
  /\ Step("start")
  /\ \/ /\ script.kind = "install" /\ Goto("verify")
        /\ service' = [state |-> "active", enabled |-> TRUE, config |-> files["config"]]
     \/ script.kind = "upgrade" /\ script.active /\ Running(files["config"]) /\ Goto("verify")
     \/ script.kind = "upgrade" /\ ~ script.active /\ Goto("compare") /\ UNCHANGED service
  /\ UNCHANGED <<onDisk, budget, cutShort>> /\ StillOther

\* Still active after three seconds.
Verify ==
  /\ Step("verify") /\ service.state = "active" /\ Goto("compare")
  /\ UNCHANGED <<onDisk, service, budget, cutShort>> /\ StillOther

\* The protected services are as before.
Compare ==
  /\ Step("compare")
  /\ IF script.kind = "upgrade" THEN Goto("prune") /\ UNCHANGED cutShort ELSE End(FALSE)
  /\ UNCHANGED <<onDisk, service, budget>> /\ StillOther

\* prune_upgrade_backups; its failure is only reported.
Prune ==
  /\ Step("prune") /\ End(FALSE)
  /\ \/ backups' = IF Len(backups) <= Keep THEN backups
                   ELSE SubSeq(backups, Len(backups) - Keep + 1, Len(backups))
     \/ UNCHANGED backups
  /\ UNCHANGED <<files, service, budget>> /\ StillOther

Fails ==
  /\ \/ (Step("reload") \/ Step("start") \/ Step("verify") \/ Step("compare")) /\ Fault
     \/ Step("verify") /\ service.state # "active" /\ UNCHANGED budget
  /\ Goto("undo_stop")
  /\ UNCHANGED <<onDisk, service, cutShort>> /\ StillOther

\* rollback.  The installer removes what it has installed.
UndoStop ==
  /\ Step("undo_stop")
  /\ script' = [script EXCEPT !.at = "undo", !.copied = 0]
  /\ service' = [state |-> "inactive", config |-> None,
                 enabled |-> script.kind = "upgrade" /\ service.enabled]
  /\ UNCHANGED <<onDisk, budget, cutShort>> /\ StillOther

UndoInstall ==
  /\ Step("undo") /\ script.kind = "install"
  /\ files' = AllOf(None) /\ End(cutShort)
  /\ UNCHANGED <<backups, service, budget>> /\ StillOther

\* Mutant: the unit is not restored.
UndoTwoFiles ==
  /\ Step("undo") /\ script.kind = "upgrade"
  /\ IF script.copied < 2
     THEN /\ files' = [files EXCEPT ![Order[script.copied + 1]] = backups[Len(backups)][Order[script.copied + 1]]]
          /\ script' = [script EXCEPT !.copied = @ + 1]
     ELSE Goto("undo_start") /\ UNCHANGED files
  /\ UNCHANGED <<backups, service, budget, cutShort>> /\ StillOther

UndoUpgrade ==
  /\ Step("undo") /\ script.kind = "upgrade"
  /\ IF script.copied < 3
     THEN /\ files' = [files EXCEPT ![Order[script.copied + 1]] = backups[Len(backups)][Order[script.copied + 1]]]
          /\ script' = [script EXCEPT !.copied = @ + 1]
     ELSE Goto("undo_start") /\ UNCHANGED files
  /\ UNCHANGED <<backups, service, budget, cutShort>> /\ StillOther

\* set -e holds in rollback too.
UndoFails ==
  /\ Step("undo") /\ script.kind = "upgrade" /\ Fault /\ End(TRUE)
  /\ UNCHANGED <<onDisk, service>> /\ StillOther

\* An Agent that does not start again is only left in the journal.
UndoStart ==
  /\ Step("undo_start") /\ End(cutShort)
  /\ (script.active /\ Running(files["config"])) \/ UNCHANGED service
  /\ UNCHANGED <<onDisk, budget>> /\ StillOther

\* The session ends, or a command fails where nothing catches it.
Cut ==
  /\ script # None /\ Fault /\ End(TRUE)
  /\ UNCHANGED <<onDisk, service>> /\ StillOther

Deployment ==
  \/ \E v \in Versions : Install(v) \/ Upgrade(v)
  \/ BackupCut \/ Stop \/ Copy \/ CopyFails \/ Reload \/ Start \/ Verify \/ Compare \/ Prune \/ Fails
  \/ UndoStop \/ UndoInstall \/ UndoUpgrade \/ UndoFails \/ UndoStart \/ Cut

Next ==
  \/ StartAgent \/ AgentFails \/ SwitchOn \/ SwitchOff
  \/ Observe \/ LoseTraffic \/ Tick \/ Reboot
  \/ \E i \in Interfaces : Move(i) \/ \E b \in 0..(MaxBytes + 1), x \in 0..1 :
       Renew(i, [bytes |-> b, index |-> net[i].index + x])
  \/ \E t \in 1..MaxNow : StepBack(t)
  \/ Deployment

Spec == Init /\ [][Next]_vars

-----------------------------------------------------------------------------
(***************************************************************************)
(* Properties.                                                             *)
(***************************************************************************)

\* A script that comes to its end leaves one version, the new or the previous, and an
\* Agent that runs it; if one is cut short, a backup of one whole version is there for
\* as long as the files are of several, however often the upgrade is tried again
\* (development.md:140).
DeploymentRecoverable ==
  /\ script = None /\ ~ cutShort =>
       /\ files = AllOf(None) \/ Whole(files)
       /\ service.state = "active" => service.config = files["config"]
  /\ (\A f \in Files : files[f] # None) /\ ~ Whole(files) =>
       \E k \in DOMAIN backups : Whole(backups[k])

\* No byte is counted twice, for another period, or for another interface: the total of
\* an interface is at most what it has moved since the count of its period began, and
\* just that if its counter has not started again, whatever stops of the Agent, steps
\* of the clock and deployments lie between (monitoring-methodology.md:198).  What passes
\* within one boot while the Agent is stopped is counted, as traffic_test.go:79 demands;
\* guide.md:123 and monitoring-methodology.md:199 say that it is not.
TotalsAreTrue ==
  traffic # None => \A i \in traffic.policy.names :
    /\ traffic.total[i] + truth.from[i] <= truth.upto[i]
    /\ i \in truth.exact => traffic.total[i] + truth.from[i] = truth.upto[i]

\* While the settings stay and the file can be read, the total of a period never falls,
\* also when the clock goes back to the period before it and on again.
TotalsOnlyGrow ==
  traffic # None => \A s \in truth.saved : s.period = traffic.period =>
    \A i \in Interfaces : s.total[i] <= traffic.total[i]
=============================================================================
