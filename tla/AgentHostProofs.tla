--------------------------- MODULE AgentHostProofs ---------------------------
(***************************************************************************)
(* Theorems about AgentHost, for any versions, interfaces and settings:    *)
(* what the scripts leave can be recovered from, and the traffic totals    *)
(* are true and only grow.                                                 *)
(***************************************************************************)
EXTENDS AgentHost, TLAPS

-----------------------------------------------------------------------------
(***************************************************************************)
(* The scripts and the service.                                            *)
(***************************************************************************)

\* The first n files are those of a set.
From(set, n) ==
  /\ n >= 1 => files["agent"] = set["agent"]
  /\ n >= 2 => files["config"] = set["config"]
  /\ n >= 3 => files["unit"] = set["unit"]

Complete(set) == \A f \in Files : set[f] \in Versions
Last == backups[Len(backups)]
Backed == \E k \in DOMAIN backups : Whole(backups[k])

\* What holds while a script is at work, by the command it is at.
ScriptInv ==
  script # None =>
    /\ script.at \in {"stop", "prune", "undo_start"} => script.kind = "upgrade"
    /\ script.active => script.kind = "upgrade"
    /\ script.at = "stop" => script.copied = 0
    /\ script.kind = "upgrade" => /\ Complete(files) /\ Len(backups) > 0 /\ Complete(Last)
                                  /\ Backed
                                  /\ ~ cutShort => Whole(Last)
    /\ script.at = "copy" => From(AllOf(script.to), script.copied)
    /\ script.at = "copy" /\ script.kind = "install" /\ script.copied < 3 => files["unit"] = None
    /\ script.at \in {"reload", "start", "verify", "compare", "prune"} => files = AllOf(script.to)
    /\ script.kind = "install" /\ script.at \in {"undo_stop", "undo"} => files = AllOf(script.to)
    /\ script.at = "undo" /\ script.kind = "upgrade" => From(Last, script.copied)
    /\ script.at = "undo_start" => files = Last
    /\ script.at \in {"reload", "start", "undo", "undo_start"} => service.state = "inactive"
    /\ script.at = "copy" => service.state = "inactive"
    /\ script.at \in {"verify", "compare", "prune"} /\ service.state = "active" =>
         service.config = files["config"]

\* Where nothing is installed nothing runs.
NothingRuns == files = AllOf(None) => service.state = "inactive"

\* The part of TypeOK that the scripts change.
HostTypes ==
  /\ files \in Set
  /\ backups \in Seq(Set)
  /\ service \in [state : {"inactive", "activating", "active"}, enabled : BOOLEAN,
                  config : Versions \cup {None}]
  /\ service.state = "active" => service.config \in Versions
  /\ script \in Script \cup {None}
  /\ budget \in [runs : Nat, faults : Nat]
  /\ cutShort \in BOOLEAN

HostInv == HostTypes /\ ScriptInv /\ NothingRuns /\ DeploymentRecoverable

LEMMA Constants ==
  /\ None \notin Versions /\ None \notin Script /\ Keep \in Nat \ {0} /\ Policy \in [Versions -> Policies]
  /\ Installed \subseteq Versions \cup {None}
  /\ MaxNow \in Nat /\ MaxBytes \in Nat /\ MaxRuns \in Nat /\ MaxFaults \in Nat
BY HostAssumption

LEMMA SetIsFunction ==
  ASSUME NEW v \in Versions \cup {None}
  PROVE  AllOf(v) \in Set /\ \A f \in Files : AllOf(v)[f] = v
BY DEF AllOf, Set

\* Three files are all there are.
LEMMA FromAll ==
  ASSUME NEW one \in Set, NEW other \in Set,
         one["agent"] = other["agent"], one["config"] = other["config"], one["unit"] = other["unit"]
  PROVE  one = other
<1>1. \A f \in Files : one[f] = other[f]
  BY DEF Files
<1> QED
  BY <1>1 DEF Set

LEMMA WholeIsComplete ==
  ASSUME NEW set \in Set, Whole(set)
  PROVE  Complete(set)
BY DEF Whole, Complete, AllOf, Set

LEMMA InitHost == Init => HostTypes /\ ScriptInv /\ NothingRuns /\ DeploymentRecoverable
<1> SUFFICES ASSUME Init PROVE HostTypes /\ ScriptInv /\ NothingRuns /\ DeploymentRecoverable
  OBVIOUS
<1>1. PICK v \in Versions \cup {None} :
        /\ files = AllOf(v)
        /\ service \in {[state |-> "inactive", enabled |-> FALSE, config |-> None],
                        [state |-> IF v = None THEN "inactive" ELSE "active",
                         enabled |-> v # None, config |-> v]}
  BY Constants DEF Init
<1>2. backups = <<>> /\ script = None /\ cutShort = FALSE /\ budget = [runs |-> 0, faults |-> 0]
  BY DEF Init
<1>3. AllOf(v) \in Set /\ \A f \in Files : AllOf(v)[f] = v
  BY SetIsFunction
<1>4. service \in [state : {"inactive", "activating", "active"}, enabled : BOOLEAN,
                   config : Versions \cup {None}]
      /\ (service.state = "active" => v # None /\ service.config = v)
  <2>1. CASE service = [state |-> "inactive", enabled |-> FALSE, config |-> None]
    BY <2>1
  <2>2. CASE v # None /\ service = [state |-> "active", enabled |-> TRUE, config |-> v]
    BY <2>2
  <2>3. v = None => service = [state |-> "inactive", enabled |-> FALSE, config |-> None]
    BY <1>1, Zenon
  <2>4. v # None => service = [state |-> "inactive", enabled |-> FALSE, config |-> None]
                    \/ service = [state |-> "active", enabled |-> TRUE, config |-> v]
    BY <1>1, Zenon
  <2> QED
    BY <2>1, <2>2, <2>3, <2>4
<1>5. service.state = "active" => v # None /\ service.config = v
  BY <1>4
<1>6. HostTypes
  <2>1. v # None => v \in Versions
    BY <1>1
  <2>2. backups \in Seq(Set)
    BY <1>2
  <2>3. budget \in [runs : Nat, faults : Nat]
    BY <1>2
  <2> QED
    BY <1>1, <1>2, <1>3, <1>4, <2>1, <2>2, <2>3 DEF HostTypes
<1>7. files["config"] = v /\ "config" \in Files
  BY <1>1, <1>3 DEF Files
<1>8. NothingRuns
  BY <1>1, <1>3, <1>5, <1>7, Constants DEF NothingRuns, AllOf, Files
<1>9. DeploymentRecoverable
  BY <1>1, <1>2, <1>3, <1>5, <1>7 DEF DeploymentRecoverable, Whole
<1> QED
  BY <1>2, <1>6, <1>8, <1>9 DEF ScriptInv

LEMMA FaultType ==
  ASSUME HostTypes, Fault
  PROVE  budget' \in [runs : Nat, faults : Nat]
BY DEF HostTypes, Fault

LEMMA ServiceTypes ==
  ASSUME HostTypes
  PROVE  /\ \A state \in {"inactive", "activating"} : Become(state) =>
              /\ service' \in [state : {"inactive", "activating", "active"}, enabled : BOOLEAN,
                               config : Versions \cup {None}]
              /\ service'.state = state
         /\ \A v \in Versions : Running(v) =>
              /\ service' \in [state : {"inactive", "activating", "active"}, enabled : BOOLEAN,
                               config : Versions \cup {None}]
              /\ service'.state = "active" /\ service'.config = v
BY DEF HostTypes, Become, Running

\* What counts traffic leaves the host alone.
LEMMA CountingKeepsHost ==
  ASSUME HostInv, UNCHANGED <<onDisk, service, script, cutShort>>,
         budget' \in [runs : Nat, faults : Nat]
  PROVE  HostInv'
<1>1. UNCHANGED <<files, backups, service, script, cutShort>>
  BY DEF onDisk
<1>2. HostTypes'
  BY <1>1 DEF HostInv, HostTypes
<1>3. ScriptInv'
  BY <1>1 DEF HostInv, ScriptInv, From, Last, Backed, Complete
<1>4. NothingRuns' /\ DeploymentRecoverable'
  BY <1>1 DEF HostInv, NothingRuns, DeploymentRecoverable
<1> QED
  BY <1>2, <1>3, <1>4 DEF HostInv

LEMMA ServiceKeepsHost ==
  ASSUME HostInv, StartAgent \/ AgentFails \/ SwitchOn \/ SwitchOff
  PROVE  HostInv'
<1>0. HostTypes /\ ScriptInv /\ NothingRuns /\ DeploymentRecoverable
  BY DEF HostInv
<1>1. UNCHANGED <<files, backups, script, cutShort>>
  BY DEF StartAgent, AgentFails, SwitchOn, SwitchOff, onDisk
<1>2. CASE StartAgent
  <2>1. files["config"] \in Versions /\ files["unit"] # None /\ service.state = "activating"
    BY <1>0, <1>2 DEF StartAgent, HostTypes, Set, Files
  <2>2. service'.state = "active" /\ service'.config = files["config"]
    BY <1>0, <1>2, <2>1, ServiceTypes DEF StartAgent
  <2>3. HostTypes'
    BY <1>0, <1>1, <1>2, <2>1, ServiceTypes DEF StartAgent, HostTypes
  <2>4. ScriptInv'
    BY <1>0, <1>1, <2>1, <2>2 DEF ScriptInv, From, Last, Backed, Complete
  <2>5. files # AllOf(None)
    BY <2>1 DEF AllOf, Files
  <2>6. NothingRuns' /\ DeploymentRecoverable'
    BY <1>0, <1>1, <2>2, <2>5 DEF NothingRuns, DeploymentRecoverable
  <2> QED
    BY <2>3, <2>4, <2>6 DEF HostInv
<1>3. CASE AgentFails
  <2>1. service.state = "active" /\ service'.state = "activating"
    BY <1>0, <1>3, ServiceTypes DEF AgentFails
  <2>2. HostTypes'
    BY <1>0, <1>1, <1>3, <2>1, ServiceTypes, FaultType DEF AgentFails, HostTypes
  <2>3. ScriptInv'
    BY <1>0, <1>1, <2>1 DEF ScriptInv, From, Last, Backed, Complete
  <2>4. NothingRuns' /\ DeploymentRecoverable'
    BY <1>0, <1>1, <2>1 DEF NothingRuns, DeploymentRecoverable
  <2> QED
    BY <2>2, <2>3, <2>4 DEF HostInv
<1>4. CASE SwitchOn \/ SwitchOff
  <2>1. script = None /\ budget' = budget /\ service'.state \in {"inactive", "activating"}
    BY <1>4 DEF SwitchOn, SwitchOff
  <2>2. service' \in [state : {"inactive", "activating", "active"}, enabled : BOOLEAN,
                      config : Versions \cup {None}]
    <3>1. CASE SwitchOn
      BY <3>1 DEF SwitchOn
    <3>2. CASE SwitchOff
      BY <3>2 DEF SwitchOff
    <3> QED
      BY <1>4, <3>1, <3>2
  <2>3. HostTypes' /\ ScriptInv'
    BY <1>0, <1>1, <2>1, <2>2 DEF HostTypes, ScriptInv
  <2>4. files = AllOf(None) => service'.state = "inactive"
    BY <1>4 DEF SwitchOn, SwitchOff, AllOf, Files
  <2>5. NothingRuns' /\ DeploymentRecoverable'
    BY <1>0, <1>1, <2>1, <2>4 DEF NothingRuns, DeploymentRecoverable
  <2> QED
    BY <2>3, <2>5 DEF HostInv
<1> QED
  BY <1>2, <1>3, <1>4

LEMMA RebootKeepsHost ==
  ASSUME HostInv, Reboot
  PROVE  HostInv'
<1>0. HostTypes /\ ScriptInv /\ NothingRuns /\ DeploymentRecoverable
  BY DEF HostInv
<1>1. UNCHANGED <<files, backups>> /\ script' = None /\ cutShort' = (cutShort \/ script # None)
  BY DEF Reboot, onDisk
<1>2. /\ service' \in [state : {"inactive", "activating", "active"}, enabled : BOOLEAN,
                       config : Versions \cup {None}]
      /\ service'.state \in {"inactive", "activating"}
      /\ files["unit"] = None => service'.state = "inactive"
  BY <1>0, ServiceTypes DEF Reboot
<1>3. HostTypes' /\ ScriptInv'
  BY <1>0, <1>1, <1>2, FaultType DEF HostTypes, ScriptInv, Reboot
<1>4. NothingRuns'
  BY <1>1, <1>2 DEF NothingRuns, AllOf, Files
<1>5. DeploymentRecoverable'
  BY <1>0, <1>1, <1>2 DEF DeploymentRecoverable
<1> QED
  BY <1>3, <1>4, <1>5 DEF HostInv

\* A script that goes on to its next command.
LEMMA GotoFacts ==
  ASSUME HostTypes, script # None, NEW stage \in Stages, Goto(stage)
  PROVE  /\ script' \in Script /\ script' # None /\ script'.at = stage
         /\ script'.kind = script.kind /\ script'.to = script.to /\ script'.to \in Versions
         /\ script'.copied = script.copied /\ script'.active = script.active
<1>1. script \in Script
  BY DEF HostTypes
<1> QED
  BY <1>1, Constants DEF Goto, Script

LEMMA BeginFacts ==
  ASSUME HostTypes, NEW kind \in {"install", "upgrade"}, NEW v \in Versions, NEW stage \in Stages,
         Begin(kind, v, stage)
  PROVE  /\ script = None /\ script' \in Script /\ script' # None /\ script'.at = stage
         /\ script'.kind = kind /\ script'.to = v /\ script'.copied = 0
         /\ script'.active => kind = "upgrade"
         /\ budget' \in [runs : Nat, faults : Nat]
<1>1. (kind = "upgrade" /\ service.state = "active") \in BOOLEAN
  OBVIOUS
<1>2. script' \in Script /\ script'.at = stage /\ script'.kind = kind /\ script'.to = v
      /\ script'.copied = 0 /\ script'.active = (kind = "upgrade" /\ service.state = "active")
  BY <1>1 DEF Begin, Script
<1>3. script = None /\ budget' \in [runs : Nat, faults : Nat]
  BY DEF Begin, HostTypes
<1> QED
  BY <1>2, <1>3, Constants

LEMMA AppendFacts ==
  ASSUME backups \in Seq(Set), NEW set \in Set, backups' = Append(backups, set)
  PROVE  /\ backups' \in Seq(Set) /\ Len(backups') = Len(backups) + 1 /\ Len(backups') > 0
         /\ Last' = set /\ (Backed => Backed') /\ (Whole(set) => Backed')
<1>1. Len(backups) \in Nat /\ DOMAIN backups = 1..Len(backups)
  OBVIOUS
<1>2. /\ backups' \in Seq(Set) /\ Len(backups') = Len(backups) + 1
      /\ DOMAIN backups' = 1..(Len(backups) + 1) /\ backups'[Len(backups) + 1] = set
      /\ \A k \in 1..Len(backups) : backups'[k] = backups[k]
  OBVIOUS
<1>3. Last' = set
  BY <1>1, <1>2 DEF Last
<1>4. Whole(set) => Backed'
  BY <1>1, <1>2 DEF Backed
<1>5. Backed => Backed'
  BY <1>1, <1>2 DEF Backed
<1> QED
  BY <1>1, <1>2, <1>3, <1>4, <1>5

\* The files are whole, incomplete, or backed.
LEMMA BackedFiles ==
  ASSUME HostInv, \A f \in Files : files[f] # None
  PROVE  Complete(files) /\ (Whole(files) \/ Backed)
BY DEF HostInv, HostTypes, Set, Complete, DeploymentRecoverable, Backed

LEMMA BeginsKeepHost ==
  ASSUME HostInv, NEW v \in Versions, Install(v) \/ Upgrade(v)
  PROVE  HostInv'
<1>0. HostTypes /\ ScriptInv /\ NothingRuns /\ DeploymentRecoverable
  BY DEF HostInv
<1>1. CASE Install(v)
  <2>1. /\ script' \in Script /\ script' # None /\ script'.at = "copy" /\ script'.kind = "install"
        /\ script'.to = v /\ script'.copied = 0 /\ ~ script'.active
        /\ budget' \in [runs : Nat, faults : Nat]
    BY <1>0, <1>1, BeginFacts DEF Install, Stages
  <2>2. files = AllOf(None) /\ UNCHANGED <<files, backups, service, cutShort>>
    BY <1>1 DEF Install, onDisk
  <2>3. HostTypes'
    BY <1>0, <2>1, <2>2 DEF HostTypes
  <2>4. service.state = "inactive" /\ files["unit"] = None
    BY <1>0, <2>2 DEF NothingRuns, AllOf, Files
  <2>5. ScriptInv'
    BY <2>1, <2>2, <2>4 DEF ScriptInv, From
  <2>6. NothingRuns' /\ DeploymentRecoverable'
    BY <1>0, <2>1, <2>2 DEF NothingRuns, DeploymentRecoverable
  <2> QED
    BY <2>3, <2>5, <2>6 DEF HostInv
<1>2. CASE Upgrade(v)
  <2>1. /\ script = None /\ script' \in Script /\ script' # None /\ script'.at = "stop"
        /\ script'.kind = "upgrade" /\ script'.to = v /\ script'.copied = 0
        /\ budget' \in [runs : Nat, faults : Nat]
    BY <1>0, <1>2, BeginFacts DEF Upgrade, Stages
  <2>2. UNCHANGED <<files, service, cutShort>> /\ backups' = Append(backups, files)
        /\ \A f \in Files : files[f] # None
    BY <1>2 DEF Upgrade
  <2>3. files \in Set /\ backups \in Seq(Set)
    BY <1>0 DEF HostTypes
  <2>4. /\ backups' \in Seq(Set) /\ Len(backups') > 0
        /\ Last' = files /\ (Backed => Backed') /\ (Whole(files) => Backed')
    BY <2>2, <2>3, AppendFacts
  <2>5. Complete(files) /\ Backed'
    BY <2>2, <2>4, BackedFiles
  <2>6. ~ cutShort => Whole(files)
    BY <1>0, <2>1, <2>2, <2>3, Constants DEF DeploymentRecoverable, AllOf, Files
  <2>7. HostTypes'
    BY <1>0, <2>1, <2>2, <2>4 DEF HostTypes
  <2>8. Complete(files)' /\ Complete(Last)' /\ (~ cutShort' => Whole(Last'))
    <3>1. Complete(files)' /\ Complete(Last)'
      BY <2>2, <2>4, <2>5, Zenon DEF Complete
    <3> QED
      BY <3>1, <2>2, <2>4, <2>6, Zenon
  <2>9. ScriptInv'
    BY <2>1, <2>4, <2>5, <2>8 DEF ScriptInv
  <2>10. NothingRuns' /\ DeploymentRecoverable'
    BY <1>0, <2>1, <2>2, <2>5 DEF NothingRuns, DeploymentRecoverable, Backed
  <2> QED
    BY <2>7, <2>9, <2>10 DEF HostInv
<1> QED
  BY <1>1, <1>2

LEMMA BackupCutKeepsHost ==
  ASSUME HostInv, BackupCut
  PROVE  HostInv'
<1>0. HostTypes /\ ScriptInv /\ NothingRuns /\ DeploymentRecoverable
  BY DEF HostInv
<1>1. /\ script' = None /\ cutShort' = TRUE /\ UNCHANGED <<files, service>>
      /\ budget' \in [runs : Nat, faults : Nat]
  BY <1>0 DEF BackupCut, HostTypes
<1>2. PICK n \in 0..2 : backups' = Append(backups,
        [f \in Files |-> IF \E k \in 1..n : Order[k] = f THEN files[f] ELSE None])
  BY DEF BackupCut
<1>3. [f \in Files |-> IF \E k \in 1..n : Order[k] = f THEN files[f] ELSE None] \in Set
  BY <1>0 DEF HostTypes, Set
<1>4. backups' \in Seq(Set) /\ (Backed => Backed')
  BY <1>0, <1>2, <1>3, AppendFacts DEF HostTypes
<1>5. HostTypes' /\ ScriptInv' /\ NothingRuns'
  BY <1>0, <1>1, <1>4 DEF HostTypes, ScriptInv, NothingRuns
<1>6. DeploymentRecoverable'
  BY <1>0, <1>1, <1>4 DEF DeploymentRecoverable, Backed
<1> QED
  BY <1>5, <1>6 DEF HostInv

\* A script that is cut short where it stands.
LEMMA CutShortKeepsHost ==
  ASSUME HostInv, UNCHANGED <<onDisk, service>>, End(TRUE), Fault
  PROVE  HostInv'
<1>0. HostTypes /\ ScriptInv /\ NothingRuns /\ DeploymentRecoverable
  BY DEF HostInv
<1>1. /\ script' = None /\ cutShort' = TRUE /\ UNCHANGED <<files, backups, service>>
      /\ budget' \in [runs : Nat, faults : Nat]
  BY <1>0, FaultType DEF End, onDisk
<1>2. HostTypes' /\ ScriptInv' /\ NothingRuns'
  BY <1>0, <1>1 DEF HostTypes, ScriptInv, NothingRuns
<1>3. DeploymentRecoverable'
  BY <1>0, <1>1 DEF DeploymentRecoverable
<1> QED
  BY <1>2, <1>3 DEF HostInv

\* A script that goes on with the files as they are.
LEMMA GoingOnKeepsHost ==
  ASSUME HostInv, script # None, UNCHANGED <<files, backups, cutShort>>,
         script' \in Script, script'.to = script.to, script'.kind = script.kind,
         script'.active = script.active,
         service' \in [state : {"inactive", "activating", "active"}, enabled : BOOLEAN,
                       config : Versions \cup {None}],
         service'.state = "active" => service'.config \in Versions,
         files = AllOf(None) => service'.state = "inactive",
         budget' \in [runs : Nat, faults : Nat]
  PROVE  /\ HostTypes' /\ NothingRuns' /\ DeploymentRecoverable'
         /\ Complete(files) => Complete(files)'
         /\ Complete(Last) => Complete(Last)'
         /\ Whole(Last)' = Whole(Last) /\ Backed' = Backed /\ Last' = Last
<1>0. HostTypes /\ ScriptInv /\ NothingRuns /\ DeploymentRecoverable /\ script' # None
  BY Constants DEF HostInv
<1>1. HostTypes'
  BY <1>0 DEF HostTypes
<1>2. NothingRuns'
  BY DEF NothingRuns
<1> QED
  BY <1>0, <1>1, <1>2 DEF DeploymentRecoverable, Complete, Last, Backed, Whole

LEMMA StopKeepsHost ==
  ASSUME HostInv, Stop
  PROVE  HostInv'
<1>0. HostTypes /\ ScriptInv /\ NothingRuns /\ DeploymentRecoverable
  BY DEF HostInv
<1>1. script # None /\ script.at = "stop" /\ UNCHANGED <<files, backups, cutShort, budget>>
  BY DEF Stop, Step, onDisk
<1>2. /\ script' \in Script /\ script' # None /\ script'.at = "copy" /\ script'.kind = script.kind
      /\ script'.to = script.to /\ script'.copied = script.copied /\ script'.active = script.active
  BY <1>0, <1>1, GotoFacts DEF Stop, Stages
<1>3. /\ service' \in [state : {"inactive", "activating", "active"}, enabled : BOOLEAN,
                       config : Versions \cup {None}]
      /\ service'.state = "inactive"
  BY <1>0, ServiceTypes DEF Stop
<1>4. /\ HostTypes' /\ NothingRuns' /\ DeploymentRecoverable'
      /\ Complete(files) => Complete(files)'
      /\ Complete(Last) => Complete(Last)'
      /\ Whole(Last)' = Whole(Last) /\ Backed' = Backed /\ Last' = Last
  BY <1>0, <1>1, <1>2, <1>3, GoingOnKeepsHost DEF HostTypes
<1>5. script.kind = "upgrade" /\ script.copied = 0
  BY <1>0, <1>1 DEF ScriptInv
<1>6. ScriptInv'
  BY <1>0, <1>1, <1>2, <1>3, <1>4, <1>5 DEF ScriptInv, From
<1> QED
  BY <1>4, <1>6 DEF HostInv

LEMMA ReloadKeepsHost ==
  ASSUME HostInv, Reload
  PROVE  HostInv'
<1>0. HostTypes /\ ScriptInv /\ NothingRuns /\ DeploymentRecoverable
  BY DEF HostInv
<1>1. script # None /\ script.at = "reload" /\ UNCHANGED <<files, backups, service, cutShort, budget>>
  BY DEF Reload, Step, onDisk
<1>2. /\ script' \in Script /\ script' # None /\ script'.at = "start" /\ script'.kind = script.kind
      /\ script'.to = script.to /\ script'.copied = script.copied /\ script'.active = script.active
  BY <1>0, <1>1, GotoFacts DEF Reload, Stages
<1>3. /\ HostTypes' /\ NothingRuns' /\ DeploymentRecoverable'
      /\ Complete(files) => Complete(files)'
      /\ Complete(Last) => Complete(Last)'
      /\ Whole(Last)' = Whole(Last) /\ Backed' = Backed /\ Last' = Last
  BY <1>0, <1>1, <1>2, GoingOnKeepsHost DEF HostTypes, NothingRuns
<1>4. ScriptInv'
  BY <1>0, <1>1, <1>2, <1>3 DEF ScriptInv
<1> QED
  BY <1>3, <1>4 DEF HostInv

LEMMA StartKeepsHost ==
  ASSUME HostInv, Start
  PROVE  HostInv'
<1>0. HostTypes /\ ScriptInv /\ NothingRuns /\ DeploymentRecoverable
  BY DEF HostInv
<1>1. script # None /\ script.at = "start" /\ UNCHANGED <<files, backups, cutShort, budget>>
  BY DEF Start, Step, onDisk
<1>2. files = AllOf(script.to) /\ script.to \in Versions /\ service.state = "inactive"
  BY <1>0, <1>1 DEF ScriptInv, HostTypes, Script
<1>3. files["config"] = script.to /\ files # AllOf(None)
  BY <1>2, Constants DEF AllOf, Files
<1>4. CASE (script.kind = "install" /\ Goto("verify")) \/ (script.kind = "upgrade" /\ Goto("verify"))
  <2>1. /\ script' \in Script /\ script' # None /\ script'.at = "verify" /\ script'.kind = script.kind
        /\ script'.to = script.to /\ script'.copied = script.copied /\ script'.active = script.active
    BY <1>0, <1>1, <1>4, GotoFacts DEF Stages
  <2>2. script.kind \in {"install", "upgrade"} /\ script'.at # "compare"
    BY <1>0, <1>1, <2>1 DEF HostTypes, Script
  <2>3. ~ Goto("compare")
    <3>1. ASSUME Goto("compare") PROVE script'.at = "compare"
      BY <1>0, <1>1, <3>1, GotoFacts DEF Stages
    <3> QED
      BY <2>2, <3>1
  <2>4. \/ service' = [state |-> "active", enabled |-> TRUE, config |-> files["config"]]
        \/ Running(files["config"])
    BY <2>3 DEF Start
  <2>5. /\ service' \in [state : {"inactive", "activating", "active"}, enabled : BOOLEAN,
                         config : Versions \cup {None}]
        /\ service'.state = "active" /\ service'.config = files["config"]
    <3>1. CASE service' = [state |-> "active", enabled |-> TRUE, config |-> files["config"]]
      BY <1>2, <1>3, <3>1
    <3>2. CASE Running(files["config"])
      BY <1>0, <1>2, <1>3, <3>2, ServiceTypes
    <3> QED
      BY <2>4, <3>1, <3>2
  <2>6. /\ HostTypes' /\ NothingRuns' /\ DeploymentRecoverable'
        /\ Complete(files) => Complete(files)'
        /\ Complete(Last) => Complete(Last)'
        /\ Whole(Last)' = Whole(Last) /\ Backed' = Backed /\ Last' = Last
    BY <1>0, <1>1, <1>2, <1>3, <2>1, <2>5, GoingOnKeepsHost DEF HostTypes
  <2>7. ScriptInv'
    BY <1>0, <1>1, <2>1, <2>5, <2>6 DEF ScriptInv
  <2> QED
    BY <2>6, <2>7 DEF HostInv
<1>5. CASE Goto("compare") /\ UNCHANGED service
  <2>1. /\ script' \in Script /\ script' # None /\ script'.at = "compare" /\ script'.kind = script.kind
        /\ script'.to = script.to /\ script'.copied = script.copied /\ script'.active = script.active
    BY <1>0, <1>1, <1>5, GotoFacts DEF Stages
  <2>2. /\ HostTypes' /\ NothingRuns' /\ DeploymentRecoverable'
        /\ Complete(files) => Complete(files)'
        /\ Complete(Last) => Complete(Last)'
        /\ Whole(Last)' = Whole(Last) /\ Backed' = Backed /\ Last' = Last
    BY <1>0, <1>1, <1>3, <1>5, <2>1, GoingOnKeepsHost DEF HostTypes
  <2>3. ScriptInv'
    BY <1>0, <1>1, <1>2, <1>5, <2>1, <2>2 DEF ScriptInv
  <2> QED
    BY <2>2, <2>3 DEF HostInv
<1> QED
  BY <1>4, <1>5 DEF Start

LEMMA VerifyKeepsHost ==
  ASSUME HostInv, Verify
  PROVE  HostInv'
<1>0. HostTypes /\ ScriptInv /\ NothingRuns /\ DeploymentRecoverable
  BY DEF HostInv
<1>1. script # None /\ script.at = "verify" /\ UNCHANGED <<files, backups, service, cutShort, budget>>
  BY DEF Verify, Step, onDisk
<1>2. /\ script' \in Script /\ script' # None /\ script'.at = "compare" /\ script'.kind = script.kind
      /\ script'.to = script.to /\ script'.copied = script.copied /\ script'.active = script.active
  BY <1>0, <1>1, GotoFacts DEF Verify, Stages
<1>3. /\ HostTypes' /\ NothingRuns' /\ DeploymentRecoverable'
      /\ Complete(files) => Complete(files)'
      /\ Complete(Last) => Complete(Last)'
      /\ Whole(Last)' = Whole(Last) /\ Backed' = Backed /\ Last' = Last
  BY <1>0, <1>1, <1>2, GoingOnKeepsHost DEF HostTypes, NothingRuns
<1>4. ScriptInv'
  BY <1>0, <1>1, <1>2, <1>3 DEF ScriptInv
<1> QED
  BY <1>3, <1>4 DEF HostInv

LEMMA CompareKeepsHost ==
  ASSUME HostInv, Compare
  PROVE  HostInv'
<1>0. HostTypes /\ ScriptInv /\ NothingRuns /\ DeploymentRecoverable
  BY DEF HostInv
<1>1. script # None /\ script.at = "compare" /\ UNCHANGED <<files, backups, service, budget>>
  BY DEF Compare, Step, onDisk
<1>2. /\ files = AllOf(script.to) /\ script.to \in Versions
      /\ service.state = "active" => service.config = files["config"]
  BY <1>0, <1>1 DEF ScriptInv, HostTypes, Script
<1>3. CASE script.kind = "upgrade"
  <2>1. Goto("prune") /\ UNCHANGED cutShort
    BY <1>3 DEF Compare
  <2>2. /\ script' \in Script /\ script' # None /\ script'.at = "prune" /\ script'.kind = script.kind
        /\ script'.to = script.to /\ script'.copied = script.copied /\ script'.active = script.active
    BY <1>0, <1>1, <2>1, GotoFacts DEF Stages
  <2>3. /\ HostTypes' /\ NothingRuns' /\ DeploymentRecoverable'
        /\ Complete(files) => Complete(files)'
        /\ Complete(Last) => Complete(Last)'
        /\ Whole(Last)' = Whole(Last) /\ Backed' = Backed /\ Last' = Last
    BY <1>0, <1>1, <2>1, <2>2, GoingOnKeepsHost DEF HostTypes, NothingRuns
  <2>4. ScriptInv'
    BY <1>0, <1>1, <1>2, <1>3, <2>1, <2>2, <2>3 DEF ScriptInv
  <2> QED
    BY <2>3, <2>4 DEF HostInv
<1>4. CASE script.kind # "upgrade"
  <2>1. script' = None /\ cutShort' = FALSE
    BY <1>4 DEF Compare, End
  <2>2. HostTypes' /\ ScriptInv' /\ NothingRuns'
    BY <1>0, <1>1, <2>1 DEF HostTypes, ScriptInv, NothingRuns
  <2>3. DeploymentRecoverable'
    BY <1>0, <1>1, <1>2, <2>1 DEF DeploymentRecoverable, Whole
  <2> QED
    BY <2>2, <2>3 DEF HostInv
<1> QED
  BY <1>3, <1>4

\* A copy of one file more, from the staged set or from a backup.
LEMMA OneMore ==
  ASSUME HostTypes, NEW set, NEW n \in 0..2, set \in [Files -> Versions], From(set, n),
         files' = [files EXCEPT ![Order[n + 1]] = set[Order[n + 1]]]
  PROVE  /\ files' \in Set
         /\ Complete(files) => Complete(files')
         /\ n + 1 >= 1 => files'["agent"] = set["agent"]
         /\ n + 1 >= 2 => files'["config"] = set["config"]
         /\ n + 1 >= 3 => files'["unit"] = set["unit"]
         /\ n + 1 < 3 => files'["unit"] = files["unit"]
<1>1. /\ "agent" \in Files /\ "config" \in Files /\ "unit" \in Files
      /\ \A f \in Files : set[f] \in Versions /\ files[f] \in Versions \cup {None}
  BY DEF HostTypes, Set, Files
<1>2. CASE n = 0
  <2>1. Order[n + 1] = "agent"
    BY <1>2 DEF Order
  <2> QED
    BY <1>1, <1>2, <2>1 DEF HostTypes, Set, Complete, Files
<1>3. CASE n = 1
  <2>1. Order[n + 1] = "config"
    BY <1>3 DEF Order
  <2> QED
    BY <1>1, <1>3, <2>1 DEF HostTypes, Set, Complete, Files, From
<1>4. CASE n = 2
  <2>1. Order[n + 1] = "unit"
    BY <1>4 DEF Order
  <2> QED
    BY <1>1, <1>4, <2>1 DEF HostTypes, Set, Complete, Files, From
<1> QED
  BY <1>2, <1>3, <1>4

LEMMA CopyKeepsHost ==
  ASSUME HostInv, Copy
  PROVE  HostInv'
<1>0. HostTypes /\ ScriptInv /\ NothingRuns /\ DeploymentRecoverable
  BY DEF HostInv
<1>1. /\ script # None /\ script.at = "copy" /\ script \in Script
      /\ UNCHANGED <<backups, service, cutShort, budget>>
  BY <1>0 DEF Copy, Step, HostTypes
<1>2. /\ script.to \in Versions /\ script.copied \in 0..3 /\ script.kind \in {"install", "upgrade"}
      /\ script.active \in BOOLEAN /\ service.state = "inactive" /\ From(AllOf(script.to), script.copied)
  BY <1>0, <1>1 DEF ScriptInv, Script
<1>3. AllOf(script.to) \in Set /\ AllOf(script.to) \in [Files -> Versions]
      /\ \A f \in Files : AllOf(script.to)[f] = script.to
  BY <1>2, SetIsFunction DEF AllOf
<1>4. CASE script.copied < 3
  <2>1. /\ files' = [files EXCEPT ![Order[script.copied + 1]] = script.to]
        /\ script' = [script EXCEPT !.copied = script.copied + 1]
        /\ script.copied \in 0..2
    BY <1>2, <1>4 DEF Copy
  <2>2. /\ script' \in Script /\ script'.at = "copy" /\ script'.kind = script.kind
        /\ script'.to = script.to /\ script'.copied = script.copied + 1
        /\ script'.active = script.active
    BY <1>1, <2>1 DEF Script
  <2>3. script' # None
    BY <2>2, Constants
  <2>4. Order[script.copied + 1] \in Files
    BY <2>1 DEF Order, Files
  <2>5. files' = [files EXCEPT ![Order[script.copied + 1]] =
                                AllOf(script.to)[Order[script.copied + 1]]]
    BY <1>3, <2>1, <2>4
  <2>6. /\ files' \in Set /\ (Complete(files) => Complete(files'))
        /\ script.copied + 1 >= 1 => files'["agent"] = AllOf(script.to)["agent"]
        /\ script.copied + 1 >= 2 => files'["config"] = AllOf(script.to)["config"]
        /\ script.copied + 1 >= 3 => files'["unit"] = AllOf(script.to)["unit"]
        /\ script.copied + 1 < 3 => files'["unit"] = files["unit"]
    BY <1>0, <1>2, <1>3, <2>1, <2>5, OneMore
  <2>7. script.kind = "upgrade" => /\ Complete(files)' /\ Len(backups') > 0 /\ Complete(Last)'
                                   /\ Backed' /\ (~ cutShort' => Whole(Last)')
    BY <1>0, <1>1, <2>6 DEF ScriptInv, Complete, Last, Backed, Whole
  <2>8. From(AllOf(script.to), script.copied)'
    BY <1>2, <2>2, <2>6 DEF From, AllOf
  <2>9. script'.kind = "install" /\ script'.copied < 3 => files'["unit"] = None
    BY <1>0, <1>1, <1>4, <2>2, <2>6 DEF ScriptInv
  <2>10. ScriptInv'
    <3>1. script.active => script.kind = "upgrade"
      BY <1>0, <1>1 DEF ScriptInv
    <3> QED
      BY <1>1, <1>2, <2>2, <2>7, <2>8, <2>9, <3>1 DEF ScriptInv
  <2>11. HostTypes' /\ NothingRuns'
    BY <1>0, <1>1, <1>2, <2>2, <2>6 DEF HostTypes, NothingRuns
  <2>12. (\A f \in Files : files'[f] # None) => Whole(files') \/ Backed'
    <3>1. CASE script.kind = "upgrade"
      BY <2>7, <3>1
    <3>2. CASE script.kind = "install" /\ script.copied + 1 < 3
      <4>1. files'["unit"] = None
        BY <1>0, <1>1, <1>4, <2>6, <3>2 DEF ScriptInv
      <4> QED
        BY <4>1 DEF Files
    <3>3. CASE script.kind = "install" /\ script.copied + 1 >= 3
      <4>1. files' = AllOf(script.to)
        BY <1>2, <1>3, <2>6, <3>3, FromAll
      <4> QED
        BY <1>2, <4>1 DEF Whole
    <3> QED
      BY <1>2, <3>1, <3>2, <3>3
  <2>13. DeploymentRecoverable'
    BY <2>3, <2>12 DEF DeploymentRecoverable, Backed, Whole
  <2> QED
    BY <2>10, <2>11, <2>13 DEF HostInv
<1>5. CASE script.copied = 3
  <2>1. Goto("reload") /\ UNCHANGED files
    BY <1>5 DEF Copy
  <2>2. /\ script' \in Script /\ script' # None /\ script'.at = "reload" /\ script'.kind = script.kind
        /\ script'.to = script.to /\ script'.copied = script.copied /\ script'.active = script.active
    BY <1>0, <1>1, <2>1, GotoFacts DEF Stages
  <2>3. files = AllOf(script.to)
    BY <1>0, <1>2, <1>3, <1>5, FromAll DEF From, HostTypes
  <2>4. /\ HostTypes' /\ NothingRuns' /\ DeploymentRecoverable'
        /\ Complete(files) => Complete(files)'
        /\ Complete(Last) => Complete(Last)'
        /\ Whole(Last)' = Whole(Last) /\ Backed' = Backed /\ Last' = Last
    BY <1>0, <1>1, <2>1, <2>2, GoingOnKeepsHost DEF HostTypes, NothingRuns
  <2>5. ScriptInv'
    BY <1>0, <1>1, <1>2, <2>1, <2>2, <2>3, <2>4 DEF ScriptInv
  <2> QED
    BY <2>4, <2>5 DEF HostInv
<1> QED
  BY <1>2, <1>4, <1>5

LEMMA PruneKeepsHost ==
  ASSUME HostInv, Prune
  PROVE  HostInv'
<1>0. HostTypes /\ ScriptInv /\ NothingRuns /\ DeploymentRecoverable
  BY DEF HostInv
<1>1. /\ script # None /\ script.at = "prune" /\ UNCHANGED <<files, service, budget>>
      /\ script' = None /\ cutShort' = FALSE
  BY DEF Prune, Step, End
<1>2. /\ files = AllOf(script.to) /\ script.to \in Versions
      /\ service.state = "active" => service.config = files["config"]
  BY <1>0, <1>1 DEF ScriptInv, HostTypes, Script
<1>3. backups' \in Seq(Set)
  <2>1. backups \in Seq(Set) /\ Keep \in Nat \ {0}
    BY <1>0, Constants DEF HostTypes
  <2>2. CASE UNCHANGED backups
    BY <2>1, <2>2
  <2>3. CASE backups' = SubSeq(backups, Len(backups) - Keep + 1, Len(backups)) /\ Len(backups) > Keep
    BY <2>1, <2>3
  <2> QED
    BY <2>1, <2>2, <2>3 DEF Prune
<1>4. HostTypes' /\ ScriptInv' /\ NothingRuns'
  BY <1>0, <1>1, <1>3 DEF HostTypes, ScriptInv, NothingRuns
<1>5. DeploymentRecoverable'
  BY <1>1, <1>2 DEF DeploymentRecoverable, Whole
<1> QED
  BY <1>4, <1>5 DEF HostInv

\* The rollback is reached from every command after the stop.
LEMMA FailsKeepsHost ==
  ASSUME HostInv, Fails \/ (CopyFails /\ script.kind = "upgrade")
  PROVE  HostInv'
<1>0. HostTypes /\ ScriptInv /\ NothingRuns /\ DeploymentRecoverable
  BY DEF HostInv
<1>1. /\ script # None /\ script.at \in {"copy", "reload", "start", "verify", "compare"}
      /\ script.at = "copy" => script.kind = "upgrade"
      /\ UNCHANGED <<files, backups, service, cutShort>> /\ Goto("undo_stop")
      /\ budget' \in [runs : Nat, faults : Nat]
  <2>1. CASE Fails
    <3>1. Fault \/ UNCHANGED budget
      BY <2>1 DEF Fails
    <3>2. budget' \in [runs : Nat, faults : Nat]
      BY <1>0, <3>1, FaultType DEF HostTypes
    <3> QED
      BY <2>1, <3>2 DEF Fails, Step, onDisk
  <2>2. CASE CopyFails /\ script.kind = "upgrade"
    BY <1>0, <2>2, FaultType DEF CopyFails, Step, onDisk
  <2> QED
    BY <2>1, <2>2
<1>2. /\ script' \in Script /\ script' # None /\ script'.at = "undo_stop" /\ script'.kind = script.kind
      /\ script'.to = script.to /\ script'.copied = script.copied /\ script'.active = script.active
  BY <1>0, <1>1, GotoFacts DEF Stages
<1>3. script.kind = "install" => files = AllOf(script.to)
  BY <1>0, <1>1 DEF ScriptInv
<1>4. /\ HostTypes' /\ NothingRuns' /\ DeploymentRecoverable'
      /\ Complete(files) => Complete(files)'
      /\ Complete(Last) => Complete(Last)'
      /\ Whole(Last)' = Whole(Last) /\ Backed' = Backed /\ Last' = Last
  BY <1>0, <1>1, <1>2, GoingOnKeepsHost DEF HostTypes, NothingRuns
<1>5. ScriptInv'
  BY <1>0, <1>1, <1>2, <1>3, <1>4 DEF ScriptInv
<1> QED
  BY <1>4, <1>5 DEF HostInv

LEMMA UndoStopKeepsHost ==
  ASSUME HostInv, UndoStop
  PROVE  HostInv'
<1>0. HostTypes /\ ScriptInv /\ NothingRuns /\ DeploymentRecoverable
  BY DEF HostInv
<1>1. /\ script # None /\ script.at = "undo_stop" /\ script \in Script
      /\ UNCHANGED <<files, backups, cutShort, budget>>
  BY <1>0 DEF UndoStop, Step, onDisk, HostTypes
<1>2. /\ script' \in Script /\ script'.at = "undo" /\ script'.kind = script.kind
      /\ script'.to = script.to /\ script'.copied = 0 /\ script'.active = script.active
  <2>1. script' = [script EXCEPT !.at = "undo", !.copied = 0]
    BY Zenon DEF UndoStop
  <2> DEFINE mid == [script EXCEPT !.at = "undo"]
  <2>2. /\ mid \in Script /\ mid.at = "undo" /\ mid.kind = script.kind
        /\ mid.to = script.to /\ mid.active = script.active
    BY <1>1 DEF Script, Stages
  <2>3. script' = [mid EXCEPT !.copied = 0]
    BY <2>1
  <2> HIDE DEF mid
  <2> QED
    BY <2>2, <2>3 DEF Script
<1>3. /\ service' \in [state : {"inactive", "activating", "active"}, enabled : BOOLEAN,
                       config : Versions \cup {None}]
      /\ service'.state = "inactive"
  <2>1. (script.kind = "upgrade" /\ service.enabled) \in BOOLEAN
    OBVIOUS
  <2> QED
    BY <2>1 DEF UndoStop
<1>4. /\ HostTypes' /\ NothingRuns' /\ DeploymentRecoverable'
      /\ Complete(files) => Complete(files)'
      /\ Complete(Last) => Complete(Last)'
      /\ Whole(Last)' = Whole(Last) /\ Backed' = Backed /\ Last' = Last
  BY <1>0, <1>1, <1>2, <1>3, GoingOnKeepsHost DEF HostTypes
<1>5. ScriptInv'
  BY <1>0, <1>1, <1>2, <1>3, <1>4 DEF ScriptInv, From
<1> QED
  BY <1>4, <1>5 DEF HostInv

LEMMA UndoInstallKeepsHost ==
  ASSUME HostInv, UndoInstall
  PROVE  HostInv'
<1>0. HostTypes /\ ScriptInv /\ NothingRuns /\ DeploymentRecoverable
  BY DEF HostInv
<1>1. /\ script # None /\ script.at = "undo" /\ UNCHANGED <<backups, service, budget>>
      /\ files' = AllOf(None) /\ script' = None /\ cutShort' = cutShort
  BY DEF UndoInstall, Step, End
<1>2. service.state = "inactive" /\ AllOf(None) \in Set /\ (\A f \in Files : AllOf(None)[f] = None)
  BY <1>0, <1>1, SetIsFunction DEF ScriptInv
<1>3. HostTypes' /\ ScriptInv' /\ NothingRuns'
  BY <1>0, <1>1, <1>2 DEF HostTypes, ScriptInv, NothingRuns
<1>4. AllOf(None)' = AllOf(None) /\ "agent" \in Files
  BY DEF AllOf, Files
<1>5. DeploymentRecoverable'
  BY <1>1, <1>2, <1>4 DEF DeploymentRecoverable
<1> QED
  BY <1>3, <1>5 DEF HostInv

LEMMA UndoUpgradeKeepsHost ==
  ASSUME HostInv, UndoUpgrade
  PROVE  HostInv'
<1>0. HostTypes /\ ScriptInv /\ NothingRuns /\ DeploymentRecoverable
  BY DEF HostInv
<1>1. /\ script # None /\ script.at = "undo" /\ script \in Script /\ script.kind = "upgrade"
      /\ UNCHANGED <<backups, service, cutShort, budget>>
  BY <1>0 DEF UndoUpgrade, Step, HostTypes
<1>2. /\ script.copied \in 0..3 /\ service.state = "inactive" /\ From(Last, script.copied)
      /\ Complete(files) /\ Len(backups) > 0 /\ Complete(Last) /\ Backed
      /\ ~ cutShort => Whole(Last)
  BY <1>0, <1>1 DEF ScriptInv, Script
<1>3. Last \in Set /\ Last \in [Files -> Versions]
  <2>1. Last \in Set
    BY <1>0, <1>2 DEF HostTypes, Last
  <2> QED
    BY <1>2, <2>1 DEF Set, Complete
<1>4. CASE script.copied < 3
  <2>1. /\ files' = [files EXCEPT ![Order[script.copied + 1]] = Last[Order[script.copied + 1]]]
        /\ script' = [script EXCEPT !.copied = script.copied + 1]
        /\ script.copied \in 0..2
    BY <1>2, <1>4 DEF UndoUpgrade, Last
  <2>2. /\ script' \in Script /\ script'.at = "undo" /\ script'.kind = "upgrade"
        /\ script'.to = script.to /\ script'.copied = script.copied + 1
        /\ script'.active = script.active
    BY <1>1, <2>1 DEF Script
  <2>3. script' # None
    BY <2>2, Constants
  <2>4. /\ files' \in Set /\ (Complete(files) => Complete(files'))
        /\ script.copied + 1 >= 1 => files'["agent"] = Last["agent"]
        /\ script.copied + 1 >= 2 => files'["config"] = Last["config"]
        /\ script.copied + 1 >= 3 => files'["unit"] = Last["unit"]
    BY <1>0, <1>2, <1>3, <2>1, OneMore
  <2>5. /\ Complete(files)' /\ Len(backups') > 0 /\ Complete(Last)' /\ Backed'
        /\ (~ cutShort' => Whole(Last)') /\ Last' = Last
    BY <1>1, <1>2, <2>4 DEF Complete, Last, Backed, Whole
  <2>6. From(Last, script.copied)'
    BY <2>2, <2>4, <2>5 DEF From
  <2>7. ScriptInv'
    BY <1>1, <1>2, <2>2, <2>5, <2>6 DEF ScriptInv
  <2>8. HostTypes' /\ NothingRuns'
    BY <1>0, <1>1, <1>2, <2>2, <2>4 DEF HostTypes, NothingRuns
  <2>9. DeploymentRecoverable'
    BY <2>3, <2>5 DEF DeploymentRecoverable, Backed
  <2> QED
    BY <2>7, <2>8, <2>9 DEF HostInv
<1>5. CASE script.copied = 3
  <2>1. Goto("undo_start") /\ UNCHANGED files
    BY <1>5 DEF UndoUpgrade
  <2>2. /\ script' \in Script /\ script' # None /\ script'.at = "undo_start"
        /\ script'.kind = script.kind /\ script'.to = script.to /\ script'.copied = script.copied
        /\ script'.active = script.active
    BY <1>0, <1>1, <2>1, GotoFacts DEF Stages
  <2>3. files = Last
    BY <1>0, <1>2, <1>3, <1>5, FromAll DEF From, HostTypes
  <2>4. /\ HostTypes' /\ NothingRuns' /\ DeploymentRecoverable'
        /\ Complete(files) => Complete(files)'
        /\ Complete(Last) => Complete(Last)'
        /\ Whole(Last)' = Whole(Last) /\ Backed' = Backed /\ Last' = Last
    BY <1>0, <1>1, <2>1, <2>2, GoingOnKeepsHost DEF HostTypes, NothingRuns
  <2>5. ScriptInv'
    BY <1>0, <1>1, <1>2, <2>1, <2>2, <2>3, <2>4 DEF ScriptInv
  <2> QED
    BY <2>4, <2>5 DEF HostInv
<1> QED
  BY <1>2, <1>4, <1>5

LEMMA UndoStartKeepsHost ==
  ASSUME HostInv, UndoStart
  PROVE  HostInv'
<1>0. HostTypes /\ ScriptInv /\ NothingRuns /\ DeploymentRecoverable
  BY DEF HostInv
<1>1. /\ script # None /\ script.at = "undo_start" /\ UNCHANGED <<files, backups, budget>>
      /\ script' = None /\ cutShort' = cutShort
  BY DEF UndoStart, Step, End, onDisk
<1>2. /\ files = Last /\ Complete(files) /\ service.state = "inactive"
      /\ ~ cutShort => Whole(files)
  BY <1>0, <1>1 DEF ScriptInv
<1>3. files["config"] \in Versions
  BY <1>2 DEF Complete, Files
<1>4. \/ UNCHANGED service
      \/ /\ service' \in [state : {"inactive", "activating", "active"}, enabled : BOOLEAN,
                          config : Versions \cup {None}]
         /\ service'.state = "active" /\ service'.config = files["config"]
  BY <1>0, <1>3, ServiceTypes DEF UndoStart
<1>5. HostTypes' /\ ScriptInv'
  BY <1>0, <1>1, <1>3, <1>4 DEF HostTypes, ScriptInv
<1>6. files # AllOf(None)
  BY <1>3, Constants DEF AllOf, Files
<1>7. NothingRuns' /\ DeploymentRecoverable'
  BY <1>0, <1>1, <1>2, <1>4, <1>6 DEF NothingRuns, DeploymentRecoverable
<1> QED
  BY <1>5, <1>7 DEF HostInv

LEMMA DeploymentKeepsHost ==
  ASSUME HostInv, Deployment
  PROVE  HostInv'
<1>1. ASSUME NEW v \in Versions, Install(v) \/ Upgrade(v) PROVE HostInv'
  BY <1>1, BeginsKeepHost
<1>2. CASE CopyFails
  <2>1. CASE script.kind = "upgrade"
    BY <1>2, <2>1, FailsKeepsHost
  <2>2. CASE script.kind # "upgrade"
    BY <1>2, <2>2, CutShortKeepsHost DEF CopyFails
  <2> QED
    BY <2>1, <2>2
<1>3. CASE UndoFails \/ Cut
  BY <1>3, CutShortKeepsHost DEF UndoFails, Cut
<1> QED
  BY <1>1, <1>2, <1>3, BackupCutKeepsHost, StopKeepsHost, CopyKeepsHost, ReloadKeepsHost, StartKeepsHost,
     VerifyKeepsHost, CompareKeepsHost, PruneKeepsHost, FailsKeepsHost, UndoStopKeepsHost,
     UndoInstallKeepsHost, UndoUpgradeKeepsHost, UndoStartKeepsHost DEF Deployment

-----------------------------------------------------------------------------
(***************************************************************************)
(* The traffic totals.                                                     *)
(***************************************************************************)

\* An interface has moved what its counter has grown by since the last count, at
\* least, and just that unless its counter has started again since.
CounterTrue(i) ==
  LET last == traffic.counters[i] IN
  /\ truth.upto[i] <= moved[i] /\ last.index <= net[i].index
  /\ last.index = net[i].index => net[i].bytes + truth.upto[i] <= last.bytes + moved[i]
  /\ i \in truth.exact => /\ traffic.boot = boot /\ last.index = net[i].index
                          /\ net[i].bytes + truth.upto[i] = last.bytes + moved[i]

\* The periods counted before are not later than this one.
PeriodsInOrder ==
  /\ traffic.period = {r \in traffic.policy.resets : r <= traffic.last}
  /\ \A s \in truth.saved : s.period \subseteq traffic.period

TrafficInv ==
  /\ TotalsAreTrue /\ TotalsOnlyGrow
  /\ traffic # None => PeriodsInOrder /\ \A i \in traffic.policy.names : CounterTrue(i)

Saved == [period : SUBSET Nat, total : [Interfaces -> Nat]]
Truth == [from : [Interfaces -> Nat], upto : [Interfaces -> Nat],
          exact : SUBSET Interfaces, saved : SUBSET Saved]

\* The part of TypeOK that the counts are about.
CountTypes ==
  /\ clock \in Nat /\ boot \in Nat
  /\ net \in [Interfaces -> Counter]
  /\ traffic \in Traffic \cup {None}
  /\ moved \in [Interfaces -> Nat]
  /\ truth \in Truth

LEMMA InitTraffic == Init => CountTypes /\ TrafficInv
<1> SUFFICES ASSUME Init PROVE CountTypes /\ TrafficInv
  OBVIOUS
<1>1. /\ clock = 1 /\ boot = 0 /\ traffic = None
      /\ net = [i \in Interfaces |-> [bytes |-> 0, index |-> 1]]
      /\ moved = [i \in Interfaces |-> 0]
      /\ truth = [from |-> moved, upto |-> moved, exact |-> {}, saved |-> {}]
  BY DEF Init
<1>2. CountTypes
  BY <1>1 DEF CountTypes, Counter, Truth
<1>3. TrafficInv
  BY <1>1 DEF TrafficInv, TotalsAreTrue, TotalsOnlyGrow
<1> QED
  BY <1>2, <1>3

LEMMA QuietTraffic ==
  ASSUME CountTypes, TrafficInv, UNCHANGED <<boot, net, moved, truth>>, clock' \in Nat,
         traffic' = traffic \/ traffic' = None
  PROVE  CountTypes' /\ TrafficInv'
<1>1. CountTypes'
  BY DEF CountTypes
<1>2. CASE traffic' = traffic
  BY <1>1, <1>2 DEF TrafficInv, TotalsAreTrue, TotalsOnlyGrow, PeriodsInOrder, CounterTrue
<1>3. CASE traffic' = None
  BY <1>1, <1>3 DEF TrafficInv, TotalsAreTrue, TotalsOnlyGrow
<1> QED
  BY <1>2, <1>3

\* What happens to counters: only they, the bytes moved and the exactness change.
LEMMA CountersChange ==
  ASSUME CountTypes, TrafficInv, UNCHANGED <<traffic, clock>>, boot' \in Nat,
         net' \in [Interfaces -> Counter], moved' \in [Interfaces -> Nat],
         NEW exact \in SUBSET truth.exact, truth' = [truth EXCEPT !.exact = exact],
         \A i \in Interfaces : traffic # None /\ CounterTrue(i) => CounterTrue(i)'
  PROVE  CountTypes' /\ TrafficInv'
<1>1. /\ truth' \in Truth /\ truth'.from = truth.from /\ truth'.upto = truth.upto
      /\ truth'.saved = truth.saved /\ truth'.exact \subseteq truth.exact
  BY DEF CountTypes, Truth
<1>2. CountTypes'
  BY <1>1 DEF CountTypes
<1>3. TotalsAreTrue' /\ TotalsOnlyGrow'
  BY <1>1 DEF TrafficInv, TotalsAreTrue, TotalsOnlyGrow
<1>4. ASSUME traffic # None PROVE PeriodsInOrder'
  BY <1>1, <1>4 DEF TrafficInv, PeriodsInOrder
<1>5. ASSUME traffic # None PROVE \A i \in traffic.policy.names : CounterTrue(i)'
  <2>1. traffic.policy.names \subseteq Interfaces
    BY <1>5 DEF CountTypes, Traffic, Policies
  <2> QED
    BY <1>5, <2>1 DEF TrafficInv
<1> QED
  BY <1>2, <1>3, <1>4, <1>5 DEF TrafficInv

LEMMA MoveKeepsTraffic ==
  ASSUME CountTypes, TrafficInv, NEW j \in Interfaces, Move(j)
  PROVE  CountTypes' /\ TrafficInv'
<1>1. /\ UNCHANGED <<traffic, clock, boot, truth>>
      /\ moved' = [moved EXCEPT ![j] = @ + 1] /\ net' = [net EXCEPT ![j].bytes = @ + 1]
  BY DEF Move
<1>2. /\ \A i \in Interfaces : net[i] \in Counter /\ moved[i] \in Nat
      /\ net' \in [Interfaces -> Counter] /\ moved' \in [Interfaces -> Nat]
  BY <1>1 DEF CountTypes, Counter
<1>3. \A i \in Interfaces : /\ net'[i].index = net[i].index
                            /\ i = j => net'[i].bytes = net[i].bytes + 1 /\ moved'[i] = moved[i] + 1
                            /\ i # j => net'[i].bytes = net[i].bytes /\ moved'[i] = moved[i]
  BY <1>1, <1>2 DEF CountTypes, Counter
<1>4. ASSUME NEW i \in Interfaces, traffic # None, CounterTrue(i) PROVE CounterTrue(i)'
  <2>1. /\ traffic.counters[i] \in Counter /\ truth.upto[i] \in Nat
        /\ net[i] \in Counter /\ moved[i] \in Nat
    BY <1>2, <1>4 DEF CountTypes, Traffic, Truth
  <2> QED
    BY <1>1, <1>3, <1>4, <2>1 DEF CounterTrue, Counter
<1>5. truth' = [truth EXCEPT !.exact = truth.exact] /\ boot' \in Nat
  BY <1>1 DEF CountTypes, Truth
<1> QED
  BY <1>1, <1>2, <1>4, <1>5, CountersChange

LEMMA RenewKeepsTraffic ==
  ASSUME CountTypes, TrafficInv, NEW j \in Interfaces, NEW n \in Counter, Renew(j, n)
  PROVE  CountTypes' /\ TrafficInv'
<1>1. /\ UNCHANGED <<traffic, clock, boot, moved>>
      /\ net' = [net EXCEPT ![j] = n] /\ truth' = [truth EXCEPT !.exact = truth.exact \ {j}]
      /\ (n.index = net[j].index /\ n.bytes = 0) \/ n.index = net[j].index + 1
  BY DEF Renew
<1>2. net' \in [Interfaces -> Counter] /\ moved' \in [Interfaces -> Nat] /\ boot' \in Nat
  BY <1>1 DEF CountTypes
<1>3. ASSUME NEW i \in Interfaces, traffic # None, CounterTrue(i) PROVE CounterTrue(i)'
  <2>1. /\ traffic.counters[i] \in Counter /\ truth.upto[i] \in Nat
        /\ net[i] \in Counter /\ moved[i] \in Nat
    BY <1>3 DEF CountTypes, Traffic, Truth
  <2>2. truth'.upto = truth.upto /\ truth'.exact = truth.exact \ {j}
    BY <1>1 DEF CountTypes, Truth
  <2>3. CASE i = j
    <3>1. net'[i] = n /\ i \notin truth'.exact
      BY <1>1, <2>2, <2>3 DEF CountTypes
    <3> QED
      BY <1>1, <1>3, <2>1, <2>2, <2>3, <3>1 DEF CounterTrue, Counter
  <2>4. CASE i # j
    <3>1. net'[i] = net[i]
      BY <1>1, <2>4 DEF CountTypes
    <3> QED
      BY <1>1, <1>3, <2>2, <2>4, <3>1 DEF CounterTrue
  <2> QED
    BY <2>3, <2>4
<1> QED
  BY <1>1, <1>2, <1>3, CountersChange

LEMMA RebootKeepsTraffic ==
  ASSUME CountTypes, TrafficInv, Reboot
  PROVE  CountTypes' /\ TrafficInv'
<1>1. /\ UNCHANGED <<traffic, clock, moved>> /\ boot' = boot + 1
      /\ net' = [i \in Interfaces |-> [net[i] EXCEPT !.bytes = 0]]
      /\ truth' = [truth EXCEPT !.exact = {}]
  BY DEF Reboot
<1>2. net' \in [Interfaces -> Counter] /\ moved' \in [Interfaces -> Nat] /\ boot' \in Nat
  BY <1>1 DEF CountTypes, Counter
<1>3. \A i \in Interfaces : net'[i].bytes = 0 /\ net'[i].index = net[i].index
  BY <1>1 DEF CountTypes, Counter
<1>4. ASSUME NEW i \in Interfaces, traffic # None, CounterTrue(i) PROVE CounterTrue(i)'
  <2>1. /\ traffic.counters[i] \in Counter /\ truth.upto[i] \in Nat
        /\ net[i] \in Counter /\ moved[i] \in Nat
    BY <1>4 DEF CountTypes, Traffic, Truth
  <2>2. truth'.upto = truth.upto /\ truth'.exact = {}
    BY <1>1 DEF CountTypes, Truth
  <2> QED
    BY <1>1, <1>3, <1>4, <2>1, <2>2 DEF CounterTrue, Counter
<1> QED
  BY <1>1, <1>2, <1>4, CountersChange

\* What a sample adds is at most what has moved since the last one, and just that if
\* the counter is the same.
LEMMA GrowthFacts ==
  ASSUME CountTypes, traffic # None, NEW i \in Interfaces
  PROVE  /\ Growth(i) \in Nat
         /\ CounterTrue(i) => Growth(i) + truth.upto[i] <= moved[i]
         /\ CounterTrue(i) /\ i \in truth.exact /\ i \in traffic.policy.names =>
              Growth(i) + truth.upto[i] = moved[i]
<1>1. /\ traffic.counters[i] \in Counter /\ truth.upto[i] \in Nat
      /\ net[i] \in Counter /\ moved[i] \in Nat
  BY DEF CountTypes, Traffic, Truth
<1>2. CASE /\ i \in traffic.policy.names /\ traffic.boot = boot
           /\ net[i].index = traffic.counters[i].index
           /\ net[i].bytes >= traffic.counters[i].bytes
  <2>1. Growth(i) = net[i].bytes - traffic.counters[i].bytes
    BY <1>2 DEF Growth
  <2> QED
    BY <1>1, <1>2, <2>1 DEF CounterTrue, Counter
<1>3. CASE ~ (/\ i \in traffic.policy.names /\ traffic.boot = boot
              /\ net[i].index = traffic.counters[i].index
              /\ net[i].bytes >= traffic.counters[i].bytes)
  <2>1. Growth(i) = 0
    BY <1>3 DEF Growth
  <2> QED
    BY <1>1, <1>3, <2>1 DEF CounterTrue, Counter
<1> QED
  BY <1>2, <1>3

LEMMA ObserveKeepsTraffic ==
  ASSUME CountTypes, TrafficInv, service.state = "active" => service.config \in Versions, Observe
  PROVE  CountTypes' /\ TrafficInv'
<1> DEFINE policy == Policy[service.config]
           now    == {r \in policy.resets : r <= clock}
           total  == [i \in Interfaces |->
                        IF Continues(policy) THEN traffic.total[i] + Growth(i) ELSE 0]
           new    == traffic = None \/ traffic.policy # policy
           begins == new \/ traffic.period # now
<1>1. /\ UNCHANGED <<clock, boot, net, moved>> /\ ~ SteppedBack(policy)
      /\ traffic' = [policy |-> policy, period |-> now, total |-> total, boot |-> boot,
                     counters |-> net, last |-> clock]
      /\ truth' = [from  |-> IF begins THEN moved ELSE truth.from,
                   upto  |-> moved,
                   exact |-> IF begins THEN policy.names ELSE truth.exact,
                   saved |-> (IF new THEN {} ELSE truth.saved)
                               \cup {[period |-> traffic'.period, total |-> total]}]
  BY DEF Observe, Period
<1>2. policy \in Policies /\ policy.names \subseteq Interfaces /\ policy.resets \in SUBSET Nat
  BY Constants DEF Observe, Policies
<1>3. now \in SUBSET Nat
  BY <1>2
<1>4. Continues(policy) = ~ begins
  BY DEF Continues, Period
<1>5. \A i \in Interfaces :
        /\ begins => total[i] = 0
        /\ ~ begins => total[i] = traffic.total[i] + Growth(i)
        /\ total[i] \in Nat
  <2>1. ASSUME NEW i \in Interfaces, ~ begins
        PROVE  traffic.total[i] + Growth(i) \in Nat
    BY <2>1, GrowthFacts DEF CountTypes, Traffic
  <2> QED
    BY <1>4, <2>1
<1>6. total \in [Interfaces -> Nat]
  BY <1>5
<1> HIDE DEF total, policy, now
<1>7. /\ traffic' \in Traffic
      /\ traffic'.policy = policy /\ traffic'.period = now /\ traffic'.total = total
      /\ traffic'.boot = boot /\ traffic'.counters = net /\ traffic'.last = clock
  BY <1>1, <1>2, <1>3, <1>6 DEF Traffic, CountTypes
<1>8. ASSUME new PROVE truth' = [from |-> moved, upto |-> moved, exact |-> policy.names,
                                  saved |-> {[period |-> now, total |-> total]}]
  BY <1>1, <1>7, <1>8
<1>9. ASSUME ~ new, begins
      PROVE  truth' = [from |-> moved, upto |-> moved, exact |-> policy.names,
                       saved |-> truth.saved \cup {[period |-> now, total |-> total]}]
  BY <1>1, <1>7, <1>9
<1>10. ASSUME ~ begins
       PROVE  truth' = [from |-> truth.from, upto |-> moved, exact |-> truth.exact,
                        saved |-> truth.saved \cup {[period |-> now, total |-> total]}]
  BY <1>1, <1>7, <1>10
<1>11. truth' \in Truth /\ truth'.upto = moved
  <2>1. [period |-> now, total |-> total] \in Saved
    BY <1>3, <1>6 DEF Saved
  <2> QED
    BY <1>2, <1>8, <1>9, <1>10, <2>1 DEF CountTypes, Truth
<1>12. CountTypes'
  BY <1>1, <1>7, <1>11 DEF CountTypes
<1>13. ASSUME ~ new PROVE traffic \in Traffic /\ traffic.policy = policy /\ traffic.last < clock
  BY <1>1, <1>13 DEF CountTypes, Traffic, SteppedBack
<1>14. ASSUME ~ new PROVE traffic.period \subseteq now
  BY <1>3, <1>13, <1>14, <1>2 DEF TrafficInv, PeriodsInOrder, now, Traffic, CountTypes
<1>15. TotalsAreTrue'
  <2> SUFFICES ASSUME NEW i \in policy.names
               PROVE  /\ total[i] + truth'.from[i] <= moved[i]
                      /\ i \in truth'.exact => total[i] + truth'.from[i] = moved[i]
    BY <1>7, <1>11 DEF TotalsAreTrue
  <2>1. i \in Interfaces /\ moved[i] \in Nat
    BY <1>2 DEF CountTypes
  <2>2. CASE begins
    BY <1>5, <1>8, <1>9, <2>1, <2>2
  <2>3. CASE ~ begins
    <3>1. /\ traffic # None /\ traffic.policy = policy /\ traffic.total[i] \in Nat
          /\ truth.from[i] \in Nat /\ truth.upto[i] \in Nat /\ CounterTrue(i)
      BY <1>13, <2>1, <2>3 DEF CountTypes, Truth, Traffic, TrafficInv
    <3>2. /\ traffic.total[i] + truth.from[i] <= truth.upto[i]
          /\ i \in truth.exact => traffic.total[i] + truth.from[i] = truth.upto[i]
      BY <3>1 DEF TrafficInv, TotalsAreTrue
    <3>3. /\ Growth(i) \in Nat /\ Growth(i) + truth.upto[i] <= moved[i]
          /\ i \in truth.exact => Growth(i) + truth.upto[i] = moved[i]
      BY <2>1, <3>1, GrowthFacts
    <3>4. total[i] = traffic.total[i] + Growth(i) /\ truth'.from = truth.from
          /\ truth'.exact = truth.exact
      BY <1>5, <1>10, <2>1, <2>3
    <3> QED
      BY <2>1, <3>1, <3>2, <3>3, <3>4
  <2> QED
    BY <2>2, <2>3
<1>16. \A s \in truth'.saved : s = [period |-> now, total |-> total] \/ (~ new /\ s \in truth.saved)
  BY <1>8, <1>9, <1>10
<1>17. TotalsOnlyGrow'
  <2> SUFFICES ASSUME NEW s \in truth'.saved, s.period = now, NEW i \in Interfaces
               PROVE  s.total[i] <= total[i]
    BY <1>7 DEF TotalsOnlyGrow
  <2>1. CASE s = [period |-> now, total |-> total]
    BY <1>5, <2>1
  <2>2. CASE ~ new /\ s \in truth.saved
    <3>1. s.period \subseteq traffic.period /\ traffic # None
      BY <2>2 DEF TrafficInv, PeriodsInOrder
    <3>2. traffic.period = now /\ ~ begins
      BY <1>14, <2>2, <3>1
    <3>3. s.total[i] <= traffic.total[i]
      BY <2>2, <3>1, <3>2 DEF TrafficInv, TotalsOnlyGrow
    <3>4. s.total[i] \in Nat /\ traffic.total[i] \in Nat /\ Growth(i) \in Nat
      BY <1>13, <2>2, <3>1, GrowthFacts DEF CountTypes, Truth, Saved, Traffic
    <3> QED
      BY <1>5, <3>2, <3>3, <3>4
  <2> QED
    BY <1>16, <2>1, <2>2
<1>18. PeriodsInOrder'
  <2>1. traffic'.period = {r \in traffic'.policy.resets : r <= traffic'.last}
    BY <1>7 DEF now
  <2>2. \A s \in truth'.saved : s.period \subseteq now
    BY <1>14, <1>16 DEF TrafficInv, PeriodsInOrder
  <2> QED
    BY <1>7, <2>1, <2>2 DEF PeriodsInOrder
<1>19. ASSUME NEW i \in policy.names PROVE CounterTrue(i)'
  BY <1>1, <1>2, <1>7, <1>11, <1>19 DEF CounterTrue, CountTypes, Counter
<1> QED
  BY <1>7, <1>12, <1>15, <1>17, <1>18, <1>19 DEF TrafficInv

-----------------------------------------------------------------------------
(***************************************************************************)
(* The theorems.                                                           *)
(***************************************************************************)

LEMMA TypesSplit == TypeOK <=> HostTypes /\ CountTypes
BY DEF TypeOK, HostTypes, CountTypes, Truth, Saved

LEMMA StepKeepsAll ==
  ASSUME HostInv, CountTypes, TrafficInv, [Next]_vars
  PROVE  HostInv' /\ CountTypes' /\ TrafficInv'
<1>0. /\ service.state = "active" => service.config \in Versions
      /\ budget \in [runs : Nat, faults : Nat] /\ clock \in Nat /\ HostTypes
  BY DEF HostInv, HostTypes, CountTypes
<1>1. CASE StartAgent \/ AgentFails \/ SwitchOn \/ SwitchOff
  <2>1. UNCHANGED <<clock, boot, net, traffic, moved, truth>>
    BY <1>1 DEF StartAgent, AgentFails, SwitchOn, SwitchOff, counting
  <2>2. CountTypes' /\ TrafficInv'
    BY <1>0, <2>1, QuietTraffic
  <2> QED
    BY <1>1, <2>2, ServiceKeepsHost
<1>2. CASE Observe
  <2>1. UNCHANGED <<onDisk, service, script, cutShort, budget>>
    BY <1>2 DEF Observe
  <2>2. HostInv'
    BY <1>0, <2>1, CountingKeepsHost
  <2> QED
    BY <1>0, <1>2, <2>2, ObserveKeepsTraffic
<1>3. CASE LoseTraffic
  <2>1. /\ UNCHANGED <<onDisk, service, script, cutShort>> /\ Fault
        /\ UNCHANGED <<clock, boot, net, moved, truth>> /\ traffic' = None
    BY <1>3 DEF LoseTraffic
  <2>2. HostInv'
    BY <1>0, <2>1, CountingKeepsHost, FaultType
  <2> QED
    BY <1>0, <2>1, <2>2, QuietTraffic
<1>4. CASE Tick \/ \E t \in 1..MaxNow : StepBack(t)
  <2>1. /\ UNCHANGED <<onDisk, service, script, cutShort, boot, net, traffic, moved, truth>>
        /\ clock' \in Nat /\ (Fault \/ UNCHANGED budget)
    BY <1>0, <1>4, Constants DEF Tick, StepBack, counting
  <2>2. HostInv'
    BY <1>0, <2>1, CountingKeepsHost, FaultType
  <2> QED
    BY <2>1, <2>2, QuietTraffic
<1>5. CASE Reboot
  BY <1>5, RebootKeepsHost, RebootKeepsTraffic
<1>6. ASSUME NEW i \in Interfaces, Move(i) PROVE HostInv' /\ CountTypes' /\ TrafficInv'
  <2>1. UNCHANGED <<onDisk, service, script, cutShort, budget>>
    BY <1>6 DEF Move
  <2> QED
    BY <1>0, <1>6, <2>1, CountingKeepsHost, MoveKeepsTraffic
<1>7. ASSUME NEW i \in Interfaces, NEW b \in 0..(MaxBytes + 1), NEW x \in 0..1,
             Renew(i, [bytes |-> b, index |-> net[i].index + x])
      PROVE  HostInv' /\ CountTypes' /\ TrafficInv'
  <2>1. UNCHANGED <<onDisk, service, script, cutShort>> /\ Fault
    BY <1>7 DEF Renew
  <2>2. HostInv'
    BY <1>0, <2>1, CountingKeepsHost, FaultType
  <2>3. [bytes |-> b, index |-> net[i].index + x] \in Counter
    BY Constants DEF CountTypes, Counter
  <2> QED
    BY <1>7, <2>2, <2>3, RenewKeepsTraffic
<1>8. CASE Deployment
  <2>1. UNCHANGED <<clock, boot, net, traffic, moved, truth>>
    BY <1>8 DEF Deployment, Install, Upgrade, BackupCut, Stop, Copy, CopyFails, Reload, Start, Verify,
                Compare, Prune, Fails, UndoStop, UndoInstall, UndoUpgrade, UndoFails, UndoStart, Cut,
                StillOther, counting
  <2>2. CountTypes' /\ TrafficInv'
    BY <1>0, <2>1, QuietTraffic
  <2> QED
    BY <1>8, <2>2, DeploymentKeepsHost
<1>9. CASE UNCHANGED vars
  <2>1. UNCHANGED <<onDisk, service, script, cutShort, budget, clock, boot, net, traffic, moved, truth>>
    BY <1>9 DEF vars, counting
  <2> QED
    BY <1>0, <2>1, CountingKeepsHost, QuietTraffic
<1> QED
  BY <1>1, <1>2, <1>3, <1>4, <1>5, <1>6, <1>7, <1>8, <1>9 DEF Next

LEMMA Always == Spec => [](HostInv /\ CountTypes /\ TrafficInv)
<1>1. Init => HostInv /\ CountTypes /\ TrafficInv
  BY InitHost, InitTraffic DEF HostInv
<1>2. (HostInv /\ CountTypes /\ TrafficInv) /\ [Next]_vars => (HostInv /\ CountTypes /\ TrafficInv)'
  BY StepKeepsAll
<1> QED
  BY <1>1, <1>2, PTL DEF Spec

\* The types hold whatever the scripts and the faults do; in particular an Agent that
\* is active has read the configuration of a version, also in the middle of a rollback.
THEOREM TypesAlways == Spec => []TypeOK
<1>1. HostInv /\ CountTypes /\ TrafficInv => TypeOK
  BY TypesSplit DEF HostInv
<1> QED
  BY <1>1, Always, PTL

\* For any versions and any number of scripts, retries, failures and reboots: a script
\* that ends leaves one version and an Agent that runs it, and files of several versions
\* have a backup of one whole version (install-agent.sh, upgrade-agent.sh).
THEOREM RecoverableAlways == Spec => []DeploymentRecoverable
<1>1. HostInv /\ CountTypes /\ TrafficInv => DeploymentRecoverable
  BY DEF HostInv
<1> QED
  BY <1>1, Always, PTL

\* For any interfaces, settings and clock: no byte is counted twice or in another period
\* (Tracker.Observe).
THEOREM TotalsAlwaysTrue == Spec => []TotalsAreTrue
<1>1. HostInv /\ CountTypes /\ TrafficInv => TotalsAreTrue
  BY DEF TrafficInv
<1> QED
  BY <1>1, Always, PTL

\* For any interfaces, settings and clock: the total of a period that has been saved
\* never falls while the settings stay (Tracker.Observe).
THEOREM TotalsAlwaysGrow == Spec => []TotalsOnlyGrow
<1>1. HostInv /\ CountTypes /\ TrafficInv => TotalsOnlyGrow
  BY DEF TrafficInv
<1> QED
  BY <1>1, Always, PTL
=============================================================================
