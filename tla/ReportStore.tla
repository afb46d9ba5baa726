----------------------------- MODULE ReportStore -----------------------------
(***************************************************************************)
(* What the report path promises the dashboard, with no invocations, no    *)
(* stale reads and no network in sight: reports are accepted one at a      *)
(* time, the history of a node is the set of report times accepted, and    *)
(* its card shows the newest of them.                                      *)
(***************************************************************************)
EXTENDS Integers

CONSTANTS
  Nodes,     \* node identifiers
  Times,     \* report times
  Nothing    \* the card of a node that has never reported

VARIABLES
  newest,   \* newest[n]: the report time on the card of n, Nothing without one
  history   \* history[n]: the report times in the history of n

storeVars == <<newest, history>>

Later(t, u) == IF u = Nothing THEN t ELSE IF t >= u THEN t ELSE u

StoreInit ==
  /\ newest = [n \in Nodes |-> Nothing]
  /\ history = [n \in Nodes |-> {}]

Accept(n, t) ==
  /\ newest' = [newest EXCEPT ![n] = Later(t, newest[n])]
  /\ history' = [history EXCEPT ![n] = history[n] \cup {t}]

StoreNext == \E n \in Nodes, t \in Times : Accept(n, t)

StoreSpec == StoreInit /\ [][StoreNext]_storeVars
=============================================================================
