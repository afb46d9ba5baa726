------------------------------ MODULE MCAgentHost ------------------------------
(* Two versions, the second of which counts the same interface from other days. *)
EXTENDS AgentHost

CONSTANTS v1, v2, eth

MCPolicy == [v \in Versions |->
  [resets |-> IF v = v1 THEN {0, 3} ELSE {0, 2}, names |-> {eth}]]
MCInstalled == {v1, None}
=============================================================================
