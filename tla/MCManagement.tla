---------------------------- MODULE MCManagement ----------------------------
(* Nodes a and b that probe each other, managed from x, which reaches the      *)
(* VPSs, and from y, which does not; c is added later.                         *)
EXTENDS Management

CONSTANTS x, y, a, b, c, ka, kb, kc

MCFirstKeys == [n \in Nodes |-> CASE n = a -> ka [] n = b -> kb [] OTHER -> None]
MCFirstTargets == [n \in Nodes |-> CASE n = a -> {b} [] n = b -> {a} [] OTHER -> {}]
=============================================================================
