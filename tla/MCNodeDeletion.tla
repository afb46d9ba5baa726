--------------------------- MODULE MCNodeDeletion ---------------------------
(* A node a, taken offline, and its peer b, which probes the link to a.      *)
EXTENDS NodeDeletion

CONSTANTS a, b, c, link, plain, v, key, k1, k2, k3, h1, h2

Keys(S) == [n \in Nodes |-> IF n \in S THEN key ELSE None]

\* Both nodes, a disabled in an emergency, and a removed.
MCInventories ==
  {[keys |-> Keys({a, b}), revoked |-> {}], [keys |-> Keys({b}), revoked |-> {a}],
   [keys |-> Keys({b}), revoked |-> {}]}

\* The plain probe is not due again before the second report, which repeats its round.
\* The link to the other node is assigned between the two reports of b.
ReportOf(node, gen, target) ==
  [node |-> node, gen |-> gen, marks |-> [m \in Marks |-> v], services |-> <<>>,
   probes |-> [p \in Probes |->
     IF p = link
     THEN (IF target = None THEN None ELSE [target |-> target, at |-> gen])
     ELSE [target |-> None, at |-> 1]],
   net |-> None]

RequestOf(report, nonce) ==
  [report |-> report, secret |-> key, timestamp |-> 1, nonce |-> nonce, source |-> None]

MCRequests ==
  {RequestOf(ReportOf(a, 1, None), k1), RequestOf(ReportOf(a, 2, None), k2),
   RequestOf(ReportOf(b, 1, None), k2),
   RequestOf(ReportOf(b, 2, a), k3)}

\* b's link is towards c, then towards a, which is taken offline.
MCReuseInventories ==
  {[keys |-> Keys({a, b, c}), revoked |-> {}], [keys |-> Keys({b, c}), revoked |-> {}]}

MCReuseRequests ==
  {RequestOf(ReportOf(b, 1, c), k1), RequestOf(ReportOf(b, 2, a), k2)}
=============================================================================
