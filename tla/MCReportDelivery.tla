-------------------------- MODULE MCReportDelivery --------------------------
(* One Agent; its reports differ in nothing but their time. *)
EXTENDS ReportDelivery

CONSTANTS a, v, key, h1, h2

ReportOf(gen) ==
  [node |-> a, gen |-> gen, marks |-> [m \in Marks |-> v], services |-> <<>>,
   probes |-> <<>>, net |-> None]

MCCollected == {ReportOf(t) : t \in 1..MaxNow}

MCRequests ==
  {[report |-> r, secret |-> key, timestamp |-> t, nonce |-> k, source |-> None] :
     r \in MCCollected, t \in 0..MaxNow, k \in 1..MaxSends}

MCInventories == {[keys |-> [n \in Nodes |-> key], revoked |-> {}]}
=============================================================================
