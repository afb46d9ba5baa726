--------------------------- MODULE MCReportHistory ---------------------------
(* One node, one invocation at a time; four reports of consecutive seconds, *)
(* the second of them also retried from the spool under a new nonce.        *)
EXTENDS ReportHistory

CONSTANTS a, b, svc, link, plain, v1, v2, up, down, scope, key, n1, n2, n3, n4, n5, h1

MCInventories ==
  {[keys |-> [n \in Nodes |-> IF n \in S THEN key ELSE None], revoked |-> {}] : S \in {{a, b}, {a}}}

\* A report of node a at time gen with the probe round of time at, or without probes;
\* the link probe to b is checked one second after the plain one.
ReportOf(gen, at, boot, state, bytes) ==
  [node |-> a, gen |-> gen,
   marks |-> [m \in Marks |-> IF m = "reboot" THEN boot ELSE v1],
   services |-> [s \in Services |-> state],
   probes |-> [p \in Probes |->
     IF at = None THEN None
     ELSE IF p = link THEN [target |-> b, at |-> at + 1] ELSE [target |-> None, at |-> at]],
   net |-> [scope |-> scope, bytes |-> bytes]]

RequestOf(report, timestamp, nonce) ==
  [report |-> report, secret |-> key, timestamp |-> timestamp, nonce |-> nonce,
   source |-> [net |-> v1, host |-> v1]]

\* The service fails, is taken out of the configuration and comes back unknown; the
\* last report follows a reboot, after which the counters have started again, and has
\* no probes any more.
First  == ReportOf(1, 1, v1, up, 1)
Second == ReportOf(2, 1, v1, down, 2)
Third  == ReportOf(3, 3, v1, None, 5)
Fourth == ReportOf(4, None, v2, "unknown", 1)

MCRequests ==
  {RequestOf(First, 2, n1), RequestOf(Second, 2, n2), RequestOf(Second, 2, n3),
   RequestOf(Third, 2, n4), RequestOf(Fourth, 2, n5)}

\* The first two reports, the second one retried.
MCRetryRequests == {q \in MCRequests : q.report \in {First, Second}}

MCSources == {[net |-> v1, host |-> v1]}
=============================================================================
