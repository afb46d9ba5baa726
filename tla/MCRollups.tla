------------------------------ MODULE MCRollups ------------------------------
(* Days of two units.  Two nodes report twice on their first day; one of them  *)
(* also on the next, and a round of the other goes on beyond midnight.         *)
EXTENDS Rollups

CONSTANTS a, b

SampleOf(n, checked, round) == [node |-> n, checked_at |-> checked, round_at |-> round]

MCSamples ==
  {SampleOf(a, 0, 0), SampleOf(a, 1, 1), SampleOf(a, 3, 3),
   SampleOf(b, 0, 0), SampleOf(b, 1, 2)}
=============================================================================
