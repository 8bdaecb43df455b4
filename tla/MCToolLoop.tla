----------------------------- MODULE MCToolLoop -----------------------------
(* A conversation under every kind of limit: none, each alone, and together. *)
EXTENDS ToolLoop, TLC

CONSTANTS k1, k2, k3
MCLookups == {k1, k2, k3}

\* The lookups are interchangeable; no property of the run is temporal
\* beyond one step.
MCSymmetry == Permutations(MCLookups)

\* Without limits; a limit reached within a round; one below the other.
MCLimits ==
  {[calls |-> 0, rounds |-> 0, bytes |-> 0, each |-> 1],
   [calls |-> 2, rounds |-> 0, bytes |-> 0, each |-> 1],
   [calls |-> 0, rounds |-> 2, bytes |-> 0, each |-> 0],
   [calls |-> 0, rounds |-> 0, bytes |-> 5, each |-> 3],
   [calls |-> 2, rounds |-> 2, bytes |-> 4, each |-> 3],
   [calls |-> 3, rounds |-> 3, bytes |-> 4, each |-> 4]}
=============================================================================
