---------------------------- MODULE MCBridgeBudget ----------------------------
\* Instances of BridgeBudget for TLC.
EXTENDS BridgeBudget, TLC

\* The orderly course, and everything at once.
Courses == {{}, {"early", "late", "reordered", "lost", "restart"}}

Symmetry == Permutations(Turns)
===========================================================================
