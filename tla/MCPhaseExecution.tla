--------------------------- MODULE MCPhaseExecution ---------------------------
\* Two sessions are enough for every race of one read-check-update call with
\* another; a third phase would add no interleaving on a row.
EXTENDS PhaseExecution, TLC

CONSTANTS p1, p2, s1, s2

MCPhases   == {p1, p2}
MCSessions == {s1, s2}

Symmetry == Permutations(MCPhases) \cup Permutations(MCSessions)
=============================================================================
