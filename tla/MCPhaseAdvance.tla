--------------------------- MODULE MCPhaseAdvance ---------------------------
EXTENDS PhaseAdvance
=============================================================================
