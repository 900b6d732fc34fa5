---------------------------- MODULE MCProjectRuns ----------------------------
(* Instances of ProjectRuns for TLC. *)
EXTENDS ProjectRuns

\* Any two kinds of trouble together.
Pairs == {{a, b} : a \in Kinds, b \in Kinds}
=============================================================================
