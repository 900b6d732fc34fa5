--------------------------- MODULE MCPullRequestGate ---------------------------
EXTENDS PullRequestGate

Pairs == {{a, b} : a \in Kinds, b \in Kinds}
=============================================================================
