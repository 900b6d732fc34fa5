-------------------------- MODULE MCAgentRecovery --------------------------
EXTENDS AgentRecovery

AllTroubles == Signs \union {"fails", "early", "tie", "launch"}
=============================================================================
