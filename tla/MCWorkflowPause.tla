-------------------------- MODULE MCWorkflowPause --------------------------
EXTENDS WorkflowPause
=============================================================================
