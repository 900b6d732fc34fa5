---------------------------- MODULE MCTaskCreation ----------------------------
EXTENDS TaskCreation
=============================================================================
