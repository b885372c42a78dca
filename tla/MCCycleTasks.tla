---------------------------- MODULE MCCycleTasks ----------------------------
EXTENDS CycleTasks
=============================================================================
