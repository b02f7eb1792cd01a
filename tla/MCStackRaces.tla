---------------------------- MODULE MCStackRaces ----------------------------
\* Small instances of StackRaces for TLC.
EXTENDS StackRaces

CONSTANTS t1, t2
=============================================================================
