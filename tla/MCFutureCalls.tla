---------------------------- MODULE MCFutureCalls ----------------------------
\* Small instances of FutureCalls for TLC.
EXTENDS FutureCalls

CONSTANTS c1, c2, c3
=============================================================================
