---------------------------- MODULE MCPerKeyLock ----------------------------
\* Small instances of PerKeyLock for TLC.
EXTENDS PerKeyLock

\* Callers of shrink() that happen to pass sorted keys.
SortedShrinks == {<<1, 2>>}
=============================================================================
