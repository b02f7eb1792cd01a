---------------------------- MODULE MCSizeLimited ----------------------------
\* One thread saves, another redigests.
EXTENDS SizeLimited

CONSTANTS t1, t2

SaveAndRedigest == {[t \in Threads |-> IF t = t1 THEN {"save"} ELSE {"redigest"}]}
=============================================================================
