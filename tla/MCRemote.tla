------------------------------ MODULE MCRemote ------------------------------
\* A small instance of Remote for TLC.
EXTENDS Remote

CONSTANTS t1, t2, k1

\* Every operation on a writable cache; a read-only one, which rejects; and
\* callers that are interrupted while they wait.
ThreeSetups ==
    {[ops |-> AllOps, read_only |-> {FALSE}, strays |-> 0],
     [ops |-> {"run", "load", "evict", "info"}, read_only |-> {TRUE}, strays |-> 0],
     [ops |-> {"evict", "reconnect"}, read_only |-> {FALSE}, strays |-> 1]}
=============================================================================
