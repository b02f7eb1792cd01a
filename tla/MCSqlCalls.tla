----------------------------- MODULE MCSqlCalls ------------------------------
\* Threads t1 and t2 share process 1; thread t3 is process 2.
EXTENDS SqlCalls

CONSTANTS r1, r2

Home == [t \in Threads |-> IF t = "t3" THEN 2 ELSE 1]

\* One process that calls everything and spells the key in full; two processes
\* that save and load under either spelling.
TwoPrograms ==
    {[ops |-> [t \in Threads |-> IF t = "t3" THEN {} ELSE {"save", "load", "evict", "query"}],
      spellings |-> {"full"}],
     [ops |-> [t \in Threads |-> {"save", "load"}],
      spellings |-> {"full", "short"}]}
=============================================================================
