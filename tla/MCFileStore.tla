----------------------------- MODULE MCFileStore -----------------------------
\* Threads 1 and 2 share process 1; thread 3 is process 2.
EXTENDS FileStore

Home == [t \in Threads |-> IF t = "t3" THEN 2 ELSE 1]

\* One process that saves, loads and evicts; two processes that save while one
\* recodes; everything at once.
ThreePrograms ==
    {[t \in Threads |-> IF t = "t3" THEN {} ELSE {"save", "load", "evict"}],
     [t \in Threads |-> IF t = "t2" THEN {"compress", "decompress"} ELSE {"save"}],
     [t \in Threads |-> CASE t = "t1" -> {"save", "compress"}
                          [] t = "t2" -> {"evict", "decompress"}
                          [] t = "t3" -> {"save", "evict"}]}

\* No keys; process 2 has rotated the key of process 1; process 1 has none.
ThreeKeyLists ==
    {[p \in Processes |-> <<>>],
     [p \in Processes |-> IF p = 1 THEN <<"k1">> ELSE <<"k2", "k1">>],
     [p \in Processes |-> IF p = 1 THEN <<>> ELSE <<"k1">>]}

SecondZips == [p \in Processes |-> p = 2]
=============================================================================
