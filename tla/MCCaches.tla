------------------------------ MODULE MCCaches ------------------------------
\* Nested views of two caches; a query of a cache that is written to; a cache of
\* limited size.  A behaviour is of one of the three, and the others stay idle.
EXTENDS CacheViews, Queries, SizeLimited, TLC

CONSTANTS t1, t2, t3, A, B, roA, roB, pool, pooled, stack, backed, shown, shownPool, mixed, fresh, shadow, chosen, late

\* view -> kind and members: stacks of writable and read-only members, pools
\* of views and of a stack, nested filters, a refreshing stack, a
\* filtered stack and a pool that reads on after it.
Tree ==
    (A :> <<"cache">>) @@ (B :> <<"cache">>)
    @@ (roA :> <<"readonly", A>>) @@ (roB :> <<"readonly", B>>)
    @@ (stack :> <<"stack", A, B>>) @@ (backed :> <<"stack", A, roB>>)
    @@ (pool :> <<"pool", roA, B>>) @@ (pooled :> <<"pool", stack, roA>>)
    @@ (shown :> <<"filtered", A>>) @@ (mixed :> <<"pool", shown, roB>>)
    @@ (shownPool :> <<"filtered", mixed>>) @@ (fresh :> <<"refreshing", stack>>)
    @@ (shadow :> <<"stack", roA, B>>) @@ (chosen :> <<"filtered", stack>>)
    @@ (late :> <<"pool", chosen, A>>)

TreeKind == [v \in Views |-> Tree[v][1]]
TreeMembers == [v \in Views |-> Tail(Tree[v])]

Op(name) == [op |-> name]
Taken(n) == [op |-> "take", n |-> n]
Skipped(n) == [op |-> "skip", n |-> n]
SortedBy(reverse) == [op |-> "sorted", reverse |-> reverse]
Stages == {Op("filter"), Op("unique"), Taken(1), Skipped(1), SortedBy(TRUE)}
Effectful == {"evict", "transfer", "results", "table"}

Asks(view, by, pop) == [view |-> view, by |-> by, pop |-> pop]
MCQuestions ==
    {Asks(<<a, b>>, "count", FALSE) : a, b \in Stages}
    \cup {Asks(view, by, FALSE) : view \in {<<>>, <<Op("filter")>>},
                                  by \in Effectful \cup {"only", "any", "empty", "count", "latest", "oldest"}}
    \cup {Asks(<<a, Op("group")>>, "groupby", FALSE) : a \in Stages}
    \cup {Asks(<<Taken(0), SortedBy(FALSE)>>, "count", FALSE), Asks(<<>>, "transfer", TRUE), Asks(<<Op("group")>>, "groupby", FALSE),
          Asks(<<SortedBy(FALSE), Taken(2)>>, "transfer", TRUE)}

MCValueOf == [i1 |-> 2, i2 |-> 1, i3 |-> 2]
Record(k, time) == [key |-> k, time |-> time]
MCStored == {<<>>, <<Record("i1", 0), Record("i2", 1), Record("i3", 2)>>,
             <<Record("i3", 2), Record("i2", 0), Record("i1", 1)>>, <<Record("i1", 0), Record("i2", 0)>>}

\* Two threads that do everything, or one that also evicts by short digests, or
\* three that redigest, save and transfer; none in the other behaviours.
Nobody == [t \in Threads |-> {}]
LimitPrograms ==
    {Nobody,
     [t \in Threads |-> IF t = t3 THEN {} ELSE AllOps \ {"evict_prefix"}],
     [t \in Threads |-> CASE t = t1 -> AllOps [] t = t2 -> {"save", "redigest"} [] t = t3 -> {}],
     [t \in Threads |-> IF t = t1 THEN {"save", "redigest"} ELSE {"transfer", "redigest"}]}

Limited == ops # Nobody
Asked == entries # <<>> \/ ~void
NoQuery == ~Asked /\ asked = Missing /\ writes = 0
NoViews == did.op = "none"

Opening ==
    /\ ViewsInit /\ QueryInit /\ Init
    /\ Limited => ~Asked
    /\ ~Limited => calls = {}

Program ==
    /\ Opening
    /\ [][\/ ~Limited /\ NoQuery /\ ViewsNext /\ UNCHANGED <<queryVars, vars>>
          \/ ~Limited /\ NoViews /\ QueryNext /\ UNCHANGED <<viewsVars, vars>>
          \/ Limited /\ Next /\ UNCHANGED <<viewsVars, queryVars>>]_<<viewsVars, queryVars, vars>>
=============================================================================
