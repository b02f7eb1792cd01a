----------------------------- MODULE CacheViews -----------------------------
(***************************************************************************)
(* Caches built from caches (caches.py): read-only, filtered and           *)
(* refreshing wrappers of one cache, pools and stacks of several, down to  *)
(* leaves of class Cache.  Through each view a program saves, loads,       *)
(* evicts and queries; a record that a query returns remembers its leaf,   *)
(* and QueryIterator.evict and transfer (query.py) go straight to it.      *)
(*                                                                         *)
(* Operations are atomic here; StackRaces has the steps of a stack's.      *)
(***************************************************************************)
EXTENDS Naturals, Sequences

CONSTANTS
    Views,    \* all caches of the program
    Kind,     \* [Views -> Kinds]
    Members,  \* [Views -> Seq(Views)]: what a view is built from
    LookupKeys,
    Results,
    Hidden,   \* the results that the predicate of filtered views refuses
    Nothing

Wrappers == {"readonly", "filtered", "refreshing"}
Multi == {"pool", "stack"}
Kinds == Wrappers \cup Multi \cup {"cache"}
ReadOnlyKinds == {"readonly", "filtered", "pool"}  \* ReadOnlyMixin
ViewOps == {"save", "load", "evict", "query_evict", "transfer"}

ASSUME KindsAreKnown == Kind \in [Views -> Kinds]
ASSUME MembersFit ==
    /\ Members \in [Views -> Seq(Views)]
    /\ \A v \in Views :
        /\ Kind[v] = "cache" => Members[v] = <<>>
        /\ Kind[v] \in Wrappers => Len(Members[v]) = 1
        /\ Kind[v] \in Multi => Len(Members[v]) > 0
\* CacheStack.__post_init__ refuses a stack in a stack.
ASSUME StacksAreFlat ==
    \A v \in Views : Kind[v] = "stack" =>
        \A n \in 1..Len(Members[v]) : Kind[Members[v][n]] # "stack"
\* A cache is built from caches that exist (frozen dataclasses): of any caches one
\* is built from none of them.
ASSUME ViewsAreTrees ==
    \A S \in (SUBSET Views) \ {{}} :
        \E v \in S : \A n \in 1..Len(Members[v]) : Members[v][n] \notin S
ASSUME HiddenAreResults == Hidden \subseteq Results
ASSUME NoneIsApart == Nothing \notin Results \cup Views

Leaves == {v \in Views : Kind[v] = "cache"}

VARIABLES
    records,  \* [Leaves -> [LookupKeys -> result or Nothing]]
    did     \* the last operation: op, the view it went through, key, answer

viewsVars == <<records, did>>

Indices(v) == DOMAIN Members[v]

-----------------------------------------------------------------------------
(* What the methods of a view answer and write.  Each recurses over the     *)
(* view's members: <Method>Of is what v makes of a, the answers of its      *)
(* members in their order.  (TLAPS reads a recursive function whose own     *)
(* expression is a CASE wrongly, so none here is.)                          *)

Answers(f, v) == [n \in Indices(v) |-> f[Members[v][n]]]

\* What the leaves hold under one key.
Columns == [Leaves -> Results \cup {Nothing}]

Column(k) == [l \in Leaves |-> records[l][k]]

\* contains, of a column: a filtered view does not consult its predicate.
ContainsOf(v, a, c) ==
    CASE Kind[v] = "cache"                    -> c[v] # Nothing
      [] Kind[v] \in {"readonly", "filtered"} -> a[1]
      [] Kind[v] = "refreshing"               -> FALSE
      [] Kind[v] \in Multi                    -> \E n \in Indices(v) : a[n]

Containing(c) == LET f[v \in Views] == ContainsOf(v, Answers(f, v), c) IN f

ContainsKey(v, k) == Containing(Column(k))[v]

\* A defect: CacheWrapper.save wins over ReadOnlyMixin.save in the MRO.
TargetOfWrapper(v, a) ==
    CASE Kind[v] = "cache"                   -> v
      [] Kind[v] \in Wrappers \cup {"stack"} -> a[1]
      [] Kind[v] = "pool"                    -> Nothing

\* save: the leaf that files the record, or Nothing for Rejected.
TargetOf(v, a) ==
    CASE Kind[v] = "cache"                   -> v
      [] Kind[v] \in {"refreshing", "stack"} -> a[1]
      [] Kind[v] \in ReadOnlyKinds           -> Nothing

Targets == LET f[v \in Views] == TargetOf(v, Answers(f, v)) IN f

Target(v) == Targets[v]

\* load, of a column: the leaf whose record is returned, or Nothing for
\* KeyError, and the column that the load leaves.  So an answer here is a
\* function: what the member's load does to any column.
Missed(c) == [leaf |-> Nothing, column |-> c]

\* The predicate is asked when the wrapped cache has loaded.
Shown(found) ==
    IF found.leaf # Nothing /\ found.column[found.leaf] \in Hidden
    THEN [found EXCEPT !.leaf = Nothing] ELSE found

\* The members are tried in order, each on what the one before it left.
FirstHit(v, a, c) ==
    LET tried[n \in 0..Len(Members[v])] ==
            IF n = 0 THEN Missed(c)
            ELSE IF tried[n - 1].leaf # Nothing THEN tried[n - 1] ELSE a[n][tried[n - 1].column]
    IN tried[Len(Members[v])]

\* A stack copies what its base missed into the base.
CopiedDown(v, a, c) ==
    LET found == FirstHit(v, a, c)
        base == Members[v][1]
        copies == /\ found.leaf # Nothing /\ a[1][c].leaf = Nothing
                  /\ ~Containing(found.column)[base] /\ Target(base) # Nothing
    IN  IF copies THEN [found EXCEPT !.column[Target(base)] = found.column[found.leaf]] ELSE found

LoadOf(v, a, c) ==
    CASE Kind[v] = "cache"      -> [leaf |-> IF c[v] = Nothing THEN Nothing ELSE v, column |-> c]
      [] Kind[v] = "readonly"   -> a[1][c]
      [] Kind[v] = "filtered"   -> Shown(a[1][c])
      [] Kind[v] = "refreshing" -> Missed(c)
      [] Kind[v] = "pool"       -> FirstHit(v, a, c)
      [] Kind[v] = "stack"      -> CopiedDown(v, a, c)

Loading == LET f[v \in Views] == [c \in Columns |-> LoadOf(v, Answers(f, v), c)] IN f

Found(v, k) == Loading[v][Column(k)]

Loads(v, k) == Found(v, k).leaf

\* _is_read_only (remote.py), which a server tells its clients.
ReadOnlyOf(v, a) == Kind[v] \in ReadOnlyKinds \/ (Kind[v] = "stack" /\ a[1])

Refusing == LET f[v \in Views] == ReadOnlyOf(v, Answers(f, v)) IN f

ReadOnly(v) == Refusing[v]

\* evict: the leaves the record is evicted from.  A stack swallows the
\* Rejected of its members.
EvictsOf(v, a) ==
    CASE Kind[v] = "cache"          -> {v}
      [] Kind[v] = "refreshing"     -> a[1]
      [] Kind[v] = "stack"          -> UNION {a[n] : n \in Indices(v)}
      [] Kind[v] \in ReadOnlyKinds  -> {}

Evicting == LET f[v \in Views] == EvictsOf(v, Answers(f, v)) IN f

Evicts(v) == Evicting[v]

\* A defect: members' results are not deduplicated.
QueryWithDuplicates(v, a) ==
    CASE Kind[v] = "cache" -> {[key |-> k, leaf |-> v] : k \in {j \in LookupKeys : records[v][j] # Nothing}}
      [] Kind[v] \in {"readonly", "refreshing"} -> a[1]
      [] Kind[v] = "filtered" -> {c \in a[1] : records[c.leaf][c.key] \notin Hidden}
      [] Kind[v] \in Multi -> UNION {a[n] : n \in Indices(v)}

\* query: [key, leaf] of every record; members in order, each key once.
QueryOf(v, a) ==
    CASE Kind[v] = "cache" -> {[key |-> k, leaf |-> v] : k \in {j \in LookupKeys : records[v][j] # Nothing}}
      [] Kind[v] \in {"readonly", "refreshing"} -> a[1]
      [] Kind[v] = "filtered" -> {c \in a[1] : records[c.leaf][c.key] \notin Hidden}
      [] Kind[v] \in Multi ->
            UNION {{c \in a[n] : \A m \in 1..(n - 1) : \A d \in a[m] : d.key # c.key} : n \in Indices(v)}

Queried == LET f[v \in Views] == QueryOf(v, Answers(f, v)) IN f

Query(v) == Queried[v]

-----------------------------------------------------------------------------

Did(op, v, k, answer) == did' = [op |-> op, via |-> v, key |-> k, answer |-> answer]

FileIn(leaf, k, r) == records' = [records EXCEPT ![leaf][k] = r]

ViewsInit ==
    /\ records = [l \in Leaves |-> [k \in LookupKeys |-> Nothing]]
    /\ did = [op |-> "none", via |-> Nothing, key |-> Nothing, answer |-> Nothing]

Save(v) ==
    /\ \E k \in LookupKeys, r \in Results :
        /\ IF Target(v) = Nothing THEN UNCHANGED records ELSE FileIn(Target(v), k, r)
        /\ Did("save", v, k, Target(v))

Load(v) ==
    /\ \E k \in LookupKeys :
        LET found == Found(v, k)
        IN /\ records' = [l \in Leaves |-> [records[l] EXCEPT ![k] = found.column[l]]]
           /\ Did("load", v, k, IF found.leaf = Nothing THEN Nothing ELSE found.column[found.leaf])

Evict(v) ==
    /\ \E k \in LookupKeys :
        /\ records' = [l \in Leaves |->
              IF l \in Evicts(v) THEN [records[l] EXCEPT ![k] = Nothing] ELSE records[l]]
        /\ Did("evict", v, k, Nothing)

\* One record of QueryIterator.evict.
QueryEvict(v) ==
    /\ \E c \in Query(v) :
        /\ FileIn(c.leaf, c.key, Nothing)
        /\ Did("query_evict", v, c.key, c.leaf)

\* A defect: the source record is popped when the transfer was skipped.
TransferPopsAlways(v, to) ==
    /\ \E c \in Query(v), pop, overwrite \in BOOLEAN :
        LET r == records[c.leaf][c.key]
            skip == ~overwrite /\ ContainsKey(to, c.key)
            put == IF skip \/ Target(to) = Nothing THEN records
                   ELSE [records EXCEPT ![Target(to)][c.key] = r]
        IN /\ records' = IF pop THEN [put EXCEPT ![c.leaf][c.key] = Nothing] ELSE put
           /\ Did("transfer", v, c.key, to)

\* One record of QueryIterator.transfer.  Rejected by the target: it raises.
Transfer(v, to) ==
    /\ \E c \in Query(v), pop, overwrite \in BOOLEAN :
        LET r == records[c.leaf][c.key]
            skip == ~overwrite /\ ContainsKey(to, c.key)
            put == [records EXCEPT ![Target(to)][c.key] = r]
        IN /\ records' = IF skip \/ Target(to) = Nothing THEN records
                       ELSE IF pop THEN [put EXCEPT ![c.leaf][c.key] = Nothing]
                       ELSE put
           /\ Did("transfer", v, c.key, to)

ViewsNext ==
    \/ \E v \in Views : Save(v) \/ Load(v) \/ Evict(v) \/ QueryEvict(v)
    \/ \E v, to \in Views : Transfer(v, to)

ViewsSpec == ViewsInit /\ [][ViewsNext]_viewsVars

-----------------------------------------------------------------------------

ViewsTypeOK ==
    /\ records \in [Leaves -> [LookupKeys -> Results \cup {Nothing}]]
    /\ did.op \in ViewOps \cup {"none"}
    /\ did.via \in Views \cup {Nothing}
    /\ did.key \in LookupKeys \cup {Nothing}
    /\ did.op = "save" => did.answer \in Leaves \cup {Nothing}
    /\ did.op = "load" => did.answer \in Results \cup {Nothing}

\* A view and all it is built from.
BelowOf(v, a) == {v} \cup UNION {a[n] : n \in Indices(v)}

Built == LET f[v \in Views] == BelowOf(v, Answers(f, v)) IN f

Below(v) == Built[v]

BuiltWithout(v, kind) == \A w \in Below(v) : Kind[w] # kind

\* No predicate hides what a stack has copied down to answer it.
StacksShown(v) == \A w \in Below(v) : Kind[w] = "filtered" => BuiltWithout(w, "stack")

\* The operations of a view tell the same story, however views are nested:
\* contains answers what load would do, since executors and transfers decide
\* by it (BaseCache.contains, caches.py 91-96), and a query returns just the
\* records that load returns, from the same leaves.  A filtered view's contains
\* knows nothing of the predicate; a refreshing view misses on purpose; a load
\* that a filter refuses may first have copied a record to where a later member
\* finds it.  What a server calls read-only rejects every save, and but for a
\* stack every evict, so that a client need not ask.  Views of empty caches have
\* nothing to tell.
ViewsAgree == records # [l \in Leaves |-> [k \in LookupKeys |-> Nothing]] => \A v \in Views :
    /\ BuiltWithout(v, "filtered") =>
         \A k \in LookupKeys : ContainsKey(v, k) <=> Loads(v, k) # Nothing
    /\ BuiltWithout(v, "refreshing") /\ StacksShown(v) =>
         Query(v) = {[key |-> k, leaf |-> Loads(v, k)] :
                        k \in {j \in LookupKeys : Loads(v, j) # Nothing}}
    /\ ReadOnly(v) => Target(v) = Nothing /\ (Kind[v] # "stack" => Evicts(v) = {})

\* No record changes behind a program's back.  "Never writes to any member", "can
\* only be read from" (caches.py 560-594, 898-926): no save, load or evict through
\* a read-only view changes a cache; a stack below one still copies its hits
\* down; what a query yields goes to its leaf past the view.  And a transfer to
\* another cache loses no record: with pop, too, a record that leaves its cache is
\* in the target.
RecordsChangeAsAsked ==
    [][/\ did'.op \in {"save", "load", "evict"} /\ Kind[did'.via] \in ReadOnlyKinds
            /\ (did'.op = "load" => BuiltWithout(did'.via, "stack"))
          => UNCHANGED records
       /\ did'.op = "transfer" =>
            \A l \in Leaves : records[l][did'.key] # Nothing /\ records'[l][did'.key] # records[l][did'.key] =>
                \/ l = Target(did'.answer)
                \/ /\ Target(did'.answer) # Nothing
                   /\ records'[Target(did'.answer)][did'.key] = records[l][did'.key]]_viewsVars
=============================================================================
