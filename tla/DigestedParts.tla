---------------------------- MODULE DigestedParts ----------------------------
(***************************************************************************)
(* How a value is taken apart before it is stored and put together again     *)
(* when it is loaded (destructuring.py): children that are deep enough get   *)
(* an entry of their own, and the entry of their parent is a wrapper that    *)
(* holds digests in their place.  entries is a storage: a function from      *)
(* digests to what is stored under them.                                     *)
(***************************************************************************)
EXTENDS Digests, FiniteSetsExt

Infinite == 1000

\* A Number, a str or bytes.
Scalar(v) == v[1] = "number" \/ (v[1] = "raw" /\ v[2] \in {"str", "bytes"})

\* list, tuple, dict, dataclass, attrs; a namedtuple is left whole.
TakenApart(v) ==
    \/ v[1] = "items" /\ v[2] \in {"list", "tuple"}
    \/ v[1] = "mapping" /\ v[2] = "dict"
    \/ v[1] = "record"

Pairs(v) == IF v[1] = "record" THEN v[4] ELSE v[3]

\* The children of a value that is taken apart.
Slots(v) ==
    CASE v[1] = "items"   -> v[3]
      [] v[1] = "mapping" -> [i \in DOMAIN v[3] |-> v[3][i][1]] \o [i \in DOMAIN v[3] |-> v[3][i][2]]
      [] v[1] = "record"  -> [i \in DOMAIN v[4] |-> v[4][i][2]]

Rebuilt(v, children) ==
    LET n == Len(Pairs(v)) IN
    CASE v[1] = "items"   -> [v EXCEPT ![3] = children]
      [] v[1] = "mapping" -> [v EXCEPT ![3] = [i \in 1 .. n |-> <<children[i], children[n + i]>>]]
      [] v[1] = "record"  -> [v EXCEPT ![4] = [i \in 1 .. n |-> <<v[4][i][1], children[i]>>]]

IsDigest(v) == v[1] = "digest"

\* A bug: a wrapper is written before the parts it refers to.
ParentFirst(below, entry) == <<entry>> \o below

PartsFirst(below, entry) == Append(below, entry)

RECURSIVE Interned(_, _)

\* _intern_rec with remaining_depth r: what stands for the value in its parent,
\* its depth, and the entries that have been written, in order.
Interned(v, r) ==
    LET children == IF TakenApart(v) THEN Slots(v) ELSE <<>>
        parts == [i \in DOMAIN children |-> Interned(children[i], r)]
        values == [i \in DOMAIN parts |-> parts[i].value]
        depth == CASE IsDigest(v) -> -1
                   [] Scalar(v) \/ (TakenApart(v) /\ children = <<>>) -> 0
                   [] children # <<>> -> 1 + Max({parts[i].depth : i \in DOMAIN parts})
                   [] OTHER -> Infinite
        own == CASE \E i \in DOMAIN values : IsDigest(values[i]) -> <<"wrapped", Rebuilt(v, values)>>
                 [] TakenApart(v) /\ v[1] # "record" -> Rebuilt(v, values)
                 [] OTHER -> v
        below == FlattenSeq([i \in DOMAIN parts |-> parts[i].writes])
    IN  IF depth < r THEN [value |-> own, depth |-> depth, writes |-> below]
        ELSE [value |-> <<"digest", DigestOf(own)>>, depth |-> depth,
              writes |-> PartsFirst(below, <<DigestOf(own), own>>)]

\* save: the entries it writes, in order, and the key that it returns.
Saved(v, r) ==
    LET apart == TakenApart(v) /\ Slots(v) # <<>>
        parts == Interned(v, r)
        own == IF apart THEN parts.value ELSE v
    IN  IF apart /\ parts.depth >= r THEN [key |-> own[2], writes |-> parts.writes]
        ELSE [key |-> DigestOf(own),
              writes |-> Append(IF apart THEN parts.writes ELSE <<>>, <<DigestOf(own), own>>)]

-----------------------------------------------------------------------------
Missing == <<"missing">>

RECURSIVE Loaded(_, _)

\* load: a wrapper is mended with the children its digests lead to.
Loaded(entries, d) ==
    LET Get(child) == IF IsDigest(child) THEN Loaded(entries, child[2]) ELSE child IN
    IF d \notin DOMAIN entries THEN Missing
    ELSE IF entries[d][1] # "wrapped" THEN entries[d]
    ELSE LET children == [i \in DOMAIN Slots(entries[d][2]) |-> Get(Slots(entries[d][2])[i])] IN
         IF Missing \in Range(children) THEN Missing ELSE Rebuilt(entries[d][2], children)

\* child_digests: the digests in the entry itself.
Children(entry) ==
    IF entry[1] # "wrapped" THEN {}
    ELSE {c[2] : c \in {x \in Range(Slots(entry[2])) : IsDigest(x)}}
=============================================================================
