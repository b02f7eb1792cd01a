---------------------------- MODULE Destructuring ----------------------------
(***************************************************************************)
(* A value storage that takes values apart (DigestedParts), used by several  *)
(* threads at once, with different settings of remaining_depth.  A save      *)
(* writes the parts one after the other, each under its digest; one that     *)
(* cannot be written ends it in the middle.  gc finds the entries that are   *)
(* still needed by following the digests in them.                            *)
(***************************************************************************)
EXTENDS DigestedParts

CONSTANTS
    Threads,
    ValuesSaved, \* the values a program saves
    Depths,      \* settings of remaining_depth in use
    None

VARIABLES
    entries,  \* the storage
    kept,     \* keys the stored records refer to
    todo,     \* todo[t]: entries the save of t has still to write, in order
    saving    \* saving[t]: the key that its save returns

storageVars == <<entries, kept, todo, saving>>

-----------------------------------------------------------------------------
StorageInit ==
    /\ entries = [d \in {} |-> None]
    /\ kept = {}
    /\ todo = [t \in Threads |-> <<>>]
    /\ saving = [t \in Threads |-> None]

\* The entries and the key of each save a program makes.
Saves == [v \in ValuesSaved |-> [r \in Depths |-> Saved(v, r)]]

Begin(t, save) ==
    /\ saving[t] = None /\ save.key # Indigestible
    /\ saving' = [saving EXCEPT ![t] = save.key]
    /\ todo' = [todo EXCEPT ![t] = save.writes]
    /\ UNCHANGED <<entries, kept>>

Put(t) ==
    /\ todo[t] # <<>>
    /\ entries' = [d \in DOMAIN entries \cup {Head(todo[t])[1]} |->
                      IF d = Head(todo[t])[1] THEN Head(todo[t])[2] ELSE entries[d]]
    /\ todo' = [todo EXCEPT ![t] = Tail(@)]
    /\ UNCHANGED <<kept, saving>>

\* A part that the storage cannot pickle; what was written stays.
PutFails(t) ==
    /\ todo[t] # <<>> /\ Head(todo[t])[2][1] = "function"
    /\ todo' = [todo EXCEPT ![t] = <<>>]
    /\ saving' = [saving EXCEPT ![t] = None]
    /\ UNCHANGED <<entries, kept>>

\* save returns the key and the record that names it is filed.
Return(t) ==
    /\ saving[t] # None /\ todo[t] = <<>>
    /\ kept' = kept \cup {saving[t]}
    /\ saving' = [saving EXCEPT ![t] = None]
    /\ UNCHANGED <<entries, todo>>

\* The records that refer to d are evicted.
Forget(d) ==
    /\ kept' = kept \ {d}
    /\ UNCHANGED <<entries, todo, saving>>

RECURSIVE ReachableFrom(_)
ReachableFrom(S) ==
    LET next == S \cup UNION {Children(entries[d]) : d \in S \cap DOMAIN entries}
    IN  IF next = S THEN S ELSE ReachableFrom(next)

Reachable == ReachableFrom(kept)

\* gc over the whole storage while nothing is being saved.
Gc ==
    /\ \A t \in Threads : saving[t] = None
    /\ entries' = [d \in DOMAIN entries \cap Reachable |-> entries[d]]
    /\ UNCHANGED <<kept, todo, saving>>

StorageNext ==
    \/ \E t \in Threads : Put(t) \/ PutFails(t) \/ Return(t)
    \/ \E t \in Threads, v \in ValuesSaved, r \in Depths : Begin(t, Saves[v][r])
    \/ \E d \in kept : Forget(d)
    \/ Gc

-----------------------------------------------------------------------------
StorageTypeOK ==
    /\ \A d \in DOMAIN entries : d # Indigestible /\ entries[d] # <<>>
    /\ \A t \in Threads : saving[t] = None => todo[t] = <<>>

RECURSIVE Below(_)
\* A value and all it is made of.
Below(v) == {v} \cup IF TakenApart(v) THEN UNION {Below(c) : c \in Range(Slots(v))} ELSE {}

\* The digests that a user put into a value.
References(v) == {w[2] : w \in {x \in Below(v) : IsDigest(x)}}

\* A class that digests its instances itself: a wrapper does not know it.
OwnDigest(v) == v[1] = "record" /\ v[3] = "own"

Originals == {w \in UNION {Below(v) : v \in ValuesSaved} :
    ~IsDigest(w) /\ References(w) = {} /\ ~\E x \in Below(w) : OwnDigest(x)}

Digested == {<<DigestOf(v), v>> : v \in Originals}

\* Every entry in the storage loads back whole at every moment, as a value that
\* means what the saved one did: in the middle of a save, after one that failed
\* half way, while another thread rewrites the same value with another setting,
\* and after a gc.  (Forget leaves the entries alone, so each storage there can
\* be is met with nothing kept as well: it is looked at there.)
EntriesLoadBack == DOMAIN entries # {} /\ kept = {} =>
    LET digested == Digested IN
    \A pair \in digested : pair[1] \in DOMAIN entries =>
        LET back == Loaded(entries, pair[1])
        IN  back # Missing /\ Same(back, pair[2])

\* The digests in the values saved, of those no part of which digests itself.
Referred == {<<DigestOf(v), References(v)>> :
                v \in {w \in ValuesSaved : ~\E x \in Below(w) : OwnDigest(x)}}

\* What a record refers to stays loadable through gc runs, as long as what the
\* digests in it refer to is kept too.
KeptLoadBack == kept # {} =>
    LET referred == Referred IN
    \A d \in kept \cap {pair[1] : pair \in referred} :
        (\A pair \in referred : pair[1] = d => pair[2] \subseteq kept) => Loaded(entries, d) # Missing

\* What is stored, and what a record refers to, can be loaded at every moment.
StoredLoadBack == EntriesLoadBack /\ KeptLoadBack
=============================================================================
