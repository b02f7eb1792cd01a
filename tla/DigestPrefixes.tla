--------------------------- MODULE DigestPrefixes ---------------------------
(***************************************************************************)
(* Short digests: how a prefix is resolved to a stored key (expand), how    *)
(* the shortest prefix of a key is found (shrink), in one storage, in a     *)
(* Cache (a call storage and a value storage) and in a cache over several   *)
(* members, while records and values come and go.  A digest is a sequence   *)
(* over a small alphabet.  An answer is the set of digests it names: empty  *)
(* for a KeyError, one digest when it is resolved, two or more when an      *)
(* AmbiguousDigestError lists them.                                         *)
(***************************************************************************)
EXTENDS Naturals, FiniteSets, FiniteSetsExt, Sequences, SequencesExt

CONSTANTS
    FullDigests,  \* full-length digests
    DigestLength, \* DIGEST_LENGTH
    MinLength,    \* the shortest prefix that is resolved (4 in the code)
    Members,      \* the member caches
    Shorts,       \* the short digests a user types
    Nobody

ASSUME LengthAssumption ==
    /\ DigestLength \in Nat /\ MinLength \in 1 .. DigestLength
    /\ FullDigests \subseteq [1 .. DigestLength -> Nat] /\ IsFiniteSet(FullDigests)

VARIABLES
    calls,   \* calls[m]: keys filed in the call storage of member m
    values,  \* values[m]: keys stored in its value storage
    handed   \* the last prefix a user got from Cache.shrink

prefixVars == <<calls, values, handed>>

-----------------------------------------------------------------------------
(* One storage.                                                             *)

Before(a, b) == \E i \in 1 .. DigestLength :
    /\ SubSeq(a, 1, i - 1) = SubSeq(b, 1, i - 1)
    /\ a[i] < b[i]

Smallest(S) == CHOOSE a \in S : \A b \in S \ {a} : Before(a, b)
Largest(S)  == CHOOSE a \in S : \A b \in S \ {a} : Before(b, a)

Matching(S, p) == {d \in S : IsPrefix(p, d)}

\* A bug: only the first candidate is fetched: an ambiguous prefix looks unique.
FirstCandidate(S, p) ==
    LET all == Matching(S, p) IN IF all = {} THEN {} ELSE {Smallest(all)}

Candidates(S, p) ==
    LET all == Matching(S, p) IN
    IF Cardinality(all) <= 2 THEN all
    ELSE {Smallest(all), Smallest(all \ {Smallest(all)})}

Expand(S, p) ==
    CASE Len(p) >= DigestLength -> {p}
      [] Len(p) < MinLength     -> {}
      [] OTHER                  -> Candidates(S, p)

Common(a, b) == Len(LongestCommonPrefix({a, b}))

ShortLength(S, k) ==
    LET left  == {d \in S : Before(d, k)}
        right == {d \in S : Before(k, d)}
        next  == {Largest(left) : x \in left} \cup {Smallest(right) : x \in right}
    IN  Max({MinLength} \cup {Common(k, d) + 1 : d \in next})

\* At most one prefix; none when the key is not stored or cannot be shrunk.
Shrink(S, k) ==
    IF k \in S /\ ShortLength(S, k) < DigestLength
    THEN {SubSeq(k, 1, ShortLength(S, k))} ELSE {}

-----------------------------------------------------------------------------
(* A Cache resolves a prefix in both its storages, and shrinks a key in the *)
(* one that has it.  A cache over members asks each of them; contains()     *)
(* looks a key up in the call storages only.                                *)

CacheExpand(m, p) == Expand(calls[m], p) \cup Expand(values[m], p)

\* A bug: the first member that answers is believed.
FirstAnswer(p) ==
    LET answers == {m \in Members : CacheExpand(m, p) # {}} IN
    IF answers = {} THEN {} ELSE CacheExpand(CHOOSE m \in answers : TRUE, p)

MultiExpand(p) == UNION {CacheExpand(m, p) : m \in Members}

CacheShrink(m, k) ==
    IF k \in calls[m] THEN Shrink(calls[m], k) ELSE Shrink(values[m], k)

Holders(k) == {m \in Members : k \in calls[m]}

MultiShrink(k) ==
    LET found == UNION {CacheShrink(m, k) : m \in Holders(k)} IN
    IF \E m \in Holders(k) : CacheShrink(m, k) = {} THEN {}
    ELSE {s \in found : \A r \in found : Len(r) <= Len(s)}

-----------------------------------------------------------------------------
PrefixInit ==
    /\ calls = [m \in Members |-> {}]
    /\ values = [m \in Members |-> {}]
    /\ handed = Nobody

SaveCall(m, d) ==
    /\ calls' = [calls EXCEPT ![m] = @ \cup {d}]
    /\ UNCHANGED <<values, handed>>

SaveValue(m, d) ==
    /\ values' = [values EXCEPT ![m] = @ \cup {d}]
    /\ UNCHANGED <<calls, handed>>

\* Cache.evict with a short or a full digest: only when it names one key.
Evict(m, p) ==
    /\ Cardinality(Expand(calls[m], p)) = 1
    /\ calls' = [calls EXCEPT ![m] = @ \ Expand(@, p)]
    /\ UNCHANGED <<values, handed>>

\* gc drops a value by its full key.
DropValue(m, d) ==
    /\ values' = [values EXCEPT ![m] = @ \ {d}]
    /\ UNCHANGED <<calls, handed>>

HandOut(m, k) ==
    /\ \E s \in CacheShrink(m, k) : handed' = [member |-> m, key |-> k, short |-> s]
    /\ UNCHANGED <<calls, values>>

PrefixNext == \E m \in Members :
    \/ \E d \in FullDigests : SaveCall(m, d) \/ SaveValue(m, d) \/ DropValue(m, d) \/ HandOut(m, d)
    \/ \E p \in Shorts \cup FullDigests : Evict(m, p)

PrefixSpec == PrefixInit /\ [][PrefixNext]_prefixVars

-----------------------------------------------------------------------------
PrefixesTypeOK ==
    /\ calls \in [Members -> SUBSET FullDigests]
    /\ values \in [Members -> SUBSET FullDigests]
    /\ handed # Nobody =>
         /\ handed.member \in Members /\ handed.key \in FullDigests
         /\ IsStrictPrefix(handed.short, handed.key)
         /\ Len(handed.short) >= MinLength

\* shrink compares a key with its two sorted neighbours only: the prefix it
\* returns names the key alone, and no shorter admissible prefix does
\* (KeyManagement._shrink_one).
ShrinksToShortest(S) == \A k \in S :
    /\ \A s \in Shrink(S, k) : Matching(S, s) = {k}
    /\ \A n \in MinLength .. DigestLength - 1 :
         Matching(S, SubSeq(k, 1, n)) = {k} =>
           \E s \in Shrink(S, k) : Len(s) <= n

ShrinkIsShortest == {S \in SUBSET FullDigests : ShrinksToShortest(S)}

\* Short digests never come to name another key, whatever is saved or evicted
\* meanwhile: one that Cache.shrink handed out names its own key or is refused
\* as ambiguous for as long as that key is kept; one that a cache over several
\* members finds for a record is never resolved there to another record.  And
\* every storage finds the shortest there is.
ShortsStayTrue ==
    /\ \A m \in Members : {calls[m], values[m]} \subseteq ShrinkIsShortest
    /\ handed # Nobody =>
         LET named == CacheExpand(handed.member, handed.short) IN
         handed.key \in calls[handed.member] \cup values[handed.member] =>
             named = {handed.key} \/ Cardinality(named) > 1
    /\ \A k \in FullDigests : \A s \in MultiShrink(k) :
         \A d \in FullDigests : MultiExpand(s) = {d} => d = k
=============================================================================
