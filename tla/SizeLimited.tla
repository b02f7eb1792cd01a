----------------------------- MODULE SizeLimited -----------------------------
(***************************************************************************)
(* SizeLimitedCache (caches.py): a Cache that evicts records once more     *)
(* than max_size are filed.  It counts with a set of its own, _keys, and   *)
(* does so under a lock of its own, _lock, which it takes before the key   *)
(* locks of the Cache it is mixed into.  _transfer_one and redigest take   *)
(* key locks first and then call save and evict.                           *)
(*                                                                         *)
(* A key lock that is taken and left within one save, evict or contains of *)
(* Cache is part of that step; held has those that outlast a step.         *)
(***************************************************************************)
EXTENDS Naturals, FiniteSets

CONSTANTS
    Threads,
    Keys,       \* lookup keys; numbers, because sorted() compares them
    max_size,
    Programs,   \* which operations each thread of a program calls
    None

AllOps == {"save", "evict", "evict_prefix", "transfer", "redigest"}

ASSUME KeysAreOrdered == Keys \subseteq Nat /\ IsFiniteSet(Keys)
ASSUME MaxSizeIsNat == max_size \in Nat
ASSUME ProgramsAreKnown == Programs \subseteq [Threads -> SUBSET AllOps]
ASSUME NoneIsNoThread == None \notin Threads \cup Keys /\ None \notin AllOps

VARIABLES
    calls,   \* the keys filed in Cache.calls
    _keys,   \* the keys the mixin counts
    _lock,   \* the thread that owns the mixin's RLock, or None
    pc,
    op,
    key,     \* the key a thread's operation is about
    old,     \* redigest: the key the record was filed under
    want,    \* key locks it has still to take around the operation
    held,    \* key locks it holds around the operation
    victim,  \* the record to drop next
    ops      \* the operations that each thread of this program calls

vars == <<calls, _keys, _lock, pc, op, key, old, want, held, victim, ops>>

\* A cache may be built over a storage that is already too large:
\* __post_init__ counts the records and evicts none.
Init ==
    /\ calls \in SUBSET Keys
    /\ _keys = calls
    /\ _lock = None
    /\ pc = [t \in Threads |-> "idle"]
    /\ op = [t \in Threads |-> None]
    /\ key = [t \in Threads |-> None]
    /\ old = [t \in Threads |-> None]
    /\ want = [t \in Threads |-> {}]
    /\ held = [t \in Threads |-> {}]
    /\ victim = [t \in Threads |-> None]
    /\ ops \in Programs

Goto(t, step) == pc' = [pc EXCEPT ![t] = step]

KeyFree(t, k) == \A u \in Threads \ {t} : k \notin held[u]

\* The operation is over: every lock it holds is left.
Return(t) ==
    /\ Goto(t, "idle")
    /\ op' = [op EXCEPT ![t] = None]
    /\ key' = [key EXCEPT ![t] = None]
    /\ old' = [old EXCEPT ![t] = None]
    /\ held' = [held EXCEPT ![t] = {}]
    /\ victim' = [victim EXCEPT ![t] = None]

-----------------------------------------------------------------------------

Start(t, o, k) ==
    /\ op' = [op EXCEPT ![t] = o]
    /\ key' = [key EXCEPT ![t] = k]
    /\ want' = [want EXCEPT ![t] = IF o = "transfer" THEN {k} ELSE {}]
    /\ Goto(t, IF o = "transfer" THEN "lock" ELSE "take")
    /\ UNCHANGED <<calls, _keys, _lock, old, held, victim>>

Begin(t) ==
    /\ pc[t] = "idle"
    /\ \E o \in ops[t] \ {"redigest"}, k \in Keys : Start(t, o, k)

\* Cache.redigest meets a record whose key is out of date.
BeginRedigest(t) ==
    /\ pc[t] = "idle" /\ "redigest" \in ops[t]
    /\ \E k \in calls, n \in Keys :
        /\ n # k
        /\ op' = [op EXCEPT ![t] = "redigest"]
        /\ key' = [key EXCEPT ![t] = n]
        /\ old' = [old EXCEPT ![t] = k]
        /\ want' = [want EXCEPT ![t] = {k, n}]
    /\ Goto(t, "lock")
    /\ UNCHANGED <<calls, _keys, _lock, held, victim>>

\* A bug: redigest takes the locks in the order in which it finds the keys.
OldKeyFirst(t, k) == old[t] \in want[t] => k = old[t]

\* first, second = sorted((key, new_key))
IsFirst(t, k) == \A j \in want[t] : k <= j

\* The key locks around the operation, one after the other.
LockKey(t, k) ==
    /\ pc[t] = "lock" /\ k \in want[t] /\ IsFirst(t, k)
    /\ KeyFree(t, k)
    /\ want' = [want EXCEPT ![t] = @ \ {k}]
    /\ held' = [held EXCEPT ![t] = @ \cup {k}]
    /\ Goto(t, IF want[t] # {k} THEN "lock"
               ELSE IF op[t] = "transfer" THEN "check" ELSE "take")
    /\ UNCHANGED <<calls, _keys, _lock, op, key, old, victim>>

\* _transfer_one: a conflicting entry is kept, unless overwrite is set.
Skip(t) ==
    /\ pc[t] = "check" /\ key[t] \in calls
    /\ Return(t)
    /\ UNCHANGED <<calls, _keys, _lock, want>>

Replay(t) ==
    /\ pc[t] = "check"
    /\ Goto(t, "take")
    /\ UNCHANGED <<calls, _keys, _lock, op, key, old, want, held, victim>>

\* c.fetch() raises: the record is gone from the cache it comes from.
FetchFails(t) ==
    /\ pc[t] = "check"
    /\ Return(t)
    /\ UNCHANGED <<calls, _keys, _lock, want>>

\* with self._lock
TakeLock(t) ==
    /\ pc[t] = "take"
    /\ _lock = None
    /\ _lock' = t
    /\ IF op[t] \in {"evict", "evict_prefix"}
       THEN victim' = [victim EXCEPT ![t] = key[t]] /\ Goto(t, "drop")
       ELSE UNCHANGED victim /\ Goto(t, "file")
    /\ UNCHANGED <<calls, _keys, op, key, old, want, held>>

\* super().save(call)
File(t) ==
    /\ pc[t] = "file"
    /\ KeyFree(t, key[t])
    /\ calls' = calls \cup {key[t]}
    /\ Goto(t, "track")
    /\ UNCHANGED <<_keys, _lock, op, key, old, want, held, victim>>

\* super().save raises Rejected: nothing is filed, nothing counted.
FileRejected(t) ==
    /\ pc[t] = "file"
    /\ KeyFree(t, key[t])
    /\ _lock' = None
    /\ Return(t)
    /\ UNCHANGED <<calls, _keys, want>>

Track(t) ==
    /\ pc[t] = "track"
    /\ _keys' = _keys \cup {key[t]}
    /\ Goto(t, "enforce")
    /\ UNCHANGED <<calls, _lock, op, key, old, want, held, victim>>

\* A defect: the record just saved is not counted in the comparison.
TooManyBesidesNew == Cardinality(_keys) > max_size + 1

TooMany == Cardinality(_keys) > max_size

\* _enforce_size_limit: any record may be picked, the new one included.
PickVictim(t) ==
    /\ pc[t] = "enforce" /\ TooMany
    /\ \E k \in _keys : victim' = [victim EXCEPT ![t] = k]
    /\ Goto(t, "drop")
    /\ UNCHANGED <<calls, _keys, _lock, op, key, old, want, held>>

\* save returns; redigest goes on and evicts the old key.
SaveReturns(t) ==
    /\ pc[t] = "enforce" /\ ~TooMany
    /\ _lock' = None
    /\ IF op[t] = "redigest"
       THEN /\ op' = [op EXCEPT ![t] = "evict"]
            /\ key' = [key EXCEPT ![t] = old[t]]
            /\ old' = [old EXCEPT ![t] = None]
            /\ Goto(t, "take")
            /\ UNCHANGED <<held, victim>>
       ELSE Return(t)
    /\ UNCHANGED <<calls, _keys, want>>

\* super().evict(target); a short digest enters a lock of its own.
Drop(t) ==
    /\ pc[t] = "drop"
    /\ op[t] = "evict_prefix" \/ KeyFree(t, victim[t])
    /\ calls' = calls \ {victim[t]}
    /\ Goto(t, "untrack")
    /\ UNCHANGED <<_keys, _lock, op, key, old, want, held, victim>>

\* A defect: evict does not discard the key.
UntrackNothing(t) ==
    /\ pc[t] = "untrack"
    /\ IF op[t] \in {"evict", "evict_prefix"}
       THEN _lock' = None /\ Return(t)
       ELSE /\ Goto(t, "enforce")
            /\ UNCHANGED <<_lock, op, key, old, held, victim>>
    /\ UNCHANGED <<calls, _keys, want>>

\* _keys.discard(str(key)): a short digest is not in the set.
Untrack(t) ==
    /\ pc[t] = "untrack"
    /\ _keys' = IF op[t] = "evict_prefix" THEN _keys ELSE _keys \ {victim[t]}
    /\ IF op[t] \in {"evict", "evict_prefix"}
       THEN _lock' = None /\ Return(t)
       ELSE /\ Goto(t, "enforce")
            /\ victim' = [victim EXCEPT ![t] = None]
            /\ UNCHANGED <<_lock, op, key, old, held>>
    /\ UNCHANGED <<calls, want>>

Step(t) ==
    \/ \E k \in Keys : LockKey(t, k)
    \/ Skip(t) \/ FetchFails(t) \/ Replay(t) \/ TakeLock(t)
    \/ File(t) \/ FileRejected(t) \/ Track(t)
    \/ PickVictim(t) \/ SaveReturns(t)
    \/ Drop(t) \/ Untrack(t)

Next ==
    /\ \E t \in Threads : Begin(t) \/ BeginRedigest(t) \/ Step(t)
    /\ UNCHANGED ops

Spec == Init /\ [][Next]_vars

-----------------------------------------------------------------------------

Steps == {"idle", "lock", "check", "take", "file", "track", "enforce", "drop", "untrack"}
LockedSteps == {"file", "track", "enforce", "drop", "untrack"}

\* The mixin's lock is owned exactly through the body of save and evict.
TypeOK ==
    /\ calls \subseteq Keys
    /\ _keys \subseteq Keys
    /\ _lock \in Threads \cup {None}
    /\ pc \in [Threads -> Steps]
    /\ op \in [Threads -> AllOps \cup {None}]
    /\ key \in [Threads -> Keys \cup {None}]
    /\ old \in [Threads -> Keys \cup {None}]
    /\ want \in [Threads -> SUBSET Keys]
    /\ held \in [Threads -> SUBSET Keys]
    /\ victim \in [Threads -> Keys \cup {None}]
    /\ ops \in Programs
    /\ \A t \in Threads :
        /\ _lock = t <=> pc[t] \in LockedSteps
        /\ pc[t] = "idle" <=> op[t] = None
        /\ pc[t] = "idle" => held[t] = {}
        /\ pc[t] \notin {"idle"} => key[t] # None
        /\ pc[t] \in {"drop", "untrack"} => victim[t] # None
        /\ op[t] = "redigest" => old[t] # None

\* "The maximum number of calls to keep": whatever it started from, when a
\* save returns the cache holds no more (caches.py 936-951, 984-1001).
SaveLeavesAtMostMaxSize ==
    [][\A t \in Threads : SaveReturns(t) => Cardinality(calls) <= max_size]_vars

\* A short digest is evicted and not uncounted: the count is then too high.
FullDigestsOnly == \A t \in Threads : "evict_prefix" \notin ops[t]

\* "When ... the number of cached calls exceeds max_size, a call record is
\* selected for eviction" (caches.py 947): none is dropped before, where
\* nobody evicts by a short digest.
EvictsOnlyWhenFull ==
    [][FullDigestsOnly =>
        \A t \in Threads : PickVictim(t) => Cardinality(calls) > max_size]_vars

\* What the mixin counts is what is filed, whenever nobody is at work on it
\* and nobody evicts by a short digest (caches.py 984-1023).
CountIsExact == FullDigestsOnly /\ _lock = None => _keys = calls

\* No record is filed that is not counted: such a one could never be evicted.
NothingUncounted == _lock = None => calls \subseteq _keys

\* The key whose lock a thread is about to take, or waits for.
WantedKey(t) ==
    CASE pc[t] = "lock" -> {k \in want[t] : IsFirst(t, k)}
      [] pc[t] = "file" -> {key[t]}
      [] pc[t] = "drop" /\ op[t] # "evict_prefix" -> {victim[t]}
      [] OTHER -> {}

WaitsFor(t) ==
    {u \in Threads \ {t} :
        \/ pc[t] = "take" /\ _lock = u
        \/ WantedKey(t) \cap held[u] # {}}

\* Threads each of which waits for another of them: none of them goes on.
Circle(S) == S # {} /\ \A t \in S : WaitsFor(t) \cap S # {}

\* "We sort the keys to impose a consistent acquisition order and avoid
\* deadlock" (caches.py 449-451): no threads wait for one another.
NoDeadlock == \A S \in SUBSET Threads : ~Circle(S)

\* The sorted key locks alone close no circle, however many redigests and
\* transfers run next to saves and evictions: where threads wait for one
\* another, one of them is in the body of the mixin's save or evict, and wants
\* the lock of a key while it owns the mixin's (caches.py 451-456, 993).
CirclesPassTheLimit == \A S \in SUBSET Threads : Circle(S) => \E t \in S : _lock = t

=============================================================================
