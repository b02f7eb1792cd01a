----------------------------- MODULE PerKeyLock -----------------------------
(***************************************************************************)
(* The lock table behind PerKeyLockMixin (storage/thread_safe.py), which   *)
(* every storage and cache of fleche locks through.                        *)
(*                                                                         *)
(* _per_instance_locks is a WeakKeyDictionary: one entry serves all        *)
(* storages that compare equal (same class, root and secret keys), and it  *)
(* is keyed weakly by whichever of them came first, the anchor.  The       *)
(* entry's table is a WeakValueDictionary from keys to RLocks: a lock      *)
(* stays in it only while some thread refers to the lock.                  *)
(*                                                                         *)
(* A thread runs one operation at a time.  The operation enters a sequence *)
(* of keys, the later ones nested in the earlier ones, and then leaves     *)
(* them in reverse order.                                                  *)
(***************************************************************************)
EXTENDS Naturals, Sequences

CONSTANTS
    Threads,
    Instances,   \* storages that compare equal: one entry serves them all
    Keys,        \* digests; numbers, because sorted() compares them
    Tables,      \* WeakValueDictionary objects, reused once unreachable
    Locks,       \* RLock objects, reused once unreachable
    ShrinkArgs,  \* the key tuples that callers pass to shrink()
    None

ASSUME KeysAreOrdered == Keys \subseteq Nat
ASSUME ShrinkArgsAreKeyTuples == ShrinkArgs \subseteq Seq(Keys) \ {<<>>}
ASSUME NoneIsNoObject == None \notin Instances \cup Tables \cup Locks

VARIABLES
    alive,      \* the instances the program still refers to
    anchor,     \* the instance that keys the entry of _per_instance_locks
    table,      \* the table stored in that entry
    key_locks,  \* [Tables -> [Keys -> lock or None]]: the weak values
    pc,
    inst,       \* the instance a thread's operation runs on
    todo,       \* the keys the operation has still to enter
    tab,        \* the table it looked up last
    got,        \* the lock it refers to and has yet to acquire
    frames      \* the keys it is inside of, each with the lock it holds

vars == <<alive, anchor, table, key_locks, pc, inst, todo, tab, got, frames>>

Steps == {"idle", "lookup", "create", "get", "acquire", "inside"}
Frame == [key : Keys, lock : Locks]

FramesOf(t) == {frames[t][n] : n \in 1..Len(frames[t])}
HeldLocks(t) == {f.lock : f \in FramesOf(t)}
EnteredKeys(t) == {f.key : f \in FramesOf(t)}

(***************************************************************************)
(* The key sequences that fleche's operations enter.                       *)
(***************************************************************************)

\* save, load, contains, evict: an operation that calls others on its key.
NestedKeys(k) == <<k, k>>

\* Cache.redigest: old and new key in sorted order, then save(new) in there.
RedigestKeys(old, new) ==
    IF old < new THEN <<old, new, new>> ELSE <<new, old, new>>

Programs ==
    {NestedKeys(k) : k \in Keys}
    \cup {RedigestKeys(k[1], k[2]) : k \in {p \in Keys \X Keys : p[1] # p[2]}}
    \cup ShrinkArgs  \* KeyManagement._shrink keeps the caller's order

Init ==
    /\ alive = Instances
    /\ anchor = None
    /\ table = None
    /\ key_locks = [b \in Tables |-> [k \in Keys |-> None]]
    /\ pc = [t \in Threads |-> "idle"]
    /\ inst = [t \in Threads |-> None]
    /\ todo = [t \in Threads |-> <<>>]
    /\ tab = [t \in Threads |-> None]
    /\ got = [t \in Threads |-> None]
    /\ frames = [t \in Threads |-> <<>>]

Begin(t) ==
    /\ pc[t] = "idle"
    /\ \E i \in alive, p \in Programs :
        /\ inst' = [inst EXCEPT ![t] = i]
        /\ todo' = [todo EXCEPT ![t] = p]
    /\ pc' = [pc EXCEPT ![t] = "lookup"]
    /\ UNCHANGED <<alive, anchor, table, key_locks, tab, got, frames>>

\* Line 127, outside any lock: the entry, or KeyError.
Lookup(t) ==
    /\ pc[t] = "lookup"
    /\ IF anchor # None
       THEN /\ tab' = [tab EXCEPT ![t] = table]
            /\ pc' = [pc EXCEPT ![t] = "get"]
       ELSE /\ pc' = [pc EXCEPT ![t] = "create"]
            /\ UNCHANGED tab
    /\ UNCHANGED <<alive, anchor, table, key_locks, inst, todo, got, frames>>

\* A defect: no second look under _instances_lock.
CreateTableUnchecked(t) ==
    /\ pc[t] = "create"
    /\ \E b \in Tables :
        /\ \A u \in Threads : tab[u] # b
        /\ anchor' = inst[t]
        /\ table' = b
        /\ key_locks' = [key_locks EXCEPT ![b] = [k \in Keys |-> None]]
        /\ tab' = [tab EXCEPT ![t] = b]
    /\ pc' = [pc EXCEPT ![t] = "get"]
    /\ UNCHANGED <<alive, inst, todo, got, frames>>

\* Lines 129-132, under _instances_lock: look again before inserting.
CreateTable(t) ==
    /\ pc[t] = "create"
    /\ \/ /\ anchor # None
          /\ tab' = [tab EXCEPT ![t] = table]
          /\ UNCHANGED <<anchor, table, key_locks>>
       \/ /\ anchor = None
          /\ \E b \in Tables :
              /\ \A u \in Threads : tab[u] # b
              /\ anchor' = inst[t]
              /\ table' = b
              /\ key_locks' = [key_locks EXCEPT ![b] = [k \in Keys |-> None]]
              /\ tab' = [tab EXCEPT ![t] = b]
    /\ pc' = [pc EXCEPT ![t] = "get"]
    /\ UNCHANGED <<alive, inst, todo, got, frames>>

InUse(l) == \E u \in Threads : l = got[u] \/ l \in HeldLocks(u)
Listed(l) == \E b \in Tables, k \in Keys : key_locks[b][k] = l

\* Lines 133-140, under the table's meta_lock: the lock of the key being
\* entered, made on first use.  From here on the thread refers to it.
GetOrCreateLock(t) ==
    /\ pc[t] = "get"
    /\ LET k == Head(todo[t])
           l == key_locks[tab[t]][k]
       IN \/ /\ l # None
             /\ got' = [got EXCEPT ![t] = l]
             /\ UNCHANGED key_locks
          \/ /\ l = None
             /\ \E n \in Locks :
                 /\ ~InUse(n) /\ ~Listed(n)
                 /\ key_locks' = [key_locks EXCEPT ![tab[t]][k] = n]
                 /\ got' = [got EXCEPT ![t] = n]
    /\ pc' = [pc EXCEPT ![t] = "acquire"]
    /\ UNCHANGED <<alive, anchor, table, inst, todo, tab, frames>>

\* RLock.acquire: blocks while another thread holds it, never on oneself.
Free(t, l) == \A u \in Threads \ {t} : l \notin HeldLocks(u)

\* A defect: a contended lock is not waited for but looked up again.
AcquireOrBackOff(t) ==
    /\ pc[t] = "acquire"
    /\ got' = [got EXCEPT ![t] = None]
    /\ IF \E u \in Threads \ {t} : got[u] = got[t]
       THEN /\ pc' = [pc EXCEPT ![t] = "lookup"]
            /\ UNCHANGED <<frames, todo>>
       ELSE /\ Free(t, got[t])
            /\ frames' = [frames EXCEPT ![t] =
                            Append(@, [key |-> Head(todo[t]), lock |-> got[t]])]
            /\ todo' = [todo EXCEPT ![t] = Tail(@)]
            /\ pc' = [pc EXCEPT ![t] = IF Len(todo[t]) = 1 THEN "inside" ELSE "lookup"]
    /\ UNCHANGED <<alive, anchor, table, key_locks, inst, tab>>

Acquire(t) ==
    /\ pc[t] = "acquire"
    /\ Free(t, got[t])
    /\ frames' = [frames EXCEPT ![t] =
                    Append(@, [key |-> Head(todo[t]), lock |-> got[t]])]
    /\ got' = [got EXCEPT ![t] = None]
    /\ todo' = [todo EXCEPT ![t] = Tail(@)]
    /\ pc' = [pc EXCEPT ![t] = IF Len(todo[t]) = 1 THEN "inside" ELSE "lookup"]
    /\ UNCHANGED <<alive, anchor, table, key_locks, inst, tab>>

\* Leaving the innermost with block; after the last one the call returns.
Exit(t) ==
    /\ pc[t] = "inside"
    /\ frames' = [frames EXCEPT ![t] = SubSeq(@, 1, Len(@) - 1)]
    /\ IF Len(frames[t]) = 1
       THEN /\ pc' = [pc EXCEPT ![t] = "idle"]
            /\ inst' = [inst EXCEPT ![t] = None]
            /\ tab' = [tab EXCEPT ![t] = None]
       ELSE UNCHANGED <<pc, inst, tab>>
    /\ UNCHANGED <<alive, anchor, table, key_locks, todo, got>>

\* The WeakValueDictionary drops a lock that nobody refers to.
CollectLock(b, k) ==
    /\ key_locks[b][k] # None
    /\ ~InUse(key_locks[b][k])
    /\ key_locks' = [key_locks EXCEPT ![b][k] = None]
    /\ UNCHANGED <<alive, anchor, table, pc, inst, todo, tab, got, frames>>

\* The program forgets an instance that no thread works on; when it was the
\* anchor, the WeakKeyDictionary drops the entry.
DropInstance(i) ==
    /\ i \in alive
    /\ \A t \in Threads : inst[t] # i
    /\ alive' = alive \ {i}
    /\ IF anchor = i
       THEN anchor' = None /\ table' = None
       ELSE UNCHANGED <<anchor, table>>
    /\ UNCHANGED <<key_locks, pc, inst, todo, tab, got, frames>>

\* The program builds a storage equal to the others.
NewInstance(i) ==
    /\ i \notin alive
    /\ alive' = alive \cup {i}
    /\ UNCHANGED <<anchor, table, key_locks, pc, inst, todo, tab, got, frames>>

Step(t) ==
    \/ Lookup(t)
    \/ CreateTable(t)
    \/ GetOrCreateLock(t)
    \/ Acquire(t)
    \/ Exit(t)

Next ==
    \/ \E t \in Threads : Begin(t) \/ Step(t)
    \/ \E b \in Tables, k \in Keys : CollectLock(b, k)
    \/ \E i \in Instances : DropInstance(i) \/ NewInstance(i)

Spec == Init /\ [][Next]_vars

\* Threads are scheduled (WF), but a freed lock may be taken by any waiter.
\* Collection is prompt: CPython frees an unreferenced lock immediately.
FairSpec ==
    /\ Spec
    /\ \A t \in Threads : WF_vars(Step(t))
    /\ \A b \in Tables, k \in Keys : WF_vars(CollectLock(b, k))

-----------------------------------------------------------------------------

\* A thread's bookkeeping agrees with its phase in _get_key_lock and
\* _operation_context.
Bookkeeping(t) ==
    /\ pc[t] = "idle" <=> inst[t] = None
    /\ pc[t] = "idle" => frames[t] = <<>>
    /\ pc[t] = "inside" => frames[t] # <<>>
    /\ pc[t] \in {"idle", "inside"} <=> todo[t] = <<>>
    /\ pc[t] \in {"get", "acquire"} => tab[t] # None
    /\ frames[t] # <<>> => tab[t] # None
    /\ pc[t] = "acquire" <=> got[t] # None

\* The shape of the lock table and of every thread's bookkeeping.
TypeOK ==
    /\ alive \subseteq Instances
    /\ anchor \in Instances \cup {None}
    /\ table \in Tables \cup {None}
    /\ anchor = None <=> table = None
    /\ key_locks \in [Tables -> [Keys -> Locks \cup {None}]]
    /\ pc \in [Threads -> Steps]
    /\ inst \in [Threads -> Instances \cup {None}]
    /\ todo \in [Threads -> Seq(Keys)]
    /\ tab \in [Threads -> Tables \cup {None}]
    /\ got \in [Threads -> Locks \cup {None}]
    /\ frames \in [Threads -> Seq(Frame)]
    /\ \A t \in Threads : Bookkeeping(t)

\* "Operations on the same key are serialized by the per-key lock": no two
\* threads are inside _operation_context for one key (thread_safe.py 142-150).
MutualExclusion ==
    \A t, u \in Threads : t # u => EnteredKeys(t) \cap EnteredKeys(u) = {}

\* The purpose of the strong reference of line 134: a lock that a thread
\* holds, or has been handed and will acquire, is still the one that the next
\* _get_key_lock for that key will find.
LocksAreListed ==
    \A t \in Threads :
        /\ got[t] # None => key_locks[table][Head(todo[t])] = got[t]
        /\ \A f \in FramesOf(t) : key_locks[table][f.key] = f.lock

\* Contention is resolved: when a thread wants a lock, some thread gets
\* through to its operation's body.  (Which one is up to the scheduler.)
WaitersProgress ==
    (\E t \in Threads : pc[t] = "acquire") ~> (\E t \in Threads : pc[t] = "inside")

\* The keys a thread is inside of, outermost first.
KeyStack(s) == [n \in 1..Len(s) |-> s[n].key]
KeyStacks == [t \in Threads |-> KeyStack(frames[t])]

\* The lock table implements the promise of KeyMutex.
Mutex == INSTANCE KeyMutex WITH inside <- KeyStacks
ImplementsKeyMutex == Mutex!Spec
=============================================================================
