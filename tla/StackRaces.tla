----------------------------- MODULE StackRaces -----------------------------
(***************************************************************************)
(* Threads on one key of a CacheStack with two members (caches.py          *)
(* 806-895): loads that fall through to the upper cache and copy the hit   *)
(* down, transfers into the stack, evictions from both members, and saves, *)
(* which go to the base cache.                                             *)
(*                                                                         *)
(* A record is a version: every computed result saved is a newer one.  The *)
(* only lock is the base cache's for the key, which the stack's own        *)
(* _operation_context enters.  A read or write that takes and leaves it    *)
(* again is one step.                                                      *)
(***************************************************************************)
EXTENDS Naturals

CONSTANTS
    Threads,
    None,
    MaxVersion,  \* bound: results computed in all, the first one included
    Foreign      \* the version in a cache that is transferred from, or None

VARIABLES
    base,       \* the version stack[0] holds, or None
    upper,      \* the version stack[1] holds, or None
    lock,       \* the thread inside the base cache's context for the key
    pc,
    lc,         \* the record a thread has loaded, or None
    newest,     \* the last version computed
    seen,       \* evict: the versions that were filed when it began
    forgotten   \* the versions that a completed evict found

vars == <<base, upper, lock, pc, lc, newest, seen, forgotten>>

Versions == 1..MaxVersion

Init ==
    /\ base = None
    /\ upper \in {None, 1}
    /\ lock = None
    /\ pc = [t \in Threads |-> "idle"]
    /\ lc = [t \in Threads |-> None]
    /\ newest = 1
    /\ seen = [t \in Threads |-> {}]
    /\ forgotten = {}

Goto(t, step) == pc' = [pc EXCEPT ![t] = step]
Free(t) == lock \in {None, t}

-----------------------------------------------------------------------------
(* CacheStack.load and _backfill *)

LoadBase(t) ==
    /\ pc[t] = "idle"
    /\ Free(t)
    /\ lc' = [lc EXCEPT ![t] = base]
    /\ Goto(t, IF base = None THEN "upper" ELSE "idle")
    /\ UNCHANGED <<base, upper, lock, newest, seen, forgotten>>

LoadUpper(t) ==
    /\ pc[t] = "upper"
    /\ lc' = [lc EXCEPT ![t] = upper]
    /\ Goto(t, IF upper = None THEN "idle" ELSE "backfill")
    /\ UNCHANGED <<base, upper, lock, newest, seen, forgotten>>

\* _transfer_one: another cache's record, to be kept out by a present one.
BeginTransfer(t) ==
    /\ pc[t] = "idle" /\ Foreign # None
    /\ lc' = [lc EXCEPT ![t] = Foreign]
    /\ Goto(t, "backfill")
    /\ UNCHANGED <<base, upper, lock, newest, seen, forgotten>>

\* with self._operation_context(key): if stack[0].contains(key): return
Enter(t) ==
    /\ pc[t] = "backfill"
    /\ lock = None
    /\ IF base # None
       THEN Goto(t, "idle") /\ UNCHANGED lock
       ELSE Goto(t, "copy") /\ lock' = t
    /\ UNCHANGED <<base, upper, lc, newest, seen, forgotten>>

\* self.save(lc.fetch()), and out of the context.
Copy(t) ==
    /\ pc[t] = "copy"
    /\ Free(t)
    /\ base' = lc[t]
    /\ lock' = None
    /\ Goto(t, "idle")
    /\ UNCHANGED <<upper, lc, newest, seen, forgotten>>

\* The base cache rejects the record, or it cannot be fetched any more
\* (KeyError: the load is a miss after all).
CopyRejected(t) ==
    /\ pc[t] = "copy"
    /\ lock' = None
    /\ \E miss \in BOOLEAN : lc' = IF miss THEN [lc EXCEPT ![t] = None] ELSE lc
    /\ Goto(t, "idle")
    /\ UNCHANGED <<base, upper, newest, seen, forgotten>>

-----------------------------------------------------------------------------
(* CacheStack.save and evict *)

\* A result computed anew (a miss, or a rerun).
Save(t) ==
    /\ pc[t] = "idle"
    /\ newest < MaxVersion
    /\ Free(t)
    /\ newest' = newest + 1
    /\ base' = newest + 1
    /\ UNCHANGED <<upper, lock, pc, lc, seen, forgotten>>

\* _foreach(evict): the base cache first,
EvictBase(t) ==
    /\ pc[t] = "idle"
    /\ Free(t)
    /\ seen' = [seen EXCEPT ![t] = {base, upper} \ {None}]
    /\ base' = None
    /\ Goto(t, "evict")
    /\ UNCHANGED <<upper, lock, lc, newest, forgotten>>

\* then the upper one.
EvictUpper(t) ==
    /\ pc[t] = "evict"
    /\ upper' = None
    /\ forgotten' = forgotten \cup seen[t]
    /\ seen' = [seen EXCEPT ![t] = {}]
    /\ Goto(t, "idle")
    /\ UNCHANGED <<base, lock, lc, newest>>

Step(t) ==
    LoadUpper(t) \/ Enter(t) \/ Copy(t) \/ CopyRejected(t) \/ EvictUpper(t)

Next ==
    \E t \in Threads :
        LoadBase(t) \/ BeginTransfer(t) \/ Save(t) \/ EvictBase(t) \/ Step(t)

Spec == Init /\ [][Next]_vars

-----------------------------------------------------------------------------

\* The context is entered just while a record is copied.
TypeOK ==
    /\ base \in Versions \cup {None}
    /\ upper \in Versions \cup {None}
    /\ lock \in Threads \cup {None}
    /\ pc \in [Threads -> {"idle", "upper", "backfill", "copy", "evict"}]
    /\ lc \in [Threads -> Versions \cup {None}]
    /\ newest \in Versions
    /\ seen \in [Threads -> SUBSET Versions]
    /\ forgotten \subseteq Versions
    /\ \A t \in Threads : pc[t] = "copy" <=> lock = t

\* "Every later waiter finds the key already present": a copy from above and
\* a transfer never replace a record, least of all a newer one that was
\* saved meanwhile (caches.py 108-137, 868-884; the contains-save race #452).
CopiesReplaceNothing == [][\A t \in Threads : Copy(t) => base = None]_vars

\* "An eviction is meant to forget a result everywhere" (cache_stack.rst):
\* a record that a completed evict found is in neither member any more.
EvictedStaysForgotten == {base, upper} \cap forgotten = {}
=============================================================================
