---------------------------- MODULE CallLifecycle ----------------------------
(***************************************************************************)
(* The life of a call to a fleche-decorated function on one Cache: look    *)
(* the key up, on a miss stash the arguments, run the body, commit the     *)
(* result (wrapper.py, call.py, caches.Cache), while other threads call,   *)
(* rerun and evict, and while Cache.gc() sweeps the value storage.         *)
(*                                                                         *)
(* Values are known by their digests.  Children[d] are the entries that    *)
(* DestructuringMixin files separately and that entry d refers to.  The    *)
(* function has one argument, so its digest names the call's lookup key.   *)
(***************************************************************************)
EXTENDS Naturals

CONSTANTS
    Threads,
    Args,         \* digests of argument values: the lookup keys
    Results,      \* digests of result values
    Parts,        \* digests of destructured parts
    Children,     \* [digest -> the digests its stored entry refers to]
    BodyResults,  \* [Args -> the results the function body may return]
    NoResult,     \* the body returned None
    Raised,       \* the body raised
    None,
    MaxCalls,     \* bound: calls begun in all, where gc() runs between them
    MaxCallsWithGc, \* bound: calls begun in all, where gc() runs at any time
    ArgsWithGc    \* bound: the arguments they are made with

Digests == Args \cup Results \cup Parts

ASSUME ChildrenAreDigests == Children \in [Digests -> SUBSET Digests]
ASSUME BodiesReturnResults == BodyResults \in [Args -> SUBSET Results]
ASSUME MarkersAreNoDigests ==
    /\ None \notin Digests \cup Threads
    /\ NoResult \notin Digests \cup {None}
    /\ Raised \notin Digests \cup {None, NoResult}
ASSUME BoundsAreNat == MaxCalls \in Nat /\ MaxCallsWithGc \in Nat
ASSUME ArgsWithGcAreArgs == ArgsWithGc \subseteq Args

VARIABLES
    values,     \* the digests stored in Cache.values
    calls,      \* [Args -> the record filed in Cache.calls, or None]
    key_lock,   \* holder of Cache._operation_context(key)
    call_lock,  \* holder of Cache.calls._operation_context(key)
    pc,
    arg,        \* the argument a thread's call was made with
    rerun,      \* whether it runs under a RefreshingCache
    live,       \* the argument object now: the body may mutate it
    sealed,     \* the argument digest sealed in the PreparedCall, or None
    todo,       \* entries still to be loaded, or still to be stored
    result,     \* result digest found or computed
    out,        \* how the thread's last call ended; None while it runs
    budget,     \* calls that may still begin
    gc_pc, gc_todo, reachable,
    gc_overlaps \* whether this program runs gc() while calls are in progress

cache == <<values, calls, key_lock, call_lock>>
local == <<pc, arg, rerun, live, sealed, todo, result, out>>
gcvars == <<gc_pc, gc_todo, reachable>>
vars == <<cache, local, budget, gcvars, gc_overlaps>>

Record == [arg : Args, result : Results]

\* The entry d and all it refers to, however deep: what saving d stores,
\* loading d reads.
Closure == [d \in Digests |->
    {e \in Digests : \A S \in SUBSET Digests :
        d \in S /\ (\A x \in S : Children[x] \subseteq S) => e \in S}]

Init ==
    /\ values = {}
    /\ calls = [k \in Args |-> None]
    /\ key_lock = [k \in Args |-> None]
    /\ call_lock = [k \in Args |-> None]
    /\ pc = [t \in Threads |-> "idle"]
    /\ arg = [t \in Threads |-> None]
    /\ rerun = [t \in Threads |-> FALSE]
    /\ live = [t \in Threads |-> None]
    /\ sealed = [t \in Threads |-> None]
    /\ todo = [t \in Threads |-> {}]
    /\ result = [t \in Threads |-> None]
    /\ out = [t \in Threads |-> None]
    /\ gc_overlaps \in BOOLEAN
    /\ budget = IF gc_overlaps THEN MaxCallsWithGc ELSE MaxCalls
    /\ gc_pc = "off"
    /\ gc_todo = {}
    /\ reachable = {}

Goto(t, step) == pc' = [pc EXCEPT ![t] = step]

\* The wrapper returns v (for v = Raised: raises what the body raised).
Return(t, v) ==
    /\ Goto(t, "idle")
    /\ out' = [out EXCEPT ![t] = v]
    /\ sealed' = [sealed EXCEPT ![t] = None]
    /\ result' = [result EXCEPT ![t] = None]
    /\ todo' = [todo EXCEPT ![t] = {}]

CacheQuiet == \A t \in Threads : pc[t] = "idle"

-----------------------------------------------------------------------------
(* wrapper(): lookup *)

Begin(t) ==
    /\ pc[t] = "idle" /\ budget > 0
    /\ gc_overlaps \/ gc_pc = "off"
    /\ \E k \in IF gc_overlaps THEN ArgsWithGc ELSE Args, r \in BOOLEAN :
        /\ arg' = [arg EXCEPT ![t] = k]
        /\ live' = [live EXCEPT ![t] = k]
        /\ rerun' = [rerun EXCEPT ![t] = r]
    /\ out' = [out EXCEPT ![t] = None]
    /\ budget' = budget - 1
    /\ Goto(t, "lookup")
    /\ UNCHANGED <<cache, sealed, todo, result, gcvars>>

\* cache.load(key) under the key's lock: the record, as a LazyCall.
Hit(t) ==
    /\ pc[t] = "lookup" /\ ~rerun[t]
    /\ key_lock[arg[t]] = None
    /\ calls[arg[t]] # None
    /\ result' = [result EXCEPT ![t] = calls[arg[t]].result]
    /\ todo' = [todo EXCEPT ![t] = {calls[arg[t]].result}]
    /\ Goto(t, "fetch")
    /\ UNCHANGED <<cache, arg, rerun, live, sealed, out, budget, gcvars>>

\* A defect: a lookup that does not wait for the key's lock.
MissUnlocked(t) ==
    /\ pc[t] = "lookup"
    /\ rerun[t] \/ calls[arg[t]] = None
    /\ todo' = [todo EXCEPT ![t] = Closure[live[t]]]
    /\ Goto(t, "stash")
    /\ UNCHANGED <<cache, arg, rerun, live, sealed, result, out, budget, gcvars>>

\* KeyError; a RefreshingCache raises it without looking.
Miss(t) ==
    /\ pc[t] = "lookup"
    /\ rerun[t] \/ (key_lock[arg[t]] = None /\ calls[arg[t]] = None)
    /\ todo' = [todo EXCEPT ![t] = Closure[live[t]]]
    /\ Goto(t, "stash")
    /\ UNCHANGED <<cache, arg, rerun, live, sealed, result, out, budget, gcvars>>

\* LazyCall.result: the entry, then the entries it refers to.
Fetch(t, d) ==
    /\ pc[t] = "fetch" /\ d \in todo[t] /\ d \in values
    /\ LET rest == (todo[t] \ {d}) \cup Children[d]
       IN IF rest = {}
          THEN Return(t, result[t])
          ELSE /\ todo' = [todo EXCEPT ![t] = rest]
               /\ UNCHANGED <<pc, out, sealed, result>>
    /\ UNCHANGED <<cache, arg, rerun, live, budget, gcvars>>

\* A missing entry raises KeyError too: the hit is treated as a miss.
FetchMiss(t) ==
    /\ pc[t] = "fetch"
    /\ \E d \in todo[t] : d \notin values
    /\ result' = [result EXCEPT ![t] = None]
    /\ todo' = [todo EXCEPT ![t] = Closure[live[t]]]
    /\ Goto(t, "stash")
    /\ UNCHANGED <<cache, arg, rerun, live, sealed, out, budget, gcvars>>

-----------------------------------------------------------------------------
(* Cache.prepare and the function body *)

\* values.save stores an entry after the entries it refers to.
Ready(t, d) == d \in todo[t] /\ Children[d] \cap todo[t] = {}

Seal(t) == sealed' = [sealed EXCEPT ![t] = live[t]]

StashArg(t, d) ==
    /\ pc[t] = "stash" /\ Ready(t, d)
    /\ values' = values \cup {d}
    /\ todo' = [todo EXCEPT ![t] = @ \ {d}]
    /\ IF todo[t] = {d}
       THEN Goto(t, "body") /\ Seal(t)
       ELSE UNCHANGED <<pc, sealed>>
    /\ UNCHANGED <<calls, key_lock, call_lock, arg, rerun, live, result, out, budget, gcvars>>

\* SaveError on an argument: its digest is recorded, the value is not stored.
StashFallsBack(t) ==
    /\ pc[t] = "stash"
    /\ todo' = [todo EXCEPT ![t] = {}]
    /\ Goto(t, "body")
    /\ Seal(t)
    /\ UNCHANGED <<cache, arg, rerun, live, result, out, budget, gcvars>>

\* Rejected or a fault in prepare: the body runs uncached.
PrepareFails(t) ==
    /\ pc[t] = "stash"
    /\ todo' = [todo EXCEPT ![t] = {}]
    /\ Goto(t, "body")
    /\ UNCHANGED <<cache, arg, rerun, live, sealed, result, out, budget, gcvars>>

\* The body may mutate its argument, whatever it then does.
Mutate(t) == \E a \in Args : live' = [live EXCEPT ![t] = a]

\* BaseException from the body: abandon() and re-raise.
BodyRaises(t) ==
    /\ pc[t] = "body"
    /\ Mutate(t)
    /\ Return(t, Raised)
    /\ UNCHANGED <<cache, arg, rerun, budget, gcvars>>

\* A result to commit, or to hand out when nothing was prepared.
BodyReturns(t) ==
    /\ pc[t] = "body"
    /\ Mutate(t)
    /\ \E r \in BodyResults[arg[t]] :
        IF sealed[t] = None
        THEN Return(t, r)
        ELSE /\ result' = [result EXCEPT ![t] = r]
             /\ Goto(t, "commit")
             /\ UNCHANGED <<sealed, todo, out>>
    /\ UNCHANGED <<cache, arg, rerun, budget, gcvars>>

\* None is not cached; on a rerun it evicts the stale record.
BodyReturnsNone(t) ==
    /\ pc[t] = "body"
    /\ Mutate(t)
    /\ IF sealed[t] # None /\ rerun[t]
       THEN Goto(t, "evict") /\ UNCHANGED <<sealed, todo, result, out>>
       ELSE Return(t, NoResult)
    /\ UNCHANGED <<cache, arg, rerun, budget, gcvars>>

EvictStale(t) ==
    /\ pc[t] = "evict"
    /\ key_lock[arg[t]] = None
    /\ calls' = [calls EXCEPT ![arg[t]] = None]
    /\ Return(t, NoResult)
    /\ UNCHANGED <<values, key_lock, call_lock, arg, rerun, live, budget, gcvars>>

-----------------------------------------------------------------------------
(* PreparedCall.commit: Cache.save, under the lock of the sealed key *)

Commit(t) ==
    /\ pc[t] = "commit"
    /\ key_lock[sealed[t]] = None
    /\ key_lock' = [key_lock EXCEPT ![sealed[t]] = t]
    /\ todo' = [todo EXCEPT ![t] = Closure[result[t]]]
    /\ Goto(t, "resolve")
    /\ UNCHANGED <<values, calls, call_lock, arg, rerun, live, sealed, result, out, budget, gcvars>>

\* PreparedCall.resolve: the result's entries go into the value storage.
SaveResult(t, d) ==
    /\ pc[t] = "resolve" /\ Ready(t, d)
    /\ values' = values \cup {d}
    /\ todo' = [todo EXCEPT ![t] = @ \ {d}]
    /\ IF todo[t] = {d} THEN Goto(t, "replace") ELSE UNCHANGED pc
    /\ UNCHANGED <<calls, key_lock, call_lock, arg, rerun, live, sealed, result, out, budget, gcvars>>

\* A defect: a rejected result leaves the key locked.
ResultRejectedLocked(t) ==
    /\ pc[t] = "resolve"
    /\ Return(t, result[t])
    /\ UNCHANGED <<cache, arg, rerun, live, budget, gcvars>>

\* SaveError on the result: Rejected, logged; the result is still returned.
ResultRejected(t) ==
    /\ pc[t] = "resolve"
    /\ key_lock' = [key_lock EXCEPT ![sealed[t]] = None]
    /\ Return(t, result[t])
    /\ UNCHANGED <<values, calls, call_lock, arg, rerun, live, budget, gcvars>>

\* CallMixin.save, first half, under the storage's own lock: evict the old.
EvictOld(t) ==
    /\ pc[t] = "replace"
    /\ call_lock[sealed[t]] = None
    /\ call_lock' = [call_lock EXCEPT ![sealed[t]] = t]
    /\ calls' = [calls EXCEPT ![sealed[t]] = None]
    /\ Goto(t, "put")
    /\ UNCHANGED <<values, key_lock, arg, rerun, live, sealed, todo, result, out, budget, gcvars>>

\* A defect: the key is derived again from the arguments as they are now.
PutRedigested(t) ==
    /\ pc[t] = "put"
    /\ calls' = [calls EXCEPT ![live[t]] = [arg |-> live[t], result |-> result[t]]]
    /\ key_lock' = [key_lock EXCEPT ![sealed[t]] = None]
    /\ call_lock' = [call_lock EXCEPT ![sealed[t]] = None]
    /\ Return(t, result[t])
    /\ UNCHANGED <<values, arg, rerun, live, budget, gcvars>>

\* CallMixin.save, second half: file the record, leave both locks, return.
Put(t) ==
    /\ pc[t] = "put"
    /\ calls' = [calls EXCEPT ![sealed[t]] = [arg |-> sealed[t], result |-> result[t]]]
    /\ key_lock' = [key_lock EXCEPT ![sealed[t]] = None]
    /\ call_lock' = [call_lock EXCEPT ![sealed[t]] = None]
    /\ Return(t, result[t])
    /\ UNCHANGED <<values, arg, rerun, live, budget, gcvars>>

\* Cache.evict from elsewhere in the program.
Evict(k) ==
    /\ gc_overlaps \/ gc_pc = "off"
    /\ key_lock[k] = None
    /\ calls[k] # None
    /\ calls' = [calls EXCEPT ![k] = None]
    /\ UNCHANGED <<values, key_lock, call_lock, local, budget, gcvars>>

-----------------------------------------------------------------------------
(* Cache.gc: no cache-level lock is taken *)

GcStart ==
    /\ gc_pc = "off"
    /\ gc_overlaps \/ CacheQuiet
    /\ gc_pc' = "mark"
    /\ gc_todo' = {k \in Args : calls[k] # None}
    /\ reachable' = {}
    /\ UNCHANGED <<cache, local, budget>>

\* calls.load(key) waits for a put in progress; an evicted key is skipped.
GcMark(k) ==
    /\ gc_pc = "mark" /\ k \in gc_todo
    /\ call_lock[k] = None
    /\ gc_todo' = gc_todo \ {k}
    /\ IF calls[k] # None
       THEN reachable' = reachable \cup {calls[k].arg, calls[k].result}
       ELSE UNCHANGED reachable
    /\ UNCHANGED <<cache, local, budget, gc_pc>>

GcMarked ==
    /\ gc_pc = "mark" /\ gc_todo = {}
    /\ gc_pc' = "trace"
    /\ gc_todo' = reachable
    /\ UNCHANGED <<cache, local, budget, reachable>>

\* A defect: entries that an entry refers to are not followed.
GcTraceShallow(d) ==
    /\ gc_pc = "trace" /\ d \in gc_todo
    /\ gc_todo' = gc_todo \ {d}
    /\ UNCHANGED <<cache, local, budget, gc_pc, reachable>>

\* child_digests: a missing entry raises KeyError and is skipped.
GcTrace(d) ==
    /\ gc_pc = "trace" /\ d \in gc_todo
    /\ LET new == IF d \in values THEN Children[d] \ reachable ELSE {}
       IN /\ reachable' = reachable \cup new
          /\ gc_todo' = (gc_todo \ {d}) \cup new
    /\ UNCHANGED <<cache, local, budget, gc_pc>>

\* A defect: only whole values are swept, not their parts.
GcTracedRoots ==
    /\ gc_pc = "trace" /\ gc_todo = {}
    /\ gc_pc' = "sweep"
    /\ gc_todo' = values \ Parts
    /\ UNCHANGED <<cache, local, budget, reachable>>

GcTraced ==
    /\ gc_pc = "trace" /\ gc_todo = {}
    /\ gc_pc' = "sweep"
    /\ gc_todo' = values
    /\ UNCHANGED <<cache, local, budget, reachable>>

GcSweep(d) ==
    /\ gc_pc = "sweep" /\ d \in gc_todo
    /\ gc_todo' = gc_todo \ {d}
    /\ values' = IF d \in reachable THEN values ELSE values \ {d}
    /\ UNCHANGED <<calls, key_lock, call_lock, local, budget, gc_pc, reachable>>

GcEnd ==
    /\ gc_pc = "sweep" /\ gc_todo = {}
    /\ gc_pc' = "off"
    /\ reachable' = {}
    /\ UNCHANGED <<cache, local, budget, gc_todo>>

Gc ==
    \/ GcStart \/ GcMarked \/ GcTraced \/ GcEnd
    \/ \E k \in Args : GcMark(k)
    \/ \E d \in Digests : GcTrace(d) \/ GcSweep(d)

CallStep(t) ==
    \/ Hit(t) \/ Miss(t) \/ FetchMiss(t)
    \/ StashFallsBack(t) \/ PrepareFails(t)
    \/ BodyRaises(t) \/ BodyReturns(t) \/ BodyReturnsNone(t) \/ EvictStale(t)
    \/ Commit(t) \/ ResultRejected(t) \/ EvictOld(t) \/ Put(t)
    \/ \E d \in Digests : Fetch(t, d) \/ StashArg(t, d) \/ SaveResult(t, d)

Next ==
    /\ \/ \E t \in Threads : Begin(t) \/ CallStep(t)
       \/ \E k \in Args : Evict(k)
       \/ Gc
    /\ UNCHANGED gc_overlaps

Spec == Init /\ [][Next]_vars

\* Every thread keeps running; bodies return.  A thread that waits for a lock
\* gets it because only finitely many calls (the bounds) compete.
FairSpec == Spec /\ \A t \in Threads : WF_vars(CallStep(t) /\ UNCHANGED gc_overlaps)

-----------------------------------------------------------------------------

CallSteps == {"idle", "lookup", "fetch", "stash", "body", "evict", "commit", "resolve", "replace", "put"}

TypeOK ==
    /\ values \subseteq Digests
    /\ calls \in [Args -> Record \cup {None}]
    /\ key_lock \in [Args -> Threads \cup {None}]
    /\ call_lock \in [Args -> Threads \cup {None}]
    /\ pc \in [Threads -> CallSteps]
    /\ arg \in [Threads -> Args \cup {None}]
    /\ rerun \in [Threads -> BOOLEAN]
    /\ live \in [Threads -> Args \cup {None}]
    /\ sealed \in [Threads -> Args \cup {None}]
    /\ todo \in [Threads -> SUBSET Digests]
    /\ result \in [Threads -> Results \cup {None}]
    /\ out \in [Threads -> Results \cup {NoResult, Raised, None}]
    /\ gc_overlaps \in BOOLEAN
    /\ budget \in 0..(IF gc_overlaps THEN MaxCallsWithGc ELSE MaxCalls)
    /\ gc_pc \in {"off", "mark", "trace", "sweep"}
    /\ gc_todo \subseteq Digests
    /\ reachable \subseteq Digests

\* A record is filed under the key of the arguments its call was made with,
\* with a result of the body for them, even when the body mutated them: what
\* the prepare/commit split is for (caches.py 323-326, call.py 417-420).
FiledUnderOwnKey ==
    \A k \in Args : calls[k] # None =>
        calls[k].arg = k /\ calls[k].result \in BodyResults[k]

\* Whatever is evicted or collected meanwhile, a call returns what the body
\* returns for its argument or raises what the body raised: never another
\* call's result, never the KeyError of a dangling record (wrapper.py 218-223).
AnswersAreGenuine ==
    \A t \in Threads : pc[t] = "idle" /\ arg[t] # None =>
        out[t] \in BodyResults[arg[t]] \cup {NoResult, Raised}

\* Every record's result can be loaded, parts included: commit stores it
\* before it files the record, and gc evicts "value entries not reachable
\* from any stored call" only (caches.py 458-459).  A gc that runs during
\* a call may sweep what the call has stored and not yet filed.
NoDanglingRecords ==
    gc_overlaps \/ \A k \in Args : calls[k] # None => Closure[calls[k].result] \subseteq values

\* A lookup never takes the moment between evict and put of a re-save for a
\* miss: Cache.load waits for the key's lock (base.py 419-425).
NoMissInGap ==
    [][\A t, u \in Threads :
        Miss(t) /\ ~rerun[t] => ~(pc[u] = "put" /\ sealed[u] = arg[t])]_vars

\* When a gc ends that no call overlaps, nothing is left that no record
\* refers to.
Reachable == UNION {Closure[calls[k].arg] \cup Closure[calls[k].result] :
                        k \in {j \in Args : calls[j] # None}}
GcIsComplete == [][GcEnd /\ ~gc_overlaps => values \subseteq Reachable]_vars

\* Every call returns.
CallsReturn == \A t \in Threads : pc[t] # "idle" ~> pc[t] = "idle"
=============================================================================
