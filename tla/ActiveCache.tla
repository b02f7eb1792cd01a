----------------------------- MODULE ActiveCache -----------------------------
(***************************************************************************)
(* Which cache a call uses.  Every thread has its own active cache (a        *)
(* ContextVar); where none is set the configured default is built on first   *)
(* use and memoised for the whole process.  cache(c) sets the active cache   *)
(* at once, and a with-block over it restores the one before.  A wrapped     *)
(* executor answers a submitted call from the cache, or binds the active     *)
(* cache to it and hands it to a worker, which runs it under that cache.     *)
(* One call of one decorated function is modelled: stored is the set of      *)
(* caches that hold its result.                                              *)
(***************************************************************************)
EXTENDS Naturals, FiniteSets, Sequences, SequencesExt

CONSTANTS
    Threads,   \* threads that submit calls
    Workers,   \* threads of the executor
    Caches,    \* caches the submitting threads activate
    BodyCaches,\* caches the body of the call activates
    Defaults,  \* the objects building the configured default may create
    MaxDepth,  \* bound: nested with-blocks of a thread
    MaxTasks,  \* bound: tasks waiting in the executor
    None

ASSUME CachesAssumption ==
    /\ None \notin Caches \cup BodyCaches \cup Defaults
    /\ BodyCaches \cap (Caches \cup Defaults) = {}
    /\ Threads \cap Workers = {}
    /\ MaxDepth \in Nat \ {0} /\ MaxTasks \in Nat

VARIABLES
    var,      \* var[c]: the ContextVar in the context of thread c
    blocks,   \* blocks[c]: what the open with-blocks of c restore, outermost first
    memo,     \* _DEFAULTS["cache"]
    built,    \* default caches built so far
    step,     \* step[c]: where a submission or a worker is
    got,      \* got[c]: the cache that lookup or that worker's call holds
    tasks,    \* caches bound to the waiting tasks, oldest first
    stored    \* caches holding the result

vars == <<var, blocks, memo, built, step, got, tasks, stored>>

All == Caches \cup BodyCaches \cup Defaults
Processes == Threads \cup Workers

Init ==
    /\ var = [c \in Processes |-> None]
    /\ blocks = [c \in Processes |-> <<>>]
    /\ memo = None
    /\ built = {}
    /\ step = [c \in Processes |-> "idle"]
    /\ got = [c \in Processes |-> None]
    /\ tasks = <<>>
    /\ stored = {}

Goto(c, next) == step' = [step EXCEPT ![c] = next]

\* The program's own code runs in c: a thread between submissions, a worker
\* inside the body of the call.
InUserCode(c) == step[c] = IF c \in Threads THEN "idle" ELSE "body"

Activated(c) == IF c \in Threads THEN Caches ELSE BodyCaches

-----------------------------------------------------------------------------
(* cache(new) and with-blocks.                                              *)

Activate(c, new) ==
    /\ InUserCode(c)
    /\ var' = [var EXCEPT ![c] = new]
    /\ UNCHANGED <<blocks, memo, built, step, got, tasks, stored>>

Enter(c, new) ==
    /\ InUserCode(c) /\ Len(blocks[c]) < MaxDepth
    /\ blocks' = [blocks EXCEPT ![c] = Append(@, var[c])]
    /\ var' = [var EXCEPT ![c] = new]
    /\ UNCHANGED <<memo, built, step, got, tasks, stored>>

\* The block of a bound call is left by Finish, with the call.
Exit(c) ==
    /\ InUserCode(c) /\ Len(blocks[c]) > IF c \in Threads THEN 0 ELSE 1
    /\ var' = [var EXCEPT ![c] = Last(blocks[c])]
    /\ blocks' = [blocks EXCEPT ![c] = Front(@)]
    /\ UNCHANGED <<memo, built, step, got, tasks, stored>>

-----------------------------------------------------------------------------
(* A submission looks the active cache up for contains, again for load, and  *)
(* once more to bind it.                                                     *)

Active(t) == IF var[t] # None THEN var[t] ELSE memo

Uses(t, c) ==
    /\ got' = [got EXCEPT ![t] = c]
    /\ Goto(t, "have")

Submit(t) ==
    /\ InUserCode(t) /\ t \in Threads
    /\ IF Active(t) # None THEN Uses(t, Active(t)) ELSE Goto(t, "build") /\ UNCHANGED got
    /\ UNCHANGED <<var, blocks, memo, built, tasks, stored>>

\* load_cache_config() makes a new cache, which is then memoised.
BuildDefault(t) ==
    /\ step[t] = "build"
    /\ \E d \in Defaults \ built : memo' = d /\ built' = built \cup {d}
    /\ Goto(t, "memoised")
    /\ UNCHANGED <<var, blocks, got, tasks, stored>>

UseDefault(t) ==
    /\ step[t] = "memoised"
    /\ Uses(t, memo)
    /\ UNCHANGED <<var, blocks, memo, built, tasks, stored>>

\* contains() is true.
Found(t) ==
    /\ step[t] = "have" /\ got[t] \in stored
    /\ Goto(t, "load")
    /\ UNCHANGED <<var, blocks, memo, built, got, tasks, stored>>

Loaded(t) ==
    /\ step[t] = "load" /\ Active(t) \in stored
    /\ Goto(t, "idle")
    /\ got' = [got EXCEPT ![t] = None]
    /\ UNCHANGED <<var, blocks, memo, built, tasks, stored>>

\* The record is gone: the KeyError leaves submit.
LoadRaises(t) ==
    /\ step[t] = "load" /\ Active(t) \notin stored
    /\ Goto(t, "idle")
    /\ got' = [got EXCEPT ![t] = None]
    /\ UNCHANGED <<var, blocks, memo, built, tasks, stored>>

Bind(t) ==
    /\ step[t] = "have" /\ got[t] \notin stored /\ Len(tasks) < MaxTasks
    /\ tasks' = Append(tasks, Active(t))
    /\ Goto(t, "idle")
    /\ got' = [got EXCEPT ![t] = None]
    /\ UNCHANGED <<var, blocks, memo, built, stored>>

-----------------------------------------------------------------------------
(* A worker runs the oldest task inside a hard scope; the wrapper reads the  *)
(* active cache once, before the body.                                       *)

Take(w) ==
    /\ w \in Workers /\ step[w] = "idle" /\ tasks # <<>>
    /\ blocks' = [blocks EXCEPT ![w] = <<var[w]>>]
    /\ var' = [var EXCEPT ![w] = Head(tasks)]
    /\ got' = [got EXCEPT ![w] = Head(tasks)]
    /\ tasks' = Tail(tasks)
    /\ Goto(w, IF Head(tasks) \in stored THEN "filed" ELSE "body")
    /\ UNCHANGED <<memo, built, stored>>

\* A bug: the active cache is read again after the body.
FileInActive(w) ==
    /\ w \in Workers /\ step[w] = "body" /\ Len(blocks[w]) = 1
    /\ stored' = stored \cup {var[w]}
    /\ Goto(w, "filed")
    /\ UNCHANGED <<var, blocks, memo, built, got, tasks>>

File(w) ==
    /\ w \in Workers /\ step[w] = "body" /\ Len(blocks[w]) = 1
    /\ stored' = stored \cup {got[w]}
    /\ Goto(w, "filed")
    /\ UNCHANGED <<var, blocks, memo, built, got, tasks>>

\* The body raises: its own with-blocks are left, nothing is filed.
BodyRaises(w) ==
    /\ w \in Workers /\ step[w] = "body"
    /\ blocks' = [blocks EXCEPT ![w] = <<Head(@)>>]
    /\ Goto(w, "filed")
    /\ UNCHANGED <<var, memo, built, got, tasks, stored>>

Finish(w) ==
    /\ w \in Workers /\ step[w] = "filed"
    /\ var' = [var EXCEPT ![w] = Head(blocks[w])]
    /\ blocks' = [blocks EXCEPT ![w] = <<>>]
    /\ Goto(w, "idle")
    /\ got' = [got EXCEPT ![w] = None]
    /\ UNCHANGED <<memo, built, tasks, stored>>

Evict(c) ==
    /\ c \in stored
    /\ stored' = stored \ {c}
    /\ UNCHANGED <<var, blocks, memo, built, step, got, tasks>>

Submission(t) ==
    \/ Submit(t) \/ BuildDefault(t) \/ UseDefault(t)
    \/ Found(t) \/ Loaded(t) \/ LoadRaises(t) \/ Bind(t)

Working(w) == Take(w) \/ File(w) \/ BodyRaises(w) \/ Finish(w)

Next ==
    \/ \E t \in Threads : Submission(t)
    \/ \E w \in Workers : Working(w)
    \/ \E c \in Processes : Exit(c) \/ \E new \in Activated(c) : Activate(c, new) \/ Enter(c, new)
    \/ \E c \in All : Evict(c)

Spec == Init /\ [][Next]_vars

-----------------------------------------------------------------------------
TypeOK ==
    /\ var \in [Processes -> All \cup {None}]
    /\ blocks \in [Processes -> Seq(All \cup {None})]
    /\ \A c \in Processes : Len(blocks[c]) <= MaxDepth
    /\ memo \in Defaults \cup {None} /\ built \in SUBSET Defaults
    /\ step \in [Processes -> {"idle", "build", "memoised", "have", "load", "body", "filed"}]
    /\ got \in [Processes -> All \cup {None}]
    /\ tasks \in Seq(All) /\ Len(tasks) <= MaxTasks
    /\ stored \in SUBSET All

\* A result is only ever filed in a cache that was active where the call was
\* submitted: no cache that only bodies activate gets one, neither that of the
\* running body nor one an earlier body left behind in the worker.
ResultsGoWhereBound == stored \cap BodyCaches = {}
=============================================================================
