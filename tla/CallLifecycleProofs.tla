------------------------ MODULE CallLifecycleProofs ------------------------
(***************************************************************************)
(* What holds of CallLifecycle for any threads, arguments, results, bodies *)
(* and bounds.                                                             *)
(***************************************************************************)
EXTENDS CallLifecycle, TLAPS

\* Until prepare seals it, the argument is as the caller passed it.
ArgumentsAreLive ==
    \A t \in Threads : pc[t] \in {"lookup", "fetch", "stash"} => live[t] = arg[t]

\* What is sealed is the argument of the call as made.
SealedAsMade ==
    \A t \in Threads :
        /\ sealed[t] \in {None, arg[t]}
        /\ pc[t] \in {"idle", "lookup", "fetch", "stash"} => sealed[t] = None
        /\ pc[t] \in {"evict", "commit", "resolve", "replace", "put"} => sealed[t] # None

\* A call in progress has an argument, and a result it holds is one of the
\* body's for that argument.
ResultsFitArguments ==
    \A t \in Threads :
        /\ pc[t] # "idle" => arg[t] \in Args
        /\ pc[t] \in {"fetch", "commit", "resolve", "replace", "put"} =>
             result[t] \in BodyResults[arg[t]]

IInv ==
    /\ TypeOK /\ ArgumentsAreLive /\ SealedAsMade /\ ResultsFitArguments
    /\ FiledUnderOwnKey /\ AnswersAreGenuine

\* Nothing is filed and nobody calls at the start.
LEMMA InitIInv == Init => IInv
  BY MarkersAreNoDigests, BoundsAreNat
  DEF Init, IInv, TypeOK, ArgumentsAreLive, SealedAsMade, ResultsFitArguments,
      FiledUnderOwnKey, AnswersAreGenuine, CallSteps

\* The entries a value is stored as are digests.
LEMMA ClosureType == Closure \in [Digests -> SUBSET Digests]
  BY DEF Closure

\* From the lookup to the moment the body is about to run.
LEMMA PreparingKeepsIInv ==
    ASSUME IInv, UNCHANGED gc_overlaps, NEW t \in Threads,
           \/ Begin(t) \/ Hit(t) \/ Miss(t) \/ FetchMiss(t)
           \/ StashFallsBack(t) \/ PrepareFails(t)
           \/ \E d \in Digests : Fetch(t, d) \/ StashArg(t, d)
    PROVE  IInv'
  <1> USE MarkersAreNoDigests, BoundsAreNat, ArgsWithGcAreArgs, BodiesReturnResults,
          ChildrenAreDigests, ClosureType
      DEF IInv, TypeOK, ArgumentsAreLive, SealedAsMade, ResultsFitArguments,
          FiledUnderOwnKey, AnswersAreGenuine, CallSteps, Digests, Record,
          Goto, Return, Seal, cache, gcvars
  <1>1. CASE Begin(t)          BY <1>1 DEF Begin
  <1>2. CASE Hit(t)            BY <1>2 DEF Hit
  <1>3. CASE Miss(t)           BY <1>3 DEF Miss
  <1>4. CASE FetchMiss(t)      BY <1>4 DEF FetchMiss
  <1>5. CASE StashFallsBack(t) BY <1>5 DEF StashFallsBack
  <1>6. CASE PrepareFails(t)   BY <1>6 DEF PrepareFails
  <1>7. ASSUME NEW d \in Digests, Fetch(t, d) PROVE IInv'
    <2>1. CASE (todo[t] \ {d}) \cup Children[d] = {}
      <3>1. /\ pc[t] = "fetch" /\ result[t] \in BodyResults[arg[t]]
            /\ pc' = [pc EXCEPT ![t] = "idle"]
            /\ out' = [out EXCEPT ![t] = result[t]]
            /\ sealed' = [sealed EXCEPT ![t] = None]
            /\ result' = [result EXCEPT ![t] = None]
            /\ todo' = [todo EXCEPT ![t] = {}]
            /\ UNCHANGED <<values, calls, key_lock, call_lock, arg, rerun, live, budget,
                           gc_pc, gc_todo, reachable>>
          BY <1>7, <2>1 DEF Fetch
      <3> QED BY <3>1
    <2>2. CASE (todo[t] \ {d}) \cup Children[d] # {}  BY <1>7, <2>2 DEF Fetch
    <2> QED BY <2>1, <2>2
  <1>8. ASSUME NEW d \in Digests, StashArg(t, d) PROVE IInv'
    <2>1. CASE todo[t] = {d}  BY <1>8, <2>1 DEF StashArg, Ready
    <2>2. CASE todo[t] # {d}  BY <1>8, <2>2 DEF StashArg, Ready
    <2> QED BY <2>1, <2>2
  <1> QED BY <1>1, <1>2, <1>3, <1>4, <1>5, <1>6, <1>7, <1>8

\* From the body to the return.
LEMMA FilingKeepsIInv ==
    ASSUME IInv, UNCHANGED gc_overlaps, NEW t \in Threads,
           \/ BodyRaises(t) \/ BodyReturns(t) \/ BodyReturnsNone(t) \/ EvictStale(t)
           \/ Commit(t) \/ ResultRejected(t) \/ EvictOld(t) \/ Put(t)
           \/ \E d \in Digests : SaveResult(t, d)
    PROVE  IInv'
  <1> USE MarkersAreNoDigests, BodiesReturnResults, ClosureType
      DEF IInv, TypeOK, ArgumentsAreLive, SealedAsMade, ResultsFitArguments,
          FiledUnderOwnKey, AnswersAreGenuine, CallSteps, Digests, Record,
          Goto, Return, cache, gcvars
  <1>1. CASE BodyRaises(t)      BY <1>1 DEF BodyRaises, Mutate
  <1>2. CASE BodyReturns(t)
    <2>1. CASE sealed[t] = None
      <3>1. PICK a \in Args, r \in BodyResults[arg[t]] :
              /\ pc[t] = "body"
              /\ live' = [live EXCEPT ![t] = a]
              /\ Return(t, r)
              /\ UNCHANGED <<cache, arg, rerun, budget, gcvars>>
          BY <1>2, <2>1 DEF BodyReturns, Mutate
      <3> QED BY <2>1, <3>1
    <2>2. CASE sealed[t] # None
      <3>1. PICK a \in Args, r \in BodyResults[arg[t]] :
              /\ pc[t] = "body"
              /\ live' = [live EXCEPT ![t] = a]
              /\ result' = [result EXCEPT ![t] = r]
              /\ pc' = [pc EXCEPT ![t] = "commit"]
              /\ UNCHANGED <<values, calls, key_lock, call_lock, arg, rerun, sealed, todo,
                             out, budget, gc_pc, gc_todo, reachable>>
          BY <1>2, <2>2 DEF BodyReturns, Mutate
      <3> QED BY <2>2, <3>1
    <2> QED BY <2>1, <2>2
  <1>3. CASE BodyReturnsNone(t)
    <2>1. CASE sealed[t] # None /\ rerun[t]
        BY <1>3, <2>1 DEF BodyReturnsNone, Mutate
    <2>2. CASE ~(sealed[t] # None /\ rerun[t])
        BY <1>3, <2>2 DEF BodyReturnsNone, Mutate
    <2> QED BY <2>1, <2>2
  <1>4. CASE EvictStale(t)      BY <1>4 DEF EvictStale
  <1>5. CASE Commit(t)          BY <1>5 DEF Commit
  <1>6. CASE ResultRejected(t)  BY <1>6 DEF ResultRejected
  <1>7. CASE EvictOld(t)        BY <1>7 DEF EvictOld
  <1>8. CASE Put(t)             BY <1>8 DEF Put
  <1>9. ASSUME NEW d \in Digests, SaveResult(t, d) PROVE IInv'
      BY <1>9 DEF SaveResult, Ready
  <1> QED BY <1>1, <1>2, <1>3, <1>4, <1>5, <1>6, <1>7, <1>8, <1>9

\* Evictions and gc take records and values away and touch no call.
LEMMA EnvironmentKeepsIInv ==
    ASSUME IInv, UNCHANGED gc_overlaps, Gc \/ \E k \in Args : Evict(k)
    PROVE  IInv'
  <1> USE ChildrenAreDigests
      DEF IInv, TypeOK, ArgumentsAreLive, SealedAsMade, ResultsFitArguments,
          FiledUnderOwnKey, AnswersAreGenuine, CallSteps, Digests, Record,
          cache, local, gcvars
  <1>1. ASSUME NEW k \in Args, Evict(k) PROVE IInv'
      BY <1>1 DEF Evict
  <1>2. CASE GcStart  BY <1>2 DEF GcStart
  <1>3. CASE GcMarked BY <1>3 DEF GcMarked
  <1>4. CASE GcTraced BY <1>4 DEF GcTraced
  <1>5. CASE GcEnd    BY <1>5 DEF GcEnd
  <1>6. ASSUME NEW k \in Args, GcMark(k) PROVE IInv'
      BY <1>6 DEF GcMark
  <1>7. ASSUME NEW d \in Digests, GcTrace(d) PROVE IInv'
      BY <1>7 DEF GcTrace
  <1>8. ASSUME NEW d \in Digests, GcSweep(d) PROVE IInv'
      BY <1>8 DEF GcSweep
  <1> QED BY <1>1, <1>2, <1>3, <1>4, <1>5, <1>6, <1>7, <1>8 DEF Gc

LEMMA Invariance == Spec => []IInv
  <1>1. IInv /\ UNCHANGED vars => IInv'
      BY DEF IInv, TypeOK, ArgumentsAreLive, SealedAsMade, ResultsFitArguments,
             FiledUnderOwnKey, AnswersAreGenuine, vars, cache, local, gcvars
  <1>2. IInv /\ Next => IInv'
      BY PreparingKeepsIInv, FilingKeepsIInv, EnvironmentKeepsIInv DEF Next, CallStep
  <1> QED BY InitIInv, <1>1, <1>2, PTL DEF Spec

\* The types of the variables, with any number of threads.
THEOREM TypeCorrect == Spec => []TypeOK
  <1>1. IInv => TypeOK  BY DEF IInv
  <1> QED BY Invariance, <1>1, PTL

\* Whatever interleaves and whatever the bodies do to their arguments, records
\* are filed under the key of the arguments their call was made with.
THEOREM RecordsAreFiledRight == Spec => []FiledUnderOwnKey
  <1>1. IInv => FiledUnderOwnKey  BY DEF IInv
  <1> QED BY Invariance, <1>1, PTL

\* Whatever is evicted or collected meanwhile, a call's answer is its body's.
THEOREM CallsAnswerGenuinely == Spec => []AnswersAreGenuine
  <1>1. IInv => AnswersAreGenuine  BY DEF IInv
  <1> QED BY Invariance, <1>1, PTL

-----------------------------------------------------------------------------
(* The lock of the sealed key is held from commit to return. *)

LocksHeld ==
    \A t \in Threads : pc[t] \in {"resolve", "replace", "put"} => key_lock[sealed[t]] = t

\* Only the thread that took a key's lock leaves it.
LEMMA LocksStayHeld == IInv /\ LocksHeld /\ [Next]_vars => LocksHeld'
  <1> SUFFICES ASSUME IInv, LocksHeld, [Next]_vars PROVE LocksHeld'
      OBVIOUS
  <1> USE MarkersAreNoDigests
      DEF IInv, TypeOK, SealedAsMade, ResultsFitArguments, LocksHeld, CallSteps,
          Digests, Goto, Return, cache, local, gcvars
  <1>1. CASE UNCHANGED vars  BY <1>1 DEF vars
  <1>2. CASE \E k \in Args : Evict(k)  BY <1>2 DEF Evict
  <1>3. CASE Gc
      BY <1>3 DEF Gc, GcStart, GcMark, GcMarked, GcTrace, GcTraced, GcSweep, GcEnd
  <1>4. ASSUME NEW t \in Threads, Begin(t) \/ CallStep(t) PROVE LocksHeld'
    <2>1. CASE Begin(t)            BY <2>1 DEF Begin
    <2>2. CASE Hit(t)              BY <2>2 DEF Hit
    <2>3. CASE Miss(t)             BY <2>3 DEF Miss
    <2>4. CASE FetchMiss(t)        BY <2>4 DEF FetchMiss
    <2>5. CASE StashFallsBack(t)   BY <2>5 DEF StashFallsBack, Seal
    <2>6. CASE PrepareFails(t)     BY <2>6 DEF PrepareFails
    <2>7. CASE BodyRaises(t)       BY <2>7 DEF BodyRaises
    <2>8. CASE BodyReturns(t)      BY <2>8 DEF BodyReturns
    <2>9. CASE BodyReturnsNone(t)  BY <2>9 DEF BodyReturnsNone
    <2>10. CASE EvictStale(t)      BY <2>10 DEF EvictStale
    <2>11. CASE Commit(t)          BY <2>11 DEF Commit
    <2>12. CASE ResultRejected(t)  BY <2>12 DEF ResultRejected
    <2>13. CASE EvictOld(t)        BY <2>13 DEF EvictOld
    <2>14. CASE Put(t)             BY <2>14 DEF Put
    <2>15. ASSUME NEW d \in Digests, Fetch(t, d) PROVE LocksHeld'
        BY <2>15 DEF Fetch
    <2>16. ASSUME NEW d \in Digests, StashArg(t, d) PROVE LocksHeld'
        BY <2>16 DEF StashArg, Seal
    <2>17. ASSUME NEW d \in Digests, SaveResult(t, d) PROVE LocksHeld'
        BY <2>17 DEF SaveResult
    <2> QED BY <1>4, <2>1, <2>2, <2>3, <2>4, <2>5, <2>6, <2>7, <2>8, <2>9, <2>10,
               <2>11, <2>12, <2>13, <2>14, <2>15, <2>16, <2>17 DEF CallStep
  <1> QED BY <1>1, <1>2, <1>3, <1>4 DEF Next

LEMMA LocksInvariance == Spec => []LocksHeld
  <1>1. Init => LocksHeld  BY DEF Init, LocksHeld
  <1> QED BY <1>1, LocksStayHeld, Invariance, PTL DEF Spec

\* A lookup waits for the key's lock, which a re-save holds from before its
\* evict until after its put.
THEOREM LookupsSeeNoGap == Spec => NoMissInGap
  <1>1. ASSUME IInv, LocksHeld, NEW t \in Threads, NEW u \in Threads,
               Miss(t), ~rerun[t], pc[u] = "put"
        PROVE  sealed[u] # arg[t]
      BY <1>1, MarkersAreNoDigests DEF Miss, LocksHeld
  <1>2. IInv /\ LocksHeld =>
           \A t, u \in Threads :
               Miss(t) /\ ~rerun[t] => ~(pc[u] = "put" /\ sealed[u] = arg[t])
      BY <1>1
  <1> QED BY <1>2, Invariance, LocksInvariance, PTL DEF NoMissInGap

-----------------------------------------------------------------------------
(* What a value is stored as: the least set with its digest, closed under    *)
(* Children.                                                                 *)

LEMMA ClosureHasRoot == ASSUME NEW d \in Digests PROVE d \in Closure[d]
  BY DEF Closure

LEMMA ClosureIsClosed ==
    ASSUME NEW d \in Digests, NEW x \in Closure[d]
    PROVE  Children[x] \subseteq Closure[d]
  <1>1. x \in Digests  BY ClosureType
  <1> SUFFICES ASSUME NEW e \in Children[x], NEW S \in SUBSET Digests,
                      d \in S, \A y \in S : Children[y] \subseteq S
               PROVE  e \in S
      BY <1>1, ChildrenAreDigests DEF Closure
  <1>2. x \in S  BY DEF Closure
  <1> QED BY <1>2

LEMMA ClosureIsLeast ==
    ASSUME NEW d \in Digests, NEW S \in SUBSET Digests,
           d \in S, \A x \in S : Children[x] \subseteq S
    PROVE  Closure[d] \subseteq S
  BY DEF Closure

-----------------------------------------------------------------------------
(* A program that runs gc() only between calls. *)

\* No call is in progress while gc runs.
GcIsAlone == gc_pc # "off" => CacheQuiet

\* From commit on, a call's result is in the value storage or still on its
\* way into it, and wholly there before a record names it.
ResultsAreStored ==
    \A t \in Threads :
        /\ pc[t] = "resolve" => Closure[result[t]] \subseteq values \cup todo[t]
        /\ pc[t] \in {"replace", "put"} => Closure[result[t]] \subseteq values

RecordsAreWhole == \A k \in Args : calls[k] # None => Closure[calls[k].result] \subseteq values

\* Marking visits every record, tracing every entry that is reachable; what
\* they find is what the records refer to.
RootsAreMarked ==
    gc_pc # "off" =>
        \A k \in Args : calls[k] # None /\ (gc_pc = "mark" => k \notin gc_todo) =>
            calls[k].arg \in reachable /\ calls[k].result \in reachable

PartsAreTraced ==
    /\ gc_pc = "trace" => gc_todo \subseteq reachable
    /\ gc_pc \in {"trace", "sweep"} =>
         \A d \in reachable : d \in values /\ ~(gc_pc = "trace" /\ d \in gc_todo) =>
            Children[d] \subseteq reachable

MarkedIsReachable == gc_pc # "off" => reachable \subseteq Reachable

RestIsSwept == gc_pc = "sweep" => values \ gc_todo \subseteq reachable

AloneInv ==
    ~gc_overlaps =>
        /\ GcIsAlone /\ ResultsAreStored /\ RecordsAreWhole
        /\ RootsAreMarked /\ PartsAreTraced /\ MarkedIsReachable /\ RestIsSwept

\* Once everything is traced, all that a record refers to is marked.
LEMMA TracedIsWhole ==
    ASSUME IInv, RecordsAreWhole, RootsAreMarked, PartsAreTraced, gc_pc = "sweep",
           NEW k \in Args, calls[k] # None
    PROVE  Closure[calls[k].result] \subseteq reachable
  <1> DEFINE r == calls[k].result
             S == Closure[r] \cap reachable
  <1>1. r \in Digests /\ r \in reachable /\ Closure[r] \subseteq values
      BY DEF IInv, TypeOK, Record, Digests, RootsAreMarked, RecordsAreWhole
  <1>2. S \in SUBSET Digests  BY <1>1, ClosureType
  <1>3. r \in S  BY <1>1, ClosureHasRoot
  <1>4. ASSUME NEW x \in S PROVE Children[x] \subseteq S
    <2>1. Children[x] \subseteq Closure[r]  BY <1>1, ClosureIsClosed
    <2>2. Children[x] \subseteq reachable   BY <1>1 DEF PartsAreTraced
    <2> QED BY <2>1, <2>2
  <1> HIDE DEF r, S
  <1>5. Closure[r] \subseteq S  BY <1>1, <1>2, <1>3, <1>4, ClosureIsLeast
  <1> QED BY <1>5 DEF r, S

\* A call stores before it files, and no gc runs meanwhile.
LEMMA CallsKeepAlone ==
    ASSUME IInv, AloneInv, ~gc_overlaps, UNCHANGED gc_overlaps,
           NEW t \in Threads, Begin(t) \/ CallStep(t)
    PROVE  AloneInv'
  <1>1. gc_pc = "off" /\ UNCHANGED gc_pc
      BY DEF AloneInv, GcIsAlone, CacheQuiet, CallStep, Begin, Hit, Miss, FetchMiss,
             StashFallsBack, PrepareFails, BodyRaises, BodyReturns, BodyReturnsNone,
             EvictStale, Commit, ResultRejected, EvictOld, Put, Fetch, StashArg,
             SaveResult, cache, gcvars
  <1>2. (GcIsAlone /\ RootsAreMarked /\ PartsAreTraced /\ MarkedIsReachable /\ RestIsSwept)'
      BY <1>1 DEF GcIsAlone, RootsAreMarked, PartsAreTraced, MarkedIsReachable, RestIsSwept
  <1>3. (ResultsAreStored /\ RecordsAreWhole)'
    <2> USE <1>1
        DEF IInv, TypeOK, SealedAsMade, ResultsFitArguments, AloneInv, ResultsAreStored,
            RecordsAreWhole, CallSteps, Record, Goto, Return, cache, gcvars
    <2>1. CASE Begin(t)            BY <2>1 DEF Begin
    <2>2. CASE Hit(t)              BY <2>2 DEF Hit
    <2>3. CASE Miss(t)             BY <2>3 DEF Miss
    <2>4. CASE FetchMiss(t)        BY <2>4 DEF FetchMiss
    <2>5. CASE StashFallsBack(t)   BY <2>5 DEF StashFallsBack, Seal
    <2>6. CASE PrepareFails(t)     BY <2>6 DEF PrepareFails
    <2>7. CASE BodyRaises(t)       BY <2>7 DEF BodyRaises
    <2>8. CASE BodyReturns(t)      BY <2>8 DEF BodyReturns
    <2>9. CASE BodyReturnsNone(t)  BY <2>9 DEF BodyReturnsNone
    <2>10. CASE EvictStale(t)      BY <2>10 DEF EvictStale
    <2>11. CASE Commit(t)          BY <2>11 DEF Commit
    <2>12. CASE ResultRejected(t)  BY <2>12 DEF ResultRejected
    <2>13. CASE EvictOld(t)        BY <2>13 DEF EvictOld
    <2>14. CASE Put(t)             BY <2>14 DEF Put
    <2>15. ASSUME NEW d \in Digests, Fetch(t, d) PROVE (ResultsAreStored /\ RecordsAreWhole)'
        BY <2>15 DEF Fetch
    <2>16. ASSUME NEW d \in Digests, StashArg(t, d) PROVE (ResultsAreStored /\ RecordsAreWhole)'
        BY <2>16 DEF StashArg, Seal
    <2>17. ASSUME NEW d \in Digests, SaveResult(t, d) PROVE (ResultsAreStored /\ RecordsAreWhole)'
        BY <2>17 DEF SaveResult
    <2> QED BY <2>1, <2>2, <2>3, <2>4, <2>5, <2>6, <2>7, <2>8, <2>9, <2>10,
               <2>11, <2>12, <2>13, <2>14, <2>15, <2>16, <2>17 DEF CallStep
  <1> QED BY <1>2, <1>3 DEF AloneInv

\* gc takes away only what no record refers to, and all of it.
LEMMA GcKeepsAlone ==
    ASSUME IInv, AloneInv, ~gc_overlaps, UNCHANGED gc_overlaps, Gc
    PROVE  AloneInv'
  <1>1. CacheQuiet /\ UNCHANGED <<pc, calls, result, todo>>
      BY DEF AloneInv, GcIsAlone, Gc, GcStart, GcMark, GcMarked, GcTrace, GcTraced,
             GcSweep, GcEnd, cache, local
  <1>2. (GcIsAlone /\ ResultsAreStored)'
      BY <1>1 DEF GcIsAlone, CacheQuiet, ResultsAreStored
  <1>3. Reachable' = Reachable
      BY <1>1 DEF Reachable
  <1>4. ASSUME NEW k \in Args, calls[k] # None
        PROVE  /\ calls[k].arg \in Args /\ calls[k].result \in Results
               /\ calls[k].arg \in Reachable /\ calls[k].result \in Reachable
    <2>1. calls[k].arg \in Args /\ calls[k].result \in Results
        BY <1>4 DEF IInv, TypeOK, Record
    <2>2. calls[k].arg \in Closure[calls[k].arg] /\ calls[k].result \in Closure[calls[k].result]
        BY <2>1, ClosureHasRoot DEF Digests
    <2> QED BY <1>4, <2>1, <2>2 DEF Reachable
  <1>5. ASSUME NEW d \in Reachable PROVE Children[d] \subseteq Reachable
    <2>1. PICK k \in Args : calls[k] # None /\ d \in Closure[calls[k].arg] \cup Closure[calls[k].result]
        BY DEF Reachable
    <2>2. calls[k].arg \in Digests /\ calls[k].result \in Digests
        BY <1>4, <2>1 DEF Digests
    <2>3. Children[d] \subseteq Closure[calls[k].arg] \cup Closure[calls[k].result]
        BY <2>1, <2>2, ClosureIsClosed
    <2> QED BY <2>1, <2>3 DEF Reachable
  <1>6. (RootsAreMarked /\ PartsAreTraced /\ MarkedIsReachable /\ RestIsSwept /\ RecordsAreWhole)'
    <2> USE <1>1, <1>3, <1>4, <1>5
        DEF IInv, TypeOK, AloneInv, RootsAreMarked, PartsAreTraced, MarkedIsReachable,
            RestIsSwept, RecordsAreWhole, cache, local
    <2>1. CASE GcStart  BY <2>1 DEF GcStart
    <2>2. CASE GcMarked BY <2>2 DEF GcMarked
    <2>3. CASE GcTraced BY <2>3 DEF GcTraced
    <2>4. CASE GcEnd    BY <2>4 DEF GcEnd
    <2>5. ASSUME NEW k \in Args, GcMark(k)
          PROVE  (RootsAreMarked /\ PartsAreTraced /\ MarkedIsReachable /\ RestIsSwept /\ RecordsAreWhole)'
        BY <2>5 DEF GcMark
    <2>6. ASSUME NEW d \in Digests, GcTrace(d)
          PROVE  (RootsAreMarked /\ PartsAreTraced /\ MarkedIsReachable /\ RestIsSwept /\ RecordsAreWhole)'
        BY <2>6 DEF GcTrace
    <2>7. ASSUME NEW d \in Digests, GcSweep(d)
          PROVE  (RootsAreMarked /\ PartsAreTraced /\ MarkedIsReachable /\ RestIsSwept /\ RecordsAreWhole)'
      <3>1. (RootsAreMarked /\ PartsAreTraced /\ MarkedIsReachable /\ RestIsSwept)'
          BY <2>7 DEF GcSweep
      <3>2. \A k \in Args : calls[k] # None => Closure[calls[k].result] \subseteq reachable
          BY <2>7, TracedIsWhole DEF GcSweep
      <3>3. RecordsAreWhole'
          BY <2>7, <3>2 DEF GcSweep
      <3> QED BY <3>1, <3>3
    <2> QED BY <2>1, <2>2, <2>3, <2>4, <2>5, <2>6, <2>7 DEF Gc
  <1> QED BY <1>2, <1>6 DEF AloneInv

LEMMA AloneInvariance == Spec => []AloneInv
  <1>1. Init => AloneInv
      BY DEF Init, AloneInv, GcIsAlone, ResultsAreStored, RecordsAreWhole, RootsAreMarked,
             PartsAreTraced, MarkedIsReachable, RestIsSwept
  <1>2. ASSUME IInv, AloneInv, UNCHANGED vars PROVE AloneInv'
      BY <1>2 DEF AloneInv, GcIsAlone, CacheQuiet, ResultsAreStored, RecordsAreWhole,
             RootsAreMarked, PartsAreTraced, MarkedIsReachable, Reachable, RestIsSwept,
             vars, cache, local, gcvars
  <1>3. ASSUME IInv, AloneInv, NEW k \in Args, Evict(k), UNCHANGED gc_overlaps
        PROVE  AloneInv'
      BY <1>3 DEF Evict, IInv, TypeOK, AloneInv, GcIsAlone, CacheQuiet, ResultsAreStored, RecordsAreWhole,
             RootsAreMarked, PartsAreTraced, MarkedIsReachable, RestIsSwept, local, gcvars
  <1>4. ASSUME IInv, AloneInv, Next PROVE AloneInv'
    <2>1. CASE gc_overlaps  BY <1>4, <2>1 DEF Next, AloneInv
    <2>2. CASE ~gc_overlaps
        BY <1>3, <1>4, <2>2, CallsKeepAlone, GcKeepsAlone DEF Next
    <2> QED BY <2>1, <2>2
  <1> QED BY <1>1, <1>2, <1>4, Invariance, PTL DEF Spec

\* In a program that runs gc() only between calls, no record ever refers to an
\* entry that is not there, however deep values nest and whatever they share.
THEOREM NothingDangles == Spec => []NoDanglingRecords
  <1>1. AloneInv => NoDanglingRecords
      BY DEF AloneInv, RecordsAreWhole, NoDanglingRecords
  <1> QED BY AloneInvariance, <1>1, PTL

\* And a gc leaves nothing behind that no record refers to.
THEOREM GcLeavesNoGarbage == Spec => GcIsComplete
  <1>1. AloneInv => (GcEnd /\ ~gc_overlaps => values \subseteq Reachable)
      BY DEF AloneInv, GcEnd, MarkedIsReachable, RestIsSwept
  <1> QED BY AloneInvariance, <1>1, PTL DEF GcIsComplete
=============================================================================
