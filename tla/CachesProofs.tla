----------------------------- MODULE CachesProofs -----------------------------
(***************************************************************************)
(* What holds of caches, of four models that share nothing: of SizeLimited   *)
(* for any number of threads and keys and any max_size, of CacheViews for    *)
(* any tree of caches, of StackRaces for any number of threads and results,  *)
(* and of Queries for any questions that are asked of any records.           *)
(***************************************************************************)
EXTENDS SizeLimited, CacheViews, Queries, FiniteSetTheorems, SequenceTheorems, WellFoundedInduction,
        TLAPS

\* A filed record is counted, or is about to be by the thread that filed it.
FiledAreCounted ==
    \A k \in calls : k \in _keys \/ \E t \in Threads : pc[t] = "track" /\ key[t] = k

\* The key that is about to be uncounted is not filed.
DroppedAreGone == \A t \in Threads : pc[t] = "untrack" => victim[t] \notin calls

IInv == TypeOK /\ FiledAreCounted /\ DroppedAreGone

\* Operations and steps that a thread in the body of save or evict is alone in.
LEMMA LockExcludes ==
    ASSUME TypeOK, NEW t \in Threads, NEW u \in Threads,
           pc[t] \in LockedSteps, pc[u] \in LockedSteps
    PROVE  t = u
  BY DEF TypeOK

LEMMA InitIInv == Init => IInv
  <1> SUFFICES ASSUME Init PROVE IInv
      OBVIOUS
  <1>1. TypeOK
    <2>1. calls \subseteq Keys /\ _keys \subseteq Keys
        BY DEF Init
    <2>2. \A t \in Threads :
            /\ _lock # t /\ pc[t] = "idle" /\ op[t] = None /\ held[t] = {}
        BY NoneIsNoThread DEF Init
    <2> QED BY <2>1, <2>2, NoneIsNoThread DEF Init, TypeOK, Steps, LockedSteps, AllOps
  <1>2. FiledAreCounted /\ DroppedAreGone
      BY DEF Init, FiledAreCounted, DroppedAreGone
  <1> QED BY <1>1, <1>2 DEF IInv

LEMMA StepKeepsTypes ==
    ASSUME TypeOK, NEW t \in Threads, Begin(t) \/ BeginRedigest(t) \/ Step(t), ops' = ops
    PROVE  TypeOK'
  <1> USE NoneIsNoThread, ProgramsAreKnown
      DEF TypeOK, Steps, LockedSteps, AllOps, Goto, Return
  <1>1. CASE Begin(t)         BY <1>1 DEF Begin, Start
  <1>2. CASE BeginRedigest(t) BY <1>2 DEF BeginRedigest
  <1>3. CASE \E k \in Keys : LockKey(t, k) BY <1>3 DEF LockKey
  <1>4. CASE Skip(t)          BY <1>4 DEF Skip
  <1>5. CASE FetchFails(t)    BY <1>5 DEF FetchFails
  <1>6. CASE Replay(t)        BY <1>6 DEF Replay
  <1>7. CASE TakeLock(t)      BY <1>7 DEF TakeLock
  <1>8. CASE File(t)          BY <1>8 DEF File
  <1>9. CASE FileRejected(t)  BY <1>9 DEF FileRejected
  <1>10. CASE Track(t)        BY <1>10 DEF Track
  <1>11. CASE PickVictim(t)   BY <1>11 DEF PickVictim
  <1>12. CASE SaveReturns(t)  BY <1>12 DEF SaveReturns
  <1>13. CASE Drop(t)         BY <1>13 DEF Drop
  <1>14. CASE Untrack(t)      BY <1>14 DEF Untrack
  <1> QED
      BY <1>1, <1>2, <1>3, <1>4, <1>5, <1>6, <1>7, <1>8, <1>9, <1>10, <1>11,
         <1>12, <1>13, <1>14
      DEF Step

\* Only the steps below change calls, _keys, or who is about to count.
LEMMA StepKeepsCount ==
    ASSUME IInv, NEW t \in Threads, Begin(t) \/ BeginRedigest(t) \/ Step(t)
    PROVE  FiledAreCounted' /\ DroppedAreGone'
  <1> USE DEF IInv, FiledAreCounted, DroppedAreGone, Goto
  <1>0. \A u \in Threads \ {t} : pc[t] \in LockedSteps => pc[u] \notin LockedSteps
      BY LockExcludes
  <1> USE DEF TypeOK
  <1>1. CASE Begin(t)         BY <1>1 DEF Begin, Start
  <1>2. CASE BeginRedigest(t) BY <1>2 DEF BeginRedigest
  <1>3. CASE \E k \in Keys : LockKey(t, k) BY <1>3 DEF LockKey
  <1>4. CASE Skip(t) \/ FetchFails(t) \/ FileRejected(t)
      BY <1>4 DEF Skip, FetchFails, FileRejected, Return
  <1>5. CASE Replay(t)        BY <1>5 DEF Replay
  <1>6. CASE TakeLock(t)      BY <1>6 DEF TakeLock
  <1>7. CASE File(t)          BY <1>7, <1>0 DEF File, LockedSteps
  <1>8. CASE Track(t)         BY <1>8, <1>0 DEF Track, LockedSteps
  <1>9. CASE PickVictim(t)    BY <1>9 DEF PickVictim
  <1>10. CASE SaveReturns(t)  BY <1>10 DEF SaveReturns, Return
  <1>11. CASE Drop(t)         BY <1>11, <1>0 DEF Drop, LockedSteps
  <1>12. CASE Untrack(t)      BY <1>12, <1>0 DEF Untrack, LockedSteps, Return
  <1> QED
      BY <1>1, <1>2, <1>3, <1>4, <1>5, <1>6, <1>7, <1>8, <1>9, <1>10, <1>11, <1>12
      DEF Step

LEMMA Invariance == Spec => []IInv
  <1>1. IInv /\ [Next]_vars => IInv'
    <2> SUFFICES ASSUME IInv, [Next]_vars PROVE IInv'
        OBVIOUS
    <2>1. CASE Next
        BY <2>1, StepKeepsTypes, StepKeepsCount DEF Next, IInv
    <2>2. CASE UNCHANGED vars
        BY <2>2 DEF vars, IInv, TypeOK, FiledAreCounted, DroppedAreGone
    <2> QED BY <2>1, <2>2
  <1> QED BY InitIInv, <1>1, PTL DEF Spec

\* The mixin's lock is owned exactly through the body of save and evict, and
\* all variables have their types (caches.py 984-1023).
THEOREM TypeCorrect == Spec => []TypeOK
  BY Invariance, PTL DEF IInv

\* Whatever the threads do, with short digests too, no record is filed that
\* the size limit does not count (caches.py 984-1023).
THEOREM RecordsAreCounted == Spec => []NothingUncounted
  <1>1. IInv => NothingUncounted
      BY NoneIsNoThread DEF IInv, TypeOK, FiledAreCounted, NothingUncounted, LockedSteps
  <1> QED BY Invariance, <1>1, PTL

\* While the limit is enforced, what is filed is counted.
LEMMA EnforcesOverCalls ==
    ASSUME IInv, NEW t \in Threads, pc[t] = "enforce"
    PROVE  calls \subseteq _keys
  BY LockExcludes DEF IInv, FiledAreCounted, LockedSteps

\* However the threads interleave, the cache holds at most max_size records
\* when a save returns (caches.py 936-951, 984-1001).
THEOREM SizeIsLimited == Spec => SaveLeavesAtMostMaxSize
  <1>1. IInv /\ [Next]_vars =>
            [\A t \in Threads : SaveReturns(t) => Cardinality(calls) <= max_size]_vars
    <2> SUFFICES ASSUME IInv, NEW t \in Threads, SaveReturns(t)
                 PROVE  Cardinality(calls) <= max_size
        OBVIOUS
    <2>1. calls \subseteq _keys
        BY EnforcesOverCalls DEF SaveReturns
    <2>2. IsFiniteSet(_keys)
        BY KeysAreOrdered, FS_Subset DEF IInv, TypeOK
    <2>3. Cardinality(calls) <= Cardinality(_keys) /\ Cardinality(calls) \in Nat
             /\ Cardinality(_keys) \in Nat
        BY <2>1, <2>2, FS_Subset, FS_CardinalityType
    <2>4. Cardinality(_keys) <= max_size
        BY <2>3, MaxSizeIsNat DEF SaveReturns, TooMany
    <2> QED BY <2>3, <2>4, MaxSizeIsNat
  <1> QED BY Invariance, <1>1, PTL DEF Spec, SaveLeavesAtMostMaxSize

-----------------------------------------------------------------------------
(* Without short digests the count is exact *)

\* A key that is counted is filed, or is about to be uncounted by the thread
\* that dropped its record.
CountedAreFiled ==
    \A k \in _keys : k \in calls \/ \E t \in Threads : pc[t] = "untrack" /\ victim[t] = k

FullKeys == \A t \in Threads : op[t] # "evict_prefix"

TrackedAreFiled == \A t \in Threads : pc[t] = "track" => key[t] \in calls

ExactPart == CountedAreFiled /\ TrackedAreFiled /\ FullKeys

ExactInv == IInv /\ (FullDigestsOnly => ExactPart)

LEMMA StepKeepsExact ==
    ASSUME IInv, ExactPart, FullDigestsOnly, NEW t \in Threads,
           Begin(t) \/ BeginRedigest(t) \/ Step(t)
    PROVE  ExactPart'
  <1> USE DEF ExactPart, FullDigestsOnly, CountedAreFiled, TrackedAreFiled, FullKeys,
              IInv, Goto
  <1>0. \A u \in Threads \ {t} : pc[t] \in LockedSteps => pc[u] \notin LockedSteps
      BY LockExcludes
  <1> USE NoneIsNoThread DEF TypeOK, AllOps
  <1>1. CASE Begin(t)         BY <1>1 DEF Begin, Start
  <1>2. CASE BeginRedigest(t) BY <1>2 DEF BeginRedigest
  <1>3. CASE \E k \in Keys : LockKey(t, k) BY <1>3 DEF LockKey
  <1>4. CASE Skip(t) \/ FetchFails(t) \/ FileRejected(t)
      BY <1>4 DEF Skip, FetchFails, FileRejected, Return
  <1>5. CASE Replay(t)        BY <1>5 DEF Replay
  <1>6. CASE TakeLock(t)      BY <1>6 DEF TakeLock
  <1>7. CASE File(t)          BY <1>7, <1>0 DEF File, LockedSteps
  <1>8. CASE Track(t)         BY <1>8, <1>0 DEF Track, LockedSteps
  <1>9. CASE PickVictim(t)    BY <1>9 DEF PickVictim
  <1>10. CASE SaveReturns(t)  BY <1>10 DEF SaveReturns, Return
  <1>11. CASE Drop(t)         BY <1>11, <1>0 DEF Drop, LockedSteps
  <1>12. CASE Untrack(t)      BY <1>12, <1>0 DEF Untrack, LockedSteps, Return
  <1> QED
      BY <1>1, <1>2, <1>3, <1>4, <1>5, <1>6, <1>7, <1>8, <1>9, <1>10, <1>11, <1>12
      DEF Step

LEMMA ExactInvariance == Spec => []ExactInv
  <1>1. Init => ExactInv
      BY InitIInv, NoneIsNoThread
      DEF Init, ExactInv, ExactPart, CountedAreFiled, TrackedAreFiled, FullKeys, IInv,
          TypeOK, AllOps
  <1>2. ExactInv /\ [Next]_vars => ExactInv'
    <2> SUFFICES ASSUME ExactInv, [Next]_vars PROVE ExactInv'
        OBVIOUS
    <2>1. CASE Next
      <3>1. IInv'
          BY <2>1, StepKeepsTypes, StepKeepsCount DEF Next, ExactInv, IInv
      <3>2. FullDigestsOnly' => FullDigestsOnly
          BY <2>1 DEF Next, FullDigestsOnly
      <3>3. FullDigestsOnly => ExactPart'
          BY <2>1, StepKeepsExact DEF Next, ExactInv
      <3> QED BY <3>1, <3>2, <3>3 DEF ExactInv
    <2>2. CASE UNCHANGED vars
        BY <2>2
        DEF vars, ExactInv, ExactPart, IInv, TypeOK, FiledAreCounted, DroppedAreGone,
            CountedAreFiled, TrackedAreFiled, FullKeys, FullDigestsOnly
    <2> QED BY <2>1, <2>2
  <1> QED BY <1>1, <1>2, PTL DEF Spec

\* As long as nobody evicts by a short digest, what the mixin counts is what
\* is filed (caches.py 984-1023).
THEOREM CountExact == Spec => []CountIsExact
  <1>1. ExactInv => CountIsExact
    <2> SUFFICES ASSUME ExactInv, FullDigestsOnly, _lock = None PROVE _keys = calls
        BY DEF CountIsExact
    <2>1. \A t \in Threads : pc[t] \notin LockedSteps
        BY NoneIsNoThread DEF ExactInv, IInv, TypeOK
    <2>2. calls \subseteq _keys
        BY <2>1 DEF ExactInv, IInv, FiledAreCounted, LockedSteps
    <2>3. _keys \subseteq calls
        BY <2>1 DEF ExactInv, ExactPart, CountedAreFiled, LockedSteps
    <2> QED BY <2>2, <2>3
  <1> QED BY ExactInvariance, <1>1, PTL

\* Then, too, no record is evicted while there is room (caches.py 947).
THEOREM NoNeedlessEviction == Spec => EvictsOnlyWhenFull
  <1>1. ExactInv /\ [Next]_vars =>
            [FullDigestsOnly =>
                \A t \in Threads : PickVictim(t) => Cardinality(calls) > max_size]_vars
    <2> SUFFICES ASSUME ExactInv, FullDigestsOnly, NEW t \in Threads, PickVictim(t)
                 PROVE  Cardinality(calls) > max_size
        OBVIOUS
    <2>1. calls \subseteq _keys
        BY EnforcesOverCalls DEF ExactInv, PickVictim
    <2>2. _keys \subseteq calls
        BY LockExcludes DEF ExactInv, ExactPart, IInv, CountedAreFiled, PickVictim,
                            LockedSteps
    <2>3. calls = _keys
        BY <2>1, <2>2
    <2> QED BY <2>3 DEF PickVictim, TooMany
  <1> QED BY ExactInvariance, <1>1, PTL DEF Spec, EvictsOnlyWhenFull

-----------------------------------------------------------------------------
(* The key locks alone close no circle *)

\* A set of numbers that is not empty has a least one,
LEMMA SomeLeast ==
    ASSUME NEW T, T \subseteq Nat, T # {}
    PROVE  \E x \in T : \A y \in T : x <= y
  <1>1. PICK x \in T : \A y \in T : <<y, x>> \notin OpToRel(<, Nat)
      BY WFMin, NatLessThanWellFounded
  <1>2. \A y \in T : ~(y < x)
      BY <1>1 DEF OpToRel
  <1> QED BY <1>2

\* and a finite one that is not empty a greatest.
LEMMA SomeGreatest ==
    ASSUME NEW T, T \subseteq Nat, IsFiniteSet(T), T # {}
    PROVE  \E x \in T : \A y \in T : y <= x
  <1> DEFINE Above(x) == {y \in T : x < y}
             C == {Cardinality(Above(x)) : x \in T}
  <1>1. \A x \in T : IsFiniteSet(Above(x)) /\ Cardinality(Above(x)) \in Nat
      BY FS_Subset, FS_CardinalityType
  <1>2. C \subseteq Nat /\ C # {}
    <2> HIDE DEF Above
    <2> QED BY <1>1
  <1>3. PICK c \in C : \A d \in C : c <= d
    <2> HIDE DEF C
    <2> QED BY <1>2, SomeLeast
  <1>4. PICK x \in T : c = Cardinality(Above(x))
      OBVIOUS
  <1>5. ASSUME NEW y \in T, x < y PROVE FALSE
    <2>1. Above(y) \in SUBSET Above(x) /\ Above(y) # Above(x)
      <3>1. x \in Nat /\ y \in Nat /\ ~(y < y)
          BY <1>5
      <3>2. y \in Above(x) /\ y \notin Above(y)
          BY <1>5, <3>1
      <3>3. \A z \in Above(y) : z \in Above(x)
          BY <1>5, <3>1
      <3> QED BY <3>2, <3>3
    <2> HIDE DEF Above
    <2>2. Cardinality(Above(y)) < Cardinality(Above(x))
        BY <1>1, <2>1, FS_Subset
    <2>3. Cardinality(Above(x)) <= Cardinality(Above(y))
        BY <1>3, <1>4
    <2> QED BY <1>1, <2>2, <2>3
  <1> QED BY <1>5

\* A thread that collects key locks wants only greater keys than it has.
KeysAscend ==
    \A t \in Threads : pc[t] = "lock" => \A h \in held[t], k \in want[t] : h < k

LEMMA StepKeepsAscent ==
    ASSUME TypeOK, KeysAscend, NEW t \in Threads, Begin(t) \/ BeginRedigest(t) \/ Step(t)
    PROVE  KeysAscend'
  <1> USE DEF KeysAscend, TypeOK, Goto
  <1>1. CASE Begin(t)         BY <1>1 DEF Begin, Start
  <1>2. CASE BeginRedigest(t) BY <1>2 DEF BeginRedigest
  <1>3. CASE \E k \in Keys : LockKey(t, k)
    <2>1. PICK k \in Keys : LockKey(t, k)
        BY <1>3
    <2>2. \A j \in want[t] \ {k} : k < j
        BY <2>1, KeysAreOrdered DEF LockKey, IsFirst
    <2> QED BY <2>1, <2>2 DEF LockKey
  <1>4. CASE Skip(t) \/ FetchFails(t) \/ FileRejected(t)
      BY <1>4 DEF Skip, FetchFails, FileRejected, Return
  <1>5. CASE Replay(t)        BY <1>5 DEF Replay
  <1>6. CASE TakeLock(t)      BY <1>6 DEF TakeLock
  <1>7. CASE File(t)          BY <1>7 DEF File
  <1>8. CASE Track(t)         BY <1>8 DEF Track
  <1>9. CASE PickVictim(t)    BY <1>9 DEF PickVictim
  <1>10. CASE SaveReturns(t)  BY <1>10 DEF SaveReturns, Return
  <1>11. CASE Drop(t)         BY <1>11 DEF Drop
  <1>12. CASE Untrack(t)      BY <1>12 DEF Untrack, Return
  <1> QED
      BY <1>1, <1>2, <1>3, <1>4, <1>5, <1>6, <1>7, <1>8, <1>9, <1>10, <1>11, <1>12
      DEF Step

LEMMA AscentInvariance == Spec => [](TypeOK /\ KeysAscend)
  <1>1. Init => TypeOK /\ KeysAscend
      BY InitIInv DEF IInv, Init, KeysAscend
  <1>2. TypeOK /\ KeysAscend /\ [Next]_vars => TypeOK' /\ KeysAscend'
    <2> SUFFICES ASSUME TypeOK, KeysAscend, [Next]_vars PROVE TypeOK' /\ KeysAscend'
        OBVIOUS
    <2>1. CASE Next
        BY <2>1, StepKeepsTypes, StepKeepsAscent DEF Next
    <2>2. CASE UNCHANGED vars
        BY <2>2 DEF vars, TypeOK, KeysAscend
    <2> QED BY <2>1, <2>2
  <1> QED BY <1>1, <1>2, PTL DEF Spec

\* Of threads in a circle none of which owns the mixin's lock each collects key
\* locks; who wants the greatest key waits for one that wants a greater.
LEMMA SomeoneOwnsTheLock ==
    ASSUME TypeOK, KeysAscend, NEW S \in SUBSET Threads, Circle(S)
    PROVE  \E t \in S : _lock = t
  <1> SUFFICES ASSUME \A t \in S : _lock # t PROVE FALSE
      OBVIOUS
  <1>1. ASSUME NEW t \in S
        PROVE  /\ pc[t] = "lock"
               /\ \E k \in want[t], u \in S : IsFirst(t, k) /\ k \in held[u]
    <2>1. PICK u \in S : u \in WaitsFor(t)
        BY DEF Circle
    <2>2. PICK k \in WantedKey(t) : k \in held[u]
        BY <2>1 DEF WaitsFor
    <2>3. pc[t] \notin {"file", "drop"}
        BY DEF TypeOK, LockedSteps
    <2>4. pc[t] = "lock"
        BY <2>2, <2>3 DEF WantedKey
    <2> QED BY <2>2, <2>4 DEF WantedKey
  <1> DEFINE Wanted == {k \in Keys : \E t \in S : k \in want[t] /\ IsFirst(t, k)}
  <1>2. Wanted \subseteq Nat /\ IsFiniteSet(Wanted)
      BY KeysAreOrdered, FS_Subset
  <1>3. \A t \in S : \A k \in want[t] : k \in Keys /\ k \in Nat
      BY KeysAreOrdered DEF TypeOK
  <1>4. Wanted # {}
    <2>1. S # {}
        BY DEF Circle
    <2> QED BY <1>1, <1>3, <2>1
  <1>5. PICK m \in Wanted : \A k \in Wanted : k <= m
    <2> HIDE DEF Wanted
    <2> QED BY <1>2, <1>4, SomeGreatest
  <1>6. PICK t \in S : m \in want[t] /\ IsFirst(t, m)
      OBVIOUS
  <1>7. PICK u \in S : m \in held[u]
    <2>1. PICK k \in want[t], u \in S : IsFirst(t, k) /\ k \in held[u]
        BY <1>1
    <2>2. k <= m /\ m <= k
        BY <1>6, <2>1 DEF IsFirst
    <2>3. k = m
        BY <1>3, <1>6, <2>1, <2>2
    <2> QED BY <2>1, <2>3
  <1>8. PICK k \in want[u] : IsFirst(u, k)
      BY <1>1
  <1>9. m < k
      BY <1>1, <1>7, <1>8 DEF KeysAscend
  <1>10. k \in Wanted
      BY <1>3, <1>8
  <1> QED BY <1>2, <1>5, <1>9, <1>10

\* However many threads redigest and transfer next to saves and evictions, a
\* circle of waiting threads has one in it that owns the mixin's lock: the order
\* in which the key locks are taken closes none (caches.py 446-456).
THEOREM KeyLocksCloseNoCircle == Spec => []CirclesPassTheLimit
  <1>1. TypeOK /\ KeysAscend => CirclesPassTheLimit
      BY SomeoneOwnsTheLock DEF CirclesPassTheLimit
  <1> QED BY AscentInvariance, <1>1, PTL

-----------------------------------------------------------------------------
(* CacheViews.  Views are built from views: induction and recursion along   *)
(* the tree.                                                                *)

Parts(v) == {Members[v][n] : n \in Indices(v)}

\* What holds of every view whose members it holds of, holds of all.
LEMMA HoldsOfAll ==
    ASSUME NEW H, H \subseteq Views, \A v \in Views : Parts(v) \subseteq H => v \in H
    PROVE  H = Views
  <1> SUFFICES ASSUME Views \ H # {} PROVE FALSE
      OBVIOUS
  <1> DEFINE S == Views \ H
  <1>1. S \in (SUBSET Views) \ {{}}
      OBVIOUS
  <1> HIDE DEF S
  <1>2. PICK v \in S : \A n \in 1 .. Len(Members[v]) : Members[v][n] \notin S
      BY <1>1, ViewsAreTrees
  <1>3. v \in Views /\ Members[v] \in Seq(Views)
      BY <1>1, MembersFit
  <1>4. Parts(v) \subseteq H
    <2>1. \A n \in Indices(v) : Members[v][n] \in Views /\ Members[v][n] \notin S
        BY <1>2, <1>3, ElementOfSeq, LenProperties DEF Indices
    <2> QED BY <2>1 DEF Parts, S
  <1>5. v \notin H
      BY DEF S
  <1> QED BY <1>3, <1>4, <1>5

LEMMA PartsAre ==
    ASSUME NEW v \in Views
    PROVE  /\ Parts(v) \subseteq Views
           /\ v \notin Parts(v)
           /\ Indices(v) = 1 .. Len(Members[v]) /\ Len(Members[v]) \in Nat
           /\ \A n \in Indices(v) : Members[v][n] \in Parts(v) /\ Members[v][n] \in Views
           /\ Kind[v] \in Wrappers \cup Multi => 1 \in Indices(v)
  <1>1. Members[v] \in Seq(Views)
      BY MembersFit
  <1>2. Indices(v) = 1 .. Len(Members[v]) /\ Len(Members[v]) \in Nat
      BY <1>1, LenProperties DEF Indices
  <1>3. \A n \in Indices(v) : Members[v][n] \in Parts(v)
      BY DEF Parts
  <1>4. Parts(v) \subseteq Views
    <2>1. \A n \in Indices(v) : Members[v][n] \in Views
        BY <1>1, <1>2, ElementOfSeq
    <2> QED BY <2>1 DEF Parts
  <1>5. v \notin Parts(v)
    <2>1. {v} \in (SUBSET Views) \ {{}}
        OBVIOUS
    <2>2. \A n \in 1 .. Len(Members[v]) : Members[v][n] # v
        BY <2>1, ViewsAreTrees
    <2> QED BY <1>2, <2>2 DEF Parts
  <1>6. ASSUME Kind[v] \in Wrappers \cup Multi PROVE 1 \in Indices(v)
    <2>1. Len(Members[v]) > 0
      <3>1. CASE Kind[v] \in Wrappers
        <4>1. Len(Members[v]) = 1
            BY <3>1, MembersFit, Zenon
        <4> QED BY <4>1
      <3>2. CASE Kind[v] \in Multi
          BY <3>2, MembersFit
      <3> QED BY <1>6, <3>1, <3>2
    <2> QED BY <1>2, <2>1
  <1> QED BY <1>2, <1>3, <1>4, <1>5, <1>6

\* An equation that gives each view a value from those of its members has a solution.
LEMMA EquationHolds ==
    ASSUME NEW S, NEW s \in S, NEW B \in [[Views -> S] -> [Views -> S]],
           \A f, g \in [Views -> S], v \in Views :
               (\A w \in Parts(v) : f[w] = g[w]) => B[f][v] = B[g][v]
    PROVE  \E f \in [Views -> S] : f = B[f]
  <1> DEFINE Closed(D) == \A v \in D : Parts(v) \subseteq D
             Solves(f, D) == f \in [Views -> S] /\ \A v \in D : f[v] = B[f][v]
             Solution(v, f) == \E D \in SUBSET Views : v \in D /\ Closed(D) /\ Solves(f, D)
             Good == {v \in Views : \E f : Solution(v, f)}
             U(v) == CHOOSE f : Solution(v, f)
             h == [v \in Views |-> IF v \in Good THEN U(v)[v] ELSE s]
  <1>1. ASSUME NEW D \in SUBSET Views, NEW E \in SUBSET Views, Closed(D), Closed(E),
               NEW f, NEW g, Solves(f, D), Solves(g, E)
        PROVE  \A v \in D \cap E : f[v] = g[v]
    <2> DEFINE H == {v \in Views : v \in D \cap E => f[v] = g[v]}
    <2>1. ASSUME NEW v \in Views, Parts(v) \subseteq H PROVE v \in H
      <3>1. CASE v \in D \cap E
        <4>1. \A w \in Parts(v) : f[w] = g[w]
            BY <1>1, <2>1, <3>1
        <4>2. B[f][v] = B[g][v]
            BY <1>1, <4>1
        <4> QED BY <1>1, <3>1, <4>2
      <3> QED BY <3>1
    <2>2. H = Views
      <3> HIDE DEF H
      <3>1. H \subseteq Views
          BY DEF H
      <3> QED BY <2>1, <3>1, HoldsOfAll
    <2> QED BY <2>2
  <1>2. \A v \in Good : Solution(v, U(v))
    <2> HIDE DEF Solution
    <2> QED OBVIOUS
  <1>3. h \in [Views -> S]
    <2>1. ASSUME NEW v \in Good PROVE U(v)[v] \in S
      <3>1. Solution(v, U(v)) /\ v \in Views
          BY <1>2
      <3> HIDE DEF U, Good
      <3>2. U(v) \in [Views -> S]
          BY <3>1
      <3> QED BY <3>1, <3>2
    <2> HIDE DEF U, Good
    <2> QED BY <2>1
  <1>4. ASSUME NEW v \in Good
        PROVE  Parts(v) \subseteq Good /\ h[v] = B[h][v]
    <2>1. v \in Views
        OBVIOUS
    <2> DEFINE f == U(v)
    <2>2. Solution(v, f)
        BY <1>2
    <2> HIDE DEF f
    <2>3. PICK D \in SUBSET Views : v \in D /\ Closed(D) /\ Solves(f, D)
        BY <2>2
    <2>4. ASSUME NEW w \in Parts(v) PROVE w \in Good /\ h[w] = f[w]
      <3>1. w \in D /\ w \in Views /\ Solution(w, f)
          BY <2>3, <2>4
      <3>2. w \in Good
          BY <3>1
      <3>3. Solution(w, U(w))
          BY <3>2, <1>2
      <3> DEFINE g == U(w)
      <3>4. h[w] = g[w]
          BY <3>1, <3>2
      <3> HIDE DEF g, U, h, Good
      <3>5. PICK E \in SUBSET Views : w \in E /\ Closed(E) /\ Solves(g, E)
          BY <3>3 DEF g
      <3> HIDE DEF Closed, Solves
      <3>6. g[w] = f[w]
          BY <1>1, <2>3, <3>1, <3>5
      <3> QED BY <3>2, <3>4, <3>6
    <2>5. h[v] = f[v]
        BY <2>1 DEF f
    <2> HIDE DEF h, Good
    <2>6. B[f][v] = B[h][v]
        BY <1>3, <2>1, <2>3, <2>4
    <2> QED BY <2>3, <2>4, <2>5, <2>6
  <1>5. Good = Views
    <2>1. ASSUME NEW v \in Views, Parts(v) \subseteq Good PROVE v \in Good
      <3> SUFFICES ASSUME v \notin Good PROVE FALSE
          OBVIOUS
      <3> DEFINE D == Good \cup {v}
                 g == [h EXCEPT ![v] = B[h][v]]
      <3> HIDE DEF h
      <3>1. g \in [Views -> S] /\ g[v] = B[h][v] /\ \A w \in Views \ {v} : g[w] = h[w]
          BY <1>3
      <3>2. D \in SUBSET Views /\ v \in D /\ Closed(D)
          BY <1>4, <2>1
      <3> HIDE DEF g
      <3>3. ASSUME NEW w \in D PROVE g[w] = B[g][w]
        <4>1. Parts(w) \subseteq Good /\ w \in Views
            BY <1>4, <2>1
        <4>2. \A x \in Parts(w) : g[x] = h[x]
            BY <3>1, <4>1
        <4>3. B[g][w] = B[h][w]
            BY <1>3, <3>1, <4>1, <4>2
        <4>4. g[w] = B[h][w]
          <5>1. CASE w = v
              BY <3>1, <5>1
          <5>2. CASE w \in Good
              BY <1>4, <3>1, <4>1, <5>2
          <5> QED BY <5>1, <5>2
        <4> QED BY <4>3, <4>4
      <3>4. Solution(v, g)
        <4> HIDE DEF D, Closed
        <4> QED BY <3>1, <3>2, <3>3
      <3> QED BY <3>4
    <2>2. Good \subseteq Views
        OBVIOUS
    <2> HIDE DEF Good
    <2> QED BY <2>1, <2>2, HoldsOfAll
  <1>6. h = B[h]
    <2> HIDE DEF Good, h
    <2>1. \A v \in Views : h[v] = B[h][v]
        BY <1>4, <1>5
    <2>2. B[h] \in [Views -> S]
        BY <1>3
    <2> QED BY <1>3, <2>1, <2>2
  <1> QED BY <1>3, <1>6

\* M[v][a] is what v makes of its members' answers a, all of them in S.
Makes(M, S) == S # {} /\ \A v \in Views : \A a \in [Indices(v) -> S] : M[v][a] \in S

\* So what a view makes of its members' answers is defined for all views.
LEMMA RecursionWorks ==
    ASSUME NEW S, NEW M, Makes(M, S)
    PROVE  \E f \in [Views -> S] : \A v \in Views : f[v] = M[v][Answers(f, v)]
  <1> DEFINE B == [f \in [Views -> S] |-> [v \in Views |-> M[v][Answers(f, v)]]]
  <1>1. ASSUME NEW f \in [Views -> S], NEW v \in Views PROVE Answers(f, v) \in [Indices(v) -> S]
      BY PartsAre DEF Answers
  <1>2. B \in [[Views -> S] -> [Views -> S]]
      BY <1>1 DEF Makes
  <1>3. ASSUME NEW f \in [Views -> S], NEW g \in [Views -> S], NEW v \in Views,
               \A w \in Parts(v) : f[w] = g[w]
        PROVE  B[f][v] = B[g][v]
    <2>1. Answers(f, v) = Answers(g, v)
        BY <1>3, PartsAre DEF Answers
    <2> QED BY <2>1
  <1>4. PICK f \in [Views -> S] : f = B[f]
    <2> HIDE DEF B
    <2>1. PICK s \in S : TRUE
        BY DEF Makes
    <2> QED BY <1>2, <1>3, <2>1, EquationHolds
  <1> QED BY <1>4

\* And the answers are of that kind.
LEMMA AnswersFit ==
    ASSUME NEW S, NEW F, \A v \in Views : Answers(F, v) \in [Indices(v) -> S] => F[v] \in S
    PROVE  \A v \in Views : F[v] \in S /\ Answers(F, v) \in [Indices(v) -> S]
  <1> DEFINE H == {v \in Views : F[v] \in S}
  <1>1. ASSUME NEW v \in Views, Parts(v) \subseteq H
        PROVE  v \in H
      BY <1>1, PartsAre DEF Answers
  <1>2. H = Views
    <2>1. H \subseteq Views
        OBVIOUS
    <2> HIDE DEF H
    <2> QED BY <1>1, <2>1, HoldsOfAll
  <1>3. \A v \in Views : F[v] \in S
      BY <1>2
  <1> QED BY <1>3, PartsAre DEF Answers

-----------------------------------------------------------------------------
(* What each method recurses to.                                            *)

\* KindsAreKnown, case by case.
LEMMA KindsAre ==
    ASSUME NEW v \in Views
    PROVE  /\ Kind[v] \in {"cache", "readonly", "filtered", "refreshing", "pool", "stack"}
           /\ Kind[v] = "cache" => v \in Leaves
           /\ Kind[v] # "cache" => 1 \in Indices(v)
  BY KindsAreKnown, PartsAre DEF Kinds, Wrappers, Multi, Leaves

Filed == records \in [Leaves -> [LookupKeys -> Results \cup {Nothing}]]
Places == Leaves \cup {Nothing}
Answer == [key : LookupKeys, leaf : Leaves]

\* contains.
LEMMA ContainingIs ==
    ASSUME NEW c \in Columns
    PROVE  /\ Containing(c) \in [Views -> BOOLEAN]
           /\ \A v \in Views : /\ Answers(Containing(c), v) \in [Indices(v) -> BOOLEAN]
                              /\ Containing(c)[v] = ContainsOf(v, Answers(Containing(c), v), c)
  <1>1. ASSUME NEW v \in Views, NEW a \in [Indices(v) -> BOOLEAN] PROVE ContainsOf(v, a, c) \in BOOLEAN
      BY KindsAre DEF ContainsOf, Multi
  <1> DEFINE M == [v \in Views |-> [a \in [Indices(v) -> BOOLEAN] |-> ContainsOf(v, a, c)]]
  <1>2. Makes(M, BOOLEAN)
    <2>1. BOOLEAN # {}
        OBVIOUS
    <2> QED BY <1>1, <2>1 DEF Makes
  <1>3. PICK f \in [Views -> BOOLEAN] : \A v \in Views : f[v] = M[v][Answers(f, v)]
    <2> HIDE DEF M
    <2> QED BY <1>2, RecursionWorks
  <1>4. f = [v \in Views |-> ContainsOf(v, Answers(f, v), c)]
    <2>1. \A v \in Views : Answers(f, v) \in [Indices(v) -> BOOLEAN]
        BY PartsAre DEF Answers
    <2> QED BY <1>3, <2>1
  <1> DEFINE F == CHOOSE g : g = [v \in Views |-> ContainsOf(v, Answers(g, v), c)]
  <1>5. F = [v \in Views |-> ContainsOf(v, Answers(F, v), c)]
    <2> HIDE DEF M
    <2> QED BY <1>4
  <1>6. Containing(c) = F
      BY DEF Containing
  <1> HIDE DEF F
  <1>7. \A v \in Views : F[v] \in BOOLEAN /\ Answers(F, v) \in [Indices(v) -> BOOLEAN]
    <2>1. ASSUME NEW v \in Views, Answers(F, v) \in [Indices(v) -> BOOLEAN] PROVE F[v] \in BOOLEAN
      <3>1. F[v] = ContainsOf(v, Answers(F, v), c)
          BY <1>5
      <3> QED BY <1>1, <2>1, <3>1
    <2> QED BY <2>1, AnswersFit
  <1> QED BY <1>5, <1>6, <1>7

\* save.
LEMMA TargetsAre ==
    /\ Targets \in [Views -> Places]
    /\ \A v \in Views : /\ Answers(Targets, v) \in [Indices(v) -> Places]
                       /\ Targets[v] = TargetOf(v, Answers(Targets, v))
  <1>1. ASSUME NEW v \in Views, NEW a \in [Indices(v) -> Places] PROVE TargetOf(v, a) \in Places
      BY KindsAre DEF TargetOf, Places, ReadOnlyKinds
  <1> DEFINE M == [v \in Views |-> [a \in [Indices(v) -> Places] |-> TargetOf(v, a)]]
  <1>2. Makes(M, Places)
    <2>1. Places # {}
        BY DEF Places
    <2> QED BY <1>1, <2>1 DEF Makes
  <1>3. PICK f \in [Views -> Places] : \A v \in Views : f[v] = M[v][Answers(f, v)]
    <2> HIDE DEF M
    <2> QED BY <1>2, RecursionWorks
  <1>4. f = [v \in Views |-> TargetOf(v, Answers(f, v))]
    <2>1. \A v \in Views : Answers(f, v) \in [Indices(v) -> Places]
        BY PartsAre DEF Answers
    <2> QED BY <1>3, <2>1
  <1> DEFINE F == CHOOSE g : g = [v \in Views |-> TargetOf(v, Answers(g, v))]
  <1>5. F = [v \in Views |-> TargetOf(v, Answers(F, v))]
    <2> HIDE DEF M
    <2> QED BY <1>4
  <1>6. Targets = F
      BY DEF Targets
  <1> HIDE DEF F
  <1>7. \A v \in Views : F[v] \in Places /\ Answers(F, v) \in [Indices(v) -> Places]
    <2>1. ASSUME NEW v \in Views, Answers(F, v) \in [Indices(v) -> Places] PROVE F[v] \in Places
      <3>1. F[v] = TargetOf(v, Answers(F, v))
          BY <1>5
      <3> QED BY <1>1, <2>1, <3>1
    <2> QED BY <2>1, AnswersFit
  <1> QED BY <1>5, <1>6, <1>7

\* _is_read_only.
LEMMA RefusingIs ==
    /\ Refusing \in [Views -> BOOLEAN]
    /\ \A v \in Views : /\ Answers(Refusing, v) \in [Indices(v) -> BOOLEAN]
                       /\ Refusing[v] = ReadOnlyOf(v, Answers(Refusing, v))
  <1>1. ASSUME NEW v \in Views, NEW a \in [Indices(v) -> BOOLEAN] PROVE ReadOnlyOf(v, a) \in BOOLEAN
      BY KindsAre DEF ReadOnlyOf
  <1> DEFINE M == [v \in Views |-> [a \in [Indices(v) -> BOOLEAN] |-> ReadOnlyOf(v, a)]]
  <1>2. Makes(M, BOOLEAN)
    <2>1. BOOLEAN # {}
        OBVIOUS
    <2> QED BY <1>1, <2>1 DEF Makes
  <1>3. PICK f \in [Views -> BOOLEAN] : \A v \in Views : f[v] = M[v][Answers(f, v)]
    <2> HIDE DEF M
    <2> QED BY <1>2, RecursionWorks
  <1>4. f = [v \in Views |-> ReadOnlyOf(v, Answers(f, v))]
    <2>1. \A v \in Views : Answers(f, v) \in [Indices(v) -> BOOLEAN]
        BY PartsAre DEF Answers
    <2> QED BY <1>3, <2>1
  <1> DEFINE F == CHOOSE g : g = [v \in Views |-> ReadOnlyOf(v, Answers(g, v))]
  <1>5. F = [v \in Views |-> ReadOnlyOf(v, Answers(F, v))]
    <2> HIDE DEF M
    <2> QED BY <1>4
  <1>6. Refusing = F
      BY DEF Refusing
  <1> HIDE DEF F
  <1>7. \A v \in Views : F[v] \in BOOLEAN /\ Answers(F, v) \in [Indices(v) -> BOOLEAN]
    <2>1. ASSUME NEW v \in Views, Answers(F, v) \in [Indices(v) -> BOOLEAN] PROVE F[v] \in BOOLEAN
      <3>1. F[v] = ReadOnlyOf(v, Answers(F, v))
          BY <1>5
      <3> QED BY <1>1, <2>1, <3>1
    <2> QED BY <2>1, AnswersFit
  <1> QED BY <1>5, <1>6, <1>7

\* evict.
LEMMA EvictingIs ==
    /\ Evicting \in [Views -> (SUBSET Leaves)]
    /\ \A v \in Views : /\ Answers(Evicting, v) \in [Indices(v) -> (SUBSET Leaves)]
                       /\ Evicting[v] = EvictsOf(v, Answers(Evicting, v))
  <1>1. ASSUME NEW v \in Views, NEW a \in [Indices(v) -> (SUBSET Leaves)] PROVE EvictsOf(v, a) \in (SUBSET Leaves)
      BY KindsAre DEF EvictsOf, ReadOnlyKinds
  <1> DEFINE M == [v \in Views |-> [a \in [Indices(v) -> (SUBSET Leaves)] |-> EvictsOf(v, a)]]
  <1>2. Makes(M, (SUBSET Leaves))
    <2>1. (SUBSET Leaves) # {}
        OBVIOUS
    <2> QED BY <1>1, <2>1 DEF Makes
  <1>3. PICK f \in [Views -> (SUBSET Leaves)] : \A v \in Views : f[v] = M[v][Answers(f, v)]
    <2> HIDE DEF M
    <2> QED BY <1>2, RecursionWorks
  <1>4. f = [v \in Views |-> EvictsOf(v, Answers(f, v))]
    <2>1. \A v \in Views : Answers(f, v) \in [Indices(v) -> (SUBSET Leaves)]
        BY PartsAre DEF Answers
    <2> QED BY <1>3, <2>1
  <1> DEFINE F == CHOOSE g : g = [v \in Views |-> EvictsOf(v, Answers(g, v))]
  <1>5. F = [v \in Views |-> EvictsOf(v, Answers(F, v))]
    <2> HIDE DEF M
    <2> QED BY <1>4
  <1>6. Evicting = F
      BY DEF Evicting
  <1> HIDE DEF F
  <1>7. \A v \in Views : F[v] \in (SUBSET Leaves) /\ Answers(F, v) \in [Indices(v) -> (SUBSET Leaves)]
    <2>1. ASSUME NEW v \in Views, Answers(F, v) \in [Indices(v) -> (SUBSET Leaves)] PROVE F[v] \in (SUBSET Leaves)
      <3>1. F[v] = EvictsOf(v, Answers(F, v))
          BY <1>5
      <3> QED BY <1>1, <2>1, <3>1
    <2> QED BY <2>1, AnswersFit
  <1> QED BY <1>5, <1>6, <1>7

\* query.
LEMMA QueriedAre ==
    /\ Queried \in [Views -> (SUBSET Answer)]
    /\ \A v \in Views : /\ Answers(Queried, v) \in [Indices(v) -> (SUBSET Answer)]
                       /\ Queried[v] = QueryOf(v, Answers(Queried, v))
  <1>1. ASSUME NEW v \in Views, NEW a \in [Indices(v) -> (SUBSET Answer)] PROVE QueryOf(v, a) \in (SUBSET Answer)
      BY KindsAre DEF QueryOf, Answer, Multi
  <1> DEFINE M == [v \in Views |-> [a \in [Indices(v) -> (SUBSET Answer)] |-> QueryOf(v, a)]]
  <1>2. Makes(M, (SUBSET Answer))
    <2>1. (SUBSET Answer) # {}
        OBVIOUS
    <2> QED BY <1>1, <2>1 DEF Makes
  <1>3. PICK f \in [Views -> (SUBSET Answer)] : \A v \in Views : f[v] = M[v][Answers(f, v)]
    <2> HIDE DEF M
    <2> QED BY <1>2, RecursionWorks
  <1>4. f = [v \in Views |-> QueryOf(v, Answers(f, v))]
    <2>1. \A v \in Views : Answers(f, v) \in [Indices(v) -> (SUBSET Answer)]
        BY PartsAre DEF Answers
    <2> QED BY <1>3, <2>1
  <1> DEFINE F == CHOOSE g : g = [v \in Views |-> QueryOf(v, Answers(g, v))]
  <1>5. F = [v \in Views |-> QueryOf(v, Answers(F, v))]
    <2> HIDE DEF M
    <2> QED BY <1>4
  <1>6. Queried = F
      BY DEF Queried
  <1> HIDE DEF F
  <1>7. \A v \in Views : F[v] \in (SUBSET Answer) /\ Answers(F, v) \in [Indices(v) -> (SUBSET Answer)]
    <2>1. ASSUME NEW v \in Views, Answers(F, v) \in [Indices(v) -> (SUBSET Answer)] PROVE F[v] \in (SUBSET Answer)
      <3>1. F[v] = QueryOf(v, Answers(F, v))
          BY <1>5
      <3> QED BY <1>1, <2>1, <3>1
    <2> QED BY <2>1, AnswersFit
  <1> QED BY <1>5, <1>6, <1>7

\* A view and what it is built from.
LEMMA BuiltAre ==
    /\ Built \in [Views -> (SUBSET Views)]
    /\ \A v \in Views : /\ Answers(Built, v) \in [Indices(v) -> (SUBSET Views)]
                       /\ Built[v] = BelowOf(v, Answers(Built, v))
  <1>1. ASSUME NEW v \in Views, NEW a \in [Indices(v) -> (SUBSET Views)] PROVE BelowOf(v, a) \in (SUBSET Views)
      BY DEF BelowOf
  <1> DEFINE M == [v \in Views |-> [a \in [Indices(v) -> (SUBSET Views)] |-> BelowOf(v, a)]]
  <1>2. Makes(M, (SUBSET Views))
    <2>1. (SUBSET Views) # {}
        OBVIOUS
    <2> QED BY <1>1, <2>1 DEF Makes
  <1>3. PICK f \in [Views -> (SUBSET Views)] : \A v \in Views : f[v] = M[v][Answers(f, v)]
    <2> HIDE DEF M
    <2> QED BY <1>2, RecursionWorks
  <1>4. f = [v \in Views |-> BelowOf(v, Answers(f, v))]
    <2>1. \A v \in Views : Answers(f, v) \in [Indices(v) -> (SUBSET Views)]
        BY PartsAre DEF Answers
    <2> QED BY <1>3, <2>1
  <1> DEFINE F == CHOOSE g : g = [v \in Views |-> BelowOf(v, Answers(g, v))]
  <1>5. F = [v \in Views |-> BelowOf(v, Answers(F, v))]
    <2> HIDE DEF M
    <2> QED BY <1>4
  <1>6. Built = F
      BY DEF Built
  <1> HIDE DEF F
  <1>7. \A v \in Views : F[v] \in (SUBSET Views) /\ Answers(F, v) \in [Indices(v) -> (SUBSET Views)]
    <2>1. ASSUME NEW v \in Views, Answers(F, v) \in [Indices(v) -> (SUBSET Views)] PROVE F[v] \in (SUBSET Views)
      <3>1. F[v] = BelowOf(v, Answers(F, v))
          BY <1>5
      <3> QED BY <1>1, <2>1, <3>1
    <2> QED BY <2>1, AnswersFit
  <1> QED BY <1>5, <1>6, <1>7

\* Where a load finds a record, and the column it leaves.
Finds == [leaf : Places, column : Columns]
Reads == [Columns -> Finds]

LEMMA MissedIs ==
    ASSUME NEW c \in Columns
    PROVE  Missed(c) \in Finds
  BY DEF Missed, Finds, Places

\* What the first members of a multi cache make of a column.
Tries(v, a, n, b) == IF b.leaf # Nothing THEN b ELSE a[n][b.column]

IsTried(t, v, a, c) ==
    /\ t \in [0..Len(Members[v]) -> Finds]
    /\ t[0] = Missed(c)
    /\ \A n \in Indices(v) : t[n] = Tries(v, a, n, t[n - 1])

\* What holds of the first and of each that follows one it holds of, holds of all.
LEMMA HoldsUpTo ==
    ASSUME NEW L \in Nat, NEW H, 0 \in H, \A n \in 1..L : n - 1 \in H => n \in H
    PROVE  0..L \subseteq H
  <1> DEFINE T == 0..L \ H
  <1> SUFFICES ASSUME T # {} PROVE FALSE
      OBVIOUS
  <1>1. PICK x \in T : \A y \in T : <<y, x>> \notin OpToRel(<, Nat)
    <2>1. T \subseteq Nat
        OBVIOUS
    <2> HIDE DEF T
    <2> QED BY <2>1, WFMin, NatLessThanWellFounded
  <1>2. x \in 1..L /\ x \notin H /\ x - 1 \in 0..L /\ x - 1 < x
      OBVIOUS
  <1>3. x - 1 \notin T
    <2>1. x \in Nat /\ x - 1 \in Nat
        BY <1>2
    <2>2. <<x - 1, x>> \in OpToRel(<, Nat)
        BY <1>2, <2>1 DEF OpToRel
    <2> QED BY <1>1, <2>2
  <1> QED BY <1>2, <1>3

LEMMA FirstHitIs ==
    ASSUME NEW v \in Views, NEW a \in [Indices(v) -> Reads], NEW c \in Columns
    PROVE  \E t : IsTried(t, v, a, c) /\ FirstHit(v, a, c) = t[Len(Members[v])]
  <1> DEFINE L == Len(Members[v])
             Body(t, n) == IF n = 0 THEN Missed(c)
                           ELSE IF t[n - 1].leaf # Nothing THEN t[n - 1] ELSE a[n][t[n - 1].column]
             Fits(t, m) == t \in [0..m -> Finds] /\ \A n \in 0..m : t[n] = Body(t, n)
             H == {m \in 0..L : \E t : Fits(t, m)}
  <1>1. L \in Nat /\ Indices(v) = 1..L
      BY PartsAre
  <1>2. ASSUME NEW n \in 1..L, NEW b \in Finds PROVE Tries(v, a, n, b) \in Finds
    <2>1. a[n] \in Reads /\ b.column \in Columns
        BY <1>1, <1>2 DEF Finds
    <2> QED BY <1>2, <2>1 DEF Tries, Reads
  <1> HIDE DEF L
  <1>3. 0 \in H
    <2> DEFINE t == [n \in 0..0 |-> Missed(c)]
    <2>1. Fits(t, 0)
        BY MissedIs
    <2> HIDE DEF Fits
    <2> QED BY <1>1, <2>1
  <1>4. ASSUME NEW n \in 1..L, n - 1 \in H PROVE n \in H
    <2>1. PICK t : Fits(t, n - 1)
        BY <1>4
    <2> DEFINE u == [m \in 0..n |-> IF m = n THEN Tries(v, a, n, t[n - 1]) ELSE t[m]]
    <2>2. n \in Nat /\ n # 0 /\ n - 1 \in 0..(n - 1)
        BY <1>1
    <2>3. t \in [0..(n - 1) -> Finds] /\ \A m \in 0..(n - 1) : t[m] = Body(t, m)
        BY <2>1
    <2>4. Tries(v, a, n, t[n - 1]) \in Finds
        BY <1>2, <2>2, <2>3
    <2>5. \A m \in 0..n : m # n => m \in 0..(n - 1)
        BY <2>2
    <2>6. u \in [0..n -> Finds]
        BY <2>3, <2>4, <2>5
    <2>7. u[n] = Tries(v, a, n, t[n - 1]) /\ \A m \in 0..(n - 1) : u[m] = t[m]
        BY <2>2
    <2> HIDE DEF u, Body
    <2>8. u[n] = Body(u, n)
        BY <2>2, <2>7 DEF Tries, Body
    <2>9. ASSUME NEW m \in 0..(n - 1) PROVE u[m] = Body(u, m)
      <3>1. m = 0 \/ m - 1 \in 0..(n - 1)
          BY <2>2
      <3>2. Body(u, m) = Body(t, m)
          BY <2>7, <3>1 DEF Body
      <3> QED BY <2>3, <2>7, <3>2
    <2>10. Fits(u, n)
        BY <2>5, <2>6, <2>8, <2>9
    <2> HIDE DEF Fits
    <2> QED BY <1>1, <2>10
  <1>5. \E t : Fits(t, L)
    <2>1. 0..L \subseteq H
      <3> HIDE DEF H
      <3> QED BY <1>1, <1>3, <1>4, HoldsUpTo
    <2>2. L \in 0..L
        BY <1>1
    <2> HIDE DEF Fits
    <2> QED BY <2>1, <2>2
  <1> DEFINE F == CHOOSE g : g = [n \in 0..L |-> Body(g, n)]
  <1>6. F = [n \in 0..L |-> Body(F, n)]
    <2>1. PICK t : Fits(t, L)
        BY <1>5
    <2> HIDE DEF Body
    <2>2. t = [n \in 0..L |-> Body(t, n)]
        BY <2>1
    <2> QED BY <2>2
  <1>7. FirstHit(v, a, c) = F[L]
      BY DEF FirstHit, L
  <1> HIDE DEF F
  <1>8. 0 \in 0..L /\ L \in 0..L /\ \A n \in 1..L : n # 0 /\ n \in 0..L /\ n - 1 \in 0..L
      BY <1>1
  <1>9. F[0] = Missed(c) /\ \A n \in 1..L : F[n] = Tries(v, a, n, F[n - 1])
      BY <1>6, <1>8 DEF Tries
  <1>10. \A n \in 0..L : F[n] \in Finds
    <2> DEFINE K == {n \in 0..L : F[n] \in Finds}
    <2>1. 0 \in K
        BY <1>8, <1>9, MissedIs
    <2>2. \A n \in 1..L : n - 1 \in K => n \in K
        BY <1>2, <1>8, <1>9
    <2>3. 0..L \subseteq K
      <3> HIDE DEF K
      <3> QED BY <1>1, <2>1, <2>2, HoldsUpTo
    <2> QED BY <2>3
  <1>11. F \in [0..L -> Finds]
    <2> HIDE DEF Body
    <2> QED BY <1>6, <1>10
  <1>12. IsTried(F, v, a, c)
      BY <1>1, <1>9, <1>11 DEF IsTried, L
  <1> QED BY <1>7, <1>12 DEF L

LEMMA LoadFinds ==
    ASSUME NEW v \in Views, NEW a \in [Indices(v) -> Reads], NEW c \in Columns
    PROVE  /\ LoadOf(v, a, c) \in Finds
           /\ Kind[v] \in Multi => FirstHit(v, a, c) \in Finds
           /\ Kind[v] # "cache" => a[1][c] \in Finds
  <1>1. FirstHit(v, a, c) \in Finds
    <2>1. PICK t : IsTried(t, v, a, c) /\ FirstHit(v, a, c) = t[Len(Members[v])]
        BY FirstHitIs
    <2>2. Len(Members[v]) \in 0..Len(Members[v])
        BY PartsAre
    <2> QED BY <2>1, <2>2 DEF IsTried
  <1>2. ASSUME Kind[v] # "cache" PROVE a[1][c] \in Finds
      BY <1>2, KindsAre DEF Reads
  <1>3. LoadOf(v, a, c) \in Finds
    <2>1. CASE Kind[v] = "cache"
        BY <2>1, KindsAre DEF LoadOf, Finds, Places
    <2>2. CASE Kind[v] = "readonly"
        BY <1>2, <2>2 DEF LoadOf
    <2>3. CASE Kind[v] = "filtered"
      <3>1. LoadOf(v, a, c) = Shown(a[1][c])
          BY <2>3 DEF LoadOf
      <3>2. \A b \in Finds : [b EXCEPT !.leaf = Nothing] \in Finds
          BY DEF Finds, Places
      <3> QED BY <1>2, <2>3, <3>1, <3>2 DEF Shown
    <2>4. CASE Kind[v] = "refreshing"
        BY <2>4, MissedIs DEF LoadOf
    <2>5. CASE Kind[v] = "pool"
        BY <1>1, <2>5 DEF LoadOf
    <2>6. CASE Kind[v] = "stack"
      <3> DEFINE b == FirstHit(v, a, c)
                 l == Target(Members[v][1])
                 d == [b EXCEPT !.column[l] = b.column[b.leaf]]
      <3>1. (LoadOf(v, a, c) = d /\ b.leaf # Nothing /\ l # Nothing) \/ LoadOf(v, a, c) = b
          BY <2>6 DEF LoadOf, CopiedDown
      <3>2. ASSUME b.leaf # Nothing, l # Nothing PROVE d \in Finds
        <4>1. l \in Leaves
            BY <2>6, <3>2, KindsAre, PartsAre, TargetsAre DEF Target, Places
        <4>2. b.leaf \in Leaves /\ b.column \in Columns
            BY <1>1, <3>2 DEF Finds, Places
        <4>3. b.column[b.leaf] \in Results \cup {Nothing}
            BY <4>2 DEF Columns
        <4>4. [b.column EXCEPT ![l] = b.column[b.leaf]] \in Columns
            BY <4>1, <4>2, <4>3 DEF Columns
        <4>5. d = [leaf |-> b.leaf, column |-> [b.column EXCEPT ![l] = b.column[b.leaf]]]
            BY <1>1 DEF Finds
        <4> QED BY <4>2, <4>4, <4>5 DEF Finds, Places
      <3> HIDE DEF b, d, l
      <3> QED BY <1>1, <3>1, <3>2 DEF b
    <2> QED BY <2>1, <2>2, <2>3, <2>4, <2>5, <2>6, KindsAre
  <1> QED BY <1>1, <1>2, <1>3

\* load.
LEMMA LoadingIs ==
    /\ Loading \in [Views -> Reads]
    /\ \A v \in Views :
         /\ Answers(Loading, v) \in [Indices(v) -> Reads]
         /\ \A c \in Columns : Loading[v][c] = LoadOf(v, Answers(Loading, v), c)
  <1> DEFINE Does(v, a) == [c \in Columns |-> LoadOf(v, a, c)]
  <1>1. ASSUME NEW v \in Views, NEW a \in [Indices(v) -> Reads] PROVE Does(v, a) \in Reads
      BY LoadFinds DEF Reads
  <1> DEFINE M == [v \in Views |-> [a \in [Indices(v) -> Reads] |-> Does(v, a)]]
  <1>2. Makes(M, Reads)
    <2>1. Reads # {}
      <3>1. [c \in Columns |-> Missed(c)] \in Reads
          BY MissedIs DEF Reads
      <3> QED BY <3>1
    <2> HIDE DEF Does
    <2> QED BY <1>1, <2>1 DEF Makes
  <1>3. PICK f \in [Views -> Reads] : \A v \in Views : f[v] = M[v][Answers(f, v)]
    <2> HIDE DEF M
    <2> QED BY <1>2, RecursionWorks
  <1>4. f = [v \in Views |-> Does(v, Answers(f, v))]
    <2>1. \A v \in Views : Answers(f, v) \in [Indices(v) -> Reads]
        BY PartsAre DEF Answers
    <2> HIDE DEF Does
    <2> QED BY <1>3, <2>1
  <1> DEFINE F == CHOOSE g : g = [v \in Views |-> Does(v, Answers(g, v))]
  <1>5. F = [v \in Views |-> Does(v, Answers(F, v))]
    <2> HIDE DEF M, Does
    <2> QED BY <1>4
  <1>6. Loading = F
      BY DEF Loading
  <1> HIDE DEF F
  <1>7. \A v \in Views : F[v] \in Reads /\ Answers(F, v) \in [Indices(v) -> Reads]
    <2> HIDE DEF Does
    <2>1. ASSUME NEW v \in Views, Answers(F, v) \in [Indices(v) -> Reads] PROVE F[v] \in Reads
      <3>1. F[v] = Does(v, Answers(F, v))
          BY <1>5
      <3> QED BY <1>1, <2>1, <3>1
    <2> QED BY <2>1, AnswersFit
  <1>8. \A v \in Views : F[v] = Does(v, Answers(F, v))
    <2> HIDE DEF Does
    <2> QED BY <1>5
  <1> QED BY <1>5, <1>6, <1>7, <1>8

-----------------------------------------------------------------------------
(* What follows for a view when it holds for its members.                   *)

\* The members are below, with all that is below them.
LEMMA BelowIs ==
    ASSUME NEW v \in Views
    PROVE  Below(v) = {v} \cup UNION {Below(Members[v][n]) : n \in Indices(v)}
  <1>1. Built[v] = {v} \cup UNION {Answers(Built, v)[n] : n \in Indices(v)}
      BY BuiltAre DEF BelowOf
  <1>2. \A n \in Indices(v) : Answers(Built, v)[n] = Below(Members[v][n])
      BY DEF Answers, Below
  <1> QED BY <1>1, <1>2 DEF Below

LEMMA WithoutIs ==
    ASSUME NEW v \in Views, NEW kind, BuiltWithout(v, kind)
    PROVE  Kind[v] # kind /\ \A n \in Indices(v) : BuiltWithout(Members[v][n], kind)
  <1>1. Below(v) = {v} \cup UNION {Below(Members[v][n]) : n \in Indices(v)}
      BY BelowIs
  <1> QED BY <1>1 DEF BuiltWithout

\* Members whose misses leave the column alone.
Quiet(v, a, c) == \A n \in Indices(v) : a[n][c].leaf = Nothing => a[n][c].column = c

\* Then a multi cache answers what the first member with an answer does.
FirstAnswers(v, a, c, found) ==
    \/ found = Missed(c) /\ \A n \in Indices(v) : a[n][c].leaf = Nothing
    \/ \E f \in Indices(v) :
         /\ found = a[f][c] /\ a[f][c].leaf # Nothing
         /\ \A n \in Indices(v) : n < f => a[n][c].leaf = Nothing

LEMMA FirstHitIsFirst ==
    ASSUME NEW v \in Views, NEW a \in [Indices(v) -> Reads], NEW c \in Columns, Quiet(v, a, c)
    PROVE  FirstAnswers(v, a, c, FirstHit(v, a, c))
  <1> DEFINE L == Len(Members[v])
  <1>1. L \in Nat /\ Indices(v) = 1..L
      BY PartsAre
  <1>2. PICK t : IsTried(t, v, a, c) /\ FirstHit(v, a, c) = t[L]
      BY FirstHitIs
  <1>3. /\ t[0] = Missed(c)
        /\ \A n \in 1..L : t[n] = IF t[n - 1].leaf # Nothing THEN t[n - 1] ELSE a[n][t[n - 1].column]
      BY <1>1, <1>2 DEF IsTried, Tries
  <1> HIDE DEF L
  <1> DEFINE MissUpTo(m) == t[m] = Missed(c) /\ \A n \in 1..m : a[n][c].leaf = Nothing
             Hit(m) == \E f \in 1..m : /\ t[m] = a[f][c] /\ a[f][c].leaf # Nothing
                                       /\ \A n \in 1..L : n < f => a[n][c].leaf = Nothing
             H == {m \in 0..L : MissUpTo(m) \/ Hit(m)}
  <1>4. 0 \in H
      BY <1>1, <1>3
  <1>5. ASSUME NEW m \in 1..L, m - 1 \in H PROVE m \in H
    <2>1. m \in 0..L /\ m - 1 \in 0..L /\ m \in 1..m
        BY <1>1
    <2>2. CASE Hit(m - 1)
      <3>1. PICK f \in 1..(m - 1) : /\ t[m - 1] = a[f][c] /\ a[f][c].leaf # Nothing
                                    /\ \A n \in 1..L : n < f => a[n][c].leaf = Nothing
          BY <2>2
      <3>2. t[m] = t[m - 1]
          BY <1>3, <3>1
      <3>3. f \in 1..m
          BY <1>1
      <3> QED BY <2>1, <3>1, <3>2, <3>3
    <2>3. CASE MissUpTo(m - 1)
      <3>1. t[m] = a[m][c] /\ a[m][c] \in Finds
        <4>1. a[m] \in Reads
            BY <1>1
        <4> QED BY <1>3, <2>3, <4>1 DEF Missed, Reads
      <3>2. \A n \in 1..L : n < m => n \in 1..(m - 1)
          BY <1>1
      <3>3. CASE a[m][c].leaf = Nothing
        <4>1. a[m][c] = Missed(c)
          <5>1. a[m][c].column = c
              BY <1>1, <3>3 DEF Quiet
          <5> QED BY <3>1, <3>3, <5>1 DEF Missed, Finds
        <4>2. \A n \in 1..m : n = m \/ n \in 1..(m - 1)
            BY <1>1
        <4>3. MissUpTo(m)
            BY <2>3, <3>1, <3>3, <4>1, <4>2
        <4> HIDE DEF MissUpTo
        <4> QED BY <2>1, <4>3
      <3>4. CASE a[m][c].leaf # Nothing
        <4>1. Hit(m)
            BY <2>1, <2>3, <3>1, <3>2, <3>4
        <4> HIDE DEF Hit
        <4> QED BY <2>1, <4>1
      <3> QED BY <3>3, <3>4
    <2> HIDE DEF Hit, MissUpTo
    <2> QED BY <1>5, <2>2, <2>3
  <1>6. MissUpTo(L) \/ Hit(L)
    <2>1. 0..L \subseteq H
      <3> HIDE DEF H
      <3> QED BY <1>1, <1>4, <1>5, HoldsUpTo
    <2>2. L \in 0..L
        BY <1>1
    <2> HIDE DEF MissUpTo, Hit
    <2> QED BY <2>1, <2>2
  <1> QED BY <1>1, <1>2, <1>6 DEF FirstAnswers

\* What a load does, kind by kind, when the misses of the members are quiet.
LEMMA LoadAnswers ==
    ASSUME NEW v \in Views, NEW c \in Columns,
           \A n \in Indices(v) : Loading[Members[v][n]][c].leaf = Nothing
                                 => Loading[Members[v][n]][c].column = c
    PROVE  /\ Loading[v] \in Reads
           /\ Loading[v][c] = LoadOf(v, Answers(Loading, v), c)
           /\ Answers(Loading, v) \in [Indices(v) -> Reads]
           /\ \A n \in Indices(v) : Answers(Loading, v)[n] = Loading[Members[v][n]]
           /\ FirstAnswers(v, Answers(Loading, v), c, FirstHit(v, Answers(Loading, v), c))
  <1> DEFINE a == Answers(Loading, v)
  <1>1. /\ Loading[v] \in Reads /\ a \in [Indices(v) -> Reads]
        /\ Loading[v][c] = LoadOf(v, a, c)
      BY LoadingIs
  <1>2. \A n \in Indices(v) : a[n] = Loading[Members[v][n]]
      BY DEF Answers
  <1>3. Quiet(v, a, c)
      BY <1>2 DEF Quiet
  <1> HIDE DEF a
  <1>4. FirstAnswers(v, a, c, FirstHit(v, a, c))
      BY <1>1, <1>3, FirstHitIsFirst
  <1> QED BY <1>1, <1>2, <1>4 DEF a

\* Copying down does not change what is found.
LEMMA CopiedIsFound ==
    ASSUME NEW v \in Views, NEW a \in [Indices(v) -> Reads], NEW c \in Columns, Kind[v] \in Multi
    PROVE  LoadOf(v, a, c).leaf = FirstHit(v, a, c).leaf
  <1>1. FirstHit(v, a, c) \in Finds
      BY LoadFinds
  <1>2. LoadOf(v, a, c) \in {FirstHit(v, a, c), CopiedDown(v, a, c)}
      BY DEF LoadOf, Multi
  <1> QED BY <1>1, <1>2 DEF CopiedDown, Finds

\* Only stacks copy.
LEMMA NothingIsCopied ==
    ASSUME NEW v \in Views, BuiltWithout(v, "stack"), NEW c \in Columns
    PROVE  Loading[v][c].column = c
  <1> DEFINE H == {w \in Views : BuiltWithout(w, "stack") => Loading[w][c].column = c}
  <1>1. ASSUME NEW w \in Views, Parts(w) \subseteq H, BuiltWithout(w, "stack")
        PROVE  Loading[w][c].column = c
    <2> DEFINE a == Answers(Loading, w)
    <2>1. Kind[w] # "stack" /\ \A i \in Indices(w) : BuiltWithout(Members[w][i], "stack")
        BY <1>1, WithoutIs
    <2>2. \A n \in Indices(w) : Loading[Members[w][n]][c].column = c
        BY <1>1, <2>1, PartsAre
    <2>3. /\ Loading[w][c] = LoadOf(w, a, c) /\ a \in [Indices(w) -> Reads]
          /\ \A n \in Indices(w) : a[n][c].column = c
          /\ FirstAnswers(w, a, c, FirstHit(w, a, c))
        BY <2>2, LoadAnswers
    <2> HIDE DEF a
    <2>4. CASE Kind[w] \in {"cache", "refreshing"}
        BY <2>3, <2>4 DEF LoadOf, Missed
    <2>5. CASE Kind[w] = "readonly"
        BY <2>3, <2>5, KindsAre DEF LoadOf
    <2>6. CASE Kind[w] = "filtered"
      <3>1. Loading[w][c] = Shown(a[1][c]) /\ a[1][c].column = c /\ a[1][c] \in Finds
          BY <2>3, <2>6, KindsAre DEF LoadOf, Reads
      <3> QED BY <3>1 DEF Shown, Finds
    <2>7. CASE Kind[w] = "pool"
        BY <2>3, <2>7 DEF LoadOf, FirstAnswers, Missed
    <2> QED BY <2>1, <2>4, <2>5, <2>6, <2>7, KindsAre
  <1>2. H = Views
    <2>1. H \subseteq Views /\ \A w \in Views : Parts(w) \subseteq H => w \in H
        BY <1>1
    <2> HIDE DEF H
    <2> QED BY <2>1, HoldsOfAll
  <1> QED BY <1>2

LEMMA ShownIs ==
    ASSUME NEW v \in Views, StacksShown(v)
    PROVE  /\ Kind[v] = "filtered" => BuiltWithout(v, "stack")
           /\ \A n \in Indices(v) : StacksShown(Members[v][n])
  <1>1. Below(v) = {v} \cup UNION {Below(Members[v][n]) : n \in Indices(v)}
      BY BelowIs
  <1> QED BY <1>1 DEF StacksShown

\* A load that misses copies nothing, unless a filter hides what a stack copied.
LEMMA MissesAreQuiet ==
    ASSUME NEW v \in Views, StacksShown(v), NEW c \in Columns
    PROVE  Loading[v][c].leaf = Nothing => Loading[v][c].column = c
  <1> DEFINE Silent(w) == Loading[w][c].leaf = Nothing => Loading[w][c].column = c
             H == {w \in Views : StacksShown(w) => Silent(w)}
  <1>1. ASSUME NEW w \in Views, Parts(w) \subseteq H, StacksShown(w)
        PROVE  Silent(w)
    <2> DEFINE a == Answers(Loading, w)
    <2>1. \A n \in Indices(w) : Silent(Members[w][n])
        BY <1>1, ShownIs, PartsAre
    <2>2. /\ Loading[w][c] = LoadOf(w, a, c) /\ a \in [Indices(w) -> Reads]
          /\ \A n \in Indices(w) : a[n][c].leaf = Nothing => a[n][c].column = c
          /\ FirstAnswers(w, a, c, FirstHit(w, a, c))
        BY <2>1, LoadAnswers
    <2> HIDE DEF a
    <2>3. CASE Kind[w] \in {"cache", "refreshing"}
        BY <2>2, <2>3 DEF LoadOf, Missed
    <2>4. CASE Kind[w] = "readonly"
        BY <2>2, <2>4, KindsAre DEF LoadOf
    <2>5. CASE Kind[w] = "filtered"
        BY <1>1, <2>5, ShownIs, NothingIsCopied
    <2>6. CASE Kind[w] = "pool"
        BY <2>2, <2>6 DEF LoadOf, FirstAnswers, Missed
    <2>7. CASE Kind[w] = "stack"
      <3> DEFINE b == FirstHit(w, a, c)
      <3>1. b.leaf = Nothing => b.column = c
          BY <2>2 DEF FirstAnswers, Missed
      <3>2. Loading[w][c] = CopiedDown(w, a, c)
          BY <2>2, <2>7 DEF LoadOf
      <3>3. CASE b.leaf = Nothing
          BY <3>1, <3>2, <3>3 DEF CopiedDown
      <3>4. CASE b.leaf # Nothing
        <4>1. Loading[w][c].leaf = b.leaf
            BY <2>2, <2>7, CopiedIsFound DEF Multi
        <4> QED BY <3>4, <4>1
      <3> QED BY <3>3, <3>4
    <2> QED BY <2>3, <2>4, <2>5, <2>6, <2>7, KindsAre
  <1>2. H = Views
    <2>1. H \subseteq Views /\ \A w \in Views : Parts(w) \subseteq H => w \in H
        BY <1>1
    <2> HIDE DEF H
    <2> QED BY <2>1, HoldsOfAll
  <1> QED BY <1>2

\* contains answers what load would do, where nothing is filtered.
LEMMA ContainsAgrees ==
    ASSUME NEW v \in Views, BuiltWithout(v, "filtered"), NEW c \in Columns
    PROVE  Containing(c)[v] <=> Loading[v][c].leaf # Nothing
  <1> DEFINE Agrees(w) == Containing(c)[w] <=> Loading[w][c].leaf # Nothing
             H == {w \in Views : BuiltWithout(w, "filtered") => Agrees(w)}
  <1>1. ASSUME NEW w \in Views, Parts(w) \subseteq H, BuiltWithout(w, "filtered")
        PROVE  Agrees(w)
    <2> DEFINE a == Answers(Loading, w)
               q == Answers(Containing(c), w)
    <2>1. Kind[w] # "filtered" /\ \A n \in Indices(w) : BuiltWithout(Members[w][n], "filtered")
        BY <1>1, WithoutIs
    <2>2. \A n \in Indices(w) : q[n] <=> Loading[Members[w][n]][c].leaf # Nothing
        BY <1>1, <2>1, PartsAre DEF Answers
    <2>3. \A n \in Indices(w) : Members[w][n] \in Views /\ StacksShown(Members[w][n])
        BY <2>1, PartsAre DEF BuiltWithout, StacksShown
    <2>4. /\ Loading[w][c] = LoadOf(w, a, c) /\ a \in [Indices(w) -> Reads]
          /\ \A n \in Indices(w) : a[n] = Loading[Members[w][n]]
          /\ FirstAnswers(w, a, c, FirstHit(w, a, c))
        BY <2>3, MissesAreQuiet, LoadAnswers
    <2>5. Containing(c)[w] = ContainsOf(w, q, c) /\ q \in [Indices(w) -> BOOLEAN]
        BY ContainingIs
    <2>6. \A n \in Indices(w) : q[n] <=> a[n][c].leaf # Nothing
        BY <2>2, <2>4
    <2> HIDE DEF a, q
    <2>7. CASE Kind[w] = "cache"
      <3>1. w # Nothing
          BY NoneIsApart
      <3>2. LoadOf(w, a, c).leaf = IF c[w] = Nothing THEN Nothing ELSE w
          BY <2>7 DEF LoadOf
      <3>3. ContainsOf(w, q, c) <=> c[w] # Nothing
          BY <2>7 DEF ContainsOf, Multi
      <3> QED BY <2>4, <2>5, <3>1, <3>2, <3>3
    <2>8. CASE Kind[w] = "readonly"
      <3>1. q[1] <=> a[1][c].leaf # Nothing
          BY <2>6, <2>8, KindsAre
      <3>2. ContainsOf(w, q, c) = q[1] /\ LoadOf(w, a, c) = a[1][c]
          BY <2>8 DEF LoadOf, ContainsOf, Multi
      <3> QED BY <2>4, <2>5, <3>1, <3>2
    <2>9. CASE Kind[w] = "refreshing"
        BY <2>4, <2>5, <2>9 DEF LoadOf, ContainsOf, Multi, Missed
    <2>10. CASE Kind[w] \in Multi
      <3>1. Loading[w][c].leaf = FirstHit(w, a, c).leaf
          BY <2>4, <2>10, CopiedIsFound
      <3>2. ContainsOf(w, q, c) <=> \E n \in Indices(w) : q[n]
          BY <2>10 DEF ContainsOf, Multi
      <3> QED BY <2>4, <2>5, <2>6, <3>1, <3>2 DEF FirstAnswers, Missed
    <2> QED BY <2>1, <2>7, <2>8, <2>9, <2>10, KindsAre DEF Multi
  <1>2. H = Views
    <2>1. H \subseteq Views /\ \A w \in Views : Parts(w) \subseteq H => w \in H
        BY <1>1
    <2> HIDE DEF H
    <2> QED BY <2>1, HoldsOfAll
  <1> QED BY <1>2

LEMMA ColumnIs ==
    ASSUME Filed, NEW k \in LookupKeys
    PROVE  Column(k) \in Columns /\ \A l \in Leaves : Column(k)[l] = records[l][k]
  BY DEF Filed, Column, Columns

\* A query returns what load returns, from the same leaves, where nothing refreshes.
LEMMA QueriesAgree ==
    ASSUME Filed, NEW v \in Views, BuiltWithout(v, "refreshing"), StacksShown(v), NEW e \in Answer
    PROVE  e \in Query(v) <=> Loads(v, e.key) = e.leaf
  <1> DEFINE k == e.key
             c == Column(k)
             Agrees(w) == \A d \in Answer : d.key = k => (d \in Query(w) <=> Loading[w][c].leaf = d.leaf)
             H == {w \in Views : BuiltWithout(w, "refreshing") /\ StacksShown(w) => Agrees(w)}
  <1>1. k \in LookupKeys
      BY DEF Answer
  <1> HIDE DEF k
  <1>2. c \in Columns /\ \A l \in Leaves : c[l] = records[l][k]
      BY <1>1, ColumnIs
  <1> HIDE DEF c
  <1>3. ASSUME NEW w \in Views, Parts(w) \subseteq H, BuiltWithout(w, "refreshing"), StacksShown(w),
               NEW d \in Answer, d.key = k
        PROVE  d \in Query(w) <=> Loading[w][c].leaf = d.leaf
    <2> DEFINE a == Answers(Loading, w)
               q == Answers(Queried, w)
    <2>1. /\ Kind[w] # "refreshing"
          /\ \A n \in Indices(w) : /\ Members[w][n] \in Views /\ Agrees(Members[w][n])
                                   /\ StacksShown(Members[w][n])
        BY <1>3, WithoutIs, ShownIs, PartsAre
    <2>2. d.leaf \in Leaves /\ d.leaf # Nothing
        BY NoneIsApart DEF Answer, Leaves
    <2>3. /\ Loading[w][c] = LoadOf(w, a, c) /\ a \in [Indices(w) -> Reads]
          /\ \A n \in Indices(w) : a[n] = Loading[Members[w][n]]
          /\ FirstAnswers(w, a, c, FirstHit(w, a, c))
        BY <1>2, <2>1, MissesAreQuiet, LoadAnswers
    <2>4. q \in [Indices(w) -> SUBSET Answer] /\ Query(w) = QueryOf(w, q)
        BY QueriedAre DEF Query
    <2>5. ASSUME NEW n \in Indices(w), NEW b \in Answer, b.key = k
          PROVE  b \in q[n] <=> a[n][c].leaf = b.leaf
      <3>1. q[n] = Query(Members[w][n]) /\ a[n] = Loading[Members[w][n]]
          BY <2>3 DEF Answers, Query
      <3> QED BY <2>1, <2>5, <3>1
    <2> HIDE DEF a, q
    <2>6. CASE Kind[w] = "cache"
      <3>1. Query(w) = {[key |-> j, leaf |-> w] : j \in {i \in LookupKeys : records[w][i] # Nothing}}
          BY <2>4, <2>6 DEF QueryOf, Multi
      <3>2. Loading[w][c].leaf = IF c[w] = Nothing THEN Nothing ELSE w
          BY <2>3, <2>6 DEF LoadOf, Multi
      <3>3. d = [key |-> d.key, leaf |-> d.leaf]
          BY DEF Answer
      <3>4. c[w] = records[w][k]
          BY <1>2, <2>6, KindsAre
      <3> QED BY <1>1, <1>3, <2>2, <3>1, <3>2, <3>3, <3>4
    <2>7. CASE Kind[w] = "readonly"
      <3>1. Query(w) = q[1] /\ Loading[w][c] = a[1][c]
          BY <2>3, <2>4, <2>7 DEF QueryOf, LoadOf, Multi
      <3> QED BY <1>3, <2>5, <2>7, <3>1, KindsAre
    <2>8. CASE Kind[w] = "filtered"
      <3>1. Query(w) = {b \in q[1] : records[b.leaf][b.key] \notin Hidden} /\ Loading[w][c] = Shown(a[1][c])
          BY <2>3, <2>4, <2>8 DEF QueryOf, LoadOf, Multi
      <3>2. d \in q[1] <=> a[1][c].leaf = d.leaf
          BY <1>3, <2>5, <2>8, KindsAre
      <3>3. a[1][c].column = c /\ a[1][c] \in Finds
        <4>1. BuiltWithout(w, "stack")
            BY <1>3, <2>8, ShownIs
        <4>2. 1 \in Indices(w) /\ BuiltWithout(Members[w][1], "stack")
            BY <2>8, <4>1, KindsAre, WithoutIs
        <4> QED BY <1>2, <2>1, <2>3, <4>2, NothingIsCopied DEF Reads
      <3>4. Loading[w][c].leaf = IF a[1][c].leaf # Nothing /\ c[a[1][c].leaf] \in Hidden
                                 THEN Nothing ELSE a[1][c].leaf
          BY <3>1, <3>3 DEF Shown, Finds
      <3>5. c[d.leaf] = records[d.leaf][d.key]
          BY <1>2, <1>3, <2>2
      <3> QED BY <2>2, <3>1, <3>2, <3>4, <3>5
    <2>9. CASE Kind[w] \in Multi
      <3> DEFINE found == FirstHit(w, a, c)
                 FoundBy(n) == a[n][c].leaf
      <3>1. Loading[w][c].leaf = found.leaf
          BY <1>2, <2>3, <2>9, CopiedIsFound
      <3>2. Query(w) = UNION {{b \in q[n] : \A m \in 1..(n - 1) : \A g \in q[m] : g.key # b.key} : n \in Indices(w)}
          BY <2>4, <2>9 DEF QueryOf, Multi
      <3>3. ASSUME NEW m \in Indices(w) PROVE (\A g \in q[m] : g.key # k) <=> FoundBy(m) = Nothing
        <4>1. ASSUME FoundBy(m) # Nothing PROVE \E g \in q[m] : g.key = k
          <5> DEFINE g == [key |-> k, leaf |-> FoundBy(m)]
          <5>1. FoundBy(m) \in Leaves
              BY <1>2, <2>3, <4>1 DEF Reads, Finds, Places
          <5>2. g \in Answer /\ g.key = k /\ g.leaf = FoundBy(m)
              BY <1>1, <5>1 DEF Answer
          <5> HIDE DEF g
          <5> QED BY <2>5, <5>2
        <4>2. ASSUME FoundBy(m) = Nothing, NEW g \in q[m], g.key = k PROVE FALSE
          <5>1. g \in Answer /\ g.leaf # Nothing
              BY <2>4, NoneIsApart DEF Answer, Leaves
          <5> QED BY <2>5, <4>2, <5>1
        <4> QED BY <4>1, <4>2
      <3>4. \A n \in Indices(w) : 1..(n - 1) = {m \in Indices(w) : m < n}
          BY PartsAre
      <3>5. d \in Query(w) <=> \E n \in Indices(w) : d \in q[n] /\ \A m \in Indices(w) : m < n => FoundBy(m) = Nothing
          BY <1>3, <3>2, <3>3, <3>4
      <3>6. d \in Query(w) <=> \E n \in Indices(w) : FoundBy(n) = d.leaf /\ \A m \in Indices(w) : m < n => FoundBy(m) = Nothing
          BY <1>3, <2>5, <3>5
      <3>7. \/ found.leaf = Nothing /\ \A n \in Indices(w) : FoundBy(n) = Nothing
            \/ \E f \in Indices(w) : /\ found.leaf = FoundBy(f) /\ FoundBy(f) # Nothing
                                     /\ \A n \in Indices(w) : n < f => FoundBy(n) = Nothing
          BY <2>3 DEF FirstAnswers, Missed
      <3> HIDE DEF found, FoundBy
      <3>8. Indices(w) \subseteq Nat
          BY PartsAre
      <3>9. CASE \A n \in Indices(w) : FoundBy(n) = Nothing
          BY <2>2, <3>1, <3>6, <3>7, <3>9
      <3>10. ASSUME NEW f \in Indices(w), found.leaf = FoundBy(f), FoundBy(f) # Nothing,
                    \A n \in Indices(w) : n < f => FoundBy(n) = Nothing
             PROVE  d \in Query(w) <=> Loading[w][c].leaf = d.leaf
        <4>1. ASSUME NEW n \in Indices(w), FoundBy(n) # Nothing, \A m \in Indices(w) : m < n => FoundBy(m) = Nothing
              PROVE  n = f
            BY <3>8, <3>10, <4>1
        <4> QED BY <2>2, <3>1, <3>6, <3>10, <4>1
      <3> QED BY <3>7, <3>9, <3>10
    <2> QED BY <2>1, <2>6, <2>7, <2>8, <2>9, KindsAre DEF Multi
  <1>4. H = Views
    <2>1. H \subseteq Views /\ \A w \in Views : Parts(w) \subseteq H => w \in H
        BY <1>3
    <2> HIDE DEF H
    <2> QED BY <2>1, HoldsOfAll
  <1>5. Agrees(v)
      BY <1>4
  <1> QED BY <1>5 DEF k, c, Loads, Found

\* Who is called read-only rejects.
LEMMA ReadOnlyRejects ==
    ASSUME NEW v \in Views, ReadOnly(v)
    PROVE  Target(v) = Nothing /\ (Kind[v] # "stack" => Evicts(v) = {})
  <1> DEFINE H == {w \in Views : ReadOnly(w) => Target(w) = Nothing}
  <1>1. ASSUME NEW w \in Views, Parts(w) \subseteq H, ReadOnly(w) PROVE Target(w) = Nothing
    <2>1. ReadOnlyOf(w, Answers(Refusing, w)) /\ Target(w) = TargetOf(w, Answers(Targets, w))
        BY <1>1, RefusingIs, TargetsAre DEF ReadOnly, Target
    <2>2. CASE Kind[w] \in ReadOnlyKinds
        BY <2>1, <2>2 DEF TargetOf, ReadOnlyKinds
    <2>3. CASE Kind[w] = "stack" /\ Answers(Refusing, w)[1]
      <3>1. 1 \in Indices(w) /\ Members[w][1] \in Parts(w)
          BY <2>3, KindsAre, PartsAre
      <3>2. ReadOnly(Members[w][1]) /\ Target(w) = Target(Members[w][1])
          BY <2>1, <2>3, <3>1 DEF TargetOf, Answers, ReadOnly, Target, ReadOnlyKinds
      <3> QED BY <1>1, <3>1, <3>2
    <2> QED BY <2>1, <2>2, <2>3 DEF ReadOnlyOf
  <1>2. H = Views
    <2>1. H \subseteq Views /\ \A w \in Views : Parts(w) \subseteq H => w \in H
        BY <1>1
    <2> HIDE DEF H
    <2> QED BY <2>1, HoldsOfAll
  <1>3. ASSUME Kind[v] # "stack" PROVE Evicts(v) = {}
    <2>1. Kind[v] \in ReadOnlyKinds
        BY <1>3, RefusingIs DEF ReadOnly, ReadOnlyOf
    <2> QED BY <2>1, EvictingIs DEF Evicts, EvictsOf, ReadOnlyKinds
  <1> QED BY <1>2, <1>3

-----------------------------------------------------------------------------
(* The steps.                                                               *)

\* No operation writes what is not a record, whatever the tree.
THEOREM ViewsTypeCorrect == ViewsSpec => []ViewsTypeOK
  <1>1. ASSUME ViewsInit PROVE ViewsTypeOK
      BY <1>1 DEF ViewsInit, ViewsTypeOK
  <1>2. ASSUME ViewsTypeOK, [ViewsNext]_viewsVars PROVE ViewsTypeOK'
    <2> USE <1>2
    <2>1. Filed
        BY DEF ViewsTypeOK, Filed
    <2>2. ASSUME NEW l \in Leaves, NEW k \in LookupKeys, NEW r \in Results \cup {Nothing}, FileIn(l, k, r)
          PROVE  Filed'
        BY <2>1, <2>2 DEF FileIn, Filed
    <2>3. ASSUME NEW o \in ViewOps \ {"save", "load"}, NEW v \in Views, NEW k \in LookupKeys, NEW x,
                 Did(o, v, k, x), Filed'
          PROVE  ViewsTypeOK'
        BY <2>3 DEF Did, ViewOps, ViewsTypeOK, Filed
    <2>4. ASSUME NEW v \in Views, Save(v) PROVE ViewsTypeOK'
      <3>1. PICK k \in LookupKeys, r \in Results :
                /\ IF Target(v) = Nothing THEN UNCHANGED records ELSE FileIn(Target(v), k, r)
                /\ Did("save", v, k, Target(v))
          BY <2>4 DEF Save
      <3>2. Target(v) \in Places
          BY TargetsAre DEF Target
      <3>3. Filed'
        <4>1. CASE Target(v) = Nothing
            BY <2>1, <3>1, <4>1 DEF Filed
        <4>2. CASE Target(v) # Nothing
            BY <2>2, <3>1, <3>2, <4>2 DEF Places
        <4> QED BY <4>1, <4>2
      <3> QED BY <3>1, <3>2, <3>3 DEF Did, ViewOps, ViewsTypeOK, Filed, Places
    <2>5. ASSUME NEW v \in Views, Load(v) PROVE ViewsTypeOK'
      <3>1. PICK k \in LookupKeys :
                /\ records' = [l \in Leaves |-> [records[l] EXCEPT ![k] = Found(v, k).column[l]]]
                /\ Did("load", v, k, IF Found(v, k).leaf = Nothing THEN Nothing
                                     ELSE Found(v, k).column[Found(v, k).leaf])
          BY <2>5 DEF Load
      <3> DEFINE found == Found(v, k)
      <3>2. found \in Finds
        <4>1. Loading[v] \in Reads /\ Column(k) \in Columns
            BY <2>1, LoadingIs, ColumnIs
        <4> QED BY <4>1 DEF Found, Reads
      <3> HIDE DEF found
      <3>3. /\ \A l \in Leaves : found.column[l] \in Results \cup {Nothing}
            /\ found.leaf # Nothing => found.column[found.leaf] \in Results \cup {Nothing}
          BY <3>2 DEF Finds, Columns, Places
      <3>4. Filed'
          BY <2>1, <3>1, <3>3 DEF Filed, found
      <3>5. did' = [op |-> "load", via |-> v, key |-> k,
                    answer |-> IF found.leaf = Nothing THEN Nothing ELSE found.column[found.leaf]]
          BY <3>1 DEF Did, found
      <3> QED BY <3>3, <3>4, <3>5 DEF ViewOps, ViewsTypeOK, Filed
    <2>6. ASSUME NEW v \in Views, Evict(v) PROVE ViewsTypeOK'
      <3>1. PICK k \in LookupKeys :
                /\ records' = [l \in Leaves |->
                       IF l \in Evicts(v) THEN [records[l] EXCEPT ![k] = Nothing] ELSE records[l]]
                /\ Did("evict", v, k, Nothing)
          BY <2>6 DEF Evict
      <3>2. Filed'
          BY <2>1, <3>1 DEF Filed
      <3> QED BY <2>3, <3>1, <3>2 DEF ViewOps
    <2>7. ASSUME NEW v \in Views, QueryEvict(v) PROVE ViewsTypeOK'
      <3>1. PICK c \in Query(v) : FileIn(c.leaf, c.key, Nothing) /\ Did("query_evict", v, c.key, c.leaf)
          BY <2>7 DEF QueryEvict
      <3>2. c.leaf \in Leaves /\ c.key \in LookupKeys
          BY QueriedAre DEF Query, Answer
      <3>3. Filed'
          BY <2>2, <3>1, <3>2
      <3> QED BY <2>3, <3>1, <3>2, <3>3 DEF ViewOps
    <2>8. ASSUME NEW v \in Views, NEW to \in Views, Transfer(v, to) PROVE ViewsTypeOK'
      <3>1. PICK c \in Query(v), pop \in BOOLEAN :
                /\ LET put == [records EXCEPT ![Target(to)][c.key] = records[c.leaf][c.key]]
                   IN  records' \in {records, put, [put EXCEPT ![c.leaf][c.key] = Nothing]}
                /\ Target(to) = Nothing => records' = records
                /\ Did("transfer", v, c.key, to)
          BY <2>8 DEF Transfer
      <3>2. c.leaf \in Leaves /\ c.key \in LookupKeys /\ Target(to) \in Places
          BY QueriedAre, TargetsAre DEF Query, Answer, Target
      <3>3. Filed'
        <4> DEFINE put == [records EXCEPT ![Target(to)][c.key] = records[c.leaf][c.key]]
        <4>1. ASSUME Target(to) # Nothing PROVE put \in [Leaves -> [LookupKeys -> Results \cup {Nothing}]]
            BY <2>1, <3>2, <4>1 DEF Filed, Places
        <4>2. records' \in {records, put, [put EXCEPT ![c.leaf][c.key] = Nothing]}
            BY <3>1
        <4> HIDE DEF put
        <4>3. ASSUME NEW f \in [Leaves -> [LookupKeys -> Results \cup {Nothing}]]
              PROVE  [f EXCEPT ![c.leaf][c.key] = Nothing] \in [Leaves -> [LookupKeys -> Results \cup {Nothing}]]
            BY <3>2
        <4>4. CASE Target(to) = Nothing
            BY <2>1, <3>1, <4>4 DEF Filed
        <4>5. CASE Target(to) # Nothing
          <5>1. [put EXCEPT ![c.leaf][c.key] = Nothing] \in [Leaves -> [LookupKeys -> Results \cup {Nothing}]]
              BY <4>1, <4>3, <4>5
          <5> QED BY <2>1, <4>1, <4>2, <4>5, <5>1 DEF Filed
        <4> QED BY <4>4, <4>5
      <3> QED BY <2>3, <3>1, <3>2, <3>3 DEF ViewOps
    <2>9. CASE UNCHANGED viewsVars
        BY <2>9 DEF viewsVars, ViewsTypeOK
    <2> QED BY <2>4, <2>5, <2>6, <2>7, <2>8, <2>9 DEF ViewsNext
  <1> QED BY <1>1, <1>2, PTL DEF ViewsSpec

\* Whatever tree of caches a program builds, and whatever records its leaves hold:
\* contains, load and query of a view agree (BaseCache, caches.py 80-96), and a
\* cache that a server calls read-only (remote.py, _is_read_only) files nothing.
THEOREM ViewsTellTheSame == ViewsSpec => []ViewsAgree
  <1>1. ASSUME ViewsTypeOK PROVE ViewsAgree
    <2>1. Filed
        BY <1>1 DEF ViewsTypeOK, Filed
    <2>2. ASSUME NEW v \in Views, BuiltWithout(v, "filtered"), NEW k \in LookupKeys
          PROVE  ContainsKey(v, k) <=> Loads(v, k) # Nothing
        BY <2>1, <2>2, ColumnIs, ContainsAgrees DEF ContainsKey, Loads, Found
    <2>3. ASSUME NEW v \in Views, BuiltWithout(v, "refreshing"), StacksShown(v)
          PROVE  Query(v) = {[key |-> k, leaf |-> Loads(v, k)] :
                                k \in {j \in LookupKeys : Loads(v, j) # Nothing}}
      <3>1. Query(v) \subseteq Answer
          BY QueriedAre DEF Query
      <3>2. \A e \in Answer : e \in Query(v) <=> Loads(v, e.key) = e.leaf
          BY <2>1, <2>3, QueriesAgree
      <3>3. \A k \in LookupKeys : Loads(v, k) \in Places
        <4>1. \A k \in LookupKeys : Column(k) \in Columns
            BY <2>1, ColumnIs
        <4> QED BY <4>1, LoadingIs DEF Loads, Found, Reads, Finds
      <3>4. \A k \in LookupKeys, l \in Leaves :
                [key |-> k, leaf |-> l] \in Answer /\ [key |-> k, leaf |-> l].key = k /\ [key |-> k, leaf |-> l].leaf = l
          BY DEF Answer
      <3>5. \A e \in Answer : e.key \in LookupKeys /\ e.leaf \in Leaves /\ e.leaf # Nothing
                              /\ e = [key |-> e.key, leaf |-> e.leaf]
          BY NoneIsApart DEF Answer, Leaves
      <3> QED BY <3>1, <3>2, <3>3, <3>4, <3>5 DEF Places
    <2>4. ASSUME NEW v \in Views, ReadOnly(v) PROVE Target(v) = Nothing /\ (Kind[v] # "stack" => Evicts(v) = {})
        BY <2>4, ReadOnlyRejects
    <2> QED BY <2>2, <2>3, <2>4 DEF ViewsAgree
  <1> QED BY <1>1, ViewsTypeCorrect, PTL

\* Whatever the tree: what is read through a read-only view stays as it is
\* (ReadOnlyMixin, caches.py 559-584; CachePool, 899-933), but for what a stack
\* below it copies down, and no transfer loses a record (QueryIterator.transfer,
\* query.py 192-223), although it files and pops past the views.
THEOREM RecordsChangeOnlyAsAsked == ViewsSpec => RecordsChangeAsAsked
  <1> DEFINE Stay == /\ did'.op \in {"save", "load", "evict"} /\ Kind[did'.via] \in ReadOnlyKinds
                        /\ (did'.op = "load" => BuiltWithout(did'.via, "stack"))
                        => UNCHANGED records
             Moved == did'.op = "transfer" =>
                        \A l \in Leaves : records[l][did'.key] # Nothing /\ records'[l][did'.key] # records[l][did'.key] =>
                            \/ l = Target(did'.answer)
                            \/ /\ Target(did'.answer) # Nothing
                               /\ records'[Target(did'.answer)][did'.key] = records[l][did'.key]
  <1>1. ASSUME ViewsTypeOK, ViewsNext PROVE Stay /\ Moved
    <2> USE <1>1
    <2>1. Filed
        BY DEF ViewsTypeOK, Filed
    <2>2. ASSUME NEW o, NEW v, NEW k, NEW x, Did(o, v, k, x)
          PROVE  did'.op = o /\ did'.via = v /\ did'.key = k /\ did'.answer = x
        BY <2>2 DEF Did
    <2>3. ASSUME NEW v \in Views, Save(v) PROVE Stay /\ Moved
      <3>1. PICK k \in LookupKeys, r \in Results :
                /\ IF Target(v) = Nothing THEN UNCHANGED records ELSE FileIn(Target(v), k, r)
                /\ Did("save", v, k, Target(v))
          BY <2>3 DEF Save
      <3>2. did'.op = "save" /\ did'.via = v
          BY <2>2, <3>1
      <3>3. Kind[v] \in ReadOnlyKinds => Target(v) = Nothing
          BY TargetsAre DEF Target, TargetOf, ReadOnlyKinds
      <3> QED BY <3>1, <3>2, <3>3
    <2>4. ASSUME NEW v \in Views, Load(v) PROVE Stay /\ Moved
      <3>1. PICK k \in LookupKeys :
                /\ records' = [l \in Leaves |-> [records[l] EXCEPT ![k] = Found(v, k).column[l]]]
                /\ Did("load", v, k, IF Found(v, k).leaf = Nothing THEN Nothing
                                     ELSE Found(v, k).column[Found(v, k).leaf])
          BY <2>4 DEF Load
      <3>2. did'.op = "load" /\ did'.via = v
          BY <2>2, <3>1
      <3>3. ASSUME BuiltWithout(v, "stack") PROVE UNCHANGED records
        <4>1. \A l \in Leaves : Found(v, k).column[l] = records[l][k]
            BY <2>1, <3>3, ColumnIs, NothingIsCopied DEF Found
        <4> QED BY <2>1, <3>1, <4>1 DEF Filed
      <3> QED BY <3>2, <3>3
    <2>5. ASSUME NEW v \in Views, Evict(v) PROVE Stay /\ Moved
      <3>1. PICK k \in LookupKeys :
                /\ records' = [l \in Leaves |->
                       IF l \in Evicts(v) THEN [records[l] EXCEPT ![k] = Nothing] ELSE records[l]]
                /\ Did("evict", v, k, Nothing)
          BY <2>5 DEF Evict
      <3>2. did'.op = "evict" /\ did'.via = v
          BY <2>2, <3>1
      <3>3. Kind[v] \in ReadOnlyKinds => Evicts(v) = {}
          BY EvictingIs DEF Evicts, EvictsOf, ReadOnlyKinds
      <3> QED BY <2>1, <3>1, <3>2, <3>3 DEF Filed
    <2>6. ASSUME NEW v \in Views, QueryEvict(v) PROVE Stay /\ Moved
      <3>1. did'.op = "query_evict"
          BY <2>2, <2>6 DEF QueryEvict
      <3> QED BY <3>1
    <2>7. ASSUME NEW v \in Views, NEW to \in Views, Transfer(v, to) PROVE Stay /\ Moved
      <3> DEFINE T == Target(to)
      <3>1. PICK c \in Query(v), pop \in BOOLEAN :
                /\ LET put == [records EXCEPT ![T][c.key] = records[c.leaf][c.key]]
                   IN  records' \in {records, put, [put EXCEPT ![c.leaf][c.key] = Nothing]}
                /\ T = Nothing => records' = records
                /\ Did("transfer", v, c.key, to)
          BY <2>7 DEF Transfer
      <3>2. did'.op = "transfer" /\ did'.key = c.key /\ did'.answer = to
          BY <2>2, <3>1
      <3>3. c.leaf \in Leaves /\ c.key \in LookupKeys /\ T \in Places
          BY QueriedAre, TargetsAre DEF Query, Answer, Target
      <3> HIDE DEF T
      <3>4. ASSUME NEW l \in Leaves, records'[l][c.key] # records[l][c.key]
            PROVE  l = T \/ (T # Nothing /\ records'[T][c.key] = records[l][c.key])
        <4> DEFINE put == [records EXCEPT ![T][c.key] = records[c.leaf][c.key]]
        <4>1. T # Nothing /\ T \in Leaves
            BY <3>1, <3>3, <3>4 DEF Places
        <4>2. /\ put \in [Leaves -> [LookupKeys -> Results \cup {Nothing}]]
              /\ put[T][c.key] = records[c.leaf][c.key]
              /\ l # T => put[l] = records[l]
            BY <2>1, <3>3, <4>1 DEF Filed
        <4>3. records' \in {records, put, [put EXCEPT ![c.leaf][c.key] = Nothing]}
            BY <3>1
        <4> HIDE DEF put
        <4>4. CASE l # T
          <5>1. records' = [put EXCEPT ![c.leaf][c.key] = Nothing]
              BY <3>4, <4>2, <4>3, <4>4
          <5>2. l = c.leaf
              BY <3>3, <3>4, <4>2, <4>4, <5>1
          <5>3. records'[T] = put[T]
              BY <3>3, <4>1, <4>2, <4>4, <5>1, <5>2
          <5> QED BY <4>1, <4>2, <5>2, <5>3
        <4> QED BY <4>4
      <3> QED BY <3>2, <3>4 DEF T
    <2> QED BY <2>3, <2>4, <2>5, <2>6, <2>7 DEF ViewsNext
  <1>2. ASSUME ViewsTypeOK, [ViewsNext]_viewsVars PROVE [Stay /\ Moved]_viewsVars
      BY <1>1, <1>2
  <1> QED BY <1>2, ViewsTypeCorrect, PTL DEF ViewsSpec, RecordsChangeAsAsked

-----------------------------------------------------------------------------
(* StackRaces.                                                              *)

CONSTANTS MaxVersion, Foreign

VARIABLES base, upper, lock, races_pc, lc, newest, seen, forgotten

Races == INSTANCE StackRaces WITH pc <- races_pc

\* The names of StackRaces stand for different things.
NamesAreApart ==
    /\ None \notin Threads \cup Nat
    /\ MaxVersion \in Nat \ {0}
    /\ Foreign \in Races!Versions \cup {None}

\* A thread that copies found the base cache empty, and its lock keeps it so.
CopyMeetsNone == \A t \in Threads : races_pc[t] = "copy" => base = None

RacesIInv == Races!TypeOK /\ CopyMeetsNone

\* Nobody is inside the base cache's context at the start.
LEMMA InitRacesIInv == NamesAreApart /\ Races!Init => RacesIInv
  BY DEF NamesAreApart, Races!Init, RacesIInv, Races!TypeOK, CopyMeetsNone, Races!Versions

\* The context admits one thread, and only that thread writes a record.
LEMMA StepKeepsRacesIInv ==
    ASSUME NamesAreApart, RacesIInv, NEW t \in Threads,
           \/ Races!LoadBase(t) \/ Races!BeginTransfer(t) \/ Races!Save(t)
           \/ Races!EvictBase(t) \/ Races!Step(t)
    PROVE  RacesIInv'
  <1> USE DEF NamesAreApart, RacesIInv, Races!TypeOK, CopyMeetsNone, Races!Goto,
              Races!Free, Races!Versions
  <1>1. CASE Races!LoadBase(t)      BY <1>1 DEF Races!LoadBase
  <1>2. CASE Races!LoadUpper(t)     BY <1>2 DEF Races!LoadUpper
  <1>3. CASE Races!BeginTransfer(t) BY <1>3 DEF Races!BeginTransfer
  <1>4. CASE Races!Enter(t)         BY <1>4 DEF Races!Enter
  <1>5. CASE Races!Copy(t)          BY <1>5 DEF Races!Copy
  <1>6. CASE Races!CopyRejected(t)  BY <1>6 DEF Races!CopyRejected
  <1>7. CASE Races!Save(t)          BY <1>7 DEF Races!Save
  <1>8. CASE Races!EvictBase(t)     BY <1>8 DEF Races!EvictBase
  <1>9. CASE Races!EvictUpper(t)    BY <1>9 DEF Races!EvictUpper
  <1> QED BY <1>1, <1>2, <1>3, <1>4, <1>5, <1>6, <1>7, <1>8, <1>9 DEF Races!Step

LEMMA RacesInvariance ==
    ASSUME NamesAreApart
    PROVE  Races!Spec => []RacesIInv
  <1>1. Races!Init => RacesIInv
      BY InitRacesIInv
  <1>2. RacesIInv /\ [Races!Next]_(Races!vars) => RacesIInv'
    <2> SUFFICES ASSUME RacesIInv, [Races!Next]_(Races!vars) PROVE RacesIInv'
        OBVIOUS
    <2>1. CASE Races!Next
        BY <2>1, StepKeepsRacesIInv DEF Races!Next
    <2>2. CASE UNCHANGED Races!vars
        BY <2>2 DEF Races!vars, RacesIInv, Races!TypeOK, CopyMeetsNone
    <2> QED BY <2>1, <2>2
  <1> QED BY <1>1, <1>2, PTL DEF Races!Spec

\* The base cache's context is entered just while a record is copied, and all
\* variables have their types (caches.py 868-884).
THEOREM RacesTypeCorrect ==
    ASSUME NamesAreApart
    PROVE  Races!Spec => []Races!TypeOK
  BY RacesInvariance, PTL DEF RacesIInv

\* However loads, transfers, saves and evictions interleave, a record that is
\* copied into the base cache replaces none (caches.py 868-884).
THEOREM NothingIsReplaced ==
    ASSUME NamesAreApart
    PROVE  Races!Spec => Races!CopiesReplaceNothing
  <1>1. RacesIInv /\ [Races!Next]_(Races!vars) =>
            [\A t \in Threads : Races!Copy(t) => base = None]_(Races!vars)
      BY DEF RacesIInv, CopyMeetsNone, Races!Copy
  <1> QED BY RacesInvariance, <1>1, PTL DEF Races!Spec, Races!CopiesReplaceNothing

-----------------------------------------------------------------------------
(* Queries.  The records on their way are followed through the stages; what  *)
(* stages mean is defined by recursion along sequences, and is unfolded by    *)
(* induction on their length.                                               *)

\* Induction, for sets of numbers and of sequences.
LEMMA NumberInduction ==
    ASSUME NEW S, 0 \in S, \A n \in Nat : n \in S => n + 1 \in S
    PROVE  Nat \subseteq S
  <1> SUFFICES ASSUME Nat \ S # {} PROVE FALSE
      OBVIOUS
  <1>1. PICK x \in Nat \ S : \A y \in Nat \ S : <<y, x>> \notin OpToRel(<, Nat)
      BY WFMin, NatLessThanWellFounded
  <1>2. \A y \in Nat \ S : ~(y < x)
      BY <1>1 DEF OpToRel
  <1>3. x # 0 /\ x - 1 \in Nat /\ x - 1 \notin Nat \ S
      BY <1>2
  <1> QED BY <1>3

LEMMA SequenceInduction ==
    ASSUME NEW T, NEW P, <<>> \in P, \A s \in Seq(T), e \in T : s \in P => Append(s, e) \in P
    PROVE  Seq(T) \subseteq P
  <1> DEFINE N == {n \in Nat : \A s \in Seq(T) : Len(s) = n => s \in P}
  <1>1. 0 \in N
      BY EmptySeq
  <1>2. ASSUME NEW n \in Nat, n \in N PROVE n + 1 \in N
    <2>1. ASSUME NEW s \in Seq(T), Len(s) = n + 1 PROVE s \in P
      <3>1. s # <<>>
          BY <2>1
      <3>2. PICK r \in Seq(T), e \in T : s = Append(r, e)
          BY <3>1, SequenceEmptyOrAppend
      <3>3. Len(r) = n
          BY <2>1, <3>2
      <3> QED BY <1>2, <3>2, <3>3
    <2> QED BY <2>1
  <1> HIDE DEF N
  <1>3. Nat \subseteq N
      BY <1>1, <1>2, NumberInduction
  <1> QED BY <1>3 DEF N

-----------------------------------------------------------------------------
\* Kept: its recursion, and what it does with one more member.
KeepsTo(f, s, S, n) ==
    f = [i \in 0 .. n |->
            IF i = 0 THEN <<>> ELSE IF s[i] \in S THEN Append(f[i - 1], s[i]) ELSE f[i - 1]]

LEMMA KeepingGoesOn ==
    ASSUME NEW s, NEW S, NEW n \in Nat
    PROVE  \E f : KeepsTo(f, s, S, n)
  <1> DEFINE N == {m \in Nat : \E f : KeepsTo(f, s, S, m)}
  <1>1. 0 \in N
    <2>1. KeepsTo([i \in 0 .. 0 |-> <<>>], s, S, 0)
        BY DEF KeepsTo
    <2> QED BY <2>1
  <1>2. ASSUME NEW m \in Nat, m \in N PROVE m + 1 \in N
    <2>1. PICK f : KeepsTo(f, s, S, m)
        BY <1>2
    <2> DEFINE last == IF s[m + 1] \in S THEN Append(f[m], s[m + 1]) ELSE f[m]
               g == [i \in 0 .. m + 1 |-> IF i = m + 1 THEN last ELSE f[i]]
    <2>2. KeepsTo(g, s, S, m + 1)
      <3>1. \A i \in 0 .. m : f[i] =
               IF i = 0 THEN <<>> ELSE IF s[i] \in S THEN Append(f[i - 1], s[i]) ELSE f[i - 1]
          BY <2>1 DEF KeepsTo
      <3>2. \A i \in 0 .. m + 1 : g[i] =
               IF i = 0 THEN <<>> ELSE IF s[i] \in S THEN Append(g[i - 1], s[i]) ELSE g[i - 1]
          BY <3>1
      <3> HIDE DEF last
      <3> QED BY <3>2 DEF KeepsTo
    <2> QED BY <2>2
  <1> HIDE DEF N
  <1>3. Nat \subseteq N
      BY <1>1, <1>2, NumberInduction
  <1> QED BY <1>3 DEF N

LEMMA KeptIs ==
    ASSUME NEW T, NEW s \in Seq(T), NEW S
    PROVE  \E f : KeepsTo(f, s, S, Len(s)) /\ Kept(s, S) = f[Len(s)]
  <1> DEFINE f == CHOOSE f : f = [i \in 0 .. Len(s) |->
            IF i = 0 THEN <<>> ELSE IF s[i] \in S THEN Append(f[i - 1], s[i]) ELSE f[i - 1]]
  <1>1. Kept(s, S) = f[Len(s)]
      BY DEF Kept
  <1>2. \E g : KeepsTo(g, s, S, Len(s))
    <2>1. Len(s) \in Nat
        OBVIOUS
    <2> QED BY <2>1, KeepingGoesOn
  <1>3. KeepsTo(f, s, S, Len(s))
      BY <1>2 DEF KeepsTo
  <1> QED BY <1>1, <1>3

LEMMA KeptOfNone == ASSUME NEW S PROVE Kept(<<>>, S) = <<>>
  <1>1. <<>> \in Seq({}) /\ Len(<<>>) = 0
      OBVIOUS
  <1>2. PICK f : KeepsTo(f, <<>>, S, 0) /\ Kept(<<>>, S) = f[0]
      BY <1>1, KeptIs
  <1> QED BY <1>2 DEF KeepsTo

LEMMA KeptOneMore ==
    ASSUME NEW T, NEW s \in Seq(T), NEW e \in T, NEW S
    PROVE  Kept(Append(s, e), S) = IF e \in S THEN Append(Kept(s, S), e) ELSE Kept(s, S)
  <1> DEFINE n == Len(s)
             t == Append(s, e)
  <1>1. n \in Nat /\ t \in Seq(T) /\ Len(t) = n + 1 /\ t[n + 1] = e /\ \A i \in 1 .. n : t[i] = s[i]
      OBVIOUS
  <1>2. PICK f : KeepsTo(f, s, S, n) /\ Kept(s, S) = f[n]
      BY KeptIs
  <1>3. PICK g : KeepsTo(g, t, S, n + 1) /\ Kept(t, S) = g[n + 1]
      BY <1>1, KeptIs
  <1> HIDE DEF n, t
  <1> DEFINE N == {i \in Nat : i <= n => f[i] = g[i]}
  <1>4. 0 \in N
      BY <1>1, <1>2, <1>3 DEF KeepsTo
  <1>5. ASSUME NEW i \in Nat, i \in N PROVE i + 1 \in N
    <2>1. CASE i + 1 <= n
      <3>1. f[i] = g[i] /\ s[i + 1] = t[i + 1] /\ i + 1 \in 0 .. n /\ i + 1 \in 0 .. n + 1 /\ (i + 1) - 1 = i /\ i + 1 # 0
          BY <1>1, <1>5, <2>1
      <3>2. f[i + 1] = IF s[i + 1] \in S THEN Append(f[i], s[i + 1]) ELSE f[i]
          BY <1>2, <3>1 DEF KeepsTo
      <3>3. g[i + 1] = IF t[i + 1] \in S THEN Append(g[i], t[i + 1]) ELSE g[i]
          BY <1>3, <3>1 DEF KeepsTo
      <3> QED BY <3>1, <3>2, <3>3
    <2> QED BY <2>1
  <1> HIDE DEF N
  <1>6. Nat \subseteq N
      BY <1>4, <1>5, NumberInduction
  <1>7. f[n] = g[n]
      BY <1>1, <1>6 DEF N
  <1>8. n + 1 \in 0 .. n + 1 /\ n + 1 # 0 /\ (n + 1) - 1 = n
      BY <1>1
  <1>9. g[n + 1] = IF t[n + 1] \in S THEN Append(g[n], t[n + 1]) ELSE g[n]
      BY <1>3, <1>8 DEF KeepsTo
  <1> QED BY <1>1, <1>2, <1>3, <1>7, <1>9 DEF t

-----------------------------------------------------------------------------
\* Sequences whose members have each key once.
Distinct(s) == \A i, j \in DOMAIN s : s[i].key = s[j].key => i = j

\* A sequence with one more member.
LEMMA RangeOneMore ==
    ASSUME NEW T, NEW s \in Seq(T), NEW e \in T
    PROVE  /\ Append(s, e) \in Seq(T)
           /\ Range(Append(s, e)) = Range(s) \cup {e}
           /\ KeysOf(Append(s, e)) = KeysOf(s) \cup {e.key}
           /\ Distinct(Append(s, e)) <=> Distinct(s) /\ e.key \notin KeysOf(s)
  <1> DEFINE t == Append(s, e)
             n == Len(s)
  <1>1. /\ n \in Nat /\ t \in Seq(T) /\ DOMAIN t = 1 .. n + 1 /\ DOMAIN s = 1 .. n
        /\ t[n + 1] = e /\ \A i \in 1 .. n : t[i] = s[i]
      OBVIOUS
  <1> HIDE DEF t, n
  <1>2. 1 .. n + 1 = 1 .. n \cup {n + 1} /\ n + 1 \notin 1 .. n
      BY <1>1
  <1>3. Range(t) = Range(s) \cup {e}
      BY <1>1, <1>2 DEF Range
  <1>4. KeysOf(t) = KeysOf(s) \cup {e.key}
      BY <1>3 DEF KeysOf
  <1>5. ASSUME Distinct(t) PROVE Distinct(s) /\ e.key \notin KeysOf(s)
    <2>1. Distinct(s)
        BY <1>1, <1>2, <1>5 DEF Distinct
    <2>2. ASSUME NEW i \in 1 .. n, s[i].key = e.key PROVE FALSE
        BY <1>1, <1>2, <1>5, <2>2 DEF Distinct
    <2> QED BY <1>1, <2>1, <2>2 DEF KeysOf, Range
  <1>6. ASSUME Distinct(s), e.key \notin KeysOf(s) PROVE Distinct(t)
    <2>1. \A i \in 1 .. n : s[i].key # e.key
        BY <1>1, <1>6 DEF KeysOf, Range
    <2> QED BY <1>1, <1>2, <1>6, <2>1 DEF Distinct
  <1> QED BY <1>1, <1>3, <1>4, <1>5, <1>6 DEF t

LEMMA EmptyIsDistinct == Range(<<>>) = {} /\ KeysOf(<<>>) = {} /\ Distinct(<<>>)
  BY DEF Range, KeysOf, Distinct

LEMMA RangeIn == ASSUME NEW T, NEW s \in Seq(T) PROVE Range(s) \subseteq T
  BY DEF Range

\* What Kept keeps: the members in S; it keeps keys apart.
LEMMA KeptKeeps ==
    ASSUME NEW T, NEW s \in Seq(T), NEW S
    PROVE  /\ Kept(s, S) \in Seq(T)
           /\ Range(Kept(s, S)) = Range(s) \cap S
           /\ Distinct(s) => Distinct(Kept(s, S))
  <1> DEFINE P == {r \in Seq(T) : /\ Kept(r, S) \in Seq(T)
                                  /\ Range(Kept(r, S)) = Range(r) \cap S
                                  /\ Distinct(r) => Distinct(Kept(r, S))}
  <1>1. <<>> \in P
    <2>1. <<>> \in Seq(T)
        OBVIOUS
    <2> QED BY <2>1, KeptOfNone, EmptyIsDistinct
  <1>2. ASSUME NEW r \in Seq(T), NEW e \in T, r \in P PROVE Append(r, e) \in P
    <2> DEFINE k == Kept(r, S)
    <2>1. k \in Seq(T) /\ Range(k) = Range(r) \cap S /\ (Distinct(r) => Distinct(k))
        BY <1>2
    <2>2. KeysOf(k) \subseteq KeysOf(r)
        BY <2>1 DEF KeysOf
    <2>3. Kept(Append(r, e), S) = IF e \in S THEN Append(k, e) ELSE k
        BY KeptOneMore
    <2> HIDE DEF k
    <2>4. Append(r, e) \in Seq(T) /\ Range(Append(r, e)) = Range(r) \cup {e}
          /\ (Distinct(Append(r, e)) => Distinct(r) /\ e.key \notin KeysOf(r))
        BY RangeOneMore
    <2>5. CASE e \in S
      <3>1. Append(k, e) \in Seq(T) /\ Range(Append(k, e)) = Range(k) \cup {e}
            /\ (Distinct(k) /\ e.key \notin KeysOf(k) => Distinct(Append(k, e)))
          BY <2>1, RangeOneMore
      <3> QED BY <2>1, <2>2, <2>3, <2>4, <2>5, <3>1
    <2>6. CASE e \notin S
        BY <2>1, <2>3, <2>4, <2>6
    <2> QED BY <2>5, <2>6
  <1> HIDE DEF P
  <1>3. Seq(T) \subseteq P
      BY <1>1, <1>2, SequenceInduction
  <1> QED BY <1>3 DEF P

\* What it keeps depends on the members only,
LEMMA KeptAgrees ==
    ASSUME NEW T, NEW s \in Seq(T), NEW S, NEW U, Range(s) \cap S = Range(s) \cap U
    PROVE  Kept(s, S) = Kept(s, U)
  <1> DEFINE P == {r \in Seq(T) : Range(r) \cap S = Range(r) \cap U => Kept(r, S) = Kept(r, U)}
  <1>1. <<>> \in P
      BY KeptOfNone
  <1>2. ASSUME NEW r \in Seq(T), NEW e \in T, r \in P PROVE Append(r, e) \in P
    <2>1. Append(r, e) \in Seq(T) /\ Range(Append(r, e)) = Range(r) \cup {e}
        BY RangeOneMore
    <2>2. Kept(Append(r, e), S) = IF e \in S THEN Append(Kept(r, S), e) ELSE Kept(r, S)
        BY KeptOneMore
    <2>3. Kept(Append(r, e), U) = IF e \in U THEN Append(Kept(r, U), e) ELSE Kept(r, U)
        BY KeptOneMore
    <2>4. ASSUME Range(Append(r, e)) \cap S = Range(Append(r, e)) \cap U
          PROVE  Kept(Append(r, e), S) = Kept(Append(r, e), U)
      <3>1. Range(r) \cap S = Range(r) \cap U /\ (e \in S <=> e \in U)
          BY <2>1, <2>4
      <3>2. Kept(r, S) = Kept(r, U)
          BY <1>2, <3>1
      <3> QED BY <2>2, <2>3, <3>1, <3>2
    <2> QED BY <2>1, <2>4
  <1> HIDE DEF P
  <1>3. Seq(T) \subseteq P
      BY <1>1, <1>2, SequenceInduction
  <1> QED BY <1>3 DEF P

\* all of them if all are in S,
LEMMA KeptWhole ==
    ASSUME NEW T, NEW s \in Seq(T), NEW S, Range(s) \subseteq S
    PROVE  Kept(s, S) = s
  <1> DEFINE P == {r \in Seq(T) : Range(r) \subseteq S => Kept(r, S) = r}
  <1>1. <<>> \in P
      BY KeptOfNone
  <1>2. ASSUME NEW r \in Seq(T), NEW e \in T, r \in P PROVE Append(r, e) \in P
    <2>1. Append(r, e) \in Seq(T) /\ Range(Append(r, e)) = Range(r) \cup {e}
        BY RangeOneMore
    <2>2. Kept(Append(r, e), S) = IF e \in S THEN Append(Kept(r, S), e) ELSE Kept(r, S)
        BY KeptOneMore
    <2> QED BY <1>2, <2>1, <2>2
  <1> HIDE DEF P
  <1>3. Seq(T) \subseteq P
      BY <1>1, <1>2, SequenceInduction
  <1> QED BY <1>3 DEF P

\* and those in two sets when it is used twice.
LEMMA KeptTwice ==
    ASSUME NEW T, NEW s \in Seq(T), NEW S, NEW U
    PROVE  Kept(Kept(s, S), U) = Kept(s, S \cap U)
  <1> DEFINE P == {r \in Seq(T) : Kept(Kept(r, S), U) = Kept(r, S \cap U)}
  <1>1. <<>> \in P
    <2>1. <<>> \in Seq(T)
        OBVIOUS
    <2> QED BY <2>1, KeptOfNone
  <1>2. ASSUME NEW r \in Seq(T), NEW e \in T, r \in P PROVE Append(r, e) \in P
    <2>1. Append(r, e) \in Seq(T)
        BY RangeOneMore
    <2>2. Kept(Append(r, e), S) = IF e \in S THEN Append(Kept(r, S), e) ELSE Kept(r, S)
        BY KeptOneMore
    <2>3. Kept(Append(r, e), S \cap U) = IF e \in S /\ e \in U THEN Append(Kept(r, S \cap U), e) ELSE Kept(r, S \cap U)
        BY KeptOneMore
    <2>4. Kept(r, S) \in Seq(T)
        BY KeptKeeps
    <2>5. Kept(Append(Kept(r, S), e), U)
            = IF e \in U THEN Append(Kept(Kept(r, S), U), e) ELSE Kept(Kept(r, S), U)
        BY <2>4, KeptOneMore
    <2>6. Kept(Kept(r, S), U) = Kept(r, S \cap U)
        BY <1>2
    <2>7. Kept(Kept(Append(r, e), S), U) = Kept(Append(r, e), S \cap U)
      <3>1. CASE e \in S
        <4>1. Kept(Kept(Append(r, e), S), U) = Kept(Append(Kept(r, S), e), U)
            BY <2>2, <3>1
        <4> QED BY <2>3, <2>5, <2>6, <3>1, <4>1
      <3>2. CASE e \notin S
        <4>1. Kept(Kept(Append(r, e), S), U) = Kept(Kept(r, S), U)
            BY <2>2, <3>2
        <4> QED BY <2>3, <2>6, <3>2, <4>1
      <3> QED BY <3>1, <3>2
    <2> QED BY <2>1, <2>7
  <1> HIDE DEF P
  <1>3. Seq(T) \subseteq P
      BY <1>1, <1>2, SequenceInduction
  <1> QED BY <1>3 DEF P

-----------------------------------------------------------------------------
\* A record fewer, and a record more.
LEMMA RecordsWithoutIs ==
    ASSUME NEW s \in Seq(Records), Distinct(s), NEW id
    PROVE  /\ Without(s, id) \in Seq(Records) /\ Distinct(Without(s, id))
           /\ Range(Without(s, id)) = {record \in Range(s) : record.key # id}
           /\ KeysOf(Without(s, id)) = KeysOf(s) \ {id}
  <1>1. /\ Without(s, id) \in Seq(Records) /\ Distinct(Without(s, id))
        /\ Range(Without(s, id)) = Range(s) \cap {record \in Range(s) : record.key # id}
      BY KeptKeeps DEF Without
  <1>2. Range(Without(s, id)) = {record \in Range(s) : record.key # id}
      BY <1>1
  <1> QED BY <1>1, <1>2 DEF KeysOf

LEMMA PutIs ==
    ASSUME NEW s \in Seq(Records), Distinct(s), NEW record \in Records
    PROVE  /\ Put(s, record) \in Seq(Records) /\ Distinct(Put(s, record))
           /\ Range(Put(s, record)) = {r \in Range(s) : r.key # record.key} \cup {record}
           /\ KeysOf(Put(s, record)) = KeysOf(s) \cup {record.key}
  <1>1. /\ Without(s, record.key) \in Seq(Records) /\ Distinct(Without(s, record.key))
        /\ Range(Without(s, record.key)) = {r \in Range(s) : r.key # record.key}
        /\ KeysOf(Without(s, record.key)) = KeysOf(s) \ {record.key}
      BY RecordsWithoutIs
  <1>2. /\ Put(s, record) \in Seq(Records)
        /\ Range(Put(s, record)) = Range(Without(s, record.key)) \cup {record}
        /\ KeysOf(Put(s, record)) = KeysOf(Without(s, record.key)) \cup {record.key}
        /\ Distinct(Put(s, record))
      BY <1>1, RangeOneMore DEF Put
  <1> QED BY <1>1, <1>2

LEMMA CountKeys ==
    ASSUME NEW T, NEW s \in Seq(T), Distinct(s)
    PROVE  Cardinality(KeysOf(s)) = Len(s)
  <1> DEFINE P == {r \in Seq(T) : Distinct(r) => IsFiniteSet(KeysOf(r)) /\ Cardinality(KeysOf(r)) = Len(r)}
  <1>1. <<>> \in P
    <2>1. <<>> \in Seq(T) /\ Len(<<>>) = 0
        OBVIOUS
    <2> QED BY <2>1, EmptyIsDistinct, FS_EmptySet
  <1>2. ASSUME NEW r \in Seq(T), NEW e \in T, r \in P PROVE Append(r, e) \in P
    <2>1. /\ Append(r, e) \in Seq(T) /\ KeysOf(Append(r, e)) = KeysOf(r) \cup {e.key}
          /\ Distinct(Append(r, e)) => Distinct(r) /\ e.key \notin KeysOf(r)
        BY RangeOneMore
    <2>2. Len(Append(r, e)) = Len(r) + 1
        OBVIOUS
    <2>3. ASSUME Distinct(Append(r, e))
          PROVE  /\ IsFiniteSet(KeysOf(Append(r, e)))
                 /\ Cardinality(KeysOf(Append(r, e))) = Len(Append(r, e))
      <3>1. IsFiniteSet(KeysOf(r)) /\ Cardinality(KeysOf(r)) = Len(r) /\ e.key \notin KeysOf(r)
          BY <1>2, <2>1, <2>3
      <3>2. /\ IsFiniteSet(KeysOf(r) \cup {e.key})
            /\ Cardinality(KeysOf(r) \cup {e.key}) = Cardinality(KeysOf(r)) + 1
          BY <3>1, FS_AddElement
      <3> QED BY <2>1, <2>2, <3>1, <3>2
    <2> QED BY <2>1, <2>3
  <1> HIDE DEF P
  <1>3. Seq(T) \subseteq P
      BY <1>1, <1>2, SequenceInduction
  <1> QED BY <1>3 DEF P

-----------------------------------------------------------------------------
\* sorted: places are a permutation, since members are totally ordered.
LEMMA SortingIsStrict ==
    ASSUME NEW s \in Seq(Records), NEW reverse \in BOOLEAN
    PROVE  /\ \A i \in DOMAIN s : ~GoesBefore(s, reverse, i, i)
           /\ \A i, j, k \in DOMAIN s :
                GoesBefore(s, reverse, i, j) /\ GoesBefore(s, reverse, j, k) => GoesBefore(s, reverse, i, k)
           /\ \A i, j \in DOMAIN s : i # j => GoesBefore(s, reverse, i, j) \/ GoesBefore(s, reverse, j, i)
  <1>1. \A i \in DOMAIN s : s[i] \in Records /\ i \in Nat
      OBVIOUS
  <1>2. \A i \in DOMAIN s : ValueOf[s[i].key] \in Nat
      BY <1>1, QueriesFit DEF Records
  <1> QED BY <1>1, <1>2 DEF GoesBefore

LEMMA PlacesAre ==
    ASSUME NEW s \in Seq(Records), NEW reverse \in BOOLEAN
    PROVE  /\ \A i \in DOMAIN s : Place(s, reverse, i) \in DOMAIN s
           /\ \A i, j \in DOMAIN s : Place(s, reverse, i) = Place(s, reverse, j) => i = j
           /\ \A n \in DOMAIN s : \E i \in DOMAIN s : Place(s, reverse, i) = n
  <1> DEFINE D == DOMAIN s
             B(i) == {j \in D : GoesBefore(s, reverse, j, i)}
  <1>1. Len(s) \in Nat /\ D = 1 .. Len(s) /\ IsFiniteSet(D) /\ Cardinality(D) = Len(s)
    <2>1. Len(s) \in Nat /\ D = 1 .. Len(s)
        OBVIOUS
    <2>2. /\ IsFiniteSet(1 .. Len(s))
          /\ Cardinality(1 .. Len(s)) = IF 1 > Len(s) THEN 0 ELSE Len(s) - 1 + 1
        BY <2>1, FS_Interval
    <2>3. (IF 1 > Len(s) THEN 0 ELSE Len(s) - 1 + 1) = Len(s)
        BY <2>1
    <2> HIDE DEF D
    <2> QED BY <2>1, <2>2, <2>3
  <1>2. \A i \in D : Place(s, reverse, i) = Cardinality(B(i)) + 1
      BY DEF Place
  <1>3. /\ \A i \in D : i \notin B(i) /\ B(i) \subseteq D
        /\ \A i, j \in D : i \in B(j) => B(i) \subseteq B(j)
        /\ \A i, j \in D : i # j => i \in B(j) \/ j \in B(i)
      BY SortingIsStrict
  <1> HIDE DEF B, D
  <1>4. \A i \in D : IsFiniteSet(B(i)) /\ Cardinality(B(i)) \in Nat /\ Cardinality(B(i)) < Len(s)
    <2> SUFFICES ASSUME NEW i \in D
                 PROVE  IsFiniteSet(B(i)) /\ Cardinality(B(i)) \in Nat /\ Cardinality(B(i)) < Len(s)
        OBVIOUS
    <2>1. B(i) \in SUBSET D /\ B(i) # D
        BY <1>3
    <2>2. IsFiniteSet(B(i)) /\ Cardinality(B(i)) <= Cardinality(D) /\ Cardinality(B(i)) # Cardinality(D)
        BY <1>1, <2>1, FS_Subset
    <2> QED BY <1>1, <2>2, FS_CardinalityType
  <1>5. ASSUME NEW i \in D, NEW j \in D, i \in B(j) PROVE Cardinality(B(i)) < Cardinality(B(j))
    <2>1. B(i) \in SUBSET B(j) /\ B(i) # B(j)
        BY <1>3, <1>5
    <2>2. Cardinality(B(i)) <= Cardinality(B(j)) /\ Cardinality(B(i)) # Cardinality(B(j))
        BY <1>4, <2>1, FS_Subset
    <2> QED BY <1>4, <2>2
  <1>6. \A i \in D : Place(s, reverse, i) \in D
      BY <1>1, <1>2, <1>4
  <1>7. \A i, j \in D : Place(s, reverse, i) = Place(s, reverse, j) => i = j
    <2> SUFFICES ASSUME NEW i \in D, NEW j \in D, i # j
                 PROVE  Place(s, reverse, i) # Place(s, reverse, j)
        OBVIOUS
    <2>1. Cardinality(B(i)) # Cardinality(B(j))
        BY <1>3, <1>4, <1>5
    <2> QED BY <1>2, <1>4, <2>1
  <1>8. \A n \in D : \E i \in D : Place(s, reverse, i) = n
    <2> DEFINE p == [i \in D |-> Place(s, reverse, i)]
    <2>1. p \in Injection(D, D)
        BY <1>6, <1>7 DEF Injection, IsInjective
    <2>2. p \in Surjection(D, D)
        BY <1>1, <2>1, FS_Injection
    <2> QED BY <2>2 DEF Surjection
  <1> QED BY <1>6, <1>7, <1>8 DEF D

LEMMA SortedIs ==
    ASSUME NEW s \in Seq(Records), NEW reverse \in BOOLEAN
    PROVE  /\ Sorted(s, reverse) \in Seq(Records) /\ Len(Sorted(s, reverse)) = Len(s)
           /\ Range(Sorted(s, reverse)) = Range(s)
           /\ Distinct(s) => Distinct(Sorted(s, reverse))
  <1> DEFINE D == DOMAIN s
             from_(n) == CHOOSE i \in D : Place(s, reverse, i) = n
             r == Sorted(s, reverse)
  <1>1. Len(s) \in Nat /\ D = 1 .. Len(s)
      OBVIOUS
  <1>2. r = [n \in D |-> s[from_(n)]]
      BY DEF Sorted
  <1>3. \A n \in D : from_(n) \in D /\ Place(s, reverse, from_(n)) = n
      BY PlacesAre
  <1>4. \A i \in D : Place(s, reverse, i) \in D /\ from_(Place(s, reverse, i)) = i
      BY <1>3, PlacesAre
  <1>5. \A i \in D : s[i] \in Records
      OBVIOUS
  <1> HIDE DEF D, from_, r
  <1>6. r \in [1 .. Len(s) -> Records]
      BY <1>1, <1>2, <1>3, <1>5
  <1>7. r \in Seq(Records) /\ Len(r) = Len(s) /\ DOMAIN r = D
      BY <1>1, <1>6, SeqDef
  <1>8. Range(r) = Range(s)
    <2>1. \A n \in D : r[n] = s[from_(n)]
        BY <1>2
    <2>2. \A i \in D : s[i] = r[Place(s, reverse, i)]
        BY <1>2, <1>4
    <2>3. Range(r) = {r[n] : n \in D} /\ Range(s) = {s[i] : i \in D}
        BY <1>7 DEF Range, D
    <2> QED BY <1>3, <1>4, <2>1, <2>2, <2>3
  <1>9. Distinct(s) => Distinct(r)
    <2> SUFFICES ASSUME Distinct(s), NEW m \in D, NEW n \in D, r[m].key = r[n].key PROVE m = n
        BY <1>7 DEF Distinct
    <2>1. s[from_(m)].key = s[from_(n)].key
        BY <1>2
    <2>2. from_(m) = from_(n)
        BY <1>3, <2>1 DEF Distinct, D
    <2> QED BY <1>3, <2>2
  <1> QED BY <1>7, <1>8, <1>9 DEF r

-----------------------------------------------------------------------------
\* What max and min find is the greatest, or the least.
LEMMA BestIs ==
    ASSUME NEW n \in Nat \ {0}, NEW m \in Nat, NEW keys \in [1 .. n -> 0 .. m], NEW latest \in BOOLEAN
    PROVE  /\ Best(keys, latest) \in 1 .. n
           /\ \A j \in 1 .. n : IF latest THEN keys[j] <= keys[Best(keys, latest)]
                                ELSE keys[Best(keys, latest)] <= keys[j]
  <1> DEFINE D == 1 .. n
             rank(i) == IF latest THEN m - keys[i] ELSE keys[i]
             T == {rank(i) : i \in D}
             Ok(i) == \A j \in D : IF keys[i] = keys[j] THEN i <= j ELSE (keys[j] < keys[i]) = latest
  <1>1. DOMAIN keys = D /\ D \subseteq Nat /\ 1 \in D /\ \A i \in D : keys[i] \in 0 .. m /\ rank(i) \in Nat
      OBVIOUS
  <1>2. T \subseteq Nat /\ T # {}
      BY <1>1
  <1>3. PICK x \in T : \A y \in T : x <= y
    <2> HIDE DEF T
    <2> QED BY <1>2, SomeLeast
  <1> DEFINE I == {i \in D : rank(i) = x}
  <1>4. I \subseteq Nat /\ I # {}
      BY <1>1
  <1>5. PICK i \in I : \A j \in I : i <= j
    <2> HIDE DEF I
    <2> QED BY <1>4, SomeLeast
  <1>6. Ok(i)
    <2> SUFFICES ASSUME NEW j \in D
                 PROVE  IF keys[i] = keys[j] THEN i <= j ELSE (keys[j] < keys[i]) = latest
        OBVIOUS
    <2>1. i \in D /\ rank(i) = x /\ x <= rank(j) /\ (rank(j) = x => i <= j)
        BY <1>3, <1>5
    <2>2. keys[i] \in 0 .. m /\ keys[j] \in 0 .. m
        BY <1>1, <2>1
    <2>3. CASE latest
      <3>1. m - keys[i] <= m - keys[j] /\ (keys[j] = keys[i] => i <= j)
          BY <2>1, <2>3
      <3>2. keys[i] # keys[j] => keys[j] < keys[i]
          BY <2>2, <3>1
      <3>3. latest = TRUE
          BY <2>3
      <3> QED BY <3>1, <3>2, <3>3
    <2>4. CASE ~latest
      <3>1. keys[i] <= keys[j] /\ (keys[j] = keys[i] => i <= j)
          BY <2>1, <2>4
      <3>2. ~(keys[j] < keys[i])
          BY <2>2, <3>1
      <3>3. latest = FALSE
          BY <2>4
      <3> QED BY <3>1, <3>2, <3>3
    <2> QED BY <2>3, <2>4
  <1>7. Best(keys, latest) = CHOOSE k \in D : Ok(k)
      BY <1>1 DEF Best
  <1>8. i \in D
      OBVIOUS
  <1> DEFINE b == CHOOSE k \in D : Ok(k)
  <1>9. b \in D /\ Ok(b)
    <2> HIDE DEF Ok, D
    <2> QED BY <1>6, <1>8
  <1> HIDE DEF b
  <1>10. \A j \in D : IF latest THEN keys[j] <= keys[b] ELSE keys[b] <= keys[j]
    <2> SUFFICES ASSUME NEW j \in D
                 PROVE  IF latest THEN keys[j] <= keys[b] ELSE keys[b] <= keys[j]
        OBVIOUS
    <2>1. b \in D /\ IF keys[b] = keys[j] THEN b <= j ELSE (keys[j] < keys[b]) = latest
        BY <1>9
    <2>2. keys[b] \in 0 .. m /\ keys[j] \in 0 .. m
        BY <1>1, <2>1
    <2>3. keys[b] # keys[j] => (keys[j] < keys[b] <=> latest)
        BY <2>1
    <2> QED BY <2>2, <2>3, SMTT(20)
  <1> QED BY <1>7, <1>9, <1>10 DEF b

RestKeys == IF from = 0 THEN Range(rest) ELSE KeysOf(rest)
Running == phase \notin {"idle", "answered"}
View == asked.view
KeepsAll == \A i \in DOMAIN View : View[i].op \in {"sorted", "group"}

StoragesTyped ==
    /\ entries \in Seq(Records) /\ Distinct(entries)
    /\ copied \in Seq(Records) /\ Distinct(copied)
    /\ start \in Seq(Records) /\ Distinct(start) /\ Range(start) \subseteq been /\ been \subseteq Records
    /\ phase = "idle" => start = <<>> /\ out = <<>> /\ gone = {}
    /\ phase # "idle" => Range(entries) \subseteq been
    /\ ~void => \A id \in KeysOf(entries) : ValueOf[id] \in values

\* Where records are: each key is to be pulled yet, on its way, held by a sorted
\* stage or delivered, but once; what lies beyond a sorted stage got none.
RecordsApart ==
    /\ out \in Seq(Records) /\ Distinct(out) /\ Range(out) \subseteq been
    /\ phase # "idle" =>
         /\ phase \in {"pulling", "passing", "acting", "popping", "counting", "answered"}
         /\ asked \in Questions /\ from \in 0 .. Len(View) /\ DOMAIN memory = 1 .. Len(View)
         /\ from = 0 => rest \in Seq(Ids) /\ \A i, j \in DOMAIN rest : rest[i] = rest[j] => i = j
         /\ from > 0 => rest \in Seq(Records) /\ Distinct(rest) /\ Range(rest) \subseteq been
         /\ RestKeys \cap KeysOf(out) = {}
         /\ \A s \in Sorts(from) :
              /\ memory[s] \in Seq(Records) /\ Distinct(memory[s]) /\ Range(memory[s]) \subseteq been
              /\ RestKeys \cap KeysOf(memory[s]) = {}
              /\ \A t \in Sorts(s) : memory[t] = <<>>
              /\ out = <<>> /\ phase \notin {"acting", "popping"}
    /\ phase = "passing" =>
         /\ hand \in been /\ hand.key \notin RestKeys \cup KeysOf(out)
         /\ \A s \in Sorts(from) : hand.key \notin KeysOf(memory[s])
    /\ phase \in {"acting", "popping"} => hand \in been /\ hand.key \notin RestKeys

\* What a query that limits nothing has yet to deliver.
Held == UNION {KeysOf(memory[s]) : s \in Sorts(from)}
OnTheWay ==
    RestKeys \cup Held
    \cup (IF phase = "passing" THEN {hand.key} ELSE {})

NoneIsLost ==
    /\ Running /\ KeepsAll => KeysOf(start) \subseteq OnTheWay \cup KeysOf(out)
    /\ phase = "counting" /\ KeepsAll => KeysOf(start) \subseteq KeysOf(out)

\* What the query needs of the storages is in them, but for what was evicted.
StorageKeeps ==
    /\ Running => OnTheWay \subseteq KeysOf(entries) \cup gone
    /\ phase = "acting" => hand.key \in KeysOf(entries) \cup gone
    /\ phase = "popping" => hand.key \in KeysOf(copied) /\ asked.by = "transfer" /\ asked.pop
    /\ Running /\ asked.by # "evict" /\ ~asked.pop => KeysOf(out) \subseteq KeysOf(entries) \cup gone
    /\ phase # "idle" /\ asked.by = "transfer" => KeysOf(start) \ gone \subseteq KeysOf(entries) \cup KeysOf(copied)

\* The groups so far, and in which of them a record is.
Grouped(groups) ==
    /\ \A name \in DOMAIN groups : groups[name] \in Seq(Records) /\ Range(groups[name]) \subseteq Range(out)
    /\ \A record \in Range(out) : \E name \in DOMAIN groups : record \in Range(groups[name])
    /\ \A a, b \in DOMAIN groups : \A record \in Range(groups[a]) \cap Range(groups[b]) : a = b
    /\ ~disturbed => \A name \in DOMAIN groups : \A record \in Range(groups[name]) : name = Argument(record)

GroupsFit == phase # "idle" /\ asked.by = "groupby" =>
    /\ from < Len(View)
    /\ Grouped(memory[Len(View)])
    /\ phase = "answered" /\ ~Raised => answer[2] = memory[Len(View)]

AnswersHold == phase = "answered" => MissesAndRepeatsNone /\ FailsForAReason /\ FindsTheExtreme

QInv == StoragesTyped /\ RecordsApart /\ NoneIsLost /\ StorageKeeps /\ GroupsFit /\ AnswersHold
-----------------------------------------------------------------------------
LEMMA QuestionIs ==
    ASSUME NEW q \in Questions
    PROVE  /\ q.view \in Seq(StageKinds) /\ Len(q.view) \in Nat /\ DOMAIN q.view = 1 .. Len(q.view)
           /\ q.pop \in BOOLEAN /\ (q.pop => q.by = "transfer")
           /\ q.by = "groupby" => Len(q.view) > 0 /\ q.view[Len(q.view)].op = "group"
  <1>1. q.view \in Seq(StageKinds) /\ q.pop \in BOOLEAN /\ (q.pop => q.by = "transfer")
      BY QueriesFit
  <1>2. q.by = "groupby" => q.view # <<>> /\ q.view[Len(q.view)].op = "group"
      BY QueriesFit DEF Last
  <1>3. Len(q.view) \in Nat /\ DOMAIN q.view = 1 .. Len(q.view) /\ (q.view # <<>> => Len(q.view) > 0)
      BY <1>1
  <1> QED BY <1>1, <1>2, <1>3

LEMMA QueryBegins == QueryInit => QInv
  <1> SUFFICES ASSUME QueryInit PROVE QInv
      OBVIOUS
  <1>1. <<>> \in Seq(Records) /\ Range(<<>>) = {} /\ Distinct(<<>>)
      BY EmptyIsDistinct
  <1>2. StoragesTyped
    <2>1. entries \in Seq(Records) /\ Distinct(entries)
        BY QueriesFit DEF QueryInit, Distinct
    <2>2. ~void => \A id \in KeysOf(entries) : ValueOf[id] \in values
        BY DEF QueryInit, Referred
    <2> QED BY <1>1, <2>1, <2>2 DEF QueryInit, StoragesTyped
  <1>3. RecordsApart
      BY <1>1 DEF QueryInit, RecordsApart
  <1> QED BY <1>2, <1>3 DEF QueryInit, QInv, NoneIsLost, StorageKeeps, GroupsFit, AnswersHold, Running

\* A query begins.
LEMMA AskKeeps ==
    ASSUME QInv, NEW q \in Questions, Ask(q)
    PROVE  QInv'
  <1> USE DEF Ask
  <1>1. /\ entries \in Seq(Records) /\ Distinct(entries) /\ out = <<>> /\ gone = {} /\ phase = "idle"
        /\ Range(entries) \subseteq Records
      BY RangeIn DEF QInv, StoragesTyped
  <1>2. phase' = "pulling" /\ asked' = q /\ from' = 0 /\ out' = <<>> /\ start' = entries /\ been' = Range(entries)
        /\ entries' = entries /\ copied' = copied /\ gone' = gone /\ rest' = Listed
        /\ values' = values /\ void' = void
      BY <1>1 DEF storages
  <1>3. rest' \in Seq(Ids) /\ RestKeys' = KeysOf(entries) /\ DOMAIN rest' = DOMAIN entries
        /\ \A i \in DOMAIN entries : rest'[i] = entries[i].key
    <2>1. rest' = [i \in 1 .. Len(entries) |-> entries[i].key] /\ Len(entries) \in Nat
        BY <1>1, <1>2 DEF Listed
    <2>2. \A i \in 1 .. Len(entries) : entries[i].key \in Ids
      <3>1. \A i \in 1 .. Len(entries) : entries[i] \in Records
          BY <1>1
      <3> QED BY <3>1 DEF Records
    <2>3. rest' \in Seq(Ids) /\ DOMAIN rest' = DOMAIN entries /\ \A i \in DOMAIN entries : rest'[i] = entries[i].key
        BY <1>1, <2>1, <2>2, SeqDef
    <2>4. Range(rest') = KeysOf(entries)
        BY <2>3 DEF Range, KeysOf
    <2> QED BY <1>2, <2>3, <2>4 DEF RestKeys
  <1>4. /\ View' = q.view /\ q.view \in Seq(StageKinds) /\ Len(q.view) \in Nat /\ DOMAIN q.view = 1 .. Len(q.view)
        /\ memory' = [i \in DOMAIN q.view |-> Fresh(q.view[i])]
        /\ q.by = "groupby" => Len(q.view) > 0 /\ q.view[Len(q.view)].op = "group"
      BY <1>2, QuestionIs DEF View
  <1>5. \A i \in 1 .. Len(q.view) : q.view[i].op = "sorted" => memory'[i] = <<>>
      BY <1>4 DEF Fresh
  <1>6. /\ Sorts(from)' \subseteq {i \in 1 .. Len(q.view) : q.view[i].op = "sorted"}
        /\ \A s \in Sorts(from)' : Sorts(s)' \subseteq {i \in 1 .. Len(q.view) : q.view[i].op = "sorted"}
      BY <1>2, <1>4 DEF Sorts, View
  <1>7. KeysOf(out)' = {} /\ Range(out)' = {} /\ KeysOf(<<>>) = {} /\ Distinct(<<>>) /\ <<>> \in Seq(Records)
      BY <1>2, EmptyIsDistinct
  <1>8. StoragesTyped'
      BY <1>1, <1>2 DEF QInv, StoragesTyped
  <1>9. RecordsApart'
    <2>1. \A i, j \in DOMAIN rest' : rest'[i] = rest'[j] => i = j
        BY <1>1, <1>3 DEF Distinct
    <2>2. \A s \in Sorts(from)' : memory'[s] = <<>> /\ \A t \in Sorts(s)' : memory'[t] = <<>>
        BY <1>5, <1>6
    <2>3. asked' \in Questions /\ from' \in 0 .. Len(View') /\ DOMAIN memory' = 1 .. Len(View')
        BY <1>2, <1>4
    <2>4. \A s \in Sorts(from)' :
              /\ memory'[s] \in Seq(Records) /\ Distinct(memory'[s]) /\ Range(memory'[s]) \subseteq been'
              /\ RestKeys' \cap KeysOf(memory'[s]) = {}
              /\ \A t \in Sorts(s)' : memory'[t] = <<>>
        BY <1>7, <2>2, EmptyIsDistinct
    <2>5. RestKeys' \cap KeysOf(out)' = {} /\ out' \in Seq(Records) /\ Distinct(out') /\ Range(out') \subseteq been'
        BY <1>2, <1>7, EmptyIsDistinct
    <2> HIDE DEF Ask
    <2> QED BY <1>2, <1>3, <2>1, <2>3, <2>4, <2>5 DEF RecordsApart
  <1>10. NoneIsLost' /\ StorageKeeps'
    <2>1. \A s \in Sorts(from)' : memory'[s] = <<>>
        BY <1>5, <1>6
    <2> HIDE DEF Ask
    <2>2. \A s \in Sorts(from)' : KeysOf(memory'[s]) = {}
        BY <1>7, <2>1
    <2>3. Held' = {}
        BY <2>2 DEF Held
    <2>4. OnTheWay' = KeysOf(entries)
        BY <1>2, <1>3, <2>3 DEF OnTheWay
    <2> QED BY <1>2, <1>7, <2>4 DEF NoneIsLost, StorageKeeps, Running
  <1>11. GroupsFit'
    <2> SUFFICES ASSUME q.by = "groupby" PROVE from' < Len(View') /\ Grouped(memory[Len(View)])'
        BY <1>2 DEF GroupsFit
    <2>1. memory'[Len(q.view)] = [name \in {} |-> <<>>]
        BY <1>4 DEF Fresh
    <2> QED BY <1>2, <1>4, <1>7, <2>1 DEF Grouped
  <1> QED BY <1>2, <1>8, <1>9, <1>10, <1>11 DEF QInv, AnswersHold

\* What a step of the traversal's variables leaves as it is.
LEMMA PullingStays ==
    ASSUME UNCHANGED <<pulling, query>>
    PROVE  /\ View' = View /\ RestKeys' = RestKeys /\ OnTheWay' = OnTheWay /\ Running' = Running
           /\ KeysOf(out)' = KeysOf(out) /\ Range(out)' = Range(out) /\ Sorts(from)' = Sorts(from)
           /\ \A i : Sorts(i)' = Sorts(i)
           /\ (KeepsAll <=> KeepsAll')
  <1> USE DEF pulling, query
  <1>1. View' = View /\ Running' = Running
      BY DEF View, Running
  <1>2. RestKeys' = RestKeys /\ KeysOf(out)' = KeysOf(out) /\ Range(out)' = Range(out)
      BY DEF RestKeys
  <1>3. \A i : Sorts(i)' = Sorts(i)
      BY DEF Sorts
  <1>4. Sorts(from)' = Sorts(from)
      BY DEF Sorts
  <1>5. OnTheWay' = OnTheWay
      BY <1>2, <1>4 DEF OnTheWay, Held
  <1>6. KeepsAll <=> KeepsAll'
      BY <1>1 DEF KeepsAll
  <1> QED BY <1>1, <1>2, <1>3, <1>4, <1>5, <1>6

\* A step of the other thread.
LEMMA OtherKeeps ==
    ASSUME QInv, Writes, been \subseteq been', been' \subseteq Records, copied' = copied,
           entries' \in Seq(Records), Distinct(entries'), Range(entries') \subseteq been',
           KeysOf(entries) \cup gone \subseteq KeysOf(entries') \cup gone', gone \subseteq gone',
           ~void => \A id \in KeysOf(entries') : ValueOf[id] \in values'
    PROVE  QInv'
  <1>1. phase # "idle" /\ phase # "answered" /\ UNCHANGED <<pulling, query>> /\ start' = start /\ disturbed'
      BY DEF Writes
  <1>2. /\ phase' = phase /\ asked' = asked /\ rest' = rest /\ from' = from /\ memory' = memory /\ hand' = hand
        /\ out' = out /\ void' = void
      BY <1>1 DEF pulling, query
  <1>3. /\ View' = View /\ RestKeys' = RestKeys /\ OnTheWay' = OnTheWay /\ Running' = Running
        /\ KeysOf(out)' = KeysOf(out) /\ Range(out)' = Range(out) /\ Sorts(from)' = Sorts(from)
        /\ \A i : Sorts(i)' = Sorts(i)
        /\ (KeepsAll <=> KeepsAll')
      BY <1>1, PullingStays
  <1>4. StoragesTyped'
      BY <1>1, <1>2 DEF QInv, StoragesTyped
  <1>5. RecordsApart'
    <2> USE <1>2, <1>3
    <2>1. out' \in Seq(Records) /\ Distinct(out') /\ Range(out') \subseteq been'
        BY DEF QInv, RecordsApart
    <2>2. /\ phase' \in {"pulling", "passing", "acting", "popping", "counting", "answered"}
          /\ asked' \in Questions /\ from' \in 0 .. Len(View') /\ DOMAIN memory' = 1 .. Len(View')
          /\ from' = 0 => rest' \in Seq(Ids) /\ \A i, j \in DOMAIN rest' : rest'[i] = rest'[j] => i = j
          /\ from' > 0 => rest' \in Seq(Records) /\ Distinct(rest') /\ Range(rest') \subseteq been'
          /\ RestKeys' \cap KeysOf(out)' = {}
        BY <1>1 DEF QInv, RecordsApart
    <2>3. ASSUME NEW s \in Sorts(from)
          PROVE  /\ memory'[s] \in Seq(Records) /\ Distinct(memory'[s]) /\ Range(memory'[s]) \subseteq been'
                 /\ RestKeys' \cap KeysOf(memory'[s]) = {}
                 /\ \A t \in Sorts(s)' : memory'[t] = <<>>
                 /\ out' = <<>> /\ phase' \notin {"acting", "popping"}
        BY <1>1, <2>3 DEF QInv, RecordsApart
    <2>4. phase' = "passing" =>
            /\ hand' \in been' /\ hand'.key \notin RestKeys' \cup KeysOf(out)'
            /\ \A s \in Sorts(from)' : hand'.key \notin KeysOf(memory'[s])
        BY DEF QInv, RecordsApart
    <2>5. phase' \in {"acting", "popping"} => hand' \in been' /\ hand'.key \notin RestKeys'
        BY DEF QInv, RecordsApart
    <2> QED BY <2>1, <2>2, <2>3, <2>4, <2>5 DEF RecordsApart
  <1>6. NoneIsLost'
      BY <1>1, <1>2, <1>3 DEF QInv, NoneIsLost
  <1>7. StorageKeeps'
    <2>1. KeysOf(entries') = KeysOf(entries)' /\ KeysOf(copied)' = KeysOf(copied) /\ KeysOf(start)' = KeysOf(start)
        BY <1>1 DEF KeysOf
    <2> QED BY <1>1, <1>2, <1>3, <2>1 DEF QInv, StorageKeeps
  <1>8. GroupsFit'
    <2> SUFFICES ASSUME asked.by = "groupby" PROVE from' < Len(View') /\ Grouped(memory[Len(View)])'
        BY <1>1, <1>2 DEF GroupsFit
    <2>1. from < Len(View) /\ Grouped(memory[Len(View)])
        BY <1>1 DEF QInv, GroupsFit
    <2> QED BY <1>1, <1>2, <1>3, <2>1 DEF Grouped
  <1> QED BY <1>1, <1>2, <1>4, <1>5, <1>6, <1>7, <1>8 DEF QInv, AnswersHold

LEMMA SaveKeeps ==
    ASSUME QInv, NEW id \in Ids, NEW time \in 0 .. MaxTime, SaveRecord(id, time)
    PROVE  QInv'
  <1> DEFINE r == [key |-> id, time |-> time]
  <1>1. r \in Records /\ r.key = id
      BY DEF Records
  <1>2. Writes /\ entries' = Put(entries, r) /\ values' = PutValue(ValueOf[id]) /\ been' = been \cup {r}
        /\ copied' = copied /\ gone' = gone
      BY DEF SaveRecord
  <1> HIDE DEF r
  <1>3. entries \in Seq(Records) /\ Distinct(entries) /\ been \subseteq Records
        /\ (~void => \A k \in KeysOf(entries) : ValueOf[k] \in values)
      BY DEF QInv, StoragesTyped
  <1>4. Range(entries) \subseteq been
      BY <1>2 DEF QInv, StoragesTyped, Writes
  <1>5. entries' \in Seq(Records) /\ Distinct(entries') /\ KeysOf(entries') = KeysOf(entries) \cup {id}
      BY <1>1, <1>2, <1>3, PutIs
  <1>6. Range(entries') \subseteq been'
      BY <1>1, <1>2, <1>3, <1>4, PutIs
  <1>7. ~void => \A k \in KeysOf(entries') : ValueOf[k] \in values'
      BY <1>2, <1>3, <1>5 DEF PutValue
  <1> QED BY <1>1, <1>2, <1>3, <1>5, <1>7, <1>6, OtherKeeps

LEMMA EvictKeeps ==
    ASSUME QInv, NEW id \in Ids, EvictRecord(id)
    PROVE  QInv'
  <1>1. Writes /\ entries' = Without(entries, id) /\ gone' = gone \cup {id} /\ UNCHANGED <<values, copied, been>>
      BY DEF EvictRecord
  <1>2. entries \in Seq(Records) /\ Distinct(entries) /\ been \subseteq Records
        /\ (~void => \A k \in KeysOf(entries) : ValueOf[k] \in values)
      BY DEF QInv, StoragesTyped
  <1>3. entries' \in Seq(Records) /\ Distinct(entries') /\ KeysOf(entries') = KeysOf(entries) \ {id}
        /\ Range(entries') \subseteq Range(entries)
      BY <1>1, <1>2, RecordsWithoutIs
  <1>4. Range(entries) \subseteq been
      BY <1>1 DEF QInv, StoragesTyped, Writes
  <1> QED BY <1>1, <1>2, <1>3, <1>4, OtherKeeps

LEMMA CollectKeeps ==
    ASSUME QInv, CollectValues
    PROVE  QInv'
  <1>1. Writes /\ values' = values \cap Referred /\ UNCHANGED <<entries, copied, been, gone>>
      BY DEF CollectValues
  <1>2. entries \in Seq(Records) /\ Distinct(entries) /\ been \subseteq Records
        /\ (~void => \A k \in KeysOf(entries) : ValueOf[k] \in values)
      BY DEF QInv, StoragesTyped
  <1>3. \A k \in KeysOf(entries) : ValueOf[k] \in Referred
      BY DEF Referred
  <1>4. Range(entries) \subseteq been
      BY <1>1 DEF QInv, StoragesTyped, Writes
  <1> QED BY <1>1, <1>2, <1>3, <1>4, OtherKeeps

-----------------------------------------------------------------------------
\* The next record is pulled.
LEMMA HeadLeaves ==
    ASSUME NEW T, NEW s \in Seq(T), s # <<>>
    PROVE  /\ Head(s) \in T /\ Tail(s) \in Seq(T) /\ Head(s) = s[1] /\ 1 \in DOMAIN s
           /\ Range(s) = {Head(s)} \cup Range(Tail(s))
           /\ \A i \in DOMAIN Tail(s) : i + 1 \in DOMAIN s /\ Tail(s)[i] = s[i + 1]
  <1>1. Head(s) \in T /\ Tail(s) \in Seq(T) /\ Len(Tail(s)) = Len(s) - 1 /\ \A i \in 1 .. Len(Tail(s)) : Tail(s)[i] = s[i + 1]
      BY HeadTailProperties
  <1>2. Len(s) \in Nat /\ Len(s) > 0 /\ DOMAIN s = 1 .. Len(s) /\ DOMAIN Tail(s) = 1 .. Len(Tail(s)) /\ Head(s) = s[1]
      BY <1>1
  <1>3. ASSUME NEW i \in DOMAIN s PROVE s[i] = Head(s) \/ (i - 1 \in DOMAIN Tail(s) /\ s[i] = Tail(s)[i - 1])
      BY <1>1, <1>2
  <1>4. \A i \in DOMAIN Tail(s) : i + 1 \in DOMAIN s /\ Tail(s)[i] = s[i + 1]
      BY <1>1, <1>2
  <1> QED BY <1>1, <1>2, <1>3, <1>4 DEF Range

LEMMA PullKeeps ==
    ASSUME QInv, phase = "pulling", rest # <<>>, NEW record \in been,
           RestKeys = RestKeys' \cup {record.key}, record.key \notin RestKeys',
           from = 0 => rest' \in Seq(Ids) /\ \A i, j \in DOMAIN rest' : rest'[i] = rest'[j] => i = j,
           from > 0 => rest' \in Seq(Records) /\ Distinct(rest') /\ Range(rest') \subseteq been,
           Becomes("passing"), hand' = record, UNCHANGED <<from, memory, out, storages, ghosts, writes>>
    PROVE  QInv'
  <1>1. /\ phase' = "passing" /\ asked' = asked /\ void' = void /\ answer' = answer /\ from' = from /\ memory' = memory
        /\ out' = out /\ entries' = entries /\ values' = values /\ copied' = copied /\ start' = start /\ been' = been
        /\ gone' = gone /\ disturbed' = disturbed
      BY DEF Becomes, storages, ghosts
  <1>2. View' = View /\ (KeepsAll <=> KeepsAll') /\ \A i : Sorts(i)' = Sorts(i)
      BY <1>1 DEF View, KeepsAll, Sorts
  <1>3. Sorts(from)' = Sorts(from)
      BY <1>1 DEF Sorts
  <1>4. StoragesTyped'
      BY <1>1 DEF QInv, StoragesTyped
  <1>5. RecordsApart'
    <2>1. /\ out \in Seq(Records) /\ Distinct(out) /\ Range(out) \subseteq been
          /\ asked \in Questions /\ from \in 0 .. Len(View) /\ DOMAIN memory = 1 .. Len(View)
          /\ RestKeys \cap KeysOf(out) = {}
        BY DEF QInv, RecordsApart
    <2>2. \A s \in Sorts(from) :
              /\ memory[s] \in Seq(Records) /\ Distinct(memory[s]) /\ Range(memory[s]) \subseteq been
              /\ RestKeys \cap KeysOf(memory[s]) = {}
              /\ \A t \in Sorts(s) : memory[t] = <<>>
              /\ out = <<>>
        BY DEF QInv, RecordsApart
    <2>3. record.key \notin KeysOf(out) /\ RestKeys' \cap KeysOf(out) = {}
        BY <2>1
    <2>4. \A s \in Sorts(from) : record.key \notin KeysOf(memory[s]) /\ RestKeys' \cap KeysOf(memory[s]) = {}
        BY <2>2
    <2> HIDE DEF KeysOf
    <2> QED BY <1>1, <1>2, <1>3, <2>1, <2>2, <2>3, <2>4 DEF RecordsApart
  <1>6. OnTheWay' = OnTheWay
    <2>1. Held' = Held
        BY <1>1, <1>3 DEF Held
    <2>2. OnTheWay = RestKeys \cup Held \cup {}
        BY DEF OnTheWay
    <2>3. OnTheWay' = RestKeys' \cup Held' \cup {hand'.key}
        BY <1>1 DEF OnTheWay
    <2> QED BY <1>1, <2>1, <2>2, <2>3
  <1>7. NoneIsLost' /\ StorageKeeps'
    <2>1. /\ KeysOf(entries)' = KeysOf(entries) /\ KeysOf(copied)' = KeysOf(copied) /\ KeysOf(start)' = KeysOf(start)
          /\ KeysOf(out)' = KeysOf(out) /\ Running /\ Running'
        BY <1>1 DEF Running
    <2> QED BY <1>1, <1>2, <1>6, <2>1 DEF QInv, NoneIsLost, StorageKeeps
  <1>8. GroupsFit'
    <2> SUFFICES ASSUME asked.by = "groupby" PROVE from' < Len(View') /\ Grouped(memory[Len(View)])'
        BY <1>1 DEF GroupsFit
    <2>1. from < Len(View) /\ Grouped(memory[Len(View)])
        BY DEF QInv, GroupsFit
    <2>2. \A r : Argument(r)' = Argument(r)
        BY <1>1 DEF Argument, HasResult
    <2> QED BY <1>1, <1>2, <2>1, <2>2 DEF Grouped
  <1> QED BY <1>1, <1>4, <1>5, <1>7, <1>8 DEF QInv, AnswersHold

\* A query ends.
LEMMA AnswerKeeps ==
    ASSUME QInv, phase # "idle", phase # "answered", phase' = "answered",
           UNCHANGED <<asked, void, pulling, storages, ghosts>>,
           Raised' => gone # {} \/ void, ~Raised' /\ ~Partial => phase = "counting", FindsTheExtreme',
           asked.by = "groupby" /\ ~Raised' => answer'[2] = memory[Len(View)]
    PROVE  QInv'
  <1>1. /\ asked' = asked /\ void' = void /\ from' = from /\ memory' = memory /\ rest' = rest /\ hand' = hand
        /\ out' = out /\ entries' = entries /\ values' = values /\ copied' = copied /\ start' = start /\ been' = been
        /\ gone' = gone /\ disturbed' = disturbed
      BY DEF pulling, storages, ghosts
  <1>2. View' = View /\ (KeepsAll <=> KeepsAll') /\ (Partial <=> Partial') /\ \A i : Sorts(i)' = Sorts(i)
      BY <1>1 DEF View, KeepsAll, Sorts, Partial
  <1>3. Sorts(from)' = Sorts(from) /\ RestKeys' = RestKeys /\ KeysOf(out)' = KeysOf(out) /\ Range(out)' = Range(out)
      BY <1>1 DEF Sorts, RestKeys
  <1>4. StoragesTyped'
      BY <1>1 DEF QInv, StoragesTyped
  <1>5. RecordsApart'
    <2>1. /\ out \in Seq(Records) /\ Distinct(out) /\ Range(out) \subseteq been
          /\ asked \in Questions /\ from \in 0 .. Len(View) /\ DOMAIN memory = 1 .. Len(View)
          /\ from = 0 => rest \in Seq(Ids) /\ \A i, j \in DOMAIN rest : rest[i] = rest[j] => i = j
          /\ from > 0 => rest \in Seq(Records) /\ Distinct(rest) /\ Range(rest) \subseteq been
          /\ RestKeys \cap KeysOf(out) = {}
        BY DEF QInv, RecordsApart
    <2>2. \A s \in Sorts(from) :
              /\ memory[s] \in Seq(Records) /\ Distinct(memory[s]) /\ Range(memory[s]) \subseteq been
              /\ RestKeys \cap KeysOf(memory[s]) = {}
              /\ \A t \in Sorts(s) : memory[t] = <<>>
              /\ out = <<>>
        BY DEF QInv, RecordsApart
    <2> QED BY <1>1, <1>2, <1>3, <2>1, <2>2 DEF RecordsApart
  <1>6. NoneIsLost'
      BY DEF NoneIsLost, Running
  <1>7. KeysOf(entries)' = KeysOf(entries) /\ KeysOf(copied)' = KeysOf(copied) /\ KeysOf(start)' = KeysOf(start)
      BY <1>1
  <1>8. asked.by = "transfer" => KeysOf(start) \ gone \subseteq KeysOf(entries) \cup KeysOf(copied)
      BY DEF QInv, StorageKeeps
  <1>9. StorageKeeps'
      BY <1>1, <1>7, <1>8 DEF StorageKeeps, Running
  <1>10. GroupsFit'
    <2> SUFFICES ASSUME asked.by = "groupby" PROVE from' < Len(View') /\ Grouped(memory[Len(View)])'
        BY <1>1, <1>2 DEF GroupsFit
    <2>1. from < Len(View) /\ Grouped(memory[Len(View)])
        BY DEF QInv, GroupsFit
    <2>2. \A r : Argument(r)' = Argument(r)
        BY <1>1 DEF Argument, HasResult
    <2> QED BY <1>1, <1>2, <2>1, <2>2 DEF Grouped
  <1>11. MissesAndRepeatsNone'
    <2>1. Range(out) \subseteq been /\ Cardinality(KeysOf(out)) = Len(out)
        BY CountKeys DEF QInv, RecordsApart
    <2>2. ~Raised' /\ ~Partial /\ KeepsAll => KeysOf(start) \ gone \subseteq KeysOf(out)
        BY DEF QInv, NoneIsLost
    <2> QED BY <1>1, <1>2, <1>3, <1>7, <1>8, <2>1, <2>2 DEF MissesAndRepeatsNone, KeepsAll, View
  <1>12. AnswersHold'
      BY <1>1, <1>11 DEF AnswersHold, FailsForAReason
  <1> QED BY <1>4, <1>5, <1>6, <1>9, <1>10, <1>12 DEF QInv

LEMMA FailKeeps ==
    ASSUME QInv, phase # "idle", phase # "answered", NEW error \in {"KeyError", "TypeError"}, Ends(<<error>>),
           UNCHANGED <<pulling, storages, ghosts>>, gone # {} \/ void
    PROVE  QInv'
  <1>1. phase' = "answered" /\ asked' = asked /\ void' = void /\ Raised'
      BY DEF Ends, Raised
  <1>2. FindsTheExtreme'
      BY <1>1 DEF FindsTheExtreme
  <1> QED BY <1>1, <1>2, AnswerKeeps

LEMMA PullStep == ASSUME QInv, Pull PROVE QInv'
  <1>1. phase = "pulling" /\ rest # <<>> /\ from = 0 /\ UNCHANGED <<from, memory, out, storages, ghosts, writes>>
      BY DEF Pull, Pulls
  <1>2. rest \in Seq(Ids) /\ (\A i, j \in DOMAIN rest : rest[i] = rest[j] => i = j) /\ RestKeys = Range(rest)
      BY <1>1 DEF QInv, RecordsApart, RestKeys
  <1>3. /\ Tail(rest) \in Seq(Ids) /\ Head(rest) = rest[1] /\ 1 \in DOMAIN rest
        /\ Range(rest) = {Head(rest)} \cup Range(Tail(rest))
        /\ \A i \in DOMAIN Tail(rest) : i + 1 \in DOMAIN rest /\ Tail(rest)[i] = rest[i + 1]
      BY <1>1, <1>2, HeadLeaves
  <1>4. Head(rest) \in OnTheWay
      BY <1>2, <1>3 DEF OnTheWay
  <1>5. CASE Head(rest) \notin KeysOf(entries) /\ Ends(<<"KeyError">>) /\ UNCHANGED <<hand, rest>>
    <2>1. gone # {}
        BY <1>1, <1>4, <1>5 DEF QInv, StorageKeeps, Running
    <2> QED BY <1>1, <1>5, <2>1, FailKeeps DEF pulling
  <1>6. ASSUME NEW record \in Range(entries), record.key = Head(rest),
               Becomes("passing"), hand' = record, rest' = Tail(rest)
        PROVE  QInv'
    <2>1. record \in been
        BY <1>1, <1>2, <1>6 DEF QInv, StoragesTyped
    <2>2. \A i \in DOMAIN Tail(rest) : i \in Nat /\ i + 1 # 1
        BY <1>3
    <2>3. \A i, j \in DOMAIN Tail(rest) : Tail(rest)[i] = Tail(rest)[j] => i = j
      <3> SUFFICES ASSUME NEW i \in DOMAIN Tail(rest), NEW j \in DOMAIN Tail(rest), Tail(rest)[i] = Tail(rest)[j]
                   PROVE  i = j
          OBVIOUS
      <3>1. i + 1 = j + 1
          BY <1>2, <1>3
      <3> QED BY <2>2, <3>1
    <2>4. Head(rest) \notin Range(Tail(rest))
        BY <1>2, <1>3, <2>2 DEF Range
    <2>5. RestKeys' = Range(Tail(rest))
        BY <1>1, <1>6 DEF RestKeys
    <2> QED BY <1>1, <1>2, <1>3, <1>6, <2>1, <2>3, <2>4, <2>5, PullKeeps
  <1> QED BY <1>1, <1>5, <1>6 DEF Pull

LEMMA PullSortedStep == ASSUME QInv, PullSorted PROVE QInv'
  <1>1. /\ phase = "pulling" /\ rest # <<>> /\ from > 0 /\ UNCHANGED <<from, memory, out, storages, ghosts, writes>>
        /\ Becomes("passing") /\ hand' = Head(rest) /\ rest' = Tail(rest)
      BY DEF PullSorted, Pulls
  <1>2. rest \in Seq(Records) /\ Distinct(rest) /\ RestKeys = KeysOf(rest) /\ Range(rest) \subseteq been /\ from # 0
      BY <1>1 DEF QInv, RecordsApart, RestKeys
  <1>3. /\ Tail(rest) \in Seq(Records) /\ Head(rest) = rest[1] /\ 1 \in DOMAIN rest
        /\ Range(rest) = {Head(rest)} \cup Range(Tail(rest))
        /\ \A i \in DOMAIN Tail(rest) : i + 1 \in DOMAIN rest /\ Tail(rest)[i] = rest[i + 1]
      BY <1>1, <1>2, HeadLeaves
  <1>4. KeysOf(rest) = KeysOf(Tail(rest)) \cup {Head(rest).key}
      BY <1>3 DEF KeysOf
  <1>5. \A i \in DOMAIN Tail(rest) : i \in Nat /\ i + 1 # 1
      BY <1>3
  <1>6. Distinct(Tail(rest))
    <2> SUFFICES ASSUME NEW i \in DOMAIN Tail(rest), NEW j \in DOMAIN Tail(rest), Tail(rest)[i].key = Tail(rest)[j].key
                 PROVE  i = j
        BY DEF Distinct
    <2>1. i + 1 = j + 1
        BY <1>2, <1>3 DEF Distinct
    <2> QED BY <1>5, <2>1
  <1>7. Head(rest).key \notin KeysOf(Tail(rest))
      BY <1>2, <1>3, <1>5 DEF Range, KeysOf, Distinct
  <1>8. RestKeys' = KeysOf(Tail(rest))
      BY <1>1, <1>2 DEF RestKeys
  <1>9. Head(rest) \in been /\ Range(Tail(rest)) \subseteq been'
      BY <1>1, <1>2, <1>3 DEF ghosts
  <1> QED BY <1>1, <1>2, <1>3, <1>4, <1>6, <1>7, <1>8, <1>9, PullKeeps

\* What the stages do with the record on its way.
LEMMA StageIs ==
    ASSUME NEW stage \in StageKinds, NEW past, NEW record
    PROVE  /\ stage.op = "sorted" => Stage(stage, past, record) = [passes |-> FALSE, past |-> Append(past, record)]
           /\ stage.op = "group" => Stage(stage, past, record).passes = TRUE
  BY DEF Stage, StageKinds

LEMMA PassIs ==
    ASSUME QInv, Pass
    PROVE  /\ \A s \in Sorts(from) :
                /\ s \in from + 1 .. Len(View) /\ ~Reaches(Len(View) + 1, hand)
                /\ memory'[s] = IF Reaches(s, hand) THEN Append(memory[s], hand) ELSE memory[s]
                /\ \A t \in Sorts(s) : t \in Sorts(from) /\ memory'[t] = memory[t]
           /\ KeepsAll => Reaches(Len(View) + 1, hand) \/ \E s \in Sorts(from) : Reaches(s, hand)
           /\ asked.by = "groupby" =>
                /\ Reaches(Len(View) + 1, hand) <=> Reaches(Len(View), hand)
                /\ memory'[Len(View)] = IF Reaches(Len(View), hand)
                                        THEN Stage(View[Len(View)], memory[Len(View)], hand).past
                                        ELSE memory[Len(View)]
           /\ DOMAIN memory' = DOMAIN memory
           /\ Len(View) \in Nat /\ from \in Nat
  <1> DEFINE n == Len(View)
  <1>1. /\ asked \in Questions /\ from \in 0 .. n /\ DOMAIN memory = 1 .. n
        /\ memory' = [i \in DOMAIN memory |->
                        IF i > from /\ Reaches(i, hand) THEN Stage(View[i], memory[i], hand).past ELSE memory[i]]
      BY DEF QInv, RecordsApart, Pass, View
  <1>2. View \in Seq(StageKinds) /\ n \in Nat /\ DOMAIN View = 1 .. n /\ \A i \in 1 .. n : View[i] \in StageKinds
    <2>1. View \in Seq(StageKinds)
        BY <1>1, QuestionIs DEF View
    <2> QED BY <2>1
  <1>3. asked.by = "groupby" => n > 0 /\ View[n].op = "group" /\ from < n
      BY <1>1, QuestionIs DEF View, QInv, GroupsFit, Pass
  <1>4. \A i \in 1 .. n : View[i].op = "sorted" =>
            Stage(View[i], memory[i], hand) = [passes |-> FALSE, past |-> Append(memory[i], hand)]
    <2> SUFFICES ASSUME NEW i \in 1 .. n, View[i].op = "sorted"
                 PROVE  Stage(View[i], memory[i], hand) = [passes |-> FALSE, past |-> Append(memory[i], hand)]
        OBVIOUS
    <2>1. View[i] \in StageKinds
        BY <1>2
    <2> QED BY <2>1, StageIs
  <1>5. \A i \in 1 .. n : View[i].op = "group" => Stage(View[i], memory[i], hand).passes
    <2> SUFFICES ASSUME NEW i \in 1 .. n, View[i].op = "group" PROVE Stage(View[i], memory[i], hand).passes
        OBVIOUS
    <2>1. Stage(View[i], memory[i], hand).passes = TRUE
        BY <1>2, StageIs
    <2> QED BY <2>1
  <1>6. \A i : Reaches(i, hand) <=> \A j \in from + 1 .. i - 1 : Stage(View[j], memory[j], hand).passes
      BY DEF Reaches, View
  <1>7. Reaches(n + 1, hand) <=> \A j \in from + 1 .. n + 1 - 1 : Stage(View[j], memory[j], hand).passes
      BY DEF Reaches, View
  <1>8. \A s : s \in Sorts(from) <=> s \in from + 1 .. n /\ View[s].op = "sorted"
      BY DEF Sorts, View
  <1>9. \A s, t : t \in Sorts(s) <=> t \in s + 1 .. n /\ View[t].op = "sorted"
      BY DEF Sorts, View
  <1>10. \A s \in Sorts(from) : s \in 1 .. n /\ s > from /\ s \in from + 1 .. n + 1 - 1
      BY <1>1, <1>2, <1>8
  <1> HIDE DEF n
  <1>11. ASSUME NEW s \in Sorts(from)
         PROVE  /\ s \in from + 1 .. n /\ ~Reaches(n + 1, hand)
                /\ memory'[s] = IF Reaches(s, hand) THEN Append(memory[s], hand) ELSE memory[s]
                /\ \A t \in Sorts(s) : t \in Sorts(from) /\ memory'[t] = memory[t]
    <2>1. /\ View[s].op = "sorted" /\ Stage(View[s], memory[s], hand) = [passes |-> FALSE, past |-> Append(memory[s], hand)]
          /\ s \in 1 .. n /\ s > from /\ s \in from + 1 .. n
        BY <1>4, <1>8, <1>10, <1>11
    <2>2. Stage(View[s], memory[s], hand).passes = FALSE /\ Stage(View[s], memory[s], hand).past = Append(memory[s], hand)
        BY <2>1
    <2>3. ~Stage(View[s], memory[s], hand).passes
        BY <2>2
    <2>4. ~Reaches(n + 1, hand)
      <3>1. s \in from + 1 .. n + 1 - 1
          BY <1>10
      <3> QED BY <1>7, <2>3, <3>1, Zenon
    <2>5. memory'[s] = IF Reaches(s, hand) THEN Append(memory[s], hand) ELSE memory[s]
        BY <1>1, <2>1, <2>2
    <2>6. ASSUME NEW t \in Sorts(s) PROVE t \in Sorts(from) /\ memory'[t] = memory[t]
      <3>1. t \in s + 1 .. n /\ View[t].op = "sorted" /\ t \in from + 1 .. n /\ t \in 1 .. n /\ s \in from + 1 .. t - 1
          BY <1>1, <1>2, <1>9, <2>1, <2>6
      <3>2. ~Reaches(t, hand)
          BY <1>6, <2>3, <3>1
      <3> QED BY <1>1, <1>8, <3>1, <3>2
    <2> QED BY <2>1, <2>4, <2>5, <2>6
  <1>12. ASSUME KeepsAll PROVE Reaches(n + 1, hand) \/ \E s \in Sorts(from) : Reaches(s, hand)
    <2>1. \A i \in 1 .. n : View[i].op \in {"sorted", "group"}
        BY <1>2, <1>12 DEF KeepsAll
    <2>2. CASE Sorts(from) = {}
      <3>1. \A j \in from + 1 .. n + 1 - 1 : j \in 1 .. n /\ View[j].op = "group"
          BY <1>1, <1>2, <1>8, <2>1, <2>2
      <3>2. \A j \in from + 1 .. n + 1 - 1 : Stage(View[j], memory[j], hand).passes
          BY <1>5, <3>1
      <3> QED BY <1>7, <3>2, Zenon
    <2>3. CASE Sorts(from) # {}
      <3>1. PICK s \in Sorts(from) : \A t \in Sorts(from) : s <= t
        <4>1. Sorts(from) \subseteq Nat
            BY <1>10
        <4> QED BY <2>3, <4>1, SomeLeast
      <3>2. \A j \in from + 1 .. s - 1 : j \in 1 .. n /\ View[j].op = "group"
        <4> SUFFICES ASSUME NEW j \in from + 1 .. s - 1 PROVE j \in 1 .. n /\ View[j].op = "group"
            OBVIOUS
        <4>1. j \in 1 .. n /\ j \in from + 1 .. n /\ ~(s <= j)
            BY <1>1, <1>2, <1>10
        <4>2. j \notin Sorts(from)
            BY <3>1, <4>1
        <4> QED BY <1>8, <2>1, <4>1, <4>2
      <3>3. \A j \in from + 1 .. s - 1 : Stage(View[j], memory[j], hand).passes
          BY <1>5, <3>2
      <3> QED BY <1>6, <3>3
    <2> QED BY <2>2, <2>3
  <1>13. ASSUME asked.by = "groupby"
         PROVE  /\ Reaches(n + 1, hand) <=> Reaches(n, hand)
                /\ memory'[n] = IF Reaches(n, hand) THEN Stage(View[n], memory[n], hand).past ELSE memory[n]
    <2>1. n > 0 /\ View[n].op = "group" /\ from < n /\ n \in 1 .. n
        BY <1>2, <1>3, <1>13
    <2>2. Stage(View[n], memory[n], hand).passes
        BY <1>5, <2>1
    <2>3. \A j : j \in from + 1 .. n + 1 - 1 <=> j \in from + 1 .. n - 1 \/ j = n
        BY <1>1, <1>2, <2>1
    <2> QED BY <1>1, <1>6, <2>1, <2>2, <2>3
  <1>14. DOMAIN memory' = DOMAIN memory /\ n \in Nat /\ from \in Nat
      BY <1>1, <1>2
  <1> QED BY <1>11, <1>12, <1>13, <1>14 DEF n

LEMMA PassKeeps == ASSUME QInv, Pass PROVE QInv'
  <1> DEFINE n == Len(View)
             passes == Reaches(Len(View) + 1, hand)
  <1>1. /\ phase = "passing" /\ phase' \in {"acting", "pulling"} /\ (phase' = "acting" => passes)
        /\ out' = IF passes THEN Append(out, hand) ELSE out
        /\ asked' = asked /\ void' = void /\ answer' = answer /\ rest' = rest /\ from' = from /\ hand' = hand
        /\ entries' = entries /\ values' = values /\ copied' = copied /\ start' = start /\ been' = been
        /\ gone' = gone /\ disturbed' = disturbed
      BY DEF Pass, Becomes, storages, ghosts, View
  <1>2. View' = View /\ (KeepsAll <=> KeepsAll') /\ (\A i : Sorts(i)' = Sorts(i)) /\ RestKeys' = RestKeys
      BY <1>1 DEF View, KeepsAll, Sorts, RestKeys
  <1>3. Sorts(from)' = Sorts(from)
      BY <1>1 DEF Sorts
  <1>4. /\ \A s \in Sorts(from) :
                /\ s \in from + 1 .. n /\ ~passes
                /\ memory'[s] = IF Reaches(s, hand) THEN Append(memory[s], hand) ELSE memory[s]
                /\ \A t \in Sorts(s) : t \in Sorts(from) /\ memory'[t] = memory[t]
        /\ KeepsAll => passes \/ \E s \in Sorts(from) : Reaches(s, hand)
        /\ asked.by = "groupby" =>
             /\ passes <=> Reaches(n, hand)
             /\ memory'[n] = IF Reaches(n, hand) THEN Stage(View[n], memory[n], hand).past ELSE memory[n]
        /\ DOMAIN memory' = DOMAIN memory
        /\ n \in Nat
      BY PassIs
  <1>5. /\ out \in Seq(Records) /\ Distinct(out) /\ Range(out) \subseteq been
        /\ asked \in Questions /\ from \in 0 .. n /\ DOMAIN memory = 1 .. n
        /\ from = 0 => rest \in Seq(Ids) /\ \A i, j \in DOMAIN rest : rest[i] = rest[j] => i = j
        /\ from > 0 => rest \in Seq(Records) /\ Distinct(rest) /\ Range(rest) \subseteq been
        /\ RestKeys \cap KeysOf(out) = {}
        /\ hand \in been /\ hand.key \notin RestKeys \cup KeysOf(out)
        /\ been \subseteq Records
      BY <1>1 DEF QInv, RecordsApart, StoragesTyped
  <1>6. \A s \in Sorts(from) :
              /\ memory[s] \in Seq(Records) /\ Distinct(memory[s]) /\ Range(memory[s]) \subseteq been
              /\ RestKeys \cap KeysOf(memory[s]) = {} /\ hand.key \notin KeysOf(memory[s])
              /\ \A t \in Sorts(s) : memory[t] = <<>>
              /\ out = <<>>
      BY <1>1 DEF QInv, RecordsApart
  <1> HIDE DEF n, passes
  <1>7. /\ out' \in Seq(Records) /\ Distinct(out') /\ Range(out') \subseteq been
        /\ Range(out') = Range(out) \cup (IF passes THEN {hand} ELSE {})
        /\ KeysOf(out') = KeysOf(out) \cup (IF passes THEN {hand.key} ELSE {})
    <2>1. CASE passes
        BY <1>1, <1>5, <2>1, RangeOneMore
    <2>2. CASE ~passes
        BY <1>1, <1>5, <2>2
    <2> QED BY <2>1, <2>2
  <1>8. ASSUME NEW s \in Sorts(from)
        PROVE  /\ memory'[s] \in Seq(Records) /\ Distinct(memory'[s]) /\ Range(memory'[s]) \subseteq been
               /\ KeysOf(memory'[s]) = KeysOf(memory[s]) \cup (IF Reaches(s, hand) THEN {hand.key} ELSE {})
    <2>1. CASE Reaches(s, hand)
      <3>1. memory'[s] = Append(memory[s], hand)
          BY <1>4, <1>8, <2>1
      <3>2. /\ Append(memory[s], hand) \in Seq(Records) /\ Distinct(Append(memory[s], hand))
            /\ Range(Append(memory[s], hand)) = Range(memory[s]) \cup {hand}
            /\ KeysOf(Append(memory[s], hand)) = KeysOf(memory[s]) \cup {hand.key}
          BY <1>5, <1>6, <1>8, RangeOneMore
      <3> QED BY <1>5, <1>6, <1>8, <2>1, <3>1, <3>2
    <2>2. CASE ~Reaches(s, hand)
        BY <1>4, <1>6, <1>8, <2>2
    <2> QED BY <2>1, <2>2
  <1>9. StoragesTyped'
      BY <1>1 DEF QInv, StoragesTyped
  <1>10. RecordsApart'
    <2>1. \A s \in Sorts(from) :
              /\ memory'[s] \in Seq(Records) /\ Distinct(memory'[s]) /\ Range(memory'[s]) \subseteq been
              /\ RestKeys \cap KeysOf(memory'[s]) = {}
              /\ \A t \in Sorts(s) : memory'[t] = <<>>
              /\ out' = <<>> /\ ~passes
      <3> SUFFICES ASSUME NEW s \in Sorts(from)
                   PROVE  /\ memory'[s] \in Seq(Records) /\ Distinct(memory'[s]) /\ Range(memory'[s]) \subseteq been
                          /\ RestKeys \cap KeysOf(memory'[s]) = {}
                          /\ \A t \in Sorts(s) : memory'[t] = <<>>
                          /\ out' = <<>> /\ ~passes
          OBVIOUS
      <3>1. ~passes /\ out' = <<>>
          BY <1>1, <1>4, <1>6
      <3>2. \A t \in Sorts(s) : memory'[t] = <<>>
          BY <1>4, <1>6
      <3>3. RestKeys \cap KeysOf(memory'[s]) = {}
        <4>1. KeysOf(memory'[s]) \subseteq KeysOf(memory[s]) \cup {hand.key}
            BY <1>8
        <4>2. RestKeys \cap KeysOf(memory[s]) = {} /\ hand.key \notin RestKeys
            BY <1>5, <1>6
        <4> QED BY <4>1, <4>2
      <3> QED BY <1>8, <3>1, <3>2, <3>3
    <2>2. RestKeys \cap KeysOf(out') = {}
        BY <1>5, <1>7
    <2>3. asked' \in Questions /\ from' \in 0 .. Len(View') /\ DOMAIN memory' = 1 .. Len(View')
        BY <1>1, <1>2, <1>4, <1>5 DEF n
    <2> QED BY <1>1, <1>2, <1>3, <1>5, <1>7, <2>1, <2>2, <2>3 DEF RecordsApart
  <1>11. /\ Held \subseteq Held' /\ Held' \subseteq Held \cup {hand.key}
         /\ KeepsAll => hand.key \in Held' \cup KeysOf(out')
    <2>1. Held = UNION {KeysOf(memory[s]) : s \in Sorts(from)} /\ Held' = UNION {KeysOf(memory'[s]) : s \in Sorts(from)}
        BY <1>3 DEF Held
    <2>2. Held \subseteq Held'
        BY <1>8, <2>1
    <2>3. Held' \subseteq Held \cup {hand.key}
        BY <1>8, <2>1
    <2>4. ASSUME KeepsAll PROVE hand.key \in Held' \cup KeysOf(out')
      <3>1. CASE passes
          BY <1>7, <3>1
      <3>2. CASE \E s \in Sorts(from) : Reaches(s, hand)
          BY <1>8, <2>1, <3>2
      <3> QED BY <1>4, <2>4, <3>1, <3>2
    <2> QED BY <2>2, <2>3, <2>4
  <1>12. OnTheWay = RestKeys \cup Held \cup {hand.key} /\ OnTheWay' = RestKeys \cup Held'
      BY <1>1, <1>2 DEF OnTheWay
  <1>13. /\ KeysOf(entries)' = KeysOf(entries) /\ KeysOf(copied)' = KeysOf(copied) /\ KeysOf(start)' = KeysOf(start)
         /\ KeysOf(out)' = KeysOf(out') /\ Running /\ Running'
      BY <1>1 DEF Running
  <1>14. NoneIsLost'
    <2>1. KeepsAll => KeysOf(start) \subseteq OnTheWay \cup KeysOf(out)
        BY <1>13 DEF QInv, NoneIsLost
    <2>2. KeepsAll => KeysOf(start) \subseteq OnTheWay' \cup KeysOf(out')
        BY <1>7, <1>11, <1>12, <2>1
    <2> QED BY <1>1, <1>2, <1>13, <2>2 DEF NoneIsLost
  <1>15. StorageKeeps'
    <2>1. /\ OnTheWay \subseteq KeysOf(entries) \cup gone
          /\ asked.by # "evict" /\ ~asked.pop => KeysOf(out) \subseteq KeysOf(entries) \cup gone
          /\ asked.by = "transfer" => KeysOf(start) \ gone \subseteq KeysOf(entries) \cup KeysOf(copied)
        BY <1>1, <1>13 DEF QInv, StorageKeeps
    <2>2. OnTheWay' \subseteq KeysOf(entries) \cup gone /\ hand.key \in KeysOf(entries) \cup gone
        BY <1>11, <1>12, <2>1
    <2>3. asked.by # "evict" /\ ~asked.pop => KeysOf(out') \subseteq KeysOf(entries) \cup gone
        BY <1>7, <2>1, <2>2
    <2> QED BY <1>1, <1>13, <2>1, <2>2, <2>3 DEF StorageKeeps
  <1>16. GroupsFit'
    <2> SUFFICES ASSUME asked.by = "groupby" PROVE from' < Len(View') /\ Grouped(memory[Len(View)])'
        BY <1>1, <1>2 DEF GroupsFit
    <2>1. from < n /\ Grouped(memory[n]) /\ n \in 1 .. n /\ View[n].op = "group"
        BY <1>1, <1>4, <1>5, QuestionIs DEF QInv, GroupsFit, n, View
    <2>2. \A r : Argument(r)' = Argument(r)
        BY <1>1 DEF Argument, HasResult
    <2>3. CASE ~passes
        BY <1>1, <1>2, <1>4, <2>1, <2>2, <2>3, ZenonT(30) DEF Grouped, n
    <2>4. CASE passes
      <3> DEFINE g == memory[n]
                 name == Argument(hand)
                 group == IF name \in DOMAIN g THEN g[name] ELSE <<>>
      <3>1. memory'[n] = [m \in DOMAIN g \cup {name} |-> IF m = name THEN Append(group, hand) ELSE g[m]]
          BY <1>4, <2>1, <2>4 DEF Stage
      <3>2. hand \notin Range(out) /\ hand \in Records /\ Range(out') = Range(out) \cup {hand}
          BY <1>5, <1>7, <2>4 DEF KeysOf
      <3>3. group \in Seq(Records) /\ Range(group) \subseteq Range(out)
        <4>1. <<>> \in Seq(Records) /\ Range(<<>>) = {}
            BY EmptyIsDistinct
        <4> QED BY <2>1, <4>1 DEF Grouped
      <3>4. Append(group, hand) \in Seq(Records) /\ Range(Append(group, hand)) = Range(group) \cup {hand}
        <4> HIDE DEF group
        <4> QED BY <3>2, <3>3, RangeOneMore
      <3> DEFINE h == memory'[n]
      <3>5. DOMAIN h = DOMAIN g \cup {name} /\ h[name] = Append(group, hand)
            /\ \A m \in DOMAIN g : m # name => h[m] = g[m]
          BY <3>1
      <3>6. /\ \A m \in DOMAIN g : g[m] \in Seq(Records) /\ Range(g[m]) \subseteq Range(out)
            /\ \A record \in Range(out) : \E m \in DOMAIN g : record \in Range(g[m])
            /\ \A a, b \in DOMAIN g : \A record \in Range(g[a]) \cap Range(g[b]) : a = b
            /\ ~disturbed => \A m \in DOMAIN g : \A record \in Range(g[m]) : m = Argument(record)
          BY <2>1 DEF Grouped
      <3>7. name \in DOMAIN g => group = g[name]
          OBVIOUS
      <3>8. name \notin DOMAIN g => Range(group) = {}
          BY EmptyIsDistinct
      <3> HIDE DEF g, h, group, name
      <3>9. \A m \in DOMAIN h : h[m] \in Seq(Records) /\ Range(h[m]) \subseteq Range(out')
          BY <3>2, <3>3, <3>4, <3>5, <3>6
      <3>10. \A record \in Range(out') : \E m \in DOMAIN h : record \in Range(h[m])
          BY <3>2, <3>4, <3>5, <3>6, <3>7, ZenonT(30)
      <3>11. \A m \in DOMAIN h : \A record \in Range(h[m]) :
                (record = hand /\ m = name) \/ (record # hand /\ m \in DOMAIN g /\ record \in Range(g[m]))
          BY <3>2, <3>4, <3>5, <3>6, <3>7, <3>8, ZenonT(30)
      <3>12. \A a, b \in DOMAIN h : \A record \in Range(h[a]) \cap Range(h[b]) : a = b
          BY <3>6, <3>11
      <3>13. ~disturbed => \A m \in DOMAIN h : \A record \in Range(h[m]) : m = Argument(record)
          BY <3>6, <3>11 DEF name
      <3>14. Grouped(memory[Len(View)])'
          BY <1>1, <1>2, <2>2, <3>9, <3>10, <3>12, <3>13 DEF Grouped, h, n
      <3> QED BY <1>1, <1>2, <2>1, <3>14 DEF n
    <2> QED BY <2>3, <2>4
  <1> QED BY <1>1, <1>9, <1>10, <1>14, <1>15, <1>16 DEF QInv, AnswersHold

\* Where the source is over.
LEMMA OverIs ==
    ASSUME QInv, SourceOver
    PROVE  /\ Over \in from .. Len(View) /\ Len(View) \in Nat /\ from \in Nat
           /\ FullStages = {} => Over = from /\ rest = <<>>
           /\ FullStages # {} => Over \in FullStages
           /\ KeepsAll => Over = from /\ rest = <<>>
           /\ \A s \in Sorts(Over) : s \in Sorts(from)
  <1>1. asked \in Questions /\ from \in 0 .. Len(View) /\ phase = "pulling" /\ (rest = <<>> \/ FullStages # {})
      BY DEF QInv, RecordsApart, SourceOver
  <1>2. Len(View) \in Nat /\ from \in Nat /\ DOMAIN View = 1 .. Len(View)
      BY <1>1, QuestionIs DEF View
  <1>3. FullStages \subseteq from + 1 .. Len(View) /\ \A i \in FullStages : View[i].op = "take"
      BY DEF FullStages, Full, View
  <1>4. FullStages = {} => Over = from /\ rest = <<>>
      BY <1>1 DEF Over
  <1>5. FullStages # {} => Over \in FullStages
    <2> SUFFICES ASSUME FullStages # {} PROVE Over \in FullStages
        OBVIOUS
    <2>1. FullStages \subseteq Nat /\ IsFiniteSet(FullStages)
      <3>1. FullStages \subseteq 0 .. Len(View)
          BY <1>2, <1>3
      <3>2. IsFiniteSet(0 .. Len(View)) /\ 0 .. Len(View) \subseteq Nat
          BY <1>2, FS_Interval
      <3>3. FullStages \in SUBSET (0 .. Len(View))
          BY <3>1
      <3>4. IsFiniteSet(FullStages)
          BY <3>2, <3>3, FS_Subset
      <3> QED BY <3>1, <3>2, <3>4
    <2>2. \E i \in FullStages : \A j \in FullStages : j <= i
        BY <1>2, <2>1, SomeGreatest
    <2> QED BY <2>2 DEF Over
  <1>6. KeepsAll => FullStages = {}
      BY <1>2, <1>3 DEF KeepsAll
  <1>7. Over \in from .. Len(View)
    <2>1. CASE FullStages = {}
        BY <1>1, <1>2, <1>4, <2>1
    <2>2. CASE FullStages # {}
      <3>1. Over \in from + 1 .. Len(View)
          BY <1>3, <1>5, <2>2
      <3> QED BY <1>2, <3>1
    <2> QED BY <2>1, <2>2
  <1>8. \A s \in Sorts(Over) : s \in Sorts(from)
      BY <1>2, <1>7 DEF Sorts, View
  <1> QED BY <1>2, <1>4, <1>5, <1>6, <1>7, <1>8

\* The source is over and no stage sorts: the consumer counts (query.py 90-96).
LEMMA DrainedKeeps == ASSUME QInv, Drained PROVE QInv'
  <1>1. /\ SourceOver /\ Sorts(Over) = {} /\ phase = "pulling" /\ phase' = "counting"
        /\ asked' = asked /\ void' = void /\ answer' = answer /\ rest' = rest /\ from' = from /\ hand' = hand
        /\ memory' = memory /\ out' = out
        /\ entries' = entries /\ values' = values /\ copied' = copied /\ start' = start /\ been' = been
        /\ gone' = gone /\ disturbed' = disturbed
      BY DEF Drained, SourceOver, Becomes, storages, ghosts
  <1>2. View' = View /\ (KeepsAll <=> KeepsAll') /\ (\A i : Sorts(i)' = Sorts(i)) /\ RestKeys' = RestKeys
        /\ Running /\ Running'
      BY <1>1 DEF View, KeepsAll, Sorts, RestKeys, Running
  <1>3. Sorts(from)' = Sorts(from)
      BY <1>1 DEF Sorts
  <1>4. StoragesTyped'
      BY <1>1 DEF QInv, StoragesTyped
  <1>5. RecordsApart'
    <2>1. /\ out \in Seq(Records) /\ Distinct(out) /\ Range(out) \subseteq been
          /\ asked \in Questions /\ from \in 0 .. Len(View) /\ DOMAIN memory = 1 .. Len(View)
          /\ from = 0 => rest \in Seq(Ids) /\ \A i, j \in DOMAIN rest : rest[i] = rest[j] => i = j
          /\ from > 0 => rest \in Seq(Records) /\ Distinct(rest) /\ Range(rest) \subseteq been
          /\ RestKeys \cap KeysOf(out) = {}
        BY <1>1 DEF QInv, RecordsApart
    <2>2. \A s \in Sorts(from) :
              /\ memory[s] \in Seq(Records) /\ Distinct(memory[s]) /\ Range(memory[s]) \subseteq been
              /\ RestKeys \cap KeysOf(memory[s]) = {}
              /\ \A t \in Sorts(s) : memory[t] = <<>>
              /\ out = <<>>
        BY <1>1 DEF QInv, RecordsApart
    <2> QED BY <1>1, <1>2, <1>3, <2>1, <2>2 DEF RecordsApart
  <1>6. Held' = Held /\ OnTheWay' = OnTheWay
      BY <1>1, <1>2, <1>3 DEF Held, OnTheWay
  <1>7. KeysOf(entries)' = KeysOf(entries) /\ KeysOf(copied)' = KeysOf(copied) /\ KeysOf(start)' = KeysOf(start)
        /\ KeysOf(out)' = KeysOf(out)
      BY <1>1
  <1>8. NoneIsLost'
    <2>1. KeepsAll => KeysOf(start) \subseteq OnTheWay \cup KeysOf(out)
        BY <1>2 DEF QInv, NoneIsLost
    <2>2. KeepsAll => OnTheWay = {}
      <3> SUFFICES ASSUME KeepsAll PROVE OnTheWay = {}
          OBVIOUS
      <3>1. rest = <<>> /\ Sorts(from) = {}
          BY <1>1, OverIs
      <3>2. RestKeys = {}
          BY <3>1, EmptyIsDistinct DEF RestKeys
      <3>3. Held = {}
          BY <3>1 DEF Held
      <3> QED BY <1>1, <3>2, <3>3 DEF OnTheWay
    <2> QED BY <1>1, <1>2, <1>6, <1>7, <2>1, <2>2 DEF NoneIsLost
  <1>9. StorageKeeps'
      BY <1>1, <1>2, <1>6, <1>7 DEF QInv, StorageKeeps
  <1>10. GroupsFit'
    <2> SUFFICES ASSUME asked.by = "groupby" PROVE from' < Len(View') /\ Grouped(memory[Len(View)])'
        BY <1>1, <1>2 DEF GroupsFit
    <2>1. from < Len(View) /\ Grouped(memory[Len(View)])
        BY <1>1 DEF QInv, GroupsFit
    <2>2. \A r : Argument(r)' = Argument(r)
        BY <1>1 DEF Argument, HasResult
    <2> QED BY <1>1, <1>2, <2>1, <2>2 DEF Grouped
  <1> QED BY <1>1, <1>4, <1>5, <1>8, <1>9, <1>10 DEF QInv, AnswersHold

\* A sorted stage that is next.
LEMMA NextSortIs ==
    ASSUME QInv, SourceOver, NEW s \in Sorts(Over), \A j \in Sorts(Over) : s <= j
    PROVE  /\ s \in Sorts(from) /\ s \in from + 1 .. Len(View) /\ View[s].op = "sorted" /\ View[s].reverse \in BOOLEAN
           /\ memory[s] \in Seq(Records) /\ Distinct(memory[s]) /\ Range(memory[s]) \subseteq been /\ out = <<>>
           /\ \A t \in Sorts(s) : memory[t] = <<>>
           /\ KeysOf(memory[s]) \subseteq Held
           /\ KeepsAll => Held = KeysOf(memory[s]) /\ RestKeys = {}
  <1>1. s \in Sorts(from) /\ Len(View) \in Nat /\ from \in Nat /\ asked \in Questions
      BY OverIs DEF QInv, RecordsApart, SourceOver
  <1>2. s \in from + 1 .. Len(View) /\ View[s].op = "sorted"
      BY <1>1 DEF Sorts, View
  <1>3. View[s].reverse \in BOOLEAN
    <2>1. View \in Seq(StageKinds) /\ s \in 1 .. Len(View)
        BY <1>1, <1>2, QuestionIs DEF View
    <2>2. View[s] \in StageKinds
        BY <2>1
    <2> QED BY <1>2, <2>2 DEF StageKinds
  <1>4. /\ memory[s] \in Seq(Records) /\ Distinct(memory[s]) /\ Range(memory[s]) \subseteq been /\ out = <<>>
        /\ \A t \in Sorts(s) : memory[t] = <<>>
      BY <1>1 DEF QInv, RecordsApart, SourceOver
  <1>5. KeysOf(memory[s]) \subseteq Held
      BY <1>1 DEF Held
  <1>6. ASSUME KeepsAll PROVE Held = KeysOf(memory[s]) /\ RestKeys = {}
    <2>1. Over = from /\ rest = <<>>
        BY <1>6, OverIs
    <2>2. \A t \in Sorts(from) : t = s \/ t \in Sorts(s)
        BY <1>1, <1>2, <2>1 DEF Sorts
    <2>3. \A t \in Sorts(from) : KeysOf(memory[t]) \subseteq KeysOf(memory[s])
        BY <1>4, <2>2, EmptyIsDistinct
    <2>4. RestKeys = {}
        BY <2>1, EmptyIsDistinct DEF RestKeys
    <2> QED BY <1>5, <2>3, <2>4 DEF Held
  <1> QED BY <1>1, <1>2, <1>3, <1>4, <1>5, <1>6

\* The next sorted stage delivers what it has, each record once (query.py 101-114).
LEMMA SortKeeps == ASSUME QInv, Sort PROVE QInv'
  <1>1. /\ SourceOver /\ phase = "pulling" /\ UNCHANGED <<memory, hand, out, storages, ghosts, writes>>
      BY DEF Sort, SourceOver
  <1>2. PICK s \in Sorts(Over) :
         /\ \A j \in Sorts(Over) : s <= j
         /\ \/ ~Comparable(memory[s]) /\ Ends(<<"TypeError">>) /\ UNCHANGED <<rest, from>>
            \/ /\ Comparable(memory[s])
               /\ rest' = Sorted(memory[s], asked.view[s].reverse) /\ from' = s
               /\ UNCHANGED query
      BY DEF Sort
  <1>3. /\ s \in Sorts(from) /\ s \in from + 1 .. Len(View) /\ View[s].op = "sorted" /\ View[s].reverse \in BOOLEAN
        /\ memory[s] \in Seq(Records) /\ Distinct(memory[s]) /\ Range(memory[s]) \subseteq been /\ out = <<>>
        /\ \A t \in Sorts(s) : memory[t] = <<>>
        /\ KeysOf(memory[s]) \subseteq Held
        /\ KeepsAll => Held = KeysOf(memory[s]) /\ RestKeys = {}
      BY <1>1, <1>2, NextSortIs
  <1>4. OnTheWay \subseteq KeysOf(entries) \cup gone /\ OnTheWay = RestKeys \cup Held
      BY <1>1 DEF QInv, StorageKeeps, Running, OnTheWay
  <1>5. ASSUME gone = {}, ~void PROVE Comparable(memory[s])
    <2>1. \A r \in Range(memory[s]) : ValueOf[r.key] \in values
        BY <1>3, <1>4, <1>5 DEF QInv, StoragesTyped, KeysOf
    <2>2. \A r \in Range(memory[s]) : Argument(r)[1] = "value"
        BY <2>1 DEF Argument, HasResult
    <2> DEFINE K == {Argument(r)[1] : r \in Range(memory[s])}
    <2>3. K \in SUBSET {"value"}
        BY <2>2
    <2> HIDE DEF K
    <2>4. Cardinality(K) <= 1
      <3>1. IsFiniteSet({"value"}) /\ Cardinality({"value"}) = 1
          BY FS_Singleton
      <3> QED BY <2>3, <3>1, FS_Subset
    <2> QED BY <2>4 DEF Comparable, K
  <1>6. CASE ~Comparable(memory[s]) /\ Ends(<<"TypeError">>) /\ UNCHANGED <<rest, from>>
      BY <1>1, <1>5, <1>6, FailKeeps DEF pulling
  <1>7. CASE rest' = Sorted(memory[s], asked.view[s].reverse) /\ from' = s /\ UNCHANGED query
    <2>1. /\ phase' = "pulling" /\ asked' = asked /\ void' = void /\ answer' = answer /\ from' = s /\ hand' = hand
          /\ memory' = memory /\ out' = out /\ rest' = Sorted(memory[s], View[s].reverse)
          /\ entries' = entries /\ values' = values /\ copied' = copied /\ start' = start /\ been' = been
          /\ gone' = gone /\ disturbed' = disturbed
        BY <1>1, <1>7 DEF query, storages, ghosts, View
    <2>2. View' = View /\ (KeepsAll <=> KeepsAll') /\ (\A i : Sorts(i)' = Sorts(i)) /\ Running /\ Running'
        BY <1>1, <2>1 DEF View, KeepsAll, Sorts, Running
    <2>3. Sorts(from)' = Sorts(s) /\ \A t \in Sorts(s) : memory'[t] = <<>> /\ \A u \in Sorts(t) : memory'[u] = <<>>
      <3>1. Sorts(from)' = Sorts(s)
          BY <2>1 DEF Sorts
      <3>2. \A t \in Sorts(s) : \A u \in Sorts(t) : u \in Sorts(s)
          BY <1>3 DEF Sorts
      <3> QED BY <1>3, <2>1, <3>1, <3>2
    <2>4. /\ rest' \in Seq(Records) /\ Distinct(rest') /\ Range(rest') = Range(memory[s])
        BY <1>3, <2>1, SortedIs
    <2>5. s > 0 /\ s # 0 /\ asked \in Questions /\ from \in 0 .. Len(View) /\ DOMAIN memory = 1 .. Len(View)
          /\ Len(View) \in Nat /\ s \in 0 .. Len(View)
      <3>1. asked \in Questions /\ from \in 0 .. Len(View) /\ DOMAIN memory = 1 .. Len(View)
          BY <1>1 DEF QInv, RecordsApart
      <3>2. Len(View) \in Nat
          BY <3>1, QuestionIs DEF View
      <3> QED BY <1>3, <3>1, <3>2
    <2>6. RestKeys' = KeysOf(memory[s])
        BY <2>1, <2>4, <2>5 DEF RestKeys, KeysOf
    <2>7. StoragesTyped'
        BY <1>1, <2>1 DEF QInv, StoragesTyped
    <2>8. RecordsApart'
      <3>1. KeysOf(<<>>) = {} /\ Distinct(<<>>) /\ <<>> \in Seq(Records) /\ Range(<<>>) = {}
          BY EmptyIsDistinct
      <3> QED BY <1>3, <2>1, <2>2, <2>3, <2>4, <2>5, <3>1 DEF RecordsApart
    <2>9. Held' = {} /\ OnTheWay' = KeysOf(memory[s])
      <3>1. Held' = {}
          BY <2>3, EmptyIsDistinct DEF Held
      <3> QED BY <2>1, <2>6, <3>1 DEF OnTheWay
    <2>10. KeysOf(entries)' = KeysOf(entries) /\ KeysOf(copied)' = KeysOf(copied) /\ KeysOf(start)' = KeysOf(start)
           /\ KeysOf(out)' = KeysOf(out)
        BY <2>1
    <2>11. NoneIsLost'
      <3>1. KeepsAll => KeysOf(start) \subseteq OnTheWay \cup KeysOf(out)
          BY <2>2 DEF QInv, NoneIsLost
      <3> QED BY <1>3, <1>4, <2>1, <2>2, <2>9, <2>10, <3>1 DEF NoneIsLost
    <2>12. StorageKeeps'
        BY <1>1, <1>3, <1>4, <2>1, <2>2, <2>9, <2>10 DEF QInv, StorageKeeps
    <2>13. GroupsFit'
      <3> SUFFICES ASSUME asked.by = "groupby" PROVE from' < Len(View') /\ Grouped(memory[Len(View)])'
          BY <2>1, <2>2 DEF GroupsFit
      <3>1. Grouped(memory[Len(View)])
          BY <1>1 DEF QInv, GroupsFit
      <3>2. \A r : Argument(r)' = Argument(r)
          BY <2>1 DEF Argument, HasResult
      <3>3. View[Len(View)].op = "group"
          BY <2>5, QuestionIs DEF View
      <3>4. s < Len(View)
          BY <1>3, <2>5, <3>3
      <3> QED BY <2>1, <2>2, <3>1, <3>2, <3>4 DEF Grouped
    <2> QED BY <2>1, <2>7, <2>8, <2>11, <2>12, <2>13 DEF QInv, AnswersHold
  <1> QED BY <1>2, <1>6, <1>7

\* The consumer has done something with the record that was delivered.
LEMMA EffectKeeps ==
    ASSUME QInv, phase \in {"acting", "popping"}, UNCHANGED <<pulling, values, ghosts, asked, void, answer>>,
           phase' \in {"pulling", "popping"},
           entries' \in Seq(Records), Distinct(entries'), Range(entries') \subseteq Range(entries),
           KeysOf(entries) \ {hand.key} \subseteq KeysOf(entries'),
           asked.by # "evict" /\ ~asked.pop => entries' = entries,
           copied' \in Seq(Records), Distinct(copied'), KeysOf(copied) \subseteq KeysOf(copied'),
           phase' = "popping" => hand.key \in KeysOf(copied') /\ asked.by = "transfer" /\ asked.pop,
           asked.by = "transfer" => KeysOf(entries) \subseteq KeysOf(entries') \cup KeysOf(copied')
    PROVE  QInv'
  <1>1. /\ asked' = asked /\ void' = void /\ answer' = answer /\ rest' = rest /\ from' = from /\ hand' = hand
        /\ memory' = memory /\ out' = out /\ values' = values /\ start' = start /\ been' = been
        /\ gone' = gone /\ disturbed' = disturbed /\ phase # "idle" /\ phase # "answered"
      BY DEF pulling, ghosts
  <1>2. View' = View /\ (KeepsAll <=> KeepsAll') /\ (\A i : Sorts(i)' = Sorts(i)) /\ RestKeys' = RestKeys
        /\ Running /\ Running' /\ Sorts(from)' = Sorts(from)
      BY <1>1 DEF View, KeepsAll, Sorts, RestKeys, Running
  <1>3. /\ out \in Seq(Records) /\ Distinct(out) /\ Range(out) \subseteq been
        /\ asked \in Questions /\ from \in 0 .. Len(View) /\ DOMAIN memory = 1 .. Len(View)
        /\ from = 0 => rest \in Seq(Ids) /\ \A i, j \in DOMAIN rest : rest[i] = rest[j] => i = j
        /\ from > 0 => rest \in Seq(Records) /\ Distinct(rest) /\ Range(rest) \subseteq been
        /\ RestKeys \cap KeysOf(out) = {}
        /\ hand \in been /\ hand.key \notin RestKeys
        /\ Sorts(from) = {}
      BY <1>1 DEF QInv, RecordsApart
  <1>4. StoragesTyped'
    <2>1. ~void => \A id \in KeysOf(entries') : ValueOf[id] \in values
        BY DEF QInv, StoragesTyped, KeysOf
    <2> QED BY <1>1, <2>1 DEF QInv, StoragesTyped
  <1>5. RecordsApart'
      BY <1>1, <1>2, <1>3 DEF RecordsApart
  <1>6. OnTheWay = RestKeys /\ OnTheWay' = RestKeys
    <2>1. Held = {} /\ Held' = {}
        BY <1>2, <1>3 DEF Held
    <2> QED BY <1>2, <2>1 DEF OnTheWay
  <1>7. NoneIsLost'
    <2>1. KeepsAll => KeysOf(start) \subseteq OnTheWay \cup KeysOf(out)
        BY <1>2 DEF QInv, NoneIsLost
    <2> QED BY <1>1, <1>2, <1>6, <2>1 DEF NoneIsLost
  <1>8. StorageKeeps'
    <2>1. KeysOf(entries)' = KeysOf(entries') /\ KeysOf(copied)' = KeysOf(copied') /\ KeysOf(start)' = KeysOf(start)
          /\ KeysOf(out)' = KeysOf(out)
        BY <1>1
    <2>2. OnTheWay' \subseteq KeysOf(entries') \cup gone
        BY <1>2, <1>3, <1>6 DEF QInv, StorageKeeps
    <2>3. asked.by # "evict" /\ ~asked.pop => KeysOf(out) \subseteq KeysOf(entries') \cup gone
        BY <1>2 DEF QInv, StorageKeeps
    <2>4. asked.by = "transfer" => KeysOf(start) \ gone \subseteq KeysOf(entries') \cup KeysOf(copied')
        BY <1>1 DEF QInv, StorageKeeps
    <2>5. phase' # "acting"
        OBVIOUS
    <2> QED BY <1>1, <2>1, <2>2, <2>3, <2>4, <2>5 DEF StorageKeeps
  <1>9. GroupsFit'
    <2> SUFFICES ASSUME asked.by = "groupby" PROVE from' < Len(View') /\ Grouped(memory[Len(View)])'
        BY <1>1, <1>2 DEF GroupsFit
    <2>1. from < Len(View) /\ Grouped(memory[Len(View)])
        BY <1>1 DEF QInv, GroupsFit
    <2>2. \A r : Argument(r)' = Argument(r)
        BY <1>1 DEF Argument, HasResult
    <2> QED BY <1>1, <1>2, <2>1, <2>2 DEF Grouped
  <1> QED BY <1>1, <1>4, <1>5, <1>7, <1>8, <1>9 DEF QInv, AnswersHold

\* The consumer evicts, copies or loads the record in hand (query.py 190-223).
LEMMA ActKeeps == ASSUME QInv, Act PROVE QInv'
  <1> DEFINE skips == asked.by = "transfer" /\ hand.key \in KeysOf(copied)
  <1>1. /\ phase = "acting" /\ UNCHANGED <<values, pulling, ghosts, writes>>
        /\ IF asked.by # "evict" /\ ~skips /\ ~HasResult(hand)
           THEN Ends(<<"KeyError">>) /\ UNCHANGED <<entries, copied>>
           ELSE /\ entries' = IF asked.by = "evict" THEN Without(entries, hand.key) ELSE entries
                /\ copied' = IF asked.by = "transfer" /\ ~skips THEN Put(copied, hand) ELSE copied
                /\ Becomes(IF asked.pop /\ ~skips THEN "popping" ELSE "pulling")
      BY DEF Act
  <1>2. /\ entries \in Seq(Records) /\ Distinct(entries) /\ copied \in Seq(Records) /\ Distinct(copied)
        /\ hand \in Records /\ (~void => \A id \in KeysOf(entries) : ValueOf[id] \in values)
        /\ asked \in Questions /\ hand.key \in KeysOf(entries) \cup gone
      BY <1>1 DEF QInv, StoragesTyped, RecordsApart, StorageKeeps
  <1>3. asked.pop \in BOOLEAN /\ (asked.pop => asked.by = "transfer")
      BY <1>2, QuestionIs
  <1> HIDE DEF skips
  <1>4. CASE asked.by # "evict" /\ ~skips /\ ~HasResult(hand)
    <2>1. gone # {} \/ void
        BY <1>2, <1>4 DEF HasResult
    <2> QED BY <1>1, <1>4, <2>1, FailKeeps DEF storages
  <1>5. CASE ~(asked.by # "evict" /\ ~skips /\ ~HasResult(hand))
    <2>1. /\ entries' = IF asked.by = "evict" THEN Without(entries, hand.key) ELSE entries
          /\ copied' = IF asked.by = "transfer" /\ ~skips THEN Put(copied, hand) ELSE copied
          /\ phase' = (IF asked.pop /\ ~skips THEN "popping" ELSE "pulling") /\ UNCHANGED <<asked, void, answer>>
        BY <1>1, <1>5 DEF Becomes
    <2>2. /\ entries' \in Seq(Records) /\ Distinct(entries') /\ Range(entries') \subseteq Range(entries)
          /\ KeysOf(entries) \ {hand.key} \subseteq KeysOf(entries')
          /\ asked.by # "evict" => entries' = entries
        BY <1>2, <2>1, RecordsWithoutIs
    <2>3. /\ copied' \in Seq(Records) /\ Distinct(copied') /\ KeysOf(copied) \subseteq KeysOf(copied')
          /\ asked.by = "transfer" => hand.key \in KeysOf(copied')
      <3>1. CASE asked.by = "transfer" /\ ~skips
          BY <1>2, <2>1, <3>1, PutIs
      <3>2. CASE ~(asked.by = "transfer" /\ ~skips)
          BY <1>2, <2>1, <3>2 DEF skips
      <3> QED BY <3>1, <3>2
    <2> QED BY <1>1, <1>3, <2>1, <2>2, <2>3, EffectKeeps
  <1> QED BY <1>4, <1>5

\* A transfer that pops evicts what it has copied (query.py 222-223).
LEMMA PopKeeps == ASSUME QInv, Pop PROVE QInv'
  <1>1. /\ phase = "popping" /\ entries' = Without(entries, hand.key) /\ phase' = "pulling"
        /\ UNCHANGED <<values, copied, pulling, ghosts, writes, asked, void, answer>>
      BY DEF Pop, Becomes
  <1>2. /\ entries \in Seq(Records) /\ Distinct(entries) /\ copied \in Seq(Records) /\ Distinct(copied)
        /\ hand.key \in KeysOf(copied) /\ asked.by = "transfer" /\ asked.pop
      BY <1>1 DEF QInv, StoragesTyped, StorageKeeps
  <1>3. /\ entries' \in Seq(Records) /\ Distinct(entries') /\ Range(entries') \subseteq Range(entries)
        /\ KeysOf(entries') = KeysOf(entries) \ {hand.key}
      BY <1>1, <1>2, RecordsWithoutIs
  <1>4. asked.by # "evict" /\ ~asked.pop => entries' = entries
      BY <1>2
  <1> QED BY <1>1, <1>2, <1>3, <1>4, EffectKeeps

\* max and min find a record with a time if there is one.
LEMMA ExtremumIs ==
    ASSUME NEW s \in Seq(Records), NEW latest \in BOOLEAN, NEW r \in Range(s), r.time > 0
    PROVE  /\ Extremum(s, latest) \in Range(s) /\ Extremum(s, latest).time > 0
           /\ \A t \in Range(s) : t.time > 0 =>
                IF latest THEN t.time <= Extremum(s, latest).time ELSE t.time >= Extremum(s, latest).time
  <1> DEFINE n == Len(s)
             keys == [i \in 1 .. n |-> IF s[i].time = 0 /\ ~latest THEN MaxTime + 1 ELSE s[i].time]
             b == Best(keys, latest)
  <1>1. n \in Nat /\ DOMAIN s = 1 .. n /\ MaxTime \in Nat
      BY QueriesFit
  <1>2. \A i \in 1 .. n : s[i] \in Range(s) /\ s[i].time \in 0 .. MaxTime
    <2>1. \A i \in 1 .. n : s[i] \in Records /\ s[i] \in Range(s)
        BY <1>1 DEF Range
    <2> QED BY <2>1 DEF Records
  <1>3. \A t \in Range(s) : \E i \in 1 .. n : t = s[i]
      BY <1>1 DEF Range
  <1>4. n # 0
      BY <1>1, <1>3
  <1>5. keys \in [1 .. n -> 0 .. MaxTime + 1]
      BY <1>1, <1>2
  <1>6. n \in Nat \ {0} /\ MaxTime + 1 \in Nat
      BY <1>1, <1>4
  <1>7. Extremum(s, latest) = s[b]
      BY <1>1 DEF Extremum
  <1>8. \A i \in 1 .. n : keys[i] = IF s[i].time = 0 /\ ~latest THEN MaxTime + 1 ELSE s[i].time
      OBVIOUS
  <1> HIDE DEF n, keys
  <1>9. b \in 1 .. n /\ \A j \in 1 .. n : IF latest THEN keys[j] <= keys[b] ELSE keys[b] <= keys[j]
      BY <1>5, <1>6, BestIs
  <1> HIDE DEF b
  <1>10. PICK i \in 1 .. n : r = s[i]
      BY <1>3
  <1>11. s[b] \in Range(s) /\ s[b].time \in 0 .. MaxTime
      BY <1>2, <1>9
  <1>12. s[b].time > 0
    <2>1. s[i].time > 0 /\ s[i].time \in 0 .. MaxTime /\ keys[i] = s[i].time
        BY <1>2, <1>8, <1>10
    <2> QED BY <1>1, <1>8, <1>9, <1>11, <2>1
  <1>13. ASSUME NEW t \in Range(s), t.time > 0
         PROVE  IF latest THEN t.time <= s[b].time ELSE t.time >= s[b].time
    <2>1. PICK j \in 1 .. n : t = s[j]
        BY <1>3
    <2>2. keys[j] = t.time /\ keys[b] = s[b].time
        BY <1>2, <1>8, <1>9, <1>12, <1>13, <2>1
    <2> QED BY <1>2, <1>9, <1>11, <2>1, <2>2
  <1> QED BY <1>7, <1>11, <1>12, <1>13

\* The consumer answers (query.py 53-188): what it says of extremes and groups holds.
LEMMA ConsumeKeeps == ASSUME QInv, Consume PROVE QInv'
  <1>1. /\ phase = "counting" \/ (phase = "pulling" /\ Enough)
        /\ phase' = "answered" /\ answer' = Result /\ asked' = asked /\ void' = void
        /\ UNCHANGED <<pulling, storages, ghosts, writes>> /\ out' = out
      BY DEF Consume, Ends, pulling
  <1>2. /\ out \in Seq(Records) /\ phase # "idle" /\ phase # "answered" /\ DOMAIN memory = 1 .. Len(View) /\ Len(View) \in Nat
      BY <1>1, QuestionIs DEF QInv, RecordsApart, View
  <1>3. Raised' => gone # {} \/ void
    <2> SUFFICES ASSUME Raised' PROVE gone # {}
        OBVIOUS
    <2>1. asked.by = "table" /\ ~(KeysOf(out) \subseteq KeysOf(entries))
        BY <1>1 DEF Raised, Result
    <2>2. ~asked.pop
        BY <1>1, <2>1, QuestionIs DEF QInv, RecordsApart
    <2> QED BY <1>1, <2>1, <2>2 DEF QInv, StorageKeeps, Running
  <1>4. ~Raised' /\ ~Partial => phase = "counting"
      BY <1>1 DEF Enough, Partial
  <1>5. FindsTheExtreme'
    <2> SUFFICES ASSUME asked.by \in {"latest", "oldest"}, NEW r \in Range(out), r.time > 0
                 PROVE  /\ answer'[1] = "call" /\ answer'[2] \in {t \in Range(out) : t.time > 0}
                        /\ \A t \in {t \in Range(out) : t.time > 0} :
                               IF asked.by = "latest" THEN t.time <= answer'[2].time ELSE t.time >= answer'[2].time
        BY <1>1 DEF FindsTheExtreme
    <2> DEFINE latest == asked.by = "latest"
               best == Extremum(out, latest)
    <2>1. latest \in BOOLEAN
        OBVIOUS
    <2> HIDE DEF latest
    <2>2. /\ best \in Range(out) /\ best.time > 0
          /\ \A t \in Range(out) : t.time > 0 =>
                IF latest THEN t.time <= best.time ELSE t.time >= best.time
        BY <1>2, <2>1, ExtremumIs
    <2>3. out # <<>>
        BY EmptyIsDistinct
    <2>4. answer' = <<"call", best>>
      <3>1. best \in Records
          BY <1>2, <2>2, RangeIn
      <3>2. best.time # 0
          BY <2>2, <3>1 DEF Records
      <3> USE DEF latest
      <3>3. Result = IF best.time = 0 THEN <<"ValueError">> ELSE <<"call", best>>
          BY <2>3 DEF Result
      <3> HIDE DEF best
      <3> QED BY <1>1, <3>2, <3>3
    <2>5. answer'[1] = "call" /\ answer'[2] = best
        BY <2>4
    <2> HIDE DEF best
    <2> QED BY <2>2, <2>5 DEF latest
  <1>6. asked.by = "groupby" /\ ~Raised' => answer'[2] = memory[Len(View)]
    <2> SUFFICES ASSUME asked.by = "groupby" PROVE Result[2] = memory[Len(View)]
        BY <1>1
    <2> QED BY DEF Result, View
  <1> QED BY <1>1, <1>2, <1>3, <1>4, <1>5, <1>6, AnswerKeeps

LEMMA QueryStays == ASSUME QInv, UNCHANGED queryVars PROVE QInv'
  <1>1. UNCHANGED <<entries, values, copied, rest, from, memory, hand, out, phase, asked, void, answer,
                    start, been, gone, disturbed>>
      BY DEF queryVars, storages, pulling, query, ghosts
  <1>2. /\ View' = View /\ RestKeys' = RestKeys /\ OnTheWay' = OnTheWay /\ Running' = Running
        /\ KeysOf(out)' = KeysOf(out) /\ Range(out)' = Range(out) /\ Sorts(from)' = Sorts(from)
        /\ \A i : Sorts(i)' = Sorts(i)
        /\ (KeepsAll <=> KeepsAll')
      BY PullingStays DEF queryVars
  <1>3. StoragesTyped' /\ NoneIsLost' /\ StorageKeeps'
      BY <1>1, <1>2 DEF QInv, StoragesTyped, NoneIsLost, StorageKeeps
  <1>4. RecordsApart'
      BY <1>1, <1>2 DEF QInv, RecordsApart
  <1>5. GroupsFit'
    <2>1. Grouped(memory[Len(View)])' <=> Grouped(memory[Len(View)])
        BY <1>1, <1>2 DEF Grouped, Argument, HasResult
    <2>2. Raised' <=> Raised
        BY <1>1 DEF Raised
    <2> QED BY <1>1, <1>2, <2>1, <2>2 DEF QInv, GroupsFit
  <1>6. AnswersHold'
      BY <1>1 DEF QInv, AnswersHold, MissesAndRepeatsNone, FailsForAReason, FindsTheExtreme, Raised, Partial
  <1> QED BY <1>3, <1>4, <1>5, <1>6 DEF QInv

\* What is kept, step by step.
LEMMA QueryStep == ASSUME QInv, [QueryNext]_queryVars PROVE QInv'
  BY PullStep, PullSortedStep, PassKeeps, DrainedKeeps, SortKeeps, ActKeeps, PopKeeps, ConsumeKeeps,
     AskKeeps, EvictKeeps, SaveKeeps, CollectKeeps, QueryStays DEF QueryNext, Traverse

\* groupby, from what the groups hold.
LEMMA GroupsAre ==
    ASSUME QInv, phase = "answered"
    PROVE  GroupsHoldAll
  <1> SUFFICES ASSUME ~Raised, asked.by = "groupby" PROVE GroupsHoldAll
      BY DEF GroupsHoldAll
  <1> DEFINE groups == answer[2]
             In(record) == {name \in DOMAIN groups : record \in Range(groups[name])}
  <1>1. Grouped(groups)
      BY DEF QInv, GroupsFit
  <1>2. ASSUME NEW r \in Range(out) PROVE \E name \in DOMAIN groups : In(r) = {name} /\ r \in Range(groups[name])
    <2>1. PICK name \in DOMAIN groups : r \in Range(groups[name])
        BY <1>1 DEF Grouped
    <2>2. \A other \in In(r) : other = name
        BY <1>1, <2>1 DEF Grouped
    <2> QED BY <2>1, <2>2
  <1>3. \A r \in Range(out) : Cardinality(In(r)) = 1
      BY <1>2, FS_Singleton
  <1>4. ASSUME ~disturbed, NEW r \in Range(out) PROVE In(r) = {Argument(r)}
      BY <1>1, <1>2, <1>4 DEF Grouped
  <1>5. ASSUME ~disturbed, NEW a \in Range(out), NEW b \in Range(out)
        PROVE  In(a) = In(b) <=> ValueOf[a.key] = ValueOf[b.key]
    <2>1. In(a) = {Argument(a)} /\ In(b) = {Argument(b)}
        BY <1>4, <1>5
    <2>2. Argument(a) = Argument(b) <=> ValueOf[a.key] = ValueOf[b.key]
        BY DEF Argument, HasResult
    <2> HIDE DEF In
    <2> QED BY <2>1, <2>2
  <1> HIDE DEF In
  <1> QED BY <1>3, <1>5 DEF GroupsHoldAll, In

-----------------------------------------------------------------------------
\* What stages mean.
LEMMA StageKindsAre ==
    ASSUME NEW stage \in StageKinds
    PROVE  /\ stage.op \in {"filter", "unique", "group", "sorted", "take", "skip"}
           /\ stage.op = "sorted" => stage.reverse \in BOOLEAN
           /\ stage.op \in {"take", "skip"} => stage.n \in Nat
  BY DEF StageKinds

\* A part of a sequence of records, which has no key twice if the whole has none.
LEMMA PartIs ==
    ASSUME NEW s \in Seq(Records), NEW m \in Nat \ {0}, NEW n \in Nat, n <= Len(s)
    PROVE  /\ SubSeq(s, m, n) \in Seq(Records) /\ Len(SubSeq(s, m, n)) = IF m <= n THEN n - m + 1 ELSE 0
           /\ \A i \in 1 .. Len(SubSeq(s, m, n)) : SubSeq(s, m, n)[i] = s[m + i - 1] /\ m + i - 1 \in 1 .. Len(s)
           /\ Distinct(s) => Distinct(SubSeq(s, m, n))
  <1> DEFINE r == SubSeq(s, m, n)
  <1>1. /\ r \in Seq(Records) /\ Len(r) = IF m <= n THEN n - m + 1 ELSE 0
        /\ \A i \in 1 .. n - m + 1 : r[i] = s[m + i - 1]
    <2>1. m \in Int /\ n \in Int /\ \A i \in m .. n : s[i] \in Records
        OBVIOUS
    <2> QED BY <2>1, SubSeqProperties
  <1> HIDE DEF r
  <1>2. \A i \in 1 .. Len(r) : i \in 1 .. n - m + 1 /\ m + i - 1 \in 1 .. Len(s)
      BY <1>1
  <1>3. \A i \in 1 .. Len(r) : r[i] = s[m + i - 1] /\ m + i - 1 \in 1 .. Len(s)
      BY <1>1, <1>2
  <1>4. DOMAIN r = 1 .. Len(r) /\ DOMAIN s = 1 .. Len(s) /\ Len(r) \in Nat
      BY <1>1
  <1>5. Distinct(s) => Distinct(r)
    <2> SUFFICES ASSUME Distinct(s), NEW i \in 1 .. Len(r), NEW j \in 1 .. Len(r), r[i].key = r[j].key PROVE i = j
        BY <1>4 DEF Distinct
    <2>1. m + i - 1 \in DOMAIN s /\ m + j - 1 \in DOMAIN s /\ s[m + i - 1].key = s[m + j - 1].key
        BY <1>3, <1>4
    <2>2. m + i - 1 = m + j - 1
        BY <2>1 DEF Distinct
    <2> QED BY <1>4, <2>2
  <1> QED BY <1>1, <1>3, <1>5 DEF r

\* What a stage means of records are records, no key twice.
LEMMA MeaningIs ==
    ASSUME NEW stage \in StageKinds, NEW s \in Seq(Records), Distinct(s)
    PROVE  MeantBy(stage, s) \in Seq(Records) /\ Distinct(MeantBy(stage, s))
  <1>1. CASE stage.op = "filter"
      BY <1>1, KeptKeeps DEF MeantBy
  <1>2. CASE stage.op = "unique"
      BY <1>2, KeptKeeps DEF MeantBy
  <1>3. CASE stage.op = "sorted"
      BY <1>3, SortedIs, StageKindsAre DEF MeantBy
  <1>4. CASE stage.op = "take"
    <2> DEFINE n == IF stage.n < Len(s) THEN stage.n ELSE Len(s)
    <2>1. n \in Nat /\ n <= Len(s) /\ 1 \in Nat \ {0}
        BY <1>4, StageKindsAre
    <2>2. MeantBy(stage, s) = SubSeq(s, 1, n)
        BY <1>4 DEF MeantBy
    <2> HIDE DEF n
    <2>3. SubSeq(s, 1, n) \in Seq(Records) /\ (Distinct(s) => Distinct(SubSeq(s, 1, n)))
        BY <2>1, PartIs
    <2> QED BY <2>2, <2>3
  <1>5. CASE stage.op = "skip"
    <2>1. stage.n + 1 \in Nat \ {0} /\ Len(s) \in Nat /\ Len(s) <= Len(s)
        BY <1>5, StageKindsAre
    <2>2. MeantBy(stage, s) = SubSeq(s, stage.n + 1, Len(s))
        BY <1>5 DEF MeantBy
    <2> QED BY <2>1, <2>2, PartIs
  <1>6. CASE stage.op = "group"
      BY <1>6 DEF MeantBy
  <1> QED BY <1>1, <1>2, <1>3, <1>4, <1>5, <1>6, StageKindsAre

\* The stage lets the record through that follows those of s.
Lets(stage, s, e) ==
    CASE stage.op = "filter" -> e.time > 0
      [] stage.op = "unique" -> ValueOf[e.key] \notin {ValueOf[r.key] : r \in Range(s)}
      [] stage.op = "take"   -> Len(s) < stage.n
      [] stage.op = "skip"   -> Len(s) >= stage.n
      [] OTHER               -> TRUE

\* What a stage that does not sort means of one record more: what it meant, and the
\* record, if the stage lets it pass.
LEMMA MeansOneMore ==
    ASSUME NEW stage \in StageKinds, stage.op # "sorted", NEW s \in Seq(Records), NEW e \in Records,
           Distinct(Append(s, e))
    PROVE  MeantBy(stage, Append(s, e)) =
               IF Lets(stage, s, e) THEN Append(MeantBy(stage, s), e) ELSE MeantBy(stage, s)
  <1> DEFINE t == Append(s, e)
             n == Len(s)
  <1>1. /\ n \in Nat /\ t \in Seq(Records) /\ DOMAIN t = 1 .. n + 1 /\ DOMAIN s = 1 .. n
        /\ t[n + 1] = e /\ (\A i \in 1 .. n : t[i] = s[i]) /\ Len(t) = n + 1
      OBVIOUS
  <1>2. Distinct(s) /\ e.key \notin KeysOf(s) /\ Range(t) = Range(s) \cup {e} /\ Distinct(t)
      BY RangeOneMore
  <1>3. e \notin Range(s) /\ Range(s) \subseteq Records
      BY <1>2, RangeIn DEF KeysOf
  <1> HIDE DEF t, n
  <1>4. CASE stage.op = "filter"
    <2> DEFINE S == {r \in Range(s) : r.time > 0}
               T == {r \in Range(t) : r.time > 0}
    <2>1. MeantBy(stage, s) = Kept(s, S) /\ MeantBy(stage, t) = Kept(t, T) /\ (Lets(stage, s, e) <=> e.time > 0)
        BY <1>4 DEF MeantBy, Lets
    <2>2. Range(s) \cap S = Range(s) \cap T /\ (e \in T <=> e.time > 0)
        BY <1>2
    <2> HIDE DEF S, T
    <2>3. Kept(s, T) = Kept(s, S)
        BY <2>2, KeptAgrees
    <2>4. Kept(t, T) = IF e \in T THEN Append(Kept(s, T), e) ELSE Kept(s, T)
        BY KeptOneMore DEF t
    <2> QED BY <2>1, <2>2, <2>3, <2>4 DEF t
  <1>5. CASE stage.op = "unique"
    <2> DEFINE S == {s[i] : i \in {i \in DOMAIN s : \A j \in 1 .. i - 1 : ValueOf[s[j].key] # ValueOf[s[i].key]}}
               T == {t[i] : i \in {i \in DOMAIN t : \A j \in 1 .. i - 1 : ValueOf[t[j].key] # ValueOf[t[i].key]}}
    <2>1. /\ MeantBy(stage, s) = Kept(s, S) /\ MeantBy(stage, t) = Kept(t, T)
          /\ (Lets(stage, s, e) <=> ValueOf[e.key] \notin {ValueOf[r.key] : r \in Range(s)})
        BY <1>5 DEF MeantBy, Lets
    <2>2. Range(s) = {s[i] : i \in 1 .. n}
        BY <1>1 DEF Range
    <2>3. \A i \in 1 .. n : s[i] \in T <=> s[i] \in S
      <3>1. ASSUME NEW i \in 1 .. n, s[i] \in S PROVE s[i] \in T
        <4>1. PICK k \in 1 .. n : s[i] = s[k] /\ \A j \in 1 .. k - 1 : ValueOf[s[j].key] # ValueOf[s[k].key]
            BY <1>1, <3>1
        <4>2. k \in DOMAIN t /\ t[k] = s[k] /\ \A j \in 1 .. k - 1 : t[j] = s[j]
            BY <1>1
        <4>3. \A j \in 1 .. k - 1 : ValueOf[t[j].key] # ValueOf[t[k].key]
            BY <4>1, <4>2
        <4>4. t[k] \in T
            BY <4>2, <4>3
        <4> HIDE DEF T
        <4> QED BY <4>1, <4>2, <4>4
      <3>2. ASSUME NEW i \in 1 .. n, s[i] \in T PROVE s[i] \in S
        <4>1. PICK k \in 1 .. n + 1 : s[i] = t[k] /\ \A j \in 1 .. k - 1 : ValueOf[t[j].key] # ValueOf[t[k].key]
            BY <1>1, <3>2
        <4>2. k # n + 1
            BY <1>1, <1>3, <2>2, <4>1
        <4>3. k \in 1 .. n /\ t[k] = s[k] /\ \A j \in 1 .. k - 1 : t[j] = s[j]
            BY <1>1, <4>2
        <4> QED BY <1>1, <4>1, <4>3
      <3> QED BY <3>1, <3>2
    <2>4. e \in T <=> ValueOf[e.key] \notin {ValueOf[r.key] : r \in Range(s)}
      <3>1. e \in T <=> \A j \in 1 .. n : ValueOf[t[j].key] # ValueOf[e.key]
        <4>1. \A i \in 1 .. n : t[i] # e
            BY <1>1, <1>3, <2>2
        <4>2. \A i \in DOMAIN t : t[i] = e <=> i = n + 1
            BY <1>1, <4>1
        <4>3. (n + 1) - 1 = n /\ n + 1 \in DOMAIN t
            BY <1>1
        <4> QED BY <1>1, <4>2, <4>3
      <3> QED BY <1>1, <2>2, <3>1
    <2>5. Range(s) \cap S = Range(s) \cap T
        BY <2>2, <2>3
    <2> HIDE DEF S, T
    <2>6. Kept(s, T) = Kept(s, S)
        BY <2>5, KeptAgrees
    <2>7. Kept(t, T) = IF e \in T THEN Append(Kept(s, T), e) ELSE Kept(s, T)
        BY KeptOneMore DEF t
    <2> QED BY <2>1, <2>4, <2>6, <2>7 DEF t
  <1>6. CASE stage.op = "take"
    <2> DEFINE a == IF stage.n < n THEN stage.n ELSE n
               b == IF stage.n < n + 1 THEN stage.n ELSE n + 1
    <2>1. MeantBy(stage, s) = SubSeq(s, 1, a) /\ MeantBy(stage, t) = SubSeq(t, 1, b) /\ (Lets(stage, s, e) <=> n < stage.n)
        BY <1>1, <1>6 DEF MeantBy, Lets, n
    <2>2. stage.n \in Nat /\ a \in Nat /\ b \in Nat /\ a <= n /\ b <= n + 1 /\ 1 \in Nat \ {0}
        BY <1>1, <1>6, StageKindsAre
    <2>3. /\ SubSeq(s, 1, a) \in Seq(Records) /\ Len(SubSeq(s, 1, a)) = a
          /\ \A i \in 1 .. a : SubSeq(s, 1, a)[i] = s[i]
        BY <1>1, <2>2, PartIs DEF n
    <2>4. /\ SubSeq(t, 1, b) \in Seq(Records) /\ Len(SubSeq(t, 1, b)) = b
          /\ \A i \in 1 .. b : SubSeq(t, 1, b)[i] = t[i]
        BY <1>1, <2>2, PartIs
    <2>5. CASE n < stage.n
      <3>1. a = n /\ b = n + 1
          BY <1>1, <2>2, <2>5
      <3>2. Append(SubSeq(s, 1, a), e) = SubSeq(t, 1, b)
        <4> DEFINE u == SubSeq(s, 1, a)
                   v == SubSeq(t, 1, b)
        <4> HIDE DEF u, v
        <4>1. u \in Seq(Records) /\ Len(u) = n /\ v \in Seq(Records) /\ Len(v) = n + 1
              /\ (\A i \in 1 .. n : u[i] = s[i]) /\ (\A i \in 1 .. n + 1 : v[i] = t[i])
            BY <2>3, <2>4, <3>1 DEF u, v
        <4>2. Append(u, e) \in Seq(Records) /\ Len(Append(u, e)) = n + 1 /\ Append(u, e)[n + 1] = e
              /\ \A i \in 1 .. n : Append(u, e)[i] = u[i]
            BY <4>1
        <4>3. \A i \in 1 .. n + 1 : Append(u, e)[i] = v[i]
            BY <1>1, <4>1, <4>2
        <4>4. Append(u, e) = v
          <5> DEFINE w == Append(u, e)
          <5>1. w \in Seq(Records) /\ Len(w) = Len(v) /\ \A i \in 1 .. Len(w) : w[i] = v[i]
              BY <4>1, <4>2, <4>3
          <5> HIDE DEF w
          <5>2. w = v
              BY <4>1, <5>1, SeqEqual
          <5> QED BY <5>2 DEF w
        <4> QED BY <4>4 DEF u, v
      <3> QED BY <2>1, <2>5, <3>2 DEF t
    <2>6. CASE ~(n < stage.n)
      <3>1. a = b /\ a <= n
          BY <1>1, <2>2, <2>6
      <3>2. \A i \in 1 .. a : s[i] = t[i]
          BY <1>1, <2>2, <3>1
      <3>3. SubSeq(s, 1, a) = SubSeq(t, 1, b)
        <4> DEFINE u == SubSeq(s, 1, a)
                   v == SubSeq(t, 1, b)
        <4> HIDE DEF u, v
        <4>1. u \in Seq(Records) /\ Len(u) = a /\ v \in Seq(Records) /\ Len(v) = a /\ \A i \in 1 .. a : u[i] = v[i]
            BY <2>3, <2>4, <3>1, <3>2 DEF u, v
        <4> QED BY <4>1, SeqEqual DEF u, v
      <3> QED BY <2>1, <2>6, <3>3 DEF t
    <2> QED BY <2>5, <2>6
  <1>7. CASE stage.op = "skip"
    <2> DEFINE m == stage.n + 1
    <2>1. MeantBy(stage, s) = SubSeq(s, m, n) /\ MeantBy(stage, t) = SubSeq(t, m, n + 1) /\ (Lets(stage, s, e) <=> n >= stage.n)
        BY <1>1, <1>7 DEF MeantBy, Lets, n
    <2>2. stage.n \in Nat /\ m \in Nat \ {0} /\ n + 1 \in Nat
        BY <1>1, <1>7, StageKindsAre
    <2> DEFINE u == SubSeq(s, m, n)
               v == SubSeq(t, m, n + 1)
    <2>3. /\ u \in Seq(Records) /\ Len(u) = IF m <= n THEN n - m + 1 ELSE 0
          /\ \A i \in 1 .. Len(u) : u[i] = s[m + i - 1] /\ m + i - 1 \in 1 .. n
      <3>1. n \in Nat /\ n <= Len(s) /\ Len(s) = n
          BY <1>1 DEF n
      <3> HIDE DEF m
      <3> QED BY <2>2, <3>1, PartIs
    <2>4. /\ v \in Seq(Records) /\ Len(v) = IF m <= n + 1 THEN n + 1 - m + 1 ELSE 0
          /\ \A i \in 1 .. Len(v) : v[i] = t[m + i - 1] /\ m + i - 1 \in 1 .. n + 1
      <3>1. n + 1 <= Len(t) /\ Len(t) = n + 1
          BY <1>1
      <3> HIDE DEF m
      <3> QED BY <1>1, <2>2, <3>1, PartIs
    <2> HIDE DEF u, v
    <2>5. CASE n >= stage.n
      <3>1. m <= n + 1 /\ Len(v) = Len(u) + 1 /\ Len(u) \in Nat /\ m + Len(v) - 1 = n + 1
        <4>1. m <= n + 1 /\ (m <= n \/ m = n + 1)
            BY <1>1, <2>2, <2>5
        <4>2. Len(v) = n + 1 - m + 1
            BY <2>4, <4>1
        <4> HIDE DEF m
        <4>3. CASE m <= n
            BY <1>1, <2>2, <2>3, <4>2, <4>3
        <4>4. CASE m = n + 1
            BY <1>1, <2>2, <2>3, <4>2, <4>4
        <4> QED BY <4>1, <4>3, <4>4
      <3> HIDE DEF m
      <3>2. Append(u, e) \in Seq(Records) /\ Len(Append(u, e)) = Len(v) /\ Append(u, e)[Len(v)] = e
            /\ \A i \in 1 .. Len(u) : Append(u, e)[i] = u[i]
          BY <2>3, <3>1
      <3>3. \A i \in 1 .. Len(v) : i \in 1 .. Len(u) \/ i = Len(v)
          BY <3>1
      <3>4. \A i \in 1 .. Len(u) : u[i] = s[m + i - 1] /\ v[i] = t[m + i - 1] /\ t[m + i - 1] = s[m + i - 1]
          BY <1>1, <2>2, <2>3, <2>4, <3>1
      <3>5. v[Len(v)] = e
          BY <1>1, <2>4, <3>1
      <3>6. \A i \in 1 .. Len(v) : Append(u, e)[i] = v[i]
          BY <3>2, <3>3, <3>4, <3>5
      <3>7. Append(u, e) = v
          BY <2>4, <3>2, <3>6, SeqEqual
      <3> QED BY <2>1, <2>5, <3>7 DEF t, u, v
    <2>6. CASE ~(n >= stage.n)
      <3>1. Len(u) = 0 /\ Len(v) = 0
          BY <1>1, <2>2, <2>3, <2>4, <2>6
      <3>2. u = v
          BY <2>3, <2>4, <3>1, SeqEqual
      <3> QED BY <2>1, <2>6, <3>2 DEF t, u, v
    <2> QED BY <2>5, <2>6
  <1>8. CASE stage.op = "group"
      BY <1>8 DEF MeantBy, Lets
  <1> QED BY <1>4, <1>5, <1>6, <1>7, <1>8, StageKindsAre DEF t

\* No stage makes records of none.
LEMMA NothingMeans == ASSUME NEW stage \in StageKinds PROVE MeantBy(stage, <<>>) = <<>>
  <1>1. <<>> \in Seq(Records) /\ Len(<<>>) = 0 /\ Distinct(<<>>)
      BY EmptyIsDistinct
  <1>2. CASE stage.op \in {"filter", "unique"}
      BY <1>2, KeptOfNone DEF MeantBy
  <1>3. CASE stage.op = "sorted"
    <2>1. Sorted(<<>>, stage.reverse) \in Seq(Records) /\ Len(Sorted(<<>>, stage.reverse)) = 0
        BY <1>1, <1>3, SortedIs, StageKindsAre
    <2> QED BY <1>3, <2>1, EmptySeq DEF MeantBy
  <1>4. CASE stage.op = "take"
    <2>1. MeantBy(stage, <<>>) = SubSeq(<<>>, 1, 0)
        BY <1>1, <1>4, StageKindsAre DEF MeantBy
    <2> QED BY <2>1, SubSeqEmpty
  <1>5. CASE stage.op = "skip"
    <2>1. MeantBy(stage, <<>>) = SubSeq(<<>>, stage.n + 1, 0)
        BY <1>1, <1>5 DEF MeantBy
    <2>2. stage.n + 1 \in Int /\ 0 \in Int /\ 0 < stage.n + 1
        BY <1>5, StageKindsAre
    <2> QED BY <2>1, <2>2, SubSeqEmpty
  <1>6. CASE stage.op = "group"
      BY <1>6 DEF MeantBy
  <1> QED BY <1>2, <1>3, <1>4, <1>5, <1>6, StageKindsAre

-----------------------------------------------------------------------------
\* Prefixes: a stage that does not sort means as much more, the more it gets.
Starts(s, t) == Len(s) <= Len(t) /\ \A i \in 1 .. Len(s) : s[i] = t[i]

\* A sequence that begins like another.
LEMMA StartsAgree ==
    ASSUME NEW s \in Seq(Records), NEW t \in Seq(Records), Starts(s, t)
    PROVE  /\ IsPrefix(s, t)
           /\ Len(s) = Len(t) => s = t
           /\ Distinct(t) => Distinct(s)
           /\ Range(s) \subseteq Range(t)
  <1>1. Len(s) \in Nat /\ Len(t) \in Nat /\ DOMAIN s = 1 .. Len(s) /\ DOMAIN t = 1 .. Len(t)
        /\ Len(s) <= Len(t) /\ \A i \in 1 .. Len(s) : s[i] = t[i] /\ i \in 1 .. Len(t)
      BY DEF Starts
  <1>2. Len(s) = Len(t) => s = t
      BY <1>1, SeqEqual
  <1>3. SubSeq(s, 1, Len(s)) = s
      BY SubSeqFull
  <1> DEFINE u == SubSeq(t, 1, Len(s))
  <1>4. u \in Seq(Records) /\ Len(u) = Len(s) /\ \A i \in 1 .. Len(s) : u[i] = t[i]
    <2>1. u \in Seq(Records) /\ Len(u) = (IF 1 <= Len(s) THEN Len(s) - 1 + 1 ELSE 0)
          /\ \A i \in 1 .. Len(u) : u[i] = t[1 + i - 1]
        BY <1>1, PartIs
    <2> HIDE DEF u
    <2>2. Len(u) = Len(s) /\ \A i \in 1 .. Len(s) : 1 + i - 1 = i
        BY <1>1, <2>1
    <2> QED BY <2>1, <2>2
  <1> HIDE DEF u
  <1>5. s = u
      BY <1>1, <1>4, SeqEqual
  <1> QED BY <1>1, <1>2, <1>3, <1>5 DEF IsPrefix, u, Distinct, Range

LEMMA StartsOneMore ==
    ASSUME NEW s \in Seq(Records), NEW t \in Seq(Records), NEW e \in Records
    PROVE  /\ Starts(s, t) => Starts(s, Append(t, e))
           /\ Starts(s, Append(t, e)) => Starts(s, t) \/ s = Append(t, e)
  <1> DEFINE u == Append(t, e)
  <1>1. u \in Seq(Records) /\ Len(u) = Len(t) + 1 /\ Len(t) \in Nat /\ Len(s) \in Nat
        /\ \A i \in 1 .. Len(t) : u[i] = t[i]
      OBVIOUS
  <1> HIDE DEF u
  <1>2. Starts(s, t) => Starts(s, u)
      BY <1>1 DEF Starts
  <1>3. ASSUME Starts(s, u) PROVE Starts(s, t) \/ s = u
    <2>1. CASE Len(s) = Len(u)
        BY <1>1, <1>3, <2>1, StartsAgree
    <2>2. CASE Len(s) # Len(u)
        BY <1>1, <1>3, <2>2 DEF Starts
    <2> QED BY <2>1, <2>2
  <1> QED BY <1>2, <1>3 DEF u

\* What a stage that does not sort means of a beginning is a beginning of what it means.
LEMMA MeaningGrows ==
    ASSUME NEW stage \in StageKinds, stage.op # "sorted",
           NEW s \in Seq(Records), NEW t \in Seq(Records), Distinct(t), Starts(s, t)
    PROVE  Starts(MeantBy(stage, s), MeantBy(stage, t))
  <1> DEFINE P == {r \in Seq(Records) : Distinct(r) =>
                     \A p \in Seq(Records) : Starts(p, r) => Starts(MeantBy(stage, p), MeantBy(stage, r))}
  <1>1. <<>> \in P
    <2>1. ASSUME NEW p \in Seq(Records), Starts(p, <<>>) PROVE Starts(MeantBy(stage, p), MeantBy(stage, <<>>))
      <3>1. Len(p) = Len(<<>>) /\ Len(<<>>) = 0 /\ <<>> \in Seq(Records)
          BY <2>1 DEF Starts
      <3>2. p = <<>>
          BY <2>1, <3>1, StartsAgree
      <3> QED BY <3>1, <3>2, NothingMeans DEF Starts
    <2> QED BY <2>1
  <1>2. ASSUME NEW r \in Seq(Records), NEW e \in Records, r \in P PROVE Append(r, e) \in P
    <2> DEFINE u == Append(r, e)
    <2>1. u \in Seq(Records)
        OBVIOUS
    <2>2. ASSUME Distinct(u), NEW p \in Seq(Records), Starts(p, u)
          PROVE  Starts(MeantBy(stage, p), MeantBy(stage, u))
      <3>1. Distinct(r)
          BY <2>2, RangeOneMore
      <3>2. MeantBy(stage, u) \in {MeantBy(stage, r), Append(MeantBy(stage, r), e)}
          BY <2>2, MeansOneMore
      <3>3. MeantBy(stage, r) \in Seq(Records) /\ MeantBy(stage, u) \in Seq(Records)
          BY <2>1, <2>2, <3>1, MeaningIs
      <3>4. CASE Starts(p, r)
        <4>1. Starts(MeantBy(stage, p), MeantBy(stage, r))
            BY <1>2, <3>1, <3>4
        <4>2. Distinct(p) /\ MeantBy(stage, p) \in Seq(Records)
            BY <3>1, <3>4, StartsAgree, MeaningIs
        <4>3. CASE MeantBy(stage, u) = MeantBy(stage, r)
            BY <4>1, <4>3
        <4>4. CASE MeantBy(stage, u) = Append(MeantBy(stage, r), e)
            BY <3>3, <4>1, <4>2, <4>4, StartsOneMore
        <4> QED BY <3>2, <4>3, <4>4
      <3>5. CASE p = u
        <4>1. Len(MeantBy(stage, u)) \in Nat
            BY <3>3
        <4> QED BY <3>5, <4>1 DEF Starts
      <3> QED BY <2>2, <3>4, <3>5, StartsOneMore
    <2> QED BY <2>1, <2>2
  <1> HIDE DEF P
  <1>3. Seq(Records) \subseteq P
      BY <1>1, <1>2, SequenceInduction
  <1> QED BY <1>3 DEF P

-----------------------------------------------------------------------------
\* What a stage has delivered, and what it remembers, when it got s: a sorted
\* stage waits for the last.
Emitted(stage, s) == IF stage.op = "sorted" THEN <<>> ELSE MeantBy(stage, s)

Remembers(stage, past, s) ==
    /\ stage.op = "unique" => past = {Argument(record) : record \in Range(s)}
    /\ stage.op = "sorted" => past = s
    /\ stage.op \in {"take", "skip"} => past = Len(s)
    /\ stage.op = "take" => Len(s) <= stage.n

\* A stage remembers enough to do with the next record what it means.
LEMMA StageMeans ==
    ASSUME NEW stage \in StageKinds, NEW past, NEW s \in Seq(Records), NEW e \in Records,
           Distinct(Append(s, e)), Remembers(stage, past, s), stage.op = "take" => Len(s) < stage.n
    PROVE  /\ Emitted(stage, Append(s, e)) =
                 IF Stage(stage, past, e).passes THEN Append(Emitted(stage, s), e) ELSE Emitted(stage, s)
           /\ Remembers(stage, Stage(stage, past, e).past, Append(s, e))
  <1> DEFINE t == Append(s, e)
             r == Stage(stage, past, e)
  <1>1. /\ t \in Seq(Records) /\ Len(t) = Len(s) + 1 /\ Len(s) \in Nat
        /\ Range(t) = Range(s) \cup {e}
      BY RangeOneMore
  <1>2. CASE stage.op = "sorted"
    <2>1. r.passes = FALSE /\ r.past = Append(past, e)
        BY <1>2 DEF Stage
    <2>2. past = s
        BY <1>2 DEF Remembers
    <2> HIDE DEF r
    <2>3. Remembers(stage, r.past, t)
        BY <1>2, <2>1, <2>2 DEF Remembers
    <2>4. Emitted(stage, t) = <<>> /\ Emitted(stage, s) = <<>>
        BY <1>2 DEF Emitted
    <2> QED BY <2>1, <2>3, <2>4 DEF r
  <1>3. CASE stage.op # "sorted"
    <2>1. r.passes <=> Lets(stage, s, e)
      <3>1. CASE stage.op = "filter"
          BY <3>1 DEF Stage, Lets
      <3>2. CASE stage.op = "unique"
        <4>1. past = {Argument(record) : record \in Range(s)}
            BY <3>2 DEF Remembers
        <4>2. \A record : Argument(record) = Argument(e) <=> ValueOf[record.key] = ValueOf[e.key]
            BY DEF Argument, HasResult
        <4>3. Argument(e) \notin past <=> ValueOf[e.key] \notin {ValueOf[record.key] : record \in Range(s)}
            BY <4>1, <4>2
        <4>4. r.passes = (Argument(e) \notin past)
            BY <3>2 DEF Stage
        <4>5. Lets(stage, s, e) = (ValueOf[e.key] \notin {ValueOf[record.key] : record \in Range(s)})
            BY <3>2 DEF Lets
        <4> QED BY <4>3, <4>4, <4>5
      <3>3. CASE stage.op = "group"
          BY <3>3 DEF Stage, Lets
      <3>4. CASE stage.op = "take"
          BY <3>4 DEF Stage, Lets
      <3>5. CASE stage.op = "skip"
        <4>1. past = Len(s)
            BY <3>5 DEF Remembers
        <4> QED BY <3>5, <4>1 DEF Stage, Lets
      <3> QED BY <1>3, <3>1, <3>2, <3>3, <3>4, <3>5, StageKindsAre
    <2>2. Emitted(stage, t) = IF Lets(stage, s, e) THEN Append(Emitted(stage, s), e) ELSE Emitted(stage, s)
        BY <1>3, MeansOneMore DEF Emitted
    <2>3. Remembers(stage, r.past, t)
      <3>1. CASE stage.op \in {"filter", "group"}
          BY <3>1 DEF Remembers
      <3>2. CASE stage.op = "unique"
        <4>1. r.past = past \cup {Argument(e)} /\ past = {Argument(record) : record \in Range(s)}
            BY <3>2 DEF Stage, Remembers
        <4>2. r.past = {Argument(record) : record \in Range(t)}
            BY <1>1, <4>1
        <4> QED BY <3>2, <4>2 DEF Remembers
      <3>3. CASE stage.op \in {"take", "skip"}
        <4>1. r.past = past + 1 /\ past = Len(s)
            BY <3>3 DEF Stage, Remembers
        <4>2. stage.op = "take" => stage.n \in Nat /\ Len(t) <= stage.n
            BY <1>1, StageKindsAre
        <4> HIDE DEF r, t
        <4> QED BY <1>1, <3>3, <4>1, <4>2 DEF Remembers
      <3> QED BY <1>3, <3>1, <3>2, <3>3, StageKindsAre
    <2> HIDE DEF r
    <2> QED BY <2>1, <2>2, <2>3 DEF r
  <1> QED BY <1>2, <1>3

-----------------------------------------------------------------------------
\* What a pipeline means after each of its stages.
MeansTo(f, view, s, n) ==
    f = [i \in 0 .. n |-> IF i = 0 THEN s ELSE MeantBy(view[i], f[i - 1])]

Chain(view, s, after) ==
    /\ after \in [0 .. Len(view) -> Seq(Records)]
    /\ after[0] = s
    /\ \A i \in 1 .. Len(view) : after[i] = MeantBy(view[i], after[i - 1])
    /\ \A i \in 0 .. Len(view) : Distinct(after[i])
    /\ Meant(view, s) = after[Len(view)]

LEMMA MeaningGoesOn ==
    ASSUME NEW view, NEW s, NEW n \in Nat
    PROVE  \E f : MeansTo(f, view, s, n)
  <1> DEFINE N == {m \in Nat : \E f : MeansTo(f, view, s, m)}
  <1>1. 0 \in N
    <2>1. MeansTo([i \in 0 .. 0 |-> s], view, s, 0)
        BY DEF MeansTo
    <2> QED BY <2>1
  <1>2. ASSUME NEW m \in Nat, m \in N PROVE m + 1 \in N
    <2>1. PICK f : MeansTo(f, view, s, m)
        BY <1>2
    <2> DEFINE last == MeantBy(view[m + 1], f[m])
               g == [i \in 0 .. m + 1 |-> IF i = m + 1 THEN last ELSE f[i]]
    <2>2. MeansTo(g, view, s, m + 1)
      <3>1. \A i \in 0 .. m : f[i] = IF i = 0 THEN s ELSE MeantBy(view[i], f[i - 1])
          BY <2>1 DEF MeansTo
      <3>2. \A i \in 0 .. m + 1 : g[i] = IF i = 0 THEN s ELSE MeantBy(view[i], g[i - 1])
          BY <3>1
      <3> HIDE DEF last
      <3> QED BY <3>2 DEF MeansTo
    <2> QED BY <2>2
  <1> HIDE DEF N
  <1>3. Nat \subseteq N
      BY <1>1, <1>2, NumberInduction
  <1> QED BY <1>3 DEF N

\* What a pipeline means, stage by stage: the recursion of Meant, unfolded.
LEMMA MeantIs ==
    ASSUME NEW view \in Seq(StageKinds), NEW s \in Seq(Records), Distinct(s)
    PROVE  \E after : Chain(view, s, after)
  <1> DEFINE n == Len(view)
             after == CHOOSE f : f = [i \in 0 .. n |-> IF i = 0 THEN s ELSE MeantBy(view[i], f[i - 1])]
  <1>1. Meant(view, s) = after[n]
      BY DEF Meant
  <1>2. n \in Nat /\ \A i \in 1 .. n : view[i] \in StageKinds
      OBVIOUS
  <1>3. after = [i \in 0 .. n |-> IF i = 0 THEN s ELSE MeantBy(view[i], after[i - 1])]
    <2>1. \E f : MeansTo(f, view, s, n)
        BY <1>2, MeaningGoesOn
    <2> QED BY <2>1 DEF MeansTo
  <1> HIDE DEF n, after
  <1>4. after[0] = s /\ \A i \in 1 .. n : after[i] = MeantBy(view[i], after[i - 1])
      BY <1>2, <1>3
  <1> DEFINE N == {i \in Nat : i <= n => after[i] \in Seq(Records) /\ Distinct(after[i])}
  <1>5. 0 \in N
      BY <1>4
  <1>6. ASSUME NEW i \in Nat, i \in N PROVE i + 1 \in N
    <2> SUFFICES ASSUME i + 1 <= n PROVE after[i + 1] \in Seq(Records) /\ Distinct(after[i + 1])
        OBVIOUS
    <2>1. after[i] \in Seq(Records) /\ Distinct(after[i])
        BY <1>2, <1>6
    <2>2. i + 1 \in 1 .. n /\ (i + 1) - 1 = i
        BY <1>2
    <2>3. after[i + 1] = MeantBy(view[i + 1], after[i]) /\ view[i + 1] \in StageKinds
        BY <1>2, <1>4, <2>2
    <2> QED BY <2>1, <2>3, MeaningIs
  <1> HIDE DEF N
  <1>7. Nat \subseteq N
      BY <1>5, <1>6, NumberInduction
  <1>8. \A i \in 0 .. n : after[i] \in Seq(Records) /\ Distinct(after[i])
      BY <1>2, <1>7 DEF N
  <1>9. after \in [0 .. n -> Seq(Records)]
      BY <1>3, <1>8
  <1> QED BY <1>1, <1>4, <1>8, <1>9 DEF Chain, n

-----------------------------------------------------------------------------
\* What has got how far: the source has given f[from], stage i has delivered f[i].
At(f) == IF phase = "passing" THEN Len(f[from]) + 1 ELSE Len(f[from])

Pulled(after, f) ==
    /\ Starts(f[from], after[from])
    /\ At(f) + Len(rest) = Len(after[from])
    /\ phase = "passing" => hand = after[from][At(f)]
    /\ \A i \in 1 .. Len(rest) :
          rest[i] = IF from = 0 THEN after[from][At(f) + i].key ELSE after[from][At(f) + i]

Flown(f) ==
    /\ f \in [from .. Len(View) -> Seq(Records)]
    /\ \A i \in from .. Len(View) : Distinct(f[i]) /\ Range(f[i]) \subseteq Range(f[from])
    /\ \A i \in from + 1 .. Len(View) :
          /\ f[i] = Emitted(View[i], f[i - 1]) /\ Remembers(View[i], memory[i], f[i - 1])
          /\ phase = "passing" /\ View[i].op = "take" => Len(f[i - 1]) < View[i].n
    /\ out = f[Len(View)]

Moving == phase \in {"pulling", "passing", "acting", "popping"}
Acted == IF phase = "acting" THEN Range(out) \ {hand} ELSE Range(out)

\* While no other thread writes, what was delivered is what the stages mean of the
\* records that were pulled.
Tells == ~disturbed /\ phase # "idle" =>
    /\ been = Range(start) /\ Range(entries) \subseteq Range(start)
    /\ Running /\ asked.by = "evict" => entries = Kept(start, Range(start) \ Acted)
    /\ phase = "acting" => hand \in Range(out)
    /\ Moving => \E after, f : Chain(View, start, after) /\ Pulled(after, f) /\ Flown(f)
    /\ phase = "counting" => out = Meant(View, start)
    /\ phase = "answered" => DeliversWhatIsMeant

\* The numbers of stages and what runs.
LEMMA RunningIs ==
    ASSUME QInv, phase # "idle"
    PROVE  /\ asked \in Questions /\ Len(View) \in Nat /\ from \in 0 .. Len(View) /\ from \in Nat
           /\ DOMAIN memory = 1 .. Len(View) /\ start \in Seq(Records) /\ Distinct(start)
           /\ \A i \in 1 .. Len(View) : View[i] \in StageKinds
           /\ (asked.by = "evict" => ~Partial)
  <1>1. asked \in Questions /\ from \in 0 .. Len(View) /\ DOMAIN memory = 1 .. Len(View)
      BY DEF QInv, RecordsApart
  <1>2. View \in Seq(StageKinds) /\ Len(View) \in Nat
      BY <1>1, QuestionIs DEF View
  <1>3. \A i \in 1 .. Len(View) : View[i] \in StageKinds
      BY <1>2
  <1> QED BY <1>1, <1>2, <1>3 DEF QInv, StoragesTyped, Partial

\* A sorted stage that has not got all yet delivers none, nor do those after it.
LEMMA NonePassesASort ==
    ASSUME QInv, phase # "idle", NEW f, Flown(f), NEW s \in from + 1 .. Len(View), View[s].op = "sorted",
           NEW c \in s .. Len(View)
    PROVE  f[c] = <<>>
  <1>1. Len(View) \in Nat /\ from \in Nat /\ s \in Nat /\ c \in Nat
        /\ \A i \in 1 .. Len(View) : View[i] \in StageKinds
      BY RunningIs
  <1> DEFINE n == Len(View)
             N == {d \in Nat : s + d <= n => f[s + d] = <<>>}
  <1>2. \A i \in from + 1 .. n : f[i] = Emitted(View[i], f[i - 1])
      BY DEF Flown
  <1> HIDE DEF n
  <1>3. 0 \in N
    <2>1. s + 0 = s /\ f[s] = Emitted(View[s], f[s - 1])
        BY <1>1, <1>2 DEF n
    <2> QED BY <2>1 DEF Emitted
  <1>4. ASSUME NEW d \in Nat, d \in N PROVE d + 1 \in N
    <2> SUFFICES ASSUME s + (d + 1) <= n PROVE f[s + (d + 1)] = <<>>
        OBVIOUS
    <2>1. f[s + d] = <<>>
        BY <1>1, <1>4 DEF n
    <2>2. s + (d + 1) \in from + 1 .. n /\ s + (d + 1) - 1 = s + d /\ s + (d + 1) \in 1 .. n
        BY <1>1 DEF n
    <2>3. f[s + (d + 1)] = Emitted(View[s + (d + 1)], <<>>) /\ View[s + (d + 1)] \in StageKinds
        BY <1>1, <1>2, <2>1, <2>2 DEF n
    <2> QED BY <2>3, NothingMeans DEF Emitted
  <1> HIDE DEF N
  <1>5. Nat \subseteq N
      BY <1>3, <1>4, NumberInduction
  <1>6. c - s \in Nat /\ s + (c - s) = c /\ c <= n
      BY <1>1 DEF n
  <1> QED BY <1>5, <1>6 DEF N

\* Where no stage sorts, what was delivered is a prefix of what is meant.
LEMMA FlowStarts ==
    ASSUME QInv, phase # "idle", NEW after, NEW f, Chain(View, start, after), Flown(f), NEW b \in from .. Len(View),
           NEW c \in b .. Len(View), Starts(f[b], after[b]), \A j \in b + 1 .. c : View[j].op # "sorted"
    PROVE  /\ Starts(f[c], after[c])
           /\ f[b] = after[b] => f[c] = after[c]
  <1> DEFINE n == Len(View)
             Goes(i) == Starts(f[i], after[i]) /\ (f[b] = after[b] => f[i] = after[i])
             N == {d \in Nat : b + d <= c => Goes(b + d)}
  <1>1. n \in Nat /\ from \in Nat /\ b \in Nat /\ c \in Nat
        /\ \A i \in 1 .. n : View[i] \in StageKinds
      BY RunningIs
  <1>2. /\ \A i \in from + 1 .. n : f[i] = Emitted(View[i], f[i - 1])
        /\ \A i \in from .. n : f[i] \in Seq(Records)
        /\ \A i \in 1 .. n : after[i] = MeantBy(View[i], after[i - 1])
        /\ \A i \in 0 .. n : after[i] \in Seq(Records) /\ Distinct(after[i])
      BY DEF Flown, Chain
  <1> HIDE DEF n, Goes
  <1>3. 0 \in N
    <2>1. b + 0 = b /\ Goes(b)
        BY <1>1 DEF Goes
    <2> QED BY <2>1
  <1>4. ASSUME NEW d \in Nat, d \in N PROVE d + 1 \in N
    <2> SUFFICES ASSUME b + (d + 1) <= c PROVE Goes(b + (d + 1))
        OBVIOUS
    <2> DEFINE i == b + d
               k == b + (d + 1)
    <2>1. i \in from .. n /\ i \in 0 .. n /\ k \in from + 1 .. n /\ k \in 1 .. n /\ k - 1 = i /\ k \in b + 1 .. c /\ i <= c
        BY <1>1 DEF n
    <2>2. Goes(i)
        BY <1>4, <2>1
    <2> HIDE DEF i, k
    <2>3. View[k] \in StageKinds /\ View[k].op # "sorted" /\ f[k] = MeantBy(View[k], f[i]) /\ after[k] = MeantBy(View[k], after[i])
        BY <1>1, <1>2, <2>1 DEF Emitted
    <2>4. f[i] \in Seq(Records) /\ after[i] \in Seq(Records) /\ Distinct(after[i])
        BY <1>2, <2>1
    <2>5. Goes(k)
        BY <2>2, <2>3, <2>4, MeaningGrows DEF Goes
    <2> QED BY <2>5 DEF k
  <1> HIDE DEF N
  <1>5. Nat \subseteq N
      BY <1>3, <1>4, NumberInduction
  <1>6. c - b \in Nat /\ b + (c - b) = c
      BY <1>1 DEF n
  <1>7. Goes(c)
    <2>1. b + (c - b) <= c
        BY <1>1, <1>6
    <2>2. c - b \in N
        BY <1>5, <1>6
    <2>3. Goes(b + (c - b))
        BY <2>1, <2>2 DEF N
    <2> QED BY <2>3, <1>6
  <1> QED BY <1>7 DEF Goes

\* When a source is over, the stage it ended at has delivered what is meant.
LEMMA OverTells ==
    ASSUME QInv, NEW after, NEW f, Chain(View, start, after), Pulled(after, f), Flown(f), SourceOver
    PROVE  Over \in from .. Len(View) /\ f[Over] = after[Over]
  <1> DEFINE n == Len(View)
  <1>1. phase = "pulling" /\ phase # "idle"
      BY DEF SourceOver
  <1>2. n \in Nat /\ from \in Nat /\ from \in 0 .. n /\ \A i \in 1 .. n : View[i] \in StageKinds
      BY <1>1, RunningIs
  <1>3. /\ \A i \in from + 1 .. n : f[i] = Emitted(View[i], f[i - 1]) /\ Remembers(View[i], memory[i], f[i - 1])
        /\ \A i \in from .. n : f[i] \in Seq(Records)
        /\ \A i \in 1 .. n : after[i] = MeantBy(View[i], after[i - 1])
        /\ \A i \in 0 .. n : after[i] \in Seq(Records) /\ Distinct(after[i])
      BY DEF Flown, Chain
  <1>4. /\ Over \in from .. n
        /\ FullStages = {} => Over = from /\ rest = <<>>
        /\ FullStages # {} => Over \in FullStages
      BY OverIs
  <1>5. Starts(f[from], after[from]) /\ Len(f[from]) + Len(rest) = Len(after[from])
      BY <1>1 DEF Pulled, At
  <1>6. f[from] \in Seq(Records) /\ after[from] \in Seq(Records) /\ from \in from .. n
      BY <1>2, <1>3
  <1> HIDE DEF n
  <1>7. CASE FullStages = {}
    <2>1. Over = from /\ rest = <<>> /\ Len(<<>>) = 0
        BY <1>4, <1>7
    <2>2. Len(f[from]) = Len(after[from])
        BY <1>5, <1>6, <2>1
    <2> QED BY <1>4, <1>5, <1>6, <2>1, <2>2, StartsAgree DEF n
  <1>8. CASE FullStages # {}
    <2> DEFINE i == Over
               p == i - 1
               m == View[i].n
    <2>1. i \in from + 1 .. n /\ Full(i)
        BY <1>4, <1>8 DEF FullStages, View, n
    <2>2. View[i].op = "take" /\ memory[i] >= m
        BY <2>1 DEF Full, View
    <2>3. i \in 1 .. n /\ p \in from .. n /\ p \in 0 .. n /\ i \in from .. n /\ p \in Nat /\ i \in Nat
        BY <1>2, <2>1
    <2> HIDE DEF i, p
    <2>4. /\ View[i] \in StageKinds /\ m \in Nat
          /\ f[p] \in Seq(Records) /\ after[p] \in Seq(Records) /\ Distinct(after[p])
          /\ f[i] \in Seq(Records) /\ after[i] \in Seq(Records)
        BY <1>2, <1>3, <2>2, <2>3, StageKindsAre
    <2>5. Len(f[p]) = m /\ f[i] = MeantBy(View[i], f[p]) /\ after[i] = MeantBy(View[i], after[p])
      <3>1. f[i] = Emitted(View[i], f[i - 1]) /\ Remembers(View[i], memory[i], f[i - 1]) /\ i - 1 = p
            /\ after[i] = MeantBy(View[i], after[i - 1])
          BY <1>3, <2>1, <2>3 DEF p
      <3>2. memory[i] = Len(f[p]) /\ Len(f[p]) <= m
          BY <2>2, <3>1 DEF Remembers
      <3>3. Len(f[p]) = m
          BY <2>2, <2>4, <3>2
      <3> QED BY <2>2, <3>1, <3>3 DEF Emitted
    <2>6. MeantBy(View[i], f[p]) = SubSeq(f[p], 1, m)
        BY <2>2, <2>4, <2>5 DEF MeantBy
    <2>7. CASE m = 0
      <3>1. f[i] = SubSeq(f[p], 1, 0) /\ after[i] = SubSeq(after[p], 1, 0)
          BY <2>2, <2>4, <2>5, <2>6, <2>7 DEF MeantBy
      <3>2. f[i] = <<>> /\ after[i] = <<>>
          BY <3>1, SubSeqEmpty
      <3> QED BY <1>4, <3>2 DEF i, n
    <2>8. CASE m # 0
      <3>1. ASSUME NEW j \in from + 1 .. p PROVE View[j].op # "sorted"
        <4>1. SUFFICES ASSUME View[j].op = "sorted" PROVE FALSE
            OBVIOUS
        <4>2. j \in from + 1 .. n /\ p \in j .. n
            BY <1>2, <2>3
        <4>3. f[p] = <<>>
            BY <1>1, <4>1, <4>2, NonePassesASort DEF n
        <4> QED BY <2>5, <2>8, <4>3
      <3>2. from \in from .. n /\ p \in from .. n
          BY <1>2, <2>3
      <3>3. Starts(f[p], after[p])
          BY <1>1, <1>5, <3>1, <3>2, FlowStarts DEF n
      <3>4. Starts(f[i], after[i])
          BY <2>2, <2>4, <2>5, <3>3, MeaningGrows
      <3>5. Len(f[i]) = m
        <4>1. m <= Len(f[p]) /\ 1 \in Nat \ {0}
            BY <2>4, <2>5
        <4>2. Len(SubSeq(f[p], 1, m)) = IF 1 <= m THEN m - 1 + 1 ELSE 0
            BY <2>4, <4>1, PartIs
        <4> QED BY <2>4, <2>5, <2>6, <2>8, <4>2
      <3>6. Len(after[i]) = m
        <4>1. m <= Len(after[p]) /\ 1 \in Nat \ {0} /\ Len(after[p]) \in Nat
            BY <2>4, <2>5, <3>3 DEF Starts
        <4>2. after[i] = SubSeq(after[p], 1, m)
          <5>1. (IF m < Len(after[p]) THEN m ELSE Len(after[p])) = m
              BY <2>4, <4>1
          <5> QED BY <2>2, <2>5, <5>1 DEF MeantBy
        <4>3. Len(SubSeq(after[p], 1, m)) = IF 1 <= m THEN m - 1 + 1 ELSE 0
            BY <2>4, <4>1, PartIs
        <4> QED BY <2>4, <2>8, <4>2, <4>3
      <3>7. f[i] = after[i]
          BY <2>4, <3>4, <3>5, <3>6, StartsAgree
      <3> QED BY <1>4, <3>7 DEF i, n
    <2> QED BY <2>7, <2>8
  <1> QED BY <1>7, <1>8

\* A query begins.
LEMMA AskTells == ASSUME QInv, NEW q \in Questions, Ask(q) PROVE Tells'
  <1>1. /\ phase = "idle" /\ phase' = "pulling" /\ asked' = q /\ rest' = Listed /\ from' = 0
        /\ memory' = [i \in DOMAIN q.view |-> Fresh(q.view[i])]
        /\ start' = entries /\ been' = Range(entries) /\ entries' = entries /\ out' = out
      BY DEF Ask, storages
  <1>2. entries \in Seq(Records) /\ Distinct(entries) /\ out = <<>>
      BY <1>1 DEF QInv, StoragesTyped
  <1>3. /\ View' = q.view /\ q.view \in Seq(StageKinds) /\ Len(q.view) \in Nat /\ DOMAIN q.view = 1 .. Len(q.view)
        /\ \A i \in 1 .. Len(q.view) : q.view[i] \in StageKinds
    <2>1. View' = q.view /\ q.view \in Seq(StageKinds) /\ Len(q.view) \in Nat
        BY <1>1, QuestionIs DEF View
    <2> QED BY <2>1
  <1>4. PICK after : Chain(q.view, entries, after)
      BY <1>2, <1>3, MeantIs
  <1> DEFINE n == Len(q.view)
             f == [i \in 0 .. n |-> <<>>]
  <1>5. <<>> \in Seq(Records) /\ Range(<<>>) = {} /\ Distinct(<<>>) /\ Len(<<>>) = 0
      BY EmptyIsDistinct
  <1>6. f \in [0 .. n -> Seq(Records)] /\ \A i \in 0 .. n : f[i] = <<>>
      BY <1>5
  <1> HIDE DEF f
  <1>7. Pulled(after, f)'
    <2>1. after[0] = entries /\ f[0] = <<>>
        BY <1>3, <1>4, <1>6 DEF Chain
    <2>2. At(f)' = 0
        BY <1>1, <1>5, <2>1 DEF At
    <2>3. Len(rest') = Len(entries) /\ \A i \in 1 .. Len(rest') : rest'[i] = entries[i].key
      <3>1. rest' = [i \in 1 .. Len(entries) |-> entries[i].key]
          BY <1>1, <1>2 DEF Listed
      <3>2. \A i \in 1 .. Len(entries) : entries[i].key \in Ids
        <4>1. \A i \in 1 .. Len(entries) : entries[i] \in Records
            BY <1>2
        <4> QED BY <4>1 DEF Records
      <3>3. rest' \in Seq(Ids) /\ Len(entries) \in Nat
          BY <1>2, <3>1, <3>2, SeqDef
      <3>4. Len(rest') = Len(entries)
          BY <3>1, <3>3
      <3> QED BY <3>1, <3>4
    <2>4. Len(entries) \in Nat /\ \A i \in 1 .. Len(entries) : 0 + i = i
        BY <1>2
    <2>5. Starts(<<>>, entries)
        BY <1>5, <2>4 DEF Starts
    <2> QED BY <1>1, <2>1, <2>2, <2>3, <2>4, <2>5 DEF Pulled
  <1>8. Flown(f)'
    <2>1. ASSUME NEW i \in from' + 1 .. Len(View')
          PROVE  f[i] = Emitted(View'[i], f[i - 1]) /\ Remembers(View[i], memory[i], f[i - 1])'
      <3>1. i \in 1 .. n /\ i \in 0 .. n /\ i - 1 \in 0 .. n
          BY <1>1, <1>3
      <3>2. View'[i] \in StageKinds /\ f[i] = <<>> /\ f[i - 1] = <<>> /\ memory'[i] = Fresh(View'[i])
          BY <1>1, <1>3, <1>6, <3>1
      <3>3. f[i] = Emitted(View'[i], f[i - 1])
          BY <3>2, NothingMeans DEF Emitted
      <3>4. View'[i].op \in {"filter", "unique", "group", "sorted", "take", "skip"}
            /\ (View'[i].op \in {"take", "skip"} => View'[i].n \in Nat)
          BY <3>2, StageKindsAre
      <3>5. Remembers(View[i], memory[i], f[i - 1])'
          BY <1>5, <3>2, <3>4 DEF Remembers, Fresh
      <3> QED BY <3>3, <3>5
    <2>2. out' = f[Len(View')]
      <3>1. n \in 0 .. n
          BY <1>3
      <3> QED BY <1>1, <1>2, <1>3, <1>6, <3>1
    <2>3. f \in [from' .. Len(View') -> Seq(Records)]
          /\ \A i \in from' .. Len(View') : Distinct(f[i]) /\ Range(f[i]) \subseteq Range(f[from'])
        BY <1>1, <1>3, <1>5, <1>6
    <2> QED BY <1>1, <2>1, <2>2, <2>3 DEF Flown
  <1>9. Chain(View', start', after)
      BY <1>1, <1>3, <1>4
  <1>10. asked'.by = "evict" => entries' = Kept(start', Range(start') \ Acted')
    <2>1. Acted' = {}
        BY <1>1, <1>2, <1>5 DEF Acted
    <2> QED BY <1>1, <1>2, <2>1, KeptWhole
  <1> QED BY <1>1, <1>7, <1>8, <1>9, <1>10 DEF Tells

-----------------------------------------------------------------------------
\* The source gives the next record.
LEMMA PullTells ==
    ASSUME QInv, NEW after, NEW f, Chain(View, start, after), Pulled(after, f), Flown(f), Pulls,
           Becomes("passing"), rest' = Tail(rest), hand' = after[from][Len(f[from]) + 1], UNCHANGED <<from, memory, out, values>>
    PROVE  Pulled(after, f)' /\ Flown(f)' /\ View' = View
  <1>1. phase = "pulling" /\ phase # "idle" /\ FullStages = {} /\ rest # <<>> /\ phase' = "passing" /\ asked' = asked
        /\ from' = from /\ memory' = memory /\ out' = out /\ values' = values /\ View' = View
      BY DEF Pulls, Becomes, View
  <1> DEFINE n == Len(View)
             m == Len(f[from])
  <1>2. n \in Nat /\ from \in Nat /\ from \in 0 .. n /\ \A i \in 1 .. n : View[i] \in StageKinds
      BY <1>1, RunningIs
  <1>3. /\ Starts(f[from], after[from]) /\ m + Len(rest) = Len(after[from])
        /\ \A i \in 1 .. Len(rest) :
              rest[i] = IF from = 0 THEN after[from][m + i].key ELSE after[from][m + i]
      BY <1>1 DEF Pulled, At
  <1>4. f[from] \in Seq(Records) /\ m \in Nat
      BY <1>2 DEF Flown
  <1>5. /\ Len(rest) \in Nat /\ Len(Tail(rest)) = Len(rest) - 1 /\ Len(rest) > 0
        /\ \A i \in 1 .. Len(Tail(rest)) : Tail(rest)[i] = rest[i + 1]
    <2>1. \E T : rest \in Seq(T)
        BY <1>1, <1>2 DEF QInv, RecordsApart
    <2> QED BY <1>1, <2>1, HeadTailProperties
  <1>6. At(f)' = m + 1
      BY <1>1 DEF At
  <1> HIDE DEF n, m
  <1>7. Pulled(after, f)'
    <2>1. m + 1 + Len(Tail(rest)) = Len(after[from])
      <3>1. m \in Nat /\ m + Len(rest) = Len(after[from])
          BY <1>3, <1>4
      <3>2. Len(rest) \in Nat /\ Len(Tail(rest)) = Len(rest) - 1
          BY <1>5
      <3>3. m + 1 + (Len(rest) - 1) = m + Len(rest)
          BY <3>1, <3>2
      <3> QED BY <3>1, <3>2, <3>3, Zenon
    <2>2. ASSUME NEW i \in 1 .. Len(Tail(rest))
          PROVE  Tail(rest)[i] = IF from = 0 THEN after[from][m + 1 + i].key ELSE after[from][m + 1 + i]
      <3>1. i + 1 \in 1 .. Len(rest) /\ m + (i + 1) = m + 1 + i /\ Tail(rest)[i] = rest[i + 1]
          BY <1>4, <1>5
      <3>2. rest[i + 1] = IF from = 0 THEN after[from][m + (i + 1)].key ELSE after[from][m + (i + 1)]
          BY <1>3, <3>1
      <3> QED BY <3>1, <3>2
    <2> QED BY <1>1, <1>3, <1>6, <2>1, <2>2 DEF Pulled, m
  <1>8. Flown(f)'
    <2>1. ASSUME NEW i \in from + 1 .. n, View[i].op = "take" PROVE Len(f[i - 1]) < View[i].n
      <3>1. Remembers(View[i], memory[i], f[i - 1]) /\ View[i] \in StageKinds
          BY <1>2, <2>1 DEF Flown, n
      <3>2. memory[i] = Len(f[i - 1]) /\ Len(f[i - 1]) <= View[i].n
          BY <2>1, <3>1 DEF Remembers
      <3>3. ~(memory[i] >= View[i].n)
          BY <1>1, <2>1 DEF FullStages, Full, View, n
      <3>4. Len(f[i - 1]) \in Nat /\ View[i].n \in Nat
        <4>1. i - 1 \in from .. n
            BY <1>2
        <4>2. f[i - 1] \in Seq(Records)
            BY <4>1 DEF Flown, n
        <4> QED BY <2>1, <3>1, <4>2, StageKindsAre
      <3> QED BY <3>2, <3>3, <3>4
    <2>2. \A i \in from + 1 .. n : Remembers(View[i], memory[i], f[i - 1])'
        BY <1>1 DEF Flown, Remembers, Argument, HasResult, n
    <2> QED BY <1>1, <2>1, <2>2 DEF Flown, n
  <1> QED BY <1>1, <1>7, <1>8

\* Tells, step by step.
LEMMA PullStepTells == ASSUME QInv, Tells, Pull PROVE Tells'
  <1> SUFFICES ASSUME ~disturbed PROVE Tells'
      BY DEF Tells, Pull, ghosts
  <1>1. /\ phase = "pulling" /\ rest # <<>> /\ from = 0 /\ Pulls /\ UNCHANGED <<from, memory, out, storages, ghosts, writes>>
        /\ out' = out /\ entries' = entries /\ start' = start /\ been' = been /\ values' = values /\ from' = from /\ memory' = memory
      BY DEF Pull, Pulls, storages, ghosts
  <1>2. PICK after, f : Chain(View, start, after) /\ Pulled(after, f) /\ Flown(f)
      BY <1>1 DEF Tells, Moving
  <1>3. CASE Ends(<<"KeyError">>)
    <2>1. phase' = "answered" /\ Raised'
        BY <1>3 DEF Ends, Raised
    <2> QED BY <1>1, <2>1 DEF Tells, DeliversWhatIsMeant, Running, Moving
  <1>4. ASSUME NEW record \in Range(entries), record.key = Head(rest),
               Becomes("passing"), hand' = record, rest' = Tail(rest)
        PROVE  Tells'
    <2> DEFINE m == Len(f[from])
    <2>1. start \in Seq(Records) /\ Distinct(start) /\ after[0] = start /\ record \in Range(start)
        BY <1>1, <1>2, <1>4, RunningIs DEF Tells, Chain
    <2>2. m \in Nat /\ m + Len(rest) = Len(start) /\ Len(rest) \in Nat /\ Head(rest) = start[m + 1].key /\ Len(rest) > 0
      <3>1. rest \in Seq(Ids)
          BY <1>1 DEF QInv, RecordsApart
      <3>2. Head(rest) = rest[1] /\ 1 \in 1 .. Len(rest) /\ Len(rest) \in Nat
          BY <1>1, <3>1, HeadLeaves
      <3>3. from \in from .. Len(View)
          BY <1>1, RunningIs
      <3>4. m \in Nat
          BY <1>2, <3>3 DEF Flown
      <3> QED BY <1>1, <1>2, <2>1, <3>2, <3>4 DEF Pulled, At
    <2>3. record = start[m + 1]
      <3>1. PICK i \in DOMAIN start : record = start[i]
          BY <2>1 DEF Range
      <3>2. m + 1 \in DOMAIN start /\ start[i].key = start[m + 1].key
          BY <1>4, <2>1, <2>2, <3>1
      <3>3. i = m + 1
          BY <2>1, <3>2 DEF Distinct
      <3> QED BY <3>1, <3>3
    <2>4. Pulled(after, f)' /\ Flown(f)' /\ View' = View
        BY <1>1, <1>2, <1>4, <2>1, <2>3, PullTells
    <2>5. phase' = "passing" /\ asked' = asked
        BY <1>4 DEF Becomes
    <2>6. Acted' = Acted /\ Running
        BY <1>1, <2>5 DEF Acted, Running
    <2>7. Chain(View', start', after)
        BY <1>1, <1>2, <2>4
    <2> QED BY <1>1, <2>4, <2>5, <2>6, <2>7 DEF Tells
  <1> QED BY <1>1, <1>3, <1>4 DEF Pull

LEMMA PullSortedTells == ASSUME QInv, Tells, PullSorted PROVE Tells'
  <1> SUFFICES ASSUME ~disturbed PROVE Tells'
      BY DEF Tells, PullSorted, ghosts
  <1>1. /\ phase = "pulling" /\ rest # <<>> /\ from > 0 /\ Pulls /\ UNCHANGED <<from, memory, out, storages, ghosts, writes>>
        /\ out' = out /\ entries' = entries /\ start' = start /\ been' = been /\ values' = values /\ from' = from /\ memory' = memory
        /\ Becomes("passing") /\ hand' = Head(rest) /\ rest' = Tail(rest)
      BY DEF PullSorted, Pulls, storages, ghosts
  <1>2. PICK after, f : Chain(View, start, after) /\ Pulled(after, f) /\ Flown(f)
      BY <1>1 DEF Tells, Moving
  <1>3. Head(rest) = after[from][Len(f[from]) + 1]
    <2>1. rest \in Seq(Records) /\ from # 0
        BY <1>1 DEF QInv, RecordsApart
    <2>2. Head(rest) = rest[1] /\ 1 \in 1 .. Len(rest)
        BY <1>1, <2>1, HeadLeaves
    <2> QED BY <1>1, <1>2, <2>1, <2>2 DEF Pulled, At
  <1>4. Pulled(after, f)' /\ Flown(f)' /\ View' = View
      BY <1>1, <1>2, <1>3, PullTells
  <1>5. phase' = "passing" /\ asked' = asked
      BY <1>1 DEF Becomes
  <1>6. Acted' = Acted /\ Running
      BY <1>1, <1>5 DEF Acted, Running
  <1>7. Chain(View', start', after)
      BY <1>1, <1>2, <1>4
  <1> QED BY <1>1, <1>4, <1>5, <1>6, <1>7 DEF Tells

\* The stages get the record on its way.
LEMMA PassTells == ASSUME QInv, Tells, Pass PROVE Tells'
  <1> SUFFICES ASSUME ~disturbed PROVE Tells'
      BY DEF Tells, Pass, ghosts
  <1> DEFINE n == Len(View)
             passes == Reaches(n + 1, hand)
             kept(i) == Reaches(i + 1, hand)
  <1>1. /\ phase = "passing" /\ UNCHANGED <<rest, from, hand, storages, ghosts, writes>>
        /\ memory' = [i \in DOMAIN memory |->
                        IF i > from /\ Reaches(i, hand) THEN Stage(View[i], memory[i], hand).past ELSE memory[i]]
        /\ out' = (IF passes THEN Append(out, hand) ELSE out)
        /\ phase' = (IF passes /\ asked.by \in Effects THEN "acting" ELSE "pulling")
        /\ asked' = asked
      BY DEF Pass, Becomes, View
  <1>2. /\ rest' = rest /\ from' = from /\ hand' = hand /\ entries' = entries /\ values' = values
        /\ start' = start /\ been' = been /\ View' = View /\ phase # "idle"
      BY <1>1 DEF storages, ghosts, View
  <1>3. /\ n \in Nat /\ from \in Nat /\ from \in 0 .. n /\ (\A i \in 1 .. n : View[i] \in StageKinds)
        /\ DOMAIN memory = 1 .. n
      BY <1>2, RunningIs
  <1>4. PICK after, f : Chain(View, start, after) /\ Pulled(after, f) /\ Flown(f)
      BY <1>1 DEF Tells, Moving
  <1>5. /\ f \in [from .. n -> Seq(Records)]
        /\ \A i \in from .. n : f[i] \in Seq(Records) /\ Distinct(f[i]) /\ Range(f[i]) \subseteq Range(f[from])
        /\ \A i \in from + 1 .. n :
              /\ f[i] = Emitted(View[i], f[i - 1]) /\ Remembers(View[i], memory[i], f[i - 1])
              /\ View[i].op = "take" => Len(f[i - 1]) < View[i].n
        /\ out = f[n]
      BY <1>1, <1>4 DEF Flown
  <1> DEFINE m == Len(f[from])
  <1>6. /\ Starts(f[from], after[from]) /\ hand = after[from][m + 1] /\ m + 1 + Len(rest) = Len(after[from])
        /\ \A i \in 1 .. Len(rest) :
              rest[i] = IF from = 0 THEN after[from][m + 1 + i].key ELSE after[from][m + 1 + i]
        /\ after[from] \in Seq(Records) /\ Distinct(after[from]) /\ f[from] \in Seq(Records) /\ m \in Nat
        /\ Len(rest) \in Nat
    <2>1. from \in 0 .. n /\ from \in from .. n
        BY <1>3
    <2>2. Len(rest) \in Nat
        BY <1>2, <1>3 DEF QInv, RecordsApart
    <2>3. /\ Starts(f[from], after[from]) /\ At(f) + Len(rest) = Len(after[from]) /\ hand = after[from][At(f)]
          /\ \A i \in 1 .. Len(rest) :
                rest[i] = IF from = 0 THEN after[from][At(f) + i].key ELSE after[from][At(f) + i]
        BY <1>1, <1>4 DEF Pulled
    <2>4. after[from] \in Seq(Records) /\ Distinct(after[from]) /\ f[from] \in Seq(Records)
        BY <1>4, <1>5, <2>1 DEF Chain
    <2>5. At(f) = m + 1 /\ m \in Nat
        BY <1>1, <2>4 DEF At
    <2> HIDE DEF m
    <2> QED BY <2>2, <2>3, <2>4, <2>5
  <1>7. hand \in Records /\ hand.key \notin KeysOf(f[from])
    <2>1. m + 1 \in 1 .. Len(after[from]) /\ DOMAIN after[from] = 1 .. Len(after[from]) /\ DOMAIN f[from] = 1 .. m
        BY <1>6
    <2>2. ASSUME NEW i \in 1 .. m PROVE f[from][i].key # hand.key
      <3>1. f[from][i] = after[from][i] /\ i \in DOMAIN after[from] /\ i # m + 1
          BY <1>6, <2>1, <2>2 DEF Starts
      <3> QED BY <1>6, <2>1, <3>1 DEF Distinct
    <2> QED BY <1>6, <2>1, <2>2 DEF KeysOf, Range
  <1>8. \A i \in from .. n : hand.key \notin KeysOf(f[i]) /\ hand \notin Range(f[i])
      BY <1>5, <1>7 DEF KeysOf
  <1>9. kept(from) /\ \A i \in from + 1 .. n : kept(i) <=> Reaches(i, hand) /\ Stage(View[i], memory[i], hand).passes
    <2>1. kept(from)
        BY <1>3 DEF Reaches
    <2>2. ASSUME NEW i \in from + 1 .. n
          PROVE  kept(i) <=> Reaches(i, hand) /\ Stage(View[i], memory[i], hand).passes
      <3>1. from + 1 .. (i + 1) - 1 = (from + 1 .. i - 1) \cup {i}
          BY <1>3
      <3>2. kept(i) <=> \A j \in (from + 1 .. i - 1) \cup {i} : Stage(View[j], memory[j], hand).passes
          BY <3>1 DEF Reaches, View
      <3> QED BY <3>2 DEF Reaches, View
    <2> QED BY <2>1, <2>2
  <1>10. PICK g : g = [i \in from .. n |-> IF kept(i) THEN Append(f[i], hand) ELSE f[i]]
      OBVIOUS
  <1> HIDE DEF n, kept, m
  <1>11. \A i \in from .. n : g[i] = IF kept(i) THEN Append(f[i], hand) ELSE f[i]
      BY <1>10
  <1>12. \A i \in from .. n : g[i] \in Seq(Records) /\ Distinct(g[i]) /\ Range(g[i]) \subseteq Range(f[from]) \cup {hand}
                              /\ Range(f[i]) \subseteq Range(g[i])
    <2> SUFFICES ASSUME NEW i \in from .. n
                 PROVE  g[i] \in Seq(Records) /\ Distinct(g[i]) /\ Range(g[i]) \subseteq Range(f[from]) \cup {hand}
                        /\ Range(f[i]) \subseteq Range(g[i])
        OBVIOUS
    <2>1. /\ Append(f[i], hand) \in Seq(Records) /\ Range(Append(f[i], hand)) = Range(f[i]) \cup {hand}
          /\ Distinct(Append(f[i], hand))
        BY <1>5, <1>7, <1>8, RangeOneMore
    <2> QED BY <1>5, <1>11, <2>1
  <1>13. from \in from .. n /\ n \in from .. n
      BY <1>3
  <1>14. g[from] = Append(f[from], hand) /\ Range(g[from]) = Range(f[from]) \cup {hand} /\ Len(g[from]) = m + 1
         /\ (\A i \in 1 .. m : g[from][i] = f[from][i]) /\ g[from][m + 1] = hand
    <2>1. g[from] = Append(f[from], hand)
        BY <1>9, <1>11, <1>13
    <2>2. Range(Append(f[from], hand)) = Range(f[from]) \cup {hand}
        BY <1>6, <1>7, RangeOneMore
    <2> QED BY <1>6, <1>7, <2>1, <2>2 DEF m
  <1>15. g \in [from .. n -> Seq(Records)]
      BY <1>12, <1>10
  <1>16. Pulled(after, g)'
    <2>1. At(g)' = m + 1
        BY <1>1, <1>2, <1>14 DEF At
    <2>2. Starts(g[from], after[from])
      <3>1. m + 1 <= Len(after[from]) /\ \A i \in 1 .. m : f[from][i] = after[from][i]
          BY <1>6 DEF Starts, m
      <3>2. \A i \in 1 .. m + 1 : i \in 1 .. m \/ i = m + 1
          BY <1>6
      <3> QED BY <1>6, <1>14, <3>1, <3>2 DEF Starts
    <2>3. phase' # "passing"
        BY <1>1
    <2> QED BY <1>2, <1>6, <2>1, <2>2, <2>3 DEF Pulled
  <1>17. ASSUME NEW i \in from + 1 .. n
         PROVE  g[i] = Emitted(View[i], g[i - 1]) /\ Remembers(View[i], memory'[i], g[i - 1])
    <2>1. i - 1 \in from .. n /\ i \in from .. n /\ i \in 1 .. n /\ i > from /\ (i - 1) + 1 = i
        BY <1>3
    <2>2. View[i] \in StageKinds /\ memory'[i] = IF Reaches(i, hand) THEN Stage(View[i], memory[i], hand).past ELSE memory[i]
        BY <1>1, <1>3, <2>1
    <2>3. kept(i - 1) <=> Reaches(i, hand)
        BY <2>1 DEF kept
    <2>4. g[i - 1] = (IF kept(i - 1) THEN Append(f[i - 1], hand) ELSE f[i - 1])
          /\ g[i] = (IF kept(i) THEN Append(f[i], hand) ELSE f[i])
        BY <1>11, <2>1
    <2>5. /\ f[i] = Emitted(View[i], f[i - 1]) /\ Remembers(View[i], memory[i], f[i - 1])
          /\ View[i].op = "take" => Len(f[i - 1]) < View[i].n
        BY <1>5
    <2>6. CASE Reaches(i, hand)
      <3>1. f[i - 1] \in Seq(Records) /\ Distinct(Append(f[i - 1], hand))
          BY <1>5, <1>7, <1>8, <2>1, RangeOneMore
      <3>2. /\ Emitted(View[i], Append(f[i - 1], hand)) =
                  IF Stage(View[i], memory[i], hand).passes THEN Append(f[i], hand) ELSE f[i]
            /\ Remembers(View[i], Stage(View[i], memory[i], hand).past, Append(f[i - 1], hand))
          BY <1>7, <2>2, <2>5, <3>1, StageMeans
      <3>3. kept(i) <=> Stage(View[i], memory[i], hand).passes
          BY <1>9, <2>6
      <3> QED BY <2>2, <2>3, <2>4, <2>6, <3>2, <3>3
    <2>7. CASE ~Reaches(i, hand)
      <3>1. ~kept(i)
          BY <1>9, <2>7
      <3> QED BY <2>2, <2>3, <2>4, <2>5, <2>7, <3>1
    <2> QED BY <2>6, <2>7
  <1>18. out' = g[n]
    <2>1. passes <=> kept(n)
        BY DEF kept
    <2> QED BY <1>1, <1>5, <1>11, <1>13, <2>1
  <1>19. Flown(g)'
    <2>1. \A i \in from + 1 .. n : Remembers(View[i], memory[i], g[i - 1])'
        BY <1>2, <1>17 DEF Remembers, Argument, HasResult
    <2>2. \A i \in from .. n : Distinct(g[i]) /\ Range(g[i]) \subseteq Range(g[from])
        BY <1>12, <1>14
    <2>3. phase' # "passing"
        BY <1>1
    <2> QED BY <1>2, <1>15, <1>17, <1>18, <2>1, <2>2, <2>3 DEF Flown, n
  <1>20. Moving' /\ Running /\ phase' \notin {"idle", "passing", "counting", "answered"}
      BY <1>1 DEF Moving, Running
  <1>21. hand \notin Range(out) /\ Range(out') = (IF passes THEN Range(out) \cup {hand} ELSE Range(out))
    <2>1. hand \notin Range(out) /\ out \in Seq(Records)
        BY <1>5, <1>8, <1>13
    <2>2. Range(Append(out, hand)) = Range(out) \cup {hand}
        BY <1>7, <2>1, RangeOneMore
    <2> HIDE DEF passes
    <2> QED BY <1>1, <2>1, <2>2
  <1> HIDE DEF passes
  <1>22. phase' = "acting" => hand' \in Range(out')
      BY <1>1, <1>2, <1>21
  <1>23. asked.by = "evict" => Acted' = Acted
    <2>1. Acted = Range(out) /\ Acted' = (IF phase' = "acting" THEN Range(out') \ {hand} ELSE Range(out'))
        BY <1>1, <1>2 DEF Acted
    <2> QED BY <1>1, <1>21, <2>1 DEF Effects
  <1>24. Chain(View', start', after)
      BY <1>2, <1>4
  <1>25. ~disturbed' /\ been' = Range(start') /\ Range(entries') \subseteq Range(start')
         /\ (asked'.by = "evict" => entries' = Kept(start', Range(start') \ Acted'))
      BY <1>1, <1>2, <1>20, <1>23 DEF Tells, ghosts
  <1> QED BY <1>16, <1>19, <1>20, <1>22, <1>24, <1>25 DEF Tells

LEMMA DrainedTells == ASSUME QInv, Tells, Drained PROVE Tells'
  <1> SUFFICES ASSUME ~disturbed PROVE Tells'
      BY DEF Tells, Drained, ghosts
  <1>1. /\ phase = "pulling" /\ phase' = "counting" /\ SourceOver /\ Sorts(Over) = {}
        /\ asked' = asked /\ out' = out /\ entries' = entries /\ start' = start /\ been' = been
        /\ disturbed' = disturbed /\ View' = View
      BY DEF Drained, SourceOver, Becomes, storages, ghosts, View
  <1>2. PICK after, f : Chain(View, start, after) /\ Pulled(after, f) /\ Flown(f)
      BY <1>1 DEF Tells, Moving
  <1>3. Over \in from .. Len(View) /\ f[Over] = after[Over]
      BY <1>1, <1>2, OverTells
  <1>4. Len(View) \in Nat /\ from \in Nat /\ from \in 0 .. Len(View)
      BY <1>1, RunningIs
  <1>5. Len(View) \in Over .. Len(View) /\ Over \in 0 .. Len(View)
      BY <1>3, <1>4
  <1>6. Starts(f[Over], after[Over])
    <2>1. after[Over] \in Seq(Records)
        BY <1>2, <1>5 DEF Chain
    <2>2. Len(after[Over]) \in Nat
        BY <2>1
    <2> QED BY <1>3, <2>2 DEF Starts
  <1>7. \A j \in Over + 1 .. Len(View) : View[j].op # "sorted"
      BY <1>1 DEF Sorts, View
  <1>8. f[Len(View)] = after[Len(View)]
      BY <1>1, <1>2, <1>3, <1>5, <1>6, <1>7, FlowStarts
  <1>9. out' = Meant(View', start')
      BY <1>1, <1>2, <1>8 DEF Chain, Flown
  <1>10. Acted' = Acted /\ Running
      BY <1>1 DEF Acted, Running
  <1> QED BY <1>1, <1>9, <1>10 DEF Tells, Moving

LEMMA SortTells == ASSUME QInv, Tells, Sort PROVE Tells'
  <1> SUFFICES ASSUME ~disturbed PROVE Tells'
      BY DEF Tells, Sort, ghosts
  <1>1. PICK s \in Sorts(Over) :
         /\ \A j \in Sorts(Over) : s <= j
         /\ \/ ~Comparable(memory[s]) /\ Ends(<<"TypeError">>) /\ UNCHANGED <<rest, from>>
            \/ /\ Comparable(memory[s])
               /\ rest' = Sorted(memory[s], asked.view[s].reverse) /\ from' = s
               /\ UNCHANGED query
      BY DEF Sort
  <1>2. /\ phase = "pulling" /\ SourceOver /\ UNCHANGED <<memory, hand, out, storages, ghosts, writes>>
        /\ memory' = memory /\ out' = out /\ entries' = entries /\ start' = start /\ been' = been /\ values' = values
        /\ disturbed' = disturbed /\ phase # "idle"
      BY DEF Sort, SourceOver, storages, ghosts
  <1>3. CASE Ends(<<"TypeError">>)
    <2>1. phase' = "answered" /\ Raised' /\ asked' = asked
        BY <1>3 DEF Ends, Raised
    <2> QED BY <1>2, <2>1 DEF Tells, DeliversWhatIsMeant, Running, Moving
  <1>4. CASE rest' = Sorted(memory[s], asked.view[s].reverse) /\ from' = s /\ UNCHANGED query
    <2>1. phase' = phase /\ asked' = asked /\ View' = View /\ rest' = Sorted(memory[s], View[s].reverse)
        BY <1>4 DEF query, View
    <2>2. PICK after, f : Chain(View, start, after) /\ Pulled(after, f) /\ Flown(f)
        BY <1>2 DEF Tells, Moving
    <2> DEFINE n == Len(View)
    <2>3. n \in Nat /\ from \in Nat /\ from \in 0 .. n /\ \A i \in 1 .. n : View[i] \in StageKinds
        BY <1>2, RunningIs
    <2>4. Over \in from .. n /\ f[Over] = after[Over]
        BY <1>2, <2>2, OverTells
    <2>5. s \in Over + 1 .. n /\ View[s].op = "sorted" /\ \A j \in Over + 1 .. n : View[j].op = "sorted" => s <= j
        BY <1>1 DEF Sorts, View
    <2> HIDE DEF n
    <2>6. /\ Over \in 0 .. n /\ s - 1 \in Over .. n /\ s - 1 \in 0 .. n /\ s \in from + 1 .. n /\ s \in 1 .. n
          /\ s \in 0 .. n /\ s \in Nat
        BY <2>3, <2>4, <2>5
    <2>7. f[s - 1] = after[s - 1]
      <3>1. Starts(f[Over], after[Over])
        <4>1. after[Over] \in Seq(Records)
            BY <2>2, <2>6 DEF Chain, n
        <4>2. Len(after[Over]) \in Nat
            BY <4>1
        <4> QED BY <2>4, <4>2 DEF Starts
      <3>2. \A j \in Over + 1 .. s - 1 : View[j].op # "sorted"
          BY <2>3, <2>4, <2>5, <2>6
      <3> QED BY <1>2, <2>2, <2>4, <2>6, <3>1, <3>2, FlowStarts DEF n
    <2>8. memory[s] = after[s - 1] /\ after[s] = Sorted(after[s - 1], View[s].reverse) /\ after[s] \in Seq(Records)
      <3>1. Remembers(View[s], memory[s], f[s - 1])
          BY <2>2, <2>6 DEF Flown, n
      <3>2. memory[s] = f[s - 1]
          BY <2>5, <3>1 DEF Remembers
      <3>3. after[s] = MeantBy(View[s], after[s - 1]) /\ after[s] \in Seq(Records)
          BY <2>2, <2>6 DEF Chain, n
      <3> QED BY <2>5, <2>7, <3>2, <3>3 DEF MeantBy
    <2>9. ASSUME NEW i \in s .. n PROVE f[i] = <<>>
        BY <1>2, <2>2, <2>5, <2>6, NonePassesASort DEF n
    <2>10. PICK g : g = [i \in s .. n |-> <<>>]
        OBVIOUS
    <2>11. <<>> \in Seq(Records) /\ Distinct(<<>>) /\ Len(<<>>) = 0
        BY EmptyIsDistinct
    <2>12. g \in [s .. n -> Seq(Records)] /\ \A i \in s .. n : g[i] = <<>> /\ f[i] = <<>>
        BY <2>9, <2>10, <2>11
    <2>13. s \in s .. n /\ n \in s .. n
        BY <2>3, <2>6
    <2>14. Pulled(after, g)'
      <3>1. At(g)' = 0 /\ phase' # "passing"
          BY <1>2, <1>4, <2>1, <2>11, <2>12, <2>13 DEF At
      <3>2. rest' = after[s] /\ Len(after[s]) \in Nat
          BY <2>1, <2>8
      <3>3. Starts(g[s], after[s])
          BY <2>11, <2>12, <2>13, <3>2 DEF Starts
      <3>4. \A i \in 1 .. Len(after[s]) : 0 + i = i
          BY <3>2
      <3>5. s # 0
          BY <2>6
      <3> QED BY <1>4, <3>1, <3>2, <3>3, <3>4, <3>5 DEF Pulled
    <2>15. Flown(g)'
      <3>1. \A i \in s + 1 .. n : i \in from + 1 .. n /\ i - 1 \in s .. n /\ i \in s .. n
          BY <2>3, <2>6
      <3>2. \A i \in s + 1 .. n : g[i] = Emitted(View[i], g[i - 1]) /\ Remembers(View[i], memory[i], g[i - 1])
        <4> SUFFICES ASSUME NEW i \in s + 1 .. n
                     PROVE  g[i] = Emitted(View[i], g[i - 1]) /\ Remembers(View[i], memory[i], g[i - 1])
            OBVIOUS
        <4>1. f[i] = Emitted(View[i], f[i - 1]) /\ Remembers(View[i], memory[i], f[i - 1])
            BY <2>2, <3>1 DEF Flown, n
        <4> QED BY <2>12, <3>1, <4>1
      <3>3. \A i \in s + 1 .. n : Remembers(View[i], memory[i], g[i - 1])'
          BY <1>2, <2>1, <3>2 DEF Remembers, Argument, HasResult
      <3>4. out' = g[n]
          BY <1>2, <2>2, <2>12, <2>13 DEF Flown, n
      <3>5. \A i \in s .. n : Distinct(g[i]) /\ Range(g[i]) \subseteq Range(g[s])
          BY <2>11, <2>12, <2>13
      <3>6. phase' # "passing"
          BY <1>2, <2>1
      <3> QED BY <1>4, <2>1, <2>12, <3>2, <3>3, <3>4, <3>5, <3>6 DEF Flown, n
    <2>16. Acted' = Acted /\ Running
        BY <1>2, <2>1 DEF Acted, Running
    <2>17. Chain(View', start', after)
        BY <1>2, <2>1, <2>2
    <2> QED BY <1>2, <2>1, <2>14, <2>15, <2>16, <2>17 DEF Tells, Moving
  <1> QED BY <1>1, <1>3, <1>4

\* The consumer has done something with the record that was delivered.
LEMMA EffectTells ==
    ASSUME QInv, Tells, phase \in {"acting", "popping"}, UNCHANGED <<pulling, values, ghosts, asked>>,
           phase' \in {"pulling", "popping"}, Range(entries') \subseteq Range(entries),
           asked.by = "evict" => IF phase = "acting" THEN entries' = Without(entries, hand.key) ELSE entries' = entries
    PROVE  Tells'
  <1> SUFFICES ASSUME ~disturbed PROVE Tells'
      BY DEF Tells, ghosts
  <1>1. /\ rest' = rest /\ from' = from /\ memory' = memory /\ hand' = hand /\ out' = out /\ values' = values
        /\ start' = start /\ been' = been /\ disturbed' = disturbed /\ asked' = asked /\ View' = View
        /\ phase # "idle" /\ phase # "passing" /\ phase' \notin {"idle", "passing", "acting", "counting", "answered"}
        /\ Moving /\ Moving' /\ Running
      BY DEF pulling, ghosts, View, Moving, Running
  <1>2. PICK after, f : Chain(View, start, after) /\ Pulled(after, f) /\ Flown(f)
      BY <1>1 DEF Tells
  <1>3. Pulled(after, f)'
    <2>1. At(f)' = At(f)
        BY <1>1 DEF At
    <2> QED BY <1>1, <1>2, <2>1 DEF Pulled
  <1>4. Flown(f)'
    <2>1. \A i \in from + 1 .. Len(View) : Remembers(View[i], memory[i], f[i - 1])'
        BY <1>1, <1>2 DEF Flown, Remembers, Argument, HasResult
    <2> QED BY <1>1, <1>2, <2>1 DEF Flown
  <1>5. asked.by = "evict" => entries' = Kept(start, Range(start) \ Range(out))
    <2> SUFFICES ASSUME asked.by = "evict" PROVE entries' = Kept(start, Range(start) \ Range(out))
        OBVIOUS
    <2>1. entries = Kept(start, Range(start) \ Acted)
        BY <1>1 DEF Tells
    <2>2. CASE phase = "popping"
        BY <2>1, <2>2 DEF Acted
    <2>3. CASE phase = "acting"
      <3> DEFINE S == Range(start) \ (Range(out) \ {hand})
                 T == {record \in Range(entries) : record.key # hand.key}
                 U == Range(start) \ Range(out)
      <3>1. start \in Seq(Records) /\ Distinct(start) /\ entries = Kept(start, S) /\ hand \in Range(out)
            /\ hand \in Range(start) /\ entries' = Kept(entries, T)
          BY <1>1, <2>1, <2>3, RunningIs DEF Acted, Tells, QInv, RecordsApart, Without
      <3>2. Range(entries) = Range(start) \cap S
          BY <3>1, KeptKeeps
      <3>3. \A record \in Range(start) : record.key = hand.key <=> record = hand
          BY <3>1 DEF Range, Distinct
      <3>4. Range(start) \cap (S \cap T) = Range(start) \cap U
          BY <3>1, <3>2, <3>3
      <3> HIDE DEF S, T, U
      <3>5. entries' = Kept(start, S \cap T)
          BY <3>1, KeptTwice
      <3>6. entries' = Kept(start, U)
          BY <3>1, <3>4, <3>5, KeptAgrees
      <3> QED BY <3>6 DEF U
    <2> QED BY <2>2, <2>3
  <1>6. Acted' = Range(out)
      BY <1>1 DEF Acted
  <1>7. Chain(View', start', after)
      BY <1>1, <1>2
  <1>8. been' = Range(start') /\ Range(entries') \subseteq Range(start')
      BY <1>1 DEF Tells
  <1> QED BY <1>1, <1>3, <1>4, <1>5, <1>6, <1>7, <1>8 DEF Tells

LEMMA ActTells == ASSUME QInv, Tells, Act PROVE Tells'
  <1> DEFINE skips == asked.by = "transfer" /\ hand.key \in KeysOf(copied)
  <1>1. /\ phase = "acting" /\ UNCHANGED <<values, pulling, ghosts, writes>>
        /\ IF asked.by # "evict" /\ ~skips /\ ~HasResult(hand)
           THEN Ends(<<"KeyError">>) /\ UNCHANGED <<entries, copied>>
           ELSE /\ entries' = IF asked.by = "evict" THEN Without(entries, hand.key) ELSE entries
                /\ copied' = IF asked.by = "transfer" /\ ~skips THEN Put(copied, hand) ELSE copied
                /\ Becomes(IF asked.pop /\ ~skips THEN "popping" ELSE "pulling")
      BY DEF Act
  <1> HIDE DEF skips
  <1>2. CASE asked.by # "evict" /\ ~skips /\ ~HasResult(hand)
    <2>1. phase' = "answered" /\ Raised' /\ asked' = asked /\ entries' = entries /\ start' = start /\ been' = been
          /\ disturbed' = disturbed
        BY <1>1, <1>2 DEF Ends, Raised, ghosts
    <2> QED BY <1>1, <2>1 DEF Tells, DeliversWhatIsMeant, Running, Moving
  <1>3. CASE ~(asked.by # "evict" /\ ~skips /\ ~HasResult(hand))
    <2>1. /\ entries' = IF asked.by = "evict" THEN Without(entries, hand.key) ELSE entries
          /\ phase' \in {"pulling", "popping"} /\ UNCHANGED <<asked>>
        BY <1>1, <1>3 DEF Becomes
    <2>2. entries \in Seq(Records) /\ Distinct(entries)
        BY DEF QInv, StoragesTyped
    <2>3. Range(entries') \subseteq Range(entries)
        BY <2>1, <2>2, RecordsWithoutIs
    <2> QED BY <1>1, <2>1, <2>3, EffectTells
  <1> QED BY <1>2, <1>3

LEMMA PopTells == ASSUME QInv, Tells, Pop PROVE Tells'
  <1>1. /\ phase = "popping" /\ entries' = Without(entries, hand.key) /\ phase' = "pulling"
        /\ UNCHANGED <<values, copied, pulling, ghosts, writes, asked, void, answer>>
      BY DEF Pop, Becomes
  <1>2. entries \in Seq(Records) /\ Distinct(entries) /\ asked.by = "transfer"
      BY <1>1 DEF QInv, StoragesTyped, StorageKeeps
  <1>3. Range(entries') \subseteq Range(entries)
      BY <1>1, <1>2, RecordsWithoutIs
  <1> QED BY <1>1, <1>2, <1>3, EffectTells

\* The consumer returns: it had all, or as many as it needs.
LEMMA ConsumeTells == ASSUME QInv, Tells, Consume PROVE Tells'
  <1> SUFFICES ASSUME ~disturbed PROVE Tells'
      BY DEF Tells, Consume, ghosts
  <1>1. /\ phase = "counting" \/ (phase = "pulling" /\ Enough)
        /\ phase' = "answered" /\ asked' = asked /\ out' = out /\ entries' = entries /\ start' = start /\ been' = been
        /\ disturbed' = disturbed /\ View' = View
      BY DEF Consume, Ends, pulling, storages, ghosts, View
  <1> DEFINE all == Meant(View, start)
             needed == IF asked.by = "only" THEN 2 ELSE 1
  <1>2. out \in Seq(Records) /\ phase # "idle"
      BY <1>1 DEF QInv, RecordsApart
  <1>3. /\ IF Partial THEN IsPrefix(out, all) /\ (Len(out) = needed \/ out = all) ELSE out = all
        /\ asked.by = "evict" => entries = Kept(start, Range(start) \ Range(all))
    <2>1. CASE phase = "counting"
      <3>1. out = all
          BY <1>1, <2>1 DEF Tells
      <3>2. IsPrefix(out, out)
        <4>1. Starts(out, out)
            BY <1>2 DEF Starts
        <4> QED BY <1>2, <4>1, StartsAgree
      <3>3. asked.by = "evict" => entries = Kept(start, Range(start) \ Range(out))
          BY <2>1 DEF Tells, Running, Acted
      <3> QED BY <3>1, <3>2, <3>3
    <2>2. CASE phase = "pulling" /\ Enough
      <3>1. PICK after, f : Chain(View, start, after) /\ Pulled(after, f) /\ Flown(f)
          BY <2>2 DEF Tells, Moving
      <3>2. Partial /\ Len(out) = needed /\ asked.by # "evict" /\ needed # 0
          BY <2>2 DEF Enough, Partial
      <3>3. Len(View) \in Nat /\ from \in Nat /\ from \in 0 .. Len(View)
          BY <1>2, RunningIs
      <3>4. from \in from .. Len(View) /\ Len(View) \in from .. Len(View) /\ Len(View) \in 0 .. Len(View)
          BY <3>3
      <3>5. \A j \in from + 1 .. Len(View) : View[j].op # "sorted"
        <4>1. out # <<>>
            BY <3>2
        <4>2. Sorts(from) = {}
            BY <1>2, <4>1 DEF QInv, RecordsApart
        <4> QED BY <4>2 DEF Sorts, View
      <3>6. Starts(f[from], after[from])
          BY <3>1 DEF Pulled
      <3>7. Starts(f[Len(View)], after[Len(View)])
          BY <1>2, <3>1, <3>4, <3>5, <3>6, FlowStarts
      <3>8. out = f[Len(View)] /\ all = after[Len(View)] /\ all \in Seq(Records)
          BY <3>1, <3>4 DEF Flown, Chain
      <3> HIDE DEF all, needed
      <3>9. IsPrefix(out, all)
          BY <1>2, <3>7, <3>8, StartsAgree
      <3> QED BY <3>2, <3>9
    <2> QED BY <1>1, <2>1, <2>2
  <1>4. DeliversWhatIsMeant'
    <2>1. Partial' <=> Partial
        BY <1>1 DEF Partial
    <2>2. asked'.view = View /\ asked'.by = asked.by
        BY <1>1 DEF View
    <2> QED BY <1>1, <1>3, <2>1, <2>2 DEF DeliversWhatIsMeant
  <1> QED BY <1>1, <1>4 DEF Tells, Running, Moving

LEMMA TellsStays == ASSUME Tells, UNCHANGED queryVars PROVE Tells'
  <1>1. UNCHANGED <<entries, values, copied, rest, from, memory, hand, out, phase, asked, void, answer,
                    start, been, gone, disturbed>>
      BY DEF queryVars, storages, pulling, query, ghosts
  <1>2. View' = View /\ Acted' = Acted /\ (Running' <=> Running) /\ (Moving' <=> Moving)
      BY <1>1 DEF View, Acted, Running, Moving
  <1>3. \A f : At(f)' = At(f)
      BY <1>1 DEF At
  <1>4. \A after, f : Pulled(after, f)' <=> Pulled(after, f)
      BY <1>1, <1>3 DEF Pulled
  <1>5. \A f : Flown(f)' <=> Flown(f)
      BY <1>1, <1>2 DEF Flown, Remembers, Argument, HasResult
  <1>6. DeliversWhatIsMeant' <=> DeliversWhatIsMeant
      BY <1>1 DEF DeliversWhatIsMeant, Raised, Partial
  <1> QED BY <1>1, <1>2, <1>4, <1>5, <1>6 DEF Tells

\* The other thread writes.
LEMMA WritesTell == ASSUME Writes PROVE Tells'
  BY DEF Writes, Tells

LEMMA TellingStep == ASSUME QInv, Tells, [QueryNext]_queryVars PROVE Tells'
  BY AskTells, PullStepTells, PullSortedTells, PassTells, DrainedTells, SortTells, ActTells, PopTells, ConsumeTells,
     WritesTell, TellsStays DEF QueryNext, Traverse, EvictRecord, SaveRecord, CollectValues

\* For any records, stages and consumers (QueryIterator, query.py 30-316, over
\* MemoryBackend): when no other thread writes, a query delivers the records that
\* its stages mean of the cache, or the first of them; when one does, none twice
\* and none that never was there, without missing one that stayed; it fails for a
\* reason, finds the latest or oldest call, and puts each record into one group.
THEOREM QueriesTell == QuerySpec => []QueriesTellTheCache
  <1>1. QueryInit => QInv /\ Tells
      BY QueryBegins DEF QueryInit, Tells
  <1>2. QInv /\ Tells /\ [QueryNext]_queryVars => (QInv /\ Tells)'
      BY QueryStep, TellingStep
  <1>3. QInv /\ Tells => QueriesTellTheCache
    <2> SUFFICES ASSUME QInv, Tells, phase = "answered"
                 PROVE  DeliversWhatIsMeant /\ MissesAndRepeatsNone /\ FailsForAReason /\ FindsTheExtreme /\ GroupsHoldAll
        BY DEF QueriesTellTheCache
    <2>1. DeliversWhatIsMeant
      <3>1. CASE disturbed
          BY <3>1 DEF DeliversWhatIsMeant
      <3>2. CASE ~disturbed
          BY <3>2 DEF Tells
      <3> QED BY <3>1, <3>2
    <2>2. MissesAndRepeatsNone /\ FailsForAReason /\ FindsTheExtreme
        BY DEF QInv, AnswersHold
    <2> QED BY <2>1, <2>2, GroupsAre
  <1> QED BY <1>1, <1>2, <1>3, PTL DEF QuerySpec
=============================================================================
