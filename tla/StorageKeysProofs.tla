-------------------------- MODULE StorageKeysProofs --------------------------
(***************************************************************************)
(* What holds of the keys of storages.  Of the lock table, for every number *)
(* of threads, keys, tables and locks: type correctness for any set of       *)
(* equal instances, and mutual exclusion and the refinement of KeyMutex when *)
(* one instance stands behind the table (with two, MCPerKeyLock finds a      *)
(* violation).  Of short digests, which share nothing with it: what they     *)
(* name, for every length, alphabet and number of digests.                  *)
(***************************************************************************)
EXTENDS PerKeyLock, DigestPrefixes, FiniteSetTheorems, SequenceTheorems, WellFoundedInduction,
        TLAPS

-----------------------------------------------------------------------------
\* Lemmas on stacks.

\* Pushing adds one element to what the stack contains.
LEMMA PushContents ==
    ASSUME NEW S, NEW s \in Seq(S), NEW e \in S
    PROVE  /\ Append(s, e) \in Seq(S)
           /\ Append(s, e) # <<>>
           /\ {Append(s, e)[n] : n \in 1..Len(Append(s, e))}
                = {s[n] : n \in 1..Len(s)} \cup {e}
  <1>1. /\ Append(s, e) \in Seq(S)
        /\ Append(s, e) # <<>>
        /\ Len(Append(s, e)) = Len(s) + 1
        /\ \A n \in 1..Len(s) : Append(s, e)[n] = s[n]
        /\ Append(s, e)[Len(s) + 1] = e
    BY AppendProperties
  <1>2. Len(s) \in Nat
    BY LenProperties
  <1>3. 1..(Len(s) + 1) = 1..Len(s) \cup {Len(s) + 1}
    BY <1>2
  <1>4. QED
    BY <1>1, <1>2, <1>3

\* Popping keeps the other elements where they are.
LEMMA PopContents ==
    ASSUME NEW S, NEW s \in Seq(S), s # <<>>
    PROVE  /\ Len(s) \in Nat \ {0}
           /\ SubSeq(s, 1, Len(s) - 1) \in Seq(S)
           /\ Len(SubSeq(s, 1, Len(s) - 1)) = Len(s) - 1
           /\ {SubSeq(s, 1, Len(s) - 1)[n] : n \in 1..Len(SubSeq(s, 1, Len(s) - 1))}
                \subseteq {s[n] : n \in 1..Len(s)}
           /\ \A n \in 1..(Len(s) - 1) : SubSeq(s, 1, Len(s) - 1)[n] = s[n]
           /\ Len(s) # 1 => SubSeq(s, 1, Len(s) - 1) # <<>>
           /\ Len(s) = 1 => SubSeq(s, 1, Len(s) - 1) = <<>>
  <1>1. Len(s) \in Nat /\ Len(s) # 0
    BY LenProperties, EmptySeq
  <1>a. \A n \in 1..(Len(s) - 1) : s[n] \in S
    BY <1>1, ElementOfSeq
  <1>2. /\ SubSeq(s, 1, Len(s) - 1) \in Seq(S)
        /\ Len(SubSeq(s, 1, Len(s) - 1)) = Len(s) - 1
        /\ \A n \in 1..(Len(s) - 1) : SubSeq(s, 1, Len(s) - 1)[n] = s[n]
    <2> DEFINE m == Len(s) - 1
    <2>1. m \in Int /\ 1 \in Int /\ m - 1 + 1 = m /\ m >= 0
      BY <1>1
    <2>2. /\ SubSeq(s, 1, m) \in Seq(S)
          /\ Len(SubSeq(s, 1, m)) = IF 1 <= m THEN m - 1 + 1 ELSE 0
          /\ \A n \in 1..(m - 1 + 1) : SubSeq(s, 1, m)[n] = s[1 + n - 1]
      BY <1>a, <2>1, SubSeqProperties
    <2> HIDE DEF m
    <2>3. /\ Len(SubSeq(s, 1, m)) = m
          /\ \A n \in 1..m : SubSeq(s, 1, m)[n] = s[n]
      BY <2>1, <2>2
    <2>4. QED
      BY <2>2, <2>3 DEF m
  <1>3. {SubSeq(s, 1, Len(s) - 1)[n] : n \in 1..Len(SubSeq(s, 1, Len(s) - 1))}
          \subseteq {s[n] : n \in 1..Len(s)}
    BY <1>1, <1>2
  <1>4. \A q \in Seq(S) : q = <<>> <=> Len(q) = 0
    BY EmptySeq
  <1>5. /\ Len(s) # 1 => SubSeq(s, 1, Len(s) - 1) # <<>>
        /\ Len(s) = 1 => SubSeq(s, 1, Len(s) - 1) = <<>>
    <2> DEFINE q == SubSeq(s, 1, Len(s) - 1)
    <2>1. q \in Seq(S) /\ Len(q) = Len(s) - 1
      BY <1>2
    <2>2. q = <<>> <=> Len(q) = 0
      BY <1>4, <2>1
    <2> HIDE DEF q
    <2>3. (Len(s) # 1 => q # <<>>) /\ (Len(s) = 1 => q = <<>>)
      BY <1>1, <2>1, <2>2
    <2>4. QED
      BY <2>3 DEF q
  <1>6. QED
    BY <1>1, <1>2, <1>3, <1>5

\* Entering the head of what is still to do.
LEMMA HeadTail ==
    ASSUME NEW S, NEW s \in Seq(S), s # <<>>
    PROVE  /\ Head(s) \in S
           /\ Tail(s) \in Seq(S)
           /\ Tail(s) = <<>> <=> Len(s) = 1
  <1>1. Len(s) \in Nat /\ Len(s) # 0
    BY LenProperties, EmptySeq
  <1>2. Head(s) \in S /\ Tail(s) \in Seq(S) /\ Len(Tail(s)) = Len(s) - 1
    BY HeadTailProperties
  <1>3. \A q \in Seq(S) : q = <<>> <=> Len(q) = 0
    BY EmptySeq
  <1>4. Tail(s) = <<>> <=> Len(Tail(s)) = 0
    BY <1>2, <1>3
  <1>5. QED
    BY <1>1, <1>2, <1>4

\* Every operation enters at least one key.
LEMMA ProgramsAreKeyTuples == \A p \in Programs : p \in Seq(Keys) /\ p # <<>>
  <1>1. \A k \in Keys : NestedKeys(k) \in Seq(Keys) /\ NestedKeys(k) # <<>>
    BY DEF NestedKeys
  <1>2. \A old, new \in Keys :
          RedigestKeys(old, new) \in Seq(Keys) /\ RedigestKeys(old, new) # <<>>
    BY DEF RedigestKeys
  <1>3. QED
    BY <1>1, <1>2, ShrinkArgsAreKeyTuples DEF Programs

-----------------------------------------------------------------------------
\* Type correctness.

LEMMA InitTypeOK == Init => TypeOK
  BY NoneIsNoObject, EmptySeq DEF Init, TypeOK, Bookkeeping, Steps

LEMMA TypeOKInductive == ASSUME TypeOK, [Next]_vars PROVE TypeOK'
  <1> USE NoneIsNoObject
  <1>1. ASSUME NEW t \in Threads, Begin(t) PROVE TypeOK'
    BY <1>1, ProgramsAreKeyTuples DEF Begin, TypeOK, Bookkeeping, Steps
  <1>2. ASSUME NEW t \in Threads, Lookup(t) PROVE TypeOK'
    <2>1. \A u \in Threads : Bookkeeping(u)'
      BY <1>2 DEF Lookup, TypeOK, Bookkeeping, Steps
    <2>2. tab' \in [Threads -> Tables \cup {None}] /\ pc' \in [Threads -> Steps]
      <3>1. /\ tab \in [Threads -> Tables \cup {None}] /\ pc \in [Threads -> Steps]
            /\ table \in Tables \cup {None}
        BY DEF TypeOK
      <3>2. CASE anchor # None
        BY <1>2, <3>1, <3>2 DEF Lookup, Steps
      <3>3. CASE anchor = None
        BY <1>2, <3>1, <3>3 DEF Lookup, Steps
      <3>4. QED
        BY <3>2, <3>3
    <2>3. UNCHANGED <<alive, anchor, table, key_locks, inst, todo, got, frames>>
      BY <1>2 DEF Lookup
    <2>4. QED
      BY <2>1, <2>2, <2>3 DEF TypeOK
  <1>3. ASSUME NEW t \in Threads, CreateTable(t) PROVE TypeOK'
    <2>1. inst[t] \in Instances
      BY <1>3 DEF CreateTable, TypeOK, Bookkeeping, Steps
    <2>2. tab' = [tab EXCEPT ![t] = tab'[t]] /\ tab'[t] \in Tables
      BY <1>3 DEF CreateTable, TypeOK
    <2>3. \A u \in Threads : Bookkeeping(u)'
      BY <1>3, <2>2 DEF CreateTable, TypeOK, Bookkeeping, Steps
    <2>4. /\ anchor' \in Instances \cup {None}
          /\ table' \in Tables \cup {None}
          /\ anchor' = None <=> table' = None
          /\ key_locks' \in [Tables -> [Keys -> Locks \cup {None}]]
      <3>1. CASE anchor # None
        BY <1>3, <3>1 DEF CreateTable, TypeOK
      <3>2. CASE anchor = None
        <4>1. PICK b \in Tables :
                /\ anchor' = inst[t]
                /\ table' = b
                /\ key_locks' = [key_locks EXCEPT ![b] = [k \in Keys |-> None]]
          BY <1>3, <3>2 DEF CreateTable
        <4> DEFINE empty == [k \in Keys |-> None]
        <4>2. empty \in [Keys -> Locks \cup {None}]
          OBVIOUS
        <4> HIDE DEF empty
        <4>3. key_locks' = [key_locks EXCEPT ![b] = empty]
          BY <4>1 DEF empty
        <4>4. QED
          BY <2>1, <4>1, <4>2, <4>3 DEF TypeOK
      <3>3. QED
        BY <3>1, <3>2
    <2>5. QED
      BY <1>3, <2>2, <2>3, <2>4 DEF CreateTable, TypeOK, Steps
  <1>4. ASSUME NEW t \in Threads, GetOrCreateLock(t) PROVE TypeOK'
    <2>1. todo[t] # <<>> /\ todo[t] \in Seq(Keys) /\ tab[t] \in Tables
      BY <1>4 DEF GetOrCreateLock, TypeOK, Bookkeeping, Steps
    <2>2. Head(todo[t]) \in Keys
      BY <2>1, HeadTail
    <2>3. QED
      <3>1. got' = [got EXCEPT ![t] = got'[t]] /\ got'[t] \in Locks
        BY <1>4, <2>1, <2>2 DEF GetOrCreateLock, TypeOK
      <3>2. key_locks' \in [Tables -> [Keys -> Locks \cup {None}]]
        <4> DEFINE T == [Keys -> Locks \cup {None}]
        <4>1. CASE UNCHANGED key_locks
          BY <4>1 DEF TypeOK
        <4>2. CASE ~UNCHANGED key_locks
          <5>1. PICK n \in Locks :
                  key_locks' = [key_locks EXCEPT ![tab[t]][Head(todo[t])] = n]
            BY <1>4, <4>2 DEF GetOrCreateLock
          <5>2. [key_locks[tab[t]] EXCEPT ![Head(todo[t])] = n] \in T
            BY <2>1 DEF TypeOK
          <5>3. QED
            BY <2>1, <5>1, <5>2 DEF TypeOK
        <4>3. QED
          BY <4>1, <4>2
      <3>3. \A u \in Threads : Bookkeeping(u)'
        BY <1>4, <3>1 DEF GetOrCreateLock, TypeOK, Bookkeeping, Steps
      <3>4. QED
        BY <1>4, <3>1, <3>2, <3>3 DEF GetOrCreateLock, TypeOK, Steps
  <1>5. ASSUME NEW t \in Threads, Acquire(t) PROVE TypeOK'
    <2>1. /\ todo[t] # <<>> /\ todo[t] \in Seq(Keys)
          /\ got[t] \in Locks /\ tab[t] # None /\ inst[t] # None
      BY <1>5 DEF Acquire, TypeOK, Bookkeeping, Steps
    <2> DEFINE f == [key |-> Head(todo[t]), lock |-> got[t]]
    <2>2. /\ f \in Frame
          /\ Tail(todo[t]) \in Seq(Keys)
          /\ Tail(todo[t]) = <<>> <=> Len(todo[t]) = 1
      BY <2>1, HeadTail DEF Frame
    <2>3. Append(frames[t], f) \in Seq(Frame) /\ Append(frames[t], f) # <<>>
      BY <2>2, PushContents DEF TypeOK
    <2> HIDE DEF f
    <2>4. /\ frames' = [frames EXCEPT ![t] = Append(frames[t], f)]
          /\ todo' = [todo EXCEPT ![t] = Tail(todo[t])]
          /\ pc' = [pc EXCEPT ![t] = IF Len(todo[t]) = 1 THEN "inside" ELSE "lookup"]
          /\ got' = [got EXCEPT ![t] = None]
          /\ UNCHANGED <<alive, anchor, table, key_locks, inst, tab>>
      BY <1>5 DEF Acquire, f
    <2>5. QED
      BY <2>1, <2>2, <2>3, <2>4 DEF TypeOK, Bookkeeping, Steps
  <1>6. ASSUME NEW t \in Threads, Exit(t) PROVE TypeOK'
    <2>1. frames[t] # <<>> /\ frames[t] \in Seq(Frame)
      BY <1>6 DEF Exit, TypeOK, Bookkeeping, Steps
    <2> DEFINE s == SubSeq(frames[t], 1, Len(frames[t]) - 1)
    <2>2. s \in Seq(Frame) /\ (Len(frames[t]) = 1 <=> s = <<>>)
      BY <2>1, PopContents
    <2> HIDE DEF s
    <2>3. /\ frames' = [frames EXCEPT ![t] = s]
          /\ pc[t] = "inside"
          /\ IF s = <<>>
             THEN /\ pc' = [pc EXCEPT ![t] = "idle"]
                  /\ inst' = [inst EXCEPT ![t] = None]
                  /\ tab' = [tab EXCEPT ![t] = None]
             ELSE UNCHANGED <<pc, inst, tab>>
          /\ UNCHANGED <<alive, anchor, table, key_locks, todo, got>>
      BY <1>6, <2>2 DEF Exit, s
    <2>4. QED
      <3>1. TypeOK /\ todo[t] = <<>> /\ got[t] = None
        BY <2>3 DEF TypeOK, Bookkeeping, Steps
      <3>2. /\ pc' \in [Threads -> Steps]
            /\ inst' \in [Threads -> Instances \cup {None}]
            /\ tab' \in [Threads -> Tables \cup {None}]
            /\ frames' \in [Threads -> Seq(Frame)]
        BY <2>2, <2>3, <3>1 DEF TypeOK, Steps
      <3>3. \A u \in Threads : Bookkeeping(u)'
        <4> SUFFICES ASSUME NEW u \in Threads PROVE Bookkeeping(u)'
          OBVIOUS
        <4>1. CASE u = t
          BY <2>1, <2>2, <2>3, <3>1, <4>1 DEF TypeOK, Bookkeeping, Steps
        <4>2. CASE u # t
          BY <2>3, <3>1, <4>2 DEF TypeOK, Bookkeeping
        <4>3. QED
          BY <4>1, <4>2
      <3>4. QED
        BY <2>3, <3>1, <3>2, <3>3 DEF TypeOK
  <1>7. ASSUME NEW b \in Tables, NEW k \in Keys, CollectLock(b, k) PROVE TypeOK'
    BY <1>7 DEF CollectLock, TypeOK, Bookkeeping
  <1>8. ASSUME NEW i \in Instances, DropInstance(i) PROVE TypeOK'
    BY <1>8 DEF DropInstance, TypeOK, Bookkeeping
  <1>9. ASSUME NEW i \in Instances, NewInstance(i) PROVE TypeOK'
    BY <1>9 DEF NewInstance, TypeOK, Bookkeeping
  <1>10. CASE UNCHANGED vars
    BY <1>10 DEF vars, TypeOK, Bookkeeping
  <1>11. QED
    BY <1>1, <1>2, <1>3, <1>4, <1>5, <1>6, <1>7, <1>8, <1>9, <1>10
       DEF Next, Step

\* Every reachable state is well typed, whatever the instances: in
\* particular a thread that is past _get_key_lock's lookup has a table.
THEOREM TypeCorrect == Spec => []TypeOK
  <1>1. TypeOK /\ [Next]_vars => TypeOK'
    BY TypeOKInductive
  <1>2. QED
    BY <1>1, InitTypeOK, PTL DEF Spec

-----------------------------------------------------------------------------
(***************************************************************************)
(* Mutual exclusion.  Two threads on one key exclude each other because    *)
(* both hold the lock that the table lists for the key, and a lock has one *)
(* holder.  So the invariant must say that all of them read one table,     *)
(* which is where the anchor matters: an entry may vanish only when nobody *)
(* works on its storage.                                                   *)
(***************************************************************************)

\* Threads keep their instance alive, and have looked up the current table.
OneTable ==
    /\ anchor # None => anchor \in alive
    /\ \A t \in Threads : inst[t] # None => inst[t] \in alive
    /\ \A t \in Threads : tab[t] # None => inst[t] # None /\ tab[t] = table

\* A lock has at most one holder.
LockExclusive ==
    \A t, u \in Threads : t # u => HeldLocks(t) \cap HeldLocks(u) = {}

IInv == TypeOK /\ OneTable /\ LocksAreListed /\ LockExclusive

\* Acquire pushes the key and the lock on the thread's stack, and no other.
LEMMA AcquireFrames ==
    ASSUME TypeOK, NEW t \in Threads, Acquire(t)
    PROVE  /\ FramesOf(t)' = FramesOf(t) \cup
                  {[key |-> Head(todo[t]), lock |-> got[t]]}
           /\ \A u \in Threads \ {t} : FramesOf(u)' = FramesOf(u)
  <1> DEFINE f == [key |-> Head(todo[t]), lock |-> got[t]]
  <1>1. f \in Frame
    <2>1. todo[t] # <<>> /\ todo[t] \in Seq(Keys) /\ got[t] \in Locks
      BY NoneIsNoObject DEF Acquire, TypeOK, Bookkeeping, Steps
    <2>2. QED
      BY <2>1, HeadTail DEF Frame
  <1> HIDE DEF f
  <1>2. frames[t] \in Seq(Frame) /\ frames' = [frames EXCEPT ![t] = Append(frames[t], f)]
    BY DEF Acquire, TypeOK, f
  <1>3. frames'[t] = Append(frames[t], f) /\ \A u \in Threads \ {t} : frames'[u] = frames[u]
    BY <1>2 DEF TypeOK
  <1>4. {Append(frames[t], f)[n] : n \in 1..Len(Append(frames[t], f))}
          = {frames[t][n] : n \in 1..Len(frames[t])} \cup {f}
    BY <1>1, <1>2, PushContents
  <1>5. QED
    BY <1>3, <1>4 DEF FramesOf, f

\* Exit pops the thread's stack.
LEMMA ExitFrames ==
    ASSUME TypeOK, NEW t \in Threads, Exit(t)
    PROVE  /\ FramesOf(t)' \subseteq FramesOf(t)
           /\ \A u \in Threads \ {t} : FramesOf(u)' = FramesOf(u)
           /\ pc'[t] = "idle" => FramesOf(t)' = {}
  <1> DEFINE s == SubSeq(frames[t], 1, Len(frames[t]) - 1)
  <1>1. frames[t] \in Seq(Frame) /\ frames[t] # <<>> /\ frames' = [frames EXCEPT ![t] = s]
    BY DEF Exit, TypeOK, Bookkeeping
  <1>2. {s[n] : n \in 1..Len(s)} \subseteq {frames[t][n] : n \in 1..Len(frames[t])}
    BY <1>1, PopContents
  <1>3. Len(frames[t]) = 1 => s = <<>>
    BY <1>1, PopContents
  <1> HIDE DEF s
  <1>4. frames'[t] = s /\ \A u \in Threads \ {t} : frames'[u] = frames[u]
    BY <1>1 DEF TypeOK
  <1>5. FramesOf(t)' = {s[n] : n \in 1..Len(s)}
    BY <1>4 DEF FramesOf
  <1>6. \A u \in Threads \ {t} : FramesOf(u)' = FramesOf(u)
    BY <1>4 DEF FramesOf
  <1>7. pc'[t] = "idle" => s = <<>>
    BY <1>3 DEF Exit, TypeOK, Steps
  <1>8. s = <<>> => {s[n] : n \in 1..Len(s)} = {}
    BY EmptySeq
  <1>9. FramesOf(t)' \subseteq FramesOf(t)
    BY <1>2, <1>5 DEF FramesOf
  <1>10. pc'[t] = "idle" => FramesOf(t)' = {}
    BY <1>5, <1>7, <1>8
  <1> QED BY <1>6, <1>9, <1>10

\* What a thread holds are locks, for keys.
LEMMA FramesAreTyped ==
    ASSUME TypeOK, NEW t \in Threads, NEW f \in FramesOf(t)
    PROVE  f.key \in Keys /\ f.lock \in Locks /\ f.lock # None
  <1>1. frames[t] \in Seq(Frame)
    BY DEF TypeOK
  <1>2. f \in Frame
    BY <1>1, ElementOfSeq DEF FramesOf
  <1>3. QED
    BY <1>2, NoneIsNoObject DEF Frame

\* A thread without a table is inside of nothing.
LEMMA NoTableNoFrames ==
    ASSUME TypeOK, NEW t \in Threads, tab[t] = None
    PROVE  FramesOf(t) = {} /\ got[t] = None
  <1>1. frames[t] = <<>> /\ got[t] = None
    BY DEF TypeOK, Bookkeeping
  <1>2. QED
    BY <1>1, EmptySeq DEF FramesOf

\* The lock table of a storage without equals: the invariant is inductive.
LEMMA IInvInductive ==
    ASSUME \A i, j \in Instances : i = j,
           IInv, [Next]_vars
    PROVE  IInv'
  <1> USE NoneIsNoObject
  <1>1. TypeOK'
    BY TypeOKInductive DEF IInv
  <1>2. ASSUME NEW t \in Threads, Begin(t) PROVE IInv'
    <2>1. \A u \in Threads : FramesOf(u)' = FramesOf(u)
      BY <1>2 DEF Begin, FramesOf
    <2>2. pc[t] = "idle" /\ inst[t] = None /\ got[t] = None /\ tab[t] = None
      BY <1>2 DEF Begin, IInv, TypeOK, Bookkeeping, OneTable
    <2>3. OneTable'
      BY <1>2, <2>2 DEF Begin, IInv, TypeOK, OneTable
    <2>4. LocksAreListed'
      <3>1. \A u \in Threads : got[u] # None => todo'[u] = todo[u]
        BY <1>2, <2>2 DEF Begin, IInv, TypeOK
      <3>2. QED
        BY <1>2, <2>1, <3>1 DEF Begin, IInv, LocksAreListed
    <2>5. LockExclusive'
      BY <2>1 DEF IInv, LockExclusive, HeldLocks
    <2>6. QED
      BY <1>1, <2>3, <2>4, <2>5 DEF IInv
  <1>3. ASSUME NEW t \in Threads, Lookup(t) PROVE IInv'
    <2>1. \A u \in Threads : FramesOf(u)' = FramesOf(u)
      BY <1>3 DEF Lookup, FramesOf
    <2>2. OneTable'
      BY <1>3 DEF Lookup, IInv, TypeOK, Bookkeeping, OneTable
    <2>3. LocksAreListed'
      BY <1>3, <2>1 DEF Lookup, IInv, LocksAreListed
    <2>4. LockExclusive'
      BY <2>1 DEF IInv, LockExclusive, HeldLocks
    <2>5. QED
      BY <1>1, <2>2, <2>3, <2>4 DEF IInv
  <1>4. ASSUME NEW t \in Threads, CreateTable(t) PROVE IInv'
    <2>1. \A u \in Threads : FramesOf(u)' = FramesOf(u)
      BY <1>4 DEF CreateTable, FramesOf
    <2>2. LockExclusive'
      BY <2>1 DEF IInv, LockExclusive, HeldLocks
    <2>3. inst[t] # None /\ inst[t] \in alive
      BY <1>4 DEF CreateTable, IInv, TypeOK, Bookkeeping, OneTable
    <2>4. CASE anchor # None
      <3>1. OneTable'
        BY <1>4, <2>3, <2>4 DEF CreateTable, IInv, TypeOK, OneTable
      <3>2. LocksAreListed'
        BY <1>4, <2>1, <2>4 DEF CreateTable, IInv, LocksAreListed
      <3>3. QED
        BY <1>1, <2>2, <3>1, <3>2 DEF IInv
    <2>5. CASE anchor = None
      \* Without an entry nobody has a table, so nobody holds anything.
      <3>1. \A u \in Threads : tab[u] = None
        BY <2>5 DEF IInv, TypeOK, OneTable
      <3>2. \A u \in Threads : FramesOf(u) = {} /\ got[u] = None
        BY <3>1, NoTableNoFrames DEF IInv
      <3>3. LocksAreListed'
        BY <1>4, <2>1, <3>2 DEF CreateTable, LocksAreListed
      <3>4. OneTable'
        BY <1>4, <2>3, <2>5, <3>1 DEF CreateTable, IInv, TypeOK, OneTable
      <3>5. QED
        BY <1>1, <2>2, <3>3, <3>4 DEF IInv
    <2>6. QED
      BY <2>4, <2>5
  <1>5. ASSUME NEW t \in Threads, GetOrCreateLock(t) PROVE IInv'
    <2>1. \A u \in Threads : FramesOf(u)' = FramesOf(u)
      BY <1>5 DEF GetOrCreateLock, FramesOf
    <2>2. LockExclusive'
      BY <2>1 DEF IInv, LockExclusive, HeldLocks
    <2>3. OneTable'
      BY <1>5 DEF GetOrCreateLock, IInv, OneTable
    <2> DEFINE k == Head(todo[t])
    <2>4. tab[t] = table /\ table \in Tables /\ k \in Keys /\ got[t] = None
      BY <1>5, HeadTail DEF GetOrCreateLock, IInv, TypeOK, Bookkeeping, OneTable, Steps
    <2> HIDE DEF k
    \* The entry of a key in use is not None, so it is kept.
    <2>5. \A q \in Keys : key_locks[table][q] # None => key_locks'[table][q] = key_locks[table][q]
      BY <1>5, <2>4 DEF GetOrCreateLock, IInv, TypeOK, k
    <2>6. got' = [got EXCEPT ![t] = key_locks'[table][k]] /\ key_locks'[table][k] # None
      BY <1>5, <2>4 DEF GetOrCreateLock, IInv, TypeOK, k
    <2>7. LocksAreListed'
      <3> SUFFICES ASSUME NEW u \in Threads
                   PROVE  /\ got'[u] # None => key_locks'[table][Head(todo[u])] = got'[u]
                          /\ \A f \in FramesOf(u) : key_locks'[table][f.key] = f.lock
        BY <1>5, <2>1 DEF GetOrCreateLock, LocksAreListed
      <3>1. \A f \in FramesOf(u) : f.key \in Keys /\ f.lock # None
        BY FramesAreTyped DEF IInv
      <3>2. \A f \in FramesOf(u) : key_locks'[table][f.key] = f.lock
        BY <2>5, <3>1 DEF IInv, LocksAreListed
      <3>3. CASE u = t
        BY <2>6, <3>2, <3>3 DEF IInv, TypeOK, k
      <3>4. CASE u # t
        <4>1. got'[u] = got[u]
          BY <2>6, <3>4 DEF IInv, TypeOK
        <4>2. got[u] # None => Head(todo[u]) \in Keys
          BY HeadTail DEF IInv, TypeOK, Bookkeeping, Steps
        <4>3. QED
          BY <2>5, <3>2, <4>1, <4>2 DEF IInv, LocksAreListed
      <3>5. QED
        BY <3>3, <3>4
    <2>8. QED
      BY <1>1, <2>2, <2>3, <2>7 DEF IInv
  <1>6. ASSUME NEW t \in Threads, Acquire(t) PROVE IInv'
    <2> DEFINE f == [key |-> Head(todo[t]), lock |-> got[t]]
    <2>1. /\ FramesOf(t)' = FramesOf(t) \cup {f}
          /\ \A u \in Threads \ {t} : FramesOf(u)' = FramesOf(u)
      BY <1>6, AcquireFrames DEF IInv
    <2>2. f.key = Head(todo[t]) /\ f.lock = got[t]
      OBVIOUS
    <2> HIDE DEF f
    <2>3. OneTable'
      BY <1>6 DEF Acquire, IInv, OneTable
    <2>4. got[t] # None /\ got' = [got EXCEPT ![t] = None]
      BY <1>6 DEF Acquire, IInv, TypeOK, Bookkeeping
    <2>5. LocksAreListed'
      <3>1. \A u \in Threads : got'[u] # None => got'[u] = got[u] /\ todo'[u] = todo[u]
        BY <1>6, <2>4 DEF Acquire, IInv, TypeOK
      <3>2. key_locks[table][f.key] = f.lock
        BY <2>2, <2>4 DEF IInv, LocksAreListed
      <3>3. UNCHANGED <<table, key_locks>>
        BY <1>6 DEF Acquire
      <3>4. QED
        BY <2>1, <3>1, <3>2, <3>3 DEF IInv, LocksAreListed
    <2>6. LockExclusive'
      <3>1. /\ HeldLocks(t)' = HeldLocks(t) \cup {got[t]}
            /\ \A u \in Threads \ {t} : HeldLocks(u)' = HeldLocks(u)
        BY <2>1, <2>2 DEF HeldLocks
      <3>2. \A u \in Threads \ {t} : got[t] \notin HeldLocks(u)
        BY <1>6 DEF Acquire, Free
      <3>3. QED
        BY <3>1, <3>2 DEF IInv, LockExclusive
    <2>7. QED
      BY <1>1, <2>3, <2>5, <2>6 DEF IInv
  <1>7. ASSUME NEW t \in Threads, Exit(t) PROVE IInv'
    <2>1. /\ FramesOf(t)' \subseteq FramesOf(t)
          /\ \A u \in Threads \ {t} : FramesOf(u)' = FramesOf(u)
      BY <1>7, ExitFrames DEF IInv
    <2>2. OneTable'
      <3>1. /\ OneTable
            /\ inst \in [Threads -> Instances \cup {None}] /\ tab \in [Threads -> Tables \cup {None}]
        BY DEF IInv, TypeOK
      <3>2. UNCHANGED <<alive, anchor, table>>
        BY <1>7 DEF Exit
      <3>3. CASE UNCHANGED <<inst, tab>>
        BY <3>1, <3>2, <3>3 DEF OneTable
      <3>4. CASE /\ inst' = [inst EXCEPT ![t] = None]
                 /\ tab' = [tab EXCEPT ![t] = None]
        BY <3>1, <3>2, <3>4 DEF OneTable
      <3>5. QED
        BY <1>7, <3>3, <3>4 DEF Exit
    <2>3. LocksAreListed'
      BY <1>7, <2>1 DEF Exit, IInv, LocksAreListed
    <2>4. LockExclusive'
      BY <2>1 DEF IInv, LockExclusive, HeldLocks
    <2>5. QED
      BY <1>1, <2>2, <2>3, <2>4 DEF IInv
  <1>8. ASSUME NEW b \in Tables, NEW k \in Keys, CollectLock(b, k) PROVE IInv'
    <2>1. \A u \in Threads : FramesOf(u)' = FramesOf(u)
      BY <1>8 DEF CollectLock, FramesOf
    <2>2. LockExclusive'
      BY <2>1 DEF IInv, LockExclusive, HeldLocks
    <2>3. OneTable'
      BY <1>8 DEF CollectLock, IInv, OneTable
    \* A lock that somebody refers to is not collected.
    <2>4. \A l \in Locks, q \in Keys :
            InUse(l) /\ key_locks[table][q] = l => key_locks'[table][q] = l
      BY <1>8 DEF CollectLock, IInv, TypeOK
    <2>5. LocksAreListed'
      <3> SUFFICES ASSUME NEW u \in Threads
                   PROVE  /\ got[u] # None => key_locks'[table][Head(todo[u])] = got[u]
                          /\ \A f \in FramesOf(u) : key_locks'[table][f.key] = f.lock
        BY <1>8, <2>1 DEF CollectLock, LocksAreListed
      <3>1. \A f \in FramesOf(u) : f.key \in Keys /\ f.lock \in Locks /\ InUse(f.lock)
        BY FramesAreTyped DEF IInv, InUse, HeldLocks
      <3>2. got[u] # None => got[u] \in Locks /\ InUse(got[u]) /\ Head(todo[u]) \in Keys
        BY HeadTail DEF IInv, TypeOK, Bookkeeping, Steps, InUse
      <3>3. QED
        BY <2>4, <3>1, <3>2 DEF IInv, LocksAreListed
    <2>6. QED
      BY <1>1, <2>2, <2>3, <2>5 DEF IInv
  <1>9. ASSUME NEW i \in Instances, DropInstance(i) PROVE IInv'
    \* i is the only instance, so no thread works and none has a table.
    <2>1. \A u \in Threads : inst[u] = None
      BY <1>9 DEF DropInstance, IInv, TypeOK
    <2>2. \A u \in Threads : tab[u] = None
      BY <2>1 DEF IInv, OneTable
    <2>3. \A u \in Threads : FramesOf(u) = {} /\ got[u] = None
      BY <2>2, NoTableNoFrames DEF IInv
    <2>4. \A u \in Threads : FramesOf(u)' = FramesOf(u)
      BY <1>9 DEF DropInstance, FramesOf
    <2>5. OneTable'
      BY <1>9, <2>1, <2>2 DEF DropInstance, IInv, OneTable
    <2>6. LocksAreListed'
      BY <1>9, <2>3, <2>4 DEF DropInstance, LocksAreListed
    <2>7. LockExclusive'
      BY <2>4 DEF IInv, LockExclusive, HeldLocks
    <2>8. QED
      BY <1>1, <2>5, <2>6, <2>7 DEF IInv
  <1>10. ASSUME NEW i \in Instances, NewInstance(i) PROVE IInv'
    <2>1. \A u \in Threads : FramesOf(u)' = FramesOf(u)
      BY <1>10 DEF NewInstance, FramesOf
    <2>2. QED
      BY <1>1, <1>10, <2>1
         DEF NewInstance, IInv, OneTable, LocksAreListed, LockExclusive, HeldLocks
  <1>11. CASE UNCHANGED vars
    <2>1. \A u \in Threads : FramesOf(u)' = FramesOf(u)
      BY <1>11 DEF vars, FramesOf
    <2>2. QED
      BY <1>1, <1>11, <2>1
         DEF vars, IInv, OneTable, LocksAreListed, LockExclusive, HeldLocks
  <1>12. QED
    BY <1>2, <1>3, <1>4, <1>5, <1>6, <1>7, <1>8, <1>9, <1>10, <1>11
       DEF Next, Step

LEMMA InitIInv == Init => IInv
  <1>1. Init => TypeOK
    BY InitTypeOK
  <1>2. Init => \A t \in Threads : FramesOf(t) = {}
    <2> SUFFICES ASSUME Init, NEW t \in Threads PROVE FramesOf(t) = {}
      OBVIOUS
    <2>1. frames[t] = <<>> /\ Len(<<>>) = 0
      BY EmptySeq DEF Init
    <2>2. QED
      BY <2>1 DEF FramesOf
  <1>3. QED
    BY <1>1, <1>2 DEF Init, IInv, OneTable, LocksAreListed, LockExclusive, HeldLocks

\* Two threads inside one key would hold the lock that the table lists.
LEMMA IInvExcludes == IInv => MutualExclusion
  <1> SUFFICES ASSUME IInv, NEW t \in Threads, NEW u \in Threads, t # u,
                      NEW f \in FramesOf(t), NEW g \in FramesOf(u), f.key = g.key
               PROVE  FALSE
    BY DEF MutualExclusion, EnteredKeys
  <1>1. f.lock = g.lock
    BY DEF IInv, LocksAreListed
  <1>2. QED
    BY <1>1 DEF IInv, LockExclusive, HeldLocks

\* Operations on the same key of one storage object are serialized, for any
\* number of threads, keys, tables and locks and any shrink() callers.
THEOREM OneInstanceExcludes ==
    ASSUME \A i, j \in Instances : i = j
    PROVE  Spec => []MutualExclusion
  <1>1. IInv /\ [Next]_vars => IInv'
    BY IInvInductive
  <1>2. QED
    BY <1>1, InitIInv, IInvExcludes, PTL DEF Spec

\* The lock a thread holds or is about to take stays the listed one.
THEOREM OneInstanceListsLocks ==
    ASSUME \A i, j \in Instances : i = j
    PROVE  Spec => []LocksAreListed
  <1>1. IInv /\ [Next]_vars => IInv'
    BY IInvInductive
  <1>2. IInv => LocksAreListed
    BY DEF IInv
  <1>3. QED
    BY <1>1, <1>2, InitIInv, PTL DEF Spec

-----------------------------------------------------------------------------
(***************************************************************************)
(* Refinement.  The keys of a thread's stack are the keys it is inside of; *)
(* Acquire enters, Exit leaves, and everything else is invisible.          *)
(***************************************************************************)

LEMMA KeyStackProperties ==
    ASSUME NEW s \in Seq(Frame)
    PROVE  /\ KeyStack(s) \in Seq(Keys)
           /\ Len(KeyStack(s)) = Len(s)
           /\ \A n \in 1..Len(s) : KeyStack(s)[n] = s[n].key
  <1>1. Len(s) \in Nat /\ \A n \in 1..Len(s) : s[n].key \in Keys
    <2>1. \A n \in 1..Len(s) : s[n] \in Frame
      BY ElementOfSeq
    <2>2. QED
      BY <2>1, LenProperties DEF Frame
  <1>2. KeyStack(s) \in Seq(Keys)
    BY <1>1 DEF KeyStack
  <1>3. DOMAIN KeyStack(s) = 1..Len(KeyStack(s)) /\ Len(KeyStack(s)) \in Nat
    BY <1>2, LenProperties
  <1>4. DOMAIN KeyStack(s) = 1..Len(s)
    BY DEF KeyStack
  <1>5. Len(KeyStack(s)) = Len(s)
    BY <1>1, <1>3, <1>4
  <1>6. QED
    BY <1>2, <1>5 DEF KeyStack

LEMMA KeyStackPush ==
    ASSUME NEW s \in Seq(Frame), NEW f \in Frame
    PROVE  KeyStack(Append(s, f)) = Append(KeyStack(s), f.key)
  <1>1. /\ Append(s, f) \in Seq(Frame)
        /\ Len(Append(s, f)) = Len(s) + 1
        /\ \A n \in 1..Len(s) : Append(s, f)[n] = s[n]
        /\ Append(s, f)[Len(s) + 1] = f
    BY AppendProperties
  <1>2. f.key \in Keys
    BY DEF Frame
  <1> DEFINE a == KeyStack(Append(s, f))
             b == Append(KeyStack(s), f.key)
  <1>3. /\ a \in Seq(Keys)
        /\ Len(a) = Len(s) + 1
        /\ \A n \in 1..Len(s) : a[n] = s[n].key
        /\ a[Len(s) + 1] = f.key
    <2> DEFINE p == Append(s, f)
    <2>1. Len(s) \in Nat
      BY LenProperties
    <2>2. /\ a \in Seq(Keys)
          /\ Len(a) = Len(p)
          /\ \A n \in 1..Len(p) : a[n] = p[n].key
      BY <1>1, KeyStackProperties
    <2> HIDE DEF a
    <2>3. QED
      BY <1>1, <2>1, <2>2
  <1>4. /\ b \in Seq(Keys)
        /\ Len(b) = Len(s) + 1
        /\ \A n \in 1..Len(s) : b[n] = s[n].key
        /\ b[Len(s) + 1] = f.key
    <2>1. KeyStack(s) \in Seq(Keys) /\ Len(KeyStack(s)) = Len(s)
          /\ \A n \in 1..Len(s) : KeyStack(s)[n] = s[n].key
      BY KeyStackProperties
    <2>2. /\ b \in Seq(Keys)
          /\ Len(b) = Len(KeyStack(s)) + 1
          /\ \A n \in 1..Len(KeyStack(s)) : b[n] = KeyStack(s)[n]
          /\ b[Len(KeyStack(s)) + 1] = f.key
      BY <1>2, <2>1, AppendProperties
    <2>3. QED
      BY <2>1, <2>2
  <1> HIDE DEF a, b
  <1>5. \A n \in 1..Len(a) : a[n] = b[n]
    <2>1. Len(s) \in Nat
      BY LenProperties
    <2>2. QED
      BY <1>3, <1>4, <2>1
  <1>6. a = b
    BY <1>3, <1>4, <1>5, SeqEqual
  <1>7. QED
    BY <1>6 DEF a, b

LEMMA KeyStackPop ==
    ASSUME NEW s \in Seq(Frame), s # <<>>
    PROVE  /\ KeyStack(s) # <<>>
           /\ KeyStack(SubSeq(s, 1, Len(s) - 1))
                = SubSeq(KeyStack(s), 1, Len(KeyStack(s)) - 1)
  <1> DEFINE ks == KeyStack(s)
             a == KeyStack(SubSeq(s, 1, Len(s) - 1))
             b == SubSeq(ks, 1, Len(ks) - 1)
  <1>1. /\ Len(s) \in Nat \ {0}
        /\ SubSeq(s, 1, Len(s) - 1) \in Seq(Frame)
        /\ Len(SubSeq(s, 1, Len(s) - 1)) = Len(s) - 1
        /\ \A n \in 1..(Len(s) - 1) : SubSeq(s, 1, Len(s) - 1)[n] = s[n]
    BY PopContents
  <1>2. /\ ks \in Seq(Keys)
        /\ Len(ks) = Len(s)
        /\ \A n \in 1..Len(s) : ks[n] = s[n].key
    BY KeyStackProperties
  <1>3. ks # <<>>
    <2>1. Len(<<>>) = 0
      BY EmptySeq
    <2> HIDE DEF ks
    <2>2. QED
      BY <1>1, <1>2, <2>1
  <1>4. /\ a \in Seq(Keys)
        /\ Len(a) = Len(s) - 1
        /\ \A n \in 1..(Len(s) - 1) : a[n] = s[n].key
    BY <1>1, KeyStackProperties
  <1>5. /\ b \in Seq(Keys)
        /\ Len(b) = Len(ks) - 1
        /\ \A n \in 1..(Len(ks) - 1) : b[n] = ks[n]
    BY <1>2, <1>3, PopContents
  <1> HIDE DEF a, b, ks
  <1>6. Len(a) = Len(b) /\ \A n \in 1..Len(a) : a[n] = b[n]
    BY <1>1, <1>2, <1>4, <1>5
  <1>7. a = b
    BY <1>4, <1>5, <1>6, SeqEqual
  <1>8. QED
    BY <1>3, <1>7 DEF a, b, ks

\* The lock table implements KeyMutex: every step of the threads is a step
\* or a stutter of the abstract mutex, for any values of the constants, when
\* one instance stands behind the table.
THEOREM OneInstanceImplementsKeyMutex ==
    ASSUME \A i, j \in Instances : i = j
    PROVE  Spec => ImplementsKeyMutex
  <1>1. Init => Mutex!Init
    <2> SUFFICES ASSUME Init PROVE KeyStacks = [t \in Threads |-> <<>>]
      BY DEF Mutex!Init
    <2>1. \A t \in Threads : KeyStack(frames[t]) = <<>>
      <3> SUFFICES ASSUME NEW t \in Threads PROVE KeyStack(<<>>) = <<>>
        BY DEF Init
      <3>1. <<>> \in Seq(Frame) /\ Len(<<>>) = 0
        BY EmptySeq
      <3>2. KeyStack(<<>>) \in Seq(Keys) /\ Len(KeyStack(<<>>)) = 0
        BY <3>1, KeyStackProperties
      <3>3. QED
        BY <3>2, EmptySeq
    <2>2. QED
      BY <2>1 DEF KeyStacks
  <1>2. IInv /\ IInv' /\ [Next]_vars => [Mutex!Next]_KeyStacks
    <2> SUFFICES ASSUME IInv, IInv', [Next]_vars PROVE Mutex!Next \/ KeyStacks' = KeyStacks
      OBVIOUS
    <2>1. CASE UNCHANGED frames
      BY <2>1 DEF KeyStacks
    <2>2. ASSUME NEW t \in Threads, Acquire(t) PROVE Mutex!Next
      <3> DEFINE k == Head(todo[t])
                 f == [key |-> k, lock |-> got[t]]
      <3>1. got[t] \in Locks /\ k \in Keys /\ f \in Frame /\ frames[t] \in Seq(Frame)
        BY <2>2, HeadTail, NoneIsNoObject DEF Acquire, IInv, TypeOK, Bookkeeping, Steps, Frame
      <3>2. frames' = [frames EXCEPT ![t] = Append(frames[t], f)]
        BY <2>2 DEF Acquire
      <3>3. KeyStack(Append(frames[t], f)) = Append(KeyStack(frames[t]), k)
        BY <3>1, KeyStackPush
      <3> HIDE DEF f
      <3>4. KeyStacks' = [KeyStacks EXCEPT ![t] = Append(@, k)]
        BY <3>2, <3>3 DEF IInv, TypeOK, KeyStacks
      <3>5. ASSUME NEW u \in Threads \ {t}, NEW n \in 1..Len(KeyStack(frames[u])),
                   KeyStack(frames[u])[n] = k
            PROVE  FALSE
        <4>1. frames[u] \in Seq(Frame)
          BY DEF IInv, TypeOK
        <4>2. Len(KeyStack(frames[u])) = Len(frames[u]) /\ frames[u][n].key = k
          BY <3>5, <4>1, KeyStackProperties
        <4>3. frames[u][n] \in FramesOf(u)
          BY <4>2 DEF FramesOf
        <4>4. frames[u][n].lock = key_locks[table][k]
          BY <4>2, <4>3 DEF IInv, LocksAreListed
        <4>5. key_locks[table][k] = got[t]
          BY <3>1, NoneIsNoObject DEF IInv, LocksAreListed
        <4>6. got[t] \notin HeldLocks(u)
          BY <2>2 DEF Acquire, Free
        <4>7. QED
          BY <4>3, <4>4, <4>5, <4>6 DEF HeldLocks
      <3>6. \A u \in Threads \ {t} : k \notin Mutex!Entered(u)
        BY <3>5 DEF Mutex!Entered, KeyStacks
      <3> HIDE DEF k
      <3>7. k \in Keys /\ Mutex!Enter(t, k)
        BY <3>1, <3>4, <3>6 DEF Mutex!Enter
      <3>8. QED
        BY ONLY <3>7, t \in Threads DEF Mutex!Next
    <2>3. ASSUME NEW t \in Threads, Exit(t) PROVE Mutex!Next
      <3> DEFINE s == frames[t]
      <3>1. s \in Seq(Frame) /\ s # <<>>
        BY <2>3 DEF Exit, IInv, TypeOK, Bookkeeping
      <3>2. /\ KeyStack(s) # <<>>
            /\ KeyStack(SubSeq(s, 1, Len(s) - 1))
                 = SubSeq(KeyStack(s), 1, Len(KeyStack(s)) - 1)
        BY <3>1, KeyStackPop
      <3>3. /\ KeyStacks[t] # <<>>
            /\ KeyStacks' = [KeyStacks EXCEPT ![t] = SubSeq(@, 1, Len(@) - 1)]
        BY <2>3, <3>2 DEF Exit, IInv, TypeOK, KeyStacks
      <3>4. Mutex!Leave(t)
        BY <3>3 DEF Mutex!Leave
      <3>5. QED
        BY <3>4 DEF Mutex!Next
    <2>4. QED
      BY <2>1, <2>2, <2>3
         DEF Next, Step, Begin, Lookup, CreateTable, GetOrCreateLock,
             CollectLock, DropInstance, NewInstance, vars
  <1>3. IInv /\ [Next]_vars => IInv'
    BY IInvInductive
  <1>4. QED
    BY <1>1, <1>2, <1>3, InitIInv, PTL DEF Spec, ImplementsKeyMutex, Mutex!Spec

-----------------------------------------------------------------------------
(* Least and greatest elements.                                             *)

\* A set of natural numbers that is not empty has a least one,
LEMMA LeastNumber ==
    ASSUME NEW T, T \subseteq Nat, T # {}
    PROVE  \E x \in T : \A y \in T : x <= y
  <1>1. PICK x \in T : \A y \in T : <<y, x>> \notin OpToRel(<, Nat)
      BY WFMin, NatLessThanWellFounded
  <1>2. \A y \in T : ~(y < x)
      BY <1>1 DEF OpToRel
  <1> QED BY <1>2

\* and a greatest one, when it is bounded.
LEMMA GreatestNumber ==
    ASSUME NEW n \in Nat, NEW T, T \subseteq 0 .. n, T # {}
    PROVE  /\ Max(T) \in T
           /\ \A y \in T : y <= Max(T)
  <1>1. {n - t : t \in T} \subseteq Nat /\ {n - t : t \in T} # {}
    <2>1. \A t \in T : n - t \in Nat
        OBVIOUS
    <2> QED BY <2>1
  <1>2. PICK x \in {n - t : t \in T} : \A y \in {n - t : t \in T} : x <= y
      BY <1>1, LeastNumber
  <1>3. PICK t \in T : x = n - t
      OBVIOUS
  <1>4. \A y \in T : y <= t
      BY <1>2, <1>3
  <1>5. \E z \in T : \A y \in T : z >= y
      BY <1>4
  <1>6. Max(T) \in T /\ \A y \in T : Max(T) >= y
      BY <1>5 DEF Max
  <1> QED BY <1>6

\* In a finite set that is ordered by R some element has none before it.
LEMMA SomeIsFirst ==
    ASSUME NEW S, IsFiniteSet(S), S # {}, NEW R,
           \A a \in S : <<a, a>> \notin R,
           \A a, b, c \in S : <<a, b>> \in R /\ <<b, c>> \in R => <<a, c>> \in R
    PROVE  \E k \in S : \A j \in S : <<j, k>> \notin R
  <1> DEFINE Below(k) == {j \in S : <<j, k>> \in R}
             T == {Cardinality(Below(k)) : k \in S}
  <1>1. \A k \in S : IsFiniteSet(Below(k)) /\ Cardinality(Below(k)) \in Nat
      BY FS_Subset, FS_CardinalityType
  <1>2. T \subseteq Nat /\ T # {}
    <2> HIDE DEF Below
    <2> QED BY <1>1
  <1>3. PICK x \in T : \A y \in T : x <= y
    <2> HIDE DEF T
    <2> QED BY <1>2, LeastNumber
  <1>4. PICK k \in S : x = Cardinality(Below(k))
      OBVIOUS
  <1>5. ASSUME NEW j \in S, <<j, k>> \in R PROVE FALSE
    <2>1. Below(j) \in SUBSET Below(k)
        BY <1>5
    <2>2. Below(j) # Below(k)
        BY <1>5
    <2>3. Cardinality(Below(j)) < Cardinality(Below(k))
      <3> HIDE DEF Below
      <3>1. Cardinality(Below(j)) <= Cardinality(Below(k))
          BY <1>1, <2>1, FS_Subset
      <3>2. Cardinality(Below(j)) # Cardinality(Below(k))
          BY <1>1, <2>1, <2>2, FS_Subset
      <3> QED BY <1>1, <3>1, <3>2
    <2> HIDE DEF Below
    <2>4. Cardinality(Below(k)) <= Cardinality(Below(j))
        BY <1>3, <1>4
    <2> QED BY <1>1, <2>3, <2>4
  <1> QED BY <1>5

-----------------------------------------------------------------------------
(* Digests in their order.                                                  *)

Digits == 1 .. DigestLength
Digest == [Digits -> Nat]

\* Digests that begin with the same n characters.
Agree(a, b, n) == \A i \in 1 .. n : a[i] = b[i]

LEMMA PrefixesAgree ==
    ASSUME NEW a \in Digest, NEW b \in Digest, NEW n \in 0 .. DigestLength
    PROVE  /\ (SubSeq(a, 1, n) = SubSeq(b, 1, n)) <=> Agree(a, b, n)
           /\ SubSeq(a, 1, n) \in Seq(Nat) /\ Len(SubSeq(a, 1, n)) = n
           /\ IsPrefix(SubSeq(a, 1, n), b) <=> Agree(a, b, n)
  <1> USE LengthAssumption DEF Digest, Digits
  <1>1. a \in Seq(Nat) /\ b \in Seq(Nat) /\ Len(a) = DigestLength /\ Len(b) = DigestLength
      OBVIOUS
  <1>2. ASSUME NEW s \in Seq(Nat), Len(s) = DigestLength
        PROVE  /\ SubSeq(s, 1, n) \in Seq(Nat) /\ Len(SubSeq(s, 1, n)) = n
               /\ \A i \in 1 .. n : SubSeq(s, 1, n)[i] = s[i]
      BY SMTT(20), <1>2, SubSeqProperties
  <1>3. (SubSeq(a, 1, n) = SubSeq(b, 1, n)) <=> Agree(a, b, n)
    <2>1. ASSUME Agree(a, b, n) PROVE SubSeq(a, 1, n) = SubSeq(b, 1, n)
        BY <1>1, <1>2, <2>1, SeqEqual DEF Agree
    <2>2. ASSUME SubSeq(a, 1, n) = SubSeq(b, 1, n) PROVE Agree(a, b, n)
        BY <1>1, <1>2, <2>2 DEF Agree
    <2> QED BY <2>1, <2>2
  <1>4. SubSeq(SubSeq(a, 1, n), 1, n) = SubSeq(a, 1, n)
    <2> DEFINE s == SubSeq(a, 1, n)
    <2>1. s \in Seq(Nat) /\ Len(s) = n
        BY <1>1, <1>2
    <2> HIDE DEF s
    <2>2. SubSeq(s, 1, n) \in Seq(Nat) /\ Len(SubSeq(s, 1, n)) = n
          /\ \A i \in 1 .. n : SubSeq(s, 1, n)[i] = s[i]
        BY <2>1, SubSeqProperties
    <2>3. SubSeq(s, 1, n) = s
        BY <2>1, <2>2, SeqEqual
    <2> QED BY <2>3 DEF s
  <1> QED BY <1>1, <1>2, <1>3, <1>4 DEF IsPrefix

LEMMA BeforeIs ==
    ASSUME NEW a \in Digest, NEW b \in Digest
    PROVE  Before(a, b) <=> \E i \in Digits : Agree(a, b, i - 1) /\ a[i] < b[i]
  <1>1. \A i \in Digits : i - 1 \in 0 .. DigestLength
      BY LengthAssumption DEF Digits
  <1> QED BY <1>1, PrefixesAgree DEF Before, Digits

\* They are ordered strictly and totally.
LEMMA BeforeIsStrict ==
    ASSUME NEW a \in Digest, NEW b \in Digest, Before(a, b)
    PROVE  a # b /\ ~Before(b, a)
  <1>1. PICK i \in Digits : Agree(a, b, i - 1) /\ a[i] < b[i]
      BY BeforeIs
  <1>2. ASSUME NEW j \in Digits, Agree(b, a, j - 1), b[j] < a[j] PROVE FALSE
      BY <1>1, <1>2 DEF Agree, Digest, Digits
  <1> QED BY <1>1, <1>2, BeforeIs DEF Digest

LEMMA BeforeIsTransitive ==
    ASSUME NEW a \in Digest, NEW b \in Digest, NEW c \in Digest, Before(a, b), Before(b, c)
    PROVE  /\ Before(a, c)
           /\ \A n \in 0 .. DigestLength : Agree(a, c, n) => Agree(a, b, n) /\ Agree(b, c, n)
  <1> USE LengthAssumption DEF Digest, Digits
  <1>1. PICK i \in Digits : Agree(a, b, i - 1) /\ a[i] < b[i]
      BY BeforeIs
  <1>2. PICK j \in Digits : Agree(b, c, j - 1) /\ b[j] < c[j]
      BY BeforeIs
  <1>3. \A x \in Digits : a[x] \in Nat /\ b[x] \in Nat /\ c[x] \in Nat
      OBVIOUS
  <1>4. PICK m \in Digits : Agree(a, c, m - 1) /\ a[m] < c[m] /\ m <= i /\ m <= j
    <2>1. CASE i <= j
      <3>1. Agree(a, c, i - 1)
          BY <1>1, <1>2, <2>1 DEF Agree
      <3>2. a[i] < c[i]
        <4>1. CASE i = j
            BY <1>1, <1>2, <1>3, <4>1
        <4>2. CASE i < j
            BY <1>1, <1>2, <4>2 DEF Agree
        <4> QED BY <2>1, <4>1, <4>2
      <3> QED BY <2>1, <3>1, <3>2
    <2>2. CASE j < i
      <3>1. Agree(a, c, j - 1)
          BY <1>1, <1>2, <2>2 DEF Agree
      <3>2. a[j] < c[j]
          BY <1>1, <1>2, <1>3, <2>2 DEF Agree
      <3> QED BY <2>2, <3>1, <3>2
    <2> QED BY <2>1, <2>2
  <1>5. ASSUME NEW n \in 0 .. DigestLength, Agree(a, c, n)
        PROVE  Agree(a, b, n) /\ Agree(b, c, n)
    <2>1. n < m
        BY <1>4, <1>5, <1>3 DEF Agree
    <2> QED BY <1>1, <1>2, <1>4, <2>1 DEF Agree
  <1> QED BY <1>4, <1>5, BeforeIs

LEMMA BeforeIsTotal ==
    ASSUME NEW a \in Digest, NEW b \in Digest, a # b
    PROVE  Before(a, b) \/ Before(b, a)
  <1> USE LengthAssumption DEF Digest, Digits
  <1> DEFINE T == {i \in Digits : a[i] # b[i]}
  <1>1. T \subseteq Nat /\ T # {}
      OBVIOUS
  <1>2. PICK i \in T : \A j \in T : i <= j
      BY <1>1, LeastNumber
  <1>3. Agree(a, b, i - 1) /\ Agree(b, a, i - 1)
      BY <1>2 DEF Agree
  <1>4. a[i] < b[i] \/ b[i] < a[i]
      OBVIOUS
  <1> QED BY <1>3, <1>4, BeforeIs

-----------------------------------------------------------------------------
(* Neighbours.                                                              *)

LEMMA SmallestIsFirst ==
    ASSUME NEW S, S \subseteq Digest, IsFiniteSet(S), S # {}
    PROVE  Smallest(S) \in S /\ \A b \in S \ {Smallest(S)} : Before(Smallest(S), b)
  <1> DEFINE R == {x \in S \X S : Before(x[1], x[2])}
  <1>1. \A a, b \in S : <<a, b>> \in R <=> Before(a, b)
      OBVIOUS
  <1> HIDE DEF R
  <1>2. \A a \in S : <<a, a>> \notin R
      BY <1>1, BeforeIsStrict
  <1>3. \A a, b, c \in S : <<a, b>> \in R /\ <<b, c>> \in R => <<a, c>> \in R
      BY <1>1, BeforeIsTransitive
  <1>4. PICK k \in S : \A j \in S : <<j, k>> \notin R
      BY <1>2, <1>3, SomeIsFirst
  <1>5. \A b \in S \ {k} : Before(k, b)
      BY <1>1, <1>4, BeforeIsTotal
  <1> QED BY <1>5 DEF Smallest

LEMMA LargestIsLast ==
    ASSUME NEW S, S \subseteq Digest, IsFiniteSet(S), S # {}
    PROVE  Largest(S) \in S /\ \A b \in S \ {Largest(S)} : Before(b, Largest(S))
  <1> DEFINE R == {x \in S \X S : Before(x[2], x[1])}
  <1>1. \A a, b \in S : <<a, b>> \in R <=> Before(b, a)
      OBVIOUS
  <1> HIDE DEF R
  <1>2. \A a \in S : <<a, a>> \notin R
      BY <1>1, BeforeIsStrict
  <1>3. \A a, b, c \in S : <<a, b>> \in R /\ <<b, c>> \in R => <<a, c>> \in R
      BY <1>1, BeforeIsTransitive
  <1>4. PICK k \in S : \A j \in S : <<j, k>> \notin R
      BY <1>2, <1>3, SomeIsFirst
  <1>5. \A b \in S \ {k} : Before(b, k)
      BY <1>1, <1>4, BeforeIsTotal
  <1> QED BY <1>5 DEF Largest

\* The common prefix of two digests has as many characters as they agree on.
LEMMA CommonIs ==
    ASSUME NEW a \in Digest, NEW b \in Digest
    PROVE  /\ Common(a, b) \in 0 .. DigestLength
           /\ \A n \in 0 .. DigestLength : Agree(a, b, n) <=> n <= Common(a, b)
           /\ a # b => Common(a, b) < DigestLength
  <1> DEFINE T == {n \in 0 .. DigestLength : Agree(a, b, n)}
             P == CommonPrefixes({a, b})
  <1>1. DigestLength \in Nat /\ Len(a) = DigestLength /\ Len(b) = DigestLength
      BY LengthAssumption DEF Digest, Digits
  <1>2. P = {SubSeq(a, 1, n) : n \in T}
    <2>1. \A n \in 0 .. DigestLength :
              /\ IsPrefix(SubSeq(a, 1, n), a)
              /\ IsPrefix(SubSeq(a, 1, n), b) <=> n \in T
              /\ n \in T => SubSeq(b, 1, n) = SubSeq(a, 1, n)
              /\ IsPrefix(SubSeq(b, 1, n), a) => n \in T
      <3>1. \A n : Agree(a, a, n)
          BY DEF Agree
      <3>2. \A n : Agree(a, b, n) <=> Agree(b, a, n)
          BY DEF Agree
      <3> QED BY <3>1, <3>2, PrefixesAgree
    <2>2. UNION {Prefixes(seq) : seq \in {a, b}}
             = {SubSeq(a, 1, n) : n \in 0 .. DigestLength} \cup {SubSeq(b, 1, n) : n \in 0 .. DigestLength}
        BY <1>1 DEF Prefixes
    <2>3. P = {p \in {SubSeq(a, 1, n) : n \in 0 .. DigestLength}
                     \cup {SubSeq(b, 1, n) : n \in 0 .. DigestLength} : IsPrefix(p, a) /\ IsPrefix(p, b)}
        BY <2>2 DEF CommonPrefixes
    <2> HIDE DEF P, T
    <2>4. ASSUME NEW n \in T PROVE SubSeq(a, 1, n) \in P
      <3>1. n \in 0 .. DigestLength
          BY DEF T
      <3> QED BY <2>1, <2>3, <3>1
    <2>5. ASSUME NEW p \in P PROVE \E n \in T : p = SubSeq(a, 1, n)
      <3>1. IsPrefix(p, a) /\ IsPrefix(p, b)
          BY <2>3
      <3>2. PICK n \in 0 .. DigestLength : p = SubSeq(a, 1, n) \/ p = SubSeq(b, 1, n)
          BY <2>3
      <3> QED BY <2>1, <3>1, <3>2
    <2> QED BY <2>4, <2>5
  <1>3. T \subseteq 0 .. DigestLength /\ T # {}
    <2>1. Agree(a, b, 0)
        BY DEF Agree
    <2> QED BY <2>1, <1>1
  <1>4. Max(T) \in T /\ \A n \in T : n <= Max(T)
    <2> HIDE DEF T
    <2> QED BY <1>1, <1>3, GreatestNumber
  <1>5. \A n \in T : Len(SubSeq(a, 1, n)) = n
      BY PrefixesAgree
  <1>6. Common(a, b) = Max(T)
    <2> HIDE DEF T, P
    <2>1. \E p \in P : \A q \in P : Len(q) <= Len(p)
      <3>1. SubSeq(a, 1, Max(T)) \in P
          BY <1>2, <1>4
      <3>2. ASSUME NEW q \in P PROVE Len(q) <= Len(SubSeq(a, 1, Max(T)))
        <4>1. PICK n \in T : q = SubSeq(a, 1, n)
            BY <1>2
        <4>2. Len(q) = n /\ n <= Max(T)
            BY <4>1, <1>4, <1>5
        <4> QED BY <4>2, <1>4, <1>5
      <3> QED BY <3>1, <3>2
    <2>2. LongestCommonPrefix({a, b}) \in P
          /\ \A q \in P : Len(q) <= Len(LongestCommonPrefix({a, b}))
        BY <2>1 DEF LongestCommonPrefix, P
    <2>3. PICK n \in T : LongestCommonPrefix({a, b}) = SubSeq(a, 1, n)
        BY <2>2, <1>2
    <2>4. Common(a, b) = n
        BY <2>3, <1>5 DEF Common
    <2>5. Max(T) <= n
      <3>1. SubSeq(a, 1, Max(T)) \in P
          BY <1>2, <1>4
      <3>2. Len(SubSeq(a, 1, Max(T))) <= Len(SubSeq(a, 1, n))
          BY <2>2, <2>3, <3>1
      <3> QED BY <3>2, <1>4, <1>5
    <2>6. \A x \in T : x \in Nat
        BY <1>3
    <2>7. n <= Max(T) /\ n \in Nat /\ Max(T) \in Nat
        BY <1>4, <2>6
    <2> QED BY <2>4, <2>5, <2>7
  <1>7. \A n \in 0 .. DigestLength : Agree(a, b, n) <=> n <= Common(a, b)
    <2>1. ASSUME NEW n \in 0 .. DigestLength, n <= Max(T) PROVE Agree(a, b, n)
        BY <1>1, <1>4, <2>1 DEF Agree
    <2>2. ASSUME NEW n \in 0 .. DigestLength, Agree(a, b, n) PROVE n <= Max(T)
        BY <1>4, <2>2
    <2> QED BY <1>6, <2>1, <2>2
  <1>8. Agree(a, b, DigestLength) => a = b
    <2>1. ASSUME Agree(a, b, DigestLength) PROVE \A i \in Digits : a[i] = b[i]
        BY <2>1 DEF Agree, Digits
    <2> QED BY <2>1 DEF Digest
  <1>9. Common(a, b) \in 0 .. DigestLength
      BY <1>4, <1>6
  <1> QED BY <1>1, <1>7, <1>8, <1>9

\* The keys next to k in a set.
Left(S, k) == {d \in S : Before(d, k)}
Right(S, k) == {d \in S : Before(k, d)}
Neighbours(S, k) == {Largest(Left(S, k)) : x \in Left(S, k)}
                    \cup {Smallest(Right(S, k)) : x \in Right(S, k)}

\* No key of a set begins more like k than one of its neighbours.
LEMMA NeighboursAgree ==
    ASSUME NEW S, S \subseteq Digest, IsFiniteSet(S), NEW k \in S
    PROVE  /\ Neighbours(S, k) \subseteq S \ {k}
           /\ \A d \in S \ {k}, n \in 0 .. DigestLength :
                Agree(k, d, n) => \E e \in Neighbours(S, k) : Agree(k, e, n)
  <1>1. IsFiniteSet(Left(S, k)) /\ IsFiniteSet(Right(S, k))
        /\ Left(S, k) \subseteq Digest /\ Right(S, k) \subseteq Digest
      BY FS_Subset DEF Left, Right
  <1>2. Left(S, k) # {} =>
            /\ Largest(Left(S, k)) \in Left(S, k)
            /\ \A b \in Left(S, k) \ {Largest(Left(S, k))} : Before(b, Largest(Left(S, k)))
      BY <1>1, LargestIsLast
  <1>3. Right(S, k) # {} =>
            /\ Smallest(Right(S, k)) \in Right(S, k)
            /\ \A b \in Right(S, k) \ {Smallest(Right(S, k))} : Before(Smallest(Right(S, k)), b)
      BY <1>1, SmallestIsFirst
  <1>4. Neighbours(S, k) \subseteq S \ {k}
      BY <1>2, <1>3, BeforeIsStrict DEF Neighbours, Left, Right
  <1>5. ASSUME NEW d \in S \ {k}, NEW n \in 0 .. DigestLength, Agree(k, d, n)
        PROVE  \E e \in Neighbours(S, k) : Agree(k, e, n)
    <2>1. CASE Before(d, k)
      <3> DEFINE e == Largest(Left(S, k))
      <3>1. d \in Left(S, k)
          BY <2>1 DEF Left
      <3>2. e \in Neighbours(S, k) /\ e \in Digest /\ Before(e, k) /\ (e = d \/ Before(d, e))
          BY <3>1, <1>1, <1>2 DEF Neighbours, Left
      <3> HIDE DEF e
      <3>3. Agree(d, k, n)
          BY <1>5 DEF Agree
      <3>4. Agree(e, k, n)
          BY <3>2, <3>3, BeforeIsTransitive
      <3> QED BY <3>2, <3>4 DEF Agree
    <2>2. CASE Before(k, d)
      <3> DEFINE e == Smallest(Right(S, k))
      <3>1. d \in Right(S, k)
          BY <2>2 DEF Right
      <3>2. e \in Neighbours(S, k) /\ e \in Digest /\ Before(k, e) /\ (e = d \/ Before(e, d))
          BY <3>1, <1>1, <1>3 DEF Neighbours, Right
      <3> HIDE DEF e
      <3>3. Agree(k, e, n)
          BY <3>2, <1>5, BeforeIsTransitive
      <3> QED BY <3>2, <3>3
    <2> QED BY <2>1, <2>2, BeforeIsTotal
  <1> QED BY <1>4, <1>5

\* The length that shrink finds: from it on, and not before, k is alone.
LEMMA ShortLengthIs ==
    ASSUME NEW S, S \subseteq Digest, IsFiniteSet(S), NEW k \in S
    PROVE  /\ ShortLength(S, k) \in MinLength .. DigestLength
           /\ \A n \in ShortLength(S, k) .. DigestLength, d \in S \ {k} : ~Agree(k, d, n)
           /\ \A n \in MinLength .. DigestLength :
                (\A d \in S \ {k} : ~Agree(k, d, n)) => ShortLength(S, k) <= n
  <1> DEFINE T == {MinLength} \cup {Common(k, d) + 1 : d \in Neighbours(S, k)}
  <1>1. DigestLength \in Nat /\ MinLength \in 1 .. DigestLength
      BY LengthAssumption
  <1>2. Neighbours(S, k) \subseteq S \ {k}
      BY NeighboursAgree
  <1>3. ASSUME NEW e \in Neighbours(S, k)
        PROVE  /\ Common(k, e) \in 0 .. DigestLength - 1
               /\ \A n \in 0 .. DigestLength : Agree(k, e, n) <=> n <= Common(k, e)
      BY <1>1, <1>2, CommonIs
  <1>4. T \subseteq 0 .. DigestLength /\ T # {}
      BY <1>1, <1>3
  <1>5. ShortLength(S, k) = Max(T)
      BY DEF ShortLength, Neighbours, Left, Right
  <1>6. Max(T) \in T /\ \A y \in T : y <= Max(T)
    <2> HIDE DEF T
    <2> QED BY <1>1, <1>4, GreatestNumber
  <1>7. MinLength <= Max(T) /\ Max(T) \in 0 .. DigestLength
      BY <1>4, <1>6
  <1>8. ASSUME NEW n \in Max(T) .. DigestLength, NEW d \in S \ {k}, Agree(k, d, n)
        PROVE  FALSE
    <2>1. n \in 0 .. DigestLength
        BY <1>1, <1>7
    <2>2. PICK e \in Neighbours(S, k) : Agree(k, e, n)
        BY <1>8, <2>1, NeighboursAgree
    <2>3. n <= Common(k, e) /\ Common(k, e) + 1 <= Max(T)
        BY <1>3, <1>6, <2>1, <2>2
    <2> QED BY <1>3, <1>7, <2>1, <2>3
  <1>9. ASSUME NEW n \in MinLength .. DigestLength, \A d \in S \ {k} : ~Agree(k, d, n)
        PROVE  Max(T) <= n
    <2>1. \A e \in Neighbours(S, k) : Common(k, e) < n
        BY <1>1, <1>2, <1>3, <1>9
    <2> QED BY <1>1, <1>3, <1>6, <2>1
  <1> HIDE DEF T
  <1> QED BY <1>1, <1>5, <1>7, <1>8, <1>9

-----------------------------------------------------------------------------
(* What shrink and expand answer.                                           *)

\* shrink finds the shortest admissible prefix that names a key alone, however many
\* keys a storage has.
LEMMA ShrinkIsRight ==
    ASSUME NEW S, S \subseteq FullDigests
    PROVE  /\ ShrinksToShortest(S)
           /\ \A k \in S : \A s \in Shrink(S, k) :
                /\ Matching(S, s) = {k}
                /\ \E n \in MinLength .. DigestLength - 1 : s = SubSeq(k, 1, n)
  <1>1. S \subseteq Digest /\ IsFiniteSet(S)
      BY LengthAssumption, FS_Subset DEF Digest, Digits
  <1>2. DigestLength \in Nat /\ MinLength \in 1 .. DigestLength
      BY LengthAssumption
  <1>3. ASSUME NEW k \in S, NEW n \in MinLength .. DigestLength
        PROVE  (Matching(S, SubSeq(k, 1, n)) = {k}) <=> \A d \in S \ {k} : ~Agree(k, d, n)
    <2>1. n \in 0 .. DigestLength
        BY <1>2
    <2>2. \A d \in S : IsPrefix(SubSeq(k, 1, n), d) <=> Agree(k, d, n)
        BY <1>1, <2>1, PrefixesAgree
    <2>3. Agree(k, k, n)
        BY DEF Agree
    <2> QED BY <2>2, <2>3 DEF Matching
  <1>4. ASSUME NEW k \in S, NEW s \in Shrink(S, k)
        PROVE  /\ Matching(S, s) = {k}
               /\ \E n \in MinLength .. DigestLength - 1 : s = SubSeq(k, 1, n)
    <2>1. /\ ShortLength(S, k) \in MinLength .. DigestLength
          /\ \A n \in ShortLength(S, k) .. DigestLength, d \in S \ {k} : ~Agree(k, d, n)
        BY <1>1, ShortLengthIs
    <2>2. s = SubSeq(k, 1, ShortLength(S, k)) /\ ShortLength(S, k) < DigestLength
        BY DEF Shrink
    <2>3. /\ ShortLength(S, k) \in ShortLength(S, k) .. DigestLength
          /\ ShortLength(S, k) \in MinLength .. DigestLength - 1
        BY <1>2, <2>1, <2>2
    <2> QED BY <1>3, <2>1, <2>2, <2>3
  <1>5. ASSUME NEW k \in S, NEW n \in MinLength .. DigestLength - 1,
               Matching(S, SubSeq(k, 1, n)) = {k}
        PROVE  \E s \in Shrink(S, k) : Len(s) <= n
    <2>1. n \in MinLength .. DigestLength
        BY <1>2
    <2>2. ShortLength(S, k) <= n /\ ShortLength(S, k) \in MinLength .. DigestLength
        BY <1>1, <1>3, <1>5, <2>1, ShortLengthIs
    <2>3. ShortLength(S, k) < DigestLength
        BY <1>2, <2>2
    <2>4. SubSeq(k, 1, ShortLength(S, k)) \in Shrink(S, k)
        BY <2>3 DEF Shrink
    <2>5. Len(SubSeq(k, 1, ShortLength(S, k))) = ShortLength(S, k)
      <3>1. ShortLength(S, k) \in 0 .. DigestLength /\ k \in Digest
          BY <1>1, <1>2, <2>2
      <3> QED BY <3>1, PrefixesAgree
    <2> QED BY <2>2, <2>4, <2>5
  <1> QED BY <1>4, <1>5 DEF ShrinksToShortest

\* All keys that match are candidates, or two of them.
LEMMA CandidatesAre ==
    ASSUME NEW S, S \subseteq FullDigests, NEW p
    PROVE  /\ Candidates(S, p) \subseteq Matching(S, p)
           /\ Candidates(S, p) = Matching(S, p) \/ \E a, b \in Candidates(S, p) : a # b
  <1> DEFINE all == Matching(S, p)
             a == Smallest(all)
             b == Smallest(all \ {a})
  <1>1. all \subseteq Digest /\ IsFiniteSet(all) /\ Cardinality(all) \in Nat
      BY LengthAssumption, FS_Subset, FS_CardinalityType DEF Matching, Digest, Digits
  <1>2. CASE Cardinality(all) <= 2
      BY <1>2 DEF Candidates
  <1>3. CASE ~(Cardinality(all) <= 2)
    <2> HIDE DEF all
    <2>1. all # {}
        BY <1>3, FS_EmptySet
    <2>2. a \in all
        BY <1>1, <2>1, SmallestIsFirst
    <2>3. all \ {a} # {} /\ IsFiniteSet(all \ {a}) /\ all \ {a} \subseteq Digest
      <3>1. IsFiniteSet(all \ {a}) /\ Cardinality(all \ {a}) = Cardinality(all) - 1
          BY <1>1, <2>2, FS_RemoveElement
      <3>2. Cardinality(all \ {a}) # 0
          BY <1>1, <1>3, <3>1
      <3> QED BY <1>1, <3>1, <3>2, FS_EmptySet
    <2>4. b \in all \ {a}
      <3> HIDE DEF a
      <3> QED BY <2>3, SmallestIsFirst
    <2>5. Candidates(S, p) = {a, b}
        BY <1>3 DEF Candidates, all
    <2> QED BY <2>2, <2>4, <2>5 DEF all
  <1> QED BY <1>1, <1>2, <1>3

\* A prefix names stored keys only; one of a stored key is resolved to that key
\* or called ambiguous.
LEMMA ExpandFinds ==
    ASSUME NEW S, S \subseteq FullDigests, NEW k \in FullDigests,
           NEW n \in MinLength .. DigestLength - 1
    PROVE  LET s == SubSeq(k, 1, n) IN
             /\ Expand(S, s) \subseteq Matching(S, s)
             /\ k \in S => k \in Expand(S, s) \/ \E a, b \in Expand(S, s) : a # b
  <1> DEFINE s == SubSeq(k, 1, n)
  <1>1. k \in Digest /\ DigestLength \in Nat /\ MinLength \in 1 .. DigestLength
      BY LengthAssumption DEF Digest, Digits
  <1>2. Len(s) = n /\ IsPrefix(s, k)
    <2>1. Agree(k, k, n) /\ n \in 0 .. DigestLength
        BY <1>1 DEF Agree
    <2> QED BY <1>1, <2>1, PrefixesAgree
  <1>3. Expand(S, s) = Candidates(S, s)
      BY <1>1, <1>2 DEF Expand
  <1>4. k \in S => k \in Matching(S, s)
      BY <1>2 DEF Matching
  <1> QED BY <1>3, <1>4, CandidatesAre

-----------------------------------------------------------------------------
(* The state.                                                               *)

\* A prefix that was handed out is one of the key it was asked for.
HandedIs == handed # Nobody =>
    /\ handed.member \in Members /\ handed.key \in FullDigests
    /\ \E n \in MinLength .. DigestLength - 1 : handed.short = SubSeq(handed.key, 1, n)

PrefixIInv ==
    /\ calls \in [Members -> SUBSET FullDigests]
    /\ values \in [Members -> SUBSET FullDigests]
    /\ HandedIs

LEMMA PrefixStep == ASSUME PrefixIInv, [PrefixNext]_prefixVars PROVE PrefixIInv'
  <1> USE DEF PrefixIInv, HandedIs
  <1>1. ASSUME NEW m \in Members, NEW d \in FullDigests, SaveCall(m, d) PROVE PrefixIInv'
      BY <1>1 DEF SaveCall
  <1>2. ASSUME NEW m \in Members, NEW d \in FullDigests, SaveValue(m, d) PROVE PrefixIInv'
      BY <1>2 DEF SaveValue
  <1>3. ASSUME NEW m \in Members, NEW d \in FullDigests, DropValue(m, d) PROVE PrefixIInv'
      BY <1>3 DEF DropValue
  <1>4. ASSUME NEW m \in Members, NEW p, Evict(m, p) PROVE PrefixIInv'
      BY <1>4 DEF Evict
  <1>5. ASSUME NEW m \in Members, NEW d \in FullDigests, HandOut(m, d) PROVE PrefixIInv'
    <2>1. PICK s \in CacheShrink(m, d) : handed' = [member |-> m, key |-> d, short |-> s]
        BY <1>5 DEF HandOut
    <2>2. \E n \in MinLength .. DigestLength - 1 : s = SubSeq(d, 1, n)
      <3>1. \A S \in SUBSET FullDigests : s \in Shrink(S, d) =>
                \E n \in MinLength .. DigestLength - 1 : s = SubSeq(d, 1, n)
          BY ShrinkIsRight DEF Shrink
      <3> QED BY <3>1 DEF CacheShrink
    <2> QED BY <1>5, <2>1, <2>2 DEF HandOut
  <1>6. CASE UNCHANGED prefixVars
      BY <1>6 DEF prefixVars
  <1> QED BY <1>1, <1>2, <1>3, <1>4, <1>5, <1>6 DEF PrefixNext

LEMMA PrefixInvariance == PrefixSpec => []PrefixIInv
  <1>1. PrefixInit => PrefixIInv
      BY DEF PrefixInit, PrefixIInv, HandedIs
  <1> QED BY <1>1, PrefixStep, PTL DEF PrefixSpec

\* Whatever is saved and evicted, a prefix that was handed out is a proper one of
\* its key, no shorter than may be (KeyManagement).
THEOREM PrefixesTypeCorrect == PrefixSpec => []PrefixesTypeOK
  <1>1. PrefixIInv => PrefixesTypeOK
    <2> SUFFICES ASSUME PrefixIInv, handed # Nobody
                 PROVE  IsStrictPrefix(handed.short, handed.key) /\ Len(handed.short) >= MinLength
        BY DEF PrefixIInv, HandedIs, PrefixesTypeOK
    <2>1. PICK n \in MinLength .. DigestLength - 1 : handed.short = SubSeq(handed.key, 1, n)
        BY DEF PrefixIInv, HandedIs
    <2>2. handed.key \in Digest /\ n \in 0 .. DigestLength /\ n # DigestLength /\ n >= MinLength
        BY LengthAssumption DEF PrefixIInv, HandedIs, Digest, Digits
    <2>3. Len(handed.key) = DigestLength
        BY <2>2, LengthAssumption DEF Digest, Digits
    <2>4. Agree(handed.key, handed.key, n)
        BY DEF Agree
    <2>5. IsPrefix(handed.short, handed.key) /\ Len(handed.short) = n
        BY <2>1, <2>2, <2>4, PrefixesAgree
    <2> QED BY <2>2, <2>3, <2>5 DEF IsStrictPrefix
  <1> QED BY <1>1, PrefixInvariance, PTL

\* Short digests stay true for digests of any length over any alphabet, and any
\* number of members, keys and stored digests (storage/base.py _shrink_one and
\* _expand, caches.py expand and shrink).
THEOREM PrefixesStayTrue == PrefixSpec => []ShortsStayTrue
  <1>1. PrefixIInv => ShortsStayTrue
    <2> SUFFICES ASSUME PrefixIInv PROVE ShortsStayTrue
        OBVIOUS
    <2>1. ASSUME NEW m \in Members
          PROVE  calls[m] \subseteq FullDigests /\ values[m] \subseteq FullDigests
        BY DEF PrefixIInv
    <2>2. \A m \in Members : {calls[m], values[m]} \subseteq ShrinkIsShortest
        BY <2>1, ShrinkIsRight DEF ShrinkIsShortest
    <2>3. ASSUME handed # Nobody,
                 handed.key \in calls[handed.member] \cup values[handed.member]
          PROVE  LET named == CacheExpand(handed.member, handed.short)
                 IN  named = {handed.key} \/ Cardinality(named) > 1
      <3> DEFINE m == handed.member
                 named == CacheExpand(m, handed.short)
      <3>1. PICK n \in MinLength .. DigestLength - 1 : handed.short = SubSeq(handed.key, 1, n)
          BY <2>3 DEF PrefixIInv, HandedIs
      <3>2. m \in Members
          BY <2>3 DEF PrefixIInv, HandedIs
      <3>3. handed.key \in named \/ \E a, b \in named : a # b
          BY <2>1, <2>3, <3>1, <3>2, ExpandFinds DEF CacheExpand, PrefixIInv
      <3>4. named \subseteq FullDigests
        <4>1. \A S \in SUBSET FullDigests : Expand(S, handed.short) \subseteq FullDigests
          <5>1. handed.key \in FullDigests
              BY <2>3 DEF PrefixIInv, HandedIs
          <5> QED BY <3>1, <5>1, ExpandFinds DEF Matching
        <4> QED BY <2>1, <3>2, <4>1 DEF CacheExpand
      <3>5. IsFiniteSet(named)
          BY <3>4, LengthAssumption, FS_Subset
      <3> HIDE DEF named
      <3>6. ASSUME NEW a \in named, NEW b \in named, a # b PROVE Cardinality(named) > 1
        <4>1. IsFiniteSet({a, b}) /\ Cardinality({a, b}) = 2
          <5>1. IsFiniteSet({a}) /\ Cardinality({a}) = 1 /\ b \notin {a}
              BY <3>6, FS_Singleton
          <5>2. IsFiniteSet({a} \cup {b}) /\ Cardinality({a} \cup {b}) = 1 + 1
              BY <5>1, FS_AddElement
          <5>3. {a} \cup {b} = {a, b}
              OBVIOUS
          <5> QED BY <5>2, <5>3
        <4>2. 2 <= Cardinality(named) /\ Cardinality(named) \in Nat
            BY <3>5, <3>6, <4>1, FS_Subset, FS_CardinalityType
        <4> QED BY <4>2
      <3>7. named = {handed.key} \/ \E a, b \in named : a # b
          BY <3>3
      <3> QED BY <3>6, <3>7 DEF named
    <2>4. ASSUME NEW k \in FullDigests, NEW s \in MultiShrink(k), NEW d \in FullDigests,
                 MultiExpand(s) = {d}
          PROVE  d = k
      <3>1. PICK m \in Holders(k) : s \in CacheShrink(m, k)
          BY DEF MultiShrink
      <3>2. m \in Members /\ k \in calls[m] /\ s \in Shrink(calls[m], k)
          BY <3>1 DEF Holders, CacheShrink
      <3>3. PICK n \in MinLength .. DigestLength - 1 : s = SubSeq(k, 1, n)
          BY <2>1, <3>2, ShrinkIsRight
      <3>4. Matching(calls[m], s) = {k}
          BY <2>1, <3>2, ShrinkIsRight
      <3>5. k \in Expand(calls[m], s)
          BY <2>1, <3>2, <3>3, <3>4, ExpandFinds
      <3> QED BY <2>4, <3>2, <3>5 DEF MultiExpand, CacheExpand
    <2> QED BY <2>2, <2>3, <2>4 DEF ShortsStayTrue
  <1> QED BY <1>1, PrefixInvariance, PTL
=============================================================================
