----------------------------- MODULE HdfBagsProofs ----------------------------
(***************************************************************************)
(* What holds of HdfBags for any number of processes, keys and prefix        *)
(* lengths, and any programs.                                               *)
(***************************************************************************)
EXTENDS HdfBags, FiniteSetTheorems, SequenceTheorems, TLAPS

Instructions ==
    [do : {"put", "rebag"}, len : Lengths, key : Keys, rec : Records \cup {None}]
    \cup [do : {"replace", "evict", "saved", "apply"}, len : Lengths, key : Keys, rec : {None}]
    \cup [do : {"move"}, len : Lengths, key : Keys, rec : Lengths]
    \cup [do : {"scan"}, len : Lengths, key : {None}, rec : Lengths]
    \cup [do : {"check"}, len : Lengths, key : {None}, rec : {None}]

Outcomes == {"none", "busy", "done", "unreadable", "inconsistent", "timeout", "save error",
             "os error", "crashed"}

\* How far a process is in an instruction fits the instruction.
AtFits(p) ==
    /\ at[p] = "opened" => Locks(p) /\ fd[p] # None
    /\ at[p] = "inside" => plan[p] # <<>> /\ (Locks(p) \/ Head(plan[p]).do = "rebag")
    /\ at[p] = "writing" =>
         /\ plan[p] # <<>> /\ Head(plan[p]).do \in {"put", "rebag"} /\ Head(plan[p]).len # 0
         /\ Head(plan[p]).rec # None => Mine(p) \in bags
    /\ at[p] \in {"emptied", "gone"} => Locks(p) /\ Head(plan[p]).do = "evict"

DiskOK ==
    /\ entry \in [Lengths -> [Keys -> Records \cup {Torn, None}]]
    /\ bags \subseteq AllBags /\ broken \subseteq bags
    /\ \A n \in Lengths \ {0}, k \in Keys : entry[n][k] # None => Bag(n, k) \in bags

LocksOK ==
    /\ lockfile \in [AllBags -> Inodes \cup {None}]
    /\ fd \in [Processes -> Inodes \cup {None}]

PlansOK ==
    /\ plan \in [Processes -> Seq(Instructions)]
    /\ at \in [Processes -> {"start", "opened", "inside", "writing", "emptied", "gone"}]
    /\ outcome \in [Processes -> Outcomes]
    /\ \A p \in Processes :
         /\ plan[p] = <<>> => at[p] = "start"
         /\ (plan[p] # <<>>) <=> (outcome[p] = "busy")

Base ==
    /\ DiskOK /\ LocksOK /\ PlansOK
    /\ \A p \in Processes : AtFits(p)
    /\ program \in [run : Programs, rechecks : BOOLEAN]
    /\ damaged \in BOOLEAN /\ filed \subseteq Keys

LEMMA BaseHasTypes == Base => TypeOK
  BY DEF Base, DiskOK, LocksOK, PlansOK, TypeOK

-----------------------------------------------------------------------------
\* A process inside a bag has locked the inode of the lock path, which stays there.
LocksHold ==
    /\ \A p, q \in Processes : Inside(p) /\ Inside(q) /\ fd[p] = fd[q] => p = q
    /\ program.rechecks =>
         \A p \in Processes : Inside(p) => fd[p] # None /\ fd[p] = lockfile[Mine(p)]

\* Who found nothing left in its bag is right, until it has unlinked it.
Emptied(p) == at[p] = "emptied" =>
    LET i == Head(plan[p]) IN
        \A k \in Keys : Bag(i.len, k) = Mine(p) => entry[i.len][k] = None

-----------------------------------------------------------------------------
Migrating == Calls({"refix", "consolidate"}) /\ OneTarget
Target == (CHOOSE job \in Jobs : TRUE).to

\* What a migration has still to do: nothing is put but in the target, nothing
\* taken from it, and what is to be evicted is in it, or put there just before.
MoveFits(s, j) ==
    LET i == s[j] IN
      /\ i.do \in {"scan", "move", "put", "evict", "check"} /\ Target \in Lengths
      /\ i.do \in {"scan", "move"} => i.len # Target /\ i.rec = Target
      /\ i.do = "check" => i.len = Target
      /\ i.do = "put" => j = 1 /\ i.len = Target /\ i.rec # None
      /\ i.do = "evict" =>
           /\ i.len # Target
           /\ \/ j = 1 /\ Whole(Target, i.key)
              \/ j = 2 /\ s[1].do = "put" /\ s[1].key = i.key

MovesOn(p) == \A j \in 1 .. Len(plan[p]) : MoveFits(plan[p], j)

MigrationInv == Migrating /\ ~damaged =>
    /\ \A n \in Lengths, k \in Keys : entry[n][k] # Torn
    /\ \A p \in Processes : MovesOn(p) /\ Emptied(p)
    /\ \A k \in AtStart : \E n \in Lengths : Whole(n, k)

ConsolidationInv == Calls({"consolidate"}) /\ OneTarget /\ ~damaged =>
    \A p \in Processes :
        /\ plan[p] # <<>> => plan[p][Len(plan[p])].do = "check"
        /\ outcome[p] = "done" => Observed \subseteq {Target}

-----------------------------------------------------------------------------
Sharing == Calls({"save", "evict"}) /\ KeysAreOwned /\ program.rechecks

\* What a save or an eviction has still to do is about one key of its process, which
\* is not filed meanwhile; when nothing but the return is left of a save, its entry is
\* there.
Works(p, job) ==
    LET s == plan[p] IN
      /\ job.key \notin filed
      /\ \A j \in 1 .. Len(s) :
           /\ s[j].key = job.key /\ s[j].len = job.len
           /\ s[j].do = "put" => s[j].rec # None
      /\ \/ /\ Len(s) = 3 /\ s[1].do \in {"replace", "evict"}
            /\ s[2].do = "put" /\ s[3].do = "saved"
         \/ Len(s) = 2 /\ s[1].do = "put" /\ s[2].do = "saved"
         \/ Len(s) = 1 /\ s[1].do = "saved" /\ Whole(job.len, job.key)
         \/ Len(s) = 1 /\ s[1].do = "evict"

WorksOnOwn(p) == plan[p] # <<>> => \E job \in program.run.jobs[p] : Works(p, job)

SharingInv == Sharing =>
    /\ \A p \in Processes : WorksOnOwn(p) /\ Emptied(p)
    /\ \A p \in Processes : \A job \in program.run.jobs[p] :
         job.key \in filed => Whole(job.len, job.key)
-----------------------------------------------------------------------------
(* Numbers in order, and inodes.                                            *)

\* In a finite set of numbers there is one with i - 1 below it, for each i up to
\* the size of the set.
LEMMA RanksAreTaken ==
    ASSUME NEW S, IsFiniteSet(S), S \subseteq Nat, NEW i \in 1 .. Cardinality(S)
    PROVE  \E k \in S : Cardinality({j \in S : j < k}) = i - 1
  <1> DEFINE Below(k) == {j \in S : j < k}
             n == Cardinality(S)
             rank == [k \in S |-> Cardinality(Below(k))]
  <1>1. n \in Nat
      BY FS_CardinalityType
  <1>2. ASSUME NEW k \in S
        PROVE  IsFiniteSet(Below(k)) /\ Cardinality(Below(k)) \in 0 .. n - 1
    <2>1. IsFiniteSet(S \ {k}) /\ Cardinality(S \ {k}) = n - 1
        BY FS_RemoveElement
    <2>2. Below(k) \in SUBSET (S \ {k})
        OBVIOUS
    <2>3. IsFiniteSet(Below(k)) /\ Cardinality(Below(k)) <= n - 1
        BY <2>1, <2>2, FS_Subset
    <2>4. Cardinality(Below(k)) \in Nat
        BY <2>3, FS_CardinalityType
    <2> QED BY <2>3, <2>4, <1>1
  <1>3. ASSUME NEW j \in S, NEW k \in S, j < k
        PROVE  Cardinality(Below(j)) # Cardinality(Below(k))
    <2>1. Below(j) \in SUBSET Below(k)
      <3>1. \A x \in S : x \in Nat /\ j \in Nat /\ k \in Nat
          OBVIOUS
      <3>2. \A x \in S : x < j => x < k
          BY <1>3, <3>1
      <3> QED BY <3>2
    <2>2. j \in Below(k) /\ j \notin Below(j)
        BY <1>3
    <2> QED BY <1>2, <2>1, <2>2, FS_Subset
  <1>4. rank \in Injection(S, 0 .. n - 1)
    <2>1. rank \in [S -> 0 .. n - 1]
        BY <1>2
    <2>2. \A a, b \in S : rank[a] = rank[b] => a = b
      <3>1. \A a, b \in S : a < b \/ b < a \/ a = b
          OBVIOUS
      <3> QED BY <1>3, <3>1
    <2> HIDE DEF rank
    <2> QED BY <2>1, <2>2 DEF Injection, IsInjective
  <1>5. IsFiniteSet(0 .. n - 1) /\ Cardinality(0 .. n - 1) = n
    <2> HIDE DEF n
    <2>1. 0 \in Int /\ n - 1 \in Int /\ (IF 0 > n - 1 THEN 0 ELSE n - 1 - 0 + 1) = n
        BY <1>1
    <2> QED BY <2>1, FS_Interval
  <1>6. rank \in Surjection(S, 0 .. n - 1)
      BY <1>4, <1>5, FS_Injection
  <1>7. i - 1 \in 0 .. n - 1
      BY <1>1
  <1> QED BY <1>6, <1>7 DEF Surjection

\* A nonempty finite set of numbers has a smallest one.
LEMMA SmallestIsThere ==
    ASSUME NEW S, IsFiniteSet(S), S \subseteq Nat, S # {}
    PROVE  Smallest(S) \in S
  <1>1. Cardinality(S) \in Nat /\ Cardinality(S) # 0
      BY FS_CardinalityType, FS_EmptySet
  <1>2. PICK k \in S : Cardinality({j \in S : j < k}) = 0
    <2>1. 1 \in 1 .. Cardinality(S) /\ 1 - 1 = 0
        BY <1>1
    <2>2. \E k \in S : Cardinality({j \in S : j < k}) = 1 - 1
        BY <2>1, RanksAreTaken
    <2> QED BY <2>1, <2>2
  <1>3. IsFiniteSet({j \in S : j < k})
      BY FS_Subset
  <1>4. {j \in S : j < k} = {}
      BY <1>2, <1>3, FS_EmptySet
  <1>5. \A j \in S : k <= j
      BY <1>4
  <1> QED BY <1>5 DEF Smallest

\* The values of a function are no more than its arguments.
LEMMA ValuesAreFew ==
    ASSUME NEW S, IsFiniteSet(S), NEW f, f \in [S -> {f[x] : x \in S}]
    PROVE  /\ IsFiniteSet({f[x] : x \in S})
           /\ Cardinality({f[x] : x \in S}) <= Cardinality(S)
  <1>1. f \in Surjection(S, {f[x] : x \in S})
      BY DEF Surjection
  <1> QED BY <1>1, FS_Surjection

LEMMA BagsAreFinite == IsFiniteSet(AllBags)
  <1> DEFINE S == (Lengths \ {0}) \X Keys
             f == [x \in S |-> Bag(x[1], x[2])]
  <1>1. IsFiniteSet(S)
      BY BagsAssumption, FS_RemoveElement, FS_Product
  <1>2. AllBags = {f[x] : x \in S}
    <2>1. ASSUME NEW b \in AllBags PROVE \E x \in S : f[x] = b
      <3>1. PICK n \in Lengths \ {0}, k \in Keys : b = Bag(n, k)
          BY DEF AllBags
      <3>2. <<n, k>> \in S /\ f[<<n, k>>] = Bag(n, k)
          OBVIOUS
      <3> QED BY <3>1, <3>2
    <2>2. ASSUME NEW x \in S PROVE f[x] \in AllBags
        BY DEF AllBags
    <2> QED BY <2>1, <2>2
  <1>3. f \in [S -> {f[x] : x \in S}]
      OBVIOUS
  <1> HIDE DEF S, f
  <1>4. IsFiniteSet({f[x] : x \in S})
      BY <1>1, <1>3, ValuesAreFew
  <1> QED BY <1>2, <1>4

\* There is always an inode that no lock path and no process has.
LEMMA InodesAreLeft ==
    ASSUME LocksOK
    PROVE  Smallest(Inodes \ InUse) \in Inodes
  <1> DEFINE A == {lockfile[b] : b \in AllBags}
             B == {fd[p] : p \in Processes}
             n == Cardinality(Processes) + Cardinality(AllBags) + 1
  <1>1. Cardinality(Processes) \in Nat /\ Cardinality(AllBags) \in Nat
      BY BagsAssumption, BagsAreFinite, FS_CardinalityType
  <1>2. IsFiniteSet(A) /\ Cardinality(A) <= Cardinality(AllBags)
      BY BagsAreFinite, ValuesAreFew DEF LocksOK
  <1>3. IsFiniteSet(B) /\ Cardinality(B) <= Cardinality(Processes)
      BY BagsAssumption, ValuesAreFew DEF LocksOK
  <1>4. IsFiniteSet(A \cup B) /\ Cardinality(A \cup B) < n
    <2>1. IsFiniteSet(A \cap B)
        BY <1>2, FS_Intersection
    <2>2. Cardinality(A) \in Nat /\ Cardinality(B) \in Nat /\ Cardinality(A \cap B) \in Nat
        BY <1>2, <1>3, <2>1, FS_CardinalityType
    <2> QED BY <1>1, <1>2, <1>3, <2>2, FS_Union
  <1>5. IsFiniteSet(Inodes) /\ Cardinality(Inodes) = n
    <2>1. Inodes = 1 .. n
        BY DEF Inodes
    <2> HIDE DEF n
    <2>2. n \in Nat
        BY <1>1 DEF n
    <2>3. 1 \in Int /\ n \in Int /\ (IF 1 > n THEN 0 ELSE n - 1 + 1) = n
        BY <2>2
    <2> QED BY <2>1, <2>3, FS_Interval
  <1>6. Inodes \ InUse # {}
    <2>1. SUFFICES ASSUME Inodes \in SUBSET (A \cup B) PROVE FALSE
        BY DEF InUse
    <2>2. Cardinality(Inodes) <= Cardinality(A \cup B)
        BY <2>1, <1>4, FS_Subset
    <2>3. Cardinality(A \cup B) \in Nat
        BY <1>4, FS_CardinalityType
    <2> QED BY <1>1, <1>4, <1>5, <2>2, <2>3
  <1>7. IsFiniteSet(Inodes \ InUse) /\ Inodes \ InUse \subseteq Nat
    <2>1. Inodes \subseteq Nat
        BY <1>1 DEF Inodes
    <2> QED BY <1>5, <2>1, FS_Difference
  <1> QED BY <1>6, <1>7, SmallestIsThere

-----------------------------------------------------------------------------
(* Plans.                                                                   *)

LEMMA InstructionsFit ==
    ASSUME NEW i \in Instructions
    PROVE  /\ i.do \in {"put", "rebag", "replace", "evict", "saved", "apply", "move",
                        "scan", "check"}
           /\ i.len \in Lengths
           /\ i.do \notin {"scan", "check"} => i.key \in Keys
           /\ i.do \in {"scan", "move"} => i.rec \in Lengths
           /\ i.do \in {"put", "rebag"} => i.rec \in Records \cup {None}
  BY DEF Instructions

LEMMA InstructionsAre ==
    ASSUME NEW n \in Lengths
    PROVE  /\ \A m \in Lengths : Scan(n, m) \in Instructions
           /\ Do("check", n, None, None) \in Instructions
           /\ \A k \in Keys :
                /\ Evict(n, k) \in Instructions
                /\ \A r \in Records \cup {None} : Put(n, k, r) \in Instructions
                /\ \A m \in Lengths : Do("move", n, k, m) \in Instructions
                /\ \A what \in {"replace", "saved", "apply", "rebag"} :
                     Do(what, n, k, None) \in Instructions
  BY DEF Instructions, Scan, Evict, Put, Do

\* A save replaces and puts; something may follow.
LEMMA SavesAre ==
    ASSUME NEW n \in Lengths, NEW k \in Keys, NEW r \in Records
    PROVE  /\ Saving(n, k, r) \in Seq(Instructions)
           /\ \A last \in Instructions :
                LET s == Saving(n, k, r) \o <<last>> IN
                  /\ s \in Seq(Instructions) /\ Len(s) = 3
                  /\ s[1] = Do("replace", n, k, None) /\ s[2] = Put(n, k, r) /\ s[3] = last
  <1> DEFINE a == Do("replace", n, k, None)
             b == Put(n, k, r)
  <1>1. a \in Instructions /\ b \in Instructions
      BY InstructionsAre
  <1>2. Saving(n, k, r) = <<a, b>>
      BY DEF Saving
  <1> HIDE DEF a, b
  <1>3. <<a, b>> \in Seq(Instructions) /\ Len(<<a, b>>) = 2
      BY <1>1
  <1>4. ASSUME NEW last \in Instructions
        PROVE  LET s == <<a, b>> \o <<last>> IN
                  /\ s \in Seq(Instructions) /\ Len(s) = 3
                  /\ s[1] = a /\ s[2] = b /\ s[3] = last
    <2>1. <<last>> \in Seq(Instructions) /\ Len(<<last>>) = 1
        OBVIOUS
    <2> QED BY <1>3, <2>1, ConcatProperties
  <1> QED BY <1>2, <1>3, <1>4 DEF a, b

\* One instruction for each number of a set, in order.
LEMMA MovesInOrder ==
    ASSUME NEW S, IsFiniteSet(S), S \subseteq Keys, NEW n \in Lengths, NEW m \in Lengths
    PROVE  LET s == InOrder(S, LAMBDA k : Do("move", n, k, m)) IN
             /\ s \in Seq(Instructions)
             /\ \A j \in 1 .. Len(s) : \E k \in S : s[j] = Do("move", n, k, m)
  <1> DEFINE nth(i) == CHOOSE k \in S : Cardinality({j \in S : j < k}) = i - 1
             s == [i \in 1 .. Cardinality(S) |-> Do("move", n, nth(i), m)]
  <1>1. Cardinality(S) \in Nat /\ S \subseteq Nat
      BY FS_CardinalityType, BagsAssumption
  <1>2. \A i \in 1 .. Cardinality(S) : nth(i) \in S
      BY <1>1, RanksAreTaken
  <1>3. \A i \in 1 .. Cardinality(S) : Do("move", n, nth(i), m) \in Instructions
      BY <1>2, InstructionsAre
  <1> HIDE DEF nth
  <1>4. s \in Seq(Instructions) /\ Len(s) = Cardinality(S)
      BY <1>1, <1>3
  <1>5. InOrder(S, LAMBDA k : Do("move", n, k, m)) = s
      BY DEF InOrder, nth
  <1> QED BY <1>1, <1>2, <1>4, <1>5

LEMMA ScansInOrder ==
    ASSUME NEW S, IsFiniteSet(S), S \subseteq Lengths, NEW m \in Lengths
    PROVE  LET s == InOrder(S, LAMBDA n : Scan(n, m)) IN
             /\ s \in Seq(Instructions)
             /\ \A j \in 1 .. Len(s) : \E n \in S : s[j] = Scan(n, m)
  <1> DEFINE nth(i) == CHOOSE k \in S : Cardinality({j \in S : j < k}) = i - 1
             s == [i \in 1 .. Cardinality(S) |-> Scan(nth(i), m)]
  <1>1. Cardinality(S) \in Nat /\ S \subseteq Nat
      BY FS_CardinalityType, BagsAssumption
  <1>2. \A i \in 1 .. Cardinality(S) : nth(i) \in S
      BY <1>1, RanksAreTaken
  <1>3. \A i \in 1 .. Cardinality(S) : Scan(nth(i), m) \in Instructions
      BY <1>2, InstructionsAre
  <1> HIDE DEF nth
  <1>4. s \in Seq(Instructions) /\ Len(s) = Cardinality(S)
      BY <1>1, <1>3
  <1>5. InOrder(S, LAMBDA n : Scan(n, m)) = s
      BY DEF InOrder, nth
  <1> QED BY <1>1, <1>2, <1>4, <1>5

LEMMA KeysInOrder ==
    ASSUME NEW S, IsFiniteSet(S), S \subseteq Keys, NEW n \in Lengths,
           NEW what \in {"apply", "rebag"}
    PROVE  InOrder(S, LAMBDA k : Do(what, n, k, None)) \in Seq(Instructions)
  <1> DEFINE nth(i) == CHOOSE k \in S : Cardinality({j \in S : j < k}) = i - 1
             s == [i \in 1 .. Cardinality(S) |-> Do(what, n, nth(i), None)]
  <1>1. Cardinality(S) \in Nat /\ S \subseteq Nat
      BY FS_CardinalityType, BagsAssumption
  <1>2. \A i \in 1 .. Cardinality(S) : nth(i) \in S
      BY <1>1, RanksAreTaken
  <1>3. \A i \in 1 .. Cardinality(S) : Do(what, n, nth(i), None) \in Instructions
      BY <1>2, InstructionsAre
  <1> HIDE DEF nth
  <1>4. s \in Seq(Instructions)
      BY <1>1, <1>3
  <1>5. InOrder(S, LAMBDA k : Do(what, n, k, None)) = s
      BY DEF InOrder, nth
  <1> QED BY <1>4, <1>5

\* The first instruction of a plan is carried out.
LEMMA ContinueGoesOn ==
    ASSUME PlansOK, NEW p \in Processes, plan[p] # <<>>,
           NEW more \in Seq(Instructions), Continue(p, more)
    PROVE  /\ PlansOK'
           /\ \A q \in Processes : q # p => plan'[q] = plan[q] /\ at'[q] = at[q]
                                            /\ outcome'[q] = outcome[q]
           /\ at'[p] = "start" /\ (outcome'[p] = "done" <=> plan'[p] = <<>>)
           /\ Len(plan'[p]) = Len(more) + Len(plan[p]) - 1
           /\ \A j \in 1 .. Len(more) : plan'[p][j] = more[j]
           /\ \A j \in Len(more) + 1 .. Len(plan'[p]) :
                 plan'[p][j] = plan[p][j - Len(more) + 1]
  <1> DEFINE rest == Tail(plan[p])
  <1>1. plan[p] \in Seq(Instructions) /\ Len(plan[p]) \in Nat /\ Len(more) \in Nat
      BY DEF PlansOK
  <1>2. /\ rest \in Seq(Instructions) /\ Len(rest) = Len(plan[p]) - 1
        /\ \A j \in 1 .. Len(rest) : rest[j] = plan[p][j + 1]
      BY <1>1, HeadTailProperties
  <1>3. plan' = [plan EXCEPT ![p] = more \o rest]
      BY DEF Continue
  <1> HIDE DEF rest
  <1>4. /\ more \o rest \in Seq(Instructions)
        /\ Len(more \o rest) = Len(more) + Len(rest)
        /\ \A j \in 1 .. Len(more) + Len(rest) : (more \o rest)[j] =
              IF j <= Len(more) THEN more[j] ELSE rest[j - Len(more)]
      BY <1>2, ConcatProperties
  <1>5. plan' \in [Processes -> Seq(Instructions)] /\ plan'[p] = more \o rest
        /\ \A q \in Processes : q # p => plan'[q] = plan[q]
      BY <1>3, <1>4 DEF PlansOK
  <1>6. /\ at' = [at EXCEPT ![p] = "start"]
        /\ outcome' = IF plan'[p] = <<>> THEN [outcome EXCEPT ![p] = "done"] ELSE outcome
      BY DEF Continue
  <1>7. outcome' \in [Processes -> Outcomes] /\ outcome[p] = "busy"
        /\ outcome'[p] = (IF plan'[p] = <<>> THEN "done" ELSE outcome[p])
        /\ \A q \in Processes : q # p => outcome'[q] = outcome[q]
      BY <1>6 DEF PlansOK, Outcomes
  <1>8. at' \in [Processes -> {"start", "opened", "inside", "writing", "emptied", "gone"}]
        /\ at'[p] = "start" /\ \A q \in Processes : q # p => at'[q] = at[q]
      BY <1>6 DEF PlansOK
  <1>9. PlansOK'
      BY <1>5, <1>7, <1>8 DEF PlansOK
  <1>10. \A j \in 1 .. Len(more) : plan'[p][j] = more[j]
      BY <1>1, <1>2, <1>4, <1>5
  <1>11. \A j \in Len(more) + 1 .. Len(plan'[p]) : plan'[p][j] = plan[p][j - Len(more) + 1]
    <2> SUFFICES ASSUME NEW j \in Len(more) + 1 .. Len(more) + Len(rest)
                 PROVE  (more \o rest)[j] = plan[p][j - Len(more) + 1]
        BY <1>4, <1>5
    <2>1. j - Len(more) \in 1 .. Len(rest) /\ ~(j <= Len(more))
        BY <1>1, <1>2
    <2> QED BY <1>2, <1>4, <2>1, <1>1
  <1> QED BY <1>2, <1>4, <1>5, <1>7, <1>8, <1>9, <1>10, <1>11

\* An exception ends the plan.
LEMMA RaiseEnds ==
    ASSUME PlansOK, NEW p \in Processes, NEW how \in Outcomes \ {"busy", "done"}, Raise(p, how)
    PROVE  /\ PlansOK'
           /\ \A q \in Processes : q # p => plan'[q] = plan[q] /\ at'[q] = at[q]
                                            /\ outcome'[q] = outcome[q]
           /\ plan'[p] = <<>> /\ at'[p] = "start" /\ outcome'[p] = how
  <1>1. plan' \in [Processes -> Seq(Instructions)] /\ plan'[p] = <<>>
        /\ \A q \in Processes : q # p => plan'[q] = plan[q]
    <2>1. <<>> \in Seq(Instructions)
        OBVIOUS
    <2> QED BY <2>1 DEF PlansOK, Raise
  <1>2. at' \in [Processes -> {"start", "opened", "inside", "writing", "emptied", "gone"}]
        /\ at'[p] = "start" /\ \A q \in Processes : q # p => at'[q] = at[q]
      BY DEF PlansOK, Raise
  <1>3. outcome' \in [Processes -> Outcomes] /\ outcome'[p] = how
        /\ \A q \in Processes : q # p => outcome'[q] = outcome[q]
      BY DEF PlansOK, Raise
  <1> QED BY <1>1, <1>2, <1>3 DEF PlansOK

\* A process comes further in its first instruction.
LEMMA GotoGoesOn ==
    ASSUME PlansOK, NEW p \in Processes, plan[p] # <<>>, UNCHANGED <<plan, outcome>>,
           NEW next \in {"start", "opened", "inside", "writing", "emptied", "gone"},
           Goto(p, next)
    PROVE  /\ PlansOK'
           /\ at'[p] = next /\ \A q \in Processes : q # p => at'[q] = at[q]
  BY DEF PlansOK, Goto

-----------------------------------------------------------------------------
(* Types.                                                                   *)

\* One entry is written; it is of length 0, or taken away, or its bag is there.
LEMMA FileKeepsDisk ==
    ASSUME DiskOK, NEW n \in Lengths, NEW k \in Keys, NEW r \in Records \cup {Torn, None},
           File(n, k, r), UNCHANGED <<bags, broken>>,
           n = 0 \/ r = None \/ Bag(n, k) \in bags
    PROVE  /\ DiskOK' /\ entry'[n][k] = r
           /\ \A m \in Lengths, j \in Keys :
                 <<m, j>> # <<n, k>> => entry'[m][j] = entry[m][j]
  <1>1. /\ entry' \in [Lengths -> [Keys -> Records \cup {Torn, None}]]
        /\ entry'[n][k] = r
        /\ \A m \in Lengths, j \in Keys : ~(m = n /\ j = k) => entry'[m][j] = entry[m][j]
      BY DEF DiskOK, File
  <1>2. ASSUME NEW m \in Lengths \ {0}, NEW j \in Keys, entry'[m][j] # None
        PROVE  Bag(m, j) \in bags
    <2>1. CASE m = n /\ j = k
        BY <1>1, <1>2, <2>1
    <2>2. CASE ~(m = n /\ j = k)
      <3>1. entry[m][j] # None
          BY <1>1, <1>2, <2>2
      <3> QED BY <3>1 DEF DiskOK
    <2> QED BY <2>1, <2>2
  <1>3. \A m \in Lengths, j \in Keys : Bag(m, j)' = Bag(m, j)
      BY DEF Bag
  <1>4. AllBags' = AllBags
      BY DEF AllBags, Bag
  <1>5. DiskOK'
      BY <1>1, <1>2, <1>3, <1>4 DEF DiskOK
  <1> QED BY <1>1, <1>5

\* Who starts an instruction fits, and the others are where they were.
LEMMA OthersFit ==
    ASSUME Base, NEW p \in Processes, AtFits(p)', bags \subseteq bags',
           \A q \in Processes : q # p =>
               plan'[q] = plan[q] /\ at'[q] = at[q] /\ fd'[q] = fd[q]
    PROVE  \A q \in Processes : AtFits(q)'
  BY DEF Base, AtFits, Locks, Mine, Bag

LEMMA StartFits ==
    ASSUME NEW p, at'[p] = "start"
    PROVE  AtFits(p)'
  BY DEF AtFits

\* The first instruction is carried out.
LEMMA ContinueKeepsBase ==
    ASSUME Base, NEW p \in Processes, plan[p] # <<>>,
           NEW more \in Seq(Instructions), Continue(p, more),
           DiskOK', bags \subseteq bags', lockfile' \in [AllBags -> Inodes \cup {None}],
           fd' = fd \/ Unlock(p),
           damaged' \in BOOLEAN, filed' \subseteq Keys, program' = program
    PROVE  Base'
  <1>1. PlansOK' /\ at'[p] = "start"
        /\ \A q \in Processes : q # p => plan'[q] = plan[q] /\ at'[q] = at[q]
      BY ContinueGoesOn DEF Base
  <1>2. fd' \in [Processes -> Inodes \cup {None}]
        /\ \A q \in Processes : q # p => fd'[q] = fd[q]
      BY DEF Base, LocksOK, Unlock
  <1>3. \A q \in Processes : AtFits(q)'
      BY <1>1, <1>2, StartFits, OthersFit
  <1> QED BY <1>1, <1>2, <1>3 DEF Base, LocksOK

LEMMA RaiseKeepsBase ==
    ASSUME Base, NEW p \in Processes, NEW how \in Outcomes \ {"busy", "done"}, Raise(p, how),
           DiskOK', bags \subseteq bags', lockfile' = lockfile,
           damaged' \in BOOLEAN, filed' = filed, program' = program
    PROVE  Base'
  <1>1. PlansOK' /\ at'[p] = "start"
        /\ \A q \in Processes : q # p => plan'[q] = plan[q] /\ at'[q] = at[q]
      BY RaiseEnds DEF Base
  <1>2. fd' \in [Processes -> Inodes \cup {None}]
        /\ \A q \in Processes : q # p => fd'[q] = fd[q]
      BY DEF Base, LocksOK, Raise
  <1>3. \A q \in Processes : AtFits(q)'
      BY <1>1, <1>2, StartFits, OthersFit
  <1> QED BY <1>1, <1>2, <1>3 DEF Base, LocksOK

LEMMA GotoKeepsBase ==
    ASSUME Base, NEW p \in Processes, plan[p] # <<>>, UNCHANGED <<plan, outcome>>,
           NEW next \in {"start", "opened", "inside", "writing", "emptied", "gone"},
           Goto(p, next), AtFits(p)',
           DiskOK', bags \subseteq bags', LocksOK',
           \A q \in Processes : q # p => fd'[q] = fd[q],
           UNCHANGED <<damaged, filed, program>>
    PROVE  Base'
  <1>1. PlansOK' /\ \A q \in Processes : q # p => plan'[q] = plan[q] /\ at'[q] = at[q]
      BY GotoGoesOn DEF Base
  <1>2. \A q \in Processes : AtFits(q)'
      BY <1>1, OthersFit
  <1> QED BY <1>1, <1>2 DEF Base

-----------------------------------------------------------------------------
\* The plan of a job is made of instructions.
LEMMA PlannedFits ==
    ASSUME Base, NEW p \in Processes, NEW job \in program.run.jobs[p]
    PROVE  Planned(job) \in Seq(Instructions)
  <1>1. job \in AnyJob
      BY ProgramsAssumption DEF Base
  <1>2. CASE job.do = "save"
    <2>1. job.len \in Lengths /\ job.key \in Keys
        BY <1>1, <1>2 DEF AnyJob
    <2>2. Record(job.key, 0) \in Records
        BY <2>1 DEF Record, Records
    <2>3. Planned(job) = Saving(job.len, job.key, Record(job.key, 0))
                         \o <<Do("saved", job.len, job.key, None)>>
        BY <1>2 DEF Planned
    <2>4. Do("saved", job.len, job.key, None) \in Instructions
        BY <2>1, InstructionsAre
    <2> QED BY <2>1, <2>2, <2>3, <2>4, SavesAre
  <1>3. CASE job.do = "evict"
    <2>1. job.len \in Lengths /\ job.key \in Keys
        BY <1>1, <1>3 DEF AnyJob
    <2>2. Planned(job) = <<Evict(job.len, job.key)>>
        BY <1>3 DEF Planned
    <2> QED BY <2>1, <2>2, InstructionsAre
  <1>4. CASE job.do = "refix"
    <2>1. job.len \in Lengths /\ job.to \in Lengths
        BY <1>1, <1>4, BagsAssumption DEF AnyJob
    <2>2. Planned(job) = IF job.to = job.len THEN <<>> ELSE <<Scan(job.len, job.to)>>
        BY <1>4 DEF Planned
    <2>3. <<Scan(job.len, job.to)>> \in Seq(Instructions) /\ <<>> \in Seq(Instructions)
        BY <2>1, InstructionsAre
    <2> QED BY <2>2, <2>3
  <1>5. CASE job.do = "consolidate"
    <2>1. job.to \in Lengths
        BY <1>1, <1>5, BagsAssumption DEF AnyJob
    <2>2. IsFiniteSet(Observed \ {job.to}) /\ Observed \ {job.to} \subseteq Lengths
      <3>1. Observed \subseteq Lengths
          BY BagsAssumption DEF Observed, Base, DiskOK, AllBags, Bag
      <3> QED BY <3>1, BagsAssumption, FS_Subset
    <2>3. InOrder(Observed \ {job.to}, LAMBDA n : Scan(n, job.to)) \in Seq(Instructions)
        BY <2>1, <2>2, ScansInOrder
    <2>4. <<Do("check", job.to, None, None)>> \in Seq(Instructions)
        BY <2>1, InstructionsAre
    <2>5. Planned(job) = InOrder(Observed \ {job.to}, LAMBDA n : Scan(n, job.to))
                          \o <<Do("check", job.to, None, None)>>
        BY <1>5 DEF Planned
    <2> QED BY <2>3, <2>4, <2>5, ConcatProperties
  <1>6. CASE job.do \in {"transform", "rebag"}
    <2>1. job.len \in Lengths
        BY <1>1, <1>6, BagsAssumption DEF AnyJob
    <2>2. IsFiniteSet(Listed(job.len)) /\ Listed(job.len) \subseteq Keys
        BY BagsAssumption, FS_Subset DEF Listed
    <2>3. PICK what \in {"apply", "rebag"} :
             Planned(job) = InOrder(Listed(job.len), LAMBDA k : Do(what, job.len, k, None))
        BY <1>6 DEF Planned
    <2>4. InOrder(Listed(job.len), LAMBDA k : Do(what, job.len, k, None)) \in Seq(Instructions)
        BY <2>1, <2>2, KeysInOrder
    <2> QED BY <2>3, <2>4
  <1> QED BY <1>1, <1>2, <1>3, <1>4, <1>5, <1>6 DEF AnyJob

LEMMA BeginKeepsBase ==
    ASSUME Base, NEW p \in Processes, Begin(p)
    PROVE  Base'
  <1>1. PICK job \in program.run.jobs[p] :
            plan' = [plan EXCEPT ![p] = Planned(job)] /\ filed' = filed \ {job.key}
      BY DEF Begin
  <1>2. plan' \in [Processes -> Seq(Instructions)]
        /\ \A q \in Processes : q # p => plan'[q] = plan[q]
      BY <1>1, PlannedFits DEF Base, PlansOK
  <1>3. /\ at[p] = "start" /\ at' = at
        /\ outcome' = [outcome EXCEPT ![p] = IF plan'[p] = <<>> THEN "done" ELSE "busy"]
      BY DEF Begin, Base, PlansOK
  <1>4. PlansOK'
      BY <1>2, <1>3 DEF Base, PlansOK, Outcomes
  <1>5. DiskOK' /\ LocksOK' /\ program' = program /\ damaged' = damaged /\ UNCHANGED <<bags, fd>>
      BY DEF Begin, files, locks, Base, DiskOK, LocksOK, Inodes
  <1>6. \A q \in Processes : AtFits(q)'
      BY <1>2, <1>3, <1>5, StartFits, OthersFit
  <1> QED BY <1>1, <1>4, <1>5, <1>6 DEF Base
-----------------------------------------------------------------------------
(* The first instruction, and what a step does to the disk.                 *)

LEMMA HeadFits ==
    ASSUME PlansOK, NEW p \in Processes, plan[p] # <<>>
    PROVE  /\ Head(plan[p]) \in Instructions /\ Head(plan[p]) = plan[p][1]
           /\ Len(plan[p]) \in Nat \ {0} /\ plan[p] \in Seq(Instructions)
           /\ \A j \in 1 .. Len(plan[p]) : plan[p][j] \in Instructions
  <1>1. plan[p] \in Seq(Instructions)
      BY DEF PlansOK
  <1> QED BY <1>1, HeadTailProperties, EmptySeq, ElementOfSeq

LEMMA DiskStays ==
    ASSUME DiskOK, UNCHANGED files
    PROVE  DiskOK' /\ bags \subseteq bags'
  BY DEF DiskOK, files, Bag, AllBags

LEMMA LocksStay ==
    ASSUME LocksOK, lockfile' = lockfile, fd' = fd
    PROVE  LocksOK'
  BY DEF LocksOK

LEMMA MineIsABag ==
    ASSUME PlansOK, NEW p \in Processes, plan[p] # <<>>, Head(plan[p]).len # 0,
           Head(plan[p]).do \in {"put", "evict", "rebag"}
    PROVE  /\ Mine(p) \in AllBags /\ Mine(p)[1] = Head(plan[p]).len
           /\ Head(plan[p]).len \in Lengths /\ Head(plan[p]).key \in Keys
  <1>1. Head(plan[p]).len \in Lengths /\ Head(plan[p]).key \in Keys
      BY HeadFits, InstructionsFit
  <1> QED BY <1>1 DEF Mine, AllBags, Bag

\* What a write that is cut short leaves.
LEMMA CutShortKeepsDisk ==
    ASSUME Base, NEW p \in Processes, at[p] = "writing", CutShort(p), bags' = bags
    PROVE  /\ DiskOK' /\ damaged' = TRUE
           /\ \A n \in Lengths, k \in Keys :
                 <<n, k>> # <<Head(plan[p]).len, Head(plan[p]).key>> => entry'[n][k] = entry[n][k]
  <1> DEFINE i == Head(plan[p])
  <1>1. /\ plan[p] # <<>> /\ i.len \in Lengths /\ i.key \in Keys
        /\ Mine(p) = Bag(i.len, i.key)
        /\ WritesIn(p, Mine(p)) => Mine(p) \in bags
      BY MineIsABag DEF Base, AtFits, WritesIn, Mine
  <1>2. damaged' = TRUE
      BY DEF CutShort
  <1> HIDE DEF i
  <1>3. CASE UNCHANGED <<entry, broken>>
      BY <1>2, <1>3, DiskStays DEF files, Base
  <1>4. CASE WritesIn(p, Mine(p)) /\ (\E left \in {None, Torn} : File(i.len, i.key, left))
             /\ UNCHANGED broken
    <2>1. PICK left \in {None, Torn} : File(i.len, i.key, left)
        BY <1>4
    <2> QED BY <1>1, <1>2, <1>4, <2>1, FileKeepsDisk DEF Base, i
  <1>5. CASE WritesIn(p, Mine(p)) /\ broken' = broken \cup {Mine(p)} /\ UNCHANGED entry
      BY <1>1, <1>2, <1>5 DEF Base, DiskOK, Bag, AllBags
  <1> QED BY <1>3, <1>4, <1>5 DEF CutShort, i

-----------------------------------------------------------------------------
(* Every step keeps the types.                                              *)

\* rebag keeps what it read in its first instruction.
LEMMA RebagReads ==
    ASSUME Base, NEW p \in Processes, plan[p] # <<>>, Head(plan[p]).do = "rebag",
           Readable(Head(plan[p]).len, Head(plan[p]).key),
           plan' = [plan EXCEPT ![p][1].rec = entry[Head(plan[p]).len][Head(plan[p]).key]],
           Goto(p, "inside"), UNCHANGED <<fd, outcome, lockfile, filed, program, damaged>>,
           DiskOK', bags \subseteq bags'
    PROVE  Base'
  <1> DEFINE i == Head(plan[p])
             r == entry[i.len][i.key]
  <1>1. /\ i \in Instructions /\ i = plan[p][1] /\ i.len \in Lengths /\ i.key \in Keys
        /\ plan[p] \in Seq(Instructions) /\ 1 \in 1 .. Len(plan[p]) /\ Len(plan[p]) \in Nat
      BY HeadFits, InstructionsFit DEF Base
  <1>2. r \in Records \cup {None}
      BY <1>1 DEF Readable, Base, DiskOK
  <1> HIDE DEF r
  <1>3. [i EXCEPT !.rec = r] \in Instructions /\ [i EXCEPT !.rec = r].do = "rebag"
      BY <1>1, <1>2 DEF Instructions
  <1>4. plan' = [plan EXCEPT ![p] = [@ EXCEPT ![1] = [i EXCEPT !.rec = r]]]
      BY <1>1 DEF r
  <1> HIDE DEF i
  <1> DEFINE s == [plan[p] EXCEPT ![1] = [i EXCEPT !.rec = r]]
  <1>5. s \in Seq(Instructions) /\ Len(s) = Len(plan[p]) /\ s[1] = [i EXCEPT !.rec = r]
      BY <1>1, <1>3, ExceptSeq
  <1>6. plan' \in [Processes -> Seq(Instructions)] /\ plan'[p] = s
        /\ \A q \in Processes : q # p => plan'[q] = plan[q]
    <2>1. plan' = [plan EXCEPT ![p] = s] /\ plan \in [Processes -> Seq(Instructions)]
        BY <1>4 DEF Base, PlansOK
    <2> HIDE DEF s
    <2> QED BY <2>1, <1>5
  <1> HIDE DEF s
  <1>7. s # <<>> /\ Head(s).do = "rebag"
    <2>1. s # <<>>
        BY <1>1, <1>5, EmptySeq
    <2>2. Head(s) = s[1]
        BY <2>1, <1>5
    <2> QED BY <2>1, <2>2, <1>3, <1>5
  <1>8. PlansOK' /\ at'[p] = "inside" /\ \A q \in Processes : q # p => at'[q] = at[q]
      BY <1>6, <1>7 DEF Base, PlansOK, Goto
  <1>9. AtFits(p)'
      BY <1>6, <1>7, <1>8 DEF AtFits
  <1>10. \A q \in Processes : AtFits(q)'
      BY <1>6, <1>8, <1>9, OthersFit
  <1> QED BY <1>8, <1>10, LocksStay DEF Base

LEMMA ReadingKeepsBase ==
    ASSUME Base, NEW p \in Processes,
           Replace(p) \/ Saved(p) \/ List(p) \/ Move(p) \/ Open(p) \/ Apply(p) \/ Rebag(p)
    PROVE  Base'
  <1> DEFINE i == Head(plan[p])
  <1>1. /\ plan[p] # <<>> /\ at[p] \in {"start", "inside", "opened"} /\ i \in Instructions
        /\ PlansOK /\ LocksOK /\ DiskOK
    <2>1. plan[p] # <<>> /\ at[p] = "start"
        BY DEF Replace, Saved, List, Move, Open, Apply, Rebag, First
    <2> QED BY <2>1, HeadFits DEF Base
  <1>2. lockfile' \in [AllBags -> Inodes \cup {None}] /\ DiskOK' /\ bags \subseteq bags'
        /\ lockfile' = lockfile /\ damaged' \in BOOLEAN /\ damaged' = damaged /\ program' = program
    <2>1. UNCHANGED files /\ lockfile' = lockfile /\ UNCHANGED ghosts
        BY DEF Replace, Saved, List, Move, Open, Apply, Rebag, locks
    <2> QED BY <2>1, <1>1, DiskStays DEF Base, LocksOK, ghosts
  <1>3. <<>> \in Seq(Instructions) /\ \A x \in Instructions : <<x>> \in Seq(Instructions)
                                    /\ \A y \in Instructions : <<x, y>> \in Seq(Instructions)
      OBVIOUS
  <1> HIDE DEF i
  <1>4. CASE Replace(p)
    <2>1. i.len \in Lengths /\ i.key \in Keys
        BY <1>1, <1>4, InstructionsFit DEF Replace, First, i
    <2>2. (IF Contains(i.len, i.key) THEN <<Evict(i.len, i.key)>> ELSE <<>>) \in Seq(Instructions)
        BY <2>1, <1>3, InstructionsAre
    <2>3. Continue(p, IF Contains(i.len, i.key) THEN <<Evict(i.len, i.key)>> ELSE <<>>)
          /\ fd' = fd /\ filed' = filed
        BY <1>4 DEF Replace, locks, i
    <2> QED BY <1>1, <1>2, <2>2, <2>3, ContinueKeepsBase DEF Base
  <1>5. CASE Saved(p)
    <2>1. i.key \in Keys
        BY <1>1, <1>5, InstructionsFit DEF Saved, First, i
    <2>2. Continue(p, <<>>) /\ fd' = fd /\ filed' = filed \cup {i.key}
        BY <1>5 DEF Saved, locks, i
    <2> QED BY <1>1, <1>2, <1>3, <2>1, <2>2, ContinueKeepsBase DEF Base
  <1>6. CASE List(p)
    <2>1. i.len \in Lengths /\ i.rec \in Lengths
        BY <1>1, <1>6, InstructionsFit DEF List, First, i
    <2>2. IsFiniteSet(Listed(i.len)) /\ Listed(i.len) \subseteq Keys
        BY BagsAssumption, FS_Subset DEF Listed
    <2> DEFINE more == InOrder(Listed(i.len), LAMBDA k : Do("move", i.len, k, i.rec))
    <2>3. more \in Seq(Instructions)
        BY <2>1, <2>2, MovesInOrder
    <2>4. Continue(p, more) /\ fd' = fd /\ filed' = filed
        BY <1>6 DEF List, locks, i
    <2> HIDE DEF more
    <2> QED BY <1>1, <1>2, <2>3, <2>4, ContinueKeepsBase DEF Base
  <1>7. CASE Move(p)
    <2>1. i.len \in Lengths /\ i.rec \in Lengths /\ i.key \in Keys
        BY <1>1, <1>7, InstructionsFit DEF Move, First, i
    <2>2. filed' = filed
        BY <1>7 DEF Move
    <2>3. CASE Contains(i.rec, i.key)
      <3>1. Continue(p, <<Evict(i.len, i.key)>>) /\ fd' = fd
          BY <1>7, <2>3 DEF Move, i
      <3>2. <<Evict(i.len, i.key)>> \in Seq(Instructions)
          BY <2>1, <1>3, InstructionsAre
      <3> QED BY <1>1, <1>2, <2>2, <3>1, <3>2, ContinueKeepsBase DEF Base
    <2>4. CASE ~Contains(i.rec, i.key) /\ ~Readable(i.len, i.key)
      <3>1. Raise(p, "unreadable")
          BY <1>7, <2>4 DEF Move, i
      <3> QED BY <1>1, <1>2, <2>2, <3>1, RaiseKeepsBase DEF Outcomes
    <2>5. CASE ~Contains(i.rec, i.key) /\ Readable(i.len, i.key)
      <3> DEFINE r == entry[i.len][i.key]
      <3>1. Continue(p, <<Put(i.rec, i.key, r), Evict(i.len, i.key)>>) /\ fd' = fd
          BY <1>7, <2>5 DEF Move, i
      <3>2. r \in Records \cup {None}
          BY <1>1, <2>1, <2>5 DEF Readable, DiskOK
      <3> HIDE DEF r
      <3>3. <<Put(i.rec, i.key, r), Evict(i.len, i.key)>> \in Seq(Instructions)
          BY <2>1, <3>2, <1>3, InstructionsAre
      <3> QED BY <1>1, <1>2, <2>2, <3>1, <3>3, ContinueKeepsBase DEF Base
    <2> QED BY <2>3, <2>4, <2>5
  <1>8. CASE Open(p)
    <2>1. filed' = filed /\ ((Continue(p, <<>>) /\ fd' = fd) \/ Raise(p, "inconsistent"))
        BY <1>8 DEF Open
    <2>2. CASE Continue(p, <<>>) /\ fd' = fd
        BY <1>1, <1>2, <1>3, <2>1, <2>2, ContinueKeepsBase DEF Base
    <2>3. CASE Raise(p, "inconsistent")
        BY <1>1, <1>2, <2>1, <2>3, RaiseKeepsBase DEF Outcomes
    <2> QED BY <2>1, <2>2, <2>3
  <1>9. CASE Apply(p)
    <2>1. i.len \in Lengths /\ i.key \in Keys /\ program.run.image[i.key] \in Keys
      <3>1. i.len \in Lengths /\ i.key \in Keys
          BY <1>1, <1>9, InstructionsFit DEF Apply, First, i
      <3> QED BY <3>1, ProgramsAssumption DEF Base
    <2> DEFINE to == program.run.image[i.key]
               new == Record(entry[i.len][i.key].of, entry[i.len][i.key].times + 1)
               more == IF ~Readable(i.len, i.key) THEN <<>>
                       ELSE Saving(i.len, to, new)
                            \o IF to = i.key THEN <<>> ELSE <<Evict(i.len, i.key)>>
    <2>2. Continue(p, more) /\ fd' = fd /\ filed' = filed
        BY <1>9 DEF Apply, locks, i
    <2>3. ASSUME Readable(i.len, i.key) PROVE new \in Records
      <3>1. entry[i.len][i.key] \in Records
          BY <1>1, <2>1, <2>3 DEF Readable, Contains, DiskOK
      <3> QED BY <3>1 DEF Record, Records
    <2> HIDE DEF to, new
    <2>4. more \in Seq(Instructions)
      <3>1. CASE ~Readable(i.len, i.key)
          BY <3>1, <1>3
      <3>2. CASE Readable(i.len, i.key) /\ to = i.key
        <4>1. Saving(i.len, to, new) \in Seq(Instructions)
            BY <2>1, <2>3, <3>2, SavesAre
        <4>2. more = Saving(i.len, to, new) \o <<>>
            BY <3>2
        <4> QED BY <4>1, <4>2, <1>3, ConcatProperties
      <3>3. CASE Readable(i.len, i.key) /\ to # i.key
        <4>1. more = Saving(i.len, to, new) \o <<Evict(i.len, i.key)>>
            BY <3>3
        <4>2. Evict(i.len, i.key) \in Instructions
            BY <2>1, InstructionsAre
        <4> QED BY <2>1, <2>3, <3>3, <4>1, <4>2, SavesAre DEF to
      <3> QED BY <3>1, <3>2, <3>3
    <2> HIDE DEF more
    <2> QED BY <1>1, <1>2, <2>2, <2>4, ContinueKeepsBase DEF Base
  <1>10. CASE Rebag(p)
    <2>1. i.len \in Lengths /\ i.key \in Keys /\ i.do = "rebag" /\ filed' = filed
        BY <1>1, <1>10, InstructionsFit DEF Rebag, First, i
    <2>2. CASE Continue(p, <<>>) /\ fd' = fd
        BY <1>1, <1>2, <1>3, <2>1, <2>2, ContinueKeepsBase DEF Base
    <2>3. CASE Raise(p, "unreadable")
        BY <1>1, <1>2, <2>1, <2>3, RaiseKeepsBase DEF Outcomes
    <2>4. CASE /\ Readable(i.len, i.key)
               /\ plan' = [plan EXCEPT ![p][1].rec = entry[i.len][i.key]]
               /\ Goto(p, "inside") /\ UNCHANGED <<fd, outcome>>
        BY <1>1, <1>2, <2>1, <2>4, RebagReads DEF i
    <2>5. \/ Continue(p, <<>>) /\ fd' = fd
          \/ Raise(p, "unreadable")
          \/ /\ Readable(i.len, i.key)
             /\ plan' = [plan EXCEPT ![p][1].rec = entry[i.len][i.key]]
             /\ Goto(p, "inside") /\ UNCHANGED <<fd, outcome>>
        BY <1>10 DEF Rebag, i
    <2> QED BY <2>2, <2>3, <2>4, <2>5
  <1> QED BY <1>4, <1>5, <1>6, <1>7, <1>8, <1>9, <1>10

LEMMA LockingKeepsBase ==
    ASSUME Base, NEW p \in Processes, OpenLock(p) \/ Lock(p) \/ TimesOut(p)
    PROVE  Base'
  <1>1. plan[p] # <<>> /\ Locks(p) /\ DiskOK /\ LocksOK /\ PlansOK
      BY DEF OpenLock, Lock, TimesOut, Locks, Base
  <1>2. DiskOK' /\ bags \subseteq bags' /\ UNCHANGED <<damaged, filed, program>>
    <2>1. UNCHANGED files /\ UNCHANGED ghosts /\ filed' = filed
        BY DEF OpenLock, Lock, TimesOut
    <2> QED BY <2>1, <1>1, DiskStays DEF ghosts
  <1>3. Mine(p) \in AllBags
      BY <1>1, MineIsABag DEF Locks
  <1>4. CASE OpenLock(p)
    <2> DEFINE inode == IF lockfile[Mine(p)] = None THEN Smallest(Inodes \ InUse)
                        ELSE lockfile[Mine(p)]
    <2>1. /\ lockfile' = [lockfile EXCEPT ![Mine(p)] = inode]
          /\ fd' = [fd EXCEPT ![p] = inode] /\ Goto(p, "opened") /\ UNCHANGED <<plan, outcome>>
        BY <1>4 DEF OpenLock
    <2>2. inode \in Inodes /\ inode # None
      <3>1. inode \in Inodes
          BY <1>1, <1>3, InodesAreLeft DEF LocksOK
      <3>2. Inodes \subseteq Nat
          BY DEF Inodes
      <3> QED BY <3>1, <3>2, BagsAssumption
    <2> HIDE DEF inode
    <2>3. LocksOK' /\ fd'[p] = inode /\ \A q \in Processes : q # p => fd'[q] = fd[q]
        BY <1>1, <1>3, <2>1, <2>2 DEF LocksOK
    <2>4. at'[p] = "opened"
        BY <1>1, <2>1, GotoGoesOn
    <2>5. AtFits(p)'
        BY <1>1, <2>1, <2>2, <2>3, <2>4 DEF AtFits, Locks
    <2> QED BY <1>1, <1>2, <2>1, <2>3, <2>5, GotoKeepsBase
  <1>5. CASE Lock(p)
    <2>1. lockfile' = lockfile /\ UNCHANGED <<plan, outcome>>
        BY <1>5 DEF Lock
    <2>2. CASE Goto(p, "start") /\ fd' = [fd EXCEPT ![p] = None]
      <3>1. LocksOK' /\ \A q \in Processes : q # p => fd'[q] = fd[q]
          BY <1>1, <2>1, <2>2 DEF LocksOK
      <3>2. AtFits(p)'
        <4>1. at'[p] = "start"
            BY <1>1, <2>1, <2>2, GotoGoesOn
        <4> QED BY <4>1, StartFits
      <3> QED BY <1>1, <1>2, <2>1, <2>2, <3>1, <3>2, GotoKeepsBase
    <2>3. CASE Goto(p, "inside") /\ UNCHANGED fd
      <3>1. LocksOK'
          BY <1>1, <2>1, <2>3, LocksStay
      <3>2. AtFits(p)'
        <4>1. at'[p] = "inside"
            BY <1>1, <2>1, <2>3, GotoGoesOn
        <4> QED BY <4>1, <1>1, <2>1 DEF AtFits, Locks
      <3> QED BY <1>1, <1>2, <2>1, <2>3, <3>1, <3>2, GotoKeepsBase
    <2> QED BY <1>5, <2>2, <2>3 DEF Lock
  <1>6. CASE TimesOut(p)
    <2>1. Raise(p, "timeout") /\ lockfile' = lockfile
        BY <1>6 DEF TimesOut
    <2>2. damaged' \in BOOLEAN
        BY <1>2 DEF Base
    <2> QED BY <1>2, <2>1, <2>2, RaiseKeepsBase DEF Outcomes
  <1> QED BY <1>4, <1>5, <1>6

LEMMA WritingKeepsBase ==
    ASSUME Base, NEW p \in Processes,
           \/ PutFile(p) \/ BeginPut(p) \/ RebagFile(p) \/ EndPut(p) \/ PutFails(p)
           \/ OpenFails(p)
    PROVE  Base'
  <1> DEFINE i == Head(plan[p])
  <1>1. plan[p] # <<>> /\ DiskOK /\ LocksOK /\ PlansOK /\ i \in Instructions
    <2>1. plan[p] # <<>>
        BY DEF PutFile, BeginPut, RebagFile, EndPut, PutFails, OpenFails, First, Base, AtFits
    <2> QED BY <2>1, HeadFits DEF Base
  <1>2. i.len \in Lengths
      BY <1>1, InstructionsFit
  <1>3. lockfile' = lockfile /\ lockfile' \in [AllBags -> Inodes \cup {None}]
        /\ filed' = filed /\ filed' \subseteq Keys /\ program' = program
    <2>1. lockfile' = lockfile /\ filed' = filed /\ program' = program
        BY DEF PutFile, BeginPut, RebagFile, EndPut, PutFails, OpenFails, locks, ghosts
    <2> QED BY <2>1 DEF Base, LocksOK
  <1>4. <<>> \in Seq(Instructions)
      OBVIOUS
  <1> HIDE DEF i
  <1>5. CASE PutFile(p) \/ RebagFile(p)
    <2>1. i.do \in {"put", "rebag"} /\ i.len = 0
        BY <1>5 DEF PutFile, RebagFile, First, i
    <2>2. i.key \in Keys /\ i.rec \in Records \cup {Torn, None}
        BY <1>1, <2>1, InstructionsFit
    <2>3. File(0, i.key, i.rec) /\ Continue(p, <<>>) /\ UNCHANGED <<bags, broken>> /\ fd' = fd
          /\ damaged' = damaged
        BY <1>5 DEF PutFile, RebagFile, locks, ghosts, i
    <2>4. DiskOK' /\ bags \subseteq bags' /\ damaged' \in BOOLEAN
        BY <1>1, <1>2, <2>1, <2>2, <2>3, FileKeepsDisk DEF Base
    <2> QED BY <1>1, <1>3, <1>4, <2>3, <2>4, ContinueKeepsBase
  <1>6. CASE BeginPut(p)
    <2>1. i.do \in {"put", "rebag"} /\ i.len # 0
      <3>1. CASE First(p, "put", "inside")
        <4>1. i.do = "put" /\ at[p] = "inside"
            BY <3>1 DEF First, i
        <4>2. Locks(p)
            BY <4>1 DEF Base, AtFits, i
        <4> QED BY <4>1, <4>2 DEF Locks, i
      <3>2. CASE First(p, "rebag", "inside") /\ i.len # 0
          BY <3>2 DEF First, i
      <3> QED BY <1>6, <3>1, <3>2 DEF BeginPut, i
    <2>2. Mine(p) \in AllBags
        BY <1>1, <2>1, MineIsABag DEF i
    <2>3. /\ bags' = bags \cup {Mine(p)} /\ Goto(p, "writing")
          /\ UNCHANGED <<entry, broken, plan, outcome, lockfile, fd, damaged, filed, program>>
        BY <1>6 DEF BeginPut, locks, ghosts
    <2>4. DiskOK' /\ bags \subseteq bags'
        BY <1>1, <2>2, <2>3 DEF DiskOK, Bag
    <2>5. LocksOK'
        BY <1>1, <2>3, LocksStay
    <2>6. AtFits(p)'
      <3>1. at'[p] = "writing"
          BY <1>1, <2>3, GotoGoesOn
      <3>2. Mine(p)' = Mine(p) /\ Mine(p) \in bags'
          BY <2>3 DEF Mine, Bag
      <3> QED BY <1>1, <2>1, <2>3, <3>1, <3>2 DEF AtFits, i
    <2> QED BY <1>1, <2>3, <2>4, <2>5, <2>6, GotoKeepsBase
  <1>7. CASE EndPut(p)
    <2>1. /\ at[p] = "writing" /\ i.do \in {"put", "rebag"} /\ i.len # 0 /\ Mine(p) = Bag(i.len, i.key)
          /\ i.rec # None => Mine(p) \in bags
        BY <1>7 DEF EndPut, Base, AtFits, i, Mine
    <2>2. i.key \in Keys /\ i.rec \in Records \cup {Torn, None}
        BY <1>1, <2>1, InstructionsFit
    <2>3. UNCHANGED <<bags, broken>> /\ Continue(p, <<>>) /\ Unlock(p) /\ damaged' = damaged
        BY <1>7 DEF EndPut, ghosts
    <2>4. DiskOK'
      <3>1. CASE WritesIn(p, Mine(p))
        <4>1. File(i.len, i.key, i.rec) /\ Bag(i.len, i.key) \in bags
            BY <1>7, <2>1, <3>1 DEF EndPut, i, WritesIn
        <4> QED BY <1>1, <1>2, <2>2, <2>3, <4>1, FileKeepsDisk
      <3>2. CASE ~WritesIn(p, Mine(p))
        <4>1. entry' = entry
            BY <1>7, <3>2 DEF EndPut
        <4> QED BY <1>1, <2>3, <4>1, DiskStays DEF files
      <3> QED BY <3>1, <3>2
    <2>5. bags \subseteq bags' /\ damaged' \in BOOLEAN
        BY <2>3 DEF Base
    <2> QED BY <1>1, <1>3, <1>4, <2>3, <2>4, <2>5, ContinueKeepsBase
  <1>8. CASE PutFails(p)
    <2>1. at[p] = "writing" /\ CutShort(p) /\ bags' = bags /\ Raise(p, "save error")
        BY <1>8 DEF PutFails
    <2>2. DiskOK' /\ damaged' = TRUE
        BY <2>1, CutShortKeepsDisk
    <2> QED BY <1>3, <2>1, <2>2, RaiseKeepsBase DEF Outcomes
  <1>9. CASE OpenFails(p)
    <2>1. UNCHANGED files /\ damaged' = damaged
          /\ ((Continue(p, <<>>) /\ fd' = fd) \/ Raise(p, "os error"))
        BY <1>9 DEF OpenFails, ghosts
    <2>2. DiskOK' /\ bags \subseteq bags' /\ damaged' \in BOOLEAN
        BY <1>1, <2>1, DiskStays DEF Base
    <2>3. CASE Continue(p, <<>>) /\ fd' = fd
        BY <1>1, <1>3, <1>4, <2>2, <2>3, ContinueKeepsBase
    <2>4. CASE Raise(p, "os error")
        BY <1>3, <2>2, <2>4, RaiseKeepsBase DEF Outcomes
    <2> QED BY <2>1, <2>3, <2>4
  <1> QED BY <1>5, <1>6, <1>7, <1>8, <1>9

\* Whoever wrote in the bag that is unlinked writes for nobody from then on.
LEMMA WritersAreCutOff ==
    ASSUME Base, NEW p \in Processes, UnlinkBag(p), NEW q \in Processes
    PROVE  /\ plan'[q] \in Seq(Instructions) /\ Len(plan'[q]) = Len(plan[q])
           /\ plan'[q] = <<>> <=> plan[q] = <<>>
           /\ ~WritesIn(q, Mine(p)) => plan'[q] = plan[q]
           /\ WritesIn(q, Mine(p)) =>
                /\ Head(plan'[q]).do = Head(plan[q]).do /\ Head(plan'[q]).len = Head(plan[q]).len
                /\ Head(plan'[q]).key = Head(plan[q]).key /\ Head(plan'[q]).rec = None
  <1>1. plan' = [r \in Processes |-> IF WritesIn(r, Mine(p)) THEN [plan[r] EXCEPT ![1].rec = None]
                                     ELSE plan[r]]
      BY DEF UnlinkBag
  <1>2. CASE ~WritesIn(q, Mine(p))
      BY <1>1, <1>2 DEF Base, PlansOK
  <1>3. CASE WritesIn(q, Mine(p))
    <2> DEFINE i == Head(plan[q])
               j == [i EXCEPT !.rec = None]
               s == [plan[q] EXCEPT ![1] = j]
    <2>1. /\ plan[q] # <<>> /\ i.do \in {"put", "rebag"} /\ i \in Instructions /\ i = plan[q][1]
          /\ plan[q] \in Seq(Instructions) /\ 1 \in 1 .. Len(plan[q]) /\ Len(plan[q]) \in Nat
      <3>1. plan[q] # <<>> /\ i.do \in {"put", "rebag"}
          BY <1>3 DEF WritesIn, Base, AtFits
      <3> QED BY <3>1, HeadFits DEF Base
    <2>2. plan'[q] = s
        BY <1>1, <1>3, <2>1
    <2>3. j \in Instructions /\ j.do = i.do /\ j.len = i.len /\ j.key = i.key /\ j.rec = None
        BY <2>1 DEF Instructions
    <2> HIDE DEF i, j
    <2>4. s \in Seq(Instructions) /\ Len(s) = Len(plan[q]) /\ s[1] = j
        BY <2>1, <2>3, ExceptSeq
    <2> HIDE DEF s
    <2>5. s # <<>>
        BY <2>1, <2>4, EmptySeq
    <2>6. Head(s) = j
        BY <2>4, <2>5
    <2> QED BY <1>3, <2>1, <2>2, <2>3, <2>4, <2>5, <2>6 DEF i
  <1> QED BY <1>2, <1>3

\* What unlinking a bag does to the disk.
LEMMA UnlinkingKeepsDisk ==
    ASSUME Base, NEW p \in Processes, UnlinkBag(p)
    PROVE  /\ DiskOK'
           /\ \A n \in Lengths, k \in Keys : entry'[n][k] =
                 IF n # 0 /\ Bag(n, k) = Mine(p) THEN None ELSE entry[n][k]
  <1>1. /\ bags' = bags \ {Mine(p)} /\ broken' = broken \ {Mine(p)}
        /\ entry' = [n \in Lengths |-> [k \in Keys |->
                    IF n # 0 /\ Bag(n, k) = Mine(p) THEN None ELSE entry[n][k]]]
      BY DEF UnlinkBag
  <1>2. \A n \in Lengths, k \in Keys : entry'[n][k] =
             IF n # 0 /\ Bag(n, k) = Mine(p) THEN None ELSE entry[n][k]
      BY <1>1
  <1>3. entry' \in [Lengths -> [Keys -> Records \cup {Torn, None}]]
      BY <1>1 DEF Base, DiskOK
  <1>4. bags' \subseteq AllBags /\ broken' \subseteq bags'
      BY <1>1 DEF Base, DiskOK
  <1>5. ASSUME NEW n \in Lengths \ {0}, NEW k \in Keys, entry'[n][k] # None
        PROVE  Bag(n, k) \in bags'
    <2>1. n # 0 /\ Bag(n, k) # Mine(p) /\ entry[n][k] # None
        BY <1>2, <1>5
    <2>2. Bag(n, k) \in bags
        BY <2>1 DEF Base, DiskOK
    <2> QED BY <1>1, <2>1, <2>2
  <1> QED BY <1>2, <1>3, <1>4, <1>5 DEF DiskOK, Bag

LEMMA EvictingKeepsBase ==
    ASSUME Base, NEW p \in Processes,
           EvictFile(p) \/ NoBag(p) \/ Delete(p) \/ UnlinkBag(p) \/ UnlinkLock(p)
    PROVE  Base'
  <1> DEFINE i == Head(plan[p])
  <1>1. /\ plan[p] # <<>> /\ DiskOK /\ LocksOK /\ PlansOK /\ i.do = "evict"
        /\ i.len \in Lengths /\ i.key \in Keys
    <2>1. plan[p] # <<>> /\ i.do = "evict"
        BY DEF EvictFile, NoBag, Delete, UnlinkBag, UnlinkLock, First
    <2> QED BY <2>1, HeadFits, InstructionsFit DEF Base
  <1>2. filed' = filed /\ filed' \subseteq Keys /\ program' = program /\ damaged' = damaged
        /\ damaged' \in BOOLEAN
    <2>1. filed' = filed /\ program' = program /\ damaged' = damaged
        BY DEF EvictFile, NoBag, Delete, UnlinkBag, UnlinkLock, ghosts
    <2> QED BY <2>1 DEF Base
  <1>3. <<>> \in Seq(Instructions)
      OBVIOUS
  <1> HIDE DEF i
  <1>4. CASE EvictFile(p)
    <2>1. i.len = 0 /\ File(0, i.key, None) /\ Continue(p, <<>>) /\ UNCHANGED <<bags, broken>>
          /\ fd' = fd /\ lockfile' = lockfile
        BY <1>4 DEF EvictFile, locks, i
    <2>2. DiskOK' /\ bags \subseteq bags' /\ lockfile' \in [AllBags -> Inodes \cup {None}]
        BY <1>1, <2>1, FileKeepsDisk DEF LocksOK
    <2> QED BY <1>1, <1>2, <1>3, <2>1, <2>2, ContinueKeepsBase
  <1>5. CASE NoBag(p)
    <2>1. UNCHANGED files /\ lockfile' = lockfile /\ Unlock(p) /\ Continue(p, <<>>)
        BY <1>5 DEF NoBag
    <2>2. DiskOK' /\ bags \subseteq bags' /\ lockfile' \in [AllBags -> Inodes \cup {None}]
        BY <1>1, <2>1, DiskStays DEF LocksOK
    <2> QED BY <1>1, <1>2, <1>3, <2>1, <2>2, ContinueKeepsBase
  <1>6. CASE Delete(p)
    <2>1. File(i.len, i.key, None) /\ UNCHANGED <<bags, broken>> /\ lockfile' = lockfile
          /\ at[p] = "inside"
        BY <1>6 DEF Delete, First, i
    <2>2. DiskOK' /\ bags \subseteq bags' /\ lockfile' \in [AllBags -> Inodes \cup {None}]
        BY <1>1, <2>1, FileKeepsDisk DEF LocksOK
    <2>3. CASE Unlock(p) /\ Continue(p, <<>>)
        BY <1>1, <1>2, <1>3, <2>2, <2>3, ContinueKeepsBase
    <2>4. CASE Goto(p, "emptied") /\ UNCHANGED <<fd, plan, outcome>>
      <3>1. LocksOK'
          BY <1>1, <2>1, <2>4, LocksStay
      <3>2. at'[p] = "emptied"
          BY <1>1, <2>4, GotoGoesOn
      <3>3. Locks(p)
          BY <1>1, <2>1 DEF Base, AtFits, i
      <3>4. AtFits(p)'
          BY <1>1, <2>4, <3>2, <3>3 DEF AtFits, Locks, i
      <3> QED BY <1>1, <1>2, <2>2, <2>4, <3>1, <3>4, GotoKeepsBase
    <2> QED BY <1>6, <2>3, <2>4 DEF Delete
  <1>7. CASE UnlinkBag(p)
    <2>1. at[p] = "emptied" /\ Goto(p, "gone") /\ UNCHANGED <<locks, outcome>>
          /\ bags' = bags \ {Mine(p)}
        BY <1>7 DEF UnlinkBag, First
    <2>2. DiskOK'
        BY <1>7, UnlinkingKeepsDisk
    <2>3. LocksOK' /\ fd' = fd
        BY <1>1, <2>1, LocksStay DEF locks
    <2>4. /\ at' \in [Processes -> {"start", "opened", "inside", "writing", "emptied", "gone"}]
          /\ at'[p] = "gone" /\ \A q \in Processes : q # p => at'[q] = at[q]
        BY <1>1, <2>1 DEF PlansOK, Goto
    <2>5. plan' \in [Processes -> Seq(Instructions)]
      <3>1. \A q \in Processes : plan'[q] \in Seq(Instructions)
          BY <1>7, WritersAreCutOff
      <3>2. plan' = [q \in Processes |-> plan'[q]]
          BY <1>7 DEF UnlinkBag
      <3> QED BY <3>1, <3>2
    <2>6. ~WritesIn(p, Mine(p))
        BY <2>1 DEF WritesIn
    <2>7. PlansOK'
      <3>1. ASSUME NEW q \in Processes
            PROVE  /\ plan'[q] = <<>> => at'[q] = "start"
                   /\ (plan'[q] # <<>>) <=> (outcome'[q] = "busy")
        <4>1. plan'[q] = <<>> <=> plan[q] = <<>>
            BY <1>7, WritersAreCutOff
        <4> QED BY <1>1, <2>1, <2>4, <4>1 DEF PlansOK
      <3>2. outcome' \in [Processes -> Outcomes]
          BY <1>1, <2>1 DEF PlansOK
      <3> QED BY <2>4, <2>5, <3>1, <3>2 DEF PlansOK
    <2>8. ASSUME NEW q \in Processes PROVE AtFits(q)'
      <3>1. CASE q = p
        <4>1. Locks(p)
            BY <2>1 DEF Base, AtFits
        <4>2. plan'[p] = plan[p]
            BY <1>7, <2>6, WritersAreCutOff
        <4> QED BY <1>1, <2>4, <3>1, <4>1, <4>2 DEF AtFits, Locks, i
      <3>2. CASE q # p /\ ~WritesIn(q, Mine(p))
        <4>1. plan'[q] = plan[q] /\ at'[q] = at[q] /\ fd'[q] = fd[q]
            BY <1>7, <2>3, <2>4, <3>2, WritersAreCutOff
        <4>2. Mine(q)' = Mine(q)
            BY <4>1 DEF Mine, Bag
        <4> QED BY <2>1, <3>2, <4>1, <4>2 DEF Base, AtFits, Locks, WritesIn
      <3>3. CASE q # p /\ WritesIn(q, Mine(p))
        <4>1. at[q] = "writing" /\ at'[q] = "writing" /\ plan[q] # <<>>
              /\ Head(plan[q]).do \in {"put", "rebag"} /\ Head(plan[q]).len # 0
            BY <2>4, <3>3 DEF WritesIn, Base, AtFits
        <4>2. plan'[q] # <<>> /\ Head(plan'[q]).do = Head(plan[q]).do
              /\ Head(plan'[q]).len = Head(plan[q]).len /\ Head(plan'[q]).rec = None
            BY <1>7, <3>3, <4>1, WritersAreCutOff
        <4> QED BY <4>1, <4>2 DEF AtFits
      <3> QED BY <3>1, <3>2, <3>3
    <2>9. program' \in [run : Programs, rechecks : BOOLEAN]
        BY <1>2 DEF Base
    <2> QED BY <1>2, <2>2, <2>3, <2>7, <2>8, <2>9 DEF Base
  <1>8. CASE UnlinkLock(p)
    <2>1. UNCHANGED files /\ lockfile' = [lockfile EXCEPT ![Mine(p)] = None]
          /\ Unlock(p) /\ Continue(p, <<>>)
        BY <1>8 DEF UnlinkLock
    <2>2. DiskOK' /\ bags \subseteq bags' /\ lockfile' \in [AllBags -> Inodes \cup {None}]
        BY <1>1, <2>1, DiskStays DEF LocksOK
    <2> QED BY <1>1, <1>2, <1>3, <2>1, <2>2, ContinueKeepsBase
  <1> QED BY <1>4, <1>5, <1>6, <1>7, <1>8

LEMMA CrashKeepsBase ==
    ASSUME Base, NEW p \in Processes, Crash(p)
    PROVE  Base'
  <1>1. Raise(p, "crashed") /\ UNCHANGED <<bags, lockfile, program, filed>>
      BY DEF Crash
  <1>2. DiskOK' /\ damaged' \in BOOLEAN
    <2>1. CASE at[p] = "writing"
      <3>1. CutShort(p)
          BY <2>1 DEF Crash
      <3> QED BY <1>1, <2>1, <3>1, CutShortKeepsDisk
    <2>2. CASE at[p] # "writing"
      <3>1. UNCHANGED <<entry, broken, damaged>>
          BY <2>2 DEF Crash
      <3> QED BY <1>1, <3>1, DiskStays DEF files, Base
    <2> QED BY <2>1, <2>2
  <1> QED BY <1>1, <1>2, RaiseKeepsBase DEF Outcomes

LEMMA InitBase ==
    ASSUME Init
    PROVE  Base
  <1>1. program \in [run : Programs, rechecks : BOOLEAN]
      BY DEF Init
  <1>2. DiskOK
    <2>1. /\ entry = [n \in Lengths |-> [k \in Keys |->
                   IF k \in program.run.filed[n] THEN Record(k, 0) ELSE None]]
          /\ bags = {b \in AllBags : KeysIn(b) # {}} /\ broken = {}
        BY DEF Init
    <2>2. entry \in [Lengths -> [Keys -> Records \cup {Torn, None}]]
      <3>1. \A k \in Keys : Record(k, 0) \in Records
          BY DEF Record, Records
      <3> QED BY <2>1, <3>1
    <2>3. ASSUME NEW n \in Lengths \ {0}, NEW k \in Keys, entry[n][k] # None
          PROVE  Bag(n, k) \in bags
      <3>1. Bag(n, k) \in AllBags
          BY DEF AllBags
      <3>2. k \in KeysIn(Bag(n, k))
        <4>1. Bag(n, k)[1] = n
            BY DEF Bag
        <4> QED BY <2>3, <4>1 DEF KeysIn
      <3> QED BY <2>1, <3>1, <3>2
    <2> QED BY <2>1, <2>2, <2>3 DEF DiskOK
  <1>3. LocksOK
      BY DEF Init, LocksOK
  <1>4. PlansOK
    <2>1. /\ plan = [p \in Processes |-> <<>>] /\ at = [p \in Processes |-> "start"]
          /\ outcome = [p \in Processes |-> "none"]
        BY DEF Init
    <2>2. <<>> \in Seq(Instructions)
        OBVIOUS
    <2> QED BY <2>1, <2>2 DEF PlansOK, Outcomes
  <1>5. \A p \in Processes : AtFits(p)
      BY DEF Init, AtFits
  <1> QED BY <1>1, <1>2, <1>3, <1>4, <1>5 DEF Base, Init

LEMMA StepKeepsBase ==
    ASSUME Base, [Next]_vars
    PROVE  Base'
  <1>1. CASE UNCHANGED vars
    <2>1. UNCHANGED <<files, locks, at, plan, outcome, program, damaged, filed>>
        BY <1>1 DEF vars, ghosts
    <2>2. DiskOK' /\ LocksOK'
        BY <2>1, DiskStays, LocksStay DEF Base, locks
    <2>3. PlansOK'
        BY <2>1 DEF Base, PlansOK
    <2>4. \A p \in Processes : AtFits(p)'
        BY <2>1 DEF Base, AtFits, Locks, Mine, Bag, files, locks
    <2> QED BY <2>1, <2>2, <2>3, <2>4 DEF Base
  <1>2. ASSUME NEW p \in Processes, Begin(p) \/ Step(p) \/ Crash(p)
        PROVE  Base'
      BY <1>2, BeginKeepsBase, ReadingKeepsBase, LockingKeepsBase, WritingKeepsBase,
         EvictingKeepsBase, CrashKeepsBase DEF Step
  <1> QED BY <1>1, <1>2 DEF Next

\* Every variable keeps its type, every entry its bag, and a process is nowhere in a bag
\* without an instruction that takes it there (storage/bagofholding_file.py).
THEOREM TypeCorrect == Spec => []TypeOK
  <1>1. Init => Base
      BY InitBase
  <1>2. Base /\ [Next]_vars => Base'
      BY StepKeepsBase
  <1> QED BY <1>1, <1>2, BaseHasTypes, PTL DEF Spec

-----------------------------------------------------------------------------
(* Migrations.                                                              *)

\* What a step of a migration may do to the disk: fill the target, and take away
\* elsewhere what the target has.
Grows ==
    /\ \A n \in Lengths, k \in Keys :
         \/ entry'[n][k] = entry[n][k]
         \/ n = Target /\ entry'[n][k] \notin {None, Torn}
         \/ n # Target /\ entry'[n][k] = None /\ Whole(Target, k)
    /\ \A b \in bags' : b \in bags \/ b[1] = Target

Advances(p) == plan[p] # <<>> /\ \E more \in Seq(Instructions) :
    /\ Continue(p, more)
    /\ \A j \in 1 .. Len(more) : MoveFits(more, j)
    /\ Head(plan[p]).do = "put" => 
         more = <<>> /\ entry'[Target][Head(plan[p]).key] \notin {None, Torn}
    /\ Head(plan[p]).do = "check" => more = <<>> /\ Observed \subseteq {Target}

Stops(p) == plan[p] # <<>> /\ \E how \in Outcomes \ {"busy", "done"} : Raise(p, how)

Stays(p) == plan[p] # <<>> /\ UNCHANGED <<plan, outcome>>
            /\ \A q \in Processes : q # p => at'[q] = at[q]

\* The parts of a migration's state that its steps need.
MigrationOK ==
    /\ Base /\ Migrating /\ ~damaged /\ ~damaged'
    /\ \A n \in Lengths, k \in Keys : entry[n][k] # Torn
    /\ \A q \in Processes : MovesOn(q) /\ Emptied(q)

LEMMA JobsMigrate ==
    ASSUME Base, Migrating, NEW p \in Processes, NEW job \in program.run.jobs[p]
    PROVE  /\ job.do \in {"refix", "consolidate"} /\ job.to = Target /\ Target \in Lengths
           /\ job.do = "refix" => job.len \in Lengths
  <1>1. job \in AnyJob /\ job \in Jobs
      BY ProgramsAssumption DEF Base, Jobs
  <1>2. job.do \in {"refix", "consolidate"}
      BY <1>1 DEF Migrating, Calls
  <1>3. job.to = Target
      BY <1>1 DEF Migrating, OneTarget, Target
  <1>4. job.to \in Lengths /\ (job.do = "refix" => job.len \in Lengths)
      BY <1>1, <1>2 DEF AnyJob
  <1> QED BY <1>2, <1>3, <1>4

\* The instructions of a migration, one by one.
LEMMA MovesFit ==
    ASSUME NEW n, n # Target, Target \in Lengths
    PROVE  /\ \A s, j : s[j] = Scan(n, Target) => MoveFits(s, j)
           /\ \A s, j, k : s[j] = Do("move", n, k, Target) => MoveFits(s, j)
           /\ \A s, j : s[j] = Do("check", Target, None, None) => MoveFits(s, j)
  BY DEF MoveFits, Scan, Do

\* A step of p that does not write, evict or begin a job leaves the disk alone.
LEMMA GrowsNot ==
    ASSUME UNCHANGED <<entry, bags>>
    PROVE  Grows
  BY DEF Grows

\* Where the first instruction of a migration is.
LEMMA HeadMoves ==
    ASSUME Base, NEW p \in Processes, plan[p] # <<>>, MovesOn(p)
    PROVE  LET i == Head(plan[p]) IN
             /\ i.do \in {"scan", "move", "put", "evict", "check"}
             /\ i.len \in Lengths /\ Target \in Lengths
             /\ i.do \in {"scan", "move"} => i.len # Target /\ i.rec = Target
             /\ i.do \in {"move", "put", "evict"} => i.key \in Keys
             /\ i.do = "check" => i.len = Target
             /\ i.do = "put" => i.len = Target /\ i.rec \in Records
             /\ i.do = "evict" => i.len # Target /\ Whole(Target, i.key)
  <1>1. Head(plan[p]) \in Instructions /\ Head(plan[p]) = plan[p][1] /\ Len(plan[p]) \in Nat \ {0}
      BY HeadFits DEF Base
  <1>2. MoveFits(plan[p], 1)
      BY <1>1 DEF MovesOn
  <1> QED BY <1>1, <1>2, InstructionsFit DEF MoveFits

\* The target gets an entry.
LEMMA PutGrows ==
    ASSUME DiskOK, NEW k \in Keys, NEW r \in Records, Target \in Lengths, File(Target, k, r),
           bags' = bags
    PROVE  Grows /\ entry'[Target][k] \notin {None, Torn}
  <1>1. entry'[Target][k] = r
        /\ \A m \in Lengths, j \in Keys : ~(m = Target /\ j = k) => entry'[m][j] = entry[m][j]
      BY DEF DiskOK, File
  <1>2. r \notin {None, Torn}
      BY BagsAssumption
  <1> QED BY <1>1, <1>2 DEF Grows

\* An entry is taken away.
LEMMA EvictGrows ==
    ASSUME DiskOK, NEW n \in Lengths, NEW k \in Keys, n # Target, Whole(Target, k),
           File(n, k, None), bags' = bags
    PROVE  Grows
  <1>1. entry'[n][k] = None
        /\ \A m \in Lengths, j \in Keys : ~(m = n /\ j = k) => entry'[m][j] = entry[m][j]
      BY DEF DiskOK, File
  <1> QED BY <1>1 DEF Grows

LEMMA MigrationReads ==
    ASSUME MigrationOK, NEW p \in Processes,
           Replace(p) \/ Saved(p) \/ List(p) \/ Move(p) \/ Open(p) \/ Apply(p) \/ Rebag(p)
    PROVE  Grows /\ at'[p] = "start" /\ (Advances(p) \/ Stops(p))
  <1> DEFINE i == Head(plan[p])
  <1>1. plan[p] # <<>> /\ Base /\ PlansOK /\ DiskOK
      BY DEF MigrationOK, Base, Replace, Saved, List, Move, Open, Apply, Rebag, First
  <1>2. /\ i.do \in {"scan", "move", "put", "evict", "check"} /\ i.len \in Lengths
        /\ i.do \in {"scan", "move"} => i.len # Target /\ i.rec = Target /\ Target \in Lengths
        /\ i.do = "move" => i.key \in Keys
      BY <1>1, HeadMoves DEF MigrationOK
  <1>3. List(p) \/ Move(p) \/ Open(p)
      BY <1>2 DEF Replace, Saved, Apply, Rebag, First
  <1>4. Grows
      BY <1>3, GrowsNot DEF List, Move, Open, files
  <1>5. <<>> \in Seq(Instructions) /\ \A x \in Instructions : <<x>> \in Seq(Instructions)
                                    /\ \A y \in Instructions : <<x, y>> \in Seq(Instructions)
      OBVIOUS
  <1> HIDE DEF i
  <1>6. CASE List(p)
    <2>1. i.do = "scan" /\ i.len # Target /\ i.rec = Target /\ Target \in Lengths
        BY <1>2, <1>6 DEF List, First, i
    <2>2. IsFiniteSet(Listed(i.len)) /\ Listed(i.len) \subseteq Keys
        BY BagsAssumption, FS_Subset DEF Listed
    <2> DEFINE more == InOrder(Listed(i.len), LAMBDA k : Do("move", i.len, k, i.rec))
    <2>3. more \in Seq(Instructions)
          /\ \A j \in 1 .. Len(more) : \E k \in Keys : more[j] = Do("move", i.len, k, i.rec)
      <3> DEFINE S == Listed(i.len)
                 nth(x) == CHOOSE k \in S : Cardinality({j \in S : j < k}) = x - 1
                 moves == [x \in 1 .. Cardinality(S) |-> Do("move", i.len, nth(x), i.rec)]
      <3>1. i.len \in Lengths /\ i.rec \in Lengths /\ IsFiniteSet(S) /\ S \subseteq Keys
            /\ Cardinality(S) \in Nat
          BY <1>2, <2>1, <2>2, FS_CardinalityType
      <3>2. \A x \in 1 .. Cardinality(S) : nth(x) \in S
          BY <3>1, RanksAreTaken, BagsAssumption
      <3>3. more = moves
          BY DEF InOrder
      <3> HIDE DEF nth, more, S
      <3>4. \A x \in 1 .. Cardinality(S) : Do("move", i.len, nth(x), i.rec) \in Instructions
          BY <3>1, <3>2, InstructionsAre
      <3>5. moves \in Seq(Instructions) /\ Len(moves) = Cardinality(S)
          BY <3>1, <3>4
      <3> QED BY <3>1, <3>2, <3>3, <3>5
    <2>4. Continue(p, more)
        BY <1>6 DEF List, i
    <2> HIDE DEF more
    <2>5. ASSUME NEW j \in 1 .. Len(more) PROVE MoveFits(more, j)
      <3>1. PICK k \in Keys : more[j] = Do("move", i.len, k, Target)
          BY <2>1, <2>3
      <3> QED BY <2>1, <3>1, MovesFit
    <2>6. Advances(p)
        BY <1>1, <2>1, <2>3, <2>4, <2>5 DEF Advances, i
    <2> QED BY <1>1, <1>4, <2>3, <2>4, <2>6, ContinueGoesOn
  <1>7. CASE Move(p)
    <2>1. /\ i.do = "move" /\ i.len # Target /\ i.rec = Target /\ Target \in Lengths
          /\ i.key \in Keys
        BY <1>2, <1>7 DEF Move, First, i
    <2>2. CASE Contains(i.rec, i.key)
      <3> DEFINE e == Evict(i.len, i.key)
      <3>1. Continue(p, <<e>>)
          BY <1>7, <2>2 DEF Move, i
      <3>2. e \in Instructions
          BY <1>2, <2>1, InstructionsAre
      <3>3. Whole(Target, i.key)
        <4>1. entry[Target][i.key] # None
            BY <2>1, <2>2 DEF Contains
        <4> QED BY <2>1, <4>1 DEF MigrationOK, Whole
      <3>4. e.do = "evict" /\ e.len = i.len /\ e.key = i.key
          BY DEF Evict, Do
      <3> HIDE DEF e
      <3>5. Len(<<e>>) = 1 /\ <<e>>[1] = e /\ <<e>> \in Seq(Instructions)
          BY <1>5, <3>2
      <3>6. MoveFits(<<e>>, 1)
          BY <2>1, <3>3, <3>4, <3>5 DEF MoveFits
      <3>7. Advances(p)
        <4>1. \A j \in 1 .. Len(<<e>>) : MoveFits(<<e>>, j)
            BY <3>5, <3>6
        <4> QED BY <1>1, <2>1, <3>1, <3>5, <4>1 DEF Advances, i
      <3> QED BY <1>1, <1>4, <3>1, <3>5, <3>7, ContinueGoesOn
    <2>3. CASE ~Contains(i.rec, i.key) /\ ~Readable(i.len, i.key)
      <3>1. Raise(p, "unreadable")
          BY <1>7, <2>3 DEF Move, i
      <3> QED BY <1>1, <1>4, <3>1, RaiseEnds DEF Stops, Outcomes
    <2>4. CASE ~Contains(i.rec, i.key) /\ Readable(i.len, i.key)
      <3> DEFINE r == entry[i.len][i.key]
                 a == Put(i.rec, i.key, r)
                 e == Evict(i.len, i.key)
                 more == <<a, e>>
      <3>1. Continue(p, more)
          BY <1>7, <2>4 DEF Move, i
      <3>2. r \in Records
          BY <1>1, <1>2, <2>1, <2>4 DEF Readable, Contains, DiskOK
      <3>3. a \in Instructions /\ e \in Instructions
          BY <1>2, <2>1, <3>2, InstructionsAre
      <3>4. /\ a.do = "put" /\ a.len = Target /\ a.key = i.key /\ a.rec # None
            /\ e.do = "evict" /\ e.len = i.len /\ e.key = i.key
        <4>1. r # None
            BY <3>2, BagsAssumption
        <4> QED BY <2>1, <4>1 DEF Put, Evict, Do
      <3> HIDE DEF a, e
      <3>5. Len(more) = 2 /\ more[1] = a /\ more[2] = e /\ more \in Seq(Instructions)
          BY <1>5, <3>3
      <3> HIDE DEF more
      <3>6. MoveFits(more, 1) /\ MoveFits(more, 2)
          BY <2>1, <3>4, <3>5 DEF MoveFits
      <3>7. Advances(p)
        <4>1. \A j \in 1 .. Len(more) : MoveFits(more, j)
            BY <3>5, <3>6
        <4> QED BY <1>1, <2>1, <3>1, <3>5, <4>1 DEF Advances, i
      <3> QED BY <1>1, <1>4, <3>1, <3>5, <3>7, ContinueGoesOn
    <2> QED BY <2>2, <2>3, <2>4
  <1>8. CASE Open(p)
    <2>1. i.do = "check" /\ i.len = Target
      <3>1. i.do = "check"
          BY <1>8 DEF Open, First, i
      <3> QED BY <1>1, <3>1, HeadMoves DEF MigrationOK, i
    <2>2. CASE Observed \subseteq {Target}
      <3>1. Continue(p, <<>>)
          BY <1>8, <2>1, <2>2 DEF Open, i
      <3>2. \A j \in 1 .. Len(<<>>) : MoveFits(<<>>, j)
          OBVIOUS
      <3>3. Advances(p)
          BY <1>1, <1>5, <2>1, <2>2, <3>1, <3>2 DEF Advances, i
      <3> QED BY <1>1, <1>4, <1>5, <3>1, <3>3, ContinueGoesOn
    <2>3. CASE ~(Observed \subseteq {Target})
      <3>1. Raise(p, "inconsistent")
          BY <1>8, <2>1, <2>3 DEF Open, i
      <3> QED BY <1>1, <1>4, <3>1, RaiseEnds DEF Stops, Outcomes
    <2> QED BY <2>2, <2>3
  <1> QED BY <1>3, <1>6, <1>7, <1>8

LEMMA MigrationLocks ==
    ASSUME MigrationOK, NEW p \in Processes, OpenLock(p) \/ Lock(p) \/ TimesOut(p)
    PROVE  Grows /\ (Stays(p) \/ Stops(p)) /\ at'[p] # "emptied"
  <1>1. plan[p] # <<>> /\ PlansOK
      BY DEF MigrationOK, Base, OpenLock, Lock, TimesOut, Locks
  <1>2. Grows
    <2>1. UNCHANGED <<entry, bags>>
        BY DEF OpenLock, Lock, TimesOut, files
    <2> QED BY <2>1, GrowsNot
  <1>3. CASE OpenLock(p) \/ Lock(p)
    <2>1. UNCHANGED <<plan, outcome>>
          /\ (Goto(p, "opened") \/ Goto(p, "start") \/ Goto(p, "inside"))
        BY <1>3 DEF OpenLock, Lock
    <2>2. at'[p] # "emptied" /\ \A q \in Processes : q # p => at'[q] = at[q]
        BY <1>1, <2>1 DEF PlansOK, Goto
    <2> QED BY <1>1, <1>2, <2>1, <2>2 DEF Stays
  <1>4. CASE TimesOut(p)
    <2>1. Raise(p, "timeout")
        BY <1>4 DEF TimesOut
    <2> QED BY <1>1, <1>2, <2>1, RaiseEnds DEF Stops, Outcomes
  <1> QED BY <1>3, <1>4

LEMMA MigrationWrites ==
    ASSUME MigrationOK, NEW p \in Processes,
           \/ PutFile(p) \/ BeginPut(p) \/ RebagFile(p) \/ EndPut(p) \/ PutFails(p)
           \/ OpenFails(p)
    PROVE  Grows /\ (Advances(p) \/ Stays(p) \/ Stops(p)) /\ at'[p] # "emptied"
  <1> DEFINE i == Head(plan[p])
  <1>1. plan[p] # <<>> /\ Base /\ PlansOK /\ DiskOK /\ MovesOn(p)
      BY DEF MigrationOK, PutFile, BeginPut, RebagFile, EndPut, PutFails, OpenFails, First,
             Base, AtFits
  <1>2. /\ i.do \in {"scan", "move", "put", "evict", "check"}
        /\ i.do = "put" => /\ i.len = Target /\ Target \in Lengths /\ i.rec \in Records
                           /\ i.key \in Keys
      BY <1>1, HeadMoves
  <1>3. <<>> \in Seq(Instructions) /\ \A j \in 1 .. Len(<<>>) : MoveFits(<<>>, j)
      OBVIOUS
  <1> HIDE DEF i
  <1>4. ~RebagFile(p)
      BY <1>2 DEF RebagFile, First, i
  <1>5. ~PutFails(p)
      BY CutShortKeepsDisk DEF PutFails, MigrationOK
  <1>6. ASSUME i.do = "put", Continue(p, <<>>), entry'[Target][i.key] \notin {None, Torn}
        PROVE  Advances(p) /\ at'[p] = "start"
      BY <1>1, <1>3, <1>6, ContinueGoesOn DEF Advances, i
  <1>7. CASE PutFile(p)
    <2>1. i.do = "put" /\ i.len = 0 /\ File(0, i.key, i.rec) /\ Continue(p, <<>>) /\ bags' = bags
        BY <1>7 DEF PutFile, First, i
    <2>2. Grows /\ entry'[Target][i.key] \notin {None, Torn}
        BY <1>1, <1>2, <2>1, PutGrows
    <2> QED BY <1>6, <2>1, <2>2
  <1>8. CASE BeginPut(p)
    <2>1. i.do = "put" /\ i.len = Target
        BY <1>2, <1>8 DEF BeginPut, First, i
    <2>2. /\ bags' = bags \cup {Mine(p)} /\ Goto(p, "writing") /\ UNCHANGED <<entry, plan, outcome>>
        BY <1>8 DEF BeginPut
    <2>3. Grows
        BY <2>1, <2>2 DEF Grows, Mine, Bag, i
    <2>4. at'[p] = "writing" /\ \A q \in Processes : q # p => at'[q] = at[q]
        BY <1>1, <2>2, GotoGoesOn
    <2> QED BY <1>1, <2>2, <2>3, <2>4 DEF Stays
  <1>9. CASE EndPut(p)
    <2>1. at[p] = "writing" /\ i.do = "put"
        BY <1>2, <1>9 DEF EndPut, MigrationOK, Base, AtFits, i
    <2>2. WritesIn(p, Mine(p))
      <3>1. i.rec # None
          BY <1>2, <2>1, BagsAssumption
      <3> QED BY <2>1, <3>1 DEF WritesIn, i
    <2>3. File(Target, i.key, i.rec) /\ Continue(p, <<>>) /\ bags' = bags
        BY <1>2, <1>9, <2>1, <2>2 DEF EndPut, i
    <2>4. Grows /\ entry'[Target][i.key] \notin {None, Torn}
        BY <1>1, <1>2, <2>1, <2>3, PutGrows
    <2> QED BY <1>6, <2>1, <2>3, <2>4
  <1>10. CASE OpenFails(p)
    <2>1. Raise(p, "os error") /\ UNCHANGED <<entry, bags>>
        BY <1>2, <1>10 DEF OpenFails, files, i
    <2> QED BY <1>1, <2>1, GrowsNot, RaiseEnds DEF Stops, Outcomes
  <1> QED BY <1>4, <1>5, <1>7, <1>8, <1>9, <1>10

LEMMA MigrationEvicts ==
    ASSUME MigrationOK, NEW p \in Processes,
           EvictFile(p) \/ NoBag(p) \/ Delete(p) \/ UnlinkBag(p) \/ UnlinkLock(p)
    PROVE  Grows /\ (Advances(p) \/ Stays(p)) /\ Emptied(p)'
  <1> DEFINE i == Head(plan[p])
  <1>1. plan[p] # <<>> /\ i.do = "evict" /\ Base /\ PlansOK /\ DiskOK
      BY DEF MigrationOK, Base, EvictFile, NoBag, Delete, UnlinkBag, UnlinkLock, First
  <1>2. i.len \in Lengths /\ i.key \in Keys /\ i.len # Target /\ Whole(Target, i.key)
      BY <1>1, HeadMoves DEF MigrationOK
  <1>3. <<>> \in Seq(Instructions) /\ \A j \in 1 .. Len(<<>>) : MoveFits(<<>>, j)
      OBVIOUS
  <1> HIDE DEF i
  <1>4. ASSUME Continue(p, <<>>) PROVE Advances(p) /\ Emptied(p)'
    <2>1. at'[p] = "start"
        BY <1>1, <1>3, <1>4, ContinueGoesOn
    <2> QED BY <1>1, <1>3, <1>4, <2>1 DEF Advances, Emptied, i
  <1>5. CASE EvictFile(p)
    <2>1. i.len = 0 /\ File(0, i.key, None) /\ Continue(p, <<>>) /\ bags' = bags
        BY <1>5 DEF EvictFile, i
    <2> QED BY <1>1, <1>2, <1>4, <2>1, EvictGrows
  <1>6. CASE NoBag(p) \/ UnlinkLock(p)
      BY <1>4, <1>6, GrowsNot DEF NoBag, UnlinkLock, files
  <1>7. CASE Delete(p)
    <2>1. File(i.len, i.key, None) /\ bags' = bags
        BY <1>7 DEF Delete, i
    <2>2. Grows
        BY <1>1, <1>2, <2>1, EvictGrows
    <2>3. CASE Continue(p, <<>>)
        BY <1>4, <2>2, <2>3
    <2>4. CASE KeysIn(Mine(p)) \subseteq {i.key} /\ Goto(p, "emptied") /\ UNCHANGED <<plan, outcome>>
      <3>1. \A q \in Processes : q # p => at'[q] = at[q]
          BY <1>1, <2>4, GotoGoesOn
      <3>2. Mine(p)[1] = i.len
          BY DEF Mine, Bag, i
      <3>3. ASSUME NEW k \in Keys, Bag(i.len, k) = Mine(p)
            PROVE  entry'[i.len][k] = None
        <4>1. CASE k = i.key
            BY <1>1, <1>2, <2>1, <4>1 DEF File, DiskOK
        <4>2. CASE k # i.key
          <5>1. entry[i.len][k] = None
              BY <2>4, <3>2, <3>3, <4>2 DEF KeysIn
          <5> QED BY <1>1, <1>2, <2>1, <4>2, <5>1 DEF File, DiskOK
        <4> QED BY <4>1, <4>2
      <3>4. Emptied(p)'
          BY <2>4, <3>3 DEF Emptied, Mine, Bag, i
      <3> QED BY <1>1, <2>2, <2>4, <3>1, <3>4 DEF Stays
    <2> QED BY <1>7, <2>3, <2>4 DEF Delete, i
  <1>8. CASE UnlinkBag(p)
    <2>1. at[p] = "emptied" /\ Goto(p, "gone") /\ outcome' = outcome /\ bags' = bags \ {Mine(p)}
        BY <1>8 DEF UnlinkBag, First
    <2>2. Grows
      <3>1. ASSUME NEW n \in Lengths, NEW k \in Keys, n # 0, Bag(n, k) = Mine(p)
            PROVE  entry[n][k] = None
        <4>1. n = i.len
            BY <3>1 DEF Bag, Mine, i
        <4> QED BY <2>1, <3>1, <4>1 DEF MigrationOK, Emptied, i
      <3> QED BY <1>1, <1>8, <2>1, <3>1, UnlinkingKeepsDisk DEF Grows
    <2>3. plan' = plan
      <3>1. ASSUME NEW q \in Processes PROVE ~WritesIn(q, Mine(p))
        <4>1. SUFFICES ASSUME WritesIn(q, Mine(p)) PROVE FALSE
            OBVIOUS
        <4>2. plan[q] # <<>> /\ Head(plan[q]).do \in {"put", "rebag"} /\ Head(plan[q]).len = i.len
            BY <1>1, <4>1 DEF WritesIn, Base, AtFits, Mine, Bag, i
        <4> QED BY <1>1, <1>2, <4>2, HeadMoves DEF MigrationOK
      <3>2. plan' = [q \in Processes |-> plan[q]]
          BY <1>8, <3>1 DEF UnlinkBag
      <3> QED BY <1>1, <3>2 DEF PlansOK
    <2>4. at'[p] = "gone" /\ \A q \in Processes : q # p => at'[q] = at[q]
        BY <1>1, <2>1 DEF PlansOK, Goto
    <2> QED BY <1>1, <2>1, <2>2, <2>3, <2>4 DEF Stays, Emptied
  <1> QED BY <1>5, <1>6, <1>7, <1>8

\* consolidate scans all other lengths and then opens the target.
LEMMA ConsolidationPlan ==
    ASSUME Base, NEW job, job.do = "consolidate", job.to \in Lengths
    PROVE  /\ Planned(job) \in Seq(Instructions) /\ Len(Planned(job)) \in Nat \ {0}
           /\ Planned(job)[Len(Planned(job))] = Do("check", job.to, None, None)
           /\ \A j \in 1 .. Len(Planned(job)) - 1 :
                \E n \in Lengths : n # job.to /\ Planned(job)[j] = Scan(n, job.to)
  <1> DEFINE S == Observed \ {job.to}
             nth(x) == CHOOSE k \in S : Cardinality({j \in S : j < k}) = x - 1
             scans == [x \in 1 .. Cardinality(S) |-> Scan(nth(x), job.to)]
             last == Do("check", job.to, None, None)
  <1>1. S \subseteq Lengths /\ job.to \notin S /\ IsFiniteSet(S) /\ Cardinality(S) \in Nat
    <2>1. Observed \subseteq Lengths
        BY BagsAssumption DEF Observed, Base, DiskOK, AllBags, Bag
    <2> QED BY <2>1, BagsAssumption, FS_Subset, FS_CardinalityType
  <1>2. \A x \in 1 .. Cardinality(S) : nth(x) \in S
      BY <1>1, RanksAreTaken, BagsAssumption
  <1>3. Planned(job) = scans \o <<last>>
      BY DEF Planned, InOrder
  <1> HIDE DEF nth, S
  <1>4. \A x \in 1 .. Cardinality(S) : Scan(nth(x), job.to) \in Instructions
      BY <1>1, <1>2, InstructionsAre
  <1>5. last \in Instructions
      BY InstructionsAre
  <1> HIDE DEF last
  <1>6. scans \in Seq(Instructions) /\ Len(scans) = Cardinality(S)
      BY <1>1, <1>4
  <1>7. <<last>> \in Seq(Instructions) /\ Len(<<last>>) = 1 /\ <<last>>[1] = last
      BY <1>5
  <1>8. \A j \in 1 .. Len(scans) : scans[j] = Scan(nth(j), job.to)
      BY <1>6
  <1> HIDE DEF scans
  <1>9. /\ scans \o <<last>> \in Seq(Instructions)
        /\ Len(scans \o <<last>>) = Cardinality(S) + 1
        /\ \A j \in 1 .. Cardinality(S) + 1 : (scans \o <<last>>)[j] =
              IF j <= Cardinality(S) THEN scans[j] ELSE <<last>>[j - Cardinality(S)]
      BY <1>6, <1>7, ConcatProperties
  <1>10. (scans \o <<last>>)[Cardinality(S) + 1] = last
    <2>1. Cardinality(S) + 1 \in 1 .. Cardinality(S) + 1 /\ ~(Cardinality(S) + 1 <= Cardinality(S))
          /\ Cardinality(S) + 1 - Cardinality(S) = 1
        BY <1>1
    <2> QED BY <1>7, <1>9, <2>1
  <1>11. ASSUME NEW j \in 1 .. Cardinality(S)
         PROVE  \E n \in Lengths : n # job.to /\ (scans \o <<last>>)[j] = Scan(n, job.to)
    <2>1. (scans \o <<last>>)[j] = Scan(nth(j), job.to)
        BY <1>1, <1>6, <1>8, <1>9
    <2> QED BY <1>1, <1>2, <2>1
  <1> QED BY <1>1, <1>3, <1>9, <1>10, <1>11 DEF last

LEMMA MigrationBegins ==
    ASSUME MigrationOK, NEW p \in Processes, Begin(p)
    PROVE  /\ Grows /\ at'[p] # "emptied"
           /\ \A q \in Processes : q # p => plan'[q] = plan[q] /\ at'[q] = at[q]
                                            /\ outcome'[q] = outcome[q]
           /\ \A j \in 1 .. Len(plan'[p]) : MoveFits(plan'[p], j)
           /\ Calls({"consolidate"}) =>
                /\ outcome'[p] # "done" /\ plan'[p][Len(plan'[p])].do = "check"
  <1>1. PICK job \in program.run.jobs[p] : plan' = [plan EXCEPT ![p] = Planned(job)]
      BY DEF Begin
  <1>2. /\ job.do \in {"refix", "consolidate"} /\ job.to = Target /\ Target \in Lengths
        /\ job.do = "refix" => job.len \in Lengths
      BY JobsMigrate DEF MigrationOK
  <1>3. /\ plan'[p] = Planned(job) /\ at' = at /\ at[p] = "start"
        /\ outcome'[p] = (IF plan'[p] = <<>> THEN "done" ELSE "busy")
        /\ \A q \in Processes : q # p => plan'[q] = plan[q] /\ outcome'[q] = outcome[q]
      BY <1>1 DEF Begin, MigrationOK, Base, PlansOK
  <1>4. Grows
      BY GrowsNot DEF Begin, files
  <1>5. CASE job.do = "refix"
    <2>1. Planned(job) = IF job.to = job.len THEN <<>> ELSE <<Scan(job.len, job.to)>>
        BY <1>5 DEF Planned
    <2>2. \A j \in 1 .. Len(Planned(job)) : MoveFits(Planned(job), j)
      <3>1. CASE job.to = job.len
        <4>1. Len(Planned(job)) = 0
            BY <2>1, <3>1
        <4> QED BY <4>1
      <3>2. CASE job.to # job.len
        <4> DEFINE x == Scan(job.len, Target)
        <4>1. Planned(job) = <<x>>
            BY <1>2, <2>1, <3>2
        <4> HIDE DEF x
        <4>2. Len(Planned(job)) = 1 /\ Planned(job)[1] = x
            BY <4>1
        <4>3. MoveFits(Planned(job), 1)
            BY <1>2, <3>2, <4>2, MovesFit DEF x
        <4> QED BY <4>2, <4>3
      <3> QED BY <3>1, <3>2
    <2>3. ~Calls({"consolidate"})
      <3>1. job \in Jobs
          BY DEF Jobs
      <3> QED BY <1>5, <3>1 DEF Calls
    <2> QED BY <1>3, <1>4, <2>2, <2>3
  <1>6. CASE job.do = "consolidate"
    <2> DEFINE s == Planned(job)
    <2>1. /\ Len(s) \in Nat \ {0} /\ s[Len(s)] = Do("check", Target, None, None)
          /\ \A j \in 1 .. Len(s) - 1 : \E n \in Lengths : n # Target /\ s[j] = Scan(n, Target)
          /\ s \in Seq(Instructions)
        BY <1>2, <1>6, ConsolidationPlan DEF MigrationOK
    <2> HIDE DEF s
    <2>2. MoveFits(s, Len(s)) /\ s[Len(s)].do = "check"
        BY <1>2, <2>1 DEF MoveFits, Do
    <2>3. \A j \in 1 .. Len(s) - 1 : MoveFits(s, j)
      <3>1. ASSUME NEW j \in 1 .. Len(s) - 1 PROVE MoveFits(s, j)
        <4>1. PICK n \in Lengths : n # Target /\ s[j] = Scan(n, Target)
            BY <2>1
        <4> QED BY <1>2, <4>1, MovesFit
      <3> QED BY <3>1
    <2>4. \A j \in 1 .. Len(s) : MoveFits(s, j)
        BY <2>1, <2>2, <2>3
    <2>5. s # <<>>
        BY <2>1, EmptySeq
    <2> QED BY <1>3, <1>4, <2>2, <2>4, <2>5 DEF s
  <1> QED BY <1>2, <1>5, <1>6

\* A step of a migration, whichever it is.
LEMMA MigrationSteps ==
    ASSUME MigrationOK, NEW p \in Processes, Begin(p) \/ Step(p) \/ Crash(p)
    PROVE  /\ Grows /\ Emptied(p)'
           /\ Begin(p) \/ Advances(p) \/ Stays(p) \/ Stops(p)
  <1>1. ASSUME at'[p] # "emptied" PROVE Emptied(p)'
      BY <1>1 DEF Emptied
  <1>2. CASE Begin(p)
      BY <1>1, <1>2, MigrationBegins
  <1>3. CASE Step(p)
      BY <1>1, <1>3, MigrationReads, MigrationLocks, MigrationWrites, MigrationEvicts DEF Step
  <1>4. CASE Crash(p)
    <2>1. Raise(p, "crashed") /\ bags' = bags /\ plan[p] # <<>>
        BY <1>4 DEF Crash
    <2>2. at[p] # "writing" /\ entry' = entry
        BY <1>4, <2>1, CutShortKeepsDisk DEF Crash, MigrationOK
    <2> QED BY <1>1, <2>1, <2>2, GrowsNot, RaiseEnds DEF Stops, Outcomes, MigrationOK, Base
  <1> QED BY <1>2, <1>3, <1>4

\* What the target has it keeps, and elsewhere nothing comes up.
LEMMA TargetKeeps ==
    ASSUME Grows, program' = program
    PROVE  /\ Target' = Target
           /\ Target \in Lengths => \A k \in Keys : Whole(Target, k) => Whole(Target, k)'
           /\ \A n \in Lengths \ {Target}, k \in Keys : entry[n][k] = None => entry'[n][k] = None
  <1>1. Target' = Target
      BY DEF Target, Jobs
  <1>2. ASSUME Target \in Lengths, NEW k \in Keys, Whole(Target, k)
        PROVE  Whole(Target, k)'
    <2>1. entry'[Target][k] \notin {None, Torn}
        BY <1>2 DEF Grows, Whole
    <2> QED BY <1>1, <2>1 DEF Whole
  <1>3. \A n \in Lengths \ {Target}, k \in Keys : entry[n][k] = None => entry'[n][k] = None
      BY DEF Grows
  <1> QED BY <1>1, <1>2, <1>3

\* What fits a plan still fits after a step.
LEMMA FitsStill ==
    ASSUME Grows, program' = program, Target \in Lengths, NEW s, NEW j, s[j] \in Instructions,
           MoveFits(s, j)
    PROVE  MoveFits(s, j)'
  <1>1. Target' = Target
      BY TargetKeeps
  <1>2. ASSUME s[j].do = "evict", Whole(Target, s[j].key)
        PROVE  Whole(Target, s[j].key)'
      BY <1>2, TargetKeeps, InstructionsFit
  <1> QED BY <1>1, <1>2 DEF MoveFits

\* The rest of a plan fits when its first instruction has been carried out.
LEMMA AdvancingFits ==
    ASSUME PlansOK, NEW p \in Processes, MovesOn(p), Advances(p), Grows, program' = program,
           Target \in Lengths
    PROVE  MovesOn(p)'
  <1>1. PICK more \in Seq(Instructions) :
          /\ Continue(p, more)
          /\ \A j \in 1 .. Len(more) : MoveFits(more, j)
          /\ Head(plan[p]).do = "put" =>
               more = <<>> /\ entry'[Target][Head(plan[p]).key] \notin {None, Torn}
      BY DEF Advances
  <1> DEFINE n == Len(more)
  <1>0. PICK s : s = plan'[p]
      OBVIOUS
  <1>2. /\ plan[p] # <<>> /\ plan[p] \in Seq(Instructions) /\ Head(plan[p]) = plan[p][1]
        /\ Len(plan[p]) \in Nat \ {0} /\ n \in Nat
        /\ \A j \in 1 .. Len(plan[p]) : plan[p][j] \in Instructions
        /\ \A j \in 1 .. n : more[j] \in Instructions
      BY HeadFits DEF Advances
  <1>3. /\ Len(s) = n + Len(plan[p]) - 1
        /\ \A j \in 1 .. n : s[j] = more[j]
        /\ \A j \in n + 1 .. Len(s) : s[j] = plan[p][j - n + 1]
      BY <1>0, <1>1, <1>2, ContinueGoesOn
  <1>4. Target' = Target
      BY TargetKeeps
  <1>5. ASSUME NEW j \in 1 .. n PROVE MoveFits(s, j)'
    <2>1. MoveFits(more, j)'
        BY <1>1, <1>2, FitsStill
    <2>2. s[j] = more[j] /\ (j = 2 => s[1] = more[1])
        BY <1>2, <1>3
    <2> QED BY <2>1, <2>2 DEF MoveFits
  <1>6. ASSUME NEW j \in n + 1 .. Len(s) PROVE MoveFits(s, j)'
    <2> DEFINE m == j - n + 1
    <2>1. m \in 2 .. Len(plan[p]) /\ s[j] = plan[p][m] /\ s[j] \in Instructions /\ m # 1
      <3>1. m \in 2 .. Len(plan[p]) /\ m # 1
          BY <1>2, <1>3
      <3>2. s[j] = plan[p][m]
          BY <1>3
      <3>3. s[j] \in Instructions
          BY <1>2, <3>1, <3>2
      <3> QED BY <3>1, <3>2, <3>3
    <2>2. MoveFits(plan[p], m)
        BY <1>2, <2>1 DEF MovesOn
    <2>3. CASE s[j].do # "evict"
      <3>1. MoveFits(s, j)
          BY <2>1, <2>2, <2>3 DEF MoveFits
      <3> QED BY <2>1, <3>1, FitsStill
    <2>4. CASE s[j].do = "evict"
      <3>1. /\ s[j].len # Target /\ m = 2 /\ Head(plan[p]).do = "put"
            /\ Head(plan[p]).key = s[j].key
          BY <1>2, <2>1, <2>2, <2>4 DEF MoveFits
      <3>2. n = 0 /\ entry'[Target][s[j].key] \notin {None, Torn}
          BY <1>1, <3>1
      <3>3. j = 1 /\ Whole(Target, s[j].key)'
          BY <1>2, <1>4, <3>1, <3>2 DEF Whole
      <3> QED BY <1>4, <2>4, <3>1, <3>3 DEF MoveFits
    <2> QED BY <2>3, <2>4
  <1>7. \A j \in 1 .. Len(s) : j \in 1 .. n \/ j \in n + 1 .. Len(s)
      BY <1>2, <1>3
  <1> QED BY <1>0, <1>5, <1>6, <1>7 DEF MovesOn

\* The program stays, and damage is not undone.
LEMMA StepFrame ==
    ASSUME Base, NEW p \in Processes, Begin(p) \/ Step(p) \/ Crash(p)
    PROVE  program' = program /\ (damaged => damaged')
  <1>1. CASE Begin(p) \/ Crash(p)
      BY <1>1 DEF Begin, Crash, CutShort
  <1>2. CASE PutFails(p)
      BY <1>2 DEF PutFails, CutShort
  <1>3. CASE Step(p) /\ ~PutFails(p)
    <2>1. UNCHANGED ghosts
        BY <1>3 DEF Step, Replace, Saved, List, Move, Open, Apply, Rebag, OpenLock, Lock, TimesOut,
           PutFile, BeginPut, RebagFile, EndPut, OpenFails, EvictFile, NoBag, Delete, UnlinkBag,
           UnlinkLock
    <2> QED BY <2>1 DEF ghosts
  <1> QED BY <1>1, <1>2, <1>3

LEMMA StepKeepsMigration ==
    ASSUME Base, Base', MigrationInv, [Next]_vars
    PROVE  MigrationInv'
  <1>1. CASE UNCHANGED vars
    <2>1. UNCHANGED <<entry, bags, at, plan, outcome, program, damaged>>
        BY <1>1 DEF vars, files, ghosts
    <2>2. (Migrating' = Migrating) /\ AtStart' = AtStart /\ Target' = Target
        BY <2>1 DEF Migrating, Calls, OneTarget, Jobs, Target, AtStart
    <2>3. \A n, k : Whole(n, k)' <=> Whole(n, k)
        BY <2>1 DEF Whole
    <2>4. \A s, j : MoveFits(s, j) => MoveFits(s, j)'
        BY <2>2, <2>3 DEF MoveFits
    <2>5. \A q \in Processes : MovesOn(q) => MovesOn(q)'
        BY <2>1, <2>4 DEF MovesOn
    <2>6. \A q \in Processes : Emptied(q) => Emptied(q)'
        BY <2>1 DEF Emptied, Bag, Mine
    <2> QED BY <2>1, <2>2, <2>3, <2>5, <2>6 DEF MigrationInv
  <1>2. ASSUME NEW p \in Processes, Begin(p) \/ Step(p) \/ Crash(p), Migrating', ~damaged'
        PROVE  /\ \A n \in Lengths, k \in Keys : entry'[n][k] # Torn
               /\ \A q \in Processes : MovesOn(q)' /\ Emptied(q)'
               /\ \A k \in AtStart' : \E n \in Lengths : Whole(n, k)'
    <2>1. program' = program /\ ~damaged
        BY <1>2, StepFrame
    <2>2. Migrating /\ AtStart' = AtStart
        BY <1>2, <2>1 DEF Migrating, Calls, OneTarget, Jobs, AtStart
    <2>3. MigrationOK /\ \A k \in AtStart : \E n \in Lengths : Whole(n, k)
        BY <1>2, <2>1, <2>2 DEF MigrationOK, MigrationInv
    <2>4. /\ Grows /\ Emptied(p)'
          /\ Begin(p) \/ Advances(p) \/ Stays(p) \/ Stops(p)
        BY <1>2, <2>3, MigrationSteps
    <2>5. PlansOK /\ DiskOK
        BY DEF Base
    <2>6. \A q \in Processes : q # p => plan'[q] = plan[q] /\ at'[q] = at[q]
      <3>1. ASSUME Advances(p)
            PROVE  \A q \in Processes : q # p => plan'[q] = plan[q] /\ at'[q] = at[q]
          BY <2>5, <3>1, ContinueGoesOn DEF Advances
      <3>2. ASSUME Stops(p)
            PROVE  \A q \in Processes : q # p => plan'[q] = plan[q] /\ at'[q] = at[q]
          BY <2>5, <3>2, RaiseEnds DEF Stops
      <3> QED BY <2>3, <2>4, <3>1, <3>2, MigrationBegins DEF Stays
    <2>7. \A n \in Lengths, k \in Keys : entry'[n][k] # Torn
        BY <2>3, <2>4, BagsAssumption DEF Grows, MigrationOK
    <2>8. Target' = Target
        BY <2>1, <2>4, TargetKeeps
    <2>9. ASSUME NEW q \in Processes, q # p \/ plan'[q] = plan[q] PROVE MovesOn(q)'
      <3>1. plan'[q] = plan[q] /\ MovesOn(q)
          BY <2>3, <2>6, <2>9 DEF MigrationOK
      <3>0. PICK s : s = plan[q]
          OBVIOUS
      <3>2. ASSUME NEW j \in 1 .. Len(s) PROVE MoveFits(s, j)'
        <4>1. plan[q] # <<>>
            BY <3>0, <3>2
        <4>2. s[j] \in Instructions /\ MoveFits(s, j)
            BY <2>5, <3>0, <3>1, <3>2, <4>1, HeadFits DEF MovesOn
        <4>3. Target \in Lengths
          BY <2>3, <3>1, <4>1, HeadMoves DEF MigrationOK
        <4> QED BY <2>1, <2>4, <4>2, <4>3, FitsStill
      <3> QED BY <3>0, <3>1, <3>2 DEF MovesOn
    <2>10. MovesOn(p)'
      <3>1. CASE Begin(p)
        <4>1. PICK s : s = plan'[p] /\ \A j \in 1 .. Len(s) : MoveFits(s, j)
            BY <2>3, <3>1, MigrationBegins
        <4>2. entry' = entry
            BY <3>1 DEF Begin, files
        <4>3. \A j \in 1 .. Len(s) : MoveFits(s, j)'
            BY <2>8, <4>1, <4>2 DEF MoveFits, Whole
        <4> QED BY <4>1, <4>3 DEF MovesOn
      <3>2. CASE Advances(p)
        <4>1. Target \in Lengths
            BY <2>3, <3>2, HeadMoves DEF Advances, MigrationOK
        <4> QED BY <2>1, <2>3, <2>4, <2>5, <3>2, <4>1, AdvancingFits DEF MigrationOK
      <3>3. CASE Stays(p)
          BY <2>9, <3>3 DEF Stays
      <3>4. CASE Stops(p)
        <4>1. plan'[p] = <<>>
            BY <2>5, <3>4, RaiseEnds DEF Stops
        <4> QED BY <4>1 DEF MovesOn
      <3> QED BY <2>4, <3>1, <3>2, <3>3, <3>4
    <2>11. ASSUME NEW q \in Processes, q # p PROVE Emptied(q)'
      <3>1. plan'[q] = plan[q] /\ at'[q] = at[q] /\ Emptied(q)
          BY <2>3, <2>6, <2>11 DEF MigrationOK
      <3>2. SUFFICES ASSUME at[q] = "emptied" PROVE Emptied(q)'
          BY <3>1 DEF Emptied
      <3>3. plan[q] # <<>> /\ Head(plan[q]).do = "evict"
          BY <3>2 DEF Base, AtFits, Locks
      <3>4. Head(plan[q]).len \in Lengths \ {Target}
          BY <2>3, <3>3, HeadMoves DEF MigrationOK
      <3>5. \A k \in Keys : Bag(Head(plan[q]).len, k) = Mine(q)
                             => entry'[Head(plan[q]).len][k] = None
          BY <2>1, <2>4, <3>1, <3>2, <3>4, TargetKeeps DEF Emptied
      <3> QED BY <3>1, <3>5 DEF Emptied, Mine, Bag
    <2>12. ASSUME NEW k \in AtStart PROVE \E n \in Lengths : Whole(n, k)'
      <3>1. PICK n \in Lengths : Whole(n, k)
          BY <2>3
      <3>2. k \in Keys
          BY ProgramsAssumption DEF Base, AtStart
      <3>3. CASE entry'[n][k] = entry[n][k]
          BY <3>1, <3>3 DEF Whole
      <3>4. CASE entry'[n][k] \notin {None, Torn}
          BY <3>4 DEF Whole
      <3>5. CASE n # Target /\ entry'[n][k] = None /\ Whole(Target, k)
        <4>1. plan[p] # <<>> \/ entry' = entry
            BY <2>4 DEF Begin, files, Advances, Stays, Stops
        <4>2. SUFFICES ASSUME plan[p] # <<>> PROVE \E m \in Lengths : Whole(m, k)'
            BY <3>1, <4>1 DEF Whole
        <4>3. Target \in Lengths
            BY <2>3, <4>2, HeadMoves DEF MigrationOK
        <4> QED BY <2>1, <2>4, <2>8, <3>2, <3>5, <4>3, TargetKeeps DEF Whole
      <3> QED BY <2>4, <3>2, <3>3, <3>4, <3>5 DEF Grows
    <2> QED BY <2>2, <2>4, <2>7, <2>9, <2>10, <2>11, <2>12
  <1> QED BY <1>1, <1>2 DEF Next, MigrationInv

LEMMA StepKeepsConsolidation ==
    ASSUME Base, Base', MigrationInv, ConsolidationInv, [Next]_vars
    PROVE  ConsolidationInv'
  <1>1. CASE UNCHANGED vars
    <2>1. UNCHANGED <<entry, bags, plan, outcome, program, damaged>>
        BY <1>1 DEF vars, files, ghosts
    <2>2. (Calls({"consolidate"}) /\ OneTarget)' = (Calls({"consolidate"}) /\ OneTarget)
          /\ Target' = Target /\ Observed' = Observed
        BY <2>1 DEF Calls, OneTarget, Jobs, Target, Observed
    <2> QED BY <2>1, <2>2 DEF ConsolidationInv
  <1>2. ASSUME NEW p \in Processes, Begin(p) \/ Step(p) \/ Crash(p),
               (Calls({"consolidate"}) /\ OneTarget)', ~damaged', NEW q \in Processes
        PROVE  /\ plan'[q] # <<>> => plan'[q][Len(plan'[q])].do = "check"
               /\ outcome'[q] = "done" => Observed' \subseteq {Target'}
    <2>1. program' = program /\ ~damaged
        BY <1>2, StepFrame
    <2>2. Calls({"consolidate"}) /\ OneTarget
        BY <1>2, <2>1 DEF Calls, OneTarget, Jobs
    <2>3. MigrationOK
        BY <1>2, <2>1, <2>2 DEF MigrationOK, MigrationInv, Migrating, Calls
    <2>4. /\ plan[q] # <<>> => plan[q][Len(plan[q])].do = "check"
          /\ outcome[q] = "done" => Observed \subseteq {Target}
        BY <2>1, <2>2 DEF ConsolidationInv
    <2>5. Grows /\ (Begin(p) \/ Advances(p) \/ Stays(p) \/ Stops(p)) /\ PlansOK
        BY <1>2, <2>3, MigrationSteps DEF Base
    <2>6. Observed \subseteq {Target} => Observed' \subseteq {Target'}
      <3>1. Target' = Target
          BY <2>1, <2>5, TargetKeeps
      <3> QED BY <2>5, <3>1, BagsAssumption DEF Grows, Observed
    <2>7. CASE q # p
      <3>1. ASSUME Advances(p) PROVE plan'[q] = plan[q] /\ outcome'[q] = outcome[q]
          BY <2>5, <2>7, <3>1, ContinueGoesOn DEF Advances
      <3>2. ASSUME Stops(p) PROVE plan'[q] = plan[q] /\ outcome'[q] = outcome[q]
          BY <2>5, <2>7, <3>2, RaiseEnds DEF Stops
      <3>3. ASSUME Begin(p) PROVE plan'[q] = plan[q] /\ outcome'[q] = outcome[q]
          BY <2>3, <2>7, <3>3, MigrationBegins
      <3>4. plan'[q] = plan[q] /\ outcome'[q] = outcome[q]
          BY <2>5, <3>1, <3>2, <3>3 DEF Stays
      <3> QED BY <2>4, <2>6, <3>4
    <2>8. CASE q = p
      <3>1. CASE Begin(p)
          BY <2>2, <2>3, <2>8, <3>1, MigrationBegins
      <3>2. CASE Stays(p)
          BY <2>4, <2>6, <2>8, <3>2 DEF Stays
      <3>3. CASE Stops(p)
          BY <2>5, <2>8, <3>3, RaiseEnds DEF Stops
      <3>4. CASE Advances(p)
        <4>1. PICK more \in Seq(Instructions) :
                /\ plan[p] # <<>> /\ Continue(p, more)
                /\ Head(plan[p]).do = "check" => more = <<>> /\ Observed \subseteq {Target}
            BY <3>4 DEF Advances
        <4> DEFINE n == Len(more)
                   L == Len(plan[p])
        <4>2. /\ n \in Nat /\ L \in Nat \ {0} /\ Head(plan[p]) = plan[p][1]
              /\ outcome'[p] = "done" <=> plan'[p] = <<>>
              /\ Len(plan'[p]) = n + L - 1
              /\ \A j \in n + 1 .. Len(plan'[p]) : plan'[p][j] = plan[p][j - n + 1]
          <5>1. L \in Nat \ {0} /\ Head(plan[p]) = plan[p][1]
              BY <2>5, <4>1, HeadFits
          <5>2. n \in Nat
              OBVIOUS
          <5> HIDE DEF n, L
          <5>3. /\ outcome'[p] = "done" <=> plan'[p] = <<>>
                /\ Len(plan'[p]) = n + L - 1
                /\ \A j \in n + 1 .. Len(plan'[p]) : plan'[p][j] = plan[p][j - n + 1]
              BY <2>5, <4>1, ContinueGoesOn DEF n, L
          <5> QED BY <5>1, <5>2, <5>3
        <4>3. plan[p][L].do = "check"
            BY <2>4, <2>8, <4>1
        <4>4. L = 1 => n = 0 /\ Observed \subseteq {Target}
          <5>1. ASSUME L = 1 PROVE n = 0 /\ Observed \subseteq {Target}
            <6>1. Head(plan[p]).do = "check"
                BY <4>2, <4>3, <5>1
            <6> QED BY <4>1, <6>1
          <5> QED BY <5>1
        <4>5. CASE L = 1
          <5>1. Len(plan'[p]) = 0
              BY <4>2, <4>4, <4>5
          <5>2. plan'[p] = <<>>
            <6>1. plan'[p] \in Seq(Instructions)
                BY DEF Base, PlansOK
            <6> QED BY <5>1, <6>1, EmptySeq
          <5> QED BY <2>6, <2>8, <4>4, <4>5, <5>2
        <4>6. CASE L # 1
          <5>1. Len(plan'[p]) \in n + 1 .. Len(plan'[p]) /\ Len(plan'[p]) - n + 1 = L
                /\ Len(plan'[p]) # 0
            <6>1. n \in Nat /\ L \in Nat \ {0} /\ L # 1 /\ Len(plan'[p]) = n + L - 1
                BY <4>2, <4>6
            <6> HIDE DEF n, L
            <6> QED BY <6>1
          <5>2. plan'[p][Len(plan'[p])] = plan[p][L] /\ plan'[p] # <<>>
            <6> HIDE DEF n, L
            <6>1. plan'[p] # <<>>
                BY <5>1
            <6> QED BY <4>2, <5>1, <6>1
          <5> QED BY <2>8, <4>2, <4>3, <5>2
        <4> QED BY <4>5, <4>6
      <3> QED BY <2>5, <3>1, <3>2, <3>3, <3>4
    <2> QED BY <2>7, <2>8
  <1> QED BY <1>1, <1>2 DEF Next, ConsolidationInv

LEMMA InitMigration ==
    ASSUME Init, Base
    PROVE  MigrationInv /\ ConsolidationInv
  <1>1. /\ entry = [n \in Lengths |-> [k \in Keys |->
                   IF k \in program.run.filed[n] THEN Record(k, 0) ELSE None]]
        /\ plan = [p \in Processes |-> <<>>] /\ at = [p \in Processes |-> "start"]
        /\ outcome = [p \in Processes |-> "none"]
      BY DEF Init
  <1>2. \A k \in Keys : Record(k, 0) \notin {None, Torn}
    <2>1. \A k \in Keys : Record(k, 0) \in Records
        BY DEF Record, Records
    <2> QED BY <2>1, BagsAssumption
  <1>3. \A n \in Lengths, k \in Keys : entry[n][k] # Torn
      BY <1>1, <1>2, BagsAssumption
  <1>4. \A p \in Processes : MovesOn(p) /\ Emptied(p)
      BY <1>1 DEF MovesOn, Emptied
  <1>5. ASSUME NEW k \in AtStart PROVE \E n \in Lengths : Whole(n, k)
    <2>1. PICK n \in Lengths : k \in program.run.filed[n]
        BY DEF AtStart
    <2>2. k \in Keys
        BY <2>1, ProgramsAssumption DEF Base
    <2> QED BY <1>1, <1>2, <2>1, <2>2 DEF Whole
  <1> QED BY <1>1, <1>3, <1>4, <1>5 DEF MigrationInv, ConsolidationInv

\* A root that is uniform and has lost nothing has it all in the one length.
LEMMA MigrationsEnd ==
    ASSUME Base, MigrationInv, ConsolidationInv
    PROVE  MigrationsAreSafe
  <1>1. NothingIsLost
      BY DEF NothingIsLost, MigrationInv, Migrating
  <1>2. ASSUME Calls({"consolidate"}), OneTarget, ~damaged, NEW p \in Processes,
               outcome[p] = "done", NEW job \in program.run.jobs[p]
        PROVE  (\A k \in AtStart : Whole(job.to, k)) /\ Observed \subseteq {job.to}
    <2>1. Migrating
        BY <1>2 DEF Migrating, Calls
    <2>2. job.to = Target
        BY <2>1, JobsMigrate
    <2>3. Observed \subseteq {Target}
        BY <1>2 DEF ConsolidationInv
    <2>4. ASSUME NEW k \in AtStart PROVE Whole(Target, k)
      <3>1. PICK n \in Lengths : Whole(n, k)
          BY <1>2, <2>1 DEF MigrationInv
      <3>2. k \in Keys
          BY ProgramsAssumption DEF Base, AtStart
      <3>3. n \in Observed
        <4>1. CASE n = 0
            BY <3>1, <3>2, <4>1 DEF Observed, Whole
        <4>2. CASE n # 0
          <5>1. Bag(n, k) \in bags /\ Bag(n, k)[1] = n
              BY <3>1, <3>2, <4>2 DEF Base, DiskOK, Whole, Bag
          <5> QED BY <5>1 DEF Observed
        <4> QED BY <4>1, <4>2
      <3> QED BY <2>3, <3>1, <3>3
    <2> QED BY <2>2, <2>3, <2>4
  <1> QED BY <1>1, <1>2 DEF MigrationsAreSafe, ConsolidatedIsUniform

\* refix and consolidate, by any number of processes that migrate one root to one length,
\* with timeouts, errors and crashes in between, keep every entry whole in some layout;
\* and what consolidate returns is the whole root in one length
\* (storage/bagofholding_file.py, refix and consolidate).
THEOREM MigrationsKeepEntries == Spec => []MigrationsAreSafe
  <1> DEFINE IInv == Base /\ MigrationInv /\ ConsolidationInv
  <1>1. Init => IInv
      BY InitBase, InitMigration
  <1>2. IInv /\ [Next]_vars => IInv'
      BY StepKeepsBase, StepKeepsMigration, StepKeepsConsolidation
  <1>3. IInv => MigrationsAreSafe
      BY MigrationsEnd
  <1> QED BY <1>1, <1>2, <1>3, PTL DEF Spec

-----------------------------------------------------------------------------
(* Locks.                                                                   *)

\* Who leaves an instruction, by an exception or to the next one, leaves the lock, if it
\* had one, and nobody else's.
Leaves(p) ==
    /\ at'[p] = "start"
    /\ \A q \in Processes \ {p} :
         plan'[q] = plan[q] /\ at'[q] = at[q] /\ fd'[q] = fd[q] /\ outcome'[q] = outcome[q]

LEMMA ContinueLeaves ==
    ASSUME Base, NEW p \in Processes, NEW more, Continue(p, more), fd' = fd \/ Unlock(p)
    PROVE  Leaves(p)
  <1>1. at'[p] = "start" /\ \A q \in Processes : q # p =>
            plan'[q] = plan[q] /\ at'[q] = at[q] /\ outcome'[q] = outcome[q]
      BY DEF Continue, Base, PlansOK
  <1>2. \A q \in Processes : q # p => fd'[q] = fd[q]
      BY DEF Base, LocksOK, Unlock
  <1> QED BY <1>1, <1>2 DEF Leaves

LEMMA RaiseLeaves ==
    ASSUME Base, NEW p \in Processes, NEW how, Raise(p, how)
    PROVE  Leaves(p)
  BY DEF Leaves, Raise, Base, PlansOK, LocksOK

\* A process keeps its place in a bag, or comes further there, or leaves.
LEMMA WhoStays ==
    ASSUME Base, NEW p \in Processes, Begin(p) \/ Step(p) \/ Crash(p)
    PROVE  \/ Leaves(p) \/ Begin(p) \/ OpenLock(p) \/ Lock(p) \/ BeginPut(p) \/ UnlinkBag(p)
           \/ Rebag(p)
           \/ Delete(p) /\ Goto(p, "emptied") /\ UNCHANGED <<fd, plan, outcome>>
  <1>1. CASE Replace(p) \/ Saved(p) \/ List(p) \/ Apply(p)
      BY <1>1, ContinueLeaves DEF Replace, Saved, List, Apply, locks
  <1>2. CASE Move(p)
    <2>1. (\E more : Continue(p, more) /\ fd' = fd) \/ Raise(p, "unreadable")
        BY <1>2 DEF Move
    <2> QED BY <2>1, ContinueLeaves, RaiseLeaves
  <1>3. CASE Open(p) \/ OpenFails(p)
    <2>1. (\E more : Continue(p, more) /\ fd' = fd) \/ (\E how : Raise(p, how))
        BY <1>3 DEF Open, OpenFails
    <2> QED BY <2>1, ContinueLeaves, RaiseLeaves
  <1>4. CASE PutFile(p) \/ RebagFile(p) \/ EvictFile(p)
      BY <1>4, ContinueLeaves DEF PutFile, RebagFile, EvictFile, locks
  <1>5. CASE EndPut(p) \/ NoBag(p) \/ UnlinkLock(p)
      BY <1>5, ContinueLeaves DEF EndPut, NoBag, UnlinkLock
  <1>6. CASE Delete(p)
      BY <1>6, ContinueLeaves DEF Delete
  <1>7. CASE TimesOut(p) \/ PutFails(p) \/ Crash(p)
      BY <1>7, RaiseLeaves DEF TimesOut, PutFails, Crash
  <1>8. \/ Replace(p) \/ Saved(p) \/ List(p) \/ Apply(p)
        \/ Move(p)
        \/ Open(p) \/ OpenFails(p)
        \/ PutFile(p) \/ RebagFile(p) \/ EvictFile(p)
        \/ EndPut(p) \/ NoBag(p) \/ UnlinkLock(p)
        \/ Delete(p)
        \/ TimesOut(p) \/ PutFails(p) \/ Crash(p)
        \/ Begin(p) \/ OpenLock(p) \/ Lock(p) \/ BeginPut(p) \/ UnlinkBag(p) \/ Rebag(p)
      BY DEF Step
  <1> QED BY <1>1, <1>2, <1>3, <1>4, <1>5, <1>6, <1>7, <1>8

\* Only who opens a lock makes a lock file, and only who emptied a bag removes it.
LEMMA LockfileStays ==
    ASSUME NEW p \in Processes, Begin(p) \/ Step(p) \/ Crash(p), ~OpenLock(p), ~UnlinkLock(p)
    PROVE  lockfile' = lockfile
  BY DEF Begin, Step, Crash, Replace, Saved, List, Move, Open, Apply, Rebag, Lock, TimesOut,
         PutFile, BeginPut, RebagFile, EndPut, PutFails, OpenFails, EvictFile, NoBag, Delete,
         UnlinkBag, locks

LEMMA RebagStays ==
    ASSUME Base, NEW p \in Processes, plan[p] # <<>>, Head(plan[p]).do = "rebag", NEW r,
           plan' = [plan EXCEPT ![p][1].rec = r]
    PROVE  Head(plan'[p]).do = "rebag"
  <1> DEFINE i == plan[p][1]
             s == [plan[p] EXCEPT ![1] = [i EXCEPT !.rec = r]]
  <1>1. /\ i \in Instructions /\ i.do = "rebag" /\ plan[p] \in Seq(Instructions)
        /\ 1 \in 1 .. Len(plan[p])
      BY HeadFits DEF Base
  <1>2. plan'[p] = s
      BY DEF Base, PlansOK
  <1>3. [i EXCEPT !.rec = r].do = "rebag"
      BY <1>1 DEF Instructions
  <1>4. Head(s) = s[1] /\ s[1] = [i EXCEPT !.rec = r]
      BY <1>1
  <1> QED BY <1>2, <1>3, <1>4

\* Who is inside a bag after a step was there before, or has just got its lock.
LEMMA InsideFrom ==
    ASSUME Base, NEW p \in Processes, Begin(p) \/ Step(p) \/ Crash(p),
           NEW q \in Processes, Inside(q)'
    PROVE  /\ fd'[q] = fd[q] /\ Mine(q)' = Mine(q)
           /\ \/ Inside(q)
              \/ /\ q = p /\ ~Held(fd[p]) /\ fd[p] # None /\ lockfile' = lockfile
                 /\ program.rechecks => fd[p] = lockfile[Mine(p)]
  <1>1. CASE q # p /\ ~UnlinkBag(p)
    <2>1. plan'[q] = plan[q] /\ at'[q] = at[q] /\ fd'[q] = fd[q]
        BY <1>1, WhoStays
         DEF Leaves, Begin, OpenLock, Lock, BeginPut, Rebag, Goto, Raise, Continue, locks, Base, PlansOK, LocksOK
    <2> QED BY <2>1 DEF Inside, Locks, Mine, Bag
  <1>2. CASE q # p /\ UnlinkBag(p)
    <2>1. at'[q] = at[q] /\ fd'[q] = fd[q]
        BY <1>2 DEF UnlinkBag, Goto, locks, Base, PlansOK
    <2>2. plan[q] # <<>> /\ Head(plan'[q]).do = Head(plan[q]).do
          /\ Head(plan'[q]).len = Head(plan[q]).len /\ Head(plan'[q]).key = Head(plan[q]).key
        BY <1>2, WritersAreCutOff DEF Inside, Locks
    <2> QED BY <2>1, <2>2 DEF Inside, Locks, Mine, Bag
  <1>3. CASE q = p
    <2>1. ~Leaves(p)
        BY <1>3 DEF Leaves, Inside
    <2>2. ~Begin(p)
        BY <1>3 DEF Begin, Inside, Base, PlansOK
    <2>3. ~OpenLock(p)
        BY <1>3 DEF OpenLock, Goto, Inside, Base, PlansOK
    <2>4. ~Rebag(p)
      <3>1. SUFFICES ASSUME Rebag(p) PROVE FALSE
          OBVIOUS
      <3>2. Leaves(p) \/ (/\ plan' = [plan EXCEPT ![p][1].rec = entry[Head(plan[p]).len][Head(plan[p]).key]]
                          /\ plan[p] # <<>> /\ Head(plan[p]).do = "rebag")
          BY <3>1, ContinueLeaves, RaiseLeaves DEF Rebag, First
      <3>3. Head(plan'[p]).do = "rebag" 
          BY <2>1, <3>1, <3>2, RebagStays
      <3> QED BY <1>3, <3>3 DEF Inside, Locks
    <2>5. CASE Lock(p)
      <3>1. at'[p] \in {"inside", "emptied", "gone", "writing"}
          BY <1>3 DEF Inside
      <3>2. Goto(p, "inside") /\ ~Held(fd[p]) /\ (program.rechecks => fd[p] = lockfile[Mine(p)])
            /\ UNCHANGED <<fd, plan, lockfile>>
          BY <2>5, <3>1 DEF Lock, Goto, Base, PlansOK
      <3>3. fd[p] # None
          BY <2>5 DEF Lock, Base, AtFits
      <3> QED BY <1>3, <3>2, <3>3 DEF Mine, Bag
    <2>6. CASE BeginPut(p)
      <3>1. UNCHANGED <<plan, fd>> /\ Locks(p)
          BY <1>3, <2>6 DEF BeginPut, locks, Inside, Locks
      <3>2. Inside(p)
          BY <2>6, <3>1 DEF BeginPut, First, Inside
      <3> QED BY <1>3, <3>1, <3>2 DEF Mine, Bag
    <2>7. CASE Delete(p) /\ UNCHANGED <<fd, plan, outcome>>
      <3>1. Inside(p)
          BY <1>3, <2>7 DEF Delete, First, Inside, Locks
      <3> QED BY <1>3, <2>7, <3>1 DEF Mine, Bag
    <2>8. CASE UnlinkBag(p)
      <3>1. at[p] = "emptied" /\ fd' = fd
          BY <2>8 DEF UnlinkBag, First, locks
      <3>2. plan'[p] = plan[p]
          BY <2>8, <3>1, WritersAreCutOff DEF WritesIn
      <3> QED BY <1>3, <3>1, <3>2 DEF Mine, Bag, Inside, Locks
    <2> QED BY <1>3, <2>1, <2>2, <2>3, <2>4, <2>5, <2>6, <2>7, <2>8, WhoStays
  <1> QED BY <1>1, <1>2, <1>3

LEMMA StepKeepsLocks ==
    ASSUME Base, LocksHold, [Next]_vars
    PROVE  LocksHold'
  <1>1. CASE UNCHANGED vars
      BY <1>1 DEF vars, locks, ghosts, LocksHold, Inside, Locks, Mine, Bag
  <1>2. ASSUME NEW p \in Processes, Begin(p) \/ Step(p) \/ Crash(p)
        PROVE  LocksHold'
    <2>1. ASSUME NEW q \in Processes, NEW r \in Processes, Inside(q)', Inside(r)', fd'[q] = fd'[r]
          PROVE  q = r
      <3>1. fd[q] = fd[r]
          BY <1>2, <2>1, InsideFrom
      <3>2. CASE Inside(q) /\ Inside(r)
          BY <3>1, <3>2 DEF LocksHold
      <3>3. CASE Inside(q) /\ ~Inside(r)
          BY <1>2, <2>1, <3>1, <3>3, InsideFrom DEF Held
      <3>4. CASE ~Inside(q) /\ Inside(r)
          BY <1>2, <2>1, <3>1, <3>4, InsideFrom DEF Held
      <3>5. CASE ~Inside(q) /\ ~Inside(r)
          BY <1>2, <2>1, <3>5, InsideFrom
      <3> QED BY <3>2, <3>3, <3>4, <3>5
    <2>2. ASSUME NEW q \in Processes, program'.rechecks, Inside(q)'
          PROVE  fd'[q] # None /\ fd'[q] = lockfile'[Mine(q)']
      <3>1. program' = program /\ fd'[q] = fd[q] /\ Mine(q)' = Mine(q)
          BY <1>2, <2>2, InsideFrom, StepFrame
      <3>2. CASE ~Inside(q)
          BY <1>2, <2>2, <3>1, <3>2, InsideFrom
      <3>3. CASE Inside(q)
        <4>1. fd[q] # None /\ fd[q] = lockfile[Mine(q)]
            BY <2>2, <3>1, <3>3 DEF LocksHold
        <4>2. Mine(q) \in AllBags
            BY <3>3, MineIsABag DEF Inside, Locks, Base
        <4>3. lockfile'[Mine(q)] = lockfile[Mine(q)]
          <5>1. CASE OpenLock(p)
            <6>1. lockfile' = [lockfile EXCEPT ![Mine(p)] = lockfile'[Mine(p)]]
                  /\ (lockfile[Mine(p)] # None => lockfile'[Mine(p)] = lockfile[Mine(p)])
              <7>1. Mine(p) \in AllBags
                  BY <5>1, MineIsABag DEF OpenLock, Locks, Base
              <7>2. lockfile \in [AllBags -> Inodes \cup {None}]
                  BY DEF Base, LocksOK
              <7> QED BY <5>1, <7>1, <7>2 DEF OpenLock
            <6> QED BY <4>1, <4>2, <6>1 DEF Base, LocksOK
          <5>2. CASE UnlinkLock(p)
            <6>1. Inside(p) /\ at'[p] = "start"
              <7>1. at[p] = "gone" /\ Locks(p)
                  BY <5>2 DEF UnlinkLock, First, Base, AtFits
              <7>2. at'[p] = "start"
                  BY <5>2 DEF UnlinkLock, Continue, Base, PlansOK
              <7> QED BY <7>1, <7>2 DEF Inside
            <6>2. q # p
                BY <2>2, <6>1 DEF Inside
            <6>3. Mine(q) # Mine(p)
                BY <2>2, <3>1, <3>3, <6>1, <6>2 DEF LocksHold
            <6>4. lockfile' = [lockfile EXCEPT ![Mine(p)] = None]
                BY <5>2 DEF UnlinkLock
            <6> QED BY <4>2, <6>3, <6>4 DEF Base, LocksOK
          <5>3. CASE ~OpenLock(p) /\ ~UnlinkLock(p)
            <6>1. lockfile' = lockfile
                BY <1>2, <5>3, LockfileStays
            <6> QED BY <6>1
          <5> QED BY <5>1, <5>2, <5>3
        <4> QED BY <3>1, <4>1, <4>3
      <3> QED BY <3>2, <3>3
    <2> QED BY <2>1, <2>2 DEF LocksHold
  <1> QED BY <1>1, <1>2 DEF Next

-----------------------------------------------------------------------------
(* Saves and evictions in one bag.                                          *)

SharingOK ==
    /\ Base /\ LocksHold /\ Sharing
    /\ \A p \in Processes : WorksOnOwn(p) /\ Emptied(p)
    /\ \A p \in Processes : \A job \in program.run.jobs[p] :
         job.key \in filed => Whole(job.len, job.key)

\* A step changes the disk at one entry, and fills a group of a bag only inside it.
Local(p, job) ==
    /\ \A n \in Lengths, k \in Keys :
         ~(n = job.len /\ k = job.key) => entry'[n][k] = entry[n][k]
    /\ \/ entry'[job.len][job.key] \in {entry[job.len][job.key], None}
       \/ job.len = 0
       \/ Inside(p) /\ Mine(p) = Bag(job.len, job.key)

\* What a step of p does, within its job.
WithinJob(p, job) ==
    /\ Local(p, job) /\ Emptied(p)'
    /\ \A q \in Processes : q # p => plan'[q] = plan[q] /\ at'[q] = at[q]
    /\ plan'[p] # <<>> => Works(p, job)'
    /\ filed' = filed \/ (filed' = filed \cup {job.key} /\ Whole(job.len, job.key) /\ entry' = entry)

LEMMA JobsShare ==
    ASSUME Base, Sharing, NEW p \in Processes, NEW job \in program.run.jobs[p]
    PROVE  /\ job.do \in {"save", "evict"} /\ job.len \in Lengths /\ job.key \in Keys
           /\ \A q \in Processes : \A other \in program.run.jobs[q] :
                 other.key = job.key => q = p /\ other.len = job.len
  <1>1. job \in AnyJob /\ job \in Jobs
      BY ProgramsAssumption DEF Base, Jobs
  <1>2. job.do \in {"save", "evict"}
      BY <1>1 DEF Sharing, Calls
  <1>3. job.len \in Lengths /\ job.key \in Keys
      BY <1>1, <1>2 DEF AnyJob
  <1>4. \A q \in Processes : \A other \in program.run.jobs[q] :
                 other.key = job.key => q = p /\ other.len = job.len
      BY DEF Sharing, KeysAreOwned
  <1> QED BY <1>2, <1>3, <1>4

\* The first instruction of a job.
LEMMA OwnHead ==
    ASSUME Base, NEW p \in Processes, plan[p] # <<>>, NEW job, Works(p, job)
    PROVE  LET i == Head(plan[p]) IN
             /\ i.do \in {"replace", "evict", "put", "saved"}
             /\ i.key = job.key /\ i.len = job.len
             /\ i.len \in Lengths /\ i.key \in Keys
             /\ i.do = "put" => i.rec \in Records
             /\ i.do = "saved" => Len(plan[p]) = 1 /\ Whole(job.len, job.key)
  <1>1. Head(plan[p]) \in Instructions /\ Head(plan[p]) = plan[p][1] /\ Len(plan[p]) \in Nat \ {0}
      BY HeadFits DEF Base
  <1>2. Head(plan[p]).do \in {"replace", "evict", "put", "saved"}
      BY <1>1 DEF Works
  <1>3. Head(plan[p]).key = job.key /\ Head(plan[p]).len = job.len
        /\ (Head(plan[p]).do = "put" => Head(plan[p]).rec # None)
      BY <1>1 DEF Works
  <1>4. Head(plan[p]).do = "saved" => Len(plan[p]) = 1 /\ Whole(job.len, job.key)
      BY <1>1 DEF Works
  <1> QED BY <1>1, <1>2, <1>3, <1>4, InstructionsFit

LEMMA OwnStays ==
    ASSUME Base, NEW p \in Processes, plan[p] # <<>>, NEW job, Works(p, job),
           plan'[p] = plan[p], filed' = filed,
           entry'[job.len][job.key] = entry[job.len][job.key] \/ Head(plan[p]).do # "saved"
    PROVE  Works(p, job)'
  <1>1. Head(plan[p]) = plan[p][1]
      BY HeadFits DEF Base
  <1> QED BY <1>1 DEF Works, Whole

\* A save or an eviction goes on in order.
LEMMA OwnGoesOn ==
    ASSUME Base, NEW p \in Processes, plan[p] # <<>>, NEW job, Works(p, job),
           NEW more \in Seq(Instructions), Continue(p, more),
           \/ more = <<>>
           \/ /\ Head(plan[p]).do = "replace" /\ Len(more) = 1
              /\ more[1] = Evict(job.len, job.key),
           Head(plan[p]).do = "put" => entry'[job.len][job.key] \notin {None, Torn},
           filed' = filed \/ Head(plan[p]).do = "saved"
    PROVE  plan'[p] # <<>> => Works(p, job)'
  <1> DEFINE s == plan[p]
             n == Len(more)
  <1>0. PICK t : t = plan'[p]
      OBVIOUS
  <1>1. /\ s[1] = Head(s) /\ Len(s) \in Nat \ {0} /\ n \in {0, 1}
        /\ n = 1 => s[1].do = "replace" /\ more[1] = Evict(job.len, job.key)
      BY HeadFits DEF Base
  <1>2. /\ Len(t) = n + Len(s) - 1
        /\ \A j \in 1 .. n : t[j] = more[j]
        /\ \A j \in n + 1 .. Len(t) : t[j] = s[j - n + 1]
        /\ t \in Seq(Instructions)
    <2>1. PlansOK' /\ Len(t) = n + Len(s) - 1
          /\ (\A j \in 1 .. n : t[j] = more[j])
          /\ \A j \in n + 1 .. Len(t) : t[j] = s[j - n + 1]
        BY <1>0, ContinueGoesOn DEF Base
    <2> QED BY <1>0, <2>1 DEF PlansOK
  <1>3. Evict(job.len, job.key).do = "evict" /\ Evict(job.len, job.key).key = job.key
        /\ Evict(job.len, job.key).len = job.len
      BY DEF Evict, Do
  <1>4. \A j \in 1 .. Len(s) : s[j].key = job.key /\ s[j].len = job.len /\ (s[j].do = "put" => s[j].rec # None)
      BY DEF Works
  <1>5. \A j \in 1 .. Len(t) : t[j].key = job.key /\ t[j].len = job.len /\ (t[j].do = "put" => t[j].rec # None)
    <2>1. ASSUME NEW j \in 1 .. n PROVE t[j] = Evict(job.len, job.key)
        BY <1>1, <1>2
    <2>2. ASSUME NEW j \in n + 1 .. Len(t) PROVE j - n + 1 \in 1 .. Len(s) /\ t[j] = s[j - n + 1]
        BY <1>1, <1>2
    <2>3. \A j \in 1 .. Len(t) : j \in 1 .. n \/ j \in n + 1 .. Len(t)
        BY <1>1, <1>2
    <2> HIDE DEF s, n
    <2> QED BY <1>3, <1>4, <2>1, <2>2, <2>3
  <1>6. CASE Len(s) = 3
    <2>1. s[1].do \in {"replace", "evict"} /\ s[2].do = "put" /\ s[3].do = "saved"
        BY <1>6 DEF Works
    <2>2. job.key \notin filed'
        BY <1>1, <2>1 DEF Works
    <2>3. CASE n = 0
      <3>1. Len(t) = 2 /\ t[1] = s[2] /\ t[2] = s[3]
          BY <1>2, <1>6, <2>3
      <3> QED BY <1>0, <1>5, <2>1, <2>2, <3>1 DEF Works
    <2>4. CASE n = 1
      <3>1. Len(t) = 3 /\ t[1] = more[1] /\ t[2] = s[2] /\ t[3] = s[3]
          BY <1>2, <1>6, <2>4
      <3> QED BY <1>0, <1>1, <1>3, <1>5, <2>1, <2>2, <2>4, <3>1 DEF Works
    <2> QED BY <1>1, <2>3, <2>4
  <1>7. CASE Len(s) = 2
    <2>1. s[1].do = "put" /\ s[2].do = "saved"
        BY <1>7 DEF Works
    <2>2. job.key \notin filed' /\ Whole(job.len, job.key)'
        BY <1>1, <2>1 DEF Works, Whole
    <2>3. n = 0
        BY <1>1, <2>1
    <2>4. Len(t) = 1 /\ t[1] = s[2]
        BY <1>2, <1>7, <2>3
    <2> QED BY <1>0, <1>5, <2>1, <2>2, <2>4 DEF Works
  <1>8. CASE Len(s) = 1
    <2>1. n = 0
        BY <1>1, <1>8 DEF Works
    <2>2. Len(t) = 0
        BY <1>2, <1>8, <2>1
    <2> QED BY <1>0, <1>2, <2>2, EmptySeq
  <1>9. Len(s) \in {1, 2, 3}
      BY DEF Works
  <1> QED BY <1>6, <1>7, <1>8, <1>9

\* Nothing is lost with a bag that was found empty.
LEMMA EmptyBagsGo ==
    ASSUME Base, NEW p \in Processes, UnlinkBag(p), Emptied(p)
    PROVE  \A n \in Lengths, k \in Keys : entry'[n][k] = entry[n][k]
  <1>1. ASSUME NEW n \in Lengths, NEW k \in Keys, n # 0, Bag(n, k) = Mine(p)
        PROVE  entry[n][k] = None
    <2>1. n = Head(plan[p]).len /\ at[p] = "emptied"
        BY <1>1 DEF Bag, Mine, UnlinkBag, First
    <2> QED BY <1>1, <2>1 DEF Emptied
  <1> QED BY <1>1, UnlinkingKeepsDisk

\* The job that p is at.
LEMMA OwnJob ==
    ASSUME SharingOK, NEW p \in Processes, plan[p] # <<>>
    PROVE  \E job \in program.run.jobs[p] :
             Works(p, job) /\ job.len \in Lengths /\ job.key \in Keys
  BY JobsShare DEF SharingOK, WorksOnOwn

\* The entry of the job is written, or is taken away.
LEMMA FileIsLocal ==
    ASSUME DiskOK, NEW p \in Processes, NEW job, job.len \in Lengths, job.key \in Keys, NEW r,
           File(job.len, job.key, r),
           \/ r = None \/ job.len = 0
           \/ Inside(p) /\ Mine(p) = Bag(job.len, job.key)
    PROVE  Local(p, job) /\ entry'[job.len][job.key] = r
  BY DEF DiskOK, File, Local

LEMMA UnchangedIsLocal ==
    ASSUME NEW p, NEW job, entry' = entry
    PROVE  Local(p, job)
  BY DEF Local

LEMMA LeavingIsEmptied ==
    ASSUME NEW p \in Processes, at'[p] # "emptied"
    PROVE  Emptied(p)'
  BY DEF Emptied

\* Steps that leave the disk as it is, carry out an instruction, and return.
LEMMA SharingReads ==
    ASSUME SharingOK, NEW p \in Processes, plan[p] # <<>>,
           NEW job \in program.run.jobs[p], Works(p, job), job.len \in Lengths, job.key \in Keys,
           Replace(p) \/ Saved(p) \/ List(p) \/ Move(p) \/ Open(p) \/ Apply(p) \/ Rebag(p)
    PROVE  WithinJob(p, job)
  <1> DEFINE i == Head(plan[p])
  <1>1. /\ i.do \in {"replace", "evict", "put", "saved"} /\ i.key = job.key /\ i.len = job.len
        /\ i.do = "saved" => Len(plan[p]) = 1 /\ Whole(job.len, job.key)
        /\ Base /\ PlansOK
      BY OwnHead DEF SharingOK, Base
  <1>2. <<>> \in Seq(Instructions) /\ \A x \in Instructions : <<x>> \in Seq(Instructions)
                                    /\ Len(<<x>>) = 1 /\ <<x>>[1] = x
      OBVIOUS
  <1> HIDE DEF i
  <1>3. CASE Replace(p)
    <2> DEFINE e == Evict(job.len, job.key)
               more == IF Contains(i.len, i.key) THEN <<e>> ELSE <<>>
    <2>1. Continue(p, more) /\ entry' = entry /\ filed' = filed /\ i.do = "replace" /\ fd' = fd
        BY <1>1, <1>3 DEF Replace, files, locks, First, i
    <2>2. e \in Instructions
        BY InstructionsAre
    <2> HIDE DEF e
    <2>3. more \in Seq(Instructions) /\ (more = <<>> \/ (Len(more) = 1 /\ more[1] = e))
        BY <1>2, <2>2
    <2> HIDE DEF more
    <2>4. plan'[p] # <<>> => Works(p, job)'
        BY <1>1, <2>1, <2>3, OwnGoesOn DEF e, i
    <2>5. Leaves(p)
        BY <1>1, <2>1, ContinueLeaves
    <2> QED BY <2>1, <2>4, <2>5, UnchangedIsLocal, LeavingIsEmptied DEF WithinJob, Leaves
  <1>4. CASE Saved(p)
    <2>1. Continue(p, <<>>) /\ entry' = entry /\ filed' = filed \cup {job.key} /\ i.do = "saved"
          /\ fd' = fd
        BY <1>1, <1>4 DEF Saved, files, locks, First, i
    <2>2. plan'[p] # <<>> => Works(p, job)'
        BY <1>1, <1>2, <2>1, OwnGoesOn DEF i
    <2>3. Leaves(p)
        BY <1>1, <2>1, ContinueLeaves
    <2> QED BY <1>1, <2>1, <2>2, <2>3, UnchangedIsLocal, LeavingIsEmptied DEF WithinJob, Leaves
  <1> QED BY <1>1, <1>3, <1>4 DEF List, Move, Open, Apply, Rebag, First, i

\* An exception ends the job; what p wrote is at most its entry.
LEMMA SharingRaises ==
    ASSUME SharingOK, NEW p \in Processes, NEW job, NEW how, Raise(p, how), Local(p, job),
           filed' = filed
    PROVE  WithinJob(p, job)
  <1>1. Leaves(p)
      BY RaiseLeaves DEF SharingOK
  <1>2. plan'[p] = <<>>
      BY DEF Raise, SharingOK, Base, PlansOK
  <1> QED BY <1>1, <1>2, LeavingIsEmptied DEF WithinJob, Leaves

LEMMA SharingLocks ==
    ASSUME SharingOK, NEW p \in Processes, plan[p] # <<>>,
           NEW job \in program.run.jobs[p], Works(p, job),
           OpenLock(p) \/ Lock(p) \/ TimesOut(p)
    PROVE  WithinJob(p, job)
  <1>1. Base /\ PlansOK
      BY DEF SharingOK, Base
  <1>2. CASE TimesOut(p)
      BY <1>2, UnchangedIsLocal, SharingRaises DEF TimesOut, files
  <1>3. CASE OpenLock(p) \/ Lock(p)
    <2>1. /\ UNCHANGED <<plan, outcome, entry, filed>>
          /\ Goto(p, "opened") \/ Goto(p, "start") \/ Goto(p, "inside")
        BY <1>3 DEF OpenLock, Lock, files
    <2>2. at'[p] # "emptied" /\ \A q \in Processes : q # p => at'[q] = at[q]
        BY <1>1, <2>1 DEF PlansOK, Goto
    <2>3. Works(p, job)'
        BY <1>1, <2>1, OwnStays
    <2> QED BY <2>1, <2>2, <2>3, UnchangedIsLocal, LeavingIsEmptied DEF WithinJob
  <1> QED BY <1>2, <1>3

\* The process that writes in a bag is inside it.
LEMMA WritersAreInside ==
    ASSUME SharingOK, NEW p \in Processes, at[p] = "writing"
    PROVE  Inside(p) /\ plan[p] # <<>> /\ Head(plan[p]).do = "put"
  <1>1. plan[p] # <<>> /\ Head(plan[p]).do \in {"put", "rebag"} /\ Head(plan[p]).len # 0
      BY DEF SharingOK, Base, AtFits
  <1>2. Head(plan[p]).do = "put"
      BY <1>1, OwnJob, OwnHead DEF SharingOK
  <1> QED BY <1>1, <1>2 DEF Inside, Locks

\* What is left of a write that is cut short is at its entry.
LEMMA CutShortIsLocal ==
    ASSUME SharingOK, NEW p \in Processes, NEW job \in program.run.jobs[p], Works(p, job),
           job.len \in Lengths, job.key \in Keys, at[p] = "writing", CutShort(p), bags' = bags
    PROVE  Local(p, job)
  <1>1. Inside(p) /\ plan[p] # <<>>
      BY WritersAreInside
  <1>2. Head(plan[p]).len = job.len /\ Head(plan[p]).key = job.key
      BY <1>1, OwnHead DEF SharingOK
  <1>3. \A n \in Lengths, k \in Keys :
           <<n, k>> # <<job.len, job.key>> => entry'[n][k] = entry[n][k]
      BY <1>2, CutShortKeepsDisk DEF SharingOK
  <1>4. Mine(p) = Bag(job.len, job.key)
      BY <1>2 DEF Mine
  <1> QED BY <1>1, <1>3, <1>4 DEF Local

LEMMA SharingWrites ==
    ASSUME SharingOK, NEW p \in Processes, plan[p] # <<>>,
           NEW job \in program.run.jobs[p], Works(p, job), job.len \in Lengths, job.key \in Keys,
           \/ PutFile(p) \/ BeginPut(p) \/ RebagFile(p) \/ EndPut(p) \/ PutFails(p)
           \/ OpenFails(p)
    PROVE  WithinJob(p, job)
  <1> DEFINE i == Head(plan[p])
  <1>1. /\ i.do \in {"replace", "evict", "put", "saved"} /\ i.key = job.key /\ i.len = job.len
        /\ i.do = "put" => i.rec \in Records
        /\ Base /\ PlansOK /\ DiskOK
      BY OwnHead DEF SharingOK, Base
  <1>2. <<>> \in Seq(Instructions) /\ \A r \in Records : r \notin {None, Torn}
      BY BagsAssumption
  <1>3. Mine(p) = Bag(job.len, job.key)
      BY <1>1 DEF Mine
  <1> HIDE DEF i
  <1>4. ~RebagFile(p)
      BY <1>1 DEF RebagFile, First, i
  <1>5. ASSUME i.do = "put", Continue(p, <<>>), File(job.len, job.key, i.rec), filed' = filed,
               fd' = fd \/ Unlock(p), job.len = 0 \/ Inside(p)
        PROVE  WithinJob(p, job)
    <2>1. Local(p, job) /\ entry'[job.len][job.key] = i.rec
        BY <1>1, <1>3, <1>5, FileIsLocal
    <2>2. plan'[p] # <<>> => Works(p, job)'
        BY <1>1, <1>2, <1>5, <2>1, OwnGoesOn
    <2>3. Leaves(p)
        BY <1>1, <1>5, ContinueLeaves
    <2> QED BY <1>5, <2>1, <2>2, <2>3, LeavingIsEmptied DEF WithinJob, Leaves
  <1>6. CASE PutFile(p)
      BY <1>1, <1>5, <1>6 DEF PutFile, First, locks, i
  <1>7. CASE BeginPut(p)
    <2>1. Goto(p, "writing") /\ UNCHANGED <<entry, plan, outcome, filed>>
        BY <1>7 DEF BeginPut
    <2>2. at'[p] = "writing" /\ \A q \in Processes : q # p => at'[q] = at[q]
        BY <1>1, <2>1, GotoGoesOn
    <2>3. Works(p, job)'
        BY <1>1, <2>1, OwnStays
    <2> QED BY <2>1, <2>2, <2>3, UnchangedIsLocal, LeavingIsEmptied DEF WithinJob
  <1>8. CASE EndPut(p)
    <2>1. Inside(p) /\ i.do = "put"
        BY <1>8, WritersAreInside DEF EndPut, i
    <2>2. WritesIn(p, Mine(p))
        BY <1>1, <1>2, <1>8, <2>1 DEF WritesIn, EndPut, i
    <2>3. File(job.len, job.key, i.rec) /\ Continue(p, <<>>) /\ Unlock(p) /\ filed' = filed
        BY <1>1, <1>8, <2>2 DEF EndPut, i
    <2> QED BY <1>5, <2>1, <2>3
  <1>9. CASE PutFails(p)
    <2>1. at[p] = "writing" /\ CutShort(p) /\ Raise(p, "save error") /\ bags' = bags /\ filed' = filed
        BY <1>9 DEF PutFails
    <2> QED BY <2>1, CutShortIsLocal, SharingRaises
  <1>10. CASE OpenFails(p)
    <2>1. Raise(p, "os error") /\ entry' = entry /\ filed' = filed
        BY <1>1, <1>10 DEF OpenFails, files, i
    <2> QED BY <2>1, UnchangedIsLocal, SharingRaises
  <1> QED BY <1>4, <1>6, <1>7, <1>8, <1>9, <1>10

LEMMA SharingEvicts ==
    ASSUME SharingOK, NEW p \in Processes, plan[p] # <<>>,
           NEW job \in program.run.jobs[p], Works(p, job), job.len \in Lengths, job.key \in Keys,
           EvictFile(p) \/ NoBag(p) \/ Delete(p) \/ UnlinkBag(p) \/ UnlinkLock(p)
    PROVE  WithinJob(p, job)
  <1> DEFINE i == Head(plan[p])
  <1>1. /\ i.key = job.key /\ i.len = job.len /\ i.do = "evict"
        /\ Base /\ PlansOK /\ DiskOK /\ Emptied(p)
    <2>1. i.do = "evict"
        BY DEF EvictFile, NoBag, Delete, UnlinkBag, UnlinkLock, First
    <2> QED BY <2>1, OwnHead DEF SharingOK, Base
  <1>2. <<>> \in Seq(Instructions)
      OBVIOUS
  <1>3. Mine(p) = Bag(job.len, job.key)
      BY <1>1 DEF Mine
  <1> HIDE DEF i
  <1>4. ASSUME Continue(p, <<>>), Local(p, job), filed' = filed, fd' = fd \/ Unlock(p)
        PROVE  WithinJob(p, job)
    <2>1. plan'[p] # <<>> => Works(p, job)'
        BY <1>1, <1>2, <1>4, OwnGoesOn DEF i
    <2>2. Leaves(p)
        BY <1>1, <1>4, ContinueLeaves
    <2> QED BY <1>4, <2>1, <2>2, LeavingIsEmptied DEF WithinJob, Leaves
  <1>5. CASE EvictFile(p)
    <2>1. File(job.len, job.key, None) /\ Continue(p, <<>>) /\ fd' = fd /\ filed' = filed
        BY <1>1, <1>5 DEF EvictFile, locks, i
    <2> QED BY <1>1, <1>4, <2>1, FileIsLocal
  <1>6. CASE NoBag(p) \/ UnlinkLock(p)
      BY <1>4, <1>6, UnchangedIsLocal DEF NoBag, UnlinkLock, files
  <1>7. CASE Delete(p)
    <2>1. File(job.len, job.key, None) /\ filed' = filed
        BY <1>1, <1>7 DEF Delete, i
    <2>2. Local(p, job) /\ entry'[job.len][job.key] = None
        BY <1>1, <2>1, FileIsLocal
    <2>3. CASE Unlock(p) /\ Continue(p, <<>>)
        BY <1>4, <2>1, <2>2, <2>3
    <2>4. CASE KeysIn(Mine(p)) \subseteq {job.key} /\ Goto(p, "emptied")
               /\ UNCHANGED <<fd, plan, outcome>>
      <3>1. at'[p] = "emptied" /\ \A q \in Processes : q # p => at'[q] = at[q]
          BY <1>1, <2>4, GotoGoesOn
      <3>2. Works(p, job)'
          BY <1>1, <2>1, <2>4, OwnStays DEF i
      <3>3. ASSUME NEW k \in Keys, Bag(job.len, k) = Mine(p)
            PROVE  entry'[job.len][k] = None
        <4>1. CASE k = job.key
            BY <2>2, <4>1
        <4>2. CASE k # job.key
          <5>1. Mine(p)[1] = job.len
              BY <1>3 DEF Bag
          <5>2. entry[job.len][k] = None
              BY <2>4, <3>3, <4>2, <5>1 DEF KeysIn
          <5> QED BY <2>2, <4>2, <5>2 DEF Local
        <4> QED BY <4>1, <4>2
      <3>4. Emptied(p)'
          BY <1>1, <2>4, <3>3 DEF Emptied, Mine, Bag, i
      <3> QED BY <2>1, <2>2, <2>4, <3>1, <3>2, <3>4 DEF WithinJob
    <2> QED BY <1>1, <1>7, <2>3, <2>4 DEF Delete, i
  <1>8. CASE UnlinkBag(p)
    <2>1. at[p] = "emptied" /\ Goto(p, "gone") /\ outcome' = outcome /\ filed' = filed
        BY <1>8 DEF UnlinkBag, First
    <2>2. Local(p, job)
      <3>1. \A n \in Lengths, k \in Keys : entry'[n][k] = entry[n][k]
          BY <1>1, <1>8, EmptyBagsGo
      <3> QED BY <3>1 DEF Local
    <2>3. plan' = plan
      <3>1. ASSUME NEW q \in Processes PROVE ~WritesIn(q, Mine(p))
        <4>1. SUFFICES ASSUME WritesIn(q, Mine(p)) PROVE FALSE
            OBVIOUS
        <4>2. Inside(q) /\ at[q] = "writing" /\ Mine(q) = Mine(p)
            BY <4>1, WritersAreInside DEF WritesIn
        <4>3. Inside(p)
            BY <1>1, <2>1 DEF Base, AtFits, Inside
        <4>4. p = q
            BY <4>2, <4>3 DEF SharingOK, Sharing, LocksHold
        <4> QED BY <2>1, <4>2, <4>4
      <3>2. plan' = [q \in Processes |-> plan[q]]
          BY <1>8, <3>1 DEF UnlinkBag
      <3> QED BY <1>1, <3>2 DEF PlansOK
    <2>4. at'[p] = "gone" /\ \A q \in Processes : q # p => at'[q] = at[q]
        BY <1>1, <2>1 DEF PlansOK, Goto
    <2>5. Works(p, job)'
        BY <1>1, <2>1, <2>3, OwnStays DEF i
    <2> QED BY <2>1, <2>2, <2>3, <2>4, <2>5, LeavingIsEmptied DEF WithinJob
  <1> QED BY <1>5, <1>6, <1>7, <1>8

\* A step of a save or an eviction, whichever it is.
LEMMA SharingSteps ==
    ASSUME SharingOK, NEW p \in Processes, Step(p) \/ Crash(p)
    PROVE  \E job \in program.run.jobs[p] :
             /\ Works(p, job) /\ job.len \in Lengths /\ job.key \in Keys
             /\ WithinJob(p, job)
  <1>1. plan[p] # <<>>
    <2>1. Base
        BY DEF SharingOK
    <2>2. CASE Crash(p)
        BY <2>2 DEF Crash
    <2>3. CASE Step(p)
        BY <2>1, <2>3 DEF Step, Replace, Saved, List, Move, Open, Apply, Rebag, OpenLock, Lock, TimesOut,
           PutFile, BeginPut, RebagFile, EndPut, PutFails, OpenFails, EvictFile, NoBag, Delete, UnlinkBag,
           UnlinkLock, First, Locks, Base, AtFits
    <2> QED BY <2>2, <2>3
  <1>2. PICK job \in program.run.jobs[p] :
             Works(p, job) /\ job.len \in Lengths /\ job.key \in Keys
      BY <1>1, OwnJob
  <1>3. CASE Step(p)
    <2>1. \/ Replace(p) \/ Saved(p) \/ List(p) \/ Move(p) \/ Open(p) \/ Apply(p) \/ Rebag(p)
          \/ OpenLock(p) \/ Lock(p) \/ TimesOut(p)
          \/ PutFile(p) \/ BeginPut(p) \/ RebagFile(p) \/ EndPut(p) \/ PutFails(p)
          \/ OpenFails(p)
          \/ EvictFile(p) \/ NoBag(p) \/ Delete(p) \/ UnlinkBag(p) \/ UnlinkLock(p)
        BY <1>3 DEF Step
    <2>2. WithinJob(p, job)
        BY <1>1, <1>2, <2>1, SharingReads, SharingLocks, SharingWrites, SharingEvicts
    <2> QED BY <1>2, <2>2
  <1>4. CASE Crash(p)
    <2>1. Raise(p, "crashed") /\ bags' = bags /\ filed' = filed
        BY <1>4 DEF Crash
    <2>2. Local(p, job)
      <3>1. CASE at[p] = "writing"
          BY <1>2, <1>4, <2>1, <3>1, CutShortIsLocal DEF Crash
      <3>2. CASE at[p] # "writing"
          BY <1>4, <3>2, UnchangedIsLocal DEF Crash
      <3> QED BY <3>1, <3>2
    <2> QED BY <1>2, <2>1, <2>2, SharingRaises
  <1> QED BY <1>3, <1>4

LEMMA SharingBegins ==
    ASSUME SharingOK, NEW p \in Processes, Begin(p)
    PROVE  \E job \in program.run.jobs[p] :
             /\ filed' = filed \ {job.key} /\ Works(p, job)'
             /\ entry' = entry /\ at' = at /\ at[p] = "start"
             /\ \A q \in Processes : q # p => plan'[q] = plan[q]
  <1>1. PICK job \in program.run.jobs[p] :
            plan' = [plan EXCEPT ![p] = Planned(job)] /\ filed' = filed \ {job.key}
      BY DEF Begin
  <1>2. job.do \in {"save", "evict"} /\ job.len \in Lengths /\ job.key \in Keys
      BY JobsShare DEF SharingOK
  <1>3. entry' = entry /\ at' = at /\ at[p] = "start" /\ plan'[p] = Planned(job)
        /\ \A q \in Processes : q # p => plan'[q] = plan[q]
      BY <1>1 DEF Begin, files, SharingOK, Base, PlansOK
  <1>4. job.key \notin filed'
      BY <1>1
  <1>5. CASE job.do = "save"
    <2> DEFINE r == Record(job.key, 0)
               last == Do("saved", job.len, job.key, None)
    <2>1. r \in Records /\ last \in Instructions
        BY <1>2, InstructionsAre DEF Record, Records
    <2>2. Planned(job) = Saving(job.len, job.key, r) \o <<last>>
        BY <1>5 DEF Planned
    <2> HIDE DEF last, r
    <2>3. PICK t : t = Planned(job)
        OBVIOUS
    <2>4. /\ Len(t) = 3 /\ t[1] = Do("replace", job.len, job.key, None)
          /\ t[2] = Put(job.len, job.key, r) /\ t[3] = last
        BY <1>2, <2>1, <2>2, <2>3, SavesAre
    <2>5. /\ t[1].do = "replace" /\ t[2].do = "put" /\ t[3].do = "saved" /\ t[2].rec = r
          /\ t[1].key = job.key /\ t[2].key = job.key /\ t[3].key = job.key
          /\ t[1].len = job.len /\ t[2].len = job.len /\ t[3].len = job.len
        BY <2>4 DEF Do, Put, last
    <2>6. r # None
        BY <2>1, BagsAssumption
    <2>7. ASSUME NEW j \in 1 .. Len(t)
          PROVE  t[j].key = job.key /\ t[j].len = job.len /\ (t[j].do = "put" => t[j].rec # None)
      <3>1. j = 1 \/ j = 2 \/ j = 3
          BY <2>4
      <3> QED BY <2>5, <2>6, <3>1
    <2>8. Works(p, job)'
        BY <1>3, <1>4, <2>3, <2>4, <2>5, <2>7 DEF Works
    <2> QED BY <1>1, <1>3, <2>8
  <1>6. CASE job.do = "evict"
    <2> DEFINE e == Evict(job.len, job.key)
    <2>1. Planned(job) = <<e>>
        BY <1>6 DEF Planned
    <2>2. e.do = "evict" /\ e.key = job.key /\ e.len = job.len
        BY DEF Evict, Do
    <2> HIDE DEF e
    <2>3. PICK t : t = Planned(job) /\ t = <<e>>
        BY <2>1
    <2>4. Len(t) = 1 /\ t[1] = e
        BY <2>3
    <2>5. \A j \in 1 .. Len(t) :
             t[j].key = job.key /\ t[j].len = job.len /\ (t[j].do = "put" => t[j].rec # None)
        BY <2>2, <2>4
    <2>6. Works(p, job)'
        BY <1>3, <1>4, <2>2, <2>3, <2>4, <2>5 DEF Works
    <2> QED BY <1>1, <1>3, <2>6
  <1> QED BY <1>2, <1>5, <1>6

\* What another process has to do is not touched.
LEMMA OthersWork ==
    ASSUME NEW q, NEW job, Works(q, job), plan'[q] = plan[q], job.key \notin filed',
           entry'[job.len][job.key] = entry[job.len][job.key]
    PROVE  Works(q, job)'
  BY DEF Works, Whole

LEMMA StepKeepsSharing ==
    ASSUME Base, LocksHold, SharingInv, [Next]_vars
    PROVE  SharingInv'
  <1>1. CASE UNCHANGED vars
    <2>1. UNCHANGED <<entry, at, plan, program, filed>>
        BY <1>1 DEF vars, files, ghosts
    <2>2. Sharing' = Sharing
        BY <2>1 DEF Sharing, Calls, KeysAreOwned, Jobs
    <2>3. \A q, job : (Works(q, job) => Works(q, job)') /\ (Whole(job.len, job.key)' = Whole(job.len, job.key))
        BY <2>1 DEF Works, Whole
    <2>4. \A q \in Processes : (WorksOnOwn(q) => WorksOnOwn(q)') /\ (Emptied(q) => Emptied(q)')
        BY <2>1, <2>3 DEF WorksOnOwn, Emptied, Bag, Mine
    <2> QED BY <2>1, <2>2, <2>3, <2>4 DEF SharingInv
  <1>2. ASSUME NEW p \in Processes, Begin(p) \/ Step(p) \/ Crash(p), Sharing'
        PROVE  /\ \A q \in Processes : WorksOnOwn(q)' /\ Emptied(q)'
               /\ \A q \in Processes : \A other \in program'.run.jobs[q] :
                    other.key \in filed' => Whole(other.len, other.key)'
    <2>1. program' = program
        BY <1>2, StepFrame
    <2>2. Sharing
        BY <1>2, <2>1 DEF Sharing, Calls, KeysAreOwned, Jobs
    <2>3. SharingOK
        BY <2>2 DEF SharingOK, SharingInv
    <2>4. PICK job \in program.run.jobs[p] :
            \/ /\ filed' = filed \ {job.key} /\ Works(p, job)' /\ entry' = entry /\ Emptied(p)'
               /\ \A q \in Processes : q # p => plan'[q] = plan[q] /\ at'[q] = at[q]
            \/ Works(p, job) /\ WithinJob(p, job)
      <3>1. CASE Begin(p)
        <4>1. at'[p] # "emptied" => Emptied(p)'
            BY LeavingIsEmptied
        <4> QED BY <2>3, <3>1, <4>1, SharingBegins
      <3>2. CASE Step(p) \/ Crash(p)
          BY <2>3, <3>2, SharingSteps
      <3> QED BY <1>2, <3>1, <3>2
    <2>5. \A q \in Processes : q # p => plan'[q] = plan[q] /\ at'[q] = at[q]
        BY <2>4 DEF WithinJob
    <2>6. Local(p, job) /\ Emptied(p)'
        BY <2>4, UnchangedIsLocal DEF WithinJob
    <2>7. job.len \in Lengths /\ job.key \in Keys
          /\ \A q \in Processes : \A other \in program.run.jobs[q] :
                other.key = job.key => q = p /\ other.len = job.len
        BY <2>2, JobsShare
    <2>8. filed' \subseteq filed \cup {job.key}
        BY <2>4 DEF WithinJob
    <2>9. ASSUME NEW q \in Processes, NEW other \in program.run.jobs[q], other.key # job.key
          PROVE  entry'[other.len][other.key] = entry[other.len][other.key]
      <3>1. other.len \in Lengths /\ other.key \in Keys
          BY <2>2, JobsShare
      <3> QED BY <2>6, <2>9, <3>1 DEF Local
    <2>10. ASSUME NEW q \in Processes PROVE WorksOnOwn(q)'
      <3>1. CASE q = p
          BY <2>1, <2>4, <3>1 DEF WithinJob, WorksOnOwn
      <3>2. CASE q # p /\ plan[q] # <<>>
        <4>1. PICK other \in program.run.jobs[q] : Works(q, other)
            BY <2>3, <3>2, OwnJob
        <4>2. other.key # job.key
            BY <2>7, <3>2
        <4>3. other.key \notin filed'
            BY <2>8, <4>1, <4>2 DEF Works
        <4>4. Works(q, other)'
            BY <2>5, <2>9, <3>2, <4>1, <4>2, <4>3, OthersWork
        <4> QED BY <2>1, <4>4 DEF WorksOnOwn
      <3>3. CASE q # p /\ plan[q] = <<>>
          BY <2>5, <3>3 DEF WorksOnOwn
      <3> QED BY <3>1, <3>2, <3>3
    <2>11. ASSUME NEW q \in Processes PROVE Emptied(q)'
      <3>1. CASE q = p
          BY <2>6, <3>1
      <3>2. CASE q # p /\ at[q] # "emptied"
          BY <2>5, <3>2 DEF Emptied
      <3>3. CASE q # p /\ at[q] = "emptied"
        <4> DEFINE i == Head(plan[q])
        <4>1. plan'[q] = plan[q] /\ at'[q] = at[q] /\ Emptied(q)
            BY <2>3, <2>5, <3>3 DEF SharingOK
        <4>2. Inside(q) /\ i.len # 0 /\ Mine(q) = Bag(i.len, i.key) /\ i.len \in Lengths
          <5>1. Locks(q)
              BY <3>3 DEF Base, AtFits
          <5>2. i \in Instructions
              BY <5>1, HeadFits DEF Locks, Base
          <5> QED BY <3>3, <5>1, <5>2, InstructionsFit DEF Inside, Locks, Mine
        <4>3. ASSUME NEW k \in Keys, Bag(i.len, k) = Mine(q)
              PROVE  entry'[i.len][k] = None
          <5>1. entry[i.len][k] = None
              BY <3>3, <4>1, <4>3 DEF Emptied
          <5>2. CASE i.len = job.len /\ k = job.key
            <6>1. ~(Inside(p) /\ Mine(p) = Bag(job.len, job.key))
                BY <2>2, <3>3, <4>2, <4>3, <5>2 DEF LocksHold, Sharing
            <6> QED BY <2>6, <4>2, <5>1, <5>2, <6>1 DEF Local
          <5>3. CASE ~(i.len = job.len /\ k = job.key)
              BY <2>6, <4>2, <5>1, <5>3 DEF Local
          <5> QED BY <5>2, <5>3
        <4> QED BY <4>1, <4>3 DEF Emptied, Mine, Bag
      <3> QED BY <3>1, <3>2, <3>3
    <2>12. ASSUME NEW q \in Processes, NEW other \in program.run.jobs[q], other.key \in filed'
           PROVE  Whole(other.len, other.key)'
      <3>1. CASE other.key # job.key
        <4>1. Whole(other.len, other.key)
            BY <2>3, <2>8, <2>12, <3>1 DEF SharingOK
        <4> QED BY <2>9, <3>1, <4>1 DEF Whole
      <3>2. CASE other.key = job.key
        <4>1. other.len = job.len
            BY <2>7, <3>2
        <4>2. Works(p, job) /\ WithinJob(p, job)
            BY <2>4, <2>12, <3>2
        <4>3. Whole(job.len, job.key) /\ entry' = entry
            BY <2>12, <3>2, <4>2 DEF WithinJob, Works
        <4> QED BY <3>2, <4>1, <4>3 DEF Whole
      <3> QED BY <3>1, <3>2
    <2> QED BY <2>1, <2>10, <2>11, <2>12
  <1> QED BY <1>1, <1>2 DEF Next, SharingInv

\* Processes that save and evict entries of one bag, each its own, do not take each other's
\* away: an entry whose save returned is there, whole, until its process saves it again or
\* evicts it, through timeouts, failed writes and crashes of the others, with a filelock
\* that checks the inode it has locked (storage/bagofholding_file.py, _lock and _evict).
THEOREM SavedEntriesStay == Spec => []EntriesStay
  <1> DEFINE IInv == Base /\ LocksHold /\ SharingInv
  <1>1. Init => IInv
    <2> SUFFICES ASSUME Init PROVE IInv
        OBVIOUS
    <2>1. Base
        BY InitBase
    <2>2. /\ plan = [p \in Processes |-> <<>>] /\ at = [p \in Processes |-> "start"] /\ filed = {}
        BY DEF Init
    <2>3. LocksHold
        BY <2>2 DEF LocksHold, Inside, Locks
    <2>4. SharingInv
        BY <2>2 DEF SharingInv, WorksOnOwn, Emptied
    <2> QED BY <2>1, <2>3, <2>4
  <1>2. IInv /\ [Next]_vars => IInv'
      BY StepKeepsBase, StepKeepsLocks, StepKeepsSharing
  <1>3. IInv => EntriesStay
      BY DEF EntriesStay, SharingInv, Sharing, Jobs
  <1> QED BY <1>1, <1>2, <1>3, PTL DEF Spec

-----------------------------------------------------------------------------
(* A transform that nothing disturbs.                                       *)

Transforming == Calls({"transform"}) /\ OneStorage /\ Renames

\* The storage that is transformed, and its records.
Here == (CHOOSE job \in Jobs : TRUE).len
Old == program.run.filed[Here]
To(k) == program.run.image[k]
At(k) == entry[Here][k]
Foot(k) == {k, To(k)}

\* What has become of a record.
Untouched(k) == At(k) = Record(k, 0) /\ (To(k) # k => At(To(k)) = None)
Copied(k)    == To(k) # k /\ At(k) = Record(k, 0) /\ At(To(k)) = Record(k, 1)
Applied(k)   == At(To(k)) = Record(k, 1) /\ (To(k) # k => At(k) = None)
Removed(k)   == To(k) = k /\ At(k) = None

\* The instructions s take up the records that are left, each once; those in C are under
\* way, the others are through.
KeysOf(s) == {s[i].key : i \in 1 .. Len(s)}

Queued(s, C) ==
    /\ \A i \in 1 .. Len(s) : s[i].do = "apply" /\ s[i].len = Here /\ s[i].key \in Old \ C
    /\ \A i, j \in 1 .. Len(s) : s[i].key = s[j].key => i = j
Split(s, C) == \A k \in Old \ C : IF k \in KeysOf(s) THEN Untouched(k) ELSE Applied(k)
Clean == \A k \in Keys : (\A j \in Old : k \notin Foot(j)) => At(k) = None

Going(s, C) == s \in Seq(Instructions) /\ Queued(s, C) /\ Split(s, C) /\ Clean

\* How far p is with the record of c, before it goes on with s.
Then(x, s)   == <<x>> \o s
Replacing(c) == Do("replace", Here, To(c), None)
Putting(c)   == Put(Here, To(c), Record(c, 1))
Evicting(c)  == Evict(Here, c)
Dropping(c, s) == IF To(c) = c THEN s ELSE Then(Evicting(c), s)
Deleted(p)   == at[p] \in {"emptied", "gone"}

Replaces(p, c, s) ==
    plan[p] = Then(Replacing(c), Then(Putting(c), Dropping(c, s))) /\ Untouched(c)
Clears(p, c, s) ==
    /\ To(c) = c /\ plan[p] = Then(Evicting(c), Then(Putting(c), s))
    /\ IF Deleted(p) THEN Removed(c) ELSE Untouched(c)
Puts(p, c, s) ==
    /\ plan[p] = Then(Putting(c), Dropping(c, s))
    /\ IF To(c) = c THEN Removed(c) ELSE Untouched(c)
Drops(p, c, s) ==
    /\ To(c) # c /\ plan[p] = Then(Evicting(c), s)
    /\ IF Deleted(p) THEN Applied(c) ELSE Copied(c)

Rewriting(p, c, s) ==
    Replaces(p, c, s) \/ Clears(p, c, s) \/ Puts(p, c, s) \/ Drops(p, c, s)

Progress(p) ==
    \/ Going(plan[p], {})
    \/ \E c \in Old, s \in Seq(Instructions) : Going(s, {c}) /\ Rewriting(p, c, s)

Alone(p) == \A q \in Processes \ {p} : outcome[q] = "none"

AsFiled ==
    /\ \A p \in Processes : outcome[p] = "none"
    /\ \A n \in Lengths, k \in Keys :
         entry[n][k] = IF k \in program.run.filed[n] THEN Record(k, 0) ELSE None

Undisturbed == Transforming /\ jobs <= 1 /\ ~damaged

TransformInv ==
    /\ jobs \in Nat
    /\ Undisturbed =>
         /\ broken = {} /\ \A p \in Processes : Emptied(p)
         /\ jobs = 0 => AsFiled
         /\ jobs = 1 => Jobs # {} /\ \E p \in Processes :
              Alone(p) /\ (outcome[p] \in {"busy", "done"} => Progress(p))

\* In order, each number of the set has one place, and none has two.
LEMMA RanksDiffer ==
    ASSUME NEW S, IsFiniteSet(S), S \subseteq Nat
    PROVE  /\ \A k \in S : Cardinality({j \in S : j < k}) \in 0 .. Cardinality(S) - 1
           /\ \A j, k \in S : Cardinality({i \in S : i < j}) = Cardinality({i \in S : i < k}) => j = k
  <1> DEFINE Below(k) == {j \in S : j < k}
             n == Cardinality(S)
  <1>1. n \in Nat
      BY FS_CardinalityType
  <1>2. ASSUME NEW k \in S
        PROVE  IsFiniteSet(Below(k)) /\ Cardinality(Below(k)) \in 0 .. n - 1
    <2>1. IsFiniteSet(S \ {k}) /\ Cardinality(S \ {k}) = n - 1
        BY FS_RemoveElement
    <2>2. Below(k) \in SUBSET (S \ {k})
        OBVIOUS
    <2>3. IsFiniteSet(Below(k)) /\ Cardinality(Below(k)) <= n - 1
        BY <2>1, <2>2, FS_Subset
    <2>4. Cardinality(Below(k)) \in Nat
        BY <2>3, FS_CardinalityType
    <2> QED BY <2>3, <2>4, <1>1
  <1>3. ASSUME NEW j \in S, NEW k \in S, j < k
        PROVE  Cardinality(Below(j)) # Cardinality(Below(k))
    <2>1. Below(j) \in SUBSET Below(k)
      <3>1. \A x \in S : x \in Nat /\ j \in Nat /\ k \in Nat
          OBVIOUS
      <3>2. \A x \in S : x < j => x < k
          BY <1>3, <3>1
      <3> QED BY <3>2
    <2>2. j \in Below(k) /\ j \notin Below(j)
        BY <1>3
    <2> QED BY <1>2, <2>1, <2>2, FS_Subset
  <1>4. ASSUME NEW j \in S, NEW k \in S, Cardinality(Below(j)) = Cardinality(Below(k))
        PROVE  j = k
    <2>1. j < k \/ k < j \/ j = k
        OBVIOUS
    <2> QED BY <1>3, <1>4, <2>1
  <1> QED BY <1>2, <1>4

\* The instructions of a sequence take up every key of a set, each once.
TakesEach(s, S, what, n) ==
    /\ \A j \in 1 .. Len(s) : s[j].do = what /\ s[j].len = n /\ s[j].key \in S
    /\ \A i, j \in 1 .. Len(s) : s[i].key = s[j].key => i = j
    /\ \A k \in S : \E j \in 1 .. Len(s) : s[j].key = k

LEMMA AppliesInOrder ==
    ASSUME NEW S, IsFiniteSet(S), S \subseteq Keys, NEW n \in Lengths,
           NEW what \in {"apply", "rebag"}
    PROVE  TakesEach(InOrder(S, LAMBDA k : Do(what, n, k, None)), S, what, n)
  <1> DEFINE Rank(k) == Cardinality({j \in S : j < k})
             nth(i) == CHOOSE k \in S : Rank(k) = i - 1
             s == [i \in 1 .. Cardinality(S) |-> Do(what, n, nth(i), None)]
  <1>1. Cardinality(S) \in Nat /\ S \subseteq Nat
      BY FS_CardinalityType, BagsAssumption
  <1>2. \A i \in 1 .. Cardinality(S) : \E k \in S : Rank(k) = i - 1
      BY <1>1, RanksAreTaken
  <1>3. /\ \A k \in S : Rank(k) \in 0 .. Cardinality(S) - 1
        /\ \A j, k \in S : Rank(j) = Rank(k) => j = k
      BY <1>1, RanksDiffer
  <1> HIDE DEF Rank
  <1>4. \A i \in 1 .. Cardinality(S) : nth(i) \in S /\ Rank(nth(i)) = i - 1
      BY <1>2
  <1> HIDE DEF nth
  <1>5. \A k \in S : Rank(k) + 1 \in 1 .. Cardinality(S) /\ nth(Rank(k) + 1) = k
    <2> SUFFICES ASSUME NEW k \in S
                 PROVE  Rank(k) + 1 \in 1 .. Cardinality(S) /\ nth(Rank(k) + 1) = k
        OBVIOUS
    <2>1. PICK i \in 1 .. Cardinality(S) : i = Rank(k) + 1 /\ i - 1 = Rank(k)
        BY <1>1, <1>3
    <2>2. nth(i) \in S /\ Rank(nth(i)) = Rank(k)
        BY <1>4, <2>1
    <2>3. nth(i) = k
        BY <1>3, <2>2
    <2> QED BY <2>1, <2>3
  <1>6. \A i, j \in 1 .. Cardinality(S) : nth(i) = nth(j) => i = j
    <2> SUFFICES ASSUME NEW i \in 1 .. Cardinality(S), NEW j \in 1 .. Cardinality(S), nth(i) = nth(j)
                 PROVE  i = j
        OBVIOUS
    <2>1. i - 1 = j - 1
        BY <1>4
    <2> QED BY <1>1, <2>1
  <1>7. Len(s) = Cardinality(S)
      BY <1>1
  <1>8. \A i \in 1 .. Cardinality(S) :
            s[i].do = what /\ s[i].len = n /\ s[i].key = nth(i)
      BY DEF Do
  <1>9. InOrder(S, LAMBDA k : Do(what, n, k, None)) = s
      BY DEF InOrder, nth, Rank
  <1> HIDE DEF s
  <1>10. \A k \in S : \E j \in 1 .. Len(s) : s[j].key = k
      BY <1>5, <1>7, <1>8
  <1>11. \A i, j \in 1 .. Len(s) : s[i].key = s[j].key => i = j
      BY <1>6, <1>7, <1>8
  <1>12. \A j \in 1 .. Len(s) : s[j].do = what /\ s[j].len = n /\ s[j].key \in S
      BY <1>1, <1>4, <1>7, <1>8
  <1>13. TakesEach(s, S, what, n)
      BY <1>10, <1>11, <1>12 DEF TakesEach
  <1> QED BY <1>9, <1>13

-----------------------------------------------------------------------------
LEMMA ProgramStays ==
    ASSUME program' = program
    PROVE  /\ Here' = Here /\ Old' = Old /\ \A k : To(k)' = To(k) /\ Foot(k)' = Foot(k)
           /\ Transforming' = Transforming
  BY DEF Here, Old, To, Foot, Jobs, Transforming, Calls, OneStorage, Renames

\* There is something to be transformed.
LEMMA HereIs ==
    ASSUME Base, Transforming, Jobs # {}
    PROVE  /\ Here \in Lengths /\ Old \subseteq Keys
           /\ \A job \in Jobs : job.len = Here /\ job.do = "transform"
           /\ \A k \in Keys : To(k) \in Keys
           /\ \A j, k \in Old : To(j) \in Foot(k) => j = k
  <1>1. PICK job \in Jobs : TRUE
      OBVIOUS
  <1>2. \A i \in Jobs : i.len = Here /\ i.do = "transform"
      BY <1>1 DEF Transforming, OneStorage, Calls, Here
  <1>3. job \in AnyJob
      BY <1>1, ProgramsAssumption DEF Base, Jobs
  <1>4. job.len \in Lengths
      BY <1>1, <1>2, <1>3 DEF AnyJob
  <1>5. Here \in Lengths
      BY <1>1, <1>2, <1>4
  <1>6. Old \subseteq Keys /\ \A k \in Keys : To(k) \in Keys
      BY <1>5, ProgramsAssumption DEF Base, Old, To
  <1>7. \A j, k \in program.run.filed[job.len] :
           program.run.image[j] \in {k, program.run.image[k]} => j = k
      BY <1>1 DEF Transforming, Renames
  <1>8. \A j, k \in Old : To(j) \in Foot(k) => j = k
      BY <1>1, <1>2, <1>7 DEF Old, Foot, To
  <1> QED BY <1>2, <1>5, <1>6, <1>8

\* What a step of the transforming process p may rely on.
AtWork(p) ==
    /\ Base /\ Transforming /\ Jobs # {} /\ broken = {} /\ Emptied(p) /\ Alone(p)
    /\ plan[p] # <<>> /\ Progress(p)

\* Nobody else is at a bag; who is not writing finds all that is there.
LEMMA AloneReads ==
    ASSUME NEW p \in Processes, AtWork(p)
    PROVE  /\ \A q \in Processes \ {p} : plan[q] = <<>> /\ at[q] = "start"
           /\ at[p] # "writing" => \A n \in Lengths, k \in Keys :
                 /\ Contains(n, k) <=> entry[n][k] # None
                 /\ entry[n][k] # None /\ n # 0 => Opens(Bag(n, k))
  <1>1. \A q \in Processes \ {p} : plan[q] = <<>> /\ at[q] = "start"
      BY DEF AtWork, Alone, Base, PlansOK
  <1>2. ASSUME at[p] # "writing", NEW n \in Lengths, NEW k \in Keys
        PROVE  /\ Contains(n, k) <=> entry[n][k] # None
               /\ entry[n][k] # None /\ n # 0 => Opens(Bag(n, k))
    <2>1. ~Writing(Bag(n, k))
        BY <1>1, <1>2 DEF Writing, WritesIn
    <2>2. n # 0 /\ entry[n][k] # None => Bag(n, k) \in bags
        BY DEF AtWork, Base, DiskOK
    <2> QED BY <2>1, <2>2 DEF AtWork, Contains, Opens
  <1> QED BY <1>1, <1>2

\* The footprints of two records do not meet.
LEMMA FeetApart ==
    ASSUME Base, Transforming, Jobs # {}, NEW j \in Old, NEW k \in Old, j # k
    PROVE  Foot(j) \cap Foot(k) = {} /\ Foot(j) \subseteq Keys
  <1>1. /\ To(j) \notin {k, To(k)} /\ To(k) \notin {j, To(j)}
        /\ j \in Keys /\ To(j) \in Keys
      BY HereIs DEF Foot
  <1> QED BY <1>1 DEF Foot

\* Of the records, a step changes that of c only.
OnlyFoot(c) == \A k \in Keys \ Foot(c) : entry'[Here][k] = entry[Here][k]

\* What becomes of a record depends on its footprint only.
LEMMA OthersStay ==
    ASSUME Base, Transforming, Jobs # {}, program' = program, NEW c \in Old,
           OnlyFoot(c)
    PROVE  /\ \A k \in Old \ {c} : /\ Untouched(k) => Untouched(k)'
                                   /\ Applied(k) => Applied(k)'
           /\ Clean => Clean'
  <1>1. Here' = Here /\ Old' = Old /\ \A k : To(k)' = To(k) /\ Foot(k)' = Foot(k)
      BY ProgramStays
  <1>2. \A k \in Keys \ Foot(c) : At(k)' = At(k) /\ entry'[Here][k] = entry[Here][k]
      BY <1>1 DEF At, OnlyFoot
  <1>3. ASSUME NEW k \in Old \ {c}
        PROVE  At(k)' = At(k) /\ At(To(k))' = At(To(k))
    <2>1. Foot(k) \cap Foot(c) = {} /\ Foot(k) \subseteq Keys
        BY FeetApart
    <2>2. k \in Keys \ Foot(c) /\ To(k) \in Keys \ Foot(c)
        BY <2>1 DEF Foot
    <2>3. At(k)' = At(k) /\ entry'[Here][To(k)] = entry[Here][To(k)]
        BY <1>2, <2>2
    <2> QED BY <1>1, <2>3 DEF At
  <1>4. \A k \in Old \ {c} : (Untouched(k) => Untouched(k)') /\ (Applied(k) => Applied(k)')
      BY <1>1, <1>3 DEF Untouched, Applied
  <1>5. Clean => Clean'
      BY <1>1, <1>2 DEF Clean
  <1> QED BY <1>4, <1>5

LEMMA RecordsAreSome ==
    ASSUME NEW c \in Keys, NEW n \in Nat
    PROVE  Record(c, n) \in Records /\ Record(c, n) \notin {None, Torn}
           /\ Record(c, n).of = c /\ Record(c, n).times = n
  <1>1. Record(c, n) \in Records /\ Record(c, n).of = c /\ Record(c, n).times = n
      BY DEF Record, Records
  <1> QED BY <1>1, BagsAssumption

\* One plan before another.
Joined(s, t) == s \o t

LEMMA JoinsAgain ==
    ASSUME NEW I, NEW s \in Seq(I), NEW t \in Seq(I), NEW u \in Seq(I)
    PROVE  Joined(s, t) \in Seq(I) /\ Joined(Joined(s, t), u) = Joined(s, Joined(t, u))
  <1>1. Joined(s, t) \in Seq(I)
      BY ConcatProperties DEF Joined
  <1>2. Joined(Joined(s, t), u) = Joined(s, Joined(t, u))
      BY ConcatAssociative DEF Joined
  <1> QED BY <1>1, <1>2

LEMMA ThenIs ==
    ASSUME NEW x \in Instructions, NEW s \in Seq(Instructions)
    PROVE  /\ Then(x, s) \in Seq(Instructions) /\ Then(x, s) # <<>>
           /\ Head(Then(x, s)) = x /\ Tail(Then(x, s)) = s
  <1>1. <<x>> \in Seq(Instructions) /\ Len(<<x>>) = 1 /\ <<x>>[1] = x
      OBVIOUS
  <1>2. PICK a \in Seq(Instructions) : a = <<x>> /\ Len(a) = 1 /\ a[1] = x
      BY <1>1
  <1>3. PICK t : t = a \o s
      OBVIOUS
  <1>4. /\ t \in Seq(Instructions) /\ Len(t) = 1 + Len(s) /\ Len(s) \in Nat
        /\ t[1] = x /\ \A i \in 1 .. Len(s) : t[i + 1] = s[i]
    <2>1. /\ t \in Seq(Instructions) /\ Len(t) = Len(a) + Len(s)
          /\ \A i \in 1 .. Len(a) + Len(s) : t[i] = IF i <= Len(a) THEN a[i] ELSE s[i - Len(a)]
        BY <1>3, ConcatProperties
    <2>2. Len(s) \in Nat
        OBVIOUS
    <2> QED BY <1>2, <2>1, <2>2
  <1>5. t # <<>>
      BY <1>4
  <1>6. /\ Head(t) = t[1] /\ Tail(t) \in Seq(Instructions) /\ Len(Tail(t)) = Len(t) - 1
        /\ \A i \in 1 .. Len(Tail(t)) : Tail(t)[i] = t[i + 1]
      BY <1>4, <1>5, HeadTailProperties
  <1>7. Tail(t) = s
    <2>1. Len(Tail(t)) = Len(s) /\ \A i \in 1 .. Len(s) : Tail(t)[i] = s[i]
        BY <1>4, <1>6
    <2> QED BY <1>6, <2>1, SeqEqual
  <1> QED BY <1>2, <1>3, <1>4, <1>5, <1>6, <1>7 DEF Then

\* The first instruction is replaced by others.
LEMMA Continued ==
    ASSUME PlansOK, NEW p \in Processes, plan[p] # <<>>,
           NEW more \in Seq(Instructions), Continue(p, more)
    PROVE  plan'[p] = more \o Tail(plan[p]) /\ at'[p] = "start" /\ PlansOK'
  <1>1. PlansOK' /\ at'[p] = "start"
      BY ContinueGoesOn
  <1>2. plan'[p] = more \o Tail(plan[p])
      BY DEF Continue, PlansOK
  <1> QED BY <1>1, <1>2

\* It is carried out, and no other takes its place.
LEMMA CarriedOut ==
    ASSUME PlansOK, NEW p \in Processes, NEW x \in Instructions, NEW s \in Seq(Instructions),
           plan[p] = Then(x, s), Continue(p, <<>>)
    PROVE  plan'[p] = s /\ at'[p] = "start"
  <1>1. <<>> \in Seq(Instructions)
      OBVIOUS
  <1>2. plan[p] # <<>> /\ Tail(plan[p]) = s
      BY ThenIs
  <1>3. plan'[p] = <<>> \o s /\ at'[p] = "start"
      BY <1>1, <1>2, Continued
  <1>4. <<>> \o s = s
      BY ConcatEmptySeq
  <1> QED BY <1>3, <1>4

\* The instructions for the record of c.
LEMMA WorkIs ==
    ASSUME Base, Transforming, Jobs # {}, NEW c \in Old
    PROVE  /\ Replacing(c) \in Instructions /\ Putting(c) \in Instructions
           /\ Evicting(c) \in Instructions
           /\ \A s \in Seq(Instructions) : Dropping(c, s) \in Seq(Instructions)
           /\ Replacing(c).do = "replace" /\ Replacing(c).len = Here /\ Replacing(c).key = To(c)
           /\ Putting(c).do = "put" /\ Putting(c).len = Here /\ Putting(c).key = To(c)
           /\ Putting(c).rec = Record(c, 1)
           /\ Evicting(c).do = "evict" /\ Evicting(c).len = Here /\ Evicting(c).key = c
  <1>1. Here \in Lengths /\ c \in Keys /\ To(c) \in Keys /\ Record(c, 1) \in Records
      BY HereIs, RecordsAreSome
  <1>2. /\ Replacing(c) \in Instructions /\ Putting(c) \in Instructions
        /\ Evicting(c) \in Instructions
      BY <1>1, InstructionsAre DEF Replacing, Putting, Evicting
  <1>3. \A s \in Seq(Instructions) : Dropping(c, s) \in Seq(Instructions)
      BY <1>2, ThenIs DEF Dropping
  <1> QED BY <1>2, <1>3 DEF Replacing, Putting, Evicting, Put, Evict, Do

\* The record that is taken up next.
LEMMA TakesUp ==
    ASSUME PlansOK, NEW p \in Processes, plan[p] # <<>>, Going(plan[p], {})
    PROVE  LET c == Head(plan[p]).key IN
             /\ Head(plan[p]).do = "apply" /\ Head(plan[p]).len = Here
             /\ c \in Old /\ Untouched(c) /\ Going(Tail(plan[p]), {c})
  <1> DEFINE s == plan[p]
             t == Tail(s)
             c == s[1].key
  <1>1. /\ Head(s) = s[1] /\ s \in Seq(Instructions) /\ Len(s) \in Nat /\ Len(s) >= 1
        /\ t \in Seq(Instructions) /\ Len(t) = Len(s) - 1
        /\ \A i \in 1 .. Len(t) : t[i] = s[i + 1]
    <2>1. s \in Seq(Instructions)
        BY DEF PlansOK
    <2> QED BY <2>1, HeadFits, HeadTailProperties
  <1>2. \A i \in 1 .. Len(s) : s[i].do = "apply" /\ s[i].len = Here /\ s[i].key \in Old
      BY DEF Going, Queued
  <1>3. \A i, j \in 1 .. Len(s) : s[i].key = s[j].key => i = j
      BY DEF Going, Queued
  <1>4. Split(s, {}) /\ Clean
      BY DEF Going
  <1> HIDE DEF s, t
  <1>5. /\ 1 \in 1 .. Len(s)
        /\ \A i \in 1 .. Len(t) : i + 1 \in 1 .. Len(s) /\ i + 1 # 1
        /\ \A i \in 1 .. Len(s) : i = 1 \/ (i - 1 \in 1 .. Len(t) /\ i - 1 + 1 = i)
      BY <1>1
  <1>6. ASSUME NEW i \in 1 .. Len(t)
        PROVE  \E j \in 1 .. Len(s) : j = i + 1 /\ j # 1 /\ t[i] = s[j]
      BY <1>1, <1>5
  <1>7. ASSUME NEW i \in 1 .. Len(s), i # 1 PROVE \E j \in 1 .. Len(t) : t[j] = s[i]
      BY <1>1, <1>5, <1>7
  <1>8. KeysOf(s) = {c} \cup KeysOf(t) /\ c \notin KeysOf(t)
    <2>1. KeysOf(s) \subseteq {c} \cup KeysOf(t)
      <3>1. ASSUME NEW i \in 1 .. Len(s) PROVE s[i].key \in {c} \cup KeysOf(t)
          BY <1>7 DEF KeysOf
      <3> QED BY <3>1 DEF KeysOf
    <2>2. c \in KeysOf(s)
        BY <1>5 DEF KeysOf
    <2>3. ASSUME NEW i \in 1 .. Len(t) PROVE t[i].key \in KeysOf(s) /\ t[i].key # c
      <3>1. PICK j \in 1 .. Len(s) : j # 1 /\ t[i] = s[j]
          BY <1>6
      <3> QED BY <1>3, <1>5, <3>1 DEF KeysOf
    <2> QED BY <2>1, <2>2, <2>3 DEF KeysOf
  <1>9. Untouched(c) /\ c \in Old
      BY <1>2, <1>4, <1>5, <1>8 DEF Split
  <1>10. Queued(t, {c})
    <2>1. ASSUME NEW i \in 1 .. Len(t)
          PROVE  t[i].do = "apply" /\ t[i].len = Here /\ t[i].key \in Old \ {c}
      <3>1. PICK j \in 1 .. Len(s) : t[i] = s[j]
          BY <1>6
      <3>2. t[i].key \in KeysOf(t)
          BY DEF KeysOf
      <3> QED BY <1>2, <1>8, <3>1, <3>2
    <2>2. ASSUME NEW i \in 1 .. Len(t), NEW j \in 1 .. Len(t), t[i].key = t[j].key
          PROVE  i = j
      <3>1. PICK x \in 1 .. Len(s), y \in 1 .. Len(s) :
               x = i + 1 /\ y = j + 1 /\ t[i] = s[x] /\ t[j] = s[y]
          BY <1>6
      <3>2. x = y
          BY <1>3, <2>2, <3>1
      <3> QED BY <3>1, <3>2
    <2> QED BY <2>1, <2>2 DEF Queued
  <1>11. Split(t, {c})
      BY <1>4, <1>8 DEF Split
  <1> QED BY <1>1, <1>2, <1>4, <1>5, <1>9, <1>10, <1>11 DEF Going, s, t

\* The records that are left wait, while p is at that of c.
LEMMA GoesOn ==
    ASSUME Base, Transforming, Jobs # {}, program' = program, NEW c \in Old, NEW s,
           Going(s, {c}), OnlyFoot(c)
    PROVE  Going(s, {c})'
  <1>1. Here' = Here /\ Old' = Old
      BY ProgramStays
  <1>2. (\A k \in Old \ {c} : (Untouched(k) => Untouched(k)') /\ (Applied(k) => Applied(k)'))
        /\ (Clean => Clean')
      BY OthersStay
  <1>3. Queued(s, {c})'
      BY <1>1 DEF Going, Queued
  <1>4. Split(s, {c})'
      BY <1>1, <1>2 DEF Going, Split, KeysOf
  <1> QED BY <1>2, <1>3, <1>4 DEF Going

\* The record of c is done with.
LEMMA PutsDown ==
    ASSUME NEW c, NEW s, Going(s, {c})', Applied(c)'
    PROVE  Going(s, {})'
  <1>1. c \notin KeysOf(s)
      BY DEF KeysOf, Going, Queued
  <1>2. Queued(s, {})'
      BY DEF Going, Queued
  <1>3. \A k \in Old' : k = c \/ k \in Old' \ {c}
      OBVIOUS
  <1>4. \A k \in Old' \ {c} : IF k \in KeysOf(s) THEN Untouched(k)' ELSE Applied(k)'
      BY DEF Going, Split, KeysOf
  <1>5. Split(s, {})'
      BY <1>1, <1>3, <1>4 DEF Split, KeysOf
  <1> QED BY <1>2, <1>5 DEF Going

\* What the first instruction says of the record that p is at.
LEMMA WorkingOn ==
    ASSUME NEW p \in Processes, AtWork(p)
    PROVE  LET i == Head(plan[p]) IN
             /\ i.do \in {"apply", "replace", "put", "evict"} /\ i.len = Here
             /\ i.do = "apply" => Going(plan[p], {})
             /\ i.do # "apply" => \E c \in Old, s \in Seq(Instructions) :
                  /\ Going(s, {c}) /\ c \in Keys /\ To(c) \in Keys
                  /\ i.do = "replace" => Replaces(p, c, s) /\ i.key = To(c)
                  /\ i.do = "put" => Puts(p, c, s) /\ i.key = To(c) /\ i.rec = Record(c, 1)
                  /\ i.do = "evict" => (Clears(p, c, s) \/ Drops(p, c, s)) /\ i.key = c
  <1>1. Base /\ Transforming /\ Jobs # {} /\ PlansOK /\ plan[p] # <<>>
      BY DEF AtWork, Base
  <1>2. CASE Going(plan[p], {})
    <2>1. Head(plan[p]).do = "apply" /\ Head(plan[p]).len = Here
        BY <1>1, <1>2, TakesUp
    <2> QED BY <1>2, <2>1
  <1>3. ASSUME NEW c \in Old, NEW s \in Seq(Instructions), Rewriting(p, c, s)
        PROVE  LET i == Head(plan[p]) IN
             /\ i.do \in {"replace", "put", "evict"} /\ i.len = Here
             /\ i.do = "replace" => Replaces(p, c, s) /\ i.key = To(c)
             /\ i.do = "put" => Puts(p, c, s) /\ i.key = To(c) /\ i.rec = Record(c, 1)
             /\ i.do = "evict" => (Clears(p, c, s) \/ Drops(p, c, s)) /\ i.key = c
    <2>1. CASE Replaces(p, c, s)
      <3>1. Head(plan[p]) = Replacing(c)
          BY <1>1, <2>1, WorkIs, ThenIs DEF Replaces
      <3> QED BY <1>1, <2>1, <3>1, WorkIs
    <2>2. CASE Clears(p, c, s) \/ Drops(p, c, s)
      <3>1. plan[p] = Then(Evicting(c), Then(Putting(c), s)) \/ plan[p] = Then(Evicting(c), s)
          BY <2>2 DEF Clears, Drops
      <3>2. /\ Evicting(c) \in Instructions /\ Then(Putting(c), s) \in Seq(Instructions)
          BY <1>1, WorkIs, ThenIs
      <3>3. Head(plan[p]) = Evicting(c)
          BY <3>1, <3>2, ThenIs
      <3> QED BY <1>1, <2>2, <3>3, WorkIs
    <2>3. CASE Puts(p, c, s)
      <3>1. Head(plan[p]) = Putting(c)
          BY <1>1, <2>3, WorkIs, ThenIs DEF Puts
      <3> QED BY <1>1, <2>3, <3>1, WorkIs
    <2> QED BY <1>3, <2>1, <2>2, <2>3 DEF Rewriting
  <1>4. Going(plan[p], {})
        \/ \E c \in Old, s \in Seq(Instructions) : Going(s, {c}) /\ Rewriting(p, c, s)
      BY DEF AtWork, Progress
  <1>5. CASE \E c \in Old, s \in Seq(Instructions) : Going(s, {c}) /\ Rewriting(p, c, s)
    <2>1. PICK c \in Old, s \in Seq(Instructions) : Going(s, {c}) /\ Rewriting(p, c, s)
        BY <1>5
    <2>2. c \in Keys /\ To(c) \in Keys
        BY <1>1, HereIs
    <2> QED BY <1>3, <2>1, <2>2
  <1> QED BY <1>2, <1>4, <1>5

\* The step of p changes neither its plan nor the records.
LEMMA WorkStays ==
    ASSUME NEW p \in Processes, AtWork(p), program' = program, plan'[p] = plan[p],
           \A k \in Keys : entry'[Here][k] = entry[Here][k], Deleted(p)' <=> Deleted(p)
    PROVE  Progress(p)'
  <1>1. /\ Here' = Here /\ Old' = Old /\ \A k : To(k)' = To(k) /\ Foot(k)' = Foot(k)
        /\ Old \subseteq Keys /\ \A k \in Keys : To(k) \in Keys
      BY ProgramStays, HereIs DEF AtWork
  <1>2. \A k \in Keys : At(k)' = At(k) /\ At(To(k))' = At(To(k))
      BY <1>1 DEF At
  <1>3. \A k \in Old : /\ Untouched(k)' = Untouched(k) /\ Applied(k)' = Applied(k)
                       /\ Copied(k)' = Copied(k) /\ Removed(k)' = Removed(k)
      BY <1>1, <1>2 DEF Untouched, Applied, Copied, Removed
  <1>4. ASSUME NEW s, NEW C, Going(s, C) PROVE Going(s, C)'
    <2>1. Queued(s, C)'
        BY <1>1, <1>4 DEF Going, Queued
    <2>2. Split(s, C)'
        BY <1>1, <1>3, <1>4 DEF Going, Split, KeysOf
    <2>3. Clean'
        BY <1>1, <1>2, <1>4 DEF Going, Clean
    <2> QED BY <1>4, <2>1, <2>2, <2>3 DEF Going
  <1>5. ASSUME NEW c \in Old, NEW s, Rewriting(p, c, s) PROVE Rewriting(p, c, s)'
    <2>1. /\ Replacing(c)' = Replacing(c) /\ Putting(c)' = Putting(c)
          /\ Evicting(c)' = Evicting(c) /\ Dropping(c, s)' = Dropping(c, s) /\ To(c)' = To(c)
        BY <1>1 DEF Replacing, Putting, Evicting, Dropping
    <2> QED BY <1>3, <1>5, <2>1 DEF Rewriting, Replaces, Clears, Puts, Drops
  <1>6. PICK t : t = plan[p] /\ t = plan'[p]
      OBVIOUS
  <1>7. Going(t, {}) \/ \E c \in Old, s \in Seq(Instructions) : Going(s, {c}) /\ Rewriting(p, c, s)
      BY <1>6 DEF AtWork, Progress
  <1>8. CASE Going(t, {})
      BY <1>4, <1>6, <1>8 DEF Progress
  <1>9. CASE \E c \in Old, s \in Seq(Instructions) : Going(s, {c}) /\ Rewriting(p, c, s)
      BY <1>1, <1>4, <1>5, <1>9 DEF Progress
  <1> QED BY <1>7, <1>8, <1>9

\* The record of c has been taken up, or is gone on with, or is done with.
LEMMA WorkGoesOn ==
    ASSUME NEW p \in Processes, AtWork(p), program' = program, NEW c \in Old,
           NEW s \in Seq(Instructions), Going(s, {c}), OnlyFoot(c),
           Rewriting(p, c, s)' \/ (plan'[p] = s /\ Applied(c)')
    PROVE  Progress(p)'
  <1>1. Going(s, {c})' /\ c \in Old'
      BY GoesOn, ProgramStays DEF AtWork
  <1>2. CASE plan'[p] = s /\ Applied(c)'
      BY <1>1, <1>2, PutsDown DEF Progress
  <1>3. CASE Rewriting(p, c, s)'
      BY <1>1, <1>3 DEF Progress
  <1> QED BY <1>2, <1>3

\* Nothing of the program changes while p works.
LEMMA SameWork ==
    ASSUME NEW p \in Processes, AtWork(p), program' = program, NEW c \in Old
    PROVE  /\ Here' = Here /\ To(c)' = To(c) /\ c \in Keys /\ To(c) \in Keys
           /\ Replacing(c)' = Replacing(c) /\ Putting(c)' = Putting(c)
           /\ Evicting(c)' = Evicting(c) /\ \A s : Dropping(c, s)' = Dropping(c, s)
           /\ At(c)' = entry'[Here][c] /\ At(To(c))' = entry'[Here][To(c)]
           /\ entry' = entry => OnlyFoot(c) /\ At(c)' = At(c) /\ At(To(c))' = At(To(c))
                                /\ Untouched(c)' = Untouched(c)
           /\ Base /\ Transforming /\ Jobs # {} /\ PlansOK /\ plan[p] # <<>>
  <1>1. /\ Here' = Here /\ Old' = Old /\ To(c)' = To(c) /\ \A k : To(k)' = To(k)
        /\ Base /\ Transforming /\ Jobs # {} /\ PlansOK /\ plan[p] # <<>>
        /\ c \in Keys /\ To(c) \in Keys
      BY ProgramStays, HereIs DEF AtWork, Base
  <1>2. /\ Replacing(c)' = Replacing(c) /\ Putting(c)' = Putting(c)
        /\ Evicting(c)' = Evicting(c)
      BY <1>1 DEF Replacing, Putting, Evicting
  <1>3. \A s : Dropping(c, s)' = Dropping(c, s)
      BY <1>1, <1>2 DEF Dropping
  <1>4. At(c)' = entry'[Here][c] /\ At(To(c))' = entry'[Here][To(c)]
      BY <1>1 DEF At
  <1>5. entry' = entry => OnlyFoot(c) /\ At(c)' = At(c) /\ At(To(c))' = At(To(c))
                          /\ Untouched(c)' = Untouched(c)
      BY <1>1 DEF At, OnlyFoot, Untouched
  <1> QED BY <1>1, <1>2, <1>3, <1>4, <1>5

\* What apply leaves to be done.
LEMMA AppliesInPlan ==
    ASSUME Base, Transforming, Jobs # {}, NEW c \in Old, NEW s \in Seq(Instructions)
    PROVE  LET more == Saving(Here, To(c), Record(c, 1))
                       \o IF To(c) = c THEN <<>> ELSE <<Evicting(c)>>
           IN  /\ more \in Seq(Instructions)
               /\ more \o s = Then(Replacing(c), Then(Putting(c), Dropping(c, s)))
  <1>1. PICK a \in Instructions, b \in Instructions, e \in Instructions :
            a = Replacing(c) /\ b = Putting(c) /\ e = Evicting(c)
      BY WorkIs
  <1>2. PICK x \in Seq(Instructions), y \in Seq(Instructions), z \in Seq(Instructions) :
            x = <<a>> /\ y = <<b>> /\ z = IF To(c) = c THEN <<>> ELSE <<e>>
    <2>1. /\ <<a>> \in Seq(Instructions) /\ <<b>> \in Seq(Instructions)
          /\ <<e>> \in Seq(Instructions) /\ <<>> \in Seq(Instructions)
        OBVIOUS
    <2> QED BY <2>1
  <1>3. Saving(Here, To(c), Record(c, 1)) = x \o y
    <2>1. Saving(Here, To(c), Record(c, 1)) = <<a, b>>
        BY <1>1 DEF Saving, Replacing, Putting
    <2>2. <<a, b>> \in Seq(Instructions) /\ Len(<<a, b>>) = 2 /\ <<a, b>>[1] = a /\ <<a, b>>[2] = b
        OBVIOUS
    <2>3. Len(x) = 1 /\ x[1] = a /\ Len(y) = 1 /\ y[1] = b
        BY <1>2
    <2>4. x \o y \in Seq(Instructions) /\ Len(x \o y) = 2 /\ (x \o y)[1] = a /\ (x \o y)[2] = b
      <3>1. /\ x \o y \in Seq(Instructions) /\ Len(x \o y) = Len(x) + Len(y)
            /\ \A i \in 1 .. Len(x) + Len(y) : (x \o y)[i] =
                  IF i <= Len(x) THEN x[i] ELSE y[i - Len(x)]
          BY ConcatProperties
      <3>2. PICK t : t = x \o y
          OBVIOUS
      <3> QED BY <2>3, <3>1, <3>2
    <2>5. \A i \in 1 .. 2 : <<a, b>>[i] = (x \o y)[i]
      <3>1. \A i \in 1 .. 2 : i = 1 \/ i = 2
          OBVIOUS
      <3> QED BY <2>2, <2>4, <3>1
    <2>6. <<a, b>> = x \o y
        BY <2>2, <2>4, <2>5, SeqEqual
    <2> QED BY <2>1, <2>6
  <1>4. Joined(z, s) \in Seq(Instructions) /\ Joined(z, s) = Dropping(c, s)
    <2>1. z \o s \in Seq(Instructions)
        BY ConcatProperties
    <2>2. <<>> \o s = s
        BY ConcatEmptySeq
    <2> QED BY <1>1, <1>2, <2>1, <2>2 DEF Joined, Dropping, Then
  <1> DEFINE more == Joined(Joined(x, y), z)
  <1>5. more \in Seq(Instructions)
      BY JoinsAgain
  <1>6. Joined(more, s) = Joined(x, Joined(y, Joined(z, s)))
    <2>1. PICK v \in Seq(Instructions) : v = Joined(x, y)
        BY JoinsAgain
    <2>2. Joined(Joined(v, z), s) = Joined(v, Joined(z, s))
        BY JoinsAgain
    <2>3. PICK w \in Seq(Instructions) : w = Joined(z, s)
        BY <1>4
    <2>4. Joined(Joined(x, y), w) = Joined(x, Joined(y, w))
        BY JoinsAgain
    <2> QED BY <2>1, <2>2, <2>3, <2>4
  <1>7. Joined(more, s) = Then(Replacing(c), Then(Putting(c), Dropping(c, s)))
      BY <1>1, <1>2, <1>4, <1>6 DEF Then, Joined
  <1>8. Saving(Here, To(c), Record(c, 1)) \o (IF To(c) = c THEN <<>> ELSE <<Evicting(c)>>)
          = more
      BY <1>1, <1>2, <1>3 DEF Joined
  <1> HIDE DEF more
  <1> QED BY <1>5, <1>7, <1>8 DEF Joined

\* A record is read and is to be saved under its new key.
LEMMA ApplyWorks ==
    ASSUME NEW p \in Processes, AtWork(p), program' = program, Apply(p)
    PROVE  Progress(p)'
  <1> DEFINE i == Head(plan[p])
  <1>1. i.do = "apply" /\ Base /\ Transforming /\ Jobs # {} /\ PlansOK /\ plan[p] # <<>>
        /\ at[p] # "writing" /\ entry' = entry
      BY DEF Apply, First, AtWork, Base, files
  <1>2. Going(plan[p], {})
      BY <1>1, WorkingOn
  <1>3. PICK c \in Old, s \in Seq(Instructions) :
            /\ c = i.key /\ s = Tail(plan[p]) /\ i.len = Here
            /\ Untouched(c) /\ Going(s, {c})
      BY <1>1, <1>2, TakesUp DEF Going
  <1>4. At(c) = Record(c, 0) /\ c \in Keys /\ To(c) \in Keys /\ Here \in Lengths
      BY <1>1, <1>3, HereIs DEF Untouched
  <1>5. Readable(Here, c)
    <2>1. Contains(Here, c) <=> entry[Here][c] # None
        BY <1>1, <1>4, AloneReads
    <2> QED BY <1>4, <2>1, RecordsAreSome DEF Readable, At
  <1> DEFINE new == Record(At(c).of, At(c).times + 1)
             more(r) == Saving(Here, To(c), r) \o IF To(c) = c THEN <<>> ELSE <<Evicting(c)>>
  <1>6. new = Record(c, 1)
    <2>1. Record(c, 0).of = c /\ Record(c, 0).times + 1 = 1
        BY DEF Record
    <2> QED BY <1>4, <2>1
  <1>7. Continue(p, IF ~Readable(Here, c) THEN <<>> ELSE more(new))
      BY <1>3 DEF Apply, To, At, Evicting
  <1> HIDE DEF new
  <1>8. Continue(p, more(Record(c, 1)))
      BY <1>5, <1>6, <1>7
  <1>9. plan'[p] = Then(Replacing(c), Then(Putting(c), Dropping(c, s)))
    <2>1. /\ more(Record(c, 1)) \in Seq(Instructions)
          /\ more(Record(c, 1)) \o s = Then(Replacing(c), Then(Putting(c), Dropping(c, s)))
        BY <1>1, AppliesInPlan
    <2> HIDE DEF more
    <2>2. plan'[p] = more(Record(c, 1)) \o Tail(plan[p])
        BY <1>1, <1>8, <2>1, Continued
    <2> QED BY <1>3, <2>1, <2>2
  <1> HIDE DEF more, i
  <1>10. Replaces(p, c, s)'
    <2>1. Untouched(c)' /\ Replacing(c)' = Replacing(c) /\ Putting(c)' = Putting(c)
          /\ Dropping(c, s)' = Dropping(c, s)
        BY <1>1, <1>3, SameWork
    <2> QED BY <1>9, <2>1 DEF Replaces
  <1>11. OnlyFoot(c)
      BY <1>1, SameWork
  <1> QED BY <1>3, <1>10, <1>11, WorkGoesOn DEF Rewriting

\* What is filed under the new key is to be evicted first.
LEMMA ReplaceWorks ==
    ASSUME NEW p \in Processes, AtWork(p), program' = program, Replace(p)
    PROVE  Progress(p)'
  <1> DEFINE i == Head(plan[p])
  <1>1. i.do = "replace" /\ entry' = entry /\ at[p] # "writing"
      BY DEF Replace, First, files
  <1>2. PICK c \in Old, s \in Seq(Instructions) :
            Going(s, {c}) /\ Replaces(p, c, s) /\ i.key = To(c) /\ i.len = Here
      BY <1>1, WorkingOn
  <1>3. /\ Base /\ Transforming /\ Jobs # {} /\ PlansOK /\ plan[p] # <<>>
        /\ c \in Keys /\ To(c) \in Keys /\ Here \in Lengths
        /\ To(c)' = To(c) /\ Putting(c)' = Putting(c) /\ Evicting(c)' = Evicting(c)
        /\ Dropping(c, s)' = Dropping(c, s) /\ OnlyFoot(c)
        /\ Untouched(c) /\ Untouched(c)'
      BY <1>1, <1>2, SameWork, HereIs DEF Replaces
  <1>4. PICK r \in Seq(Instructions), e \in Instructions :
            r = Then(Putting(c), Dropping(c, s)) /\ e = Evicting(c)
      BY <1>3, WorkIs, ThenIs
  <1>5. plan[p] = Then(Replacing(c), r) /\ Replacing(c) \in Instructions
      BY <1>2, <1>3, <1>4, WorkIs DEF Replaces
  <1>6. Tail(plan[p]) = r
      BY <1>5, ThenIs
  <1>7. Contains(Here, To(c)) <=> At(To(c)) # None
      BY <1>1, <1>3, AloneReads DEF At
  <1>8. Continue(p, IF Contains(Here, To(c)) THEN <<Evict(Here, To(c))>> ELSE <<>>)
      BY <1>2 DEF Replace
  <1> HIDE DEF i
  <1>9. CASE To(c) = c
    <2>1. At(c) # None
        BY <1>3, RecordsAreSome DEF Untouched
    <2>2. Continue(p, <<e>>)
        BY <1>4, <1>7, <1>8, <1>9, <2>1 DEF Evicting
    <2>3. <<e>> \in Seq(Instructions)
        OBVIOUS
    <2>4. plan'[p] = Then(e, r) /\ at'[p] = "start"
        BY <1>3, <1>6, <2>2, <2>3, Continued DEF Then
    <2>5. Clears(p, c, s)'
        BY <1>3, <1>4, <1>9, <2>4 DEF Clears, Deleted, Dropping
    <2> QED BY <1>2, <1>3, <2>5, WorkGoesOn DEF Rewriting
  <1>10. CASE To(c) # c
    <2>1. Continue(p, <<>>)
        BY <1>3, <1>7, <1>8, <1>10 DEF Untouched
    <2>2. plan'[p] = r
        BY <1>3, <1>5, <2>1, CarriedOut
    <2>3. Puts(p, c, s)'
        BY <1>3, <1>4, <1>10, <2>2 DEF Puts
    <2> QED BY <1>2, <1>3, <2>3, WorkGoesOn DEF Rewriting
  <1> QED BY <1>9, <1>10

\* The image is written.
LEMMA PutWorks ==
    ASSUME NEW p \in Processes, AtWork(p), program' = program,
           Head(plan[p]).do = "put", Continue(p, <<>>),
           File(Here, Head(plan[p]).key, Head(plan[p]).rec)
    PROVE  Progress(p)'
  <1> DEFINE i == Head(plan[p])
  <1>1. PICK c \in Old, s \in Seq(Instructions) :
            Going(s, {c}) /\ Puts(p, c, s) /\ i.key = To(c) /\ i.rec = Record(c, 1)
      BY WorkingOn
  <1>2. /\ Base /\ Transforming /\ Jobs # {} /\ PlansOK /\ plan[p] # <<>>
        /\ c \in Keys /\ To(c) \in Keys /\ Here \in Lengths /\ Here' = Here
        /\ To(c)' = To(c) /\ Evicting(c)' = Evicting(c)
        /\ Dropping(c, s)' = Dropping(c, s)
        /\ At(c)' = entry'[Here][c] /\ At(To(c))' = entry'[Here][To(c)]
      BY <1>1, SameWork, HereIs
  <1>3. PICK r \in Seq(Instructions) : r = Dropping(c, s)
      BY <1>2, WorkIs
  <1>4. plan[p] = Then(Putting(c), r) /\ Putting(c) \in Instructions
      BY <1>1, <1>2, <1>3, WorkIs DEF Puts
  <1>5. plan'[p] = r /\ at'[p] = "start"
      BY <1>2, <1>4, CarriedOut
  <1>6. File(Here, To(c), Record(c, 1))
      BY <1>1
  <1>7. /\ entry'[Here][To(c)] = Record(c, 1)
        /\ \A k \in Keys : k # To(c) => entry'[Here][k] = entry[Here][k]
      BY <1>2, <1>6 DEF File, Base, DiskOK
  <1>8. OnlyFoot(c)
      BY <1>7 DEF OnlyFoot, Foot
  <1> HIDE DEF i
  <1>9. CASE To(c) = c
    <2>1. Applied(c)'
        BY <1>2, <1>7, <1>9 DEF Applied
    <2>2. plan'[p] = s
        BY <1>3, <1>5, <1>9 DEF Dropping
    <2> QED BY <1>1, <1>8, <2>1, <2>2, WorkGoesOn
  <1>10. CASE To(c) # c
    <2>1. At(c) = Record(c, 0)
        BY <1>1, <1>10 DEF Puts, Untouched
    <2>2. Copied(c)'
        BY <1>2, <1>7, <1>10, <2>1 DEF Copied, At
    <2>3. plan'[p] = Then(Evicting(c), s)
        BY <1>3, <1>5, <1>10 DEF Dropping
    <2>4. Drops(p, c, s)'
        BY <1>2, <1>5, <1>10, <2>2, <2>3 DEF Drops, Deleted
    <2> QED BY <1>1, <1>8, <2>4, WorkGoesOn DEF Rewriting
  <1> QED BY <1>9, <1>10

\* What an eviction needs, and what has become of its record then.
Evicted(p, c) ==
    /\ At(c)' = None /\ (To(c) # c => At(To(c))' = At(To(c)))
    /\ OnlyFoot(c)

LEMMA EvictionEnds ==
    ASSUME NEW p \in Processes, AtWork(p), program' = program,
           Head(plan[p]).do = "evict", Continue(p, <<>>),
           Evicted(p, Head(plan[p]).key)
    PROVE  Progress(p)'
  <1> DEFINE i == Head(plan[p])
  <1>1. PICK c \in Old, s \in Seq(Instructions) :
            Going(s, {c}) /\ (Clears(p, c, s) \/ Drops(p, c, s)) /\ i.key = c
      BY WorkingOn
  <1>2. /\ Base /\ Transforming /\ Jobs # {} /\ PlansOK /\ plan[p] # <<>>
        /\ Here' = Here /\ To(c)' = To(c) /\ Putting(c)' = Putting(c)
        /\ Dropping(c, s)' = Dropping(c, s)
      BY <1>1, SameWork
  <1>3. Evicted(p, c)
      BY <1>1
  <1>4. OnlyFoot(c) /\ At(c)' = None /\ (To(c) # c => At(To(c))' = At(To(c)))
      BY <1>3 DEF Evicted
  <1> HIDE DEF i
  <1>5. CASE Clears(p, c, s)
    <2>1. PICK r \in Seq(Instructions) : r = Then(Putting(c), s)
        BY <1>2, WorkIs, ThenIs
    <2>2. plan[p] = Then(Evicting(c), r) /\ Evicting(c) \in Instructions /\ To(c) = c
        BY <1>2, <1>5, <2>1, WorkIs DEF Clears
    <2>3. plan'[p] = r
        BY <1>2, <2>2, CarriedOut
    <2>4. Removed(c)'
        BY <1>2, <1>4, <2>2 DEF Removed
    <2>5. Puts(p, c, s)'
        BY <1>2, <2>1, <2>2, <2>3, <2>4 DEF Puts, Dropping
    <2> QED BY <1>1, <1>4, <2>5, WorkGoesOn DEF Rewriting
  <1>6. CASE Drops(p, c, s)
    <2>1. plan[p] = Then(Evicting(c), s) /\ Evicting(c) \in Instructions /\ To(c) # c
          /\ At(To(c)) = Record(c, 1)
        BY <1>2, <1>6, WorkIs DEF Drops, Applied, Copied
    <2>2. plan'[p] = s
        BY <1>2, <2>1, CarriedOut
    <2>3. Applied(c)'
        BY <1>2, <1>4, <2>1 DEF Applied
    <2> QED BY <1>1, <1>4, <2>2, <2>3, WorkGoesOn
  <1> QED BY <1>1, <1>5, <1>6

\* What a step of p leaves.
Worked(p) ==
    /\ broken' = {} /\ Emptied(p)'
    /\ outcome'[p] \in {"busy", "done"} => Progress(p)'

LEMMA ContinuesWorked ==
    ASSUME NEW p \in Processes, AtWork(p), Progress(p)', NEW more, Continue(p, more),
           broken' = broken
    PROVE  Worked(p)
  <1>1. at'[p] = "start" /\ broken' = {}
      BY DEF AtWork, Base, PlansOK, Continue
  <1> QED BY <1>1, LeavingIsEmptied DEF Worked

LEMMA RaisesWorked ==
    ASSUME NEW p \in Processes, AtWork(p), NEW how \in Outcomes \ {"busy", "done"},
           Raise(p, how), broken' = broken
    PROVE  Worked(p)
  <1>1. at'[p] = "start" /\ outcome'[p] = how /\ broken' = {}
      BY DEF AtWork, Base, PlansOK, Raise
  <1> QED BY <1>1, LeavingIsEmptied DEF Worked

\* The old record is taken away.
LEMMA EvictWorks ==
    ASSUME NEW p \in Processes, AtWork(p), program' = program,
           EvictFile(p) \/ NoBag(p) \/ Delete(p) \/ UnlinkBag(p) \/ UnlinkLock(p)
    PROVE  Worked(p)
  <1> DEFINE i == Head(plan[p])
  <1>1. i.do = "evict" /\ i.len = Here
    <2>1. i.do = "evict"
        BY DEF EvictFile, NoBag, Delete, UnlinkBag, UnlinkLock, First
    <2> QED BY <2>1, WorkingOn
  <1>2. PICK c \in Old, s \in Seq(Instructions) :
            Going(s, {c}) /\ (Clears(p, c, s) \/ Drops(p, c, s)) /\ i.key = c
      BY <1>1, WorkingOn
  <1>3. /\ Base /\ Transforming /\ Jobs # {} /\ PlansOK /\ DiskOK /\ plan[p] # <<>>
        /\ c \in Keys /\ To(c) \in Keys /\ Here \in Lengths /\ Here' = Here
        /\ To(c)' = To(c) /\ Putting(c)' = Putting(c) /\ Evicting(c)' = Evicting(c)
        /\ At(c)' = entry'[Here][c] /\ At(To(c))' = entry'[Here][To(c)]
        /\ entry' = entry => OnlyFoot(c) /\ At(c)' = At(c) /\ At(To(c))' = At(To(c))
        /\ Emptied(p) /\ broken = {}
      BY <1>2, SameWork, HereIs DEF AtWork, Base
  <1>4. Mine(p) = Bag(Here, c)
      BY <1>1, <1>2 DEF Mine
  <1>5. ASSUME File(Here, c, None)
        PROVE  /\ Evicted(p, c) /\ entry'[Here][c] = None
               /\ \A k \in Keys : k # c => entry'[Here][k] = entry[Here][k]
    <2>1. /\ entry'[Here][c] = None
          /\ \A k \in Keys : k # c => entry'[Here][k] = entry[Here][k]
        BY <1>3, <1>5 DEF File, DiskOK
    <2>2. OnlyFoot(c)
        BY <2>1 DEF OnlyFoot, Foot
    <2> QED BY <1>3, <2>1, <2>2 DEF Evicted, At
  <1>6. ASSUME Continue(p, <<>>), Evicted(p, c), broken' = broken
        PROVE  Worked(p)
      BY <1>1, <1>2, <1>6, EvictionEnds, ContinuesWorked
  <1>7. CASE EvictFile(p)
    <2>1. Here = 0 /\ File(Here, c, None) /\ Continue(p, <<>>) /\ broken' = broken
        BY <1>1, <1>2, <1>7 DEF EvictFile
    <2> QED BY <1>5, <1>6, <2>1
  <1>8. CASE NoBag(p)
    <2>1. at[p] = "inside" /\ Mine(p) \notin bags
        BY <1>8 DEF NoBag, First
    <2>2. At(c) = Record(c, 0)
        BY <1>2, <2>1 DEF Clears, Drops, Deleted, Untouched, Copied
    <2>3. Here # 0
        BY <1>1, <1>3, <2>1 DEF Base, AtFits, Locks
    <2>4. Bag(Here, c) \in bags
        BY <1>3, <2>2, <2>3, RecordsAreSome DEF DiskOK, At
    <2> QED BY <1>4, <2>1, <2>4
  <1>9. CASE Delete(p)
    <2>1. /\ File(Here, c, None) /\ broken' = broken /\ at[p] = "inside"
          /\ \/ KeysIn(Mine(p)) \subseteq {c} /\ Goto(p, "emptied") /\ UNCHANGED <<plan, outcome>>
             \/ Continue(p, <<>>)
        BY <1>1, <1>2, <1>9 DEF Delete, First
    <2>2. CASE Continue(p, <<>>)
        BY <1>5, <1>6, <2>1, <2>2
    <2>3. CASE KeysIn(Mine(p)) \subseteq {c} /\ Goto(p, "emptied") /\ UNCHANGED <<plan, outcome>>
      <3>1. at'[p] = "emptied" /\ plan' = plan
          BY <1>3, <2>3, GotoGoesOn
      <3>2. Evicted(p, c)
          BY <1>5, <2>1
      <3>3. ASSUME NEW k \in Keys, Bag(Here, k) = Mine(p)
            PROVE  entry'[Here][k] = None
        <4>1. CASE k = c
            BY <1>5, <2>1, <4>1
        <4>2. CASE k # c
          <5>1. Mine(p)[1] = Here
              BY <1>4 DEF Bag
          <5>2. entry[Here][k] = None
              BY <2>3, <3>3, <4>2, <5>1 DEF KeysIn
          <5> QED BY <1>5, <2>1, <4>2, <5>2
        <4> QED BY <4>1, <4>2
      <3>4. Emptied(p)'
          BY <1>1, <3>1, <3>3 DEF Emptied, Mine, Bag
      <3>5. Rewriting(p, c, s)'
        <4>1. CASE Clears(p, c, s)
          <5>1. Removed(c)' /\ To(c) = c /\ plan'[p] = Then(Evicting(c), Then(Putting(c), s))
              BY <1>3, <3>1, <3>2, <4>1 DEF Clears, Removed, Evicted
          <5>2. Clears(p, c, s)'
              BY <1>3, <3>1, <5>1 DEF Clears, Deleted
          <5> QED BY <5>2 DEF Rewriting
        <4>2. CASE Drops(p, c, s)
          <5>1. At(To(c)) = Record(c, 1) /\ To(c) # c /\ plan'[p] = Then(Evicting(c), s)
              BY <2>1, <3>1, <4>2 DEF Drops, Deleted, Copied
          <5>2. Applied(c)'
              BY <1>3, <3>2, <5>1 DEF Applied, Evicted
          <5>3. Drops(p, c, s)'
              BY <1>3, <3>1, <5>1, <5>2 DEF Drops, Deleted
          <5> QED BY <5>3 DEF Rewriting
        <4> QED BY <1>2, <4>1, <4>2
      <3>6. Progress(p)'
        <4>1. OnlyFoot(c)
            BY <3>2 DEF Evicted
        <4> QED BY <1>2, <3>5, <4>1, WorkGoesOn
      <3> QED BY <1>3, <2>1, <3>4, <3>6 DEF Worked
    <2> QED BY <2>1, <2>2, <2>3
  <1>10. CASE UnlinkBag(p)
    <2>1. at[p] = "emptied" /\ Goto(p, "gone") /\ outcome' = outcome
        BY <1>10 DEF UnlinkBag, First
    <2>2. at'[p] = "gone"
        BY <1>3, <2>1 DEF PlansOK, Goto
    <2>3. plan'[p] = plan[p]
        BY <1>10, <2>1 DEF UnlinkBag, WritesIn
    <2>4. \A k \in Keys : entry'[Here][k] = entry[Here][k]
        BY <1>3, <1>10, EmptyBagsGo
    <2>5. Progress(p)'
        BY <2>1, <2>2, <2>3, <2>4, WorkStays DEF Deleted
    <2>6. broken' = {}
        BY <1>3, <1>10 DEF UnlinkBag
    <2> QED BY <2>2, <2>5, <2>6, LeavingIsEmptied DEF Worked
  <1>11. CASE UnlinkLock(p)
    <2>1. at[p] = "gone" /\ Continue(p, <<>>) /\ entry' = entry /\ broken' = broken
        BY <1>11 DEF UnlinkLock, First, files
    <2>2. At(c) = None
        BY <1>2, <2>1 DEF Clears, Drops, Deleted, Removed, Applied
    <2>3. Evicted(p, c)
        BY <1>3, <2>1, <2>2 DEF Evicted
    <2> QED BY <1>6, <2>1, <2>3
  <1> QED BY <1>7, <1>8, <1>9, <1>10, <1>11

\* Any step of the job.
LEMMA StepWorks ==
    ASSUME NEW p \in Processes, AtWork(p), program' = program, ~damaged',
           Step(p) \/ Crash(p)
    PROVE  Worked(p)
  <1> DEFINE i == Head(plan[p])
  <1>1. /\ i.do \in {"apply", "replace", "put", "evict"} /\ i.len = Here
        /\ PlansOK /\ plan[p] # <<>> /\ broken = {} /\ AtFits(p)
        /\ at[p] = "writing" => i.do = "put"
    <2>1. i.do \in {"apply", "replace", "put", "evict"} /\ i.len = Here
        BY WorkingOn
    <2> QED BY <2>1 DEF AtWork, Base, AtFits
  <1>2. CASE Apply(p)
    <2>1. \E more : Continue(p, more) /\ broken' = broken
        BY <1>2 DEF Apply, files
    <2> QED BY <1>2, <2>1, ApplyWorks, ContinuesWorked
  <1>3. CASE Replace(p)
    <2>1. \E more : Continue(p, more) /\ broken' = broken
        BY <1>3 DEF Replace, files
    <2> QED BY <1>3, <2>1, ReplaceWorks, ContinuesWorked
  <1>4. CASE PutFile(p)
    <2>1. i.do = "put" /\ Continue(p, <<>>) /\ File(Here, i.key, i.rec) /\ broken' = broken
        BY <1>1, <1>4 DEF PutFile, First
    <2> QED BY <2>1, PutWorks, ContinuesWorked
  <1>5. CASE EndPut(p)
    <2>1. at[p] = "writing" /\ i.do = "put" /\ Continue(p, <<>>) /\ broken' = broken
        BY <1>1, <1>5 DEF EndPut
    <2>2. i.rec # None
      <3>1. PICK c \in Old : i.rec = Record(c, 1) /\ c \in Keys
          BY <2>1, WorkingOn
      <3> QED BY <3>1, RecordsAreSome
    <2>3. WritesIn(p, Mine(p))
        BY <2>1, <2>2 DEF WritesIn
    <2>4. File(Here, i.key, i.rec)
        BY <1>1, <1>5, <2>3 DEF EndPut
    <2> QED BY <2>1, <2>4, PutWorks, ContinuesWorked
  <1>6. CASE EvictFile(p) \/ NoBag(p) \/ Delete(p) \/ UnlinkBag(p) \/ UnlinkLock(p)
      BY <1>6, EvictWorks
  <1>7. CASE OpenLock(p) \/ Lock(p) \/ BeginPut(p)
    <2>1. /\ UNCHANGED <<entry, broken, plan>> /\ at[p] \notin {"emptied", "gone"}
          /\ \E next \in {"start", "opened", "inside", "writing"} : Goto(p, next)
      <3>1. CASE OpenLock(p)
          BY <3>1 DEF OpenLock, files
      <3>2. CASE Lock(p)
          BY <3>2 DEF Lock, files
      <3>3. CASE BeginPut(p)
          BY <3>3 DEF BeginPut, First
      <3> QED BY <1>7, <3>1, <3>2, <3>3
    <2>2. at'[p] \notin {"emptied", "gone"}
        BY <1>1, <2>1 DEF PlansOK, Goto
    <2>3. Progress(p)'
        BY <2>1, <2>2, WorkStays DEF Deleted
    <2> QED BY <1>1, <2>1, <2>2, <2>3, LeavingIsEmptied DEF Worked
  <1>8. CASE TimesOut(p) \/ PutFails(p) \/ OpenFails(p)
    <2>1. CASE TimesOut(p)
        BY <2>1, RaisesWorked DEF TimesOut, files, Outcomes
    <2>2. CASE PutFails(p)
        BY <2>2 DEF PutFails, CutShort
    <2>3. CASE OpenFails(p)
        BY <1>1, <2>3, RaisesWorked DEF OpenFails, files, Outcomes
    <2> QED BY <1>8, <2>1, <2>2, <2>3
  <1>9. CASE Crash(p)
    <2>1. Raise(p, "crashed")
        BY <1>9 DEF Crash
    <2>2. broken' = broken
        BY <1>9 DEF Crash, CutShort
    <2> QED BY <2>1, <2>2, RaisesWorked DEF Outcomes
  <1>10. ~(Saved(p) \/ List(p) \/ Move(p) \/ Open(p) \/ Rebag(p) \/ RebagFile(p))
      BY <1>1 DEF Saved, List, Move, Open, Rebag, RebagFile, First
  <1> QED BY <1>2, <1>3, <1>4, <1>5, <1>6, <1>7, <1>8, <1>9, <1>10 DEF Step

\* The records are listed, and wait.
LEMMA BeginWorks ==
    ASSUME Base, Transforming, AsFiled, broken = {}, NEW p \in Processes, Begin(p),
           program' = program
    PROVE  Jobs # {} /\ Alone(p)' /\ Progress(p)' /\ broken' = {}
  <1>1. PICK job \in program.run.jobs[p] : plan' = [plan EXCEPT ![p] = Planned(job)]
      BY DEF Begin
  <1>2. Jobs # {} /\ job \in Jobs
      BY <1>1 DEF Jobs
  <1>3. /\ Here \in Lengths /\ Old \subseteq Keys /\ job.len = Here /\ job.do = "transform"
        /\ \A k \in Keys : To(k) \in Keys
        /\ \A j, k \in Old : To(j) \in Foot(k) => j = k
      BY <1>2, HereIs
  <1>4. /\ entry' = entry /\ broken' = {} /\ at' = at
        /\ \A q \in Processes \ {p} : outcome'[q] = outcome[q]
      BY DEF Begin, files, Base, PlansOK
  <1>5. Alone(p)'
      BY <1>4 DEF Alone, AsFiled
  <1>6. \A k \in Keys : At(k) = IF k \in Old THEN Record(k, 0) ELSE None
      BY <1>3 DEF AsFiled, At, Old
  <1>7. Listed(Here) = Old
    <2>1. \A q \in Processes : plan[q] = <<>> /\ at[q] = "start"
        BY DEF AsFiled, Base, PlansOK
    <2>2. ASSUME NEW k \in Keys PROVE Contains(Here, k) <=> entry[Here][k] # None
      <3>1. ~Writing(Bag(Here, k))
          BY <2>1 DEF Writing, WritesIn
      <3>2. Here # 0 /\ entry[Here][k] # None => Bag(Here, k) \in bags
          BY <1>3 DEF Base, DiskOK
      <3> QED BY <3>1, <3>2 DEF Contains, Opens
    <2>3. \A k \in Keys : entry[Here][k] # None <=> k \in Old
        BY <1>6, RecordsAreSome DEF At
    <2> QED BY <1>3, <2>2, <2>3 DEF Listed
  <1>8. PICK s : s = InOrder(Old, LAMBDA k : Do("apply", Here, k, None))
      OBVIOUS
  <1>9. plan'[p] = s
    <2>1. Planned(job) = s
        BY <1>3, <1>7, <1>8 DEF Planned
    <2> QED BY <1>1, <2>1 DEF Base, PlansOK
  <1>10. IsFiniteSet(Old)
      BY <1>3, BagsAssumption, FS_Subset
  <1>11. s \in Seq(Instructions)
      BY <1>3, <1>8, <1>10, KeysInOrder
  <1>12. /\ \A j \in 1 .. Len(s) : s[j].do = "apply" /\ s[j].len = Here /\ s[j].key \in Old
         /\ \A i, j \in 1 .. Len(s) : s[i].key = s[j].key => i = j
         /\ \A k \in Old : \E j \in 1 .. Len(s) : s[j].key = k
    <2>1. Here \in Lengths /\ Old \subseteq Keys
        BY <1>3
    <2>2. TakesEach(s, Old, "apply", Here)
        BY <1>8, <1>10, <2>1, AppliesInOrder
    <2> QED BY <2>2 DEF TakesEach
  <1>13. KeysOf(s) = Old
      BY <1>12 DEF KeysOf
  <1>14. \A k \in Old : Untouched(k)
    <2> SUFFICES ASSUME NEW k \in Old PROVE Untouched(k)
        OBVIOUS
    <2>1. To(k) # k => To(k) \notin Old
        BY <1>3 DEF Foot
    <2> QED BY <1>3, <1>6, <2>1 DEF Untouched
  <1>15. Clean
      BY <1>3, <1>6 DEF Clean, Foot
  <1>16. Going(s, {})
    <2>1. Queued(s, {})
        BY <1>12 DEF Queued
    <2>2. Split(s, {})
        BY <1>13, <1>14 DEF Split
    <2> QED BY <1>11, <1>15, <2>1, <2>2 DEF Going
  <1>17. Going(s, {})'
    <2>1. /\ Here' = Here /\ Old' = Old /\ \A k : To(k)' = To(k) /\ Foot(k)' = Foot(k)
        BY ProgramStays
    <2>2. \A k : At(k)' = At(k)
        BY <1>4, <2>1 DEF At
    <2>3. \A k : Untouched(k)' = Untouched(k) /\ Applied(k)' = Applied(k)
      <3>1. \A k : At(To(k))' = At(To(k))
          BY <1>4, <2>1 DEF At
      <3> QED BY <2>1, <2>2, <3>1 DEF Untouched, Applied
    <2>4. Queued(s, {})'
        BY <1>16, <2>1 DEF Going, Queued
    <2>5. Split(s, {})'
        BY <1>16, <2>1, <2>3 DEF Going, Split, KeysOf
    <2>6. Clean'
        BY <1>15, <2>1, <2>2 DEF Clean
    <2> QED BY <1>11, <2>4, <2>5, <2>6 DEF Going
  <1> QED BY <1>2, <1>4, <1>5, <1>9, <1>17 DEF Progress

\* A step of one process is no step of another.
LEMMA StepIsOwn ==
    ASSUME Base, NEW p \in Processes, Begin(p) \/ Step(p) \/ Crash(p)
    PROVE  \A r \in Processes \ {p} : at'[r] = at[r] /\ outcome'[r] = outcome[r]
  <1>1. PlansOK
      BY DEF Base
  <1>2. CASE Leaves(p)
      BY <1>2 DEF Leaves
  <1>3. CASE Begin(p)
      BY <1>1, <1>3 DEF Begin, PlansOK
  <1>4. ASSUME NEW next, Goto(p, next), outcome' = outcome
        PROVE  \A r \in Processes \ {p} : at'[r] = at[r] /\ outcome'[r] = outcome[r]
      BY <1>1, <1>4 DEF Goto, PlansOK
  <1>5. CASE OpenLock(p) \/ BeginPut(p) \/ UnlinkBag(p)
             \/ (Delete(p) /\ Goto(p, "emptied") /\ UNCHANGED <<fd, plan, outcome>>)
      BY <1>4, <1>5 DEF OpenLock, BeginPut, UnlinkBag
  <1>6. CASE Lock(p)
      BY <1>4, <1>6 DEF Lock
  <1>7. CASE Rebag(p)
    <2>1. \/ Goto(p, "inside") /\ outcome' = outcome
          \/ Continue(p, <<>>) /\ fd' = fd
          \/ Raise(p, "unreadable")
        BY <1>7 DEF Rebag
    <2> QED BY <1>2, <1>4, <2>1, ContinueLeaves, RaiseLeaves
  <1> QED BY <1>2, <1>3, <1>5, <1>6, <1>7, WhoStays

LEMMA StepKeepsTransform ==
    ASSUME Base, TransformInv, [Next]_vars
    PROVE  TransformInv'
  <1>1. CASE UNCHANGED vars
    <2>1. UNCHANGED <<entry, broken, at, plan, outcome, jobs, program, damaged>>
        BY <1>1 DEF vars, files, ghosts
    <2>2. program' = program
        BY <2>1
    <2>3. Undisturbed' = Undisturbed /\ Jobs' = Jobs
        BY <2>1, <2>2, ProgramStays DEF Undisturbed, Jobs
    <2>4. \A p \in Processes : Emptied(p)' = Emptied(p) /\ Alone(p)' = Alone(p)
        BY <2>1 DEF Emptied, Mine, Bag, Alone
    <2>5. AsFiled' = AsFiled
        BY <2>1 DEF AsFiled
    <2>6. \A p \in Processes : Progress(p)' = Progress(p)
        BY <2>1 DEF Progress, Going, Queued, Split, Clean, Rewriting, Replaces, Clears, Puts, Drops,
           Dropping, Replacing, Putting, Evicting, Deleted, Untouched, Copied, Applied, Removed,
           At, To, Foot, Old, Here, Jobs, KeysOf
    <2> QED BY <2>1, <2>3, <2>4, <2>5, <2>6 DEF TransformInv
  <1>2. ASSUME NEW p \in Processes, Begin(p) \/ Step(p) \/ Crash(p)
        PROVE  TransformInv'
    <2>1. program' = program /\ (damaged => damaged')
        BY <1>2, StepFrame
    <2>2. jobs \in Nat /\ jobs' \in Nat
          /\ (Begin(p) => jobs' = jobs + 1) /\ (~Begin(p) => jobs' = jobs)
      <3>1. Begin(p) => jobs' = jobs + 1
          BY DEF Begin
      <3>2. ~Begin(p) => jobs' = jobs
        <4>1. CASE Crash(p)
            BY <4>1 DEF Crash
        <4>2. CASE PutFails(p)
            BY <4>2 DEF PutFails
        <4>3. CASE Step(p) /\ ~PutFails(p)
          <5>1. UNCHANGED ghosts
              BY <4>3 DEF Step, Replace, Saved, List, Move, Open, Apply, Rebag, OpenLock, Lock,
                 TimesOut, PutFile, BeginPut, RebagFile, EndPut, OpenFails, EvictFile, NoBag,
                 Delete, UnlinkBag, UnlinkLock
          <5> QED BY <5>1 DEF ghosts
        <4> QED BY <1>2, <4>1, <4>2, <4>3
      <3> QED BY <3>1, <3>2 DEF TransformInv
    <2> SUFFICES ASSUME Undisturbed'
                 PROVE  /\ broken' = {} /\ \A q \in Processes : Emptied(q)'
                        /\ jobs' = 0 => AsFiled'
                        /\ jobs' = 1 => Jobs' # {} /\ \E q \in Processes :
                             Alone(q)' /\ (outcome'[q] \in {"busy", "done"} => Progress(q)')
        BY <2>2 DEF TransformInv
    <2>3. Undisturbed /\ Transforming /\ ~damaged /\ ~damaged' /\ jobs' <= 1 /\ jobs <= 1
      <3>1. Transforming' /\ jobs' <= 1 /\ ~damaged'
          BY DEF Undisturbed
      <3>2. Transforming /\ ~damaged
          BY <2>1, <3>1, ProgramStays
      <3>3. jobs <= 1
          BY <2>2, <3>1
      <3> QED BY <3>1, <3>2, <3>3 DEF Undisturbed
    <2>4. /\ broken = {} /\ \A q \in Processes : Emptied(q)
          /\ jobs = 0 => AsFiled
          /\ jobs = 1 => Jobs # {} /\ \E q \in Processes :
               Alone(q) /\ (outcome[q] \in {"busy", "done"} => Progress(q))
        BY <2>3 DEF TransformInv
    <2>5. Jobs' = Jobs /\ PlansOK
        BY <2>1 DEF Jobs, Base
    <2>6. CASE Begin(p)
      <3>1. jobs = 0 /\ jobs' = 1
          BY <2>2, <2>3, <2>6
      <3>2. Jobs # {} /\ Alone(p)' /\ Progress(p)' /\ broken' = {}
          BY <2>1, <2>3, <2>4, <2>6, <3>1, BeginWorks
      <3>3. \A q \in Processes : at'[q] # "emptied"
          BY <2>4, <2>5, <2>6, <3>1 DEF Begin, AsFiled, PlansOK
      <3> QED BY <2>5, <3>1, <3>2, <3>3, LeavingIsEmptied
    <2>7. CASE ~Begin(p)
      <3>1. plan[p] # <<>> /\ outcome[p] = "busy"
        <4>1. plan[p] # <<>>
          <5>1. CASE Crash(p)
              BY <5>1 DEF Crash
          <5>2. CASE Step(p)
              BY <5>2 DEF Step, Replace, Saved, List, Move, Open, Apply, Rebag, OpenLock, Lock,
                 TimesOut, PutFile, BeginPut, RebagFile, EndPut, PutFails, OpenFails, EvictFile,
                 NoBag, Delete, UnlinkBag, UnlinkLock, First, Locks, Base, AtFits
          <5> QED BY <1>2, <2>7, <5>1, <5>2
        <4> QED BY <2>5, <4>1 DEF PlansOK
      <3>2. jobs = 1 /\ jobs' = 1
        <4>1. jobs # 0
            BY <2>4, <3>1 DEF AsFiled
        <4> QED BY <2>2, <2>3, <2>7, <4>1
      <3>3. PICK q \in Processes :
               Alone(q) /\ (outcome[q] \in {"busy", "done"} => Progress(q))
          BY <2>4, <3>2
      <3>4. p = q
          BY <3>1, <3>3 DEF Alone
      <3>5. AtWork(p)
          BY <2>3, <2>4, <3>1, <3>2, <3>3, <3>4 DEF AtWork
      <3>6. Worked(p)
          BY <1>2, <2>1, <2>3, <2>7, <3>5, StepWorks
      <3>7. \A r \in Processes \ {p} : plan[r] = <<>> /\ at[r] = "start"
          BY <3>5, AloneReads
      <3>8. \A r \in Processes \ {p} : at'[r] = at[r] /\ outcome'[r] = outcome[r]
          BY <1>2, <2>5, <2>7, StepIsOwn
      <3>9. Alone(p)'
          BY <3>3, <3>4, <3>8 DEF Alone
      <3>10. \A r \in Processes : Emptied(r)'
        <4>1. Emptied(p)'
            BY <3>6 DEF Worked
        <4>2. \A r \in Processes \ {p} : at'[r] # "emptied"
            BY <3>7, <3>8
        <4> QED BY <4>1, <4>2, LeavingIsEmptied
      <3> QED BY <2>4, <2>5, <3>2, <3>6, <3>9, <3>10 DEF Worked
    <2> QED BY <2>6, <2>7
  <1> QED BY <1>1, <1>2 DEF Next

\* What is left when the plan has come to its end.
LEMMA TransformEnds ==
    ASSUME Base, TransformInv
    PROVE  TransformsEach
  <1> SUFFICES ASSUME Undisturbed, jobs = 1, NEW p \in Processes, outcome[p] = "done",
                      NEW job \in Jobs, NEW k \in Keys
               PROVE  {r \in {entry[job.len][k]} : r # None} =
                        {Record(j, 1) : j \in {i \in program.run.filed[job.len] :
                                                  program.run.image[i] = k}}
    <2>1. Calls({"transform"}) /\ OneStorage /\ Renames /\ jobs = 1 /\ ~damaged => Undisturbed
        BY DEF Undisturbed, Transforming
    <2> QED BY <2>1 DEF TransformsEach
  <1>1. Transforming /\ Jobs # {}
      BY DEF Undisturbed
  <1>2. PICK q \in Processes : Alone(q) /\ (outcome[q] \in {"busy", "done"} => Progress(q))
      BY DEF TransformInv
  <1>3. p = q /\ Progress(p) /\ plan[p] = <<>>
    <2>1. p = q
        BY <1>2 DEF Alone
    <2> QED BY <1>2, <2>1 DEF Base, PlansOK
  <1>4. /\ Here \in Lengths /\ Old \subseteq Keys /\ job.len = Here
        /\ \A i \in Old : To(i) \in Keys
        /\ \A i, j \in Old : To(i) \in Foot(j) => i = j
      BY <1>1, HereIs
  <1>5. Going(<<>>, {})
    <2>1. ASSUME NEW c \in Old, NEW s \in Seq(Instructions), Rewriting(p, c, s) PROVE FALSE
      <3>1. /\ Replacing(c) \in Instructions /\ Putting(c) \in Instructions
            /\ Evicting(c) \in Instructions /\ Dropping(c, s) \in Seq(Instructions)
          BY <1>1, WorkIs
      <3>2. Then(Putting(c), Dropping(c, s)) \in Seq(Instructions)
            /\ Then(Putting(c), s) \in Seq(Instructions)
          BY <3>1, ThenIs
      <3>3. plan[p] # <<>>
          BY <2>1, <3>1, <3>2, ThenIs DEF Rewriting, Replaces, Clears, Puts, Drops
      <3> QED BY <1>3, <3>3
    <2> QED BY <1>3, <2>1 DEF Progress
  <1>6. (\A i \in Old : Applied(i)) /\ Clean
    <2>1. KeysOf(<<>>) = {}
        BY DEF KeysOf
    <2> QED BY <1>5, <2>1 DEF Going, Split
  <1>7. CASE \E j \in Old : To(j) = k
    <2>1. PICK j \in Old : To(j) = k
        BY <1>7
    <2>2. At(k) = Record(j, 1) /\ Record(j, 1) # None
        BY <1>4, <1>6, <2>1, RecordsAreSome DEF Applied
    <2>3. \A i \in Old : To(i) = k => i = j
        BY <1>4, <2>1 DEF Foot
    <2>4. {i \in Old : To(i) = k} = {j}
        BY <2>1, <2>3
    <2>5. {r \in {At(k)} : r # None} = {Record(i, 1) : i \in {i \in Old : To(i) = k}}
        BY <2>2, <2>4
    <2> QED BY <1>4, <2>5 DEF At, Old, To
  <1>8. CASE \A j \in Old : To(j) # k
    <2>1. At(k) = None
      <3>1. CASE k \in Old
          BY <1>6, <1>8, <3>1 DEF Applied
      <3>2. CASE k \notin Old
        <4>1. \A j \in Old : k \notin Foot(j)
            BY <1>8, <3>2 DEF Foot
        <4> QED BY <1>6, <4>1 DEF Clean
      <3> QED BY <3>1, <3>2
    <2>2. {r \in {At(k)} : r # None} = {} /\ {i \in Old : To(i) = k} = {}
        BY <1>8, <2>1
    <2>3. {r \in {At(k)} : r # None} = {Record(i, 1) : i \in {i \in Old : To(i) = k}}
        BY <2>2
    <2> QED BY <1>4, <2>3 DEF At, Old, To
  <1> QED BY <1>7, <1>8

\* A transform that runs alone, and whose function gives no record the old or the new key of
\* another, applies it just once to every record and leaves nothing of the old ones, however
\* the records share files (storage/base.py, CallStorage.transform).
THEOREM TransformAppliesOnce == Spec => []TransformsEach
  <1> DEFINE IInv == Base /\ TransformInv
  <1>1. Init => IInv
    <2> SUFFICES ASSUME Init PROVE IInv
        OBVIOUS
    <2>1. Base
        BY InitBase
    <2>2. /\ at = [p \in Processes |-> "start"] /\ outcome = [p \in Processes |-> "none"]
          /\ jobs = 0 /\ broken = {}
          /\ entry = [n \in Lengths |-> [k \in Keys |->
                   IF k \in program.run.filed[n] THEN Record(k, 0) ELSE None]]
        BY DEF Init
    <2>3. AsFiled
        BY <2>2 DEF AsFiled
    <2>4. \A p \in Processes : Emptied(p)
        BY <2>2 DEF Emptied
    <2>5. TransformInv
        BY <2>2, <2>3, <2>4 DEF TransformInv
    <2> QED BY <2>1, <2>5
  <1>2. IInv /\ [Next]_vars => IInv'
      BY StepKeepsBase, StepKeepsTransform
  <1>3. IInv => TransformsEach
      BY TransformEnds
  <1> QED BY <1>1, <1>2, <1>3, PTL DEF Spec
=============================================================================
