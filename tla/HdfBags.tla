------------------------------- MODULE HdfBags -------------------------------
(***************************************************************************)
(* A call storage in HDF5 bags (storage/bagofholding_file.py): the entries   *)
(* whose keys share a prefix are groups of one file, which is written in     *)
(* place under a file lock; prefix length 0 is one file per key, written by  *)
(* an atomic rename (FileStore has its steps).  A root may hold several      *)
(* prefix lengths at once; refix and consolidate move the entries from one   *)
(* to another, and may be interrupted and run again.  transform (base.py)    *)
(* rewrites every record of a storage under the key of its image.            *)
(*                                                                         *)
(* Processes share the root and no memory.  An operation is a plan: what is  *)
(* left to do, its first instruction under way.                             *)
(*                                                                         *)
(* External: the file lock (filelock), which opens the path's inode and     *)
(* locks that; and HDF5, which lets a file be opened while nobody writes it. *)
(***************************************************************************)
EXTENDS Naturals, FiniteSets, Sequences

CONSTANTS
    Processes,
    Keys,       \* numbers: their order is that of the digests
    Lengths,    \* the prefix lengths in use
    Prefix,     \* Prefix[n][k]: the first n characters of k
    Programs,   \* [filed, jobs, image]: entries at the start, the jobs each
                \* process may call, and the function given to transform
    MaxJobs,    \* bound: jobs begun
    MaxCrashes, \* bound: processes that die
    Torn, None

\* What may be asked of a process.
AnyJob ==
    [do : {"save", "evict"}, len : Lengths, key : Keys, to : {None}]
    \cup [do : {"refix"}, len : Lengths, key : {None}, to : Lengths]
    \cup [do : {"consolidate"}, len : {None}, key : {None}, to : Lengths]
    \cup [do : {"transform", "rebag"}, len : Lengths, key : {None}, to : {None}]

\* A record and how often transform has been applied to it.
Records == [of : Keys, times : Nat]
Record(k, n) == [of |-> k, times |-> n]

ASSUME BagsAssumption ==
    /\ IsFiniteSet(Processes) /\ IsFiniteSet(Keys) /\ IsFiniteSet(Lengths)
    /\ Keys \subseteq Nat /\ Lengths \subseteq Nat /\ 0 \in Lengths
    /\ \A n \in Lengths, k \in Keys : Prefix[0][k] = k /\ Prefix[n][k] # None
    /\ MaxJobs \in Nat /\ MaxCrashes \in Nat
    /\ None \notin Nat \cup Records \cup {Torn} /\ Torn \notin Records

ASSUME ProgramsAssumption ==
    \A run \in Programs :
        /\ run.filed \in [Lengths -> SUBSET Keys]
        /\ run.jobs \in [Processes -> SUBSET AnyJob]
        /\ run.image \in [Keys -> Keys]

VARIABLES
    entry,    \* entry[n][k]: the record filed under k in layout n, Torn, or None
    bags,     \* the bag files there are: <<length, prefix>>
    broken,   \* bags that HDF5 cannot open any more
    lockfile, \* lockfile[b]: the inode behind the lock path of bag b, or None
    fd,       \* fd[p]: the inode that p has opened to lock it, or None
    at,       \* at[p]: how far p is in its first instruction
    plan,     \* plan[p]: the instructions p has still to carry out
    outcome,  \* outcome[p]: how the last job of p ended
    jobs,     \* jobs begun
    crashes,
    program,  \* the program that runs, and whether filelock notices that the
              \* inode it locked is no longer the path's (newer releases do)
    damaged,  \* ghost: a write in place was cut short
    filed     \* ghost: keys saved, and neither saved again nor evicted since

files == <<entry, bags, broken>>
locks == <<lockfile, fd>>
ghosts == <<jobs, crashes, program, damaged>>
vars == <<files, locks, at, plan, outcome, ghosts, filed>>

-----------------------------------------------------------------------------
(* What is on disk.                                                         *)

Bag(n, k) == <<n, Prefix[n][k]>>
AllBags == {Bag(n, k) : n \in Lengths \ {0}, k \in Keys}
KeysIn(b) == {k \in Keys : Bag(b[1], k) = b /\ entry[b[1]][k] # None}

\* The bag that p's first instruction is about.
Mine(p) == Bag(Head(plan[p]).len, Head(plan[p]).key)
\* p writes in bag b, and no one unlinked the file it has open.
WritesIn(p, b) == at[p] = "writing" /\ Mine(p) = b /\ Head(plan[p]).rec # None
Writing(b) == \E p \in Processes : WritesIn(p, b)
Opens(b) == b \in bags /\ b \notin broken /\ ~Writing(b)

\* _contains: an OSError counts as absence.
Contains(n, k) == entry[n][k] # None /\ (n # 0 => Opens(Bag(n, k)))

\* list: bags that cannot be opened are left out.
Listed(n) == {k \in Keys : Contains(n, k)}

\* get: what is read, or None for a KeyError; after a lock timeout too.
Readable(n, k) == Contains(n, k) /\ entry[n][k] # Torn

\* _observed_prefix_lengths: file names only.
Observed == {b[1] : b \in bags} \cup {n \in Lengths \cap {0} : \E k \in Keys : entry[n][k] # None}

-----------------------------------------------------------------------------
(* Plans.                                                                   *)

Do(what, n, k, r) == [do |-> what, len |-> n, key |-> k, rec |-> r]
Put(n, k, r) == Do("put", n, k, r)
Evict(n, k)  == Do("evict", n, k, None)

\* CallMixin.save: an entry that is there is evicted first.
Saving(n, k, r) == <<Do("replace", n, k, None), Put(n, k, r)>>

Smallest(S) == CHOOSE k \in S : \A j \in S : k <= j
InOrder(S, Instruction(_)) ==
    [i \in 1 .. Cardinality(S) |->
        Instruction(CHOOSE k \in S : Cardinality({j \in S : j < k}) = i - 1)]

\* refix(to) of the storage with length n: the keys are listed when its turn comes.
Scan(n, to) == Do("scan", n, None, to)

Planned(job) ==
    CASE job.do = "save"   -> Saving(job.len, job.key, Record(job.key, 0))
                              \o <<Do("saved", job.len, job.key, None)>>
      [] job.do = "evict"  -> <<Evict(job.len, job.key)>>
      [] job.do = "refix"  -> IF job.to = job.len THEN <<>> ELSE <<Scan(job.len, job.to)>>
      [] job.do = "consolidate" ->
            InOrder(Observed \ {job.to}, LAMBDA n : Scan(n, job.to))
            \o <<Do("check", job.to, None, None)>>
      [] job.do = "transform" ->
            InOrder(Listed(job.len), LAMBDA k : Do("apply", job.len, k, None))
      [] job.do = "rebag" ->
            InOrder(Listed(job.len), LAMBDA k : Do("rebag", job.len, k, None))

Init ==
    /\ program \in [run : Programs, rechecks : BOOLEAN]
    /\ entry = [n \in Lengths |-> [k \in Keys |->
                   IF k \in program.run.filed[n] THEN Record(k, 0) ELSE None]]
    /\ bags = {b \in AllBags : KeysIn(b) # {}} /\ broken = {}
    /\ lockfile = [b \in AllBags |-> None]
    /\ fd = [p \in Processes |-> None]
    /\ at = [p \in Processes |-> "start"]
    /\ plan = [p \in Processes |-> <<>>]
    /\ outcome = [p \in Processes |-> "none"]
    /\ jobs = 0 /\ crashes = 0 /\ damaged = FALSE /\ filed = {}

Begin(p) ==
    /\ plan[p] = <<>> /\ jobs < MaxJobs
    /\ \E job \in program.run.jobs[p] :
         /\ plan' = [plan EXCEPT ![p] = Planned(job)]
         /\ filed' = filed \ {job.key}
    /\ jobs' = jobs + 1
    /\ outcome' = [outcome EXCEPT ![p] = IF plan'[p] = <<>> THEN "done" ELSE "busy"]
    /\ UNCHANGED <<files, locks, at, crashes, program, damaged>>

\* The first instruction is carried out and replaced by the ones it stands for.
Continue(p, instructions) ==
    /\ plan' = [plan EXCEPT ![p] = instructions \o Tail(@)]
    /\ outcome' = IF plan'[p] = <<>> THEN [outcome EXCEPT ![p] = "done"] ELSE outcome
    /\ at' = [at EXCEPT ![p] = "start"]

\* An exception leaves the job; with-blocks release the lock.
Raise(p, how) ==
    /\ plan' = [plan EXCEPT ![p] = <<>>]
    /\ outcome' = [outcome EXCEPT ![p] = how]
    /\ at' = [at EXCEPT ![p] = "start"]
    /\ fd' = [fd EXCEPT ![p] = None]

Goto(p, next) == at' = [at EXCEPT ![p] = next]

First(p, what, where) == plan[p] # <<>> /\ Head(plan[p]).do = what /\ at[p] = where

-----------------------------------------------------------------------------
(* Instructions that read.                                                  *)

Replace(p) ==
    /\ First(p, "replace", "start")
    /\ LET i == Head(plan[p])
       IN  Continue(p, IF Contains(i.len, i.key) THEN <<Evict(i.len, i.key)>> ELSE <<>>)
    /\ UNCHANGED <<files, locks, ghosts, filed>>

\* save returns its key.
Saved(p) ==
    /\ First(p, "saved", "start")
    /\ filed' = filed \cup {Head(plan[p]).key}
    /\ Continue(p, <<>>)
    /\ UNCHANGED <<files, locks, ghosts>>

\* sorted(self.list())
List(p) ==
    /\ First(p, "scan", "start")
    /\ LET i == Head(plan[p])
       IN  Continue(p, InOrder(Listed(i.len), LAMBDA k : Do("move", i.len, k, i.rec)))
    /\ UNCHANGED <<files, locks, ghosts, filed>>

\* A bug: the old entry is evicted before the new one is written.
MoveEvictFirst(p) ==
    /\ First(p, "move", "start")
    /\ LET i == Head(plan[p]) IN
         IF Contains(i.rec, i.key) THEN Continue(p, <<Evict(i.len, i.key)>>) /\ UNCHANGED fd
         ELSE IF ~Readable(i.len, i.key) THEN Raise(p, "unreadable")
         ELSE /\ Continue(p, <<Evict(i.len, i.key), Put(i.rec, i.key, entry[i.len][i.key])>>)
              /\ UNCHANGED fd
    /\ UNCHANGED <<files, lockfile, ghosts, filed>>

\* _refix_one and the eviction: an entry that the target has is not copied.
Move(p) ==
    /\ First(p, "move", "start")
    /\ LET i == Head(plan[p]) IN
         IF Contains(i.rec, i.key) THEN Continue(p, <<Evict(i.len, i.key)>>) /\ UNCHANGED fd
         ELSE IF ~Readable(i.len, i.key) THEN Raise(p, "unreadable")
         ELSE /\ Continue(p, <<Put(i.rec, i.key, entry[i.len][i.key]), Evict(i.len, i.key)>>)
              /\ UNCHANGED fd
    /\ UNCHANGED <<files, lockfile, ghosts, filed>>

\* The storage is opened, which refuses a root with other lengths in it.
Open(p) ==
    /\ First(p, "check", "start")
    /\ IF Observed \subseteq {Head(plan[p]).len} THEN Continue(p, <<>>) /\ UNCHANGED fd
       ELSE Raise(p, "inconsistent")
    /\ UNCHANGED <<files, lockfile, ghosts, filed>>

\* A bug: the old key is evicted also when it is the new one.
ApplyEvicts(p) ==
    /\ First(p, "apply", "start")
    /\ LET i == Head(plan[p])
           new == Record(entry[i.len][i.key].of, entry[i.len][i.key].times + 1)
       IN  Continue(p, IF ~Readable(i.len, i.key) THEN <<>>
                       ELSE Saving(i.len, program.run.image[i.key], new)
                            \o <<Evict(i.len, i.key)>>)
    /\ UNCHANGED <<files, locks, ghosts, filed>>

\* One key of transform: the record is loaded, or skipped when it is gone.
Apply(p) ==
    /\ First(p, "apply", "start")
    /\ LET i == Head(plan[p])
           to == program.run.image[i.key]
           new == Record(entry[i.len][i.key].of, entry[i.len][i.key].times + 1)
       IN  Continue(p, IF ~Readable(i.len, i.key) THEN <<>>
                       ELSE Saving(i.len, to, new)
                            \o IF to = i.key THEN <<>> ELSE <<Evict(i.len, i.key)>>)
    /\ UNCHANGED <<files, locks, ghosts, filed>>

\* One key of rebag: read, to be written back without the lock.  An entry that
\* cannot be read is skipped (OSError) or ends the run (KeyError).
Rebag(p) ==
    /\ First(p, "rebag", "start")
    /\ LET i == Head(plan[p]) IN
         \/ /\ Readable(i.len, i.key)
            /\ plan' = [plan EXCEPT ![p][1].rec = entry[i.len][i.key]]
            /\ Goto(p, "inside")
            /\ UNCHANGED <<fd, outcome>>
         \/ /\ ~Readable(i.len, i.key)
            /\ \/ Continue(p, <<>>) /\ UNCHANGED fd
               \/ Raise(p, "unreadable")
    /\ UNCHANGED <<files, lockfile, ghosts, filed>>

-----------------------------------------------------------------------------
(* The lock of a bag: the path is opened, the inode locked.                 *)

Locks(p) == plan[p] # <<>> /\ Head(plan[p]).do \in {"put", "evict"} /\ Head(plan[p]).len # 0

Inodes == 1 .. Cardinality(Processes) + Cardinality(AllBags) + 1
InUse == {lockfile[b] : b \in AllBags} \cup {fd[p] : p \in Processes}

OpenLock(p) ==
    /\ Locks(p) /\ at[p] = "start"
    /\ LET b == Mine(p)
           inode == IF lockfile[b] = None THEN Smallest(Inodes \ InUse) ELSE lockfile[b]
       IN  /\ lockfile' = [lockfile EXCEPT ![b] = inode]
           /\ fd' = [fd EXCEPT ![p] = inode]
    /\ Goto(p, "opened")
    /\ UNCHANGED <<files, plan, outcome, ghosts, filed>>

Inside(p) == Locks(p) /\ at[p] \in {"inside", "writing", "emptied", "gone"}
Held(inode) == \E q \in Processes : Inside(q) /\ fd[q] = inode

\* A bug: the bag is entered whoever holds the lock.
LockAnyway(p) ==
    /\ Locks(p) /\ at[p] = "opened"
    /\ Goto(p, "inside")
    /\ UNCHANGED <<files, locks, plan, outcome, ghosts, filed>>

\* A lock that is held, or that is no longer the path's, is opened again.
Lock(p) ==
    /\ Locks(p) /\ at[p] = "opened"
    /\ IF Held(fd[p]) \/ (program.rechecks /\ fd[p] # lockfile[Mine(p)])
       THEN Goto(p, "start") /\ fd' = [fd EXCEPT ![p] = None]
       ELSE Goto(p, "inside") /\ UNCHANGED fd
    /\ UNCHANGED <<files, lockfile, plan, outcome, ghosts, filed>>

\* Another process, which may be one that only reads, holds it too long.
TimesOut(p) ==
    /\ Locks(p) /\ at[p] = "opened"
    /\ Raise(p, "timeout")
    /\ UNCHANGED <<files, lockfile, ghosts, filed>>

Unlock(p) == fd' = [fd EXCEPT ![p] = None]

-----------------------------------------------------------------------------
(* Writing in place.                                                        *)

File(n, k, r) == entry' = [entry EXCEPT ![n][k] = r]

PutFile(p) ==
    /\ First(p, "put", "start") /\ Head(plan[p]).len = 0
    /\ File(0, Head(plan[p]).key, Head(plan[p]).rec)
    /\ Continue(p, <<>>)
    /\ UNCHANGED <<bags, broken, locks, ghosts, filed>>

\* The bag is opened for writing, or made.
BeginPut(p) ==
    /\ \/ First(p, "put", "inside")
       \/ First(p, "rebag", "inside") /\ Head(plan[p]).len # 0
    /\ Mine(p) \notin bags \/ Opens(Mine(p))
    /\ bags' = bags \cup {Mine(p)}
    /\ Goto(p, "writing")
    /\ UNCHANGED <<entry, broken, locks, plan, outcome, ghosts, filed>>

\* rebag writes a file of its own in place too.
RebagFile(p) ==
    /\ First(p, "rebag", "inside") /\ Head(plan[p]).len = 0
    /\ File(0, Head(plan[p]).key, Head(plan[p]).rec)
    /\ Continue(p, <<>>)
    /\ UNCHANGED <<bags, broken, locks, ghosts, filed>>

EndPut(p) ==
    /\ at[p] = "writing"
    /\ IF WritesIn(p, Mine(p)) THEN File(Head(plan[p]).len, Head(plan[p]).key, Head(plan[p]).rec)
       ELSE UNCHANGED entry
    /\ Unlock(p)
    /\ Continue(p, <<>>)
    /\ UNCHANGED <<bags, broken, lockfile, ghosts, filed>>

\* What a write that was cut short leaves: no group, half a group, or a file
\* that does not open.
CutShort(p) ==
    LET i == Head(plan[p]) IN
    /\ damaged' = TRUE
    /\ \/ ~WritesIn(p, Mine(p)) /\ UNCHANGED <<entry, broken>>
       \/ /\ WritesIn(p, Mine(p))
          /\ \E left \in {None, Torn} : File(i.len, i.key, left)
          /\ UNCHANGED broken
       \/ WritesIn(p, Mine(p)) /\ broken' = broken \cup {Mine(p)} /\ UNCHANGED entry

\* h5py chokes on the value: SaveError.
PutFails(p) ==
    /\ at[p] = "writing" /\ Head(plan[p]).do = "put"
    /\ CutShort(p)
    /\ Raise(p, "save error")
    /\ UNCHANGED <<bags, lockfile, jobs, crashes, program, filed>>

\* A bag that does not open: OSError, which rebag skips.
OpenFails(p) ==
    /\ plan[p] # <<>> /\ at[p] = "inside" /\ Head(plan[p]).len # 0
    /\ Mine(p) \in bags /\ ~Opens(Mine(p))
    /\ IF Head(plan[p]).do = "rebag" THEN Continue(p, <<>>) /\ UNCHANGED fd
       ELSE Raise(p, "os error")
    /\ UNCHANGED <<files, lockfile, ghosts, filed>>

-----------------------------------------------------------------------------
(* _evict: the bag goes with its last entry, and the lock file with it.     *)

EvictFile(p) ==
    /\ First(p, "evict", "start") /\ Head(plan[p]).len = 0
    /\ File(0, Head(plan[p]).key, None)
    /\ Continue(p, <<>>)
    /\ UNCHANGED <<bags, broken, locks, ghosts, filed>>

NoBag(p) ==
    /\ First(p, "evict", "inside") /\ Mine(p) \notin bags
    /\ Unlock(p) /\ Continue(p, <<>>)
    /\ UNCHANGED <<files, lockfile, ghosts, filed>>

Delete(p) ==
    /\ First(p, "evict", "inside") /\ Opens(Mine(p))
    /\ LET i == Head(plan[p]) IN
         /\ File(i.len, i.key, None)
         /\ IF KeysIn(Mine(p)) \subseteq {i.key}
            THEN Goto(p, "emptied") /\ UNCHANGED <<fd, plan, outcome>>
            ELSE Unlock(p) /\ Continue(p, <<>>)
    /\ UNCHANGED <<bags, broken, lockfile, ghosts, filed>>

UnlinkBag(p) ==
    /\ First(p, "evict", "emptied")
    /\ bags' = bags \ {Mine(p)} /\ broken' = broken \ {Mine(p)}
    /\ entry' = [n \in Lengths |-> [k \in Keys |->
                    IF n # 0 /\ Bag(n, k) = Mine(p) THEN None ELSE entry[n][k]]]
    /\ plan' = [q \in Processes |-> IF WritesIn(q, Mine(p)) THEN [plan[q] EXCEPT ![1].rec = None]
                                    ELSE plan[q]]
    /\ Goto(p, "gone")
    /\ UNCHANGED <<locks, outcome, ghosts, filed>>

UnlinkLock(p) ==
    /\ First(p, "evict", "gone")
    /\ lockfile' = [lockfile EXCEPT ![Mine(p)] = None]
    /\ Unlock(p) /\ Continue(p, <<>>)
    /\ UNCHANGED <<files, ghosts, filed>>

-----------------------------------------------------------------------------
\* A process dies; the operating system takes its locks.
Crash(p) ==
    /\ plan[p] # <<>> /\ crashes < MaxCrashes
    /\ IF at[p] = "writing" THEN CutShort(p) ELSE UNCHANGED <<entry, broken, damaged>>
    /\ Raise(p, "crashed")
    /\ crashes' = crashes + 1
    /\ UNCHANGED <<bags, lockfile, jobs, program, filed>>

Step(p) ==
    \/ Replace(p) \/ Saved(p) \/ List(p) \/ Move(p) \/ Open(p) \/ Apply(p) \/ Rebag(p)
    \/ OpenLock(p) \/ Lock(p) \/ TimesOut(p)
    \/ PutFile(p) \/ BeginPut(p) \/ RebagFile(p) \/ EndPut(p) \/ PutFails(p) \/ OpenFails(p)
    \/ EvictFile(p) \/ NoBag(p) \/ Delete(p) \/ UnlinkBag(p) \/ UnlinkLock(p)

Next == \E p \in Processes : Begin(p) \/ Step(p) \/ Crash(p)

Spec == Init /\ [][Next]_vars

-----------------------------------------------------------------------------
TypeOK ==
    /\ entry \in [Lengths -> [Keys -> Records \cup {Torn, None}]]
    /\ bags \subseteq AllBags /\ broken \subseteq bags
    /\ \A n \in Lengths \ {0}, k \in Keys : entry[n][k] # None => Bag(n, k) \in bags
    /\ lockfile \in [AllBags -> Inodes \cup {None}]
    /\ fd \in [Processes -> Inodes \cup {None}]
    /\ at \in [Processes -> {"start", "opened", "inside", "writing", "emptied", "gone"}]
    /\ \A p \in Processes :
         /\ plan[p] = <<>> => at[p] = "start"
         /\ (plan[p] # <<>>) <=> (outcome[p] = "busy")
    /\ filed \subseteq Keys

Jobs == UNION {program.run.jobs[p] : p \in Processes}
Calls(what) == \A job \in Jobs : job.do \in what
AtStart == UNION {program.run.filed[n] : n \in Lengths}
Whole(n, k) == entry[n][k] \notin {None, Torn}

\* All migrations of the program go to the same length.
OneTarget == \A i, j \in Jobs : i.to = j.to

\* refix and consolidate keep every entry whole in one layout or the other, at
\* every moment: when they are interrupted and begun again, when a lock times
\* out, and when processes that open the same root migrate it to the same
\* length at once, as long as no write in place was cut short.
NothingIsLost ==
    Calls({"refix", "consolidate"}) /\ OneTarget /\ ~damaged =>
        \A k \in AtStart : \E n \in Lengths : Whole(n, k)

\* Once consolidate has returned a storage for a root, that storage holds all
\* entries and the root has no file of another length, also when others that
\* consolidate it are not through yet.
ConsolidatedIsUniform ==
    Calls({"consolidate"}) /\ OneTarget /\ ~damaged =>
        \A p \in Processes : outcome[p] = "done" =>
            \A job \in program.run.jobs[p] :
                /\ \A k \in AtStart : Whole(job.to, k)
                /\ Observed \subseteq {job.to}

\* A root can be migrated at any time, by several, with interruptions.
MigrationsAreSafe == NothingIsLost /\ ConsolidatedIsUniform

\* Each process has keys of its own, and uses each in one length.
KeysAreOwned == \A p, q \in Processes :
    \A i \in program.run.jobs[p], j \in program.run.jobs[q] :
        i.key = j.key => p = q /\ i.len = j.len

\* Processes that save and evict entries of one bag do not take each other's
\* away: an entry whose save returned is there, whole, until it is saved again or
\* evicted, also when other processes time out or die between their writes (with
\* a filelock that notices an unlinked lock file).
EntriesStay ==
    Calls({"save", "evict"}) /\ KeysAreOwned /\ program.rechecks /\ broken = {} =>
        \A job \in Jobs : job.key \in filed => Whole(job.len, job.key)

\* All jobs are about storages of one length.
OneStorage == \A i, j \in Jobs : i.len = j.len

\* No record's new key is the old or the new key of another record of the storage.
Renames == \A job \in Jobs : \A j, k \in program.run.filed[job.len] :
    program.run.image[j] \in {k, program.run.image[k]} => j = k

\* A transform that is not disturbed applies the function to every record just
\* once and leaves nothing of the old ones (CallStorage.transform).
TransformsEach ==
    Calls({"transform"}) /\ OneStorage /\ Renames /\ jobs = 1 /\ ~damaged
    /\ (\E p \in Processes : outcome[p] = "done") =>
        \A job \in Jobs : \A k \in Keys :
            {r \in {entry[job.len][k]} : r # None}
              = {Record(j, 1) : j \in {i \in program.run.filed[job.len] : program.run.image[i] = k}}
=============================================================================
