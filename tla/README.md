# fleche in TLA+

`fleche` memoises Python functions. A decorated function computes a digest of
its name and arguments (the *lookup key*), looks the call up in a cache, and on
a miss runs its body and files a *call record* in a call storage and the
argument and result values in a value storage. Caches are composed (stacks,
pools, wrappers), limited in size, configured by files, queried, served over SSH, and
used from many threads and processes. This directory holds models of the package, the
TLC configurations that check them, and proofs about twelve of the models.

Source paths are relative to `src/src/fleche/`, documents to `src/docs/`.

## 1. Inventory

| Component | State | Operations | What is hard |
|---|---|---|---|
| Per-key locks, `storage/thread_safe.py` | weak table of lock tables per storage object, weak locks per key | `_get_key_lock`, `_operation_context` | locks and tables vanish when nobody refers to them; nested and multi-key operations |
| Decorator and `Cache`, `wrapper.py`, `caches.py`, `call.py` | call records, values | lookup, `prepare`, body, `commit`/`abandon`, `evict`, `gc`, `redigest` | the body runs between sealing and filing; `gc` locks nothing; one call has several forms |
| Functions that return futures, `wrapper.py` | `_in_flight` table, done callbacks | call, callback, rerun | the record is filed by a callback in another thread |
| Size limit, `SizeLimitedMixin` | `_keys`, a lock of its own | `save`, `evict`, `_enforce_size_limit` | two kinds of locks, a count beside the storage |
| Compositions, `CacheStack`, `CachePool`, wrappers | none of their own | all operations forwarded to members | copying hits down, writes past read-only views |
| Query results, `query.py`, memory and void storages | none, or what a stage remembers | stages, consuming methods, `evict`, `transfer` | records are pulled one by one from a cache that is written to |
| Short digests, `storage/base.py`, `caches.py` | none | `expand`, `shrink` | ambiguity across storages and over time |
| Digests, `digest.py`, `_numbers.py`, `_numpy.py`, `_pandas.py`, `_attrs.py` | none | `digest` | numbers of many types, functions that capture each other |
| Destructuring, `storage/destructuring.py` | value entries that refer to others | `save`, `load`, `child_digests` | order of writes, partial failure, what counts as a reference |
| File storages, `storage/file.py`, `pickle_file.py`, `security.py` | one signed file per key, temporary files | save, evict, recode all | processes share files and no lock; crashes; keys are rotated |
| Bag-of-holding files, transformation of stores | HDF bags under file locks, several layouts in one root | save, evict, `refix`, `rebag`, `consolidate`, `transform` | interrupted and opposing migrations, lock files that are unlinked |
| SQL storage, `storage/sql.py` | three tables | save, load, evict, query | reads are several statements, writers of other processes, templates as conditions |
| Remote caches, `remote.py` | connection, lock, memo of the server's info | RPC, `reconnect`, `info`, two-trip saves | lost connections, interrupts, the server's state changes |
| Active cache and executors, `state.py`, `executor.py` | context variables, memoised default | `cache()`, `submit`, bound functions | scopes, worker threads, check then act |
| Configuration, `config.py` | interned caches | walk and merge of files, building, `to_config`, isolated calls | everything around it changes while names are looked up |
| Metadata, `metadata.py` | active hooks, `Runtime`'s open measurements | hooks before and after a body | nested calls, futures, hooks that raise |
| Registration and public names | tables filled at import | | nothing |

What makes each correct:

* locks: operations on one key exclude each other and never wait in a circle;
* life cycle: an answer is what the body computes for that argument, a record
  is under the key of the call as made and its values are stored; every spelling
  and form of one call has one key, different calls have different keys;
* futures: nobody waits inside `_in_flight`, failures are not filed, every
  prepared call is committed or abandoned;
* size limit: the limit holds when a save returns, the count matches the records;
* compositions: all operations of a view tell the same story, read-only views
  do not write, eviction forgets, transfer loses nothing;
* queries: what is delivered was in the cache, a query that nobody disturbs tells all
  of it, and both query engines find the same calls;
* digests: equal digests mean equal values; a prefix names its key or is refused;
* destructuring: what is stored and what is kept loads back at every moment;
* files, bags and SQL: a reader finds whole records; saving again, migrating and
  transforming does not lose one;
* remote: every caller gets the answer to its own request or an error;
* active cache: a result goes to the cache that was active where the call was
  submitted;
* configuration: a file means one place wherever it is read from, a name stays one
  object, `to_config` and `cache_from_config` are inverse;
* metadata: a record tells of its own call.

The hazards behind these are listed line by line in `PROJECT.json`.

## 2. How the modules fit together

```
KeyMutex  <-- refined by --  PerKeyLock   (StorageKeysProofs)
   |  key locks as one-step mutexes
   v
CallLifecycle ---- the save as one step ---> FutureCalls
   (CallLifecycleProofs)                       (CallersProofs)
SizeLimited, CacheViews, StackRaces, Queries (CachesProofs)
RemoteCall <-- refined by --  Remote   (RemoteProofs)
FileStore (FileStoreProofs)   HdfBags (HdfBagsProofs)   SqlCalls (SqlCallsProofs)

Digests <- DigestedParts <- Destructuring ---+
                 ^                           +--> Identity
                 +-------- CallKeys <- Templates ---+
                           DigestPrefixes ----------+
                           (StorageKeysProofs)
NamedCaches <- Config ------------------+
ActiveCache, NamedCaches, Metadata      +--> MCActiveCache
   (all three CallersProofs)  ----------+
CacheViews, Queries, SizeLimited (all three CachesProofs) --> MCCaches
```

The modules compose in two ways. By abstraction: `PerKeyLock` shows that the lock table
behaves like one mutex per key, and every other module uses key locks as such mutexes;
`CallLifecycle` shows what one save under the lock does, and `FutureCalls` takes it as
one step. And by extension: `Destructuring` stores the entries that `DigestedParts`
computes under the digests of `Digests`, `CallKeys` makes keys of the same digests, and
`Identity` asks of all of them, at every moment of the storages, what is taken to be the
same. `MCActiveCache` and `MCCaches` each hold programs that share no state: one
behaviour runs one of them.

Every module that needs finite instances has a companion `MC<module>` with the instances.

| Module | Models | State and actions |
|---|---|---|
| `KeyMutex` | the promise of a per-key lock | which keys each thread is inside of; `Enter`, `Leave` |
| `PerKeyLock` | `PerKeyLockMixin` | entry of the outer weak dictionary (`anchor`, `table`), the inner one (`key_locks`), each thread's stack of locks. One action per step of `_get_key_lock`: lookup, create, get or create the lock, acquire. `CollectLock`, `DropInstance` are the garbage collector. Operations are sequences of keys: nested (`save` calls `contains` and `evict`), sorted (`redigest`), caller-ordered (`shrink`) |
| `CallLifecycle` | `wrapper`, `_run_and_cache`, `Cache.prepare/save/evict/gc`, `Call.stash` | values, records, the two locks of a key, each caller's step. Arguments may be unsaveable and mutated by the body; the body may return None or raise; results may be rejected; `gc` marks, traces and sweeps entry by entry |
| `FutureCalls` | the branch for futures | future, callback and prepared call of each caller, `_in_flight`; the callback's exits one by one |
| `SizeLimited` | `SizeLimitedMixin`, the locks of `Cache.redigest` and `_transfer_one` | `_keys`, the mixin's lock, key locks held across calls by `transfer` and `redigest`; who waits for whom |
| `CacheViews` | `Cache`, `CacheStack`, `CachePool`, wrappers, `QueryIterator` on them | records per leaf; each operation through each view, atomically; what a method answers is a recursion over the members, and a load is a function from what the leaves hold under the key to a leaf and to what they hold after |
| `Queries` | `query.py`, `BaseCache.query`, `memory.py`, `void.py` | the dict's entries in order, the values, and a pipeline: what each stage remembers, the record on its way, what was delivered. One action per record pulled, passed, acted on; another thread saves, evicts and collects values in between |
| `StackRaces` | `CacheStack.load`, `_backfill`, `save`, `evict`, `_transfer_one` | two layers and the steps between them, for one key |
| `Digests` | `digest()` and its arms | pure: a value is a term, its digest the term of salts and contents that is hashed, `Same` the equality the documentation tells, cycles of functions included |
| `DigestedParts` | how a value is taken apart and mended | pure: `Saved`, `Loaded` |
| `Destructuring` | `DestructuringMixin`, `gc` over its entries | which entries are written with which setting; writes one at a time |
| `CallKeys` | binding, lookup keys, `Call`, `DigestedCall`, `LazyCall` | pure: a call as it is spelled, live, stashed, fetched |
| `Templates` | `QueryCall.matches`, `Sql.query` | pure: which stored calls each engine finds |
| `DigestPrefixes` | `expand`, `shrink` of storages, caches, multi caches | digests are short sequences of bits; records and values come and go |
| `Identity` | nothing of its own: the composition | one question about digests, spellings or templates, or the steps of one of the storages |
| `FileStore` | `CallMixin.save` and `load` over `FileStorage`, `_atomic_write`, `_rewrite_all`, `SignedBytes` | one path, temporary files, a lock per process, secret keys per process, crashes; what each thread loaded last. Ghosts, which no guard reads: who has unlinked the old record (`unlinked`), whether a record must be there (`due`) |
| `HdfBags` | the bag-of-holding call storage, `CallStorage.transform` | entries per prefix length, bag files, lock files and the inodes behind them; a job is a plan of instructions, each taken under the file lock; time-outs, crashes |
| `SqlCalls` | `Sql` | the committed row, the one writer, key locks per process and per spelling; one action per statement |
| `RemoteCall` | the promise of a remote call | request sent, served at most once, answered or lost |
| `Remote` | `_Connection`, `SshCache`, `serve` | pipes as sequences of frames, sessions, the lock, the info memo, the stored values and records |
| `ActiveCache` | `state.py`, `wrap_executor` | a context per thread, open scopes, the default, submissions and workers |
| `NamedCaches` | `load_cache_config`, isolated calls of `wrapper.py` | files, working directory, environment, `_live_caches`; a load interns name after name. What the files say of a name is a constant operator |
| `Config` | the rest of `config.py` | pure: `Merged`, `Built`, `ToConfig` translate the walk, the building and the way back; `NamedDefault`, `Described`, `CachesBuilt` are what the `.cfg` gives to `NamedCaches` |
| `Metadata` | `metadata.py`, the metadata half of `state.py` | the hooks of each context, the stack of calls of each thread, clock and CPU time |

## 3. Runs

Where a model has several ways to be used, its initial states choose one (the
constants `Programs`, `Setups`, `Layouts`, the variable `gc_overlaps`, the tree of views),
so one run checks them all, and a property that needs a condition states it: `FullDigestsOnly`,
`OneProcess`, `OneTarget`, `KeysAreOwned`, `BuiltWithout`, `strays = 0`, `~gc_overlaps`, `Trusts`, `Apart`,
`Plainly`, `OneStorage`, `Renames`, `~damaged`, `broken = {}`, `program.rechecks`, `RunsIn`, `NobodyRecodes`, `Keyless`, `Unanchored` are such conditions;
section 5 says what happens without them.

| Run | Question | Bounds |
|---|---|---|
| `perkeylock` | somebody who waits gets in; the lock table refines `KeyMutex` (so operations on one key exclude each other) | 2 threads, 1 storage object, 2 keys, 2 tables, 2 lock objects |
| `lifecycle` | records, values and answers fit together, no miss in the gap of a re-save, `gc` is complete, calls end | 2 threads, 2 arguments, 3 calls without, 2 with an overlapping `gc` (then 1 argument) |
| `caches` | load, contains and query agree; records change as asked (read-only views, transfer); what queries deliver, return, evict and transfer is what the cache had; of a cache of limited size: limit, exact count, which locks close a circle | 15 views nested up to three deep over 2 caches, 1 key, 2 results, one of them filtered out; or one query of up to two stages and every consumer, over at most 3 records, with 2 writes of another thread; or 3 keys and `max_size` 2, for two threads that do everything, three that save, transfer and redigest, or two of which one uses short digests |
| `limit_deadlock` (violation) | no threads wait for one another | 2 threads, one saves, one redigests; 3 keys, `max_size` 2 |
| `evict_resurrected` (violation) | evicted records stay forgotten | 2 threads, 2 layers |
| `futures` | in-flight table, filing, everything finishes and clears | 3 calls of one key |
| `remote` | answers match requests, the connection's lock is left, refinement of `RemoteCall`, no record without its value, no answer from an earlier process | 2 threads, 2 server processes, 1 key; all operations; a read-only server; one interrupted call |
| `identity` | digests, keys of spellings and forms, templates on both engines, what is stored in parts, short digests | some 70 values of every kind, 14 functions that capture values and each other among them; 2 functions called in 16 spellings; 4 calls, some 25 templates; 2 threads that store nested values with 2 settings of `remaining_depth`; 3 digests of 3 bits in 2 members |
| `active_cache` | results go where the call was bound; records tell their calls; names stay one object, configurations are portable | 2 threads, 1 worker, scopes 2 deep; or 2 calls in 2 threads with hooks that nest, raise and defer; or 3 names, 6 directories, 5 layouts of files, 2 changes of the surroundings |
| `files` | whole files; in one process loads never meet the gap of a save nor go back; a record that is due survives between processes that trust each other | 3 threads in 2 processes, 3 saves, 1 crash, 2 keys, one process that compresses |
| `bags` | migrations lose nothing and end uniform, entries of others stay, `transform` takes each record once | 2 processes, 3 keys, 3 prefix lengths, 3 jobs, 1 crash; programs that migrate, share a bag, transform, rebag |
| `sql` | whole records in a process; no gap and no endless operation between processes | 3 threads in 2 processes, 2 saves, 1 crash |

Each violation run checks a sentence of the documentation or of a comment that the code does
not keep; the findings in `PROJECT.json` quote them. All other runs finish without error.

Some properties are conjunctions of named parts, each the reading of one sentence of the
documentation: `OneKeyPerCall` (`SpellingsShareAKey`, `FormsAgree`), `StoredLoadBack`
(`EntriesLoadBack`, `KeptLoadBack`), `ConfigIsPortable` (`FilesMeanOnePlace`,
`ConfigRoundTrips`), `MigrationsAreSafe` (`NothingIsLost`, `ConsolidatedIsUniform`).

Why the bounds are enough. The key locks make different keys independent except
where an operation takes several (two keys suffice for a circle of waiting) or
one entry refers to another. Races here are between one operation and another that
meets it between two of its steps: two threads show each pair, a third thread comes
in where a second process matters (`files`, `sql`) or where a third call can meet what
the second left behind (`futures`). Three keys over a limit of two make a save that must
evict and a choice of victim. A view's operations go through its members without interleaving in
`CacheViews`, so its keys are independent: one is enough, and two were checked once.
Digests of three bits with a minimal length of one are the least in which two, one or no
neighbour share a prefix and in which a shrunk digest can be as long as its key. Of the three
keys in `bags` two share a bag at one length and none at the next, so that a migration both
splits and leaves alone. The values of `identity` are chosen pair by pair: each pair that the
documentation calls equal, or that a careless digest would confuse, is there, and nesting,
wrapping and cycles are one level deeper than the code's cases. Two changes of the
surroundings are one before and one inside a load of a name. Three records show the first,
the middle and the last of a pass. Counters are
capped by constants named `Max...`, each with room for an operation after the
interesting one.

Deadlock is checked unless the program itself may stop (`CHECK_DEADLOCK FALSE`),
that is where saves, calls or server processes are bounded and may run out.

Every module with state has a type invariant, `TypeOK` or one named for the module where
modules are composed, which also says in which steps locks are held. It is what the proofs
start from, and proved in each proof module; in the others it says what the variables hold.

Every property of a passing run has a mutant in `PROJECT.json`: a plausible bug,
written next to the definition it changes, under which TLC finds the property
violated.

### Fairness

* `PerKeyLock`: weak fairness of each thread's steps, since threads run on, and of
  the garbage collector, since CPython frees a lock with its last reference. Nothing is
  assumed of who gets a contended lock, and `WaitersProgress` says no more than that
  somebody gets in.
* `CallLifecycle`: weak fairness of each thread's steps inside an operation. Nobody is
  forced to begin one; a waiter gets its lock because finitely many calls compete.
* `FutureCalls`: weak fairness of the callers and of settled futures' callbacks. A
  future need not settle, and the properties do not say so.
* `Remote`: weak fairness of the threads and of the server's loop: a server that
  lives answers, and one that dies ends the pipe.
* `SqlCalls`: weak fairness of a thread that has its locks; the database's busy
  timeout ends the wait for another writer.
* The other modules have safety properties only. In `HdfBags` that is as it must be: a
  process may always be stopped in the middle, and waiting for a file lock times out.

## 4. Proofs

Each theorem holds for every value of the constants that satisfies the module's
assumptions (which TLC evaluates on every instance).

**`StorageKeysProofs`.** Assumptions: keys are ordered, callers of `shrink` pass
tuples of keys, `None` is no object. `TypeCorrect` needs nothing else. The others
assume that one storage object stands behind a table, which is necessary (section 5).
Mutual exclusion is not inductive: it needs that all threads read the same table (`OneTable`: the anchor is alive while anybody works on its
storage, and a thread's table is the current one), that a lock a thread holds or is
about to take is listed under its key (`LocksAreListed`: a weak value stays while
it is referred to), and that a lock has one holder (`LockExclusive`).
`IInv == TypeOK /\ OneTable /\ LocksAreListed /\ LockExclusive` is inductive;
two threads inside one key would hold the listed lock both. From it follow
`OneInstanceExcludes`, `OneInstanceListsLocks`, and `OneInstanceImplementsKeyMutex`,
the refinement: acquiring enters the key at the top of the stack, exiting leaves
it, every other step is a stutter.

The same module proves about `DigestPrefixes`. Assumptions: full digests are finitely many
sequences of one length, over numbers. The invariant is short (`HandedIs`: what was handed out is a
proper prefix of its key that is long enough); the work is in what `shrink` and `expand` compute.
`Before` is a strict total order, and a finite set so ordered has a first element
(`SomeIsFirst`: one with fewest elements before it). If `k` begins like `d`, it begins
like everything between them, hence like a neighbour (`NeighboursAgree`); so
the length found from the two neighbours is the least from which `k` is alone
(`ShortLengthIs`). `expand` finds all that match or two of them (`ExpandFinds`), so that it names
one key only where one matches. From this `PrefixesStayTrue`, for any length, alphabet, digests
and members.

**`CachesProofs`**, of `SizeLimited`. `IInv` adds to the types that a filed record is counted or
about to be counted by the thread that filed it, and that a key about to be
uncounted is no longer filed. Both are needed because `save` files before it counts
and `evict` drops before it uncounts. From it: no record escapes the count
(`RecordsAreCounted`), and a save that returns leaves at most `max_size` records
(`SizeIsLimited`), for any number of threads and with evictions by short digests.
`CountExact` and `NoNeedlessEviction` state `FullDigestsOnly` in the property itself;
`ExactPart` then adds that what is counted is filed or about to be uncounted. That the
key locks alone close no circle (`KeyLocksCloseNoCircle`, for groups of any size and every
operation) rests on `KeysAscend`: what a thread holds when it waits for a key lock
in front of the operation lies below what it wants, because `redigest` sorts. Take a circle in which nobody
owns the mixin's lock. Then nobody in it waits for that lock, nor is inside `save` or `evict`, so each
waits for a key that another of them holds; the greatest key held in the circle is held by a
thread that wants a greater one, which another of them holds. A circle through the owner
of the mixin's lock cannot be excluded: `limit_deadlock` finds one.

Of `CacheViews`, whose names it can use too, it proves what the run shows of fifteen views for any
tree of them. The assumptions are those that a program cannot break: kinds have members as their classes do,
stacks are flat, and of any views one is built from none of them (`ViewsAreTrees`),
since a frozen object is built from objects that exist. The induction along the tree needs no operator
for a parameter: a set of views that has each view whose members it has is the set of all
(`HoldsOfAll`), and an equation that gives a view an answer from the answers of its members has
a solution (`EquationHolds`, `RecursionWorks`), so that the recursive definitions of the model mean
something (`LoadingIs` and its like). A load is the only method that writes on the way: without a
stack below it leaves the leaves as they are (`NothingIsCopied`), and a load that misses does so
unless a filter hides what a stack copied (`MissesAreQuiet`), so that a multi cache asks all members about the
same records (`FirstHitIsFirst`). From it: `ViewsTellTheSame` and `RecordsChangeOnlyAsAsked`.

Of `Queries` it proves `QueriesTell`, for any stages, consumers and records. Assumption
(`QueriesFit`): the stored records have keys of their own, only `transfer` pops, `groupby` puts its own stage
last. Two invariants. `QInv` holds whatever another thread writes. It says where each
record is: still to be pulled, on its way, held by a sorted stage, or
delivered, in one of these places only (`RecordsApart`, from which no key is delivered twice), and, where
no stage limits the query, each of those there were at the beginning in one of them (`NoneIsLost`).
`StorageKeeps` says that a record which is not delivered yet, or was delivered by a query
that removes nothing, is in the storage unless it was evicted meanwhile: so a `KeyError` has a
reason, and a transfer that pops has copied what it pops. `GroupsFit` is about what `groupby` remembers.
`Tells` is about a query that nobody disturbs. What stages mean of the records at the beginning is a
sequence of sequences (`Chain`); what has passed each stage so far is what the stage means of what
has reached it (`Flown`), and the source is a beginning of its sequence with the rest to come
(`Pulled`). A stage that does not sort means as much more, the more it gets (`MeansOneMore`,
`MeaningGrows`), and remembers enough to do with the next record what it means (`StageMeans`); so when the
source is over, or a full `take` asks for no more, what was delivered is what is meant, and
a sorted stage has all that it is to sort. A record that `evict` removes has been pulled,
which is why removing it does not disturb the query. Recursion along sequences (`Meant`, `Kept`) is unfolded by
induction over sets of numbers and of sequences, from the well-foundedness of `Nat`: no operator is a
parameter.

The same module proves about `StackRaces`, taken as an instance whose variables are
parameters (`Races`, under the hypothesis `NamesAreApart`): a thread that copies a hit down is
inside the base cache's context and the base is empty, because `contains` was asked inside the
context and every writer waits for it. From it: a copy or a transfer replaces no record
(`NothingIsReplaced`), for any number of threads. What such a copy can do to an eviction is the
violation run.

**`CallLifecycleProofs`.** Assumptions: bodies return results, entries refer to entries,
markers are no digests, the runs with `gc` use some of the arguments. Three invariants,
one upon the other. `IInv` adds to the types that the argument is as passed until
`prepare` seals it, that what is sealed is the argument the call was made with, and that
a result in hand is one of the body's for it; `FiledUnderOwnKey` and `AnswersAreGenuine`
are its last conjuncts (`RecordsAreFiledRight`, `CallsAnswerGenuinely`). `LocksHeld` says
that a thread between commit and return holds the lock of its sealed key, which is why a
lookup sees no gap (`LookupsSeeNoGap`). `AloneInv` is about programs that run `gc` between
calls: a result is in the storage, or on its way, before a record names it; marking has
found the roots of all records it has visited, tracing has followed all entries it has
taken up, and nothing is marked that no record refers to. `TracedIsWhole` is its core:
`Closure` is the least closed set, and the part of it that is marked is closed, so all
of it is marked. From it: `NothingDangles` and `GcLeavesNoGarbage`, for values nested
and shared in any way.

**`RemoteProofs`.** Assumptions: the set-ups have the fields the module names, `None` is
no thread or key. The invariant must say where the one request is: frames carry no number,
so that an answer fits rests on the lock's owner finding in the pipes its own request, or
the answer to it, or nothing because the process is gone (`RequestIsOut`), and on pipes
that hold only what interrupted callers left while nobody waits (`PipesAreQuiet`); a new
process begins with new pipes (`AnswersAreRecent`). From it `AnswersFit`,
`AnswersAreOfThisProcess`, and the refinement `RemoteImplementsRemoteCall`: a step of the
thread on the connection, or of the server, moves that thread's request alone, every other
step is a stutter. `NoRecordWithoutResult` proves `RecordsHaveValues` where the set-up is
`Steady`: nobody is interrupted, and a server that is replaced comes up with the flag it had.
`ResultComesFirst` follows the answer to `save_value` through the pipe and the caller's hands
to the sending of `save`. Without `Steady` it fails: a read-only server answers `save_value`
without storing, and one that is no longer read-only then files the record. That a waiting thread's request is nowhere once the process has died
(`ServerIsCurrent`) is what excludes an effect after the loss was reported.

**`FileStoreProofs`.** Assumptions: each thread has a process, `None` is no record. A
file becomes whole before it is renamed and nothing else writes the path, so that
`ThePathIsWhole` rests on no lock at all, but on names: what is in a thread's temporary file when it is renamed, only
that thread has written (`TempsAreOwn`). `LoadsOnlyGoForward` does rest on the lock: `OneAtATime` says of a
program in one process that whoever is at work holds the lock and writes the newest version, and that no
version was loaded that is newer than the file's; a load waits for the lock, so no save has unlinked and not yet
written. `TheRecordSurvives` is about any processes: a record that is due
is in the file, or a save that unlinked it is about to write another
(`DueIsThere`), and whatever is on the way to the path was signed by one of the
processes at work (`SignersAreKnown`), which `Trusts` turns into a verified load.

**`CallersProofs`**, of `ActiveCache`. Assumptions: caches of bodies, of callers and defaults are apart,
as are threads and workers. The invariant says that a submitting thread, with all its open
blocks, has never seen a cache of a body (`Submits`), that what was found active stays so
until it is bound, and that a busy worker holds what was bound (`Works`). The cache a body left
behind in a worker's context may be there when the next call begins; it is saved and
restored, and never filed in (`FiledWhereBound`).

Of `FutureCalls`, whose names it can use beside those of `ActiveCache`, it proves that a
callback runs only for a settled future and that a caller has no future before its body
returned one. From it: what is found in `_in_flight` is settled (`NoWaitInFlight`) and only
values are filed (`FailuresAreNotFiled`), for any number of callers.

Of `Metadata` it proves `RecordsTellTheirOwnCalls`, for any hooks, threads and nesting of calls and
blocks. Assumption: a `Tags` and a `Runtime` hook have the name of their class; other hooks may share it.
The invariant is about every call that is on some thread's stack, under calls that it made itself, or
waits for its future (`FrameOK`): its four moments and its CPU time are in order and none is in the
future (`Timed`), and its facts are those of the hooks that have run so far: their names
(`NamesTold`), for each tag what the last of them that has it says (`TagsTold`), and where one
`Runtime` ran, the moments it saw (`TimeTold`; with two, the second subtracts from what the first left,
section 5). Two lemmas, one for a hook before and one for a hook after the body, carry the argument;
one more is about a clock that goes on. The operators of the model that choose a tag's last
word are quantifiers, not a fold, so that the prover can use them.

Of `NamedCaches` it proves `NamesAreInterned`, for whatever files and tables may say. Assumption:
no cache name is the absence of one. That a name is one object needs more than that
`_live_caches` is a dictionary, for a load reads it, loads the next name and writes it. So `LoadFits` says how the names under way
follow each other (a default that files name, below `NoName`, below `"default"`) and that no name
outside the one that is found was live when it was passed; `DefaultsAgree` that the name `"default"`
is live only with the object of the default; `AnswersAreLive` that what was returned for a name is the
object that is live under it. The files may be edited in the middle of a load.

**`SqlCallsProofs`.** Assumptions: each thread has a process, `None` is no record. One database
has one writer, but a read is several statements in no transaction, so that it sees one record
only if no other thread of the process commits in between. `LocksAreHeld` says that an operation
by the full key has that key's lock from its first statement to its last, and
`LocksAreLocal` that a lock is taken by threads of its process; so one thread is inside
(`OneInside`), and what a read has fetched is of the record that is in the row still
(`ReadsAgree`). From it: `ReadsReturnOneRecord`. `SavingAgainIsAtomic` needs no lock: who has
deleted the row is about to commit another (`SavesBring`), or loses its transaction.

**`HdfBagsProofs`.** Assumptions: processes, keys and lengths are finite, keys are numbers in
the order of the digests, a file of length 0 holds one key. `Base` says how far a process may be in which instruction, and that an entry outside the
one-file layout is in a bag that is there. `MigrationsKeepEntries` is about
programs that only refix and consolidate, to one length. Its invariant reads the plans: nothing is put
but in the target, nothing is taken from it, and an instruction that evicts is about an entry
that is whole in the target, or comes right after the one that puts it there (`MoveFits`); who is
about to unlink a bag found nothing in it, and nothing came since (`Emptied`). That rests on no lock:
puts go to bags of the target and unlinks to bags of other lengths. So an entry
leaves a layout only when it is whole in the target (`Grows`), whatever fails or dies.
`ConsolidationInv` adds that the last instruction of a consolidation is the opening of
the target, which refuses a root with other lengths, and that other lengths do not
come back. `SavedEntriesStay` is about programs that save and evict in
shared bags, and there the lock is all: with a filelock that looks again after locking, who is
inside a bag has locked the inode of its lock path (`LocksHold`), so two are never inside one
bag, an entry that another writes into the bag cannot be lost to an unlink, and a process's step
leaves the entries of others as they are (`Local`). `Works` says what is left of a save, and that its
entry is there when nothing but the return is. `TransformAppliesOnce` is about one process that
transforms a storage and is not disturbed. Its invariant (`TransformInv`) reads its plan backwards: behind
the instructions for the record it is at, each record that is left waits once and is as it was
filed, and all others are under their new keys only (`Going`); the instructions in front
say which of the record's two keys hold what (`Rewriting`: replace, clear, put, drop, and whether the
deletion inside a bag is done). A step changes what is under those two keys only (`OnlyFoot`), and
`Renames` makes the pairs of two records disjoint (`FeetApart`); that the file is read as it
is on disk needs that nobody writes (`AloneReads`).

Only model-checked: everything under fairness (`WaitersProgress`, `CallsReturn`,
`FuturesFinish`, `ConnectionIsLeft`, `OperationsReturn`), which is out of the prover's
reach; the digests, keys, templates and stored parts of `identity` (`DigestsMeanValues`,
`OneKeyPerCall`, `QueriesAgree`, `StoredLoadBack`) and what `Config` translates (`ConfigIsPortable`), all of
them recursions over nested values and files: those modules declare RECURSIVE operators,
which leave `tlapm` without its SMT backend.

## 5. Observations

The models make these behaviours of the code visible. Each contradicts or stretches
the sentence it is set against. The circle of locks is also the run `limit_deadlock`; each of the others is the
reason for a condition in a property or for a property that is not claimed.

Locks, calls and caches

* Locks are found by the equality of storage objects (`thread_safe.py:131`): of two
  objects that compare equal the second shares the first one's table and loses it when
  the first is collected. "Operations on the *same* key are serialized by the per-key
  lock" (`thread_safe.py:114-115`) then fails; `perkeylock` has one object.
* Batched `shrink` locks keys in the caller's order (`base.py:273`) and two batches can
  wait for each other; `perkeylock` has callers that pass sorted keys.
* Operations under a short digest lock the short spelling: in `SqlCalls` an eviction by
  one can commit between the statements of a load by the other, which returns a call
  without its arguments (`sql.py:341`), and so can a save between the statements of a load or a query
  where short keys are used. `LoadsAreWhole` is about programs that spell keys in full.
* A `gc` that overlaps calls can sweep a value whose record is filed next
  (`caches.py:496`): `NoDanglingRecords` says `gc_overlaps \/ ...`. Answers stay genuine
  in either case.
* `redigest` and a transfer hold key locks when their `save` waits for the size limit's lock, while a
  save holds that lock and waits for a key, to file its record or to evict it (`caches.py:993`). Both
  then wait for ever: the run `limit_deadlock`, against the comment at `caches.py:450-451`.
  `CirclesPassTheLimit` says that there is no other way to it.
* Eviction by a short digest leaves the full key in `_keys` (`caches.py:1005`), and a
  later save evicts although the cache is not full: the condition `FullDigestsOnly`.
* `FilteredCache.contains` is the wrapped cache's (`caches.py:591`): the condition
  `BuiltWithout(v, "filtered")`. Eviction through the query of a read-only view reaches
  the members (`query.py:193`), and a pool's load makes a stack among its members copy a
  hit down (`caches.py:933`): the conditions in `RecordsChangeAsAsked`. A filter asks its predicate when
  the wrapped stack has copied (`caches.py:598`), so that a load may write a record which the view refuses, and a pool
  with the stack's base as a later member then returns it: the condition `StacksShown`. A stack whose first
  member is read-only is reported read-only (`remote.py:205`), so that a client refuses an
  `evict` which the stack would have passed to its other members.
* A future enters `_in_flight` in its own callback (`wrapper.py:229`), so callers that
  come before that run the body again, and a rerun that comes after it is answered
  without executing (`wrapper.py:230`). A hook that raises in `post` leaves the prepared
  call open (`wrapper.py:288`).
* `Cache.shrink` looks into the storage that holds the key and `expand` into both, so a
  shrunk digest may be refused as ambiguous (`caches.py:369`); the `shrink` of a multi cache
  finds keys of calls only (`caches.py:669`). Refused, never wrong: `ShortsStayTrue`.
* Two threads can each build the default cache (`state.py:28`); a record evicted between
  `contains` and `load` makes `submit` raise (`executor.py:102`).

Digests, stored parts and queries (`identity`, `caches`)

* The class `int` digests as the string `"builtins.int"`, against "every other value
  digests by its type as well as its content" (`docs/digests/digest_equivalence.rst:80`); a
  complex number tells zeros by their sign (`:44`, `:68`); NaNs digest by their bits
  (`:49`). `Apart` leaves these out. Salt and content are hashed without a delimiter, so a
  subclass of `str` whose name continues `str` can collide; the model's terms cannot.
* Functions that reach the same captures through different unrollings of a cycle digest
  differently; `DigestsMeanValues` claims the other direction for them.
* A class with a `__digest__` of its own digests otherwise once its instance is wrapped
  (`destructuring.py:142`, `caches.py:60`): the call is prepared under a key that no
  lookup asks for, and never hits. `FormsAgree` and `StoredLoadBack` are about other values.
* A digest inside a nested list that is inlined is not restored by `load` nor followed by
  `gc` (`destructuring.py:291`); a wrapper that is inlined comes back as such. The instance
  has a digest directly in a saved list.
* `make_query` builds its template without the flags `hash_version` and `hash_module`
  (`wrapper.py:144`), and does not expand short digests; `None` as an argument is a wildcard. The
  templates of `QueriesAgree` that come from calls have both flags.
* SQL and Python disagree over a `Digest` given as a name, module or version, over a
  version of another numeric type, and over a `code_digest` that is a plain string
  (`sql.py:492`): the condition `Plainly`. `Required` says "keyword" where a positional
  argument is accepted too.
* A record evicted between `list` and `load` lets `KeyError` out of a query
  (`base.py:446`, `sql.py:547`), and a value gone by then makes `sorted` raise `TypeError` and `unique` or
  `groupby` take equal arguments for different ones (`call.py:460`). `transfer(pop=True)`
  evicts by key whatever was saved there meanwhile, and a cache that is transferred to
  itself with `overwrite` and `pop` is left without the records. `table` overwrites columns whose
  names clash.

Files, bags and SQL

* `save` unlinks the old file before it writes the new one (`base.py:424`), so readers
  without the lock find a gap, and a process that dies there, or whose write fails, leaves none:
  `due` is then false. `compress_all`
  may write back an older record, or one that was evicted (`pickle_file.py:151`), so that a
  load goes back: the condition `NobodyRecodes` of the second half of `LoadsGoForward`.
* A storage without keys reads whatever is there. One with keys says `contains` of a record
  whose signature it refuses, fails to load it, and replaces it with the next save: the condition `Trusts`.
* `transform` evicts each old key after it saved the new one (`base.py:402`): where the new key of
  one record is the old key of another, the second is overwritten or transformed twice, and of
  two records with one new key the last is kept (`Renames` excludes both). A run that is
  repeated after an interruption transforms again what the first had done (`jobs = 1`).
* A write in place that is cut short leaves a torn group. A `refix` that is run again skips
  the key because the torn entry is there, and evicts the good original: the condition
  `~damaged`. Migrations to different lengths at once lose entries to each other: the condition
  `OneTarget`. A crash after the last entry of a bag is evicted and before its
  file is unlinked makes `consolidate` raise `ValueError` from then on.
* `_evict` unlinks the lock file others wait for (`bagofholding_file.py:328`). Releases of
  filelock that look again after locking are not deceived; with others two processes hold
  "the" lock: `program.rechecks`. A process that dies while it writes into a bag leaves a file that
  HDF5 opens no more, with the entries of others in it: the condition `broken = {}` of `EntriesStay`. A save that times out waiting, after its eviction was done, has lost
  the record; `rebag` writes without the file lock. Two processes that save one key may each
  evict what the other has just stored: the condition `KeysAreOwned`.

Configuration and metadata (`active_cache`)

* A database by a relative `sqlite:///` URL stays relative where the values beside it
  are anchored (`Unanchored`); `to_config` omits an empty `secret_key`, so a storage
  without keys is rebuilt with those of the environment (`Keyless`). A `version_validator` of None has
  no TOML form.
* A root file that does not parse counts as empty, and the walk goes on upwards.
  `[default] cache = "default"` recurses until Python stops it; a name that no file has
  becomes a memory cache for the rest of the process; two threads that load one name at once build
  two objects (`config.py:745` against the comment at `:791`); `max_size` and `read_only`
  beside `pool` are ignored.
* An isolated call changes the working directory of the process: names resolved meanwhile
  see other files, two isolated calls that overlap restore each other's, and a future that
  outlives its call finds its directory gone.
* Two `Runtime` hooks on one call, one active and one given to `fleche`, share a name: the
  record has the CPU time since the process began, against `metadata.py:125`
  (`metadata.py:173`). `RecordsTellTheirCalls` claims CPU time for one. An unknown name in
  `[default].metadata` makes every call raise before its body.

Remote

* An interrupted `_Connection.call` leaves its response in the pipe, where the next call
  takes it for its own (`remote.py:465`): `AnswerMatchesRequest` holds for `strays = 0`.
  A lost connection is opened again by the next call (`remote.py:461`) though
  `docs/dev/ssh_cache.rst:296-299` says "There is no automatic reconnect"; an `info` that
  was under way stores its answer after `reconnect` cleared the memo (`remote.py:957`);
  `reconnect` waits for the lock of the call that hangs (`remote.py:485`). A server whose
  cache turns read-only between the two trips of a save answers the digest of a value it
  did not store (`remote.py:165`); the setups keep a server one or the other.

## 6. Not modelled

* The bytes: SHA-256 (taken to be injective), pickling, compression, HDF5 groups, the
  columns of the SQL tables, the bytes of a signature. Each is one step that may fail where the code
  lets it, and a function of the value elsewhere.
* Some ways out of an operation, and some steps taken together. The put of `CallLifecycle` never fails
  (`base.py:425`; a failing write is in `FileStore`), nor does the `prepare` of a call that returns a future
  (`wrapper.py:245`); `CallKeys` keeps the digest of a result that is missing where the code raises
  `KeyError` (`call.py:511`); a caller of `Remote` is interrupted while it waits, not while it sends; a save of
  parts ends at a write that fails, not at a part without a digest (`destructuring.py:293`). In `HdfBags` the look into the
  target and the `get` that follows (`bagofholding_file.py:202`), the opening of a bag for a deletion (`:322`), and
  the write of `rebag` (`:367`) are one step each. `Templates` compares metadata as they were before
  their way through JSON (`sql.py:326`). In `Metadata` the clock never goes back and `Tags.name` is its
  default. The class of a `__class__` cell is told without a check (`digest.py:191`).
* Parsing: TOML, environment strings, ssh targets, command lines, the handshake of the
  remote protocol and its version numbers. Frames are whole; sizes beyond the header's four bytes and
  partial reads of raw pipes are a hazard without a property.
* What the operating system is asked: `Git` and `Environment` hooks, pragmas and network
  file systems, forwarding of stderr.
* Which victim a size limit chooses: the subclasses differ in nothing else.
* `SimpleLockMixin`, one lock around everything; the layout of `table` and of `repr`s; deprecation
  messages; `__init__.py` and `__main__.py`, which re-export and print; digest hooks of other
  packages and their lazy loading, but for one hooked class.
* Outside `src/fleche`: notebooks, figures and the documentation's build, more than a third of the
  repository's lines, which have no behaviour of the program in them.

## 7. Plan

The order of the work was: locks, life cycle, size limit, compositions, futures, remote,
short digests, destructuring, active cache, files, SQL; then bags and migrations, digests,
keys and templates, configuration, metadata, queries, signatures.

What could follow: bytes of frames on raw pipes below `Remote` (partial writes, headers that
arrive in two); the loading of digest hooks while other threads digest.
