------------------------------ MODULE FileStore ------------------------------
(***************************************************************************)
(* A call storage of pickles kept as one file per key (file.py,              *)
(* pickle_file.py), shared by several processes.  One key is followed.  save *)
(* takes the key's lock of its own process, looks the file up, unlinks it,   *)
(* writes a temporary sibling and renames that over the path.  evict unlinks *)
(* under the lock; compress_all and decompress_all rewrite the file without  *)
(* it.  A record is signed with the first secret key of the process that     *)
(* writes it and read with any of those of the process that reads it         *)
(* (security.py).  A process may die at any step: its locks go, its          *)
(* temporary files stay.                                                     *)
(***************************************************************************)
EXTENDS Naturals, FiniteSets, Sequences, Functions

CONSTANTS
    Threads,
    Processes,
    ProcessOf,    \* ProcessOf[t]: the process thread t belongs to
    Programs,     \* which operations the threads of a program call
    Keys,
    KeyLists,     \* what secret_key may be in the processes
    Compress,     \* Compress[p]: the compress flag of process p's storage
    MaxSaves,     \* bound: records saved, each a version of its own
    MaxCrashes,   \* bound: processes that die
    None

ASSUME FilesAssumption ==
    /\ ProcessOf \in [Threads -> Processes]
    /\ Programs \subseteq [Threads -> SUBSET {"save", "load", "evict", "compress", "decompress"}]
    /\ KeyLists \subseteq [Processes -> Seq(Keys)] /\ Compress \in [Processes -> BOOLEAN]
    /\ MaxSaves \in Nat /\ MaxCrashes \in Nat /\ None \notin Threads \cup Nat \cup Keys

VARIABLES
    file,     \* what the path holds, [content, whole], or None
    temps,    \* temporary files: [name, content, whole]
    lock,     \* lock[p]: thread of process p holding its lock of the key
    step,     \* step[t]
    content,  \* content[t]: what thread t writes, [version, signer, zipped], or None
    saves,    \* records made so far
    seen,     \* seen[t]: the version thread t loaded last, None if there was none
    unlinked, \* ghost: threads in a save that has unlinked the old record
    due,      \* ghost: a record was put in place, and none destroyed since by an
              \* eviction or by a save that failed or died once it had unlinked it
    crashes,
    ops,      \* ops[t]: the operations thread t of this program calls
    keys      \* keys[p]: the secret keys of process p's storage

vars == <<file, temps, lock, step, content, saves, seen, unlinked, due, crashes, ops, keys>>
ghosts == <<unlinked, due>>

Init ==
    /\ file = None /\ temps = {}
    /\ lock = [p \in Processes |-> None]
    /\ step = [t \in Threads |-> "idle"]
    /\ content = [t \in Threads |-> None]
    /\ saves = 0 /\ crashes = 0
    /\ seen = [t \in Threads |-> None]
    /\ unlinked = {} /\ due = FALSE
    /\ ops \in Programs /\ keys \in KeyLists

Goto(t, next) == step' = [step EXCEPT ![t] = next]

-----------------------------------------------------------------------------
(* Records and bytes.                                                       *)

\* SignedBytes.dumps
Signer(p) == IF keys[p] = <<>> THEN None ELSE keys[p][1]

\* _to_file
Pickled(p, version) == [version |-> version, signer |-> Signer(p), zipped |-> Compress[p]]

\* A bug: records signed before the keys were rotated are refused.
VerifiedByFirst(p, c) == keys[p] = <<>> \/ c.signer = keys[p][1]

\* SignedBytes.loads; without keys nothing is verified.
Verified(p, c) == keys[p] = <<>> \/ c.signer \in Range(keys[p])

\* _from_file in process p, None for the KeyError of a missing file or of a
\* signature that no key verifies.  The first bytes tell whether it is zipped.
Loaded(p) == IF file # None /\ Verified(p, file.content) THEN file.content.version ELSE None

-----------------------------------------------------------------------------
(* save and evict, in the key's lock.                                       *)

LockFree(t) == lock[ProcessOf[t]] = None

\* A bug: the lock is taken for the file operations only.
SaveUnlocked(t) ==
    /\ step[t] = "idle" /\ "save" \in ops[t] /\ saves < MaxSaves
    /\ saves' = saves + 1
    /\ content' = [content EXCEPT ![t] = Pickled(ProcessOf[t], saves + 1)]
    /\ Goto(t, "contains")
    /\ UNCHANGED <<file, temps, lock, seen, ghosts, crashes>>

Save(t) ==
    /\ step[t] = "idle" /\ "save" \in ops[t] /\ saves < MaxSaves
    /\ LockFree(t)
    /\ lock' = [lock EXCEPT ![ProcessOf[t]] = t]
    /\ saves' = saves + 1
    /\ content' = [content EXCEPT ![t] = Pickled(ProcessOf[t], saves + 1)]
    /\ Goto(t, "contains")
    /\ UNCHANGED <<file, temps, seen, ghosts, crashes>>

Contains(t) ==
    /\ step[t] = "contains"
    /\ Goto(t, IF file = None THEN "write" ELSE "evict")
    /\ UNCHANGED <<file, temps, lock, content, saves, seen, ghosts, crashes>>

EvictOld(t) ==
    /\ step[t] = "evict"
    /\ file' = None
    /\ unlinked' = unlinked \cup {t}
    /\ Goto(t, "write")
    /\ UNCHANGED <<temps, lock, content, saves, seen, due, crashes>>

\* Leaving the operation: the lock, if it is this thread's, is released.
Leave(t) ==
    /\ lock' = [p \in Processes |-> IF lock[p] = t THEN None ELSE lock[p]]
    /\ content' = [content EXCEPT ![t] = None]
    /\ unlinked' = unlinked \ {t}
    /\ Goto(t, "idle")

Evict(t) ==
    /\ step[t] = "idle" /\ "evict" \in ops[t] /\ LockFree(t)
    /\ file' = None /\ due' = FALSE
    /\ UNCHANGED <<temps, lock, step, content, saves, seen, unlinked, crashes>>

\* load by the full key; the lock is left as soon as the file is read.
Load(t) ==
    /\ step[t] = "idle" /\ "load" \in ops[t] /\ LockFree(t)
    /\ seen' = [seen EXCEPT ![t] = Loaded(ProcessOf[t])]
    /\ UNCHANGED <<file, temps, lock, step, content, saves, ghosts, crashes>>

-----------------------------------------------------------------------------
(* _atomic_write: a temporary file is created and filled, then renamed.     *)

\* A bug: the temporary file of a key always has the same name.
SharedName(t) == None

\* uuid4().hex: no other's.
TempName(t) == t

\* The temporary files when t's does not, or does, hold what t writes.
Without(t) == {f \in temps : f.name # TempName(t)}
With(t, w) == Without(t) \cup {[name |-> TempName(t), content |-> content[t], whole |-> w]}

Create(t) ==
    /\ step[t] = "write"
    /\ temps' = With(t, FALSE)
    /\ Goto(t, "fill")
    /\ UNCHANGED <<file, lock, content, saves, seen, ghosts, crashes>>

Fill(t) ==
    /\ step[t] = "fill"
    /\ temps' = With(t, TRUE)
    /\ Goto(t, "replace")
    /\ UNCHANGED <<file, lock, content, saves, seen, ghosts, crashes>>

\* Writing fails; the temporary file is unlinked and the error passed on.  What
\* save unlinked before is gone.
FillFails(t) ==
    /\ step[t] = "fill"
    /\ temps' = Without(t)
    /\ due' = (due /\ t \notin unlinked)
    /\ Leave(t)
    /\ UNCHANGED <<file, saves, seen, crashes>>

Replace(t) ==
    /\ step[t] = "replace"
    /\ \E f \in temps :
        /\ f.name = TempName(t)
        /\ file' = [content |-> f.content, whole |-> f.whole]
    /\ temps' = Without(t)
    /\ due' = TRUE
    /\ Leave(t)
    /\ UNCHANGED <<saves, seen, crashes>>

-----------------------------------------------------------------------------
(* compress_all and decompress_all: read, recode, write, without the lock.  *)

Recode(t, zipped) ==
    /\ step[t] = "idle" /\ (IF zipped THEN "compress" ELSE "decompress") \in ops[t]
    /\ file # None /\ file.content.zipped # zipped
    /\ content' = [content EXCEPT ![t] = [file.content EXCEPT !.zipped = zipped]]
    /\ Goto(t, "write")
    /\ UNCHANGED <<file, temps, lock, saves, seen, ghosts, crashes>>

-----------------------------------------------------------------------------
Crash(p) ==
    LET dead == {t \in Threads : ProcessOf[t] = p} IN
    /\ crashes < MaxCrashes
    /\ \E t \in dead : step[t] # "idle"
    /\ step' = [t \in Threads |-> IF t \in dead THEN "idle" ELSE step[t]]
    /\ content' = [t \in Threads |-> IF t \in dead THEN None ELSE content[t]]
    /\ lock' = [lock EXCEPT ![p] = None]
    /\ temps' = {IF f.name \in dead THEN [f EXCEPT !.name = None] ELSE f : f \in temps}
    /\ unlinked' = unlinked \ dead
    /\ due' = (due /\ dead \cap unlinked = {})
    /\ crashes' = crashes + 1
    /\ UNCHANGED <<file, saves, seen>>

Step(t) ==
    \/ Save(t) \/ Contains(t) \/ EvictOld(t) \/ Evict(t) \/ Load(t) \/ (\E z \in BOOLEAN : Recode(t, z))
    \/ Create(t) \/ Fill(t) \/ FillFails(t) \/ Replace(t)

Next ==
    /\ (\E t \in Threads : Step(t)) \/ (\E p \in Processes : Crash(p))
    /\ UNCHANGED <<ops, keys>>

Spec == Init /\ [][Next]_vars

-----------------------------------------------------------------------------
Contents == [version : 1 .. MaxSaves, signer : Keys \cup {None}, zipped : BOOLEAN]

Files == [content : Contents, whole : BOOLEAN]
Temps == [name : Threads \cup {None}, content : Contents, whole : BOOLEAN]

ASSUME NoneIsNoRecord == None \notin Contents \cup Files

TypeOK ==
    /\ file \in Files \cup {None} /\ temps \subseteq Temps
    /\ ops \in Programs /\ keys \in KeyLists
    /\ saves \in 0 .. MaxSaves /\ crashes \in 0 .. MaxCrashes
    /\ seen \in [Threads -> 1 .. MaxSaves \cup {None}]
    /\ unlinked \subseteq Threads /\ due \in BOOLEAN
    /\ lock \in [Processes -> Threads \cup {None}]
    /\ step \in [Threads -> {"idle", "contains", "evict", "write", "fill", "replace"}]
    /\ content \in [Threads -> Contents \cup {None}]
    /\ \A t \in Threads :
         /\ (content[t] = None) <=> (step[t] = "idle")
         /\ step[t] = "idle" => \A p \in Processes : lock[p] # t

\* Whoever reads the path finds no file or a complete one, whatever processes
\* write side by side, fail at or die in (_atomic_write).
FilesAreWhole == file # None => file.whole

Quiet == \A t \in Threads : step[t] = "idle"

RunsIn(p) == \A t \in Threads : ops[t] # {} => ProcessOf[t] = p
NobodyRecodes == \A t \in Threads : ops[t] \cap {"compress", "decompress"} = {}

\* Within one process a load comes between saves, never into one: it finds a
\* record if one is due, not the gap between unlink and rename; and where nobody
\* recodes, never one whose save began before that of a record which any thread
\* has loaded already (base.py 421-433).
LoadsGoForward ==
    [][\A t \in Threads :
        Load(t) /\ RunsIn(ProcessOf[t]) =>
            /\ due => seen'[t] # None
            /\ NobodyRecodes /\ seen'[t] # None =>
                \A u \in Threads : seen[u] # None => seen[u] <= seen'[t]]_vars

\* p holds the keys that q signs with, as it does when keys are rotated the way
\* secret_key is meant to be: the new key in front of the old ones.
Trusts(p, q) == keys[p] = <<>> \/ (keys[q] # <<>> /\ keys[q][1] \in Range(keys[p]))

\* Between processes no lock protects the lookup and the unlink, and files are
\* recoded from what was read before.  Still, once no one is at work, a record
\* that is due is there, the same or another's, and is loaded by every process
\* that trusts the others, whoever failed or died meanwhile.
RecordSurvives ==
    Quiet /\ due =>
        \A p \in Processes : (\A q \in Processes : Trusts(p, q)) => Loaded(p) # None
=============================================================================
