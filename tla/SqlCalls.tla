------------------------------ MODULE SqlCalls -------------------------------
(***************************************************************************)
(* The call storage in a database (Sql).  One lookup key is followed: its    *)
(* row in calls with the rows of arguments and metadata that hang on it.     *)
(* Threads of one process serialise on the lock of the key as it was spelled *)
(* (the full digest or a short one); processes meet in the database only.    *)
(* A read runs outside a transaction, statement by statement; the first      *)
(* write opens a transaction and there is one writer at a time.              *)
(* Records of one key agree in the arguments and differ in the result and    *)
(* the metadata.                                                             *)
(***************************************************************************)
EXTENDS Naturals

CONSTANTS
    Threads,
    Processes,
    ProcessOf,    \* ProcessOf[t]: the process thread t belongs to
    Records,      \* records filed under the key
    Programs,     \* what is run, see Program
    MaxSaves,     \* bound: saves begun
    MaxCrashes,   \* bound: processes that die
    None

\* The operations that each thread calls, and how load and evict spell the key.
Program == [ops : [Threads -> SUBSET {"save", "load", "evict", "query"}],
            spellings : SUBSET {"full", "short"}]

ASSUME SqlAssumption ==
    /\ ProcessOf \in [Threads -> Processes]
    /\ Programs \subseteq Program
    /\ MaxSaves \in Nat /\ MaxCrashes \in Nat
    /\ None \notin Threads \cup Records

VARIABLES
    row,      \* the record committed, or None
    writer,   \* the thread whose transaction has written, or None
    lock,     \* lock[p][s]: thread of p that holds the lock of spelling s
    step,     \* step[t]
    op,       \* op[t]: the operation thread t is in or did last
    mine,     \* mine[t]: the record a writer leaves in the row
    seen,     \* seen[t]: what the statements of a read have returned
    answer,   \* answer[t]: how its last operation ended
    saves, crashes,
    program   \* what is run here

vars == <<row, writer, lock, step, op, mine, seen, answer, saves, crashes, program>>

Nothing == [result |-> None, arguments |-> FALSE, metadata |-> None]

Init ==
    /\ row = None /\ writer = None
    /\ lock = [p \in Processes |-> [s \in {"full", "short"} |-> None]]
    /\ step = [t \in Threads |-> "idle"]
    /\ op = [t \in Threads |-> "load"]
    /\ mine = [t \in Threads |-> None]
    /\ seen = [t \in Threads |-> Nothing]
    /\ answer = [t \in Threads |-> "none"]
    /\ saves = 0 /\ crashes = 0
    /\ program \in Programs

Goto(t, next) == step' = [step EXCEPT ![t] = next]

-----------------------------------------------------------------------------
(* _operation_context: a session, the key's lock around the operation, and  *)
(* a rollback when it raises.                                               *)

Lock(t, s) ==
    /\ lock[ProcessOf[t]][s] = None
    /\ lock' = [lock EXCEPT ![ProcessOf[t]][s] = t]

Enter(t, o, next) ==
    /\ step[t] = "idle" /\ o \in program.ops[t]
    /\ op' = [op EXCEPT ![t] = o]
    /\ answer' = [answer EXCEPT ![t] = "none"]
    /\ seen' = [seen EXCEPT ![t] = Nothing]
    /\ Goto(t, next)

Leave(t, how) ==
    /\ lock' = [p \in Processes |-> [s \in {"full", "short"} |->
                    IF lock[p][s] = t THEN None ELSE lock[p][s]]]
    /\ writer' = IF writer = t THEN None ELSE writer
    /\ mine' = [mine EXCEPT ![t] = None]
    /\ answer' = [answer EXCEPT ![t] = how]
    /\ Goto(t, "idle")

Raise(t, error) ==
    /\ Leave(t, error)
    /\ UNCHANGED <<row, op, seen, saves, crashes>>

-----------------------------------------------------------------------------
(* The operations begin.                                                    *)

Save(t) ==
    /\ saves < MaxSaves
    /\ Enter(t, "save", "look")
    /\ Lock(t, "full")
    /\ \E r \in Records : mine' = [mine EXCEPT ![t] = r]
    /\ saves' = saves + 1
    /\ UNCHANGED <<row, writer, crashes>>

\* A bug: reading takes the shared intent, which locks nothing.
LoadUnlocked(t, s) ==
    /\ Enter(t, "load", IF s = "short" THEN "expand" ELSE "row")
    /\ UNCHANGED <<row, writer, lock, mine, saves, crashes>>

Load(t, s) ==
    /\ Enter(t, "load", IF s = "short" THEN "expand" ELSE "row")
    /\ Lock(t, s)
    /\ UNCHANGED <<row, writer, mine, saves, crashes>>

Evict(t, s) ==
    /\ Enter(t, "evict", IF s = "short" THEN "expand" ELSE "erase")
    /\ Lock(t, s)
    /\ UNCHANGED <<row, writer, mine, saves, crashes>>

\* One statement selects the keys that match; the calls are loaded after it.
Query(t) ==
    /\ row # None
    /\ Enter(t, "query", "requery")
    /\ UNCHANGED <<row, writer, lock, mine, saves, crashes>>

QueryLoads(t) ==
    /\ step[t] = "requery"
    /\ Lock(t, "full")
    /\ Goto(t, "row")
    /\ UNCHANGED <<row, writer, op, mine, seen, answer, saves, crashes>>

-----------------------------------------------------------------------------
(* Reading.                                                                 *)

\* A short key is looked up among the keys of the table.
Expand(t) ==
    /\ step[t] = "expand"
    /\ IF row = None THEN Raise(t, "missing")
       ELSE /\ Goto(t, IF op[t] = "evict" THEN "erase" ELSE "row")
            /\ UNCHANGED <<row, writer, lock, op, mine, seen, answer, saves, crashes>>

\* save asks for the row first; the session keeps what it got.
Look(t) ==
    /\ step[t] = "look"
    /\ seen' = [seen EXCEPT ![t].result = row]
    /\ Goto(t, IF row = None THEN "insert" ELSE "row")
    /\ UNCHANGED <<row, writer, lock, op, mine, answer, saves, crashes>>

\* A row that was read in this session before is not refreshed.
FetchRow(t) ==
    /\ step[t] = "row"
    /\ IF row = None THEN Raise(t, "missing")
       ELSE /\ seen' = IF op[t] = "save" THEN seen
                       ELSE [seen EXCEPT ![t].result = row]
            /\ Goto(t, "arguments")
            /\ UNCHANGED <<row, writer, lock, op, mine, answer, saves, crashes>>

FetchArguments(t) ==
    /\ step[t] = "arguments"
    /\ seen' = [seen EXCEPT ![t].arguments = (row # None)]
    /\ Goto(t, "metadata")
    /\ UNCHANGED <<row, writer, lock, op, mine, answer, saves, crashes>>

\* The last statement; save goes on unless it found the record it has.
FetchMetadata(t) ==
    LET got == [seen[t] EXCEPT !.metadata = row] IN
    /\ step[t] = "metadata"
    /\ seen' = [seen EXCEPT ![t] = got]
    /\ IF op[t] = "save" /\ got # [result |-> mine[t], arguments |-> TRUE, metadata |-> mine[t]]
       THEN /\ Goto(t, "delete")
            /\ UNCHANGED <<writer, lock, mine, answer>>
       ELSE Leave(t, "done")
    /\ UNCHANGED <<row, op, saves, crashes>>

-----------------------------------------------------------------------------
(* Writing.                                                                 *)

Writes(t, next) ==
    /\ writer' = t
    /\ Goto(t, next)
    /\ UNCHANGED <<row, lock, op, mine, seen, answer, saves, crashes>>

\* A bug: the old row is evicted, which commits, before the new one is added.
DeleteCommitted(t) ==
    /\ step[t] = "delete" /\ writer = None
    /\ row' = None
    /\ Goto(t, "insert")
    /\ UNCHANGED <<writer, lock, op, mine, seen, answer, saves, crashes>>

Delete(t) ==
    /\ step[t] = "delete" /\ writer = None
    /\ Writes(t, "insert")

\* A bug: an insertion that conflicts is tried again.
InsertRetried(t) ==
    /\ step[t] = "insert" /\ writer \in {None, t}
    /\ writer = None => row = None
    /\ Writes(t, "commit")

\* Whoever did not delete the row itself may find that another added one.
Insert(t) ==
    /\ step[t] = "insert" /\ writer \in {None, t}
    /\ IF writer = None /\ row # None THEN Raise(t, "conflict")
       ELSE Writes(t, "commit")

Erase(t) ==
    /\ step[t] = "erase" /\ writer = None
    /\ Writes(t, "commit")

Commit(t) ==
    /\ step[t] = "commit"
    /\ row' = mine[t]
    /\ Leave(t, "done")
    /\ UNCHANGED <<op, seen, saves, crashes>>

\* The database gives up waiting for the other writer.
Busy(t) ==
    /\ step[t] \in {"delete", "insert", "erase"} /\ writer \notin {None, t}
    /\ Raise(t, "busy")

-----------------------------------------------------------------------------
\* A process dies; the database rolls its transaction back.
Crash(p) ==
    LET dead == {t \in Threads : ProcessOf[t] = p} IN
    /\ crashes < MaxCrashes
    /\ \E t \in dead : step[t] # "idle"
    /\ step' = [t \in Threads |-> IF t \in dead THEN "idle" ELSE step[t]]
    /\ answer' = [t \in Threads |-> IF t \in dead THEN "none" ELSE answer[t]]
    /\ mine' = [t \in Threads |-> IF t \in dead THEN None ELSE mine[t]]
    /\ lock' = [lock EXCEPT ![p] = [s \in {"full", "short"} |-> None]]
    /\ writer' = IF writer \in dead THEN None ELSE writer
    /\ crashes' = crashes + 1
    /\ UNCHANGED <<row, op, seen, saves>>

Begins(t) == Save(t) \/ Query(t) \/ \E s \in program.spellings : Load(t, s) \/ Evict(t, s)

Continues(t) ==
    \/ Expand(t) \/ Look(t) \/ FetchRow(t) \/ FetchArguments(t) \/ FetchMetadata(t)
    \/ Delete(t) \/ Insert(t) \/ Erase(t) \/ Commit(t) \/ Busy(t)

Next ==
    /\ \/ \E t \in Threads : Begins(t) \/ QueryLoads(t) \/ Continues(t)
       \/ \E p \in Processes : Crash(p)
    /\ UNCHANGED program

Spec == Init /\ [][Next]_vars

\* A thread that has its locks runs on; the wait for the lock of the key is not
\* fair, but only query waits for it in the middle of an operation.
FairSpec == Spec /\ \A t \in Threads : WF_vars(Continues(t) /\ UNCHANGED program)

-----------------------------------------------------------------------------
Steps == {"idle", "requery", "expand", "look", "row", "arguments", "metadata",
          "delete", "insert", "erase", "commit"}

TypeOK ==
    /\ row \in Records \cup {None}
    /\ writer \in Threads \cup {None}
    /\ writer # None => step[writer] \in {"insert", "commit"}
    /\ lock \in [Processes -> [{"full", "short"} -> Threads \cup {None}]]
    /\ step \in [Threads -> Steps]
    /\ op \in [Threads -> {"save", "load", "evict", "query"}]
    /\ mine \in [Threads -> Records \cup {None}]
    /\ seen \in [Threads -> [result : Records \cup {None}, arguments : BOOLEAN,
                             metadata : Records \cup {None}]]
    /\ answer \in [Threads -> {"none", "done", "missing", "conflict", "busy"}]
    /\ program \in Programs
    /\ saves \in 0 .. MaxSaves /\ crashes \in 0 .. MaxCrashes
    /\ \A t \in Threads : step[t] = "idle" =>
         \A p \in Processes, s \in {"full", "short"} : lock[p][s] # t

Nobody(o) == \A t \in Threads : o \notin program.ops[t]
OneProcess == \E p \in Processes :
    \A t \in Threads : program.ops[t] # {} => ProcessOf[t] = p

\* What load returns is one record: its result, its arguments and its metadata,
\* though three statements fetched them (_fetch_call under the key's lock).
\* Another process does not take that lock, nor does a load or an eviction that
\* spells the key short.
LoadsAreWhole ==
    OneProcess /\ "short" \notin program.spellings =>
        \A t \in Threads :
            op[t] \in {"load", "query"} /\ answer[t] = "done" =>
                /\ seen[t].result # None /\ seen[t].arguments
                /\ seen[t].metadata = seen[t].result

\* Saving again replaces the record in one transaction: no reader of whatever
\* process finds the key missing, also when the process that saves dies.
RecordStays == [][Nobody("evict") /\ row # None => row' # None]_vars

\* Every operation that has its lock comes to an end, with an answer or an
\* error, whatever the other processes hold.
OperationsReturn == \A t \in Threads :
    step[t] \notin {"idle", "requery"} ~> step[t] = "idle"
=============================================================================
