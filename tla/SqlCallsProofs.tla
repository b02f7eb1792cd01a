--------------------------- MODULE SqlCallsProofs ---------------------------
(***************************************************************************)
(* What holds of SqlCalls for any number of threads, processes and records:  *)
(* who waits for whom, and what a read sees while others write, do not       *)
(* depend on how many there are.                                            *)
(***************************************************************************)
EXTENDS SqlCalls, TLAPS

Spellings == {"full", "short"}
Reading(t) == op[t] \in {"load", "query"}

\* What the statements of a read may have returned so far.
Fetched == [result : Records \cup {None}, arguments : BOOLEAN, metadata : Records \cup {None}]

\* A thread is where its operation takes it.
StepsFit == \A t \in Threads : step[t] # "idle" =>
    /\ op[t] \in program.ops[t]
    /\ answer[t] = "none"
    /\ op[t] = "save"  => step[t] \in {"look", "row", "arguments", "metadata",
                                       "delete", "insert", "commit"}
    /\ op[t] = "evict" => step[t] \in {"expand", "erase", "commit"}
    /\ Reading(t)      => step[t] \in {"requery", "expand", "row", "arguments", "metadata"}

\* Locks are taken by threads of the process whose locks they are.
LocksAreLocal == \A p \in Processes, s \in Spellings :
    lock[p][s] # None => ProcessOf[lock[p][s]] = p

\* An operation by the full key has the lock of the full key until it returns;
\* a query gets it for each record it loads.
LocksAreHeld == \A t \in Threads :
    /\ step[t] \notin {"idle", "requery"}
    /\ op[t] \in {"save", "query"} \/ "short" \notin program.spellings
    => lock[ProcessOf[t]]["full"] = t

\* Who saves has a record to leave in the row.
SavesBring == \A t \in Threads :
    step[t] # "idle" /\ op[t] = "save" => mine[t] # None

Undisturbed == OneProcess /\ "short" \notin program.spellings

\* What a read has fetched is of the record that is in the row still.
ReadsAgree == Undisturbed => \A t \in Threads : Reading(t) =>
    /\ step[t] \in {"arguments", "metadata"} => row # None /\ seen[t].result = row
    /\ step[t] = "metadata" => seen[t].arguments

IInv ==
    /\ TypeOK
    /\ StepsFit
    /\ LocksAreLocal
    /\ LocksAreHeld
    /\ SavesBring
    /\ ReadsAgree
    /\ LoadsAreWhole

\* Nothing is under way at the start.
LEMMA InitIInv == Init => IInv
  <1> SUFFICES ASSUME Init PROVE IInv
      OBVIOUS
  <1> USE SqlAssumption DEF Init
  <1>1. TypeOK
      BY DEF TypeOK, Steps, Nothing
  <1>2. StepsFit /\ LocksAreLocal /\ LocksAreHeld /\ SavesBring /\ ReadsAgree /\ LoadsAreWhole
      BY DEF StepsFit, LocksAreLocal, LocksAreHeld, SavesBring, ReadsAgree, Reading,
             LoadsAreWhole, Spellings
  <1> QED BY <1>1, <1>2 DEF IInv

-----------------------------------------------------------------------------
\* Who is inside an operation by the full key is alone there, and every other
\* thread that is inside one runs in another process.
LEMMA OneInside ==
    ASSUME IInv, Undisturbed, NEW t \in Threads, NEW u \in Threads,
           step[t] \notin {"idle", "requery"}, step[u] \notin {"idle", "requery"}
    PROVE  t = u
  <1>1. lock[ProcessOf[t]]["full"] = t /\ lock[ProcessOf[u]]["full"] = u
      BY DEF IInv, LocksAreHeld, Undisturbed
  <1>2. program.ops[t] # {} /\ program.ops[u] # {}
      BY DEF IInv, StepsFit
  <1>3. ProcessOf[t] = ProcessOf[u]
      BY <1>2 DEF Undisturbed, OneProcess
  <1> QED BY <1>1, <1>3

\* One lock changes hands.
LEMMA LockTakes ==
    ASSUME IInv, NEW t \in Threads, NEW s \in Spellings, Lock(t, s)
    PROVE  /\ lock' \in [Processes -> [Spellings -> Threads \cup {None}]]
           /\ \A p \in Processes, z \in Spellings :
                 lock'[p][z] = IF p = ProcessOf[t] /\ z = s THEN t ELSE lock[p][z]
  BY SqlAssumption DEF IInv, TypeOK, Lock, Spellings

\* A thread that leaves gives back its locks and its transaction.
LEMMA LeaveKeepsTypes ==
    ASSUME IInv, NEW t \in Threads,
           NEW how \in {"done", "missing", "conflict", "busy"}, Leave(t, how),
           op' = op, row' \in Records \cup {None}, saves' = saves, crashes' = crashes,
           program' = program,
           seen' \in [Threads -> Fetched]
    PROVE  TypeOK'
  <1> USE SqlAssumption DEF IInv, TypeOK, Leave, Goto
  <1>1. lock' \in [Processes -> [{"full", "short"} -> Threads \cup {None}]]
      OBVIOUS
  <1>2. \A u \in Threads, p \in Processes, s \in {"full", "short"} :
            (u = t \/ lock[p][s] # u) => lock'[p][s] # u
      OBVIOUS
  <1>3. \A u \in Threads : step'[u] = IF u = t THEN "idle" ELSE step[u]
      OBVIOUS
  <1>4. \A u \in Threads : step'[u] = "idle" =>
            \A p \in Processes, s \in {"full", "short"} : lock'[p][s] # u
      BY <1>2, <1>3
  <1>5. writer' \in Threads \cup {None} /\ (writer' # None => step'[writer'] \in {"insert", "commit"})
      OBVIOUS
  <1>6. /\ step' \in [Threads -> Steps]
        /\ op' \in [Threads -> {"save", "load", "evict", "query"}]
        /\ mine' \in [Threads -> Records \cup {None}]
        /\ answer' \in [Threads -> {"none", "done", "missing", "conflict", "busy"}]
      BY DEF Steps
  <1> QED BY <1>1, <1>4, <1>5, <1>6 DEF Fetched

\* Nor does it take from another what that holds.
LEMMA LeaveKeepsLocks ==
    ASSUME IInv, NEW t \in Threads,
           NEW how \in {"done", "missing", "conflict", "busy"}, Leave(t, how),
           op' = op, program' = program
    PROVE  StepsFit' /\ LocksAreLocal' /\ LocksAreHeld' /\ SavesBring'
  <1> USE SqlAssumption DEF IInv, TypeOK, Leave, Goto
  <1>1. StepsFit'
      BY DEF StepsFit, Reading
  <1>2. LocksAreLocal'
      BY DEF LocksAreLocal, Spellings
  <1>3. LocksAreHeld'
      BY DEF LocksAreHeld
  <1>4. SavesBring'
      BY DEF SavesBring
  <1> QED BY <1>1, <1>2, <1>3, <1>4

\* A failed operation has read nothing that counts.
LEMMA RaiseKeepsIInv ==
    ASSUME IInv, NEW t \in Threads, NEW error \in {"missing", "conflict", "busy"},
           Raise(t, error), program' = program
    PROVE  IInv'
  <1>1. TypeOK' /\ StepsFit' /\ LocksAreLocal' /\ LocksAreHeld' /\ SavesBring'
      BY LeaveKeepsTypes, LeaveKeepsLocks DEF Raise, IInv, TypeOK, Fetched
  <1>2. ReadsAgree'
      BY DEF IInv, TypeOK, Raise, Leave, Goto, ReadsAgree, Reading, Undisturbed, OneProcess
  <1>3. LoadsAreWhole'
      BY DEF IInv, TypeOK, Raise, Leave, Goto, LoadsAreWhole, OneProcess
  <1> QED BY <1>1, <1>2, <1>3 DEF IInv

\* A thread that goes on within its operation keeps its locks.
LEMMA GotoKeepsTypes ==
    ASSUME IInv, NEW t \in Threads, NEW next \in Steps \ {"idle"}, Goto(t, next),
           UNCHANGED <<row, lock, op, mine, answer, saves, crashes, program>>,
           seen' \in [Threads -> Fetched],
           \/ writer' = writer /\ writer # t
           \/ writer' = t /\ next \in {"insert", "commit"}
    PROVE  TypeOK'
  <1> USE SqlAssumption DEF IInv, TypeOK, Goto
  <1>1. step' \in [Threads -> Steps] /\ \A u \in Threads :
            step'[u] = IF u = t THEN next ELSE step[u]
      BY DEF Steps
  <1>2. writer' \in Threads \cup {None} /\ (writer' # None => step'[writer'] \in {"insert", "commit"})
      BY <1>1
  <1>3. \A u \in Threads : step'[u] = "idle" =>
            \A p \in Processes, s \in {"full", "short"} : lock'[p][s] # u
      BY <1>1
  <1> QED BY <1>1, <1>2, <1>3 DEF Fetched

\* What the others have read stays, and what this one has is checked.
LEMMA GotoKeepsReads ==
    ASSUME IInv, NEW t \in Threads, NEW next \in Steps \ {"idle"}, Goto(t, next),
           UNCHANGED <<row, op, answer, program>>, step[t] # "idle",
           \A u \in Threads : u # t => seen'[u] = seen[u],
           Undisturbed /\ Reading(t) /\ next \in {"arguments", "metadata"} =>
               /\ row # None /\ seen'[t].result = row
               /\ next = "metadata" => seen'[t].arguments
    PROVE  ReadsAgree' /\ LoadsAreWhole'
  <1>1. \A u \in Threads : step'[u] = IF u = t THEN next ELSE step[u]
      BY DEF IInv, TypeOK, Goto
  <1>2. answer[t] = "none"
      BY DEF IInv, StepsFit
  <1>3. ReadsAgree'
      BY <1>1 DEF IInv, ReadsAgree, Reading, Undisturbed, OneProcess
  <1>4. LoadsAreWhole'
      BY <1>2 DEF IInv, LoadsAreWhole, OneProcess
  <1> QED BY <1>3, <1>4

\* Where a thread may go next in its operation.
Follows(t, next) ==
    /\ op[t] = "save"  => next \in {"row", "arguments", "metadata", "delete", "insert", "commit"}
    /\ op[t] = "evict" => next \in {"erase", "commit"}
    /\ Reading(t)      => next \in {"row", "arguments", "metadata"}

LEMMA GotoKeepsIInv ==
    ASSUME IInv, NEW t \in Threads, NEW next \in Steps \ {"idle"}, Goto(t, next),
           UNCHANGED <<row, lock, op, mine, answer, saves, crashes, program>>,
           step[t] \notin {"idle", "requery"}, Follows(t, next),
           seen' \in [Threads -> Fetched],
           \A u \in Threads : u # t => seen'[u] = seen[u],
           \/ writer' = writer /\ writer # t
           \/ writer' = t /\ next \in {"insert", "commit"},
           Undisturbed /\ Reading(t) /\ next \in {"arguments", "metadata"} =>
               /\ row # None /\ seen'[t].result = row
               /\ next = "metadata" => seen'[t].arguments
    PROVE  IInv'
  <1>1. TypeOK'
      BY GotoKeepsTypes
  <1>2. ReadsAgree' /\ LoadsAreWhole'
      BY GotoKeepsReads
  <1>3. \A u \in Threads : step'[u] = IF u = t THEN next ELSE step[u]
      BY DEF IInv, TypeOK, Goto
  <1>4. StepsFit'
      BY <1>3 DEF IInv, StepsFit, Follows, Reading
  <1>5. LocksAreLocal' /\ LocksAreHeld' /\ SavesBring'
      BY <1>3 DEF IInv, LocksAreLocal, LocksAreHeld, SavesBring
  <1> QED BY <1>1, <1>2, <1>4, <1>5 DEF IInv

-----------------------------------------------------------------------------
\* An operation begins under the lock of the key as it is spelled.
LEMMA BeginsKeepsIInv ==
    ASSUME IInv, NEW t \in Threads, Begins(t), program' = program
    PROVE  IInv'
  <1> USE SqlAssumption DEF IInv, TypeOK, Enter, Goto, Lock, Program, Steps
  <1>1. CASE Save(t)
    <2>1. TypeOK'        BY <1>1 DEF Save, Nothing
    <2>2. StepsFit'      BY <1>1 DEF Save, StepsFit, Reading
    <2>3. LocksAreLocal' BY <1>1 DEF Save, LocksAreLocal, Spellings
    <2>4. LocksAreHeld'  BY <1>1 DEF Save, LocksAreHeld
    <2>5. SavesBring'    BY <1>1 DEF Save, SavesBring
    <2>6. ReadsAgree'    BY <1>1 DEF Save, ReadsAgree, Reading, Undisturbed, OneProcess
    <2>7. LoadsAreWhole' BY <1>1 DEF Save, LoadsAreWhole, OneProcess
    <2> QED BY <2>1, <2>2, <2>3, <2>4, <2>5, <2>6, <2>7
  <1>2. CASE Query(t)
    <2>1. TypeOK'        BY <1>2 DEF Query, Nothing
    <2>2. StepsFit'      BY <1>2 DEF Query, StepsFit, Reading
    <2>3. LocksAreLocal' BY <1>2 DEF Query, LocksAreLocal
    <2>4. LocksAreHeld'  BY <1>2 DEF Query, LocksAreHeld
    <2>5. SavesBring'    BY <1>2 DEF Query, SavesBring
    <2>6. ReadsAgree'    BY <1>2 DEF Query, ReadsAgree, Reading, Undisturbed, OneProcess
    <2>7. LoadsAreWhole' BY <1>2 DEF Query, LoadsAreWhole, OneProcess
    <2> QED BY <2>1, <2>2, <2>3, <2>4, <2>5, <2>6, <2>7
  <1>3. ASSUME NEW s \in program.spellings, Load(t, s) PROVE IInv'
    <2>1. TypeOK'        BY <1>3 DEF Load, Nothing
    <2>2. StepsFit'      BY <1>3 DEF Load, StepsFit, Reading
    <2>3. LocksAreLocal' BY <1>3 DEF Load, LocksAreLocal, Spellings
    <2>4. LocksAreHeld'  BY <1>3 DEF Load, LocksAreHeld
    <2>5. SavesBring'    BY <1>3 DEF Load, SavesBring
    <2>6. ReadsAgree'    BY <1>3 DEF Load, ReadsAgree, Reading, Undisturbed, OneProcess
    <2>7. LoadsAreWhole' BY <1>3 DEF Load, LoadsAreWhole, OneProcess
    <2> QED BY <2>1, <2>2, <2>3, <2>4, <2>5, <2>6, <2>7
  <1>4. ASSUME NEW s \in program.spellings, Evict(t, s) PROVE IInv'
    <2>1. TypeOK'        BY <1>4 DEF Evict, Nothing
    <2>2. StepsFit'      BY <1>4 DEF Evict, StepsFit, Reading
    <2>3. LocksAreLocal' BY <1>4 DEF Evict, LocksAreLocal, Spellings
    <2>4. LocksAreHeld'  BY <1>4 DEF Evict, LocksAreHeld
    <2>5. SavesBring'    BY <1>4 DEF Evict, SavesBring
    <2>6. ReadsAgree'    BY <1>4 DEF Evict, ReadsAgree, Reading, Undisturbed, OneProcess
    <2>7. LoadsAreWhole' BY <1>4 DEF Evict, LoadsAreWhole, OneProcess
    <2> QED BY <2>1, <2>2, <2>3, <2>4, <2>5, <2>6, <2>7
  <1> QED BY <1>1, <1>2, <1>3, <1>4 DEF Begins

-----------------------------------------------------------------------------
\* Reading changes what the thread has seen, and where it is.
LEMMA ReadsKeepIInv ==
    ASSUME IInv, NEW t \in Threads, program' = program,
           QueryLoads(t) \/ Expand(t) \/ Look(t) \/ FetchRow(t) \/ FetchArguments(t)
    PROVE  IInv'
  <1>1. CASE QueryLoads(t)
    <2> USE <1>1, SqlAssumption DEF QueryLoads
    <2>1. /\ lock' \in [Processes -> [Spellings -> Threads \cup {None}]]
          /\ \A p \in Processes, z \in Spellings : lock'[p][z] =
                IF p = ProcessOf[t] /\ z = "full" THEN t ELSE lock[p][z]
        BY LockTakes DEF Spellings
    <2>2. /\ step' \in [Threads -> Steps]
          /\ \A u \in Threads : step'[u] = IF u = t THEN "row" ELSE step[u]
        BY DEF IInv, TypeOK, Goto, Steps
    <2>3. TypeOK'        BY <2>1, <2>2 DEF IInv, TypeOK, Spellings
    <2>4. StepsFit'      BY <2>2 DEF IInv, StepsFit, TypeOK, Reading
    <2>5. LocksAreLocal' BY <2>1 DEF IInv, LocksAreLocal
    <2>6. lock[ProcessOf[t]]["full"] = None
        BY DEF Lock
    <2>7. LocksAreHeld'  BY <2>1, <2>2, <2>6 DEF IInv, LocksAreHeld, Spellings
    <2>8. SavesBring'    BY <2>2 DEF IInv, SavesBring
    <2>9. ReadsAgree' /\ LoadsAreWhole'
        BY <2>2 DEF IInv, ReadsAgree, Reading, Undisturbed, LoadsAreWhole, OneProcess
    <2> QED BY <2>3, <2>4, <2>5, <2>7, <2>8, <2>9 DEF IInv
  <1>2. CASE Expand(t) /\ row # None
    <2> DEFINE next == IF op[t] = "evict" THEN "erase" ELSE "row"
    <2>1. Goto(t, next) /\ step[t] = "expand"
        BY <1>2 DEF Expand
    <2>2. next \in Steps \ {"idle"} /\ next \notin {"arguments", "metadata"}
        BY DEF Steps
    <2>3. Follows(t, next)
        BY <2>1 DEF IInv, StepsFit, Follows, Reading
    <2>4. writer # t /\ seen \in [Threads -> Fetched]
        BY <2>1, SqlAssumption DEF IInv, TypeOK, Fetched
    <2> HIDE DEF next
    <2> QED BY <1>2, <2>1, <2>2, <2>3, <2>4, GotoKeepsIInv DEF Expand
  <1>3. CASE Look(t)
    <2> DEFINE next == IF row = None THEN "insert" ELSE "row"
    <2>1. Goto(t, next) /\ step[t] = "look"
        BY <1>3 DEF Look
    <2>2. next \in Steps \ {"idle"} /\ next \notin {"arguments", "metadata"}
        BY DEF Steps
    <2>3. Follows(t, next)
        BY <2>1 DEF IInv, StepsFit, TypeOK, Follows, Reading
    <2>4. writer # t
        BY <2>1, SqlAssumption DEF IInv, TypeOK
    <2>5. /\ seen' \in [Threads -> Fetched]
          /\ \A u \in Threads : u # t => seen'[u] = seen[u]
        BY <1>3 DEF Look, IInv, TypeOK, Fetched
    <2> HIDE DEF next
    <2> QED BY <1>3, <2>1, <2>2, <2>3, <2>4, <2>5, GotoKeepsIInv DEF Look
  <1>4. CASE FetchRow(t) /\ row # None
    <2>1. Goto(t, "arguments") /\ step[t] = "row"
        BY <1>4 DEF FetchRow
    <2>2. Follows(t, "arguments")
        BY <2>1 DEF IInv, StepsFit, TypeOK, Follows, Reading
    <2>3. writer # t
        BY <2>1, SqlAssumption DEF IInv, TypeOK
    <2>4. seen' \in [Threads -> Fetched]
        BY <1>4 DEF FetchRow, IInv, TypeOK, Fetched
    <2>5. \A u \in Threads : u # t => seen'[u] = seen[u]
        BY <1>4 DEF FetchRow, IInv, TypeOK
    <2>6. Reading(t) => seen'[t].result = row
        BY <1>4 DEF FetchRow, IInv, TypeOK, Reading
    <2> QED
        BY <1>4, <2>1, <2>2, <2>3, <2>4, <2>5, <2>6, GotoKeepsIInv DEF FetchRow, Steps
  <1>5. CASE FetchArguments(t)
    <2>1. Goto(t, "metadata") /\ step[t] = "arguments"
        BY <1>5 DEF FetchArguments
    <2>2. Follows(t, "metadata")
        BY <2>1 DEF IInv, StepsFit, TypeOK, Follows, Reading
    <2>3. writer # t
        BY <2>1, SqlAssumption DEF IInv, TypeOK
    <2>4. seen' \in [Threads -> Fetched]
      <3>1. seen \in [Threads -> Fetched]
          BY DEF IInv, TypeOK, Fetched
      <3>2. \A b \in BOOLEAN : [seen[t] EXCEPT !.arguments = b] \in Fetched
          BY <3>1 DEF Fetched
      <3>3. (row # None) \in BOOLEAN
          OBVIOUS
      <3> QED BY <1>5, <3>1, <3>2, <3>3 DEF FetchArguments
    <2>5. \A u \in Threads : u # t => seen'[u] = seen[u]
        BY <1>5 DEF FetchArguments, IInv, TypeOK
    <2>6. seen'[t].result = seen[t].result /\ seen'[t].arguments = (row # None)
        BY <1>5 DEF FetchArguments, IInv, TypeOK
    <2>7. Undisturbed /\ Reading(t) => row # None /\ seen[t].result = row
        BY <2>1 DEF IInv, ReadsAgree
    <2> QED
        BY <1>5, <2>1, <2>2, <2>3, <2>4, <2>5, <2>6, <2>7, GotoKeepsIInv
        DEF FetchArguments, Steps
  <1>6. CASE (Expand(t) \/ FetchRow(t)) /\ row = None
      BY <1>6, RaiseKeepsIInv DEF Expand, FetchRow
  <1> QED BY <1>1, <1>2, <1>3, <1>4, <1>5, <1>6

\* The last statement: what a read has fetched is whole.
LEMMA FetchMetadataKeepsIInv ==
    ASSUME IInv, NEW t \in Threads, program' = program, FetchMetadata(t)
    PROVE  IInv'
  <1> USE DEF FetchMetadata
  <1>1. seen' \in [Threads -> Fetched]
      BY DEF IInv, TypeOK, Fetched
  <1>2. ReadsAgree' /\ LoadsAreWhole'
    <2>1. step' \in [Threads -> Steps] /\ step'[t] \in {"delete", "idle"}
          /\ \A u \in Threads : u # t =>
                step'[u] = step[u] /\ seen'[u] = seen[u] /\ answer'[u] = answer[u]
        BY DEF IInv, TypeOK, Leave, Goto, Steps
    <2>2. seen'[t].result = seen[t].result /\ seen'[t].arguments = seen[t].arguments
          /\ seen'[t].metadata = row
        BY DEF IInv, TypeOK
    <2>3. ReadsAgree'
        BY <2>1, <2>2 DEF IInv, ReadsAgree, Reading, Undisturbed, OneProcess
    <2>4. LoadsAreWhole'
        BY <2>1, <2>2 DEF IInv, ReadsAgree, Reading, Undisturbed, LoadsAreWhole, OneProcess
    <2> QED BY <2>3, <2>4
  <1>3. CASE op[t] = "save"
             /\ [seen[t] EXCEPT !.metadata = row]
                   # [result |-> mine[t], arguments |-> TRUE, metadata |-> mine[t]]
    <2> USE <1>3 DEF IInv, Goto
    <2>1. TypeOK'        BY <1>1, GotoKeepsTypes DEF TypeOK, Steps
    <2>2. StepsFit'      BY DEF TypeOK, StepsFit, Reading
    <2>3. LocksAreLocal' BY DEF LocksAreLocal
    <2>4. LocksAreHeld'  BY DEF TypeOK, LocksAreHeld
    <2>5. SavesBring'    BY DEF TypeOK, SavesBring
    <2> QED BY <2>1, <2>2, <2>3, <2>4, <2>5, <1>2
  <1>4. CASE Leave(t, "done")
    <2>1. TypeOK'
        BY <1>1, <1>4, LeaveKeepsTypes DEF IInv, TypeOK
    <2>2. StepsFit' /\ LocksAreLocal' /\ LocksAreHeld' /\ SavesBring'
        BY <1>4, LeaveKeepsLocks
    <2> QED BY <2>1, <2>2, <1>2 DEF IInv
  <1> QED BY <1>3, <1>4

-----------------------------------------------------------------------------
\* Writing in a transaction changes nothing that others see.
LEMMA WritesKeepIInv ==
    ASSUME IInv, NEW t \in Threads, program' = program,
           Delete(t) \/ Insert(t) \/ Erase(t) \/ Busy(t)
    PROVE  IInv'
  <1>1. CASE Busy(t)
      BY <1>1, RaiseKeepsIInv DEF Busy
  <1>2. CASE \E next \in {"insert", "commit"} :
              /\ step[t] \in {"delete", "insert", "erase"}
              /\ step[t] = "erase" => next = "commit"
              /\ writer \in {None, t} /\ Writes(t, next)
    <2>1. PICK next \in {"insert", "commit"} :
              /\ step[t] \in {"delete", "insert", "erase"}
              /\ step[t] = "erase" => next = "commit"
              /\ writer \in {None, t} /\ Writes(t, next)
        BY <1>2
    <2>2. Follows(t, next)
        BY <2>1 DEF IInv, StepsFit, TypeOK, Follows, Reading
    <2>3. seen \in [Threads -> Fetched]
        BY DEF IInv, TypeOK, Fetched
    <2> QED BY <2>1, <2>2, <2>3, GotoKeepsIInv DEF Writes, Steps
  <1>3. CASE Delete(t)
      BY <1>2, <1>3 DEF Delete
  <1>4. CASE Insert(t)
    <2>1. CASE writer = None /\ row # None
        BY <2>1, <1>4, RaiseKeepsIInv DEF Insert
    <2>2. CASE ~(writer = None /\ row # None)
        BY <2>2, <1>2, <1>4 DEF Insert
    <2> QED BY <2>1, <2>2
  <1>5. CASE Erase(t)
      BY <1>2, <1>5 DEF Erase
  <1> QED BY <1>1, <1>3, <1>4, <1>5, Zenon

\* Who commits has the row to itself: nobody is between the statements of a read
\* by the full key.
LEMMA CommitKeepsIInv ==
    ASSUME IInv, NEW t \in Threads, program' = program, Commit(t)
    PROVE  IInv'
  <1> USE DEF Commit
  <1>1. TypeOK'
      BY LeaveKeepsTypes DEF IInv, TypeOK, Fetched
  <1>2. StepsFit' /\ LocksAreLocal' /\ LocksAreHeld' /\ SavesBring'
      BY LeaveKeepsLocks
  <1>3. /\ step'[t] = "idle"
        /\ \A u \in Threads : u # t => step'[u] = step[u] /\ answer'[u] = answer[u]
      BY DEF IInv, TypeOK, Leave, Goto
  <1>4. ReadsAgree'
    <2> SUFFICES ASSUME Undisturbed, NEW u \in Threads, u # t,
                        step[u] \in {"arguments", "metadata"}
                 PROVE  FALSE
        BY <1>3 DEF ReadsAgree, Reading, Undisturbed, OneProcess
    <2> QED BY OneInside
  <1>5. ~Reading(t)
      BY DEF IInv, StepsFit
  <1>6. LoadsAreWhole'
      BY <1>3, <1>5 DEF IInv, LoadsAreWhole, OneProcess, Reading
  <1> QED BY <1>1, <1>2, <1>4, <1>6 DEF IInv

\* A crash stops the threads of one process and frees its locks only.
LEMMA CrashKeepsIInv ==
    ASSUME IInv, NEW p \in Processes, program' = program, Crash(p)
    PROVE  IInv'
  <1> USE SqlAssumption DEF IInv, TypeOK, Crash
  <1>1. TypeOK'        BY DEF LocksAreLocal, Spellings, Steps
  <1>2. StepsFit'      BY DEF StepsFit, Reading
  <1>3. LocksAreLocal' BY DEF LocksAreLocal, Spellings
  <1>4. LocksAreHeld'  BY DEF LocksAreHeld
  <1>5. SavesBring'    BY DEF SavesBring
  <1>6. ReadsAgree'    BY DEF ReadsAgree, Reading, Undisturbed, OneProcess
  <1>7. LoadsAreWhole' BY DEF LoadsAreWhole, OneProcess
  <1> QED BY <1>1, <1>2, <1>3, <1>4, <1>5, <1>6, <1>7

-----------------------------------------------------------------------------
LEMMA NextKeepsIInv == IInv /\ [Next]_vars => IInv'
  <1> SUFFICES ASSUME IInv, [Next]_vars PROVE IInv'
      OBVIOUS
  <1>1. CASE Next
      BY <1>1, BeginsKeepsIInv, ReadsKeepIInv, FetchMetadataKeepsIInv, WritesKeepIInv,
         CommitKeepsIInv, CrashKeepsIInv
      DEF Next, Continues
  <1>2. CASE UNCHANGED vars
    <2> USE <1>2 DEF vars, IInv
    <2>1. TypeOK' /\ StepsFit' /\ LocksAreLocal' /\ LocksAreHeld' /\ SavesBring'
        BY DEF TypeOK, StepsFit, LocksAreLocal, LocksAreHeld, SavesBring, Reading
    <2>2. ReadsAgree' /\ LoadsAreWhole'
        BY DEF ReadsAgree, Reading, Undisturbed, LoadsAreWhole, OneProcess
    <2> QED BY <2>1, <2>2
  <1> QED BY <1>1, <1>2

LEMMA Invariance == Spec => []IInv
  BY InitIInv, NextKeepsIInv, PTL DEF Spec

\* Whoever has written in a transaction is about to end it, and a thread that is in
\* no operation holds no lock (sql.py 268-294, 391-407).
THEOREM TypeCorrect == Spec => []TypeOK
  BY Invariance, PTL DEF IInv

\* Whatever threads of one process save and evict at the same time, a load or a
\* query by full keys returns the result, the arguments and the metadata of one
\* record (sql.py 328-407, storage/base.py 426).
THEOREM ReadsReturnOneRecord == Spec => []LoadsAreWhole
  BY Invariance, PTL DEF IInv

\* However many processes save the call again, and whichever die in between, no
\* reader finds it missing (sql.py 296-326).
THEOREM SavingAgainIsAtomic == Spec => RecordStays
  <1>1. IInv /\ [Next]_vars => [Nobody("evict") /\ row # None => row' # None]_vars
    <2> SUFFICES ASSUME IInv, Next, Nobody("evict"), row # None PROVE row' # None
        OBVIOUS
    <2>1. CASE row' = row
        BY <2>1
    <2>2. CASE row' # row
      <3>1. PICK t \in Threads : Commit(t)
          BY <2>2 DEF Next, Begins, Save, Query, Load, Evict, QueryLoads, Continues,
                      Expand, Look, FetchRow, FetchArguments, FetchMetadata, Delete,
                      Insert, Erase, Busy, Raise, Writes, Crash
      <3>2. op[t] = "save"
          BY <3>1 DEF Commit, IInv, TypeOK, StepsFit, Reading, Nobody
      <3> QED BY <3>1, <3>2 DEF Commit, IInv, SavesBring
    <2> QED BY <2>1, <2>2
  <1> QED BY Invariance, <1>1, PTL DEF Spec, RecordStays
=============================================================================
