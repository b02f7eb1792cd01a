--------------------------- MODULE FileStoreProofs ---------------------------
(***************************************************************************)
(* What holds of FileStore for any threads, processes, keys and programs.   *)
(***************************************************************************)
EXTENDS FileStore, TLAPS

Locked(t) == lock[ProcessOf[t]] = t
InSave(t) == step[t] \in {"contains", "evict"}
Writes(t) == step[t] \in {"write", "fill", "replace"}

\* A thread inside save holds the lock of its process, a thread that holds a
\* lock is inside save, and who is at work calls something in this program.
LocksAreHeld ==
    /\ \A t \in Threads : InSave(t) => Locked(t)
    /\ \A t \in unlinked : Locked(t) /\ Writes(t)
    /\ \A p \in Processes : lock[p] # None => ProcessOf[lock[p]] = p /\ step[lock[p]] # "idle"
    /\ \A t \in Threads : step[t] # "idle" => ops[t] # {}

\* What a thread is about to rename is all it has written, and its own.
TempsAreOwn ==
    \A t \in Threads : step[t] = "replace" =>
        \A f \in temps : f.name = t => f.whole /\ f.content = content[t]

\* What is on the way to the path was signed by a process that is at work.
Known(c) == \E t \in Threads : ops[t] # {} /\ c.signer = Signer(ProcessOf[t])
SignersAreKnown ==
    /\ file # None => Known(file.content)
    /\ \A t \in Threads : content[t] # None => Known(content[t])

\* A record that is due is in the file, or a save is about to put another there.
DueIsThere == due => file # None \/ unlinked # {}

\* In one process, where nobody recodes, who is at work holds the lock and saves
\* the newest version; no version was loaded that is newer than the file's.
Alone(p) == RunsIn(p) /\ NobodyRecodes
OneAtATime ==
    \A p \in Processes : Alone(p) =>
        /\ \A t \in Threads : step[t] # "idle" => ProcessOf[t] = p /\ Locked(t) /\ content[t].version = saves
        /\ \A t \in Threads : seen[t] # None =>
            seen[t] <= saves /\ (file # None => seen[t] <= file.content.version)
        /\ file # None => file.content.version <= saves

IInv == TypeOK /\ LocksAreHeld /\ TempsAreOwn /\ FilesAreWhole /\ SignersAreKnown /\ DueIsThere /\ OneAtATime

USE FilesAssumption, NoneIsNoRecord

\* What signs is a key, and what is pickled says who signed it.
LEMMA PickledIsContent ==
    ASSUME TypeOK, NEW p \in Processes, NEW v \in 1 .. MaxSaves
    PROVE  /\ Signer(p) \in Keys \cup {None}
           /\ Pickled(p, v) \in Contents
           /\ Pickled(p, v).signer = Signer(p)
           /\ Pickled(p, v).version = v
  BY DEF Pickled, Signer, Contents, TypeOK

LEMMA InitIInv == Init => IInv
  <1> SUFFICES ASSUME Init PROVE IInv
      OBVIOUS
  <1> USE DEF Init
  <1>1. TypeOK
    <2>1. saves \in 0 .. MaxSaves /\ crashes \in 0 .. MaxCrashes
        OBVIOUS
    <2>2. /\ seen \in [Threads -> 1 .. MaxSaves \cup {None}]
          /\ lock \in [Processes -> Threads \cup {None}]
          /\ step \in [Threads -> {"idle", "contains", "evict", "write", "fill", "replace"}]
          /\ content \in [Threads -> Contents \cup {None}]
        OBVIOUS
    <2>3. \A t \in Threads : content[t] = None /\ step[t] = "idle" /\ \A p \in Processes : lock[p] # t
        OBVIOUS
    <2> QED BY <2>1, <2>2, <2>3 DEF TypeOK
  <1>2. LocksAreHeld
      BY DEF LocksAreHeld, InSave
  <1>3. TempsAreOwn /\ FilesAreWhole /\ DueIsThere
      BY DEF TempsAreOwn, FilesAreWhole, DueIsThere
  <1>4. SignersAreKnown
      BY DEF SignersAreKnown
  <1>5. OneAtATime
      BY DEF OneAtATime
  <1> QED BY <1>1, <1>2, <1>3, <1>4, <1>5 DEF IInv

\* A temporary file has the contents of a file.
LEMMA TempIsFile ==
    ASSUME TypeOK, NEW f \in temps
    PROVE  /\ f.content \in Contents /\ f.whole \in BOOLEAN
           /\ [content |-> f.content, whole |-> f.whole] \in Files
  <1>1. f \in Temps
      BY DEF TypeOK
  <1> QED BY <1>1 DEF Temps, Files

\* What a thread writes is a temporary file of its own.
LEMMA WithIsTemps ==
    ASSUME TypeOK, NEW t \in Threads, step[t] # "idle", NEW w \in BOOLEAN
    PROVE  /\ With(t, w) \subseteq Temps
           /\ \A f \in With(t, w) : IF f.name = t THEN f.content = content[t] /\ f.whole = w ELSE f \in temps
  <1>1. content[t] \in Contents
      BY DEF TypeOK
  <1>2. [name |-> t, content |-> content[t], whole |-> w] \in Temps
      BY <1>1 DEF Temps
  <1> QED BY <1>2 DEF With, Without, TempName, TypeOK

\* What a load finds is a version.
LEMMA LoadedIs ==
    ASSUME TypeOK, NEW p \in Processes
    PROVE  /\ Loaded(p) \in 1 .. MaxSaves \cup {None}
           /\ Loaded(p) # None => file # None /\ Loaded(p) = file.content.version
           /\ file # None /\ Verified(p, file.content) => Loaded(p) # None
  BY DEF Loaded, TypeOK, Files, Contents

\* Every step keeps the types.
LEMMA StepKeepsTypes ==
    ASSUME TypeOK, LocksAreHeld, UNCHANGED <<ops, keys>>,
           (\E t \in Threads : Step(t)) \/ (\E p \in Processes : Crash(p))
    PROVE  TypeOK'
  <1> USE DEF TypeOK, Goto, Leave, LockFree, ghosts
  <1>1. ASSUME NEW t \in Threads, Save(t) PROVE TypeOK'
      BY <1>1, PickledIsContent DEF Save
  <1>2. ASSUME NEW t \in Threads, Contains(t) PROVE TypeOK'
      BY <1>2 DEF Contains
  <1>3. ASSUME NEW t \in Threads, EvictOld(t) PROVE TypeOK'
      BY <1>3 DEF EvictOld
  <1>4. ASSUME NEW t \in Threads, Evict(t) PROVE TypeOK'
      BY <1>4 DEF Evict
  <1>5. ASSUME NEW t \in Threads, Load(t) PROVE TypeOK'
      BY <1>5, LoadedIs DEF Load
  <1>6. ASSUME NEW t \in Threads, NEW z \in BOOLEAN, Recode(t, z) PROVE TypeOK'
    <2>1. [file.content EXCEPT !.zipped = z] \in Contents
        BY <1>6 DEF Recode, Files, Contents
    <2> QED BY <1>6, <2>1 DEF Recode
  <1>7. ASSUME NEW t \in Threads, Create(t) \/ Fill(t) PROVE TypeOK'
    <2>1. With(t, FALSE) \subseteq Temps /\ With(t, TRUE) \subseteq Temps
        BY <1>7, WithIsTemps DEF Create, Fill
    <2>2. CASE Create(t)
        BY <2>1, <2>2 DEF Create
    <2>3. CASE Fill(t)
        BY <2>1, <2>3 DEF Fill
    <2> QED BY <1>7, <2>2, <2>3
  <1>8. ASSUME NEW t \in Threads, FillFails(t) PROVE TypeOK'
      BY <1>8 DEF FillFails, Without
  <1>9. ASSUME NEW t \in Threads, Replace(t) PROVE TypeOK'
    <2>1. file' \in Files
        BY <1>9, TempIsFile DEF Replace
    <2> QED BY <1>9, <2>1 DEF Replace, Without
  <1>10. ASSUME NEW p \in Processes, Crash(p) PROVE TypeOK'
    <2>1. \A f \in Temps : [f EXCEPT !.name = None] \in Temps
        BY DEF Temps
    <2>2. temps' \subseteq Temps
        BY <1>10, <2>1 DEF Crash
    <2>3. unlinked' \subseteq Threads /\ due' \in BOOLEAN
        BY <1>10 DEF Crash
    <2>4. /\ step' \in [Threads -> {"idle", "contains", "evict", "write", "fill", "replace"}]
          /\ content' \in [Threads -> Contents \cup {None}]
          /\ lock' \in [Processes -> Threads \cup {None}]
          /\ crashes' \in 0 .. MaxCrashes
          /\ \A t \in Threads : (content'[t] = None) <=> (step'[t] = "idle")
        BY <1>10 DEF Crash
    <2>5. \A t \in Threads : step'[t] = "idle" => \A q \in Processes : lock'[q] # t
        BY <1>10 DEF Crash, LocksAreHeld
    <2>6. UNCHANGED <<file, saves, seen>>
        BY <1>10 DEF Crash
    <2> QED BY <2>2, <2>3, <2>4, <2>5, <2>6
  <1> QED
      BY <1>1, <1>2, <1>3, <1>4, <1>5, <1>6, <1>7, <1>8, <1>9, <1>10 DEF Step

\* A lock is taken by a save and left with it, or with its process.
LEMMA StepKeepsLocks ==
    ASSUME TypeOK, LocksAreHeld, UNCHANGED <<ops, keys>>,
           (\E t \in Threads : Step(t)) \/ (\E p \in Processes : Crash(p))
    PROVE  LocksAreHeld'
  <1> USE DEF TypeOK, LocksAreHeld, InSave, Writes, Locked, Goto, Leave, LockFree, ghosts
  <1>1. ASSUME NEW t \in Threads, Save(t) PROVE LocksAreHeld'
      BY <1>1 DEF Save
  <1>2. ASSUME NEW t \in Threads, Contains(t) PROVE LocksAreHeld'
      BY <1>2 DEF Contains
  <1>3. ASSUME NEW t \in Threads, EvictOld(t) PROVE LocksAreHeld'
      BY <1>3 DEF EvictOld
  <1>4. ASSUME NEW t \in Threads, Evict(t) \/ Load(t) PROVE LocksAreHeld'
      BY <1>4 DEF Evict, Load
  <1>5. ASSUME NEW t \in Threads, NEW z \in BOOLEAN, Recode(t, z) PROVE LocksAreHeld'
      BY <1>5 DEF Recode
  <1>6. ASSUME NEW t \in Threads, Create(t) \/ Fill(t) PROVE LocksAreHeld'
    <2>1. CASE Create(t)
        BY <2>1 DEF Create
    <2>2. CASE Fill(t)
        BY <2>2 DEF Fill
    <2> QED BY <1>6, <2>1, <2>2
  <1>7. ASSUME NEW t \in Threads, FillFails(t) \/ Replace(t) PROVE LocksAreHeld'
    <2>1. /\ step' = [step EXCEPT ![t] = "idle"] /\ unlinked' = unlinked \ {t}
          /\ lock' = [p \in Processes |-> IF lock[p] = t THEN None ELSE lock[p]]
        BY <1>7 DEF FillFails, Replace
    <2> QED BY <2>1
  <1>8. ASSUME NEW p \in Processes, Crash(p) PROVE LocksAreHeld'
      BY <1>8 DEF Crash
  <1> QED BY <1>1, <1>2, <1>3, <1>4, <1>5, <1>6, <1>7, <1>8 DEF Step

\* Nobody else writes the temporary file of a thread that is about to rename it.
LEMMA StepKeepsTemps ==
    ASSUME TypeOK, TempsAreOwn,
           (\E t \in Threads : Step(t)) \/ (\E p \in Processes : Crash(p))
    PROVE  TempsAreOwn'
  <1> USE DEF TypeOK, TempsAreOwn, Goto, Leave
  <1>1. ASSUME NEW t \in Threads, Save(t) PROVE TempsAreOwn'
      BY <1>1 DEF Save
  <1>2. ASSUME NEW t \in Threads, Contains(t) PROVE TempsAreOwn'
      BY <1>2 DEF Contains
  <1>3. ASSUME NEW t \in Threads, EvictOld(t) PROVE TempsAreOwn'
      BY <1>3 DEF EvictOld
  <1>4. ASSUME NEW t \in Threads, Evict(t) \/ Load(t) PROVE TempsAreOwn'
      BY <1>4 DEF Evict, Load
  <1>5. ASSUME NEW t \in Threads, NEW z \in BOOLEAN, Recode(t, z) PROVE TempsAreOwn'
      BY <1>5 DEF Recode
  <1>6. ASSUME NEW t \in Threads, Create(t) PROVE TempsAreOwn'
    <2>1. \A f \in temps' : f.name # t => f \in temps
        BY <1>6, WithIsTemps DEF Create
    <2>2. content' = content /\ \A s \in Threads : step'[s] = "replace" => s # t /\ step[s] = "replace"
        BY <1>6 DEF Create
    <2> QED BY <2>1, <2>2
  <1>7. ASSUME NEW t \in Threads, Fill(t) PROVE TempsAreOwn'
    <2>1. \A f \in temps' : IF f.name = t THEN f.content = content[t] /\ f.whole ELSE f \in temps
        BY <1>7, WithIsTemps, TRUE \in BOOLEAN DEF Fill
    <2>2. content' = content /\ \A s \in Threads : step'[s] = "replace" => s = t \/ step[s] = "replace"
        BY <1>7 DEF Fill
    <2> QED BY <2>1, <2>2
  <1>8. ASSUME NEW t \in Threads, FillFails(t) \/ Replace(t) PROVE TempsAreOwn'
    <2>1. /\ step' = [step EXCEPT ![t] = "idle"] /\ temps' \subseteq temps
          /\ content' = [content EXCEPT ![t] = None]
        BY <1>8 DEF FillFails, Replace, Without
    <2> QED BY <2>1
  <1>9. ASSUME NEW p \in Processes, Crash(p) PROVE TempsAreOwn'
    <2> DEFINE dead == {t \in Threads : ProcessOf[t] = p}
    <2> SUFFICES ASSUME NEW t \in Threads, step'[t] = "replace", NEW f \in temps', f.name = t
                 PROVE  f.whole /\ f.content = content'[t]
        OBVIOUS
    <2>1. t \notin dead /\ step[t] = "replace" /\ content'[t] = content[t]
        BY <1>9 DEF Crash
    <2>2. PICK g \in temps : f = IF g.name \in dead THEN [g EXCEPT !.name = None] ELSE g
        BY <1>9 DEF Crash
    <2>3. \A h \in Temps : [h EXCEPT !.name = None].name = None
        BY DEF Temps
    <2>4. f = g
        BY <2>2, <2>3
    <2> QED BY <2>1, <2>4
  <1> QED BY <1>1, <1>2, <1>3, <1>4, <1>5, <1>6, <1>7, <1>8, <1>9 DEF Step

\* What is renamed over the path is whole, and is what the thread was to write.
LEMMA RenamedIsOwn ==
    ASSUME TypeOK, TempsAreOwn, NEW t \in Threads, Replace(t)
    PROVE  file' # None /\ file'.whole /\ file'.content = content[t] /\ content[t] # None
  <1>1. PICK f \in temps : f.name = t /\ file' = [content |-> f.content, whole |-> f.whole]
      BY DEF Replace, TempName
  <1>2. f.whole /\ f.content = content[t]
      BY <1>1 DEF TempsAreOwn, Replace
  <1>3. file' \in Files
      BY <1>1, TempIsFile
  <1>4. content[t] # None
      BY DEF Replace, TypeOK
  <1> QED BY <1>1, <1>2, <1>3, <1>4

\* Only a rename puts a file in place, a complete one; recoding keeps the signature.
LEMMA StepKeepsFiles ==
    ASSUME TypeOK, LocksAreHeld, TempsAreOwn, FilesAreWhole, SignersAreKnown, UNCHANGED <<ops, keys>>,
           (\E t \in Threads : Step(t)) \/ (\E p \in Processes : Crash(p))
    PROVE  FilesAreWhole' /\ SignersAreKnown'
  <1>0. keys' = keys /\ ops' = ops
      OBVIOUS
  <1>a. \A c : Known(c)' <=> Known(c)
      BY <1>0 DEF Known, Signer
  <1> USE <1>a DEF FilesAreWhole, SignersAreKnown, TypeOK, Goto, Leave, LockFree
  <1>1. ASSUME NEW t \in Threads, Save(t) PROVE FilesAreWhole' /\ SignersAreKnown'
    <2>1. ops[t] # {} /\ content'[t].signer = Signer(ProcessOf[t])
        BY <1>1, PickledIsContent DEF Save, Pickled
    <2>2. Known(content'[t])
        BY <2>1 DEF Known
    <2> QED BY <1>1, <2>2 DEF Save
  <1>2. ASSUME NEW t \in Threads, Contains(t) PROVE FilesAreWhole' /\ SignersAreKnown'
      BY <1>2 DEF Contains
  <1>3. ASSUME NEW t \in Threads, EvictOld(t) PROVE FilesAreWhole' /\ SignersAreKnown'
      BY <1>3 DEF EvictOld
  <1>4. ASSUME NEW t \in Threads, Evict(t) \/ Load(t) PROVE FilesAreWhole' /\ SignersAreKnown'
    <2>1. (file' = file \/ file' = None) /\ content' = content
        BY <1>4 DEF Evict, Load
    <2> QED BY <2>1
  <1>5. ASSUME NEW t \in Threads, NEW z \in BOOLEAN, Recode(t, z) PROVE FilesAreWhole' /\ SignersAreKnown'
    <2>1. [file.content EXCEPT !.zipped = z].signer = file.content.signer
        BY <1>5 DEF Recode, Files, Contents
    <2>2. Known([file.content EXCEPT !.zipped = z])
        BY <1>5, <2>1 DEF Recode, Known
    <2> QED BY <1>5, <2>2 DEF Recode
  <1>6. ASSUME NEW t \in Threads, Create(t) \/ Fill(t) PROVE FilesAreWhole' /\ SignersAreKnown'
    <2>1. UNCHANGED <<file, content>>
        BY <1>6 DEF Create, Fill
    <2> QED BY <2>1
  <1>7. ASSUME NEW t \in Threads, FillFails(t) PROVE FilesAreWhole' /\ SignersAreKnown'
      BY <1>7 DEF FillFails
  <1>8. ASSUME NEW t \in Threads, Replace(t) PROVE FilesAreWhole' /\ SignersAreKnown'
    <2>1. file'.whole /\ file'.content = content[t] /\ content[t] # None
        BY <1>8, RenamedIsOwn
    <2>2. content' = [content EXCEPT ![t] = None]
        BY <1>8 DEF Replace
    <2> QED BY <2>1, <2>2
  <1>9. ASSUME NEW p \in Processes, Crash(p) PROVE FilesAreWhole' /\ SignersAreKnown'
      BY <1>9 DEF Crash
  <1> QED
      BY <1>1, <1>2, <1>3, <1>4, <1>5, <1>6, <1>7, <1>8, <1>9 DEF Step

\* A save that unlinks the old record is about to write one; when it does not,
\* nothing is due any more.
LEMMA StepKeepsDue ==
    ASSUME TypeOK, TempsAreOwn, DueIsThere,
           (\E t \in Threads : Step(t)) \/ (\E p \in Processes : Crash(p))
    PROVE  DueIsThere'
  <1> USE DEF DueIsThere, TypeOK, Goto, Leave, ghosts
  <1>1. ASSUME NEW t \in Threads, Save(t) \/ Contains(t) \/ Load(t) \/ Create(t) \/ Fill(t) PROVE DueIsThere'
      BY <1>1 DEF Save, Contains, Load, Create, Fill
  <1>2. ASSUME NEW t \in Threads, EvictOld(t) \/ Evict(t) PROVE DueIsThere'
      BY <1>2 DEF EvictOld, Evict
  <1>3. ASSUME NEW t \in Threads, NEW z \in BOOLEAN, Recode(t, z) PROVE DueIsThere'
      BY <1>3 DEF Recode
  <1>4. ASSUME NEW t \in Threads, FillFails(t) PROVE DueIsThere'
    <2>1. due' => due /\ t \notin unlinked
        BY <1>4 DEF FillFails
    <2>2. file' = file /\ unlinked' = unlinked \ {t}
        BY <1>4 DEF FillFails
    <2> QED BY <2>1, <2>2
  <1>5. ASSUME NEW t \in Threads, Replace(t) PROVE DueIsThere'
      BY <1>5, RenamedIsOwn
  <1>6. ASSUME NEW p \in Processes, Crash(p) PROVE DueIsThere'
      BY <1>6 DEF Crash
  <1> QED BY <1>1, <1>2, <1>3, <1>4, <1>5, <1>6 DEF Step

\* In one process a thread at work is the only one, and has the newest version.
LEMMA OthersAreIdle ==
    ASSUME OneAtATime, NEW p \in Processes, Alone(p), NEW t \in Threads, step[t] # "idle"
    PROVE  /\ ProcessOf[t] = p /\ lock[p] = t /\ content[t].version = saves
           /\ \A s \in Threads : step[s] # "idle" => s = t
  BY DEF OneAtATime, Locked

\* In one process the operations on the key follow one another.
LEMMA StepKeepsOneAtATime ==
    ASSUME TypeOK, TempsAreOwn, OneAtATime, UNCHANGED <<ops, keys>>,
           (\E t \in Threads : Step(t)) \/ (\E p \in Processes : Crash(p))
    PROVE  OneAtATime'
  <1> DEFINE Order(p) ==
        /\ \A t \in Threads : step[t] # "idle" => ProcessOf[t] = p /\ Locked(t) /\ content[t].version = saves
        /\ \A t \in Threads : seen[t] # None =>
            seen[t] <= saves /\ (file # None => seen[t] <= file.content.version)
        /\ file # None => file.content.version <= saves
  <1> SUFFICES ASSUME NEW p \in Processes, Alone(p) PROVE Order(p)'
      BY DEF OneAtATime, Alone, RunsIn, NobodyRecodes
  <1>0. /\ Order(p) /\ saves \in Nat
        /\ file # None => file.content.version \in Nat
        /\ \A t \in Threads : seen[t] # None => seen[t] \in Nat
      BY DEF OneAtATime, TypeOK, Files, Contents
  <1> USE <1>0 DEF Locked, TypeOK, Goto, Leave, ghosts
  <1>1. ASSUME NEW t \in Threads, Save(t) PROVE Order(p)'
    <2>1. ProcessOf[t] = p /\ \A s \in Threads : step[s] = "idle"
        BY <1>1 DEF Save, Alone, RunsIn, LockFree
    <2>2. saves' = saves + 1 /\ content'[t].version = saves + 1
        BY <1>1, <2>1, PickledIsContent DEF Save
    <2> QED BY <1>1, <2>1, <2>2 DEF Save
  <1>2. ASSUME NEW t \in Threads, Contains(t) PROVE Order(p)'
      BY <1>2 DEF Contains
  <1>3. ASSUME NEW t \in Threads, EvictOld(t) PROVE Order(p)'
      BY <1>3 DEF EvictOld
  <1>4. ASSUME NEW t \in Threads, Evict(t) PROVE Order(p)'
      BY <1>4 DEF Evict
  <1>5. ASSUME NEW t \in Threads, Load(t) PROVE Order(p)'
      BY <1>5, LoadedIs DEF Load
  <1>6. ASSUME NEW t \in Threads, NEW z \in BOOLEAN, Recode(t, z) PROVE FALSE
      BY <1>6 DEF Recode, Alone, NobodyRecodes
  <1>7. ASSUME NEW t \in Threads, Create(t) \/ Fill(t) PROVE Order(p)'
    <2>1. UNCHANGED <<file, lock, content, saves, seen>>
        BY <1>7 DEF Create, Fill
    <2>2. step[t] # "idle" /\ \A s \in Threads : s # t => step'[s] = step[s]
      <3>1. CASE Create(t)
          BY <3>1 DEF Create
      <3>2. CASE Fill(t)
          BY <3>2 DEF Fill
      <3> QED BY <1>7, <3>1, <3>2
    <2> QED BY <2>1, <2>2
  <1>8. ASSUME NEW t \in Threads, FillFails(t) PROVE Order(p)'
    <2>1. \A s \in Threads : step[s] # "idle" => s = t
        BY <1>8, OthersAreIdle DEF FillFails
    <2>2. \A s \in Threads : step'[s] = "idle"
        BY <1>8, <2>1 DEF FillFails
    <2> QED BY <1>8, <2>2 DEF FillFails
  <1>9. ASSUME NEW t \in Threads, Replace(t) PROVE Order(p)'
    <2>1. content[t].version = saves /\ \A s \in Threads : step[s] # "idle" => s = t
        BY <1>9, OthersAreIdle DEF Replace
    <2>2. \A s \in Threads : step'[s] = "idle"
        BY <1>9, <2>1 DEF Replace
    <2>3. file'.content.version = saves
        BY <1>9, <2>1, RenamedIsOwn
    <2>4. saves' = saves /\ seen' = seen
        BY <1>9 DEF Replace
    <2> QED BY <2>2, <2>3, <2>4
  <1>10. ASSUME NEW q \in Processes, Crash(q) PROVE Order(p)'
    <2>1. \A t \in Threads : step[t] # "idle" => lock[p] = t /\ ProcessOf[t] = p
        OBVIOUS
    <2>2. \A t \in Threads : step'[t] # "idle" => step'[t] = step[t] /\ ProcessOf[t] # q /\ content'[t] = content[t]
        BY <1>10 DEF Crash
    <2>3. lock' = [lock EXCEPT ![q] = None] /\ UNCHANGED <<file, saves, seen>>
        BY <1>10 DEF Crash
    <2> QED BY <2>1, <2>2, <2>3
  <1> QED
      BY <1>1, <1>2, <1>3, <1>4, <1>5, <1>6, <1>7, <1>8, <1>9, <1>10 DEF Step

LEMMA NextKeepsIInv == IInv /\ [Next]_vars => IInv'
  <1> SUFFICES ASSUME IInv, [Next]_vars PROVE IInv'
      OBVIOUS
  <1>1. CASE Next
    <2>1. /\ UNCHANGED <<ops, keys>>
          /\ (\E t \in Threads : Step(t)) \/ (\E p \in Processes : Crash(p))
        BY <1>1 DEF Next
    <2> QED BY <2>1, StepKeepsTypes, StepKeepsLocks, StepKeepsTemps, StepKeepsFiles, StepKeepsDue,
               StepKeepsOneAtATime DEF IInv
  <1>2. CASE UNCHANGED vars
    <2> USE <1>2 DEF vars, IInv
    <2>1. TypeOK'
        BY DEF TypeOK
    <2>2. LocksAreHeld' /\ TempsAreOwn'
        BY DEF LocksAreHeld, InSave, Writes, Locked, TempsAreOwn
    <2>3. FilesAreWhole' /\ SignersAreKnown'
        BY DEF FilesAreWhole, SignersAreKnown, Known, Signer
    <2>4. DueIsThere'
        BY DEF DueIsThere
    <2>5. OneAtATime'
        BY DEF OneAtATime, Alone, RunsIn, NobodyRecodes, Locked
    <2> QED BY <2>1, <2>2, <2>3, <2>4, <2>5
  <1> QED BY <1>1, <1>2

LEMMA Invariance == Spec => []IInv
  BY InitIInv, NextKeepsIInv, PTL DEF Spec

\* A process loads what is signed with the key that it signs with itself, or
\* that a process it trusts signs with.
LEMMA TrustedIsLoaded ==
    ASSUME TypeOK, NEW p \in Processes, NEW q \in Processes, q = p \/ Trusts(p, q),
           file # None, file.content.signer = Signer(q)
    PROVE  Loaded(p) # None
  <1>1. keys[p] # <<>> => 1 \in DOMAIN keys[p]
      BY DEF TypeOK
  <1>2. Verified(p, file.content)
      BY <1>1 DEF Verified, Signer, Trusts, Range
  <1> QED BY <1>2, LoadedIs

\* All variables have their types, a thread writes just while it is at work, and
\* one that is not holds no lock (base.py 421-428).
THEOREM TypeCorrect == Spec => []TypeOK
  BY Invariance, PTL DEF IInv

\* Whatever any number of processes write side by side, fail at or die in, the
\* path holds no file or a complete one (file.py _atomic_write).
THEOREM ThePathIsWhole == Spec => []FilesAreWhole
  BY Invariance, PTL DEF IInv

\* Of any number of threads of one process that save, load and evict one key, a
\* load never falls into the gap of a save, and never finds a record older than
\* one found before (base.py 421-433).
THEOREM LoadsOnlyGoForward == Spec => LoadsGoForward
  <1>1. IInv /\ [Next]_vars =>
            [\A t \in Threads :
                Load(t) /\ RunsIn(ProcessOf[t]) =>
                    /\ due => seen'[t] # None
                    /\ NobodyRecodes /\ seen'[t] # None =>
                        \A u \in Threads : seen[u] # None => seen[u] <= seen'[t]]_vars
    <2> SUFFICES ASSUME IInv, NEW t \in Threads, Load(t), RunsIn(ProcessOf[t])
                 PROVE  /\ due => seen'[t] # None
                        /\ NobodyRecodes /\ seen'[t] # None =>
                            \A u \in Threads : seen[u] # None => seen[u] <= seen'[t]
        OBVIOUS
    <2> DEFINE p == ProcessOf[t]
    <2>1. p \in Processes /\ seen'[t] = Loaded(p) /\ lock[p] = None
        BY DEF Load, LockFree, IInv, TypeOK
    <2>2. ASSUME due PROVE Loaded(p) # None
      <3>1. unlinked = {}
        <4> SUFFICES ASSUME NEW u \in unlinked PROVE FALSE
            OBVIOUS
        <4>1. u \in Threads /\ Locked(u) /\ ops[u] # {}
            BY DEF IInv, TypeOK, LocksAreHeld, Writes
        <4>2. ProcessOf[u] = p
            BY <4>1 DEF RunsIn
        <4> QED BY <2>1, <4>1, <4>2 DEF Locked
      <3>2. file # None
          BY <2>2, <3>1 DEF IInv, DueIsThere
      <3>3. file.content.signer = Signer(p)
          BY <3>2 DEF IInv, SignersAreKnown, Known, RunsIn
      <3> QED BY <2>1, <3>2, <3>3, TrustedIsLoaded DEF IInv
    <2>3. ASSUME NobodyRecodes, Loaded(p) # None, NEW u \in Threads, seen[u] # None
          PROVE  seen[u] <= Loaded(p)
      <3>1. file # None /\ Loaded(p) = file.content.version
          BY <2>1, <2>3, LoadedIs DEF IInv
      <3> QED BY <2>1, <2>3, <3>1 DEF IInv, OneAtATime, Alone
    <2> QED BY <2>1, <2>2, <2>3
  <1> QED BY Invariance, <1>1, PTL DEF Spec, LoadsGoForward

\* However saves, evictions and recodings of any processes interleave, fail or
\* die, a record that is due leaves one that every process trusting the others
\* can load (base.py 421-428, pickle_file.py, security.py).
THEOREM TheRecordSurvives == Spec => []RecordSurvives
  <1>1. IInv => RecordSurvives
    <2> SUFFICES ASSUME IInv, Quiet, due, NEW p \in Processes, \A q \in Processes : Trusts(p, q)
                 PROVE  Loaded(p) # None
        BY DEF RecordSurvives
    <2>1. unlinked = {}
        BY DEF IInv, TypeOK, LocksAreHeld, Writes, Quiet
    <2>2. file # None
        BY <2>1 DEF IInv, DueIsThere
    <2>3. PICK t \in Threads : file.content.signer = Signer(ProcessOf[t])
        BY <2>2 DEF IInv, SignersAreKnown, Known
    <2>4. ProcessOf[t] \in Processes
        OBVIOUS
    <2> QED BY <2>2, <2>3, <2>4, TrustedIsLoaded DEF IInv
  <1> QED BY Invariance, <1>1, PTL
=============================================================================
