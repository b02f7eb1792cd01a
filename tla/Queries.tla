-------------------------------- MODULE Queries --------------------------------
(***************************************************************************)
(* Queries of a cache (query.py, BaseCache.query) over memory or void         *)
(* storages (memory.py, void.py).  A program chains stages onto a query, and  *)
(* a consuming method pulls the records through them one by one, while        *)
(* another thread saves and evicts records and collects values.  A record     *)
(* that is delivered has its values in the cache still: they are loaded when  *)
(* a stage or the consumer asks for them.                                     *)
(*                                                                           *)
(* The calls of a CallMemory are the pairs of its dict, in order; a record    *)
(* has one value, its argument and its result.                                *)
(***************************************************************************)
EXTENDS Naturals, Sequences, FiniteSets, SequencesExt

CONSTANTS
    Ids,         \* lookup keys
    ValueOf,     \* the value of the record under a key, a number
    Stored,      \* what may be in the cache when a query begins: sequences of [key, time]
    Questions,   \* what a program asks for: [view, by, pop]
    MaxTime,     \* bound: timestop of a record, 0 for one without runtime metadata
    MaxWrites,   \* bound: steps of the other thread
    Missing

Records == [key : Ids, time : 0 .. MaxTime]

StageKinds ==
    [op : {"filter", "unique", "group"}] \cup [op : {"sorted"}, reverse : BOOLEAN]
    \cup [op : {"take", "skip"}, n : Nat]

\* Values are compared; what list() returns has each key once; only transfer
\* pops, and groupby puts its own stage last.
ASSUME QueriesFit ==
    /\ ValueOf \in [Ids -> Nat] /\ MaxTime \in Nat
    /\ Stored \subseteq Seq(Records)
    /\ \A s \in Stored : \A i, j \in DOMAIN s : s[i].key = s[j].key => i = j
    /\ \A q \in Questions :
         /\ q.view \in Seq(StageKinds)
         /\ q.pop \in BOOLEAN /\ (q.pop => q.by = "transfer")
         /\ (q.by = "groupby" => q.view # <<>> /\ Last(q.view).op = "group")

VARIABLES
    entries,  \* CallMemory.storage: a sequence of [key, time]
    values,   \* ValueMemory.storage: the values it has
    void,     \* the values are in a ValueVoid
    copied,   \* the entries of the cache records are transferred to
    phase,    \* what the query is at
    asked,    \* [view, by, pop]: the stages, the consumer, and whether transfer pops
    rest,     \* keys that list() returned or records that were sorted, to be pulled yet
    from,     \* the stage that rest comes from, 0 for the storage
    memory,   \* memory[i]: what stage i remembers: a count, values seen, records
    hand,     \* the record on its way
    out,      \* the records delivered so far
    answer,   \* what the consumer returned or raised
    writes,
    start,    \* ghost: entries when the query began
    been,     \* ghost: entries there have been since then
    gone,     \* ghost: keys the other thread has evicted since then
    disturbed \* ghost: it has written since then

storages == <<entries, values, copied>>
pulling == <<rest, from, memory, hand, out>>
query == <<phase, asked, void, answer>>
ghosts == <<start, been, gone, disturbed>>
queryVars == <<storages, pulling, query, ghosts, writes>>

KeysOf(records) == {record.key : record \in Range(records)}

-----------------------------------------------------------------------------
(* The storages.                                                            *)

\* The members of a sequence that are in S, in their order.
Kept(s, S) ==
    LET kept[i \in 0 .. Len(s)] ==
            IF i = 0 THEN <<>> ELSE IF s[i] \in S THEN Append(kept[i - 1], s[i]) ELSE kept[i - 1]
    IN  kept[Len(s)]

\* CallMixin.save: a record saved again is evicted first and goes to the end.
Without(records, key) == Kept(records, {record \in Range(records) : record.key # key})
Put(records, record) == Append(Without(records, record.key), record)
PutValue(value) == IF void THEN values ELSE values \cup {value}

\* MemoryBackend.list, a tuple; gc keeps what some record refers to.
Listed == [i \in DOMAIN entries |-> entries[i].key]
Referred == {ValueOf[key] : key \in KeysOf(entries)}

\* LazyCall.result is a KeyError if the value is gone; LazyArguments then has its
\* digest instead.
HasResult(record) == ValueOf[record.key] \in values
Argument(record) == <<IF HasResult(record) THEN "value" ELSE "digest", ValueOf[record.key]>>

-----------------------------------------------------------------------------
(* Stages: [op |-> "filter"], which keeps calls with runtime metadata,        *)
(* [op |-> "unique"] and [op |-> "sorted", reverse |-> b] by the argument,    *)
(* [op |-> "take", n |-> n], [op |-> "skip", n |-> n], and last for groupby   *)
(* [op |-> "group"], by the argument.                                         *)

Fresh(stage) ==
    CASE stage.op = "unique" -> {}
      [] stage.op = "sorted" -> <<>>
      [] stage.op = "group"  -> [name \in {} |-> <<>>]
      [] OTHER               -> 0

\* builtins.sorted is stable, in reverse too.  Numbers do not compare with
\* digests; digests may be in any order among themselves, here in that of values.
Comparable(records) == Cardinality({Argument(record)[1] : record \in Range(records)}) <= 1
GoesBefore(records, reverse, i, j) ==
    LET a == ValueOf[records[i].key]
        b == ValueOf[records[j].key]
    IN  IF a = b THEN i < j ELSE (a < b) # reverse
Place(records, reverse, i) == Cardinality({j \in DOMAIN records : GoesBefore(records, reverse, j, i)}) + 1
Sorted(records, reverse) ==
    [n \in DOMAIN records |-> records[CHOOSE i \in DOMAIN records : Place(records, reverse, i) = n]]

\* What a stage does with a record: it passes or not, and what is remembered.
Stage(stage, past, record) ==
    LET name == Argument(record)
        group == IF name \in DOMAIN past THEN past[name] ELSE <<>>
    IN  CASE stage.op = "filter" -> [passes |-> record.time > 0, past |-> past]
          [] stage.op = "unique" -> [passes |-> name \notin past, past |-> past \cup {name}]
          [] stage.op = "sorted" -> [passes |-> FALSE, past |-> Append(past, record)]
          [] stage.op = "group"  -> [passes |-> TRUE, past |-> [g \in DOMAIN past \cup {name} |->
                                        IF g = name THEN Append(group, record) ELSE past[g]]]
          [] stage.op = "take"   -> [passes |-> TRUE, past |-> past + 1]
          [] OTHER               -> [passes |-> past >= stage.n, past |-> past + 1]

\* The record gets from the source to stage i, when all stages between let it pass.
Reaches(i, record) == \A j \in from + 1 .. i - 1 : Stage(asked.view[j], memory[j], record).passes

\* islice does not ask for more than n.
Full(i) == asked.view[i].op = "take" /\ memory[i] >= asked.view[i].n
FullStages == {i \in from + 1 .. Len(asked.view) : Full(i)}

-----------------------------------------------------------------------------
(* A traversal.                                                             *)

Effects == {"evict", "transfer", "results"}
Enough == CASE asked.by \in {"any", "empty"} -> Len(out) = 1
            [] asked.by = "only"             -> Len(out) = 2
            [] OTHER                         -> FALSE

Ends(result) ==
    /\ phase' = "answered" /\ answer' = result
    /\ UNCHANGED <<asked, void>>

Becomes(next) == phase' = next /\ UNCHANGED <<asked, void, answer>>

Ask(question) ==
    /\ phase = "idle"
    /\ phase' = "pulling" /\ asked' = question
    /\ rest' = Listed /\ from' = 0
    /\ memory' = [i \in DOMAIN question.view |-> Fresh(question.view[i])]
    /\ start' = entries /\ been' = Range(entries)
    /\ UNCHANGED <<storages, hand, out, void, answer, gone, disturbed, writes>>

Pulls == phase = "pulling" /\ ~Enough /\ FullStages = {} /\ rest # <<>>

\* The next key of the storage is loaded; KeyError if it was evicted.
Pull ==
    /\ Pulls /\ from = 0
    /\ \/ /\ Head(rest) \notin KeysOf(entries)
          /\ Ends(<<"KeyError">>) /\ UNCHANGED <<hand, rest>>
       \/ \E record \in Range(entries) :
            /\ record.key = Head(rest)
            /\ Becomes("passing") /\ hand' = record /\ rest' = Tail(rest)
    /\ UNCHANGED <<from, memory, out, storages, ghosts, writes>>

PullSorted ==
    /\ Pulls /\ from > 0
    /\ Becomes("passing") /\ hand' = Head(rest) /\ rest' = Tail(rest)
    /\ UNCHANGED <<from, memory, out, storages, ghosts, writes>>

Pass ==
    /\ phase = "passing"
    /\ memory' = [i \in DOMAIN memory |->
                     IF i > from /\ Reaches(i, hand) THEN Stage(asked.view[i], memory[i], hand).past
                     ELSE memory[i]]
    /\ LET passes == Reaches(Len(asked.view) + 1, hand)
       IN  /\ out' = IF passes THEN Append(out, hand) ELSE out
           /\ Becomes(IF passes /\ asked.by \in Effects THEN "acting" ELSE "pulling")
    /\ UNCHANGED <<rest, from, hand, storages, ghosts, writes>>

\* The source has no more, or a full take asks it for no more.
Over == IF FullStages = {} THEN from ELSE CHOOSE i \in FullStages : \A j \in FullStages : j <= i
SourceOver == phase = "pulling" /\ ~Enough /\ (rest = <<>> \/ FullStages # {})

Sorts(i) == {j \in i + 1 .. Len(asked.view) : asked.view[j].op = "sorted"}

Drained ==
    /\ SourceOver /\ Sorts(Over) = {}
    /\ Becomes("counting")
    /\ UNCHANGED <<rest, from, memory, hand, out, storages, ghosts, writes>>

\* The next sorted stage delivers what it has.
Sort ==
    /\ SourceOver
    /\ \E s \in Sorts(Over) :
         /\ \A j \in Sorts(Over) : s <= j
         /\ \/ ~Comparable(memory[s]) /\ Ends(<<"TypeError">>) /\ UNCHANGED <<rest, from>>
            \/ /\ Comparable(memory[s])
               /\ rest' = Sorted(memory[s], asked.view[s].reverse) /\ from' = s
               /\ UNCHANGED query
    /\ UNCHANGED <<memory, hand, out, storages, ghosts, writes>>

\* The consumer does something with the record, fetching its values for it.
Act ==
    /\ phase = "acting"
    /\ LET skips == asked.by = "transfer" /\ hand.key \in KeysOf(copied)
       IN  IF asked.by # "evict" /\ ~skips /\ ~HasResult(hand)
           THEN Ends(<<"KeyError">>) /\ UNCHANGED <<entries, copied>>
           ELSE /\ entries' = IF asked.by = "evict" THEN Without(entries, hand.key) ELSE entries
                /\ copied' = IF asked.by = "transfer" /\ ~skips THEN Put(copied, hand) ELSE copied
                /\ Becomes(IF asked.pop /\ ~skips THEN "popping" ELSE "pulling")
    /\ UNCHANGED <<values, pulling, ghosts, writes>>

Pop ==
    /\ phase = "popping"
    /\ entries' = Without(entries, hand.key)
    /\ Becomes("pulling")
    /\ UNCHANGED <<values, copied, pulling, ghosts, writes>>

\* builtins.max and builtins.min: the first of those with the best key.
Best(keys, latest) ==
    CHOOSE i \in DOMAIN keys : \A j \in DOMAIN keys :
        IF keys[i] = keys[j] THEN i <= j ELSE (keys[j] < keys[i]) = latest

\* A bug: calls without a time come first for oldest, too.
ExtremumOneSentinel(records, latest) == records[Best([i \in DOMAIN records |-> records[i].time], latest)]

Extremum(records, latest) ==
    records[Best([i \in DOMAIN records |->
                     IF records[i].time = 0 /\ ~latest THEN MaxTime + 1 ELSE records[i].time], latest)]

\* table() shortens the keys of all records once it has them.
Result ==
    LET best == Extremum(out, asked.by = "latest")
    IN  CASE asked.by = "only" /\ Len(out) = 2          -> <<"ValueError">>
          [] asked.by \in {"only", "latest", "oldest"} /\ out = <<>> -> <<"IndexError">>
          [] asked.by \in {"latest", "oldest"}          -> IF best.time = 0 THEN <<"ValueError">> ELSE <<"call", best>>
          [] asked.by = "table" /\ ~(KeysOf(out) \subseteq KeysOf(entries)) -> <<"KeyError">>
          [] asked.by = "groupby"                       -> <<"groups", memory[Len(asked.view)]>>
          [] OTHER                                      -> <<"calls", out>>

Consume ==
    /\ phase = "counting" \/ (phase = "pulling" /\ Enough)
    /\ Ends(Result)
    /\ UNCHANGED <<pulling, storages, ghosts, writes>>

-----------------------------------------------------------------------------
(* The other thread.                                                        *)

Writes ==
    /\ phase \notin {"idle", "answered"} /\ writes < MaxWrites /\ writes' = writes + 1
    /\ disturbed' = TRUE
    /\ UNCHANGED <<start, pulling, query>>

SaveRecord(key, time) ==
    /\ Writes
    /\ entries' = Put(entries, [key |-> key, time |-> time])
    /\ values' = PutValue(ValueOf[key])
    /\ been' = been \cup {[key |-> key, time |-> time]}
    /\ UNCHANGED <<copied, gone>>

EvictRecord(key) ==
    /\ Writes /\ key \in KeysOf(entries)
    /\ entries' = Without(entries, key)
    /\ gone' = gone \cup {key}
    /\ UNCHANGED <<values, copied, been>>

CollectValues ==
    /\ Writes /\ ~(values \subseteq Referred)
    /\ values' = values \cap Referred
    /\ UNCHANGED <<entries, copied, been, gone>>

QueryInit ==
    /\ entries \in Stored /\ void \in BOOLEAN /\ copied = <<>>
    /\ values = IF void THEN {} ELSE Referred
    /\ phase = "idle" /\ asked = Missing /\ answer = Missing
    /\ rest = <<>> /\ from = 0 /\ memory = <<>> /\ hand = Missing /\ out = <<>>
    /\ start = <<>> /\ been = {} /\ gone = {} /\ disturbed = FALSE /\ writes = 0

Traverse == Pull \/ PullSorted \/ Pass \/ Drained \/ Sort \/ Act \/ Pop \/ Consume

QueryNext ==
    \/ Traverse
    \/ \E question \in Questions : Ask(question)
    \/ \E key \in Ids : EvictRecord(key) \/ \E time \in 0 .. MaxTime : SaveRecord(key, time)
    \/ CollectValues

QuerySpec == QueryInit /\ [][QueryNext]_queryVars

-----------------------------------------------------------------------------
\* What a stage, and a pipeline, means of a sequence of records.
MeantBy(stage, s) ==
    CASE stage.op = "filter" -> Kept(s, {record \in Range(s) : record.time > 0})
      [] stage.op = "unique" ->
           Kept(s, {s[i] : i \in {i \in DOMAIN s : \A j \in 1 .. i - 1 : ValueOf[s[j].key] # ValueOf[s[i].key]}})
      [] stage.op = "sorted" -> Sorted(s, stage.reverse)
      [] stage.op = "take"   -> SubSeq(s, 1, IF stage.n < Len(s) THEN stage.n ELSE Len(s))
      [] stage.op = "skip"   -> SubSeq(s, stage.n + 1, Len(s))
      [] OTHER               -> s

Meant(view, records) ==
    LET after[i \in 0 .. Len(view)] == IF i = 0 THEN records ELSE MeantBy(view[i], after[i - 1])
    IN  after[Len(view)]

Raised == answer[1] \in {"KeyError", "TypeError"}
Partial == asked.by \in {"any", "empty", "only"}

\* When no other thread writes, a query delivers just what its stages mean of the
\* records there are, or the first of them, and evict leaves the others.
DeliversWhatIsMeant == ~disturbed /\ ~Raised =>
    LET all == Meant(asked.view, start)
        needed == IF asked.by = "only" THEN 2 ELSE 1
    IN  /\ IF Partial THEN IsPrefix(out, all) /\ (Len(out) = needed \/ out = all) ELSE out = all
        /\ asked.by = "evict" => entries = Kept(start, Range(start) \ Range(all))

\* When one does, only records are delivered that were in the cache since the query
\* began, no key twice; a query without stages that limit it misses none but
\* those evicted meanwhile; and a transfer loses no record.
MissesAndRepeatsNone ==
    /\ Range(out) \subseteq been /\ Cardinality(KeysOf(out)) = Len(out)
    /\ ~Raised /\ ~Partial /\ (\A i \in DOMAIN asked.view : asked.view[i].op \in {"sorted", "group"}) =>
         KeysOf(start) \ gone \subseteq KeysOf(out)
    /\ asked.by = "transfer" => KeysOf(start) \ gone \subseteq KeysOf(entries) \cup KeysOf(copied)

\* A query fails only when records were evicted meanwhile, or where values are not kept.
FailsForAReason == Raised => gone # {} \/ void

\* latest and oldest find a call with runtime metadata if there is one, and none
\* is later, or older.
FindsTheExtreme ==
    LET timed == {record \in Range(out) : record.time > 0}
    IN  ~Raised /\ asked.by \in {"latest", "oldest"} /\ timed # {} =>
            /\ answer[1] = "call" /\ answer[2] \in timed
            /\ \A record \in timed : IF asked.by = "latest" THEN record.time <= answer[2].time
                                     ELSE record.time >= answer[2].time

\* groupby puts each record into one group and, when no other thread writes, those
\* of one argument into one.
GroupsHoldAll == ~Raised /\ asked.by = "groupby" =>
    LET In(record) == {name \in DOMAIN answer[2] : record \in Range(answer[2][name])}
    IN  /\ \A record \in Range(out) : Cardinality(In(record)) = 1
        /\ ~disturbed => \A a, b \in Range(out) :
               In(a) = In(b) <=> ValueOf[a.key] = ValueOf[b.key]

\* "reflect the current state of the cache on each pass" (query.py), whatever
\* the stages, the consumer and another thread do.
QueriesTellTheCache == phase = "answered" =>
    /\ DeliversWhatIsMeant /\ MissesAndRepeatsNone /\ FailsForAReason
    /\ FindsTheExtreme /\ GroupsHoldAll
=============================================================================
