----------------------------- MODULE CallersProofs ----------------------------
(***************************************************************************)
(* What holds of calls that outlive the one who called: of ActiveCache for   *)
(* any threads, workers and caches, of FutureCalls for any number of callers, *)
(* of Metadata for any threads, calls and hooks, and of NamedCaches for any    *)
(* names and files.  The four share nothing.                                *)
(***************************************************************************)
EXTENDS ActiveCache, FutureCalls, Metadata, NamedCaches, FiniteSetTheorems, SequenceTheorems,
        TLAPS

\* The caches a submission may see: those the submitting threads activate, and
\* the default.
Outer == Caches \cup Defaults

\* A submitting thread never sees a cache of a body, and what it found to be
\* active stays so until it has bound it.
Submits(t) ==
    /\ var[t] \in Outer \cup {None} /\ got[t] \in Outer \cup {None}
    /\ blocks[t] \in Seq(Outer \cup {None})
    /\ step[t] \in {"idle", "build", "memoised", "have", "load"}
    /\ step[t] = "memoised" => memo # None
    /\ step[t] \in {"have", "load"} => var[t] # None \/ memo # None

\* A busy worker runs inside its scope, for the cache that was bound to the call.
Works(w) ==
    /\ step[w] \in {"idle", "body", "filed"}
    /\ step[w] # "idle" => got[w] \in Outer /\ blocks[w] # <<>>

IInv ==
    /\ TypeOK
    /\ \A t \in Threads : Submits(t)
    /\ \A w \in Workers : Works(w)
    /\ tasks \in Seq(Outer) /\ stored \subseteq Outer

\* Leaving a with-block yields what it restores, and the blocks around it.
LEMMA FrontAndLast ==
    ASSUME NEW S, NEW s \in Seq(S), Len(s) > 0
    PROVE  /\ Last(s) \in S /\ Head(s) \in S
           /\ Front(s) \in Seq(S) /\ Len(Front(s)) = Len(s) - 1
           /\ Tail(s) \in Seq(S) /\ Len(Tail(s)) = Len(s) - 1
  <1>1. SubSeq(s, 1, Len(s) - 1) \in Seq(S)
      OBVIOUS
  <1>2. Len(SubSeq(s, 1, Len(s) - 1)) = Len(s) - 1
    <2>1. Len(s) - 1 \in Nat
        OBVIOUS
    <2>2. \A n \in Nat : Len(SubSeq(s, 1, n)) = n
        OBVIOUS
    <2> QED BY <2>1, <2>2
  <1>3. s[Len(s)] \in S
      OBVIOUS
  <1>4. Head(s) \in S /\ Tail(s) \in Seq(S) /\ Len(Tail(s)) = Len(s) - 1
      OBVIOUS
  <1> QED BY <1>1, <1>2, <1>3, <1>4 DEF Front, Last

\* Entering one adds what it restores.
LEMMA Appended ==
    ASSUME NEW S, NEW s \in Seq(S), NEW e \in S
    PROVE  Append(s, e) \in Seq(S) /\ Append(s, e) # <<>> /\ Len(Append(s, e)) = Len(s) + 1
  <1>1. Append(s, e) \in Seq(S)
      OBVIOUS
  <1>2. Len(Append(s, e)) = Len(s) + 1
      OBVIOUS
  <1>3. Append(s, e) # <<>>
    <2>1. Len(s) \in Nat /\ Len(<<>>) = 0
        OBVIOUS
    <2> QED BY <1>2, <2>1
  <1> QED BY <1>1, <1>2, <1>3

USE CachesAssumption

LEMMA InitIInv == Init => IInv
  BY DEF Init, IInv, TypeOK, Submits, Works, Processes, All, Outer

\* The program's own code changes the active cache of its own thread.
LEMMA UserCodeKeepsIInv ==
    ASSUME IInv, NEW c \in Processes, NEW new \in Activated(c),
           Activate(c, new) \/ Enter(c, new)
    PROVE  IInv'
  <1> USE DEF IInv, TypeOK, Submits, Works, InUserCode
  <1>1. new \in All /\ (c \in Threads => new \in Outer)
      BY DEF Activated, All, Outer, Processes
  <1>2. CASE Activate(c, new)
      BY <1>1, <1>2 DEF Activate
  <1>3. CASE Enter(c, new)
    <2>1. /\ blocks[c] \in Seq(All \cup {None}) /\ var[c] \in All \cup {None}
          /\ c \in Threads => blocks[c] \in Seq(Outer \cup {None}) /\ var[c] \in Outer \cup {None}
        OBVIOUS
    <2>2. /\ Append(blocks[c], var[c]) \in Seq(All \cup {None})
          /\ Append(blocks[c], var[c]) # <<>>
          /\ Len(Append(blocks[c], var[c])) = Len(blocks[c]) + 1
        BY <2>1, Appended
    <2>3. c \in Threads => Append(blocks[c], var[c]) \in Seq(Outer \cup {None})
        BY <2>1, Appended
    <2> QED BY <1>1, <1>3, <2>2, <2>3 DEF Enter
  <1> QED BY <1>2, <1>3

\* A with-block restores what its own thread had active before it.
LEMMA ExitKeepsIInv ==
    ASSUME IInv, NEW c \in Processes, Exit(c)
    PROVE  IInv'
  <1> USE DEF IInv, TypeOK, Submits, Works, InUserCode
  <1>1. /\ Len(blocks[c]) > 0
        /\ c \notin Threads => Len(blocks[c]) > 1
      BY DEF Exit
  <1>2. /\ Last(blocks[c]) \in All \cup {None}
        /\ Front(blocks[c]) \in Seq(All \cup {None})
        /\ Len(Front(blocks[c])) = Len(blocks[c]) - 1
      BY <1>1, FrontAndLast
  <1>3. c \in Threads => /\ Last(blocks[c]) \in Outer \cup {None}
                         /\ Front(blocks[c]) \in Seq(Outer \cup {None})
      BY <1>1, FrontAndLast
  <1> QED BY <1>1, <1>2, <1>3 DEF Exit

\* A submission binds what is active in its thread.
LEMMA SubmissionKeepsIInv ==
    ASSUME IInv, NEW t \in Threads, Submission(t)
    PROVE  IInv'
  <1> USE DEF IInv, TypeOK, Submits, Works, InUserCode, Goto, Active, Uses, Processes,
              All, Outer
  <1>1. CASE Submit(t)
    <2>1. CASE Active(t) # None
      <3>1. /\ got' = [got EXCEPT ![t] = Active(t)] /\ step' = [step EXCEPT ![t] = "have"]
            /\ UNCHANGED <<var, blocks, memo, built, tasks, stored>>
          BY <1>1, <2>1 DEF Submit
      <3>2. Active(t) \in Outer
          BY <2>1
      <3> QED BY <2>1, <3>1, <3>2
    <2>2. CASE Active(t) = None
        BY <1>1, <2>2 DEF Submit
    <2> QED BY <2>1, <2>2
  <1>2. CASE BuildDefault(t) BY <1>2 DEF BuildDefault
  <1>3. CASE UseDefault(t)   BY <1>3 DEF UseDefault
  <1>4. CASE Found(t)        BY <1>4 DEF Found
  <1>5. CASE Loaded(t)       BY <1>5 DEF Loaded
  <1>6. CASE LoadRaises(t)   BY <1>6 DEF LoadRaises
  <1>7. CASE Bind(t)         BY <1>7 DEF Bind
  <1> QED BY <1>1, <1>2, <1>3, <1>4, <1>5, <1>6, <1>7 DEF Submission

\* A worker files under what was bound, whatever its body activates.
LEMMA WorkingKeepsIInv ==
    ASSUME IInv, NEW w \in Workers, Working(w)
    PROVE  IInv'
  <1> USE DEF IInv, TypeOK, Submits, Works, InUserCode, Goto, Processes, All, Outer
  <1>1. CASE Take(w)       BY <1>1, FrontAndLast DEF Take
  <1>2. CASE File(w)       BY <1>2 DEF File
  <1>3. CASE BodyRaises(w) BY <1>3, FrontAndLast DEF BodyRaises
  <1>4. CASE Finish(w)     BY <1>4, FrontAndLast DEF Finish
  <1> QED BY <1>1, <1>2, <1>3, <1>4 DEF Working

LEMMA Invariance == Spec => []IInv
  <1>1. IInv /\ [Next]_vars => IInv'
    <2> SUFFICES ASSUME IInv, [Next]_vars PROVE IInv'
        OBVIOUS
    <2>1. ASSUME NEW c \in Processes, Exit(c) PROVE IInv'
        BY <2>1, ExitKeepsIInv
    <2>2. ASSUME NEW c \in All, Evict(c) PROVE IInv'
        BY <2>2 DEF Evict, IInv, TypeOK, Submits, Works
    <2>3. CASE UNCHANGED vars
        BY <2>3 DEF vars, IInv, TypeOK, Submits, Works
    <2> QED BY <2>1, <2>2, <2>3, UserCodeKeepsIInv, SubmissionKeepsIInv,
        WorkingKeepsIInv DEF Next
  <1> QED BY InitIInv, <1>1, PTL DEF Spec

\* All variables have their types, and with-blocks nest no deeper than they may
\* (call_site.py, state.py).
THEOREM TypeCorrect == Spec => []TypeOK
  BY Invariance, PTL DEF IInv

\* However submissions, bodies and evictions interleave, and whatever the bodies
\* activate or leave behind in a worker, a result is filed only in a cache that
\* was active where its call was submitted (executor.py, wrapper.py).
THEOREM FiledWhereBound == Spec => []ResultsGoWhereBound
  <1>1. IInv => ResultsGoWhereBound
      BY DEF IInv, Outer, ResultsGoWhereBound
  <1> QED BY Invariance, <1>1, PTL

-----------------------------------------------------------------------------
(* FutureCalls.                                                             *)

\* A callback runs only for a future that has settled, and _in_flight has an
\* entry only from the start of such a callback.
CallbacksAreLate ==
    \A c \in Callers : callback[c] \in {"entered", "leaving"} => future[c] \in Settled

\* A caller has no future before its body has returned one.
FuturesAreNew == \A c \in Callers : pc[c] # "done" => future[c] = "absent"

FuturesIInv == FuturesTypeOK /\ CallbacksAreLate /\ FuturesAreNew /\ InFlightIsSettled

\* No caller has settled, and none is in flight, at the start.
LEMMA InitFuturesIInv == FuturesInit => FuturesIInv
  BY CallersAreApart DEF FuturesInit, FuturesIInv, FuturesTypeOK, CallbacksAreLate,
         FuturesAreNew, InFlightIsSettled, Settled

\* The caller's own steps touch neither a callback nor a settled future.
LEMMA CallerKeepsIInv ==
    ASSUME FuturesIInv, NEW c \in Callers, Call(c) \/ CallerStep(c)
    PROVE  FuturesIInv'
  <1> USE CallersAreApart DEF FuturesIInv, FuturesTypeOK, CallbacksAreLate, FuturesAreNew,
              InFlightIsSettled, Settled, CallerGoes
  <1>1. CASE Call(c)           BY <1>1 DEF Call
  <1>2. CASE Hit(c)             BY <1>2 DEF Hit
  <1>3. CASE Miss(c)            BY <1>3 DEF Miss
  <1>4. CASE TakeInFlight(c)    BY <1>4 DEF TakeInFlight
  <1>5. CASE NotInFlight(c)     BY <1>5 DEF NotInFlight
  <1>6. CASE Body(c)            BY <1>6 DEF Body
  <1>7. CASE FunctionRaises(c) BY <1>7 DEF FunctionRaises
  <1> QED
      BY <1>1, <1>2, <1>3, <1>4, <1>5, <1>6, <1>7 DEF CallerStep

\* A future settles once; its callback enters and leaves _in_flight.
LEMMA WorkerKeepsIInv ==
    ASSUME FuturesIInv, NEW c \in Callers, Settle(c) \/ Callback(c)
    PROVE  FuturesIInv'
  <1> USE CallersAreApart DEF FuturesIInv, FuturesTypeOK, CallbacksAreLate, FuturesAreNew,
              InFlightIsSettled, Settled
  <1>1. CASE Settle(c)                  BY <1>1 DEF Settle
  <1>2. CASE CallbackStarts(c)          BY <1>2 DEF CallbackStarts
  <1>3. CASE CallbackCommits(c)         BY <1>3 DEF CallbackCommits
  <1>4. CASE CallbackRejected(c)        BY <1>4 DEF CallbackRejected
  <1>5. CASE CallbackRaises(c)          BY <1>5 DEF CallbackRaises
  <1>6. CASE CallbackAbandonsNone(c)    BY <1>6 DEF CallbackAbandonsNone
  <1>7. CASE CallbackAbandonsFailure(c) BY <1>7 DEF CallbackAbandonsFailure
  <1>8. CASE CallbackEnds(c)            BY <1>8 DEF CallbackEnds
  <1> QED
      BY <1>1, <1>2, <1>3, <1>4, <1>5, <1>6, <1>7, <1>8 DEF Callback

LEMMA FuturesInvariance == FuturesSpec => []FuturesIInv
  <1>1. FuturesIInv /\ [FuturesNext]_futuresVars => FuturesIInv'
    <2> SUFFICES ASSUME FuturesIInv, [FuturesNext]_futuresVars PROVE FuturesIInv'
        OBVIOUS
    <2>1. CASE FuturesNext
        BY <2>1, CallerKeepsIInv, WorkerKeepsIInv DEF FuturesNext
    <2>2. CASE UNCHANGED futuresVars
        BY <2>2 DEF futuresVars, FuturesIInv, FuturesTypeOK, CallbacksAreLate,
                    FuturesAreNew, InFlightIsSettled
    <2> QED BY <2>1, <2>2
  <1> QED BY InitFuturesIInv, <1>1, PTL DEF FuturesSpec

\* Types, and a prepared call for every callback that has still to finish one
\* (wrapper.py 241-306).
THEOREM FuturesTypeCorrect == FuturesSpec => []FuturesTypeOK
  BY FuturesInvariance, PTL DEF FuturesIInv

\* A caller that takes a future from _in_flight never waits for the function
\* to run: the future has settled (wrapper.py 222-228).
THEOREM NoWaitInFlight == FuturesSpec => []InFlightIsSettled
  BY FuturesInvariance, PTL DEF FuturesIInv

\* Only the value of a future that has one is ever filed: no exception, no
\* cancelled future, no None (wrapper.py 266-306).
THEOREM FailuresAreNotFiled == FuturesSpec => OnlyValuesAreFiled
  <1>1. [FuturesNext]_futuresVars =>
            [record' # record /\ record' # NoFuture => future[record'] = "value"]_futuresVars
    <2> SUFFICES ASSUME [FuturesNext]_futuresVars, record' # record, record' # NoFuture
                 PROVE  future[record'] = "value"
        OBVIOUS
    <2>1. PICK c \in Callers : Call(c) \/ CallerStep(c) \/ Settle(c) \/ Callback(c)
        BY DEF FuturesNext, futuresVars
    <2>2. ~(Call(c) \/ CallerStep(c) \/ Settle(c))
        BY DEF Call, CallerStep, Settle, Hit, Miss, TakeInFlight, NotInFlight, Body,
               FunctionRaises
    <2>3. CallbackCommits(c)
        BY <2>1, <2>2
        DEF Callback, CallbackStarts, CallbackRejected, CallbackRaises, CallbackAbandonsNone,
            CallbackAbandonsFailure, CallbackEnds
    <2> QED BY <2>3 DEF CallbackCommits
  <1> QED BY <1>1, PTL DEF FuturesSpec, OnlyValuesAreFiled

-----------------------------------------------------------------------------
(* The records of Metadata: what a call has heard from its hooks, at every     *)
(* point of it.                                                             *)

HIDE CachesAssumption

\* The hooks that have run before the body of a call, and after it.
Heard(f) == IF f.phase = "pre" THEN f.at - 1 ELSE Len(f.hooks)
Answered(f) == IF f.phase = "post" THEN f.at - 1 ELSE 0

\* One of the first n hooks is of that kind; at most one is a Runtime.
OfKind(hooks, kind, n) == \E i \in 1 .. n : hooks[i].kind = kind
OneRuntime(hooks) == \A i, j \in 1 .. Len(hooks) :
    hooks[i].kind = "runtime" /\ hooks[j].kind = "runtime" => i = j

\* A call runs the hooks that were active where it was asked for.
IsFrame(f) ==
    /\ f = [hooks |-> f.hooks, bound |-> f.bound, phase |-> f.phase, at |-> f.at, facts |-> f.facts,
            depth |-> f.depth, began |-> f.began, body |-> f.body, ended |-> f.ended, used |-> f.used]
    /\ f.hooks \in Seq(AllHooks) /\ f.bound = f.hooks
    /\ f.phase \in {"pre", "body", "post"}
    /\ f.at \in 1 .. (Len(f.hooks) + 1) /\ f.depth \in Nat
    /\ f.began \in Nat \X Nat /\ f.body \in Nat \X Nat /\ f.ended \in Nat \X Nat /\ f.used \in Nat

\* What a call has measured itself, at time n and CPU time c.
Timed(f, n, c) ==
    /\ f.began[1] <= n /\ f.began[2] <= c
    /\ f.phase = "pre" => f.used = 0
    /\ f.phase # "pre" => /\ f.began[1] <= f.body[1] /\ f.began[2] <= f.body[2]
                          /\ f.body[1] <= n /\ f.body[2] <= c
    /\ f.phase = "body" => f.body[2] + f.used <= c /\ f.at = 1
    /\ f.phase = "post" => /\ f.ended[1] <= n /\ f.ended[2] <= c
                           /\ f.body[1] <= f.ended[1] /\ f.body[2] + f.used <= f.ended[2]

\* What the hooks that have run have said: their names, their tags (i is the last
\* of them that knows k), and what they measured, at time n and CPU time c.
NamesTold(f) == DOMAIN f.facts = {f.hooks[i].name : i \in 1 .. Heard(f)}

LastSoFar(f, i, k) ==
    HasTag(f.hooks[i], k) /\ \A j \in 1 .. Heard(f) : HasTag(f.hooks[j], k) => j <= i

TagsTold(f) == \A i \in 1 .. Heard(f) : \A k \in DOMAIN f.hooks[i].says : LastSoFar(f, i, k) =>
    k \in DOMAIN Noted(f.facts, "tags") /\ Noted(f.facts, "tags")[k] = f.hooks[i].says[k]

Before == {"timestart", "cputime"}
After == {"timestop", "walltime", "cputime"}

TimeTold(f, n, c) ==
    LET r == Noted(f.facts, "runtime")
        timed == OfKind(f.hooks, "runtime", Heard(f))
        settled == OfKind(f.hooks, "runtime", Answered(f))
    IN  /\ DOMAIN r = (IF timed THEN Before ELSE {}) \cup (IF settled THEN After ELSE {})
        /\ timed => /\ r["timestart"] \in Nat /\ f.began[1] <= r["timestart"]
                    /\ r["timestart"] <= IF f.phase = "pre" THEN n ELSE f.body[1]
        /\ settled => /\ r["timestop"] \in Nat /\ f.ended[1] <= r["timestop"] /\ r["timestop"] <= n
                      /\ r["walltime"] = r["timestop"] - r["timestart"]
        /\ OneRuntime(f.hooks) /\ timed /\ ~settled =>
             /\ r["cputime"] \in Nat /\ f.began[2] <= r["cputime"]
             /\ r["cputime"] <= IF f.phase = "pre" THEN c ELSE f.body[2]
        /\ OneRuntime(f.hooks) /\ settled =>
             r["cputime"] \in Nat /\ f.used <= r["cputime"] /\ f.began[2] + r["cputime"] <= c

FrameOK(f, n, c) == IsFrame(f) /\ Timed(f, n, c) /\ NamesTold(f) /\ TagsTold(f) /\ TimeTold(f, n, c)

\* What a context variable or a scope holds.
Lists == Seq(AllHooks) \cup {Unset}

\* The calls a thread is in: all but the innermost run their bodies.
Calling(s, n, c) ==
    /\ s \in Seq(Range(s))
    /\ \A i \in 1 .. Len(s) : FrameOK(s[i], n, c) /\ (i < Len(s) => s[i].phase = "body")

ContextsTyped ==
    /\ now \in Nat /\ cpu \in Nat
    /\ configured \in Configured \cup {Unset} /\ fallback \in Lists
    /\ active \in [Contexts -> Lists] /\ scopes \in [Contexts -> Seq(Lists)]
    /\ submitted \in Seq(Seq(AllHooks))

\* The calls that threads are in, and those whose futures are not settled.
CallsAreTold ==
    /\ DOMAIN frames = Contexts
    /\ \A t \in Contexts : Calling(frames[t], now, cpu)
    /\ \A f \in pending : FrameOK(f, now, cpu) /\ f.phase = "body"

MetaInv == ContextsTyped /\ CallsAreTold /\ RecordsTellTheirCalls

-----------------------------------------------------------------------------
\* Stacks.
LEMMA Pushed ==
    ASSUME NEW S, NEW s \in Seq(S), NEW e
    PROVE  /\ Append(s, e) \in Seq(Range(Append(s, e)))
           /\ Len(Append(s, e)) = Len(s) + 1
           /\ \A i \in 1 .. Len(s) : Append(s, e)[i] = s[i]
           /\ Append(s, e)[Len(s) + 1] = e
  <1>1. s \in Seq(S \cup {e}) /\ Len(s) \in Nat
      OBVIOUS
  <1>2. e \in S \cup {e}
      OBVIOUS
  <1>3. /\ Append(s, e) \in Seq(S \cup {e})
        /\ Len(Append(s, e)) = Len(s) + 1
        /\ \A i \in 1 .. Len(s) : Append(s, e)[i] = s[i]
        /\ Append(s, e)[Len(s) + 1] = e
      BY <1>1, <1>2, AppendProperties
  <1> QED BY <1>3, SeqOfRange

LEMMA Popped ==
    ASSUME NEW S, NEW s \in Seq(S), s # <<>>
    PROVE  /\ Len(s) \in Nat \ {0} /\ Last(s) = s[Len(s)] /\ Last(s) \in S
           /\ Front(s) \in Seq(S) /\ Front(s) \in Seq(Range(Front(s)))
           /\ Len(Front(s)) = Len(s) - 1
           /\ \A i \in 1 .. (Len(s) - 1) : Front(s)[i] = s[i]
  <1>1. Len(s) \in Nat \ {0} /\ s[Len(s)] \in S
      BY EmptySeq
  <1>2. /\ SubSeq(s, 1, Len(s) - 1) \in Seq(S)
        /\ Len(SubSeq(s, 1, Len(s) - 1)) = Len(s) - 1
        /\ \A i \in 1 .. (Len(s) - 1) : SubSeq(s, 1, Len(s) - 1)[i] = s[i]
    <2>1. Len(s) - 1 \in Nat /\ Len(s) - 1 <= Len(s) /\ \A i \in 1 .. (Len(s) - 1) : s[i] \in S
        BY <1>1
    <2>2. Len(s) - 1 \in Int /\ 1 \in Int
        BY <2>1
    <2>3. /\ SubSeq(s, 1, Len(s) - 1) \in Seq(S)
          /\ Len(SubSeq(s, 1, Len(s) - 1)) = IF 1 <= Len(s) - 1 THEN (Len(s) - 1) - 1 + 1 ELSE 0
          /\ \A i \in 1 .. ((Len(s) - 1) - 1 + 1) : SubSeq(s, 1, Len(s) - 1)[i] = s[1 + i - 1]
        BY <2>1, <2>2, SubSeqProperties
    <2>4. ASSUME NEW i \in 1 .. (Len(s) - 1) PROVE SubSeq(s, 1, Len(s) - 1)[i] = s[i]
      <3>1. i \in 1 .. ((Len(s) - 1) - 1 + 1) /\ 1 + i - 1 = i
          BY <1>1
      <3> QED BY <2>3, <3>1
    <2>5. (IF 1 <= Len(s) - 1 THEN (Len(s) - 1) - 1 + 1 ELSE 0) = Len(s) - 1
        BY <1>1
    <2> QED BY <2>3, <2>4, <2>5
  <1> QED BY <1>1, <1>2, SeqOfRange DEF Front, Last

-----------------------------------------------------------------------------
(* One call.                                                                *)

USE HooksAreNamed

LEMMA FrameIsOne ==
    ASSUME NEW f, IsFrame(f)
    PROVE  /\ Len(f.hooks) \in Nat /\ DOMAIN f.hooks = 1 .. Len(f.hooks)
           /\ Heard(f) \in 0 .. Len(f.hooks) /\ Answered(f) \in 0 .. Len(f.hooks)
           /\ \A i \in 1 .. Len(f.hooks) : f.hooks[i] \in AllHooks
           /\ f.began[1] \in Nat /\ f.began[2] \in Nat /\ f.body[1] \in Nat /\ f.body[2] \in Nat
           /\ f.ended[1] \in Nat /\ f.ended[2] \in Nat
  BY DEF IsFrame, Heard, Answered

\* Time passes.
LEMMA TimePasses ==
    ASSUME NEW f, NEW n \in Nat, NEW c \in Nat, NEW n2 \in Nat, NEW c2 \in Nat,
           FrameOK(f, n, c), n <= n2, c <= c2
    PROVE  FrameOK(f, n2, c2)
  <1> USE DEF FrameOK
  <1>1. Timed(f, n2, c2)
      BY FrameIsOne DEF Timed, IsFrame
  <1>2. TimeTold(f, n2, c2)
    <2> DEFINE r == Noted(f.facts, "runtime")
    <2> HIDE DEF r
    <2> QED BY FrameIsOne DEF TimeTold
  <1> QED BY <1>1, <1>2

\* A call begins.
LEMMA FrameBegins ==
    ASSUME now \in Nat, cpu \in Nat, NEW hooks \in Seq(AllHooks), NEW d \in Nat, NEW f,
           f = [hooks |-> hooks, bound |-> hooks, phase |-> "pre", at |-> 1, facts |-> NoFacts,
                depth |-> d, began |-> clocks, body |-> clocks, ended |-> clocks, used |-> 0]
    PROVE  FrameOK(f, now, cpu)
  <1>1. Len(hooks) \in Nat
      OBVIOUS
  <1>2. IsFrame(f)
      BY <1>1 DEF IsFrame, clocks
  <1>3. Heard(f) = 0 /\ Answered(f) = 0 /\ f.facts = NoFacts /\ DOMAIN f.facts = {}
      BY DEF Heard, Answered, NoFacts
  <1>4. Timed(f, now, cpu)
      BY DEF Timed, clocks
  <1>5. NamesTold(f) /\ TagsTold(f)
      BY <1>3 DEF NamesTold, TagsTold
  <1>6. TimeTold(f, now, cpu)
    <2>1. Noted(f.facts, "runtime") = NoFacts /\ DOMAIN NoFacts = {}
        BY <1>3 DEF Noted, NoFacts
    <2>2. ~OfKind(f.hooks, "runtime", Heard(f)) /\ ~OfKind(f.hooks, "runtime", Answered(f))
        BY <1>3 DEF OfKind
    <2> QED BY <2>1, <2>2 DEF TimeTold
  <1> QED BY <1>2, <1>4, <1>5, <1>6 DEF FrameOK

\* f after the hook it is at has said something.
HasSaid(f, said) == Told(f, f.hooks[f.at], said)

\* g is f after said was joined under name.
Adds(f, g, name, said) ==
    /\ IsFrame(g)
    /\ g.hooks = f.hooks /\ g.bound = f.bound /\ g.phase = f.phase /\ g.at = f.at + 1
    /\ g.depth = f.depth /\ g.began = f.began
    /\ g.body = f.body /\ g.ended = f.ended /\ g.used = f.used
    /\ DOMAIN g.facts = DOMAIN f.facts \cup {name}
    /\ Noted(g.facts, name) = Joined(Noted(f.facts, name), said)
    /\ \A other : other # name => Noted(g.facts, other) = Noted(f.facts, other)

\* HasSaid does what Adds says, and nothing else.
LEMMA HasSaidIs ==
    ASSUME NEW f, NEW said, IsFrame(f), f.at <= Len(f.hooks)
    PROVE  Adds(f, HasSaid(f, said), f.hooks[f.at].name, said)
  <1> DEFINE hook == f.hooks[f.at]
             h == Joined(f.facts, [n \in {hook.name} |-> Joined(Noted(f.facts, n), said)])
             g == HasSaid(f, said)
  <1>1. g = [f EXCEPT !.at = f.at + 1, !.facts = h]
      BY DEF HasSaid, Told
  <1> HIDE DEF h, g
  <1>2. g = [hooks |-> f.hooks, bound |-> f.bound, phase |-> f.phase, at |-> f.at + 1, facts |-> h,
             depth |-> f.depth, began |-> f.began, body |-> f.body, ended |-> f.ended, used |-> f.used]
      BY <1>1 DEF IsFrame
  <1>3. f.at + 1 \in 1 .. (Len(f.hooks) + 1)
      BY DEF IsFrame
  <1>4. /\ g.hooks = f.hooks /\ g.bound = f.bound /\ g.phase = f.phase /\ g.at = f.at + 1
        /\ g.facts = h /\ g.depth = f.depth /\ g.began = f.began
        /\ g.body = f.body /\ g.ended = f.ended /\ g.used = f.used
      BY ONLY <1>2
  <1>5. IsFrame(g)
      BY ONLY IsFrame(f), <1>2, <1>3, <1>4 DEF IsFrame
  <1>6. /\ DOMAIN h = DOMAIN f.facts \cup {hook.name}
        /\ Noted(h, hook.name) = Joined(Noted(f.facts, hook.name), said)
        /\ \A other : other # hook.name => Noted(h, other) = Noted(f.facts, other)
    <2> DEFINE new == [n \in {hook.name} |-> Joined(Noted(f.facts, n), said)]
    <2>1. DOMAIN new = {hook.name} /\ new[hook.name] = Joined(Noted(f.facts, hook.name), said)
        OBVIOUS
    <2>2. h = Joined(f.facts, new)
        BY DEF h
    <2> HIDE DEF new
    <2>3. /\ DOMAIN Joined(f.facts, new) = DOMAIN f.facts \cup {hook.name}
          /\ Joined(f.facts, new)[hook.name] = new[hook.name]
          /\ \A other \in DOMAIN f.facts : other # hook.name => Joined(f.facts, new)[other] = f.facts[other]
        BY <2>1 DEF Joined
    <2> QED BY <2>1, <2>2, <2>3 DEF Noted
  <1> QED BY <1>4, <1>5, <1>6 DEF g, Adds

\* A hook runs before the body.
LEMMA PreSays ==
    ASSUME now \in Nat, cpu \in Nat, NEW f, FrameOK(f, now, cpu), f.phase = "pre", f.at <= Len(f.hooks),
           NEW g, g = HasSaid(f, Pre(f.hooks[f.at]))
    PROVE  FrameOK(g, now, cpu)
  <1> DEFINE hook == f.hooks[f.at]
             said == Pre(hook)
  <1>0. hook \in AllHooks /\ (hook.kind \in {"tags", "runtime"} => hook.name = hook.kind)
      BY FrameIsOne DEF FrameOK, IsFrame
  <1>1. /\ IsFrame(f) /\ Len(f.hooks) \in Nat /\ f.at \in 1 .. Len(f.hooks)
      BY FrameIsOne DEF FrameOK, IsFrame
  <1> HIDE DEF said
  <1>a. /\ IsFrame(g)
        /\ g.hooks = f.hooks /\ g.bound = f.bound /\ g.phase = f.phase /\ g.at = f.at + 1
        /\ g.depth = f.depth /\ g.began = f.began
        /\ g.body = f.body /\ g.ended = f.ended /\ g.used = f.used
        /\ DOMAIN g.facts = DOMAIN f.facts \cup {hook.name}
        /\ Noted(g.facts, hook.name) = Joined(Noted(f.facts, hook.name), said)
        /\ \A other : other # hook.name => Noted(g.facts, other) = Noted(f.facts, other)
    <2>1. g = HasSaid(f, said)
        BY DEF said
    <2>2. Adds(f, g, hook.name, said)
        BY <1>1, <2>1, HasSaidIs
    <2> QED BY <2>2 DEF Adds
  <1>2. /\ g.hooks = f.hooks /\ g.bound = f.bound /\ g.phase = "pre" /\ g.at = f.at + 1
        /\ g.began = f.began /\ g.body = f.body /\ g.ended = f.ended /\ g.used = f.used
        /\ IsFrame(g)
      BY <1>a
  <1>3. Heard(f) = f.at - 1 /\ Heard(g) = f.at /\ Answered(f) = 0 /\ Answered(g) = 0
      BY <1>1, <1>2 DEF Heard, Answered
  <1>4. Timed(g, now, cpu)
      BY <1>2 DEF Timed, FrameOK
  <1> HIDE DEF hook
  <1>5. /\ DOMAIN g.facts = DOMAIN f.facts \cup {hook.name}
        /\ Noted(g.facts, hook.name) = Joined(Noted(f.facts, hook.name), said)
        /\ \A name : name # hook.name => Noted(g.facts, name) = Noted(f.facts, name)
      BY <1>a
  <1>6. NamesTold(g)
    <2>1. 1 .. f.at = 1 .. (f.at - 1) \cup {f.at}
        BY <1>1
    <2>2. DOMAIN f.facts = {f.hooks[i].name : i \in 1 .. (f.at - 1)}
        BY <1>3 DEF NamesTold, FrameOK
    <2>3. {f.hooks[i].name : i \in 1 .. f.at} = {f.hooks[i].name : i \in 1 .. (f.at - 1)} \cup {f.hooks[f.at].name}
        BY ONLY <2>1
    <2>4. DOMAIN g.facts = {f.hooks[i].name : i \in 1 .. f.at}
        BY ONLY <1>5, <2>2, <2>3 DEF hook
    <2> QED BY ONLY <1>2, <1>3, <2>4 DEF NamesTold
  <1>7. TagsTold(g)
    <2> SUFFICES ASSUME NEW i \in 1 .. f.at, NEW k \in DOMAIN f.hooks[i].says, LastSoFar(g, i, k)
                 PROVE  /\ k \in DOMAIN Noted(g.facts, "tags")
                        /\ Noted(g.facts, "tags")[k] = f.hooks[i].says[k]
        BY <1>2, <1>3 DEF TagsTold
    <2>1. CASE i = f.at
      <3>1. hook.kind = "tags" /\ said = hook.says /\ hook.name = "tags" /\ k \in DOMAIN hook.says
          BY <1>0, <1>2, <2>1 DEF LastSoFar, HasTag, said, Pre, hook
      <3>2. Noted(g.facts, "tags") = Joined(Noted(f.facts, "tags"), said)
          BY <1>5, <3>1
      <3>3. k \in DOMAIN said /\ said[k] = f.hooks[i].says[k]
          BY <2>1, <3>1 DEF hook
      <3> QED BY <3>2, <3>3 DEF Joined
    <2>2. CASE i # f.at
      <3>1. i \in 1 .. Heard(f) /\ LastSoFar(f, i, k)
        <4>1. i \in 1 .. (f.at - 1) /\ 1 .. (f.at - 1) \subseteq 1 .. f.at
            BY ONLY <1>1, <2>2, i \in 1 .. f.at
        <4>2. HasTag(f.hooks[i], k) /\ \A j \in 1 .. f.at : HasTag(f.hooks[j], k) => j <= i
            BY ONLY <1>2, <1>3, LastSoFar(g, i, k) DEF LastSoFar
        <4> QED BY ONLY <1>3, <4>1, <4>2 DEF LastSoFar
      <3>2. k \in DOMAIN Noted(f.facts, "tags") /\ Noted(f.facts, "tags")[k] = f.hooks[i].says[k]
          BY <3>1 DEF TagsTold, FrameOK
      <3>3. ~HasTag(hook, k)
          BY <1>1, <1>2, <1>3, <2>2 DEF LastSoFar, hook
      <3>4. hook.name = "tags" => k \notin DOMAIN said
        <4>1. ASSUME hook.name = "tags" PROVE hook.kind # "runtime"
            BY <1>0, <4>1
        <4> QED BY <3>3, <4>1 DEF HasTag, said, Pre, NoFacts
      <3>5. CASE hook.name = "tags"
        <4>1. Noted(g.facts, "tags") = Joined(Noted(f.facts, "tags"), said)
            BY <1>5, <3>5
        <4> QED BY <3>2, <3>4, <3>5, <4>1 DEF Joined
      <3>6. CASE hook.name # "tags"
          BY <1>5, <3>2, <3>6
      <3> QED BY <3>5, <3>6
    <2> QED BY <2>1, <2>2
  <1>8. TimeTold(g, now, cpu)
    <2> DEFINE r == Noted(f.facts, "runtime")
               s == Noted(g.facts, "runtime")
    <2>1. /\ ~OfKind(f.hooks, "runtime", Answered(f))
          /\ ~OfKind(f.hooks, "runtime", Answered(g))
          /\ OfKind(f.hooks, "runtime", Heard(g)) <=> OfKind(f.hooks, "runtime", Heard(f)) \/ hook.kind = "runtime"
        BY <1>1, <1>3 DEF OfKind, hook
    <2>2. CASE hook.kind = "runtime"
      <3>1. said = [timestart |-> now, cputime |-> cpu] /\ hook.name = "runtime"
          BY <1>0, <2>2 DEF said, Pre
      <3>2. DOMAIN said = Before /\ said["timestart"] = now /\ said["cputime"] = cpu
          BY <3>1 DEF Before
      <3>3. DOMAIN r \subseteq Before
          BY <2>1 DEF TimeTold, FrameOK
      <3>4. DOMAIN s = Before /\ s["timestart"] = now /\ s["cputime"] = cpu
        <4>1. s = Joined(r, said)
            BY <1>5, <3>1
        <4> HIDE DEF s, r
        <4>2. /\ DOMAIN s = DOMAIN r \cup DOMAIN said
              /\ \A k \in DOMAIN said : s[k] = said[k]
            BY <4>1 DEF Joined
        <4> QED BY <3>2, <3>3, <4>2 DEF Before
      <3>5. f.began[1] <= now /\ f.began[2] <= cpu
          BY DEF Timed, FrameOK
      <3> QED BY <1>2, <2>1, <2>2, <3>4, <3>5 DEF TimeTold
    <2>3. CASE hook.kind # "runtime"
      <3>1. s = r \/ (hook.name = "runtime" /\ said = NoFacts)
          BY <1>0, <1>5, <2>3 DEF said, Pre
      <3>2. DOMAIN s = DOMAIN r /\ \A k \in DOMAIN r : s[k] = r[k]
        <4>1. CASE hook.name = "runtime" /\ said = NoFacts
          <5>1. s = Joined(r, said) /\ DOMAIN said = {}
              BY <1>5, <4>1 DEF NoFacts
          <5> HIDE DEF s, r
          <5> QED BY <5>1 DEF Joined
        <4> QED BY <3>1, <4>1
      <3> HIDE DEF r, s
      <3>3. /\ DOMAIN r = IF OfKind(f.hooks, "runtime", Heard(f)) THEN Before ELSE {}
            /\ OfKind(f.hooks, "runtime", Heard(f)) =>
                  /\ r["timestart"] \in Nat /\ f.began[1] <= r["timestart"] /\ r["timestart"] <= now
                  /\ OneRuntime(f.hooks) => r["cputime"] \in Nat /\ f.began[2] <= r["cputime"] /\ r["cputime"] <= cpu
          BY <2>1 DEF TimeTold, FrameOK, r
      <3>4. DOMAIN s = DOMAIN r /\ (OfKind(f.hooks, "runtime", Heard(f)) => s["timestart"] = r["timestart"] /\ s["cputime"] = r["cputime"])
          BY <3>2, <3>3 DEF Before
      <3> QED BY <1>2, <2>1, <2>3, <3>3, <3>4 DEF TimeTold, s
    <2> QED BY <2>2, <2>3
  <1> QED BY <1>2, <1>4, <1>6, <1>7, <1>8 DEF FrameOK

\* A hook runs after the body.
LEMMA PostSays ==
    ASSUME now \in Nat, cpu \in Nat, NEW f, FrameOK(f, now, cpu), f.phase = "post", f.at <= Len(f.hooks),
           NEW g, g = HasSaid(f, Post(f.hooks[f.at], Noted(f.facts, f.hooks[f.at].name)))
    PROVE  FrameOK(g, now, cpu)
  <1> DEFINE hook == f.hooks[f.at]
             said == Post(hook, Noted(f.facts, hook.name))
             r == Noted(f.facts, "runtime")
             s == Noted(g.facts, "runtime")
  <1>1. hook \in AllHooks /\ (hook.kind \in {"tags", "runtime"} => hook.name = hook.kind)
      BY FrameIsOne DEF FrameOK, IsFrame
  <1>2. /\ IsFrame(f) /\ Len(f.hooks) \in Nat /\ f.at \in 1 .. Len(f.hooks)
        /\ f.began[1] \in Nat /\ f.began[2] \in Nat /\ f.body[1] \in Nat /\ f.body[2] \in Nat
        /\ f.ended[1] \in Nat /\ f.ended[2] \in Nat /\ f.used \in Nat
      BY FrameIsOne DEF FrameOK, IsFrame
  <1> HIDE DEF said
  <1>3. Adds(f, g, hook.name, said)
    <2>1. g = HasSaid(f, said)
        BY DEF said
    <2> QED BY <1>2, <2>1, HasSaidIs
  <1>4. /\ g.hooks = f.hooks /\ g.bound = f.bound /\ g.phase = "post" /\ g.at = f.at + 1
        /\ g.began = f.began /\ g.body = f.body /\ g.ended = f.ended /\ g.used = f.used
        /\ IsFrame(g)
      BY <1>3 DEF Adds
  <1>5. Heard(f) = Len(f.hooks) /\ Heard(g) = Len(f.hooks) /\ Answered(f) = f.at - 1 /\ Answered(g) = f.at
      BY <1>2, <1>4 DEF Heard, Answered
  <1>6. Timed(g, now, cpu)
      BY <1>4 DEF Timed, FrameOK
  <1> HIDE DEF hook
  <1>7. /\ DOMAIN g.facts = DOMAIN f.facts \cup {hook.name}
        /\ Noted(g.facts, hook.name) = Joined(Noted(f.facts, hook.name), said)
        /\ \A name : name # hook.name => Noted(g.facts, name) = Noted(f.facts, name)
      BY <1>3 DEF Adds
  <1>8. NamesTold(g)
    <2>1. hook.name \in {f.hooks[i].name : i \in 1 .. Len(f.hooks)}
        BY <1>2 DEF hook
    <2>2. DOMAIN f.facts = {f.hooks[i].name : i \in 1 .. Len(f.hooks)}
        BY <1>5 DEF NamesTold, FrameOK
    <2>3. DOMAIN g.facts = {f.hooks[i].name : i \in 1 .. Len(f.hooks)}
        BY ONLY <1>7, <2>1, <2>2
    <2> QED BY ONLY <1>4, <1>5, <2>3 DEF NamesTold
  <1>9. TagsTold(g)
    <2> SUFFICES ASSUME NEW i \in 1 .. Heard(g), NEW k \in DOMAIN g.hooks[i].says, LastSoFar(g, i, k)
                 PROVE  /\ k \in DOMAIN Noted(g.facts, "tags")
                        /\ Noted(g.facts, "tags")[k] = g.hooks[i].says[k]
        BY DEF TagsTold
    <2>1. i \in 1 .. Heard(f) /\ LastSoFar(f, i, k)
        BY <1>4, <1>5 DEF LastSoFar
    <2>2. k \in DOMAIN Noted(f.facts, "tags") /\ Noted(f.facts, "tags")[k] = g.hooks[i].says[k]
        BY <1>4, <2>1 DEF TagsTold, FrameOK
    <2>3. hook.name = "tags" => DOMAIN said = {}
      <3>1. ASSUME hook.name = "tags" PROVE hook.kind # "runtime"
          BY <1>1, <3>1
      <3> QED BY <3>1 DEF said, Post, NoFacts
    <2>4. CASE hook.name = "tags"
      <3>1. Noted(g.facts, "tags") = Joined(Noted(f.facts, "tags"), said)
          BY <1>7, <2>4
      <3> QED BY <2>2, <2>3, <2>4, <3>1 DEF Joined
    <2>5. CASE hook.name # "tags"
        BY <1>7, <2>2, <2>5
    <2> QED BY <2>4, <2>5
  <1>10. TimeTold(g, now, cpu)
    <2> DEFINE timed == OfKind(f.hooks, "runtime", Len(f.hooks))
               settled == OfKind(f.hooks, "runtime", f.at - 1)
    <2>1. OfKind(f.hooks, "runtime", f.at) <=> settled \/ hook.kind = "runtime"
      <3>1. 1 .. f.at = 1 .. (f.at - 1) \cup {f.at}
          BY ONLY <1>2
      <3> QED BY ONLY <3>1 DEF OfKind, hook
    <2>2. /\ DOMAIN r = (IF timed THEN Before ELSE {}) \cup (IF settled THEN After ELSE {})
          /\ timed => /\ r["timestart"] \in Nat /\ f.began[1] <= r["timestart"]
                      /\ r["timestart"] <= f.body[1]
          /\ settled => /\ r["timestop"] \in Nat /\ f.ended[1] <= r["timestop"] /\ r["timestop"] <= now
                        /\ r["walltime"] = r["timestop"] - r["timestart"]
          /\ OneRuntime(f.hooks) /\ timed /\ ~settled =>
                /\ r["cputime"] \in Nat /\ f.began[2] <= r["cputime"]
                /\ r["cputime"] <= f.body[2]
          /\ OneRuntime(f.hooks) /\ settled =>
                r["cputime"] \in Nat /\ f.used <= r["cputime"] /\ f.began[2] + r["cputime"] <= cpu
        BY <1>5 DEF TimeTold, FrameOK
    <2>3. CASE hook.kind = "runtime"
      <3>1. /\ hook.name = "runtime"
            /\ said = [timestop |-> now, walltime |-> now - r.timestart, cputime |-> cpu - r.cputime]
          BY <1>1, <2>3 DEF said, Post
      <3> HIDE DEF r, s, timed, settled
      <3>2. /\ DOMAIN said = After /\ said["timestop"] = now /\ said["walltime"] = now - r["timestart"]
            /\ said["cputime"] = cpu - r["cputime"]
          BY ONLY <3>1 DEF After
      <3>3. timed
          BY <1>2, <2>3 DEF timed, OfKind, hook
      <3>4. s = Joined(r, said)
          BY <1>7, <3>1 DEF s, r
      <3>5. /\ DOMAIN s = Before \cup After
            /\ s["timestart"] = r["timestart"] /\ s["timestop"] = now /\ s["walltime"] = now - r["timestart"]
            /\ s["cputime"] = cpu - r["cputime"]
          BY <2>2, <3>2, <3>3, <3>4 DEF Joined, Before, After
      <3>6. f.ended[1] <= now /\ f.ended[2] <= cpu /\ f.body[2] + f.used <= f.ended[2]
          BY DEF Timed, FrameOK
      <3>7. OneRuntime(f.hooks) => ~settled
        <4>1. \A i \in 1 .. (f.at - 1) : i \in 1 .. Len(f.hooks) /\ i # f.at
            BY ONLY <1>2
        <4> QED BY ONLY <1>2, <2>3, <4>1 DEF OneRuntime, settled, OfKind, hook
      <3>8. ASSUME OneRuntime(f.hooks)
            PROVE  /\ cpu - r["cputime"] \in Nat /\ f.used <= cpu - r["cputime"]
                   /\ f.began[2] + (cpu - r["cputime"]) <= cpu
        <4>1. /\ r["cputime"] \in Nat /\ f.began[2] <= r["cputime"]
              /\ r["cputime"] <= f.body[2]
            BY ONLY <2>2, <3>3, <3>7, <3>8
        <4> DEFINE x == r["cputime"]
                   b == f.began[2]
                   d == f.body[2]
                   e == f.ended[2]
                   u == f.used
        <4>2. /\ b \in Nat /\ d \in Nat /\ e \in Nat /\ u \in Nat /\ x \in Nat /\ b <= x /\ x <= d
              /\ e <= cpu /\ d + u <= e
            BY ONLY <1>2, <3>6, <4>1
        <4> HIDE DEF x, b, d, e, u
        <4>3. cpu - x \in Nat /\ u <= cpu - x /\ b + (cpu - x) <= cpu
            BY ONLY <4>2, cpu \in Nat
        <4> QED BY ONLY <4>3 DEF x, b, u
      <3>9. OfKind(f.hooks, "runtime", f.at)
          BY ONLY <2>1, <2>3
      <3>a. OfKind(g.hooks, "runtime", Heard(g)) /\ OfKind(g.hooks, "runtime", Answered(g))
          BY ONLY <1>4, <1>5, <3>3, <3>9 DEF timed
      <3>b. /\ s["timestart"] \in Nat /\ g.began[1] <= s["timestart"]
            /\ s["timestart"] <= IF g.phase = "pre" THEN now ELSE g.body[1]
          BY ONLY <1>4, <2>2, <3>3, <3>5
      <3>c. /\ s["timestop"] \in Nat /\ g.ended[1] <= s["timestop"] /\ s["timestop"] <= now
            /\ s["walltime"] = s["timestop"] - s["timestart"]
          BY ONLY <1>4, <3>5, <3>6, now \in Nat
      <3>d. OneRuntime(g.hooks) => /\ s["cputime"] \in Nat /\ g.used <= s["cputime"]
                                   /\ g.began[2] + s["cputime"] <= cpu
          BY ONLY <1>4, <3>5, <3>8
      <3>e. DOMAIN s = Before \cup After
          BY ONLY <3>5
      <3> QED BY ONLY <3>a, <3>b, <3>c, <3>d, <3>e DEF TimeTold, s
    <2>4. CASE hook.kind # "runtime"
      <3>1. s = r \/ (hook.name = "runtime" /\ said = NoFacts)
          BY <1>1, <1>7, <2>4 DEF said, Post
      <3>2. DOMAIN s = DOMAIN r /\ \A k \in DOMAIN r : s[k] = r[k]
        <4>1. CASE hook.name = "runtime" /\ said = NoFacts
          <5>1. s = Joined(r, said) /\ DOMAIN said = {}
              BY <1>7, <4>1 DEF NoFacts
          <5> HIDE DEF s, r
          <5> QED BY <5>1 DEF Joined
        <4> QED BY <3>1, <4>1
      <3> HIDE DEF r, s, timed, settled
      <3>3. settled => timed
          BY <1>2 DEF timed, settled, OfKind
      <3>4. /\ DOMAIN s = DOMAIN r
            /\ timed => s["timestart"] = r["timestart"] /\ s["cputime"] = r["cputime"]
            /\ settled => s["timestop"] = r["timestop"] /\ s["walltime"] = r["walltime"]
          BY <2>2, <3>2, <3>3 DEF Before, After
      <3> QED BY <1>4, <1>5, <2>1, <2>2, <2>4, <3>3, <3>4 DEF TimeTold, s, timed, settled
    <2> QED BY <2>3, <2>4
  <1> QED BY <1>4, <1>6, <1>8, <1>9, <1>10 DEF FrameOK

\* A step that leaves alone what was said.
LEMMA NothingSaid ==
    ASSUME NEW f, NEW g, NamesTold(f), TagsTold(f),
           g.hooks = f.hooks, g.facts = f.facts, Heard(g) = Heard(f)
    PROVE  NamesTold(g) /\ TagsTold(g)
  <1>1. NamesTold(g)
      BY DEF NamesTold
  <1>2. TagsTold(g)
    <2> SUFFICES ASSUME NEW i \in 1 .. Heard(g), NEW k \in DOMAIN g.hooks[i].says, LastSoFar(g, i, k)
                 PROVE  /\ k \in DOMAIN Noted(g.facts, "tags")
                        /\ Noted(g.facts, "tags")[k] = g.hooks[i].says[k]
        BY DEF TagsTold
    <2>1. i \in 1 .. Heard(f) /\ LastSoFar(f, i, k)
        BY DEF LastSoFar
    <2> QED BY <2>1 DEF TagsTold
  <1> QED BY <1>1, <1>2

\* The body begins.
LEMMA BodyBegins ==
    ASSUME now \in Nat, cpu \in Nat, NEW f, FrameOK(f, now, cpu), f.phase = "pre", f.at > Len(f.hooks),
           NEW g, g = [f EXCEPT !.phase = "body", !.at = 1, !.body = clocks]
    PROVE  FrameOK(g, now, cpu) /\ g.phase = "body"
  <1>1. /\ IsFrame(f) /\ Len(f.hooks) \in Nat /\ f.at = Len(f.hooks) + 1
        /\ f.began[1] \in Nat /\ f.began[2] \in Nat
      BY FrameIsOne DEF FrameOK, IsFrame
  <1>2. g = [hooks |-> f.hooks, bound |-> f.bound, phase |-> "body", at |-> 1, facts |-> f.facts,
             depth |-> f.depth, began |-> f.began, body |-> <<now, cpu>>, ended |-> f.ended, used |-> f.used]
      BY <1>1 DEF IsFrame, clocks
  <1>3. /\ g.hooks = f.hooks /\ g.bound = f.bound /\ g.phase = "body" /\ g.at = 1 /\ g.facts = f.facts
        /\ g.depth = f.depth /\ g.began = f.began /\ g.body[1] = now /\ g.body[2] = cpu
        /\ g.ended = f.ended /\ g.used = f.used /\ g.body \in Nat \X Nat
      BY ONLY <1>2, now \in Nat, cpu \in Nat
  <1>4. IsFrame(g)
    <2>1. 1 \in 1 .. (Len(f.hooks) + 1)
        BY <1>1
    <2> QED BY ONLY <1>1, <1>2, <1>3, <2>1 DEF IsFrame
  <1>5. Heard(f) = Len(f.hooks) /\ Heard(g) = Len(f.hooks) /\ Answered(f) = 0 /\ Answered(g) = 0
      BY <1>1, <1>3 DEF Heard, Answered
  <1>6. Timed(g, now, cpu)
      BY <1>1, <1>3 DEF Timed, FrameOK
  <1>7. NamesTold(g) /\ TagsTold(g)
    <2>1. NamesTold(f) /\ TagsTold(f)
        BY DEF FrameOK
    <2>2. g.hooks = f.hooks /\ g.facts = f.facts /\ Heard(g) = Heard(f)
        BY ONLY <1>3, <1>5
    <2> QED BY ONLY <2>1, <2>2, NothingSaid
  <1>8. TimeTold(g, now, cpu)
    <2> DEFINE r == Noted(f.facts, "runtime")
               timed == OfKind(f.hooks, "runtime", Len(f.hooks))
    <2>1. ~OfKind(f.hooks, "runtime", 0)
        BY DEF OfKind
    <2> HIDE DEF r
    <2>2. /\ DOMAIN r = IF timed THEN Before ELSE {}
          /\ timed => r["timestart"] \in Nat /\ f.began[1] <= r["timestart"] /\ r["timestart"] <= now
          /\ OneRuntime(f.hooks) /\ timed =>
                r["cputime"] \in Nat /\ f.began[2] <= r["cputime"] /\ r["cputime"] <= cpu
        BY <1>5, <2>1 DEF TimeTold, FrameOK, r
    <2>3. /\ Noted(g.facts, "runtime") = r /\ OfKind(g.hooks, "runtime", Heard(g)) = timed
          /\ OfKind(g.hooks, "runtime", Answered(g)) = FALSE
        BY ONLY <1>3, <1>5, <2>1 DEF r
    <2> HIDE DEF timed
    <2>4. /\ DOMAIN r = (IF timed THEN Before ELSE {}) \cup (IF FALSE THEN After ELSE {})
          /\ timed => r["timestart"] \in Nat /\ g.began[1] <= r["timestart"]
                      /\ r["timestart"] <= IF g.phase = "pre" THEN now ELSE g.body[1]
          /\ OneRuntime(g.hooks) /\ timed =>
                r["cputime"] \in Nat /\ g.began[2] <= r["cputime"]
                /\ r["cputime"] <= IF g.phase = "pre" THEN cpu ELSE g.body[2]
        BY ONLY <1>3, <2>2
    <2> QED BY ONLY <2>3, <2>4 DEF TimeTold
  <1> QED BY <1>3, <1>4, <1>6, <1>7, <1>8 DEF FrameOK

\* The body ends, or the future it returned is settled.
LEMMA BodyEnds ==
    ASSUME now \in Nat, cpu \in Nat, NEW f, FrameOK(f, now, cpu), f.phase = "body",
           NEW g, g = [f EXCEPT !.phase = "post", !.ended = clocks]
    PROVE  FrameOK(g, now, cpu)
  <1>1. /\ IsFrame(f) /\ Len(f.hooks) \in Nat /\ f.at = 1
      BY FrameIsOne DEF FrameOK, Timed
  <1>2. g = [hooks |-> f.hooks, bound |-> f.bound, phase |-> "post", at |-> 1, facts |-> f.facts,
             depth |-> f.depth, began |-> f.began, body |-> f.body, ended |-> <<now, cpu>>, used |-> f.used]
      BY <1>1 DEF IsFrame, clocks
  <1>3. /\ g.hooks = f.hooks /\ g.bound = f.bound /\ g.phase = "post" /\ g.at = 1 /\ g.facts = f.facts
        /\ g.depth = f.depth /\ g.began = f.began /\ g.body = f.body /\ g.ended[1] = now
        /\ g.ended[2] = cpu /\ g.used = f.used /\ g.ended \in Nat \X Nat
      BY ONLY <1>2, now \in Nat, cpu \in Nat
  <1>4. IsFrame(g)
    <2>1. 1 \in 1 .. (Len(f.hooks) + 1)
        BY <1>1
    <2> QED BY ONLY <1>1, <1>2, <1>3, <2>1 DEF IsFrame
  <1>5. Heard(f) = Len(f.hooks) /\ Heard(g) = Len(f.hooks) /\ Answered(f) = 0 /\ Answered(g) = 0
      BY <1>1, <1>3 DEF Heard, Answered
  <1>6. Timed(g, now, cpu)
    <2>1. /\ f.began[1] <= now /\ f.began[2] <= cpu
          /\ f.began[1] <= f.body[1] /\ f.began[2] <= f.body[2]
          /\ f.body[1] <= now /\ f.body[2] <= cpu /\ f.body[2] + f.used <= cpu
        BY DEF Timed, FrameOK
    <2>2. now <= now /\ cpu <= cpu
        OBVIOUS
    <2> QED BY ONLY <1>3, <2>1, <2>2 DEF Timed
  <1>7. NamesTold(g) /\ TagsTold(g)
    <2>1. NamesTold(f) /\ TagsTold(f)
        BY DEF FrameOK
    <2> QED BY <1>3, <1>5, <2>1, NothingSaid
  <1>8. TimeTold(g, now, cpu)
    <2> DEFINE r == Noted(f.facts, "runtime")
    <2>1. ~OfKind(f.hooks, "runtime", 0)
        BY DEF OfKind
    <2> HIDE DEF r
    <2> QED BY <1>3, <1>5, <2>1 DEF TimeTold, FrameOK, r
  <1> QED BY <1>4, <1>6, <1>7, <1>8 DEF FrameOK

\* The body runs on.
LEMMA BodyRuns ==
    ASSUME now \in Nat, cpu \in Nat, NEW f, FrameOK(f, now, cpu), f.phase = "body", NEW burnt \in 0 .. 1,
           NEW g, g = Ages(f, burnt)
    PROVE  FrameOK(g, now + 1, cpu + burnt) /\ g.phase = "body"
  <1>1. /\ IsFrame(f) /\ Len(f.hooks) \in Nat /\ f.at = 1 /\ f.used \in Nat
        /\ f.began[1] \in Nat /\ f.began[2] \in Nat /\ f.body[1] \in Nat /\ f.body[2] \in Nat
      BY FrameIsOne DEF FrameOK, Timed, IsFrame
  <1>2. g = [hooks |-> f.hooks, bound |-> f.bound, phase |-> "body", at |-> 1, facts |-> f.facts,
             depth |-> f.depth, began |-> f.began, body |-> f.body, ended |-> f.ended, used |-> f.used + burnt]
      BY <1>1 DEF IsFrame, Ages
  <1>3. /\ g.hooks = f.hooks /\ g.bound = f.bound /\ g.phase = "body" /\ g.at = 1 /\ g.facts = f.facts
        /\ g.depth = f.depth /\ g.began = f.began /\ g.body = f.body /\ g.ended = f.ended
        /\ g.used = f.used + burnt /\ g.used \in Nat
      BY ONLY <1>2, <1>1, burnt \in 0 .. 1
  <1>4. IsFrame(g)
    <2>1. 1 \in 1 .. (Len(f.hooks) + 1)
        BY <1>1
    <2> QED BY ONLY <1>1, <1>2, <1>3, <2>1 DEF IsFrame
  <1>5. Heard(f) = Len(f.hooks) /\ Heard(g) = Len(f.hooks) /\ Answered(f) = 0 /\ Answered(g) = 0
      BY <1>1, <1>3 DEF Heard, Answered
  <1>6. Timed(g, now + 1, cpu + burnt)
    <2>1. /\ f.began[1] <= now /\ f.began[2] <= cpu
          /\ f.began[1] <= f.body[1] /\ f.began[2] <= f.body[2]
          /\ f.body[1] <= now /\ f.body[2] <= cpu /\ f.body[2] + f.used <= cpu
        BY DEF Timed, FrameOK
    <2>2. /\ f.began[1] <= now + 1 /\ f.began[2] <= cpu + burnt
          /\ f.body[1] <= now + 1 /\ f.body[2] <= cpu + burnt
        BY ONLY <1>1, <2>1, now \in Nat, cpu \in Nat, burnt \in 0 .. 1
    <2>3. f.body[2] + (f.used + burnt) <= cpu + burnt
        BY ONLY <1>1, <2>1, now \in Nat, cpu \in Nat, burnt \in 0 .. 1
    <2> QED BY ONLY <1>3, <2>1, <2>2, <2>3 DEF Timed
  <1>7. NamesTold(g) /\ TagsTold(g)
    <2>1. NamesTold(f) /\ TagsTold(f)
        BY DEF FrameOK
    <2> QED BY <1>3, <1>5, <2>1, NothingSaid
  <1>8. TimeTold(g, now + 1, cpu + burnt)
    <2> DEFINE r == Noted(f.facts, "runtime")
    <2>1. ~OfKind(f.hooks, "runtime", 0)
        BY DEF OfKind
    <2> HIDE DEF r
    <2> QED BY <1>1, <1>3, <1>5, <2>1 DEF TimeTold, FrameOK, r
  <1> QED BY <1>3, <1>4, <1>6, <1>7, <1>8 DEF FrameOK

\* How many hooks are Runtimes.
LEMMA Counted ==
    ASSUME NEW hooks \in Seq(AllHooks)
    PROVE  /\ Count(hooks, "runtime") > 0 => OfKind(hooks, "runtime", Len(hooks))
           /\ Count(hooks, "runtime") = 1 => OneRuntime(hooks)
  <1> DEFINE those == {i \in DOMAIN hooks : hooks[i].kind = "runtime"}
  <1>1. Len(hooks) \in Nat /\ DOMAIN hooks = 1 .. Len(hooks) /\ those \subseteq 1 .. Len(hooks)
      OBVIOUS
  <1>2. IsFiniteSet(those)
    <2>1. IsFiniteSet(1 .. Len(hooks))
        BY <1>1, FS_Interval
    <2> QED BY <1>1, <2>1, FS_Subset
  <1>3. those = {} => Cardinality(those) = 0
      BY FS_EmptySet
  <1>4. Cardinality(those) = 1 => \E i : those = {i}
      BY <1>2, FS_Singleton
  <1>5. Count(hooks, "runtime") = Cardinality(those)
      BY DEF Count
  <1>6. ASSUME Count(hooks, "runtime") > 0 PROVE OfKind(hooks, "runtime", Len(hooks))
    <2>1. those # {}
        BY <1>3, <1>5, <1>6
    <2>2. PICK i \in those : TRUE
        BY <2>1
    <2> QED BY <1>1, <2>2 DEF OfKind
  <1>7. ASSUME Count(hooks, "runtime") = 1 PROVE OneRuntime(hooks)
    <2>1. PICK x : those = {x}
        BY <1>4, <1>5, <1>7
    <2>2. \A i \in 1 .. Len(hooks) : hooks[i].kind = "runtime" => i = x
        BY <1>1, <2>1
    <2> QED BY <2>2 DEF OneRuntime
  <1> QED BY <1>6, <1>7

\* The record of a call that has asked its hooks again.
LEMMA Recorded ==
    ASSUME now \in Nat, cpu \in Nat, NEW f, FrameOK(f, now, cpu), f.phase = "post", f.at > Len(f.hooks),
           noted' = [call |-> f, written |-> clocks]
    PROVE  RecordsTellTheirCalls'
  <1> DEFINE n == Len(f.hooks)
             r == Noted(f.facts, "runtime")
             tags == Noted(f.facts, "tags")
  <1>1. /\ n \in Nat /\ f.at = n + 1 /\ f.bound = f.hooks /\ f.hooks \in Seq(AllHooks)
        /\ DOMAIN f.hooks = 1 .. n
        /\ f.began[1] \in Nat /\ f.began[2] \in Nat /\ f.body[1] \in Nat /\ f.used \in Nat
      BY FrameIsOne DEF FrameOK, IsFrame
  <1>2. Heard(f) = n /\ Answered(f) = n
      BY <1>1 DEF Heard, Answered
  <1>3. noted'.call = f /\ noted'.written[1] = now /\ noted'.written[2] = cpu
      BY DEF clocks
  <1>4. \A i \in DOMAIN f.bound : \A k \in DOMAIN f.bound[i].says : LastWord(f.bound, i, k) =>
             k \in DOMAIN tags /\ tags[k] = f.bound[i].says[k]
    <2> SUFFICES ASSUME NEW i \in 1 .. n, NEW k \in DOMAIN f.hooks[i].says, LastWord(f.hooks, i, k)
                 PROVE  k \in DOMAIN tags /\ tags[k] = f.hooks[i].says[k]
        BY <1>1
    <2>1. LastSoFar(f, i, k)
        BY <1>1, <1>2 DEF LastWord, LastSoFar
    <2> QED BY <1>2, <2>1 DEF TagsTold, FrameOK
  <1>5. DOMAIN f.facts = {f.bound[i].name : i \in DOMAIN f.bound}
      BY <1>1, <1>2 DEF NamesTold, FrameOK
  <1> HIDE DEF r
  <1>6. ASSUME Count(f.bound, "runtime") > 0
        PROVE  /\ {"timestart", "timestop", "walltime", "cputime"} = DOMAIN r
               /\ f.began[1] <= r.timestart /\ r.timestart <= f.body[1]
               /\ f.ended[1] <= r.timestop /\ r.timestop <= now
               /\ r.walltime = r.timestop - r.timestart
    <2>1. OfKind(f.hooks, "runtime", n)
        BY <1>1, <1>6, Counted
    <2> QED BY <1>2, <2>1 DEF TimeTold, FrameOK, Before, After, r
  <1>7. ASSUME Count(f.bound, "runtime") = 1
        PROVE  f.used <= r.cputime /\ r.cputime <= cpu - f.began[2]
    <2>1. OfKind(f.hooks, "runtime", n) /\ OneRuntime(f.hooks)
        BY <1>1, <1>7, Counted
    <2>2. r["cputime"] \in Nat /\ f.used <= r["cputime"] /\ f.began[2] + r["cputime"] <= cpu
        BY <1>2, <2>1 DEF TimeTold, FrameOK, r
    <2> DEFINE x == r["cputime"]
               b == f.began[2]
    <2>3. x \in Nat /\ b \in Nat /\ b + x <= cpu /\ f.used <= x
        BY <1>1, <2>2
    <2> HIDE DEF x, b
    <2>4. x <= cpu - b
        BY ONLY <2>3, cpu \in Nat
    <2> QED BY ONLY <2>3, <2>4 DEF x, b
  <1> QED BY <1>3, <1>4, <1>5, <1>6, <1>7 DEF RecordsTellTheirCalls, r

-----------------------------------------------------------------------------
(* The calls of a thread.                                                   *)

LEMMA NoCalls == ASSUME NEW n, NEW c PROVE Calling(<<>>, n, c)
  <1>1. <<>> \in Seq(Range(<<>>)) /\ Len(<<>>) = 0
      OBVIOUS
  <1> QED BY <1>1 DEF Calling

LEMMA OneCall ==
    ASSUME NEW n, NEW c, NEW f, FrameOK(f, n, c) PROVE Calling(<<f>>, n, c)
  <1>1. <<f>> \in Seq(Range(<<f>>)) /\ Len(<<f>>) = 1 /\ <<f>>[1] = f
    <2>1. <<f>> \in Seq({f}) /\ Len(<<f>>) = 1 /\ <<f>>[1] = f
        OBVIOUS
    <2> QED BY <2>1, SeqOfRange
  <1>2. \A i \in 1 .. 1 : i = 1
      OBVIOUS
  <1> QED BY <1>1, <1>2 DEF Calling

LEMMA CallBegins ==
    ASSUME NEW n, NEW c, NEW s, Calling(s, n, c), s = <<>> \/ Last(s).phase = "body",
           NEW f, FrameOK(f, n, c)
    PROVE  Calling(Append(s, f), n, c)
  <1>1. s \in Seq(Range(s)) /\ Len(s) \in Nat
      BY DEF Calling
  <1>2. /\ Append(s, f) \in Seq(Range(Append(s, f))) /\ Len(Append(s, f)) = Len(s) + 1
        /\ \A i \in 1 .. Len(s) : Append(s, f)[i] = s[i]
        /\ Append(s, f)[Len(s) + 1] = f
      BY <1>1, Pushed
  <1>3. \A i \in 1 .. Len(s) : s[i].phase = "body"
    <2>1. CASE s = <<>>
        BY <2>1
    <2>2. CASE s # <<>>
      <3>1. Last(s) = s[Len(s)]
          BY <1>1, <2>2, Popped
      <3>2. s[Len(s)].phase = "body"
          BY <2>2, <3>1
      <3> QED BY <1>1, <3>2 DEF Calling
    <2> QED BY <2>1, <2>2
  <1>4. ASSUME NEW i \in 1 .. (Len(s) + 1)
        PROVE  FrameOK(Append(s, f)[i], n, c) /\ (i < Len(s) + 1 => Append(s, f)[i].phase = "body")
    <2>1. CASE i = Len(s) + 1
        BY <1>1, <1>2, <2>1
    <2>2. CASE i # Len(s) + 1
      <3>1. i \in 1 .. Len(s)
          BY <1>1, <2>2
      <3> QED BY <1>2, <1>3, <3>1 DEF Calling
    <2> QED BY <2>1, <2>2
  <1> QED BY <1>2, <1>4 DEF Calling

LEMMA CallEnds ==
    ASSUME NEW n, NEW c, NEW s, Calling(s, n, c), s # <<>>
    PROVE  /\ FrameOK(Last(s), n, c) /\ Calling(Front(s), n, c)
           /\ Front(s) = <<>> \/ Last(Front(s)).phase = "body"
  <1>1. s \in Seq(Range(s))
      BY DEF Calling
  <1>2. /\ Len(s) \in Nat \ {0} /\ Last(s) = s[Len(s)]
        /\ Front(s) \in Seq(Range(Front(s))) /\ Len(Front(s)) = Len(s) - 1
        /\ \A i \in 1 .. (Len(s) - 1) : Front(s)[i] = s[i]
      BY <1>1, Popped
  <1>3. ASSUME NEW i \in 1 .. (Len(s) - 1)
        PROVE  FrameOK(Front(s)[i], n, c) /\ Front(s)[i].phase = "body"
    <2>1. i \in 1 .. Len(s) /\ i < Len(s)
        BY <1>2
    <2> QED BY <1>2, <2>1 DEF Calling
  <1>4. FrameOK(Last(s), n, c)
    <2>1. Len(s) \in 1 .. Len(s)
        BY <1>2
    <2> QED BY <1>2, <2>1 DEF Calling
  <1>5. ASSUME Front(s) # <<>> PROVE Last(Front(s)).phase = "body"
    <2>1. Last(Front(s)) = Front(s)[Len(Front(s))] /\ Len(Front(s)) \in Nat \ {0}
        BY <1>2, <1>5, Popped
    <2>2. Len(Front(s)) \in 1 .. (Len(s) - 1)
        BY <1>2, <2>1
    <2> QED BY <1>3, <2>1, <2>2
  <1>6. Calling(Front(s), n, c)
      BY <1>2, <1>3 DEF Calling
  <1> QED BY <1>4, <1>5, <1>6

\* The innermost call makes a step.
LEMMA CallGoesOn ==
    ASSUME NEW n, NEW c, NEW s, Calling(s, n, c), s # <<>>, NEW f, FrameOK(f, n, c)
    PROVE  Calling(Append(Front(s), f), n, c)
  <1>1. Calling(Front(s), n, c) /\ (Front(s) = <<>> \/ Last(Front(s)).phase = "body")
      BY CallEnds
  <1> QED BY <1>1, CallBegins

LEMMA CallsWait ==
    ASSUME NEW s, NEW n \in Nat, NEW c \in Nat, NEW n2 \in Nat, NEW c2 \in Nat,
           Calling(s, n, c), n <= n2, c <= c2
    PROVE  Calling(s, n2, c2)
  <1>1. \A i \in 1 .. Len(s) : FrameOK(s[i], n, c)
      BY DEF Calling
  <1>2. \A i \in 1 .. Len(s) : FrameOK(s[i], n2, c2)
      BY <1>1, TimePasses
  <1> QED BY <1>2 DEF Calling

-----------------------------------------------------------------------------
(* The contexts.                                                            *)

LEMMA HooksOf ==
    ASSUME ContextsTyped, NEW t \in Contexts, ActiveHooks(t) # Unknown
    PROVE  ActiveHooks(t) \in Seq(AllHooks) /\ (Memoised(t) => fallback' \in Lists)
  <1>1. ActiveHooks(t) \in Seq(AllHooks)
    <2>1. CASE active[t] # Unset
        BY <2>1 DEF ContextsTyped, ActiveHooks, Lists
    <2>2. CASE active[t] = Unset /\ fallback # Unset
        BY <2>2 DEF ContextsTyped, ActiveHooks, Lists
    <2>3. CASE active[t] = Unset /\ fallback = Unset
      <3>1. ActiveHooks(t) = DefaultHooks
          BY <2>3 DEF ActiveHooks
      <3>2. CASE configured = Unset
        <4>1. <<Runtime>> \in Seq({Runtime}) /\ Runtime \in AllHooks
            BY DEF AllHooks
        <4>2. <<Runtime>> \in Seq(AllHooks)
            BY <4>1
        <4> QED BY <3>1, <3>2, <4>2 DEF DefaultHooks
      <3>3. CASE configured # Unset
        <4>1. DefaultHooks = configured /\ configured \in Configured \ {Unknown}
            BY <3>1, <3>3 DEF DefaultHooks, ContextsTyped
        <4>2. DefaultHooks \in HookLists
            BY <4>1 DEF HookLists
        <4> QED BY <3>1, <4>2
      <3> QED BY <3>2, <3>3
    <2> QED BY <2>1, <2>2, <2>3
  <1> QED BY <1>1 DEF Memoised, ContextsTyped, Lists

LEMMA SetsTyped ==
    ASSUME ContextsTyped, NEW t \in Contexts, NEW hooks \in Seq(AllHooks), Sets(t, hooks)
    PROVE  /\ active' \in [Contexts -> Lists] /\ scopes' \in [Contexts -> Seq(Lists)]
           /\ UNCHANGED <<configured, callVars, clocks>>
  <1>1. active' \in [Contexts -> Lists]
      BY DEF Sets, ContextsTyped, Lists
  <1>2. scopes' \in [Contexts -> Seq(Lists)]
    <2>1. CASE UNCHANGED scopes
        BY <2>1 DEF ContextsTyped
    <2>2. CASE scopes' = [scopes EXCEPT ![t] = Append(scopes[t], active[t])]
      <3>1. Append(scopes[t], active[t]) \in Seq(Lists)
          BY AppendProperties DEF ContextsTyped
      <3> QED BY <2>2, <3>1 DEF ContextsTyped
    <2> QED BY <2>1, <2>2 DEF Sets
  <1> QED BY <1>1, <1>2 DEF Sets

LEMMA NothingNoted == ASSUME UNCHANGED noted, RecordsTellTheirCalls PROVE RecordsTellTheirCalls'
  BY DEF RecordsTellTheirCalls

LEMMA CallsStay ==
    ASSUME CallsAreTold, UNCHANGED <<frames, pending, clocks>> PROVE CallsAreTold'
  BY DEF CallsAreTold, clocks

\* A step of a call of t, or its end.
LEMMA OneThread ==
    ASSUME CallsAreTold, NEW t \in Contexts, NEW s, Calling(s, now, cpu),
           frames' = [frames EXCEPT ![t] = s], UNCHANGED clocks,
           \A f \in pending' : f \in pending \/ (FrameOK(f, now, cpu) /\ f.phase = "body")
    PROVE  CallsAreTold'
  <1>1. DOMAIN frames' = Contexts /\ \A u \in Contexts : frames'[u] = IF u = t THEN s ELSE frames[u]
      BY DEF CallsAreTold
  <1>2. \A u \in Contexts : Calling(frames'[u], now, cpu)
      BY <1>1 DEF CallsAreTold
  <1>3. now' = now /\ cpu' = cpu
      BY DEF clocks
  <1> QED BY <1>1, <1>2, <1>3 DEF CallsAreTold

LEMMA ContextsStay ==
    ASSUME ContextsTyped, UNCHANGED <<contextVars, submitted, clocks>> PROVE ContextsTyped'
  BY DEF ContextsTyped, contextVars, clocks

LEMMA OverIs ==
    ASSUME ContextsTyped, CallsAreTold, NEW t \in Contexts, frames[t] # <<>>, Over(t)
    PROVE  /\ active' \in [Contexts -> Lists] /\ scopes' \in [Contexts -> Seq(Lists)]
           /\ Calling(Front(frames[t]), now, cpu) /\ FrameOK(Top(t), now, cpu)
           /\ frames' = [frames EXCEPT ![t] = Front(frames[t])]
  <1>1. Calling(Front(frames[t]), now, cpu) /\ FrameOK(Top(t), now, cpu)
      BY CallEnds DEF CallsAreTold, Top
  <1> DEFINE outer == IF Len(frames[t]) = 1 /\ t \in Runners THEN 0 ELSE Top(t).depth
  <1>2. outer \in Nat
      BY <1>1 DEF FrameOK, IsFrame
  <1>3. CASE Len(scopes[t]) > outer
    <2>1. active' = [active EXCEPT ![t] = scopes[t][outer + 1]]
          /\ scopes' = [scopes EXCEPT ![t] = SubSeq(scopes[t], 1, outer)]
        BY <1>3 DEF Over
    <2> HIDE DEF outer
    <2>2. scopes[t] \in Seq(Lists) /\ Len(scopes[t]) \in Nat
        BY DEF ContextsTyped
    <2>3. scopes[t][outer + 1] \in Lists
        BY <1>2, <1>3, <2>2
    <2>4. SubSeq(scopes[t], 1, outer) \in Seq(Lists)
      <3>1. 1 \in Int /\ outer \in Int /\ \A i \in 1 .. outer : scopes[t][i] \in Lists
          BY <1>2, <1>3, <2>2
      <3> QED BY ONLY <3>1, SubSeqProperties
    <2> QED BY <1>1, <2>1, <2>3, <2>4 DEF ContextsTyped, Over
  <1>4. CASE ~(Len(scopes[t]) > outer)
      BY <1>1, <1>4 DEF ContextsTyped, Over
  <1> QED BY <1>3, <1>4

LEMMA Entered ==
    ASSUME ContextsTyped, CallsAreTold, NEW t \in Contexts, NEW own \in Own, NEW given \in Seq(AllHooks),
           frames[t] = <<>> \/ Top(t).phase = "body", scopes' \in [Contexts -> Seq(Lists)],
           Enters(t, own, given, given), UNCHANGED <<pending, clocks>>
    PROVE  CallsAreTold'
  <1>1. own \in Seq(AllHooks) /\ given \o own \in Seq(AllHooks)
    <2>1. own \in HookLists
        BY DEF HookLists
    <2>2. own \in Seq(AllHooks)
        BY <2>1
    <2> QED BY <2>2, ConcatProperties
  <1>2. Len(scopes'[t]) \in Nat
      BY LenProperties
  <1> DEFINE f == Frame(t, given \o own, given \o own)
  <1>3. FrameOK(f, now, cpu)
      BY <1>1, <1>2, FrameBegins DEF ContextsTyped, Frame
  <1>4. Calling(frames[t], now, cpu)
      BY DEF CallsAreTold
  <1> HIDE DEF f
  <1>5. Calling(Append(frames[t], f), now, cpu)
      BY <1>3, <1>4, CallBegins DEF Top
  <1>6. frames' = [frames EXCEPT ![t] = Append(frames[t], f)]
      BY DEF Enters, f
  <1> QED BY <1>5, <1>6, OneThread

LEMMA Became ==
    ASSUME CallsAreTold, NEW t \in Contexts, frames[t] # <<>>, NEW f, FrameOK(f, now, cpu), Becomes(t, f),
           UNCHANGED <<pending, clocks>>
    PROVE  CallsAreTold'
  <1>1. Calling(Append(Front(frames[t]), f), now, cpu)
      BY CallGoesOn DEF CallsAreTold
  <1>2. frames' = [frames EXCEPT ![t] = Append(Front(frames[t]), f)]
      BY DEF Becomes
  <1> QED BY <1>1, <1>2, OneThread

LEMMA TopIs ==
    ASSUME CallsAreTold, NEW t \in Contexts, frames[t] # <<>>
    PROVE  FrameOK(Top(t), now, cpu) /\ Len(Top(t).hooks) \in Nat /\ Top(t).at \in Nat
  <1>1. FrameOK(Top(t), now, cpu)
      BY CallEnds DEF CallsAreTold, Top
  <1> QED BY <1>1, FrameIsOne DEF FrameOK, IsFrame

LEMMA CodeRuns ==
    ASSUME CallsAreTold, NEW t \in Contexts, RunsCode(t)
    PROVE  frames[t] = <<>> \/ Top(t).phase = "body"
  BY DEF RunsCode, Top

-----------------------------------------------------------------------------
(* The steps.                                                               *)

LEMMA MetaKeeps ==
    ASSUME MetaInv, NEW t \in Contexts, NEW new \in HookChoices, Meta(t, new) \/ Stacked(t, new)
    PROVE  MetaInv'
  <1>1. ContextsTyped /\ CallsAreTold /\ RecordsTellTheirCalls
      BY DEF MetaInv
  <1>2. new \in Seq(AllHooks)
    <2>1. new \in HookLists
        BY DEF HookLists
    <2> QED BY <2>1
  <1>3. /\ active' \in [Contexts -> Lists] /\ scopes' \in [Contexts -> Seq(Lists)]
        /\ UNCHANGED <<configured, callVars, clocks>> /\ fallback' \in Lists
    <2>1. CASE Meta(t, new)
        BY <1>1, <1>2, <2>1, SetsTyped DEF Meta, ContextsTyped
    <2>2. CASE Stacked(t, new)
      <3>1. ActiveHooks(t) \in Seq(AllHooks) /\ fallback' \in Lists
          BY <1>1, <2>2, HooksOf DEF Stacked
      <3>2. ActiveHooks(t) \o new \in Seq(AllHooks)
          BY <1>2, <3>1, ConcatProperties
      <3>3. Sets(t, ActiveHooks(t) \o new)
          BY <2>2 DEF Stacked
      <3> QED BY ONLY <1>1, <3>1, <3>2, <3>3, SetsTyped, t \in Contexts
    <2> QED BY <2>1, <2>2
  <1>4. ContextsTyped'
      BY <1>1, <1>3 DEF ContextsTyped, callVars, clocks
  <1>5. CallsAreTold' /\ RecordsTellTheirCalls'
      BY <1>1, <1>3, CallsStay, NothingNoted DEF callVars
  <1> QED BY <1>4, <1>5 DEF MetaInv

LEMMA LeaveBlockKeeps ==
    ASSUME MetaInv, NEW t \in Contexts, LeaveBlock(t) PROVE MetaInv'
  <1>1. ContextsTyped /\ CallsAreTold /\ RecordsTellTheirCalls
      BY DEF MetaInv
  <1>2. Outside(t) >= 0 /\ Outside(t) \in Nat
    <2>1. CASE frames[t] = <<>>
        BY <2>1 DEF Outside
    <2>2. CASE frames[t] # <<>>
      <3>1. IsFrame(Top(t)) /\ Outside(t) = Top(t).depth
          BY <1>1, <2>2, TopIs DEF FrameOK, Outside, Top
      <3>2. Top(t).depth \in Nat
          BY <3>1 DEF IsFrame
      <3> QED BY <3>1, <3>2
    <2> QED BY <2>1, <2>2
  <1>3. scopes[t] \in Seq(Lists) /\ scopes[t] # <<>>
    <2>1. scopes[t] \in Seq(Lists) /\ Len(scopes[t]) \in Nat /\ Len(scopes[t]) > Outside(t)
        BY <1>1 DEF ContextsTyped, LeaveBlock
    <2>2. Len(scopes[t]) # 0
        BY <1>2, <2>1
    <2> QED BY <2>1, <2>2, EmptySeq
  <1>4. Last(scopes[t]) \in Lists /\ Front(scopes[t]) \in Seq(Lists)
      BY <1>3, Popped
  <1>5. ContextsTyped'
      BY <1>1, <1>4 DEF ContextsTyped, LeaveBlock, callVars, clocks
  <1>6. CallsAreTold' /\ RecordsTellTheirCalls'
      BY <1>1, CallsStay, NothingNoted DEF LeaveBlock, callVars
  <1> QED BY <1>5, <1>6 DEF MetaInv

LEMMA SubmitBoundKeeps ==
    ASSUME MetaInv, NEW t \in Contexts, SubmitBound(t) PROVE MetaInv'
  <1>1. ContextsTyped /\ CallsAreTold /\ RecordsTellTheirCalls
      BY DEF MetaInv
  <1>2. ActiveHooks(t) \in Seq(AllHooks) /\ fallback' \in Lists
      BY <1>1, HooksOf DEF SubmitBound
  <1>3. submitted' \in Seq(Seq(AllHooks))
      BY <1>1, <1>2, AppendProperties DEF ContextsTyped, SubmitBound
  <1>4. ContextsTyped'
      BY <1>1, <1>2, <1>3 DEF ContextsTyped, SubmitBound, clocks
  <1>5. CallsAreTold' /\ RecordsTellTheirCalls'
      BY <1>1, CallsStay, NothingNoted DEF SubmitBound
  <1> QED BY <1>4, <1>5 DEF MetaInv

LEMMA CallFunctionKeeps ==
    ASSUME MetaInv, NEW t \in Contexts, NEW own \in Own, CallFunction(t, own) PROVE MetaInv'
  <1>1. ContextsTyped /\ CallsAreTold /\ RecordsTellTheirCalls
      BY DEF MetaInv
  <1>2. ActiveHooks(t) \in Seq(AllHooks) /\ fallback' \in Lists
      BY <1>1, HooksOf DEF CallFunction
  <1>3. ContextsTyped'
      BY <1>1, <1>2 DEF ContextsTyped, CallFunction, clocks
  <1>4. CallsAreTold'
    <2>1. frames[t] = <<>> \/ Top(t).phase = "body"
        BY <1>1, CodeRuns DEF CallFunction
    <2>2. scopes' \in [Contexts -> Seq(Lists)]
        BY <1>3 DEF ContextsTyped
    <2>3. Enters(t, own, ActiveHooks(t), ActiveHooks(t)) /\ UNCHANGED <<pending, clocks>>
        BY DEF CallFunction
    <2> QED BY ONLY <1>1, <1>2, <2>1, <2>2, <2>3, Entered, t \in Contexts, own \in Own
  <1>5. RecordsTellTheirCalls'
      BY <1>1, NothingNoted DEF CallFunction
  <1> QED BY <1>3, <1>4, <1>5 DEF MetaInv

LEMMA RunBoundKeeps ==
    ASSUME MetaInv, NEW t \in Contexts, NEW own \in Own, RunBound(t, own) PROVE MetaInv'
  <1>1. ContextsTyped /\ CallsAreTold /\ RecordsTellTheirCalls
      BY DEF MetaInv
  <1> DEFINE given == Head(submitted)
  <1>2. given \in Seq(AllHooks) /\ Tail(submitted) \in Seq(Seq(AllHooks))
      BY <1>1, HeadTailProperties DEF ContextsTyped, RunBound
  <1>3. /\ active' = [active EXCEPT ![t] = given] /\ active'[t] = given
        /\ scopes' = [scopes EXCEPT ![t] = <<active[t]>>] /\ submitted' = Tail(submitted)
        /\ UNCHANGED <<configured, fallback, changes, pending, noted, clocks>>
        /\ Enters(t, own, active'[t], given)
      BY <1>1 DEF RunBound, ContextsTyped
  <1> HIDE DEF given
  <1>4. <<active[t]>> \in Seq(Lists)
      BY <1>1 DEF ContextsTyped
  <1>5. ContextsTyped'
      BY <1>1, <1>2, <1>3, <1>4 DEF ContextsTyped, clocks, Lists
  <1>6. CallsAreTold'
    <2>1. frames[t] = <<>> /\ scopes' \in [Contexts -> Seq(Lists)]
        BY <1>5 DEF RunBound, ContextsTyped
    <2>2. Enters(t, own, given, given) /\ UNCHANGED <<pending, clocks>>
        BY ONLY <1>3
    <2> QED BY ONLY <1>1, <1>2, <2>1, <2>2, Entered, t \in Contexts, own \in Own
  <1>7. RecordsTellTheirCalls'
      BY <1>1, <1>3, NothingNoted
  <1> QED BY <1>5, <1>6, <1>7 DEF MetaInv

LEMMA SettlesKeeps ==
    ASSUME MetaInv, NEW t \in Contexts, NEW frame \in pending, Settles(t, frame) PROVE MetaInv'
  <1>1. ContextsTyped /\ CallsAreTold /\ RecordsTellTheirCalls
      BY DEF MetaInv
  <1> DEFINE g == [frame EXCEPT !.phase = "post", !.ended = clocks]
  <1>2. FrameOK(frame, now, cpu) /\ frame.phase = "body" /\ now \in Nat /\ cpu \in Nat
      BY <1>1 DEF CallsAreTold, ContextsTyped
  <1>3. FrameOK(g, now, cpu)
      BY <1>2, BodyEnds
  <1> HIDE DEF g
  <1>4. Calling(<<g>>, now, cpu)
      BY <1>3, OneCall
  <1>5. frames' = [frames EXCEPT ![t] = <<g>>] /\ pending' \subseteq pending
      BY DEF Settles, g
  <1>6. CallsAreTold'
      BY <1>1, <1>4, <1>5, OneThread DEF Settles
  <1>7. ContextsTyped' /\ RecordsTellTheirCalls'
      BY <1>1, ContextsStay, NothingNoted DEF Settles
  <1> QED BY <1>6, <1>7 DEF MetaInv

\* What the innermost call has become.
LEMMA PreDoes ==
    ASSUME NEW t, RunPre(t)
    PROVE  /\ Top(t).phase = "pre" /\ Top(t).at <= Len(Top(t).hooks)
           /\ Becomes(t, HasSaid(Top(t), Pre(Top(t).hooks[Top(t).at])))
  BY ONLY RunPre(t), Zenon DEF RunPre, InPhase, Says, HasSaid

LEMMA PostDoes ==
    ASSUME NEW t, RunPost(t)
    PROVE  /\ Top(t).phase = "post" /\ Top(t).at <= Len(Top(t).hooks)
           /\ Becomes(t, HasSaid(Top(t), Post(Top(t).hooks[Top(t).at],
                                                Noted(Top(t).facts, Top(t).hooks[Top(t).at].name))))
  BY ONLY RunPost(t), Zenon DEF RunPost, PostHooks, InPhase, Says, HasSaid

LEMMA StartsDoes ==
    ASSUME NEW t, BodyStarts(t)
    PROVE  /\ Top(t).phase = "pre" /\ Top(t).at > Len(Top(t).hooks)
           /\ \E g : g = [Top(t) EXCEPT !.phase = "body", !.at = 1, !.body = clocks] /\ Becomes(t, g)
  BY ONLY BodyStarts(t), Zenon DEF BodyStarts, InPhase

LEMMA DoneDoes ==
    ASSUME NEW t, BodyDone(t)
    PROVE  /\ Top(t).phase = "body"
           /\ \E g : g = [Top(t) EXCEPT !.phase = "post", !.ended = clocks] /\ Becomes(t, g)
  BY ONLY BodyDone(t), Zenon DEF BodyDone, InPhase

LEMMA HookKeeps ==
    ASSUME MetaInv, NEW t \in Contexts, RunPre(t) \/ BodyStarts(t) \/ BodyDone(t) \/ RunPost(t) PROVE MetaInv'
  <1>1. ContextsTyped /\ CallsAreTold /\ RecordsTellTheirCalls /\ now \in Nat /\ cpu \in Nat
      BY DEF MetaInv, ContextsTyped
  <1>2. /\ frames[t] # <<>> /\ UNCHANGED <<contextVars, clocks, submitted, pending, noted>>
    <2>1. CASE RunPre(t)
        BY ONLY <2>1, Zenon DEF RunPre, InPhase
    <2>2. CASE BodyStarts(t)
        BY ONLY <2>2, Zenon DEF BodyStarts, InPhase
    <2>3. CASE BodyDone(t)
        BY ONLY <2>3, Zenon DEF BodyDone, InPhase
    <2>4. CASE RunPost(t)
        BY ONLY <2>4, Zenon DEF RunPost, InPhase
    <2> QED BY <2>1, <2>2, <2>3, <2>4
  <1>3. FrameOK(Top(t), now, cpu) /\ Len(Top(t).hooks) \in Nat /\ Top(t).at \in Nat
      BY <1>1, <1>2, TopIs
  <1>4. \E g : FrameOK(g, now, cpu) /\ Becomes(t, g)
    <2>1. CASE RunPre(t)
      <3> DEFINE g == HasSaid(Top(t), Pre(Top(t).hooks[Top(t).at]))
      <3>1. Top(t).phase = "pre" /\ Top(t).at <= Len(Top(t).hooks) /\ Becomes(t, g)
          BY <2>1, PreDoes
      <3>2. FrameOK(g, now, cpu)
          BY <1>1, <1>3, <3>1, PreSays
      <3> QED BY <3>1, <3>2
    <2>2. CASE BodyStarts(t)
      <3>1. PICK g : g = [Top(t) EXCEPT !.phase = "body", !.at = 1, !.body = clocks] /\ Becomes(t, g)
          BY <2>2, StartsDoes
      <3>2. FrameOK(g, now, cpu)
          BY <1>1, <1>3, <2>2, <3>1, StartsDoes, BodyBegins
      <3> QED BY <3>1, <3>2
    <2>3. CASE BodyDone(t)
      <3>1. PICK g : g = [Top(t) EXCEPT !.phase = "post", !.ended = clocks] /\ Becomes(t, g)
          BY <2>3, DoneDoes
      <3>2. FrameOK(g, now, cpu)
          BY <1>1, <1>3, <2>3, <3>1, DoneDoes, BodyEnds
      <3> QED BY <3>1, <3>2
    <2>4. CASE RunPost(t)
      <3> DEFINE g == HasSaid(Top(t), Post(Top(t).hooks[Top(t).at],
                                           Noted(Top(t).facts, Top(t).hooks[Top(t).at].name)))
      <3>1. Top(t).phase = "post" /\ Top(t).at <= Len(Top(t).hooks) /\ Becomes(t, g)
          BY <2>4, PostDoes
      <3>2. FrameOK(g, now, cpu)
          BY <1>1, <1>3, <3>1, PostSays
      <3> QED BY <3>1, <3>2
    <2> QED BY <2>1, <2>2, <2>3, <2>4
  <1>5. CallsAreTold'
      BY <1>1, <1>2, <1>4, Became
  <1>6. ContextsTyped' /\ RecordsTellTheirCalls'
      BY <1>1, <1>2, ContextsStay, NothingNoted
  <1> QED BY <1>5, <1>6 DEF MetaInv

LEMMA RunsKeeps ==
    ASSUME MetaInv, NEW t \in Contexts, NEW burnt \in 0 .. 1, Runs(t, burnt) PROVE MetaInv'
  <1>1. ContextsTyped /\ CallsAreTold /\ RecordsTellTheirCalls /\ now \in Nat /\ cpu \in Nat
      BY DEF MetaInv, ContextsTyped
  <1>2. /\ now' = now + 1 /\ cpu' = cpu + burnt /\ now' \in Nat /\ cpu' \in Nat
        /\ now <= now' /\ cpu <= cpu'
        /\ UNCHANGED <<contextVars, submitted, pending, noted>>
      BY <1>1 DEF Runs
  <1> DEFINE s == frames[t]
             s2 == [i \in DOMAIN s |-> Ages(s[i], burnt)]
  <1>3. frames' = [frames EXCEPT ![t] = s2] /\ s # <<>> /\ Last(s).phase = "body"
      BY DEF Runs, InPhase, Top
  <1>4. s \in Seq(Range(s)) /\ Len(s) \in Nat /\ DOMAIN s = 1 .. Len(s)
      BY <1>1 DEF CallsAreTold, Calling
  <1>5. ASSUME NEW i \in 1 .. Len(s)
        PROVE  FrameOK(s2[i], now', cpu') /\ s2[i].phase = "body"
    <2>1. FrameOK(s[i], now, cpu)
        BY <1>1 DEF CallsAreTold, Calling
    <2>2. s[i].phase = "body"
      <3>1. Last(s) = s[Len(s)]
          BY DEF Last
      <3>2. i < Len(s) \/ i = Len(s)
          BY <1>4
      <3> QED BY <1>1, <1>3, <3>1, <3>2 DEF CallsAreTold, Calling
    <2>3. s2[i] = Ages(s[i], burnt)
        BY <1>4
    <2> HIDE DEF s, s2
    <2>4. FrameOK(s2[i], now + 1, cpu + burnt) /\ s2[i].phase = "body"
        BY <1>1, <2>1, <2>2, <2>3, BodyRuns
    <2> QED BY <1>2, <2>4
  <1>6. s2 \in Seq(Range(s2)) /\ Len(s2) = Len(s)
    <2>1. DOMAIN s2 = 1 .. Len(s) /\ s2 = [i \in 1 .. Len(s) |-> s2[i]]
        BY <1>4
    <2> HIDE DEF s2
    <2>2. \A i \in 1 .. Len(s) : s2[i] \in Range(s2)
        BY <2>1 DEF Range
    <2>3. s2 \in [1 .. Len(s) -> Range(s2)]
        BY <2>1, <2>2
    <2>4. s2 \in Seq(Range(s2))
        BY <1>4, <2>3, SeqDef
    <2> QED BY <1>4, <2>1, <2>4
  <1> HIDE DEF s2, s
  <1>7. Calling(s2, now', cpu')
      BY <1>4, <1>5, <1>6 DEF Calling
  <1>8. CallsAreTold'
    <2>1. DOMAIN frames' = Contexts /\ \A u \in Contexts : frames'[u] = IF u = t THEN s2 ELSE frames[u]
        BY <1>1, <1>3 DEF CallsAreTold
    <2>2. ASSUME NEW u \in Contexts PROVE Calling(frames[u], now', cpu')
      <3>1. Calling(frames[u], now, cpu)
          BY <1>1 DEF CallsAreTold
      <3> QED BY <1>1, <1>2, <3>1, CallsWait
    <2>3. \A f \in pending : FrameOK(f, now', cpu') /\ f.phase = "body"
      <3>1. \A f \in pending : FrameOK(f, now, cpu) /\ f.phase = "body"
          BY <1>1 DEF CallsAreTold
      <3> QED BY <1>1, <1>2, <3>1, TimePasses
    <2> QED BY <1>2, <1>7, <2>1, <2>2, <2>3 DEF CallsAreTold
  <1>9. ContextsTyped' /\ RecordsTellTheirCalls'
      BY <1>1, <1>2, NothingNoted DEF ContextsTyped, contextVars
  <1> QED BY <1>8, <1>9 DEF MetaInv

LEMMA EndKeeps ==
    ASSUME MetaInv, NEW t \in Contexts, BodyDefers(t) \/ Note(t) \/ NotesNothing(t) PROVE MetaInv'
  <1>1. ContextsTyped /\ CallsAreTold /\ RecordsTellTheirCalls /\ now \in Nat /\ cpu \in Nat
      BY DEF MetaInv, ContextsTyped
  <1>2. frames[t] # <<>> /\ Over(t) /\ UNCHANGED <<configured, fallback, submitted, clocks>>
      BY DEF BodyDefers, Note, NotesNothing, InPhase
  <1>3. FrameOK(Top(t), now, cpu) /\ Len(Top(t).hooks) \in Nat /\ Top(t).at \in Nat
      BY <1>1, <1>2, TopIs
  <1>4. ContextsTyped'
      BY <1>1, <1>2, OverIs DEF ContextsTyped, clocks
  <1>5. CallsAreTold'
    <2>1. \A f \in pending' : f \in pending \/ (FrameOK(f, now, cpu) /\ f.phase = "body")
        BY <1>3 DEF BodyDefers, Note, NotesNothing, InPhase
    <2> QED BY <1>1, <1>2, <2>1, OverIs, OneThread
  <1>6. RecordsTellTheirCalls'
    <2>1. CASE Note(t)
      <3>1. /\ Top(t).phase = "post" /\ Top(t).at > Len(Top(t).hooks)
            /\ noted' = [call |-> Top(t), written |-> clocks]
          BY <2>1 DEF Note, InPhase, PostHooks
      <3> QED BY <1>1, <1>3, <3>1, Recorded
    <2>2. CASE BodyDefers(t) \/ NotesNothing(t)
        BY <1>1, <2>2, NothingNoted DEF BodyDefers, NotesNothing
    <2> QED BY <2>1, <2>2
  <1> QED BY <1>4, <1>5, <1>6 DEF MetaInv

LEMMA MetaBegins == MetaInit => MetaInv
  <1> SUFFICES ASSUME MetaInit PROVE MetaInv
      OBVIOUS
  <1>1. ContextsTyped
    <2>1. <<>> \in Seq(Lists) /\ <<>> \in Seq(Seq(AllHooks))
        OBVIOUS
    <2> QED BY <2>1 DEF MetaInit, ContextsTyped, Lists
  <1>2. CallsAreTold
      BY NoCalls DEF MetaInit, CallsAreTold
  <1>3. RecordsTellTheirCalls
      BY DEF MetaInit, RecordsTellTheirCalls
  <1> QED BY <1>1, <1>2, <1>3 DEF MetaInv

LEMMA MetaInvStep == MetaInv /\ [MetaNext]_metaVars => MetaInv'
  <1> SUFFICES ASSUME MetaInv, [MetaNext]_metaVars PROVE MetaInv'
      OBVIOUS
  <1>1. CASE UNCHANGED metaVars
      BY <1>1, ContextsStay, CallsStay, NothingNoted DEF MetaInv, metaVars, contextVars, callVars, clocks
  <1>2. CASE MetaNext
    <2>1. PICK t \in Contexts :
              \/ \E new \in HookChoices : Meta(t, new) \/ Stacked(t, new)
              \/ LeaveBlock(t) \/ SubmitBound(t) \/ CallSteps(t)
              \/ \E own \in Own : CallFunction(t, own) \/ RunBound(t, own)
              \/ \E frame \in pending : Settles(t, frame)
        BY <1>2 DEF MetaNext
    <2>2. CASE \E new \in HookChoices : Meta(t, new) \/ Stacked(t, new)
        BY <2>2, MetaKeeps
    <2>3. CASE LeaveBlock(t)
        BY <2>3, LeaveBlockKeeps
    <2>4. CASE SubmitBound(t)
        BY <2>4, SubmitBoundKeeps
    <2>5. CASE CallSteps(t)
      <3>1. CASE \E burnt \in 0 .. 1 : Runs(t, burnt)
          BY <3>1, RunsKeeps
      <3>2. CASE RunPre(t) \/ BodyStarts(t) \/ BodyDone(t) \/ RunPost(t)
          BY <3>2, HookKeeps
      <3>3. CASE BodyDefers(t) \/ Note(t) \/ NotesNothing(t)
          BY <3>3, EndKeeps
      <3> QED BY <2>5, <3>1, <3>2, <3>3 DEF CallSteps
    <2>6. CASE \E own \in Own : CallFunction(t, own) \/ RunBound(t, own)
        BY <2>6, CallFunctionKeeps, RunBoundKeeps
    <2>7. CASE \E frame \in pending : Settles(t, frame)
        BY <2>7, SettlesKeeps
    <2> QED BY <2>1, <2>2, <2>3, <2>4, <2>5, <2>6, <2>7
  <1> QED BY <1>1, <1>2

\* Every record that is filed tells its own call, whatever bodies activate,
\* whichever thread files it, and however calls nest (wrapper.py 232-304,
\* metadata.py 104-176).
THEOREM RecordsTellTheirOwnCalls == MetaSpec => []RecordsTellTheirCalls
  <1>1. MetaInv => RecordsTellTheirCalls
      BY DEF MetaInv
  <1> QED BY <1>1, MetaBegins, MetaInvStep, PTL DEF MetaSpec

-----------------------------------------------------------------------------
(* The objects of NamedCaches: what is interned stays, and what is returned is *)
(* interned.                                                                  *)

HIDE HooksAreNamed

\* The two names of the default are one object, once both have one.
DefaultsAgree == "default" \in DOMAIN live => NoName \in DOMAIN live /\ live["default"] = live[NoName]

\* A load asks for each name once, for the default by no name after "default",
\* and for none that is interned, but perhaps the innermost: the object it has.
LoadFits ==
    /\ asking \in Seq(Range(asking))
    /\ asking # <<>> => asking[1] \in Names
    /\ \A i, j \in 1 .. Len(asking) : asking[i] = asking[j] => i = j
    /\ \A i \in 1 .. (Len(asking) - 1) :
         /\ asking[i] \notin DOMAIN live
         /\ asking[i] = "default" => asking[i + 1] = NoName
    /\ asking # <<>> /\ found # Nothing =>
         /\ asking[Len(asking)] \in DOMAIN live => live[asking[Len(asking)]] = found
         /\ asking[Len(asking)] = "default" => NoName \in DOMAIN live /\ live[NoName] = found

\* What was returned for a name is the object that is interned under it.
AnswersAreLive ==
    /\ DOMAIN answers = Names
    /\ \A n \in Names : answers[n] = {} \/ (n \in DOMAIN live /\ answers[n] = {live[n]})

NamesInv == DefaultsAgree /\ LoadFits /\ AnswersAreLive

-----------------------------------------------------------------------------
LEMMA NamesBegin == ConfigInit => NamesInv
  <1> SUFFICES ASSUME ConfigInit PROVE NamesInv
      OBVIOUS
  <1>1. DefaultsAgree /\ AnswersAreLive
      BY DEF ConfigInit, DefaultsAgree, AnswersAreLive
  <1>2. LoadFits
    <2>1. asking = <<>> /\ <<>> \in Seq(Range(<<>>)) /\ Len(<<>>) = 0
        BY DEF ConfigInit
    <2> QED BY <2>1 DEF LoadFits
  <1> QED BY <1>1, <1>2 DEF NamesInv

LEMMA AskKeeps == ASSUME NamesInv, NEW n \in Names, Ask(n) PROVE NamesInv'
  <1>1. asking' = <<n>> /\ found' = Nothing /\ UNCHANGED <<live, answers>>
      BY DEF Ask
  <1>2. LoadFits'
    <2>1. <<n>> \in Seq({n}) /\ Len(<<n>>) = 1 /\ <<n>>[1] = n
        OBVIOUS
    <2>2. <<n>> \in Seq(Range(<<n>>))
        BY <2>1, SeqOfRange
    <2> QED BY <1>1, <2>1, <2>2 DEF LoadFits
  <1> QED BY <1>1, <1>2 DEF NamesInv, DefaultsAgree, AnswersAreLive

\* The innermost name, and those around it.
LEMMA AskingIs ==
    ASSUME LoadFits, asking # <<>>
    PROVE  /\ Len(asking) \in Nat \ {0} /\ Wanted = asking[Len(asking)]
           /\ Wanted \in Range(asking) /\ \A i \in 1 .. Len(asking) : asking[i] \in Range(asking)
  <1>1. asking \in Seq(Range(asking))
      BY DEF LoadFits
  <1>2. Len(asking) \in Nat \ {0} /\ DOMAIN asking = 1 .. Len(asking)
      BY <1>1, EmptySeq
  <1>3. Len(asking) \in 1 .. Len(asking)
      BY <1>2
  <1>4. \A i \in 1 .. Len(asking) : asking[i] \in Range(asking)
      BY <1>2 DEF Range
  <1> QED BY <1>2, <1>3, <1>4 DEF Wanted, Last

LEMMA FindLiveKeeps == ASSUME NamesInv, FindLive PROVE NamesInv'
  <1>1. /\ found' = live[Wanted] /\ Wanted \in DOMAIN live /\ UNCHANGED <<live, answers, asking>>
        /\ asking # <<>>
      BY DEF FindLive, Looks
  <1>2. LoadFits'
    <2>1. Wanted = asking[Len(asking)]
        BY <1>1, AskingIs DEF NamesInv
    <2>2. Wanted = "default" => NoName \in DOMAIN live /\ live[NoName] = live[Wanted]
        BY <1>1 DEF NamesInv, DefaultsAgree
    <2> QED BY <1>1, <2>1, <2>2 DEF NamesInv, LoadFits
  <1> QED BY <1>1, <1>2 DEF NamesInv, DefaultsAgree, AnswersAreLive

LEMMA RecurseKeeps == ASSUME NamesInv, Recurse PROVE NamesInv'
  <1>1. /\ asking # <<>> /\ found = Nothing /\ Wanted \notin DOMAIN live
        /\ UNCHANGED <<live, answers, found>>
      BY DEF Recurse, Looks
  <1>2. PICK n \in Following(Wanted) :
            asking' = IF n \in Range(asking) THEN <<>> ELSE Append(asking, n)
      BY DEF Recurse
  <1>3. LoadFits'
    <2>1. CASE n \in Range(asking)
      <3>1. asking' = <<>> /\ <<>> \in Seq(Range(<<>>)) /\ Len(<<>>) = 0
          BY <1>2, <2>1
      <3> QED BY <3>1 DEF LoadFits
    <2>2. CASE n \notin Range(asking)
      <3> DEFINE l == Len(asking)
                 s == Append(asking, n)
      <3>1. /\ asking \in Seq(Range(asking)) /\ l \in Nat \ {0} /\ Wanted = asking[l]
            /\ \A i \in 1 .. l : asking[i] \in Range(asking)
          BY <1>1, AskingIs DEF NamesInv, LoadFits
      <3>2. /\ s \in Seq(Range(asking) \cup {n}) /\ Len(s) = l + 1 /\ s[l + 1] = n
            /\ \A i \in 1 .. l : s[i] = asking[i]
        <4>1. asking \in Seq(Range(asking) \cup {n})
            BY <3>1
        <4> QED BY <4>1, AppendProperties
      <3>3. s \in Seq(Range(s))
          BY <3>2, SeqOfRange
      <3>4. s # <<>> /\ s[1] \in Names
        <4>1. 1 \in 1 .. l
            BY <3>1
        <4> QED BY <1>1, <3>1, <3>2, <4>1 DEF NamesInv, LoadFits
      <3>5. ASSUME NEW i \in 1 .. Len(s), NEW j \in 1 .. Len(s), s[i] = s[j] PROVE i = j
        <4>1. i \in 1 .. l \/ i = l + 1
            BY <3>1, <3>2
        <4>2. j \in 1 .. l \/ j = l + 1
            BY <3>1, <3>2
        <4>3. CASE i \in 1 .. l /\ j \in 1 .. l
            BY <3>2, <3>5, <4>3 DEF NamesInv, LoadFits
        <4>4. CASE i = l + 1 /\ j \in 1 .. l
            BY <2>2, <3>1, <3>2, <3>5, <4>4
        <4>5. CASE j = l + 1 /\ i \in 1 .. l
            BY <2>2, <3>1, <3>2, <3>5, <4>5
        <4> QED BY <4>1, <4>2, <4>3, <4>4, <4>5
      <3>6. ASSUME NEW i \in 1 .. (Len(s) - 1)
            PROVE  s[i] \notin DOMAIN live /\ (s[i] = "default" => s[i + 1] = NoName)
        <4>1. i \in 1 .. l /\ (i = l \/ (i \in 1 .. (l - 1) /\ i + 1 \in 1 .. l))
            BY <3>1, <3>2
        <4>2. CASE i = l
          <5>1. Wanted = "default" => n = NoName
              BY <1>2, NoNameIsNone DEF Following
          <5> QED BY <1>1, <3>1, <3>2, <4>1, <4>2, <5>1
        <4>3. CASE i \in 1 .. (l - 1) /\ i + 1 \in 1 .. l
            BY <3>2, <4>1, <4>3 DEF NamesInv, LoadFits
        <4> QED BY <4>1, <4>2, <4>3
      <3>7. asking' = s /\ live' = live /\ found' = Nothing
          BY <1>1, <1>2, <2>2
      <3> HIDE DEF s
      <3> QED BY <3>3, <3>4, <3>5, <3>6, <3>7 DEF LoadFits
    <2> QED BY <2>1, <2>2
  <1> QED BY <1>1, <1>3 DEF NamesInv, DefaultsAgree, AnswersAreLive

LEMMA MakeKeeps == ASSUME NamesInv, Make PROVE NamesInv'
  <1>1. /\ asking # <<>> /\ Wanted \notin DOMAIN live /\ Following(Wanted) = {}
        /\ UNCHANGED <<live, answers>>
      BY DEF Make, Looks
  <1>2. Wanted # "default"
      BY <1>1, NoNameIsNone DEF Following
  <1>3. LoadFits'
    <2>1. CASE asking' = <<>>
      <3>1. <<>> \in Seq(Range(<<>>)) /\ Len(<<>>) = 0
          OBVIOUS
      <3> QED BY <2>1, <3>1 DEF LoadFits
    <2>2. CASE UNCHANGED asking
      <3>1. Wanted = asking[Len(asking)]
          BY <1>1, AskingIs DEF NamesInv
      <3> QED BY <1>1, <1>2, <2>2, <3>1 DEF NamesInv, LoadFits
    <2> QED BY <2>1, <2>2 DEF Make
  <1> QED BY <1>1, <1>3 DEF NamesInv, DefaultsAgree, AnswersAreLive

LEMMA InternKeeps == ASSUME NamesInv, Intern PROVE NamesInv'
  <1> DEFINE l == Len(asking)
             w == Wanted
  <1>1. /\ asking # <<>> /\ found # Nothing /\ asking' = Front(asking)
        /\ live' = [n \in DOMAIN live \cup {w} |-> IF n = w THEN found ELSE live[n]]
        /\ IF l = 1 THEN Returns ELSE UNCHANGED <<answers, found>>
      BY DEF Intern
  <1>2. /\ asking \in Seq(Range(asking)) /\ l \in Nat \ {0} /\ w = asking[l]
        /\ \A i \in 1 .. l : asking[i] \in Range(asking)
      BY <1>1, AskingIs DEF NamesInv, LoadFits
  <1>3. /\ w \in DOMAIN live => live[w] = found
        /\ w = "default" => NoName \in DOMAIN live /\ live[NoName] = found
      BY <1>1, <1>2 DEF NamesInv, LoadFits
  <1>4. /\ asking' \in Seq(Range(asking')) /\ Len(asking') = l - 1
        /\ \A i \in 1 .. (l - 1) : asking'[i] = asking[i]
    <2>1. /\ Len(SubSeq(asking, 1, l - 1)) = l - 1 /\ SubSeq(asking, 1, l - 1) \in Seq(Range(asking))
          /\ \A i \in 1 .. (l - 1) : SubSeq(asking, 1, l - 1)[i] = asking[i]
      <3>1. l - 1 \in Nat /\ l - 1 \in Int /\ 1 \in Int /\ \A i \in 1 .. (l - 1) : asking[i] \in Range(asking)
          BY <1>2
      <3>2. /\ SubSeq(asking, 1, l - 1) \in Seq(Range(asking))
            /\ Len(SubSeq(asking, 1, l - 1)) = IF 1 <= l - 1 THEN (l - 1) - 1 + 1 ELSE 0
            /\ \A i \in 1 .. ((l - 1) - 1 + 1) : SubSeq(asking, 1, l - 1)[i] = asking[1 + i - 1]
          BY <3>1, SubSeqProperties
      <3>3. (IF 1 <= l - 1 THEN (l - 1) - 1 + 1 ELSE 0) = l - 1
          BY <1>2
      <3>4. \A i \in 1 .. (l - 1) : i \in 1 .. ((l - 1) - 1 + 1) /\ 1 + i - 1 = i
          BY <1>2
      <3> QED BY <3>2, <3>3, <3>4
    <2>2. asking' = SubSeq(asking, 1, l - 1)
        BY <1>1 DEF Front
    <2> QED BY <2>1, <2>2, SeqOfRange
  <1> HIDE DEF l, w
  <1>5. /\ DOMAIN live' = DOMAIN live \cup {w} /\ live'[w] = found
        /\ \A n \in DOMAIN live : live'[n] = live[n]
      BY <1>1, <1>3
  <1>6. DefaultsAgree'
    <2>1. CASE w = "default"
        BY <1>3, <1>5, <2>1 DEF DefaultsAgree
    <2>2. CASE w # "default"
      <3>1. "default" \in DOMAIN live' => "default" \in DOMAIN live
          BY <1>5, <2>2
      <3> QED BY <1>5, <3>1 DEF DefaultsAgree, NamesInv
    <2> QED BY <2>1, <2>2
  <1>7. LoadFits'
    <2>1. asking' # <<>> => asking'[1] \in Names
      <3> SUFFICES ASSUME asking' # <<>> PROVE asking'[1] \in Names
          OBVIOUS
      <3>1. Len(asking') # 0
          BY <1>4, EmptySeq
      <3>2. 1 \in 1 .. (l - 1)
          BY <1>2, <1>4, <3>1
      <3> QED BY <1>1, <1>4, <3>2 DEF NamesInv, LoadFits
    <2>2. ASSUME NEW i \in 1 .. Len(asking'), NEW j \in 1 .. Len(asking'), asking'[i] = asking'[j] PROVE i = j
      <3>1. i \in 1 .. (l - 1) /\ j \in 1 .. (l - 1) /\ i \in 1 .. l /\ j \in 1 .. l
          BY <1>2, <1>4
      <3> QED BY <1>4, <2>2, <3>1 DEF NamesInv, LoadFits, l
    <2>3. ASSUME NEW i \in 1 .. (Len(asking') - 1)
          PROVE  asking'[i] \notin DOMAIN live' /\ (asking'[i] = "default" => asking'[i + 1] = NoName)
      <3>1. /\ i \in 1 .. (l - 1) /\ i + 1 \in 1 .. (l - 1) /\ i \in 1 .. l /\ l \in 1 .. l /\ i # l
          BY <1>2, <1>4
      <3>2. asking[i] \notin DOMAIN live /\ (asking[i] = "default" => asking[i + 1] = NoName) /\ asking[i] # w
          BY <1>2, <3>1 DEF NamesInv, LoadFits, l
      <3> QED BY <1>4, <1>5, <3>1, <3>2
    <2>4. ASSUME asking' # <<>>, found' # Nothing
          PROVE  /\ asking'[Len(asking')] \in DOMAIN live' => live'[asking'[Len(asking')]] = found'
                 /\ asking'[Len(asking')] = "default" => NoName \in DOMAIN live' /\ live'[NoName] = found'
      <3>1. Len(asking') # 0
          BY <1>4, <2>4, EmptySeq
      <3>2. /\ l - 1 \in 1 .. (l - 1) /\ l - 1 \in 1 .. l /\ l \in 1 .. l /\ (l - 1) + 1 = l /\ l - 1 # l /\ l # 1
          BY <1>2, <1>4, <3>1
      <3>3. found' = found
          BY <1>1, <3>2
      <3>4. asking[l - 1] \notin DOMAIN live /\ (asking[l - 1] = "default" => w = NoName) /\ asking[l - 1] # w
          BY <1>2, <3>2 DEF NamesInv, LoadFits, l
      <3> QED BY <1>4, <1>5, <3>2, <3>3, <3>4
    <2> QED BY ONLY <1>4, <2>1, <2>2, <2>3, <2>4 DEF LoadFits
  <1>8. AnswersAreLive'
    <2>1. ASSUME NEW n \in Names, answers[n] # {} PROVE n \in DOMAIN live' /\ answers[n] = {live'[n]}
        BY <1>5, <2>1 DEF NamesInv, AnswersAreLive
    <2>2. CASE l = 1
      <3>1. answers' = [answers EXCEPT ![w] = answers[w] \cup {found}]
          BY <1>1, <2>2 DEF Returns, w
      <3>2. DOMAIN answers = Names
          BY DEF NamesInv, AnswersAreLive
      <3>3. ASSUME NEW n \in Names
            PROVE  answers'[n] = {} \/ (n \in DOMAIN live' /\ answers'[n] = {live'[n]})
        <4>1. CASE n = w
          <5>1. answers'[n] = answers[w] \cup {found} /\ w \in DOMAIN live' /\ live'[w] = found
              BY <1>5, <3>1, <3>2, <4>1
          <5>2. answers[w] = {} \/ answers[w] = {found}
              BY <2>1, <4>1, <5>1
          <5> QED BY <4>1, <5>1, <5>2
        <4>2. CASE n # w
            BY <2>1, <3>1, <3>2, <4>2
        <4> QED BY <4>1, <4>2
      <3> QED BY <3>1, <3>2, <3>3 DEF AnswersAreLive
    <2>3. CASE l # 1
        BY <1>1, <2>1, <2>3 DEF NamesInv, AnswersAreLive
    <2> QED BY <2>2, <2>3
  <1> QED BY <1>6, <1>7, <1>8 DEF NamesInv

\* Files, directory and keys are not in the invariant: they may change at any time.
LEMMA NamesStep == NamesInv /\ [ConfigNext]_configVars => NamesInv'
  <1> SUFFICES ASSUME NamesInv, [ConfigNext]_configVars PROVE NamesInv'
      OBVIOUS
  <1>1. CASE UNCHANGED <<live, asking, found, answers>>
      BY <1>1 DEF NamesInv, DefaultsAgree, LoadFits, AnswersAreLive
  <1>2. CASE UNCHANGED configVars
      BY <1>1, <1>2 DEF configVars, loadVars
  <1>3. CASE \E n \in Names : Ask(n)
      BY <1>3, AskKeeps
  <1>4. CASE FindLive \/ Recurse \/ Make \/ Intern
      BY <1>4, FindLiveKeeps, RecurseKeeps, MakeKeeps, InternKeeps
  <1>5. CASE \E v \in Given : BuildOwn(v)
      BY <1>1, <1>5 DEF BuildOwn
  <1>6. CASE \/ \E d \in Places : Chdir(d)
             \/ \E layout \in Layouts : Edit(layout)
             \/ \E keys \in KeysSet : SetKeys(keys)
             \/ Isolate \/ EndIsolated
      BY <1>1, <1>6 DEF Chdir, Edit, SetKeys, Isolate, EndIsolated, loadVars
  <1> QED BY <1>2, <1>3, <1>4, <1>5, <1>6 DEF ConfigNext

LEMMA OneObject == NamesInv => NamesStayOne
  <1> SUFFICES ASSUME NamesInv PROVE NamesStayOne
      OBVIOUS
  <1>1. Cardinality({}) <= 1 /\ \A x : Cardinality({x}) <= 1
    <2>1. Cardinality({}) = 0
        BY FS_EmptySet
    <2>2. ASSUME NEW x PROVE Cardinality({x}) = 1
      <3>1. IsFiniteSet({x})
          BY FS_Singleton
      <3> QED BY <3>1, FS_Singleton
    <2> QED BY <2>1, <2>2
  <1>2. ASSUME NEW n \in Names PROVE answers[n] = {} \/ (n \in DOMAIN live /\ answers[n] = {live[n]})
      BY DEF NamesInv, AnswersAreLive
  <1>3. ASSUME NEW n \in Names, NEW m \in Names, n = m \/ {n, m} \subseteq {NoName, "default"}
        PROVE  Cardinality(answers[n] \cup answers[m]) <= 1
    <2>1. answers[n] = {} \/ answers[m] = {} \/ live[n] = live[m]
        BY <1>2, <1>3 DEF NamesInv, DefaultsAgree
    <2>2. answers[n] \cup answers[m] = {} \/ \E x : answers[n] \cup answers[m] = {x}
        BY <1>2, <2>1
    <2> QED BY ONLY <1>1, <2>2
  <1>4. ASSUME NEW n \in Names PROVE Cardinality(answers[n]) <= 1
    <2>1. answers[n] = {} \/ \E x : answers[n] = {x}
        BY <1>2
    <2> QED BY ONLY <1>1, <2>1
  <1> QED BY <1>3, <1>4 DEF NamesStayOne

\* A name is one object for the life of the process, and the two names of the
\* default are one (config.py 745-812), whatever files, directory and keys do.
THEOREM NamesAreInterned == ConfigSpec => []NamesStayOne
  BY NamesBegin, NamesStep, OneObject, PTL DEF ConfigSpec
=============================================================================
