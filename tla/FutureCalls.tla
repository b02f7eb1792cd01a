----------------------------- MODULE FutureCalls -----------------------------
(***************************************************************************)
(* A fleche function whose body returns a Future (wrapper.py 218-306).     *)
(* The wrapper hands the future to the caller; the record is written by a  *)
(* done-callback, which runs some time after the future has settled.       *)
(* _in_flight has the future while its callback runs, so that a call made  *)
(* then takes the result from there.                                       *)
(*                                                                         *)
(* All calls are for one key.  A caller calls once; the future its body    *)
(* creates goes by the caller's name.  The cache write itself, one save    *)
(* under the key's lock, is one step; CallLifecycle has what is in it.     *)
(***************************************************************************)

CONSTANTS
    Callers,
    Earlier,    \* stands for the call whose record is there at the start
    NoFuture

ASSUME CallersAreApart == {Earlier, NoFuture} \cap Callers = {} /\ Earlier # NoFuture

VARIABLES
    pc,
    rerun,      \* whether a caller runs under a RefreshingCache
    future,     \* [Callers -> the state of the future the body returned]
    callback,   \* [Callers -> the state of _cache for that future]
    prepared,   \* [Callers -> the state of the PreparedCall]
    _in_flight, \* the future filed under the key, or NoFuture
    record,     \* the future whose result the cache holds, or NoFuture
    answer      \* the future whose outcome a caller was given, or NoFuture

futuresVars == <<pc, rerun, future, callback, prepared, _in_flight, record, answer>>

\* A future settles with a value, with None, or with an exception (its own,
\* or that of being cancelled).
Settled == {"value", "none", "failed"}

FuturesInit ==
    /\ pc = [c \in Callers |-> "idle"]
    /\ rerun = [c \in Callers |-> FALSE]
    /\ future = [c \in Callers |-> "absent"]
    /\ callback = [c \in Callers |-> "absent"]
    /\ prepared = [c \in Callers |-> "absent"]
    /\ _in_flight = NoFuture
    /\ record \in {Earlier, NoFuture}
    /\ answer = [c \in Callers |-> NoFuture]

CallerGoes(c, step) == pc' = [pc EXCEPT ![c] = step]

-----------------------------------------------------------------------------
(* wrapper() in the caller's thread *)

Call(c) ==
    /\ pc[c] = "idle"
    /\ \E r \in BOOLEAN : rerun' = [rerun EXCEPT ![c] = r]
    /\ CallerGoes(c, "load")
    /\ UNCHANGED <<future, callback, prepared, _in_flight, record, answer>>

\* cache.load(key).result
Hit(c) ==
    /\ pc[c] = "load" /\ ~rerun[c] /\ record # NoFuture
    /\ answer' = [answer EXCEPT ![c] = record]
    /\ CallerGoes(c, "done")
    /\ UNCHANGED <<rerun, future, callback, prepared, _in_flight, record>>

Miss(c) ==
    /\ pc[c] = "load" /\ (rerun[c] \/ record = NoFuture)
    /\ CallerGoes(c, "check")
    /\ UNCHANGED <<rerun, future, callback, prepared, _in_flight, record, answer>>

\* if (f := _in_flight.get(key)) is not None: return f.result(), which blocks
\* until f has settled.
TakeInFlight(c) ==
    /\ pc[c] = "check"
    /\ _in_flight # NoFuture /\ future[_in_flight] \in Settled
    /\ answer' = [answer EXCEPT ![c] = _in_flight]
    /\ CallerGoes(c, "done")
    /\ UNCHANGED <<rerun, future, callback, prepared, _in_flight, record>>

NotInFlight(c) ==
    /\ pc[c] = "check" /\ _in_flight = NoFuture
    /\ CallerGoes(c, "body")
    /\ UNCHANGED <<rerun, future, callback, prepared, _in_flight, record, answer>>

\* A defect: the future is filed in _in_flight when it is created.
BodyFilesFuture(c) ==
    /\ pc[c] = "body"
    /\ prepared' = [prepared EXCEPT ![c] = "open"]
    /\ future' = [future EXCEPT ![c] = "pending"]
    /\ callback' = [callback EXCEPT ![c] = "added"]
    /\ _in_flight' = c
    /\ CallerGoes(c, "done")
    /\ UNCHANGED <<rerun, record, answer>>

\* cache.prepare, the body, add_done_callback; the caller gets the future.
Body(c) ==
    /\ pc[c] = "body"
    /\ prepared' = [prepared EXCEPT ![c] = "open"]
    /\ future' = [future EXCEPT ![c] = "pending"]
    /\ callback' = [callback EXCEPT ![c] = "added"]
    /\ CallerGoes(c, "done")
    /\ UNCHANGED <<rerun, _in_flight, record, answer>>

\* The body raises: abandon() and re-raise; there is no future.
FunctionRaises(c) ==
    /\ pc[c] = "body"
    /\ prepared' = [prepared EXCEPT ![c] = "abandoned"]
    /\ CallerGoes(c, "done")
    /\ UNCHANGED <<rerun, future, callback, _in_flight, record, answer>>

-----------------------------------------------------------------------------
(* The worker's thread: set_result, then the callback *)

\* Future.set_result and its like: whoever waits in result() goes on.
Settle(c) ==
    /\ future[c] = "pending"
    /\ \E s \in Settled : future' = [future EXCEPT ![c] = s]
    /\ UNCHANGED <<pc, rerun, callback, prepared, _in_flight, record, answer>>

CallbackStarts(c) ==
    /\ callback[c] = "added" /\ future[c] \in Settled
    /\ _in_flight' = c
    /\ callback' = [callback EXCEPT ![c] = "entered"]
    /\ UNCHANGED <<pc, rerun, future, prepared, record, answer>>

\* prepared.commit
CallbackCommits(c) ==
    /\ callback[c] = "entered" /\ future[c] = "value"
    /\ prepared' = [prepared EXCEPT ![c] = "committed"]
    /\ record' = c
    /\ callback' = [callback EXCEPT ![c] = "leaving"]
    /\ UNCHANGED <<pc, rerun, future, _in_flight, answer>>

\* m.post raises before commit is reached.
CallbackRaises(c) ==
    /\ callback[c] = "entered" /\ future[c] = "value"
    /\ callback' = [callback EXCEPT ![c] = "leaving"]
    /\ UNCHANGED <<pc, rerun, future, prepared, _in_flight, record, answer>>

\* commit, whose save the cache rejects.
CallbackRejected(c) ==
    /\ callback[c] = "entered" /\ future[c] = "value"
    /\ prepared' = [prepared EXCEPT ![c] = "committed"]
    /\ callback' = [callback EXCEPT ![c] = "leaving"]
    /\ UNCHANGED <<pc, rerun, future, _in_flight, record, answer>>

\* A defect: the early return for None leaves the prepared call open.
CallbackSkipsNone(c) ==
    /\ callback[c] = "entered" /\ future[c] = "none"
    /\ record' = IF rerun[c] THEN NoFuture ELSE record
    /\ callback' = [callback EXCEPT ![c] = "leaving"]
    /\ UNCHANGED <<pc, rerun, future, prepared, _in_flight, answer>>

\* None is not cached; a rerun evicts the old record.
CallbackAbandonsNone(c) ==
    /\ callback[c] = "entered" /\ future[c] = "none"
    /\ prepared' = [prepared EXCEPT ![c] = "abandoned"]
    /\ record' = IF rerun[c] THEN NoFuture ELSE record
    /\ callback' = [callback EXCEPT ![c] = "leaving"]
    /\ UNCHANGED <<pc, rerun, future, _in_flight, answer>>

\* A defect: the exception is not told apart from a result.
CallbackCommitsFailure(c) ==
    /\ callback[c] = "entered" /\ future[c] = "failed"
    /\ prepared' = [prepared EXCEPT ![c] = "committed"]
    /\ record' = c
    /\ callback' = [callback EXCEPT ![c] = "leaving"]
    /\ UNCHANGED <<pc, rerun, future, _in_flight, answer>>

\* future.result() raises in the callback.
CallbackAbandonsFailure(c) ==
    /\ callback[c] = "entered" /\ future[c] = "failed"
    /\ prepared' = [prepared EXCEPT ![c] = "abandoned"]
    /\ callback' = [callback EXCEPT ![c] = "leaving"]
    /\ UNCHANGED <<pc, rerun, future, _in_flight, record, answer>>

\* finally: the entry goes, whichever future put it there.
CallbackEnds(c) ==
    /\ callback[c] = "leaving"
    /\ _in_flight' = NoFuture
    /\ callback' = [callback EXCEPT ![c] = "absent"]
    /\ UNCHANGED <<pc, rerun, future, prepared, record, answer>>

CallerStep(c) ==
    \/ Hit(c) \/ Miss(c) \/ TakeInFlight(c) \/ NotInFlight(c)
    \/ Body(c) \/ FunctionRaises(c)

Callback(c) ==
    \/ CallbackStarts(c) \/ CallbackCommits(c) \/ CallbackRejected(c) \/ CallbackRaises(c)
    \/ CallbackAbandonsNone(c) \/ CallbackAbandonsFailure(c) \/ CallbackEnds(c)

FuturesNext ==
    \E c \in Callers : Call(c) \/ CallerStep(c) \/ Settle(c) \/ Callback(c)

FuturesSpec == FuturesInit /\ [][FuturesNext]_futuresVars

\* Callers and callbacks run; whether a future ever settles is up to its
\* executor and not assumed.
FairSpec ==
    FuturesSpec /\ \A c \in Callers : WF_futuresVars(CallerStep(c)) /\ WF_futuresVars(Callback(c))

-----------------------------------------------------------------------------

FuturesTypeOK ==
    /\ pc \in [Callers -> {"idle", "load", "check", "body", "done"}]
    /\ rerun \in [Callers -> BOOLEAN]
    /\ future \in [Callers -> {"absent", "pending"} \cup Settled]
    /\ callback \in [Callers -> {"absent", "added", "entered", "leaving"}]
    /\ prepared \in [Callers -> {"absent", "open", "committed", "abandoned"}]
    /\ _in_flight \in Callers \cup {NoFuture}
    /\ record \in Callers \cup {Earlier, NoFuture}
    /\ answer \in [Callers -> Callers \cup {Earlier, NoFuture}]
    /\ \A c \in Callers :
        /\ callback[c] # "absent" => future[c] # "absent"
        /\ callback[c] \in {"added", "entered"} => prepared[c] = "open"

\* "The future is already resolved -- .result() returns immediately": a call
\* that finds an entry never waits for an unsettled future (wrapper.py
\* 225-228), so one caller's slow future never blocks another caller.
InFlightIsSettled == _in_flight # NoFuture => future[_in_flight] \in Settled

\* What is filed is the value of a future that has one; a failed, cancelled
\* or None-valued future leaves no record (call_lifecycle.rst 79-82).
OnlyValuesAreFiled ==
    [][record' # record /\ record' # NoFuture => future[record'] = "value"]_futuresVars

\* A prepared call whose future has no value is abandoned in the end
\* (BaseCache.prepare: "exactly one of commit or abandon").  One whose post
\* hook raises is neither committed nor abandoned.
FailuresAreAbandoned ==
    \A c \in Callers :
        prepared[c] = "open" /\ future[c] \in {"none", "failed"}
            ~> prepared[c] = "abandoned"

\* The entry goes when its callback is over, on every path: no result is
\* served from _in_flight for ever.
InFlightClears == _in_flight # NoFuture ~> _in_flight = NoFuture

\* No future leaves anything open behind it.
FuturesFinish == InFlightClears /\ FailuresAreAbandoned
=============================================================================
