------------------------------- MODULE Remote -------------------------------
(***************************************************************************)
(* SshCache (remote.py): threads of one client share one connection to a   *)
(* server process on another machine.  A request and its answer are        *)
(* frames on two pipes; _Connection.call holds a lock from the one to the  *)
(* other.  The server process can die at any moment; the storage it serves *)
(* outlives it.  The client keeps what the server said of itself in        *)
(* _info_cache, outside that lock, and rejects writes to a read-only       *)
(* server by it.                                                           *)
(*                                                                         *)
(* "run" is the use wrapper.py makes of the cache: prepare, then commit,   *)
(* whose save is one trip for the result and one for the record.           *)
(***************************************************************************)
EXTENDS Naturals, Sequences

CONSTANTS
    Threads,
    Keys,
    Setups,       \* what is run, see Setup
    MaxSessions,  \* bound: server processes that can be launched
    None

AllOps == {"run", "load", "evict", "info", "reconnect", "close"}

\* The operations that the threads call, the read_only flags that a server
\* process may come up with, and a bound on the frames that interrupted
\* callers leave in the pipes.
Setup == [ops : SUBSET AllOps, read_only : SUBSET BOOLEAN, strays : Nat]

ASSUME SetupsAreKnown == \A s \in Setups : s \in Setup
ASSUME MaxSessionsIsNat == MaxSessions \in Nat
ASSUME NoneIsNothing == None \notin Threads \cup Keys

VARIABLES
    _lock,        \* the thread in _Connection.call or reconnect, or None
    _opened,
    session,      \* how many server processes were launched
    server,       \* the latest: [alive, read_only]
    stdin,        \* frames on their way to it
    stdout,       \* frames on their way back
    values,       \* on the remote: the calls whose result is stored
    records,      \* on the remote: the calls that are filed
    _info_cache,  \* None, or the [session, read_only] that was reported
    pc,
    op,
    key,
    rpc,          \* the method that is called next, or "admit"
    wire,         \* the method of the frame that is sent
    got,          \* the answer a thread was given
    setup         \* what is run here

connection == <<_lock, _opened, session, server, stdin, stdout>>
store == <<values, records>>
vars == <<connection, store, _info_cache, pc, op, key, rpc, wire, got, setup>>

Init ==
    /\ _lock = None
    /\ _opened = FALSE
    /\ session = 0
    /\ server = [alive |-> FALSE, read_only |-> FALSE]
    /\ stdin = <<>> /\ stdout = <<>>
    /\ values = {} /\ records = {}
    /\ _info_cache = None
    /\ pc = [t \in Threads |-> "idle"]
    /\ op = [t \in Threads |-> None]
    /\ key = [t \in Threads |-> None]
    /\ rpc = [t \in Threads |-> None]
    /\ wire = [t \in Threads |-> None]
    /\ got = [t \in Threads |-> None]
    /\ setup \in Setups

Goto(t, step) == pc' = [pc EXCEPT ![t] = step]

\* Methods that a read-only server's client rejects by itself.
Writes == {"save_value", "save", "evict"}

\* Whether the client takes the server to be read-only.
KnownReadOnly == _info_cache # None /\ _info_cache.read_only

RejectsHere(t) == KnownReadOnly /\ rpc[t] \in Writes

Return(t) ==
    /\ Goto(t, "idle")
    /\ op' = [op EXCEPT ![t] = None]
    /\ key' = [key EXCEPT ![t] = None]
    /\ rpc' = [rpc EXCEPT ![t] = None]
    /\ wire' = [wire EXCEPT ![t] = None]
    /\ got' = [got EXCEPT ![t] = None]

-----------------------------------------------------------------------------
(* SshCache: the caller, outside the connection's lock *)

FirstRpc(o) == IF o = "run" THEN "admit" ELSE o

Begin(t) ==
    /\ pc[t] = "idle"
    /\ \E o \in setup.ops \cap {"run", "load", "evict"}, k \in Keys :
        /\ op' = [op EXCEPT ![t] = o]
        /\ key' = [key EXCEPT ![t] = k]
        /\ rpc' = [rpc EXCEPT ![t] = FirstRpc(o)]
    /\ Goto(t, "handshake")
    /\ UNCHANGED <<connection, store, _info_cache, wire, got>>

\* info() always asks, whatever is cached.
BeginInfo(t) ==
    /\ pc[t] = "idle" /\ "info" \in setup.ops
    /\ op' = [op EXCEPT ![t] = "info"]
    /\ \E k \in Keys : key' = [key EXCEPT ![t] = k]
    /\ wire' = [wire EXCEPT ![t] = "info"]
    /\ Goto(t, "lock")
    /\ UNCHANGED <<connection, store, _info_cache, rpc, got>>

\* reconnect() forgets the cached info, then closes; close() only closes.
BeginClose(t) ==
    /\ pc[t] = "idle"
    /\ \E o \in setup.ops \cap {"reconnect", "close"} :
        /\ op' = [op EXCEPT ![t] = o]
        /\ _info_cache' = IF o = "reconnect" THEN None ELSE _info_cache
    /\ Goto(t, "lock")
    /\ UNCHANGED <<connection, store, key, rpc, wire, got>>

\* _ensure_handshake
Handshake(t) ==
    /\ pc[t] = "handshake"
    /\ IF _info_cache = None
       THEN wire' = [wire EXCEPT ![t] = "info"] /\ Goto(t, "lock")
       ELSE UNCHANGED wire /\ Goto(t, "gate")
    /\ UNCHANGED <<connection, store, _info_cache, op, key, rpc, got>>

\* A write is rejected without a trip.
RejectedHere(t) ==
    /\ pc[t] = "gate" /\ RejectsHere(t)
    /\ Return(t)
    /\ UNCHANGED <<connection, store, _info_cache>>

\* prepare: a read-only remote's call is sealed here; then its commit.
\* Otherwise prepare is sent like any other method.
Admit(t) ==
    /\ pc[t] = "gate" /\ rpc[t] = "admit"
    /\ rpc' = [rpc EXCEPT ![t] = IF KnownReadOnly THEN "save_value" ELSE "prepare"]
    /\ Goto(t, "handshake")
    /\ UNCHANGED <<connection, store, _info_cache, op, key, wire, got>>

PassesGate(t) ==
    /\ pc[t] = "gate" /\ rpc[t] # "admit" /\ ~RejectsHere(t)
    /\ wire' = [wire EXCEPT ![t] = rpc[t]]
    /\ Goto(t, "lock")
    /\ UNCHANGED <<connection, store, _info_cache, op, key, rpc, got>>

\* The answer to "info" is cached, long after the lock was left.
TakeInfo(t) ==
    /\ pc[t] = "got" /\ wire[t] = "info" /\ got[t].method = "info"
    /\ _info_cache' = [session |-> got[t].session, read_only |-> got[t].read_only]
    /\ IF op[t] = "info"
       THEN Return(t)
       ELSE /\ Goto(t, "gate")
            /\ got' = [got EXCEPT ![t] = None]
            /\ UNCHANGED <<op, key, rpc, wire>>
    /\ UNCHANGED <<connection, store>>

\* An answer that an interrupted caller left behind.  As info it is cached for
\* what it is, and then fails; session 0 stands for it.  Otherwise it is what
\* the operation returns; a run that goes on with it is not followed here.
TakeWrongAnswer(t) ==
    /\ pc[t] = "got" /\ got[t].method # wire[t]
    /\ _info_cache' =
          IF wire[t] # "info" \/ got[t].tag = "err" THEN _info_cache
          ELSE IF got[t].method = "evict" THEN None
          ELSE [session |-> 0, read_only |-> FALSE]
    /\ Return(t)
    /\ UNCHANGED <<connection, store>>

\* The cached answer is no dict: AttributeError, unless it is falsy.
InfoIsNoInfo(t) ==
    /\ pc[t] = "gate" /\ rpc[t] \in Writes \cup {"admit"}
    /\ _info_cache # None /\ _info_cache.session = 0
    /\ Return(t)
    /\ UNCHANGED <<connection, store, _info_cache>>

NextRpc(m) == IF m = "prepare" THEN "save_value" ELSE "save"

\* A defect: the record is filed first, its result stored after it.
TakeAnswerRecordFirst(t) ==
    /\ pc[t] = "got" /\ wire[t] # "info" /\ got[t].method = wire[t]
    /\ IF got[t].tag = "ok" /\ rpc[t] \in {"prepare", "save"}
       THEN /\ rpc' = [rpc EXCEPT ![t] = IF @ = "prepare" THEN "save" ELSE "save_value"]
            /\ Goto(t, "handshake")
            /\ got' = [got EXCEPT ![t] = None]
            /\ UNCHANGED <<op, key, wire>>
       ELSE Return(t)
    /\ UNCHANGED <<connection, store, _info_cache>>

\* Any other answer: a run goes on to its next trip, an error is raised.
TakeAnswer(t) ==
    /\ pc[t] = "got" /\ wire[t] # "info" /\ got[t].method = wire[t]
    /\ IF got[t].tag = "ok" /\ rpc[t] \in {"prepare", "save_value"}
       THEN /\ rpc' = [rpc EXCEPT ![t] = NextRpc(@)]
            /\ Goto(t, "handshake")
            /\ got' = [got EXCEPT ![t] = None]
            /\ UNCHANGED <<op, key, wire>>
       ELSE Return(t)
    /\ UNCHANGED <<connection, store, _info_cache>>

-----------------------------------------------------------------------------
(* _Connection: under the lock *)

TakeLock(t) ==
    /\ pc[t] = "lock" /\ _lock = None
    /\ _lock' = t
    /\ Goto(t, IF op[t] \in {"reconnect", "close"} THEN "close" ELSE "send")
    /\ UNCHANGED <<_opened, session, server, stdin, stdout>>
    /\ UNCHANGED <<store, _info_cache, op, key, rpc, wire, got>>

\* The server process ends; what is left in its pipes is never read.
Closed ==
    /\ _opened' = FALSE
    /\ server' = [server EXCEPT !.alive = FALSE]
    /\ UNCHANGED <<stdin, stdout>>

Close(t) ==
    /\ pc[t] = "close"
    /\ Closed
    /\ _lock' = None
    /\ Return(t)
    /\ UNCHANGED <<session, store, _info_cache>>

\* A defect: the new process's output pipe is not taken over.
OpenKeepsStdout(t) ==
    /\ pc[t] = "send" /\ ~_opened /\ session < MaxSessions
    /\ _opened' = TRUE
    /\ session' = session + 1
    /\ \E flag \in setup.read_only : server' = [alive |-> TRUE, read_only |-> flag]
    /\ stdin' = <<>>
    /\ UNCHANGED stdout
    /\ UNCHANGED <<_lock, store, _info_cache, pc, op, key, rpc, wire, got>>

\* _ensure_open launches a server process, with pipes of its own.
Open(t) ==
    /\ pc[t] = "send" /\ ~_opened /\ session < MaxSessions
    /\ _opened' = TRUE
    /\ session' = session + 1
    /\ \E flag \in setup.read_only : server' = [alive |-> TRUE, read_only |-> flag]
    /\ stdin' = <<>> /\ stdout' = <<>>
    /\ UNCHANGED <<_lock, store, _info_cache, pc, op, key, rpc, wire, got>>

\* It cannot be launched: RemoteConnectionError.
OpenFails(t) ==
    /\ pc[t] = "send" /\ ~_opened
    /\ _lock' = None
    /\ Return(t)
    /\ UNCHANGED <<_opened, session, server, stdin, stdout, store, _info_cache>>

\* A defect: the lock covers the sending only.
SendAndUnlock(t) ==
    /\ pc[t] = "send" /\ _opened /\ server.alive
    /\ stdin' = Append(stdin, [by |-> t, method |-> wire[t], key |-> key[t]])
    /\ _lock' = None
    /\ Goto(t, "wait")
    /\ UNCHANGED <<_opened, session, server, stdout>>
    /\ UNCHANGED <<store, _info_cache, op, key, rpc, wire, got>>

Send(t) ==
    /\ pc[t] = "send" /\ _opened /\ server.alive
    /\ stdin' = Append(stdin, [by |-> t, method |-> wire[t], key |-> key[t]])
    /\ Goto(t, "wait")
    /\ UNCHANGED <<_lock, _opened, session, server, stdout>>
    /\ UNCHANGED <<store, _info_cache, op, key, rpc, wire, got>>

Receive(t) ==
    /\ pc[t] = "wait" /\ stdout # <<>>
    /\ got' = [got EXCEPT ![t] = Head(stdout)]
    /\ stdout' = Tail(stdout)
    /\ _lock' = None
    /\ Goto(t, "got")
    /\ UNCHANGED <<_opened, session, server, stdin>>
    /\ UNCHANGED <<store, _info_cache, op, key, rpc, wire>>

\* A defect: the end of the stream is taken for a short read.
LostReadsAgain(t) ==
    /\ ~server.alive
    /\ IF pc[t] = "wait"
       THEN stdout = <<>> /\ UNCHANGED vars
       ELSE /\ pc[t] = "send" /\ _opened
            /\ Closed
            /\ _lock' = None
            /\ Return(t)
            /\ UNCHANGED <<session, store, _info_cache>>

\* A defect: the request is sent again to a new process.
LostIsRetried(t) ==
    /\ ~server.alive
    /\ \/ pc[t] = "send" /\ _opened
       \/ pc[t] = "wait" /\ stdout = <<>>
    /\ Closed
    /\ Goto(t, "send")
    /\ UNCHANGED <<_lock, session, store, _info_cache, op, key, rpc, wire, got>>

\* BrokenPipeError while sending, or EOF while waiting.
Lost(t) ==
    /\ ~server.alive
    /\ \/ pc[t] = "send" /\ _opened
       \/ pc[t] = "wait" /\ stdout = <<>>
    /\ Closed
    /\ _lock' = None
    /\ Return(t)
    /\ UNCHANGED <<session, store, _info_cache>>

\* KeyboardInterrupt is none of the errors call() handles: the lock is left,
\* the connection stays as it is.
Interrupted(t) ==
    /\ pc[t] = "wait"
    /\ setup.strays > 0 /\ Len(stdin) + Len(stdout) <= setup.strays
    /\ _lock' = None
    /\ Return(t)
    /\ UNCHANGED <<_opened, session, server, stdin, stdout, store, _info_cache>>

-----------------------------------------------------------------------------
(* serve, in the server process *)

\* What a method changes.  On a read-only server save_value stores nothing
\* and still answers with the digest.
Effect(m, k) ==
    /\ values' = IF m = "save_value" /\ ~server.read_only THEN values \cup {k} ELSE values
    /\ records' = CASE m = "save" -> records \cup {k}
                    [] m = "evict" -> records \ {k}
                    [] OTHER -> records

Answered(tag) ==
    stdout' = Append(stdout, [by |-> Head(stdin).by, method |-> Head(stdin).method,
                              tag |-> tag, session |-> session,
                              read_only |-> server.read_only])

Serve ==
    /\ server.alive /\ stdin # <<>>
    /\ ~(server.read_only /\ Head(stdin).method \in {"save", "evict"})
    /\ Effect(Head(stdin).method, Head(stdin).key)
    /\ Answered("ok")
    /\ stdin' = Tail(stdin)
    /\ UNCHANGED <<_lock, _opened, session, server>>
    /\ UNCHANGED <<_info_cache, pc, op, key, rpc, wire, got>>

\* The cache raises: KeyError, Rejected, a storage error.
ServeRaises ==
    /\ server.alive /\ stdin # <<>>
    /\ Head(stdin).method # "info"
    /\ Answered("err")
    /\ stdin' = Tail(stdin)
    /\ UNCHANGED <<_lock, _opened, session, server>>
    /\ UNCHANGED <<store, _info_cache, pc, op, key, rpc, wire, got>>

\* The process or the network fails; an answer on its way may get through.
ServerDies ==
    /\ server.alive
    /\ server' = [server EXCEPT !.alive = FALSE]
    /\ stdin' = <<>>
    /\ stdout' \in {stdout, <<>>}
    /\ UNCHANGED <<_lock, _opened, session>>
    /\ UNCHANGED <<store, _info_cache, pc, op, key, rpc, wire, got>>

Step(t) ==
    \/ Handshake(t) \/ RejectedHere(t) \/ Admit(t) \/ PassesGate(t)
    \/ TakeInfo(t) \/ TakeAnswer(t) \/ TakeWrongAnswer(t) \/ InfoIsNoInfo(t)
    \/ TakeLock(t) \/ Close(t) \/ Open(t) \/ OpenFails(t)
    \/ Send(t) \/ Receive(t) \/ Lost(t)

Next ==
    /\ \/ \E t \in Threads : Begin(t) \/ BeginInfo(t) \/ BeginClose(t)
       \/ \E t \in Threads : Step(t) \/ Interrupted(t)
       \/ Serve \/ ServeRaises \/ ServerDies
    /\ UNCHANGED setup

Spec == Init /\ [][Next]_vars

\* The client's threads are scheduled, and the server answers or dies.
\* Nothing is assumed of who gets a contended lock.
FairSpec ==
    /\ Spec
    /\ \A t \in Threads : WF_vars(Step(t) /\ UNCHANGED setup)
    /\ WF_vars((Serve \/ ServeRaises) /\ UNCHANGED setup)

-----------------------------------------------------------------------------

Methods == {"info", "prepare", "save_value", "save", "load", "evict"}
Requests == [by : Threads, method : Methods, key : Keys]
Answers == [by : Threads, method : Methods, tag : {"ok", "err"},
            session : 1..MaxSessions, read_only : BOOLEAN]

\* The lock is owned exactly inside call, reconnect and close; the channel
\* carries one request or one answer at a time, and what was left behind by
\* callers that were interrupted.
TypeOK ==
    /\ _lock \in Threads \cup {None}
    /\ _opened \in BOOLEAN
    /\ session \in 0..MaxSessions
    /\ server \in [alive : BOOLEAN, read_only : BOOLEAN]
    /\ stdin \in Seq(Requests) /\ stdout \in Seq(Answers)
    /\ values \subseteq Keys /\ records \subseteq Keys
    /\ _info_cache \in [session : 0..MaxSessions, read_only : BOOLEAN] \cup {None}
    /\ pc \in [Threads -> {"idle", "handshake", "gate", "lock", "send", "wait", "got", "close"}]
    /\ op \in [Threads -> AllOps \cup {None}]
    /\ key \in [Threads -> Keys \cup {None}]
    /\ rpc \in [Threads -> Methods \cup {"admit", None}]
    /\ wire \in [Threads -> Methods \cup {None}]
    /\ got \in [Threads -> Answers \cup {None}]
    /\ \A t \in Threads : _lock = t <=> pc[t] \in {"send", "wait", "close"}
    /\ Len(stdin) + Len(stdout) <= setup.strays + 1
    /\ setup \in Setups

\* Where no caller is interrupted, each is given the answer to its own
\* request, although frames carry no number to tell them apart (remote.py
\* 456-489).
AnswerMatchesRequest ==
    setup.strays = 0 => \A t \in Threads : got[t] # None => got[t].by = t /\ got[t].method = wire[t]

\* Frames that an interrupted caller left behind go with their process: after
\* reconnect() requests and answers match again.
AnswersAreFromThisProcess ==
    [][\A t \in Threads : Receive(t) => Head(stdout).session = session]_vars

\* The record of a commit is filed only when its result is stored: a
\* connection lost between the two trips leaves an orphan value, never a
\* record without its result (remote.py 843-856, _save_value).
RecordsHaveValues == records \subseteq values

\* Whoever holds the connection leaves it again, whatever becomes of the
\* server, so no later call waits for ever.
ConnectionIsLeft == _lock # None ~> _lock = None

\* Where a thread's request is.
StateOf(t) ==
    CASE pc[t] = "send" -> "calling"
      [] pc[t] \notin {"send", "wait"} -> "none"
      [] pc[t] = "wait" /\ stdin # <<>> -> "asked"
      [] pc[t] = "wait" /\ stdin = <<>> /\ stdout # <<>> -> "served"
      [] OTHER -> "lost"

NoRequest == [method |-> "none", key |-> "none"]

RequestOf(t) ==
    IF pc[t] = "wait" THEN [method |-> wire[t], key |-> key[t]] ELSE NoRequest

\* A remote call takes effect at most once and never after its caller has
\* been told that the connection was lost: RemoteCall.  Nothing of the kind
\* is promised where callers are interrupted, so nothing is shown of those.
Promised == setup.strays = 0

Abstract == INSTANCE RemoteCall WITH
    values <- IF Promised THEN values ELSE {},
    records <- IF Promised THEN records ELSE {},
    state <- [t \in Threads |-> IF Promised THEN StateOf(t) ELSE "none"],
    request <- [t \in Threads |-> IF Promised THEN RequestOf(t) ELSE NoRequest]

ImplementsRemoteCall == Abstract!Spec
=============================================================================
