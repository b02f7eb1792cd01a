---------------------------- MODULE RemoteProofs ----------------------------
(***************************************************************************)
(* What holds of Remote for any threads, keys, set-ups and number of       *)
(* server processes.                                                       *)
(***************************************************************************)
EXTENDS Remote, TLAPS

\* The type invariant in parts.
PipesType == stdin \in Seq(Requests) /\ stdout \in Seq(Answers)
ServerType ==
    /\ server \in [alive : BOOLEAN, read_only : BOOLEAN]
    /\ session \in 0..MaxSessions
    /\ _opened \in BOOLEAN
InfoType == _info_cache \in [session : 0..MaxSessions, read_only : BOOLEAN] \cup {None}
StoreType == values \subseteq Keys /\ records \subseteq Keys
LockType ==
    /\ _lock \in Threads \cup {None}
    /\ pc \in [Threads -> {"idle", "handshake", "gate", "lock", "send", "wait", "got", "close"}]
    /\ \A t \in Threads : _lock = t <=> pc[t] \in {"send", "wait", "close"}
    /\ Len(stdin) + Len(stdout) <= setup.strays + 1
    /\ setup \in Setups
CallerType ==
    /\ op \in [Threads -> AllOps \cup {None}]
    /\ key \in [Threads -> Keys \cup {None}]
    /\ rpc \in [Threads -> Methods \cup {"admit", None}]
    /\ wire \in [Threads -> Methods \cup {None}]
    /\ got \in [Threads -> Answers \cup {None}]

\* Nothing of TypeOK is left out.
LEMMA TypeInParts ==
    /\ TypeOK <=> PipesType /\ ServerType /\ InfoType /\ StoreType /\ LockType /\ CallerType
    /\ TypeOK' <=> (PipesType /\ ServerType /\ InfoType /\ StoreType /\ LockType /\ CallerType)'
  BY DEF TypeOK, PipesType, ServerType, InfoType, StoreType, LockType, CallerType

\* What a thread is about to ask is a method on a key.
RequestsAreReady ==
    \A t \in Threads :
        /\ pc[t] \in {"handshake", "gate"} => rpc[t] \in Methods \cup {"admit"} /\ key[t] \in Keys
        /\ pc[t] \in {"send", "wait", "got"} => op[t] \notin {"reconnect", "close"}
        /\ pc[t] \in {"lock", "send", "wait", "got"} /\ op[t] \notin {"reconnect", "close"} =>
             wire[t] \in Methods /\ key[t] \in Keys
        /\ pc[t] \in {"lock", "send", "wait", "got"}
             /\ op[t] \notin {"info", "reconnect", "close"} =>
             rpc[t] \in Methods \cup {"admit"}

\* While nobody waits for an answer, the pipes hold only what callers that were
\* interrupted left there.
PipesAreQuiet ==
    (\A t \in Threads : pc[t] # "wait") => Len(stdin) + Len(stdout) <= setup.strays

\* A process runs in a session; what is sent to one that dies is lost with it.
ServerIsCurrent ==
    /\ server.alive => session # 0
    /\ \A t \in Threads : pc[t] = "wait" /\ ~server.alive => stdin = <<>>

\* An answer comes from the process that is connected, or was last.
AnswersAreRecent == \A i \in 1..Len(stdout) : stdout[i].session = session

\* Where no caller is interrupted: a thread that waits finds its own request in
\* one pipe, or the answer to it in the other, or the process is gone.
RequestIsOut ==
    setup.strays = 0 =>
        \A t \in Threads : pc[t] = "wait" =>
            \/ stdout = <<>> /\ stdin = <<[by |-> t, method |-> wire[t], key |-> key[t]]>>
            \/ stdin = <<>> /\ Len(stdout) = 1 /\ stdout[1].by = t /\ stdout[1].method = wire[t]
            \/ stdin = <<>> /\ stdout = <<>> /\ ~server.alive

\* An answer is in hand exactly until it is taken, and is the right one where no
\* caller is interrupted.
AnswerIsInHand ==
    \A t \in Threads :
        /\ pc[t] # "got" => got[t] = None
        /\ pc[t] = "got" => got[t] \in Answers
        /\ pc[t] = "got" /\ setup.strays = 0 => got[t].by = t /\ got[t].method = wire[t]

IInv ==
    /\ TypeOK /\ RequestsAreReady /\ PipesAreQuiet /\ ServerIsCurrent
    /\ AnswersAreRecent /\ RequestIsOut /\ AnswerIsInHand

\* Nothing is connected and nobody calls.
LEMMA InitIInv == Init => IInv
  <1> SUFFICES ASSUME Init PROVE IInv
      OBVIOUS
  <1>1. setup \in Setups /\ setup.strays \in Nat
      BY SetupsAreKnown DEF Init, Setup
  <1>2. PipesType /\ Len(stdin) = 0 /\ Len(stdout) = 0
      BY DEF Init, PipesType
  <1>3. ServerType
    <2>1. server \in [alive : BOOLEAN, read_only : BOOLEAN] /\ _opened \in BOOLEAN
        BY DEF Init
    <2>2. session \in 0..MaxSessions  BY MaxSessionsIsNat DEF Init
    <2> QED BY <2>1, <2>2 DEF ServerType
  <1>4. LockType
      BY <1>1, <1>2, NoneIsNothing DEF Init, LockType
  <1>5. CallerType
      BY DEF Init, CallerType
  <1>6. InfoType /\ StoreType
      BY DEF Init, InfoType, StoreType
  <1>7. RequestsAreReady /\ PipesAreQuiet /\ ServerIsCurrent /\ AnswersAreRecent
          /\ RequestIsOut /\ AnswerIsInHand
      BY <1>1, <1>2 DEF Init, RequestsAreReady, PipesAreQuiet, ServerIsCurrent,
                        AnswersAreRecent, RequestIsOut, AnswerIsInHand
  <1> QED BY <1>2, <1>3, <1>4, <1>5, <1>6, <1>7, TypeInParts DEF IInv

\* The frames in the pipes are requests and answers.
LEMMA PipesKeepType ==
    ASSUME TypeOK, RequestsAreReady, ServerIsCurrent, Next
    PROVE  PipesType'
  <1> DEFINE Pipes == <<stdin, stdout>>
  <1>1. stdin \in Seq(Requests) /\ stdout \in Seq(Answers)  BY DEF TypeOK
  <1>2. CASE UNCHANGED Pipes  BY <1>1, <1>2 DEF PipesType
  <1>3. ASSUME NEW t \in Threads, Open(t) PROVE PipesType'  BY <1>3 DEF Open, PipesType
  <1>4. ASSUME NEW t \in Threads, Send(t) PROVE PipesType'
    <2>1. [by |-> t, method |-> wire[t], key |-> key[t]] \in Requests
        BY <1>4 DEF Send, RequestsAreReady, Requests
    <2> QED BY <1>1, <1>4, <2>1 DEF Send, PipesType
  <1>5. ASSUME NEW t \in Threads, Receive(t) PROVE PipesType'
      BY <1>1, <1>5 DEF Receive, PipesType
  <1>6. ASSUME NEW tag \in {"ok", "err"}, server.alive, stdin # <<>>, Answered(tag),
               stdin' = Tail(stdin)
        PROVE  PipesType'
    <2>1. Head(stdin) \in Requests  BY <1>1, <1>6
    <2>2. session \in 1..MaxSessions  BY <1>6, MaxSessionsIsNat DEF TypeOK, ServerIsCurrent
    <2>3. [by |-> Head(stdin).by, method |-> Head(stdin).method, tag |-> tag, session |-> session,
           read_only |-> server.read_only] \in Answers
        BY <2>1, <2>2 DEF TypeOK, Answers, Requests
    <2> QED BY <1>1, <1>6, <2>3 DEF Answered, PipesType
  <1>7. CASE ServerDies
    <2>1. <<>> \in Seq(Requests) /\ <<>> \in Seq(Answers)  OBVIOUS
    <2> QED BY <1>1, <1>7, <2>1 DEF ServerDies, PipesType
  <1> QED BY <1>2, <1>3, <1>4, <1>5, <1>6, <1>7
      DEF Next, Step, Begin, BeginInfo, BeginClose, Handshake, RejectedHere, Admit, PassesGate,
          TakeInfo, TakeAnswer, TakeWrongAnswer, InfoIsNoInfo, TakeLock, Close, Closed,
          OpenFails, Lost, Interrupted, Serve, ServeRaises, connection

\* Every process that is launched has a session of its own.
LEMMA ServerKeepsType ==
    ASSUME TypeOK, setup \in Setup, Next
    PROVE  ServerType'
  <1>1. ServerType  BY DEF TypeOK, ServerType
  <1>2. ASSUME NEW t \in Threads, Open(t) PROVE ServerType'
    <2>1. PICK flag \in setup.read_only : server' = [alive |-> TRUE, read_only |-> flag]
        BY <1>2 DEF Open
    <2>2. flag \in BOOLEAN  BY <2>1 DEF Setup
    <2>3. session' \in 0..MaxSessions /\ _opened' = TRUE
        BY <1>1, <1>2, MaxSessionsIsNat DEF Open, ServerType
    <2> QED BY <2>1, <2>2, <2>3 DEF ServerType
  <1>3. CASE /\ server' = [server EXCEPT !.alive = FALSE]
             /\ _opened' \in {_opened, FALSE} /\ UNCHANGED session
      BY <1>1, <1>3 DEF ServerType
  <1>4. CASE UNCHANGED <<server, session, _opened>>
      BY <1>1, <1>4 DEF ServerType
  <1> QED BY <1>2, <1>3, <1>4
      DEF Next, Step, Begin, BeginInfo, BeginClose, Handshake, RejectedHere, Admit, PassesGate,
          TakeInfo, TakeAnswer, TakeWrongAnswer, InfoIsNoInfo, TakeLock, Close, Closed,
          OpenFails, Send, Receive, Lost, Interrupted, Serve, ServeRaises, ServerDies, connection

\* Whatever is taken for info is cached as info.
LEMMA InfoKeepsType ==
    ASSUME TypeOK, AnswerIsInHand, Next
    PROVE  InfoType'
  <1>1. InfoType  BY DEF TypeOK, InfoType
  <1>2. ASSUME NEW t \in Threads, TakeInfo(t) PROVE InfoType'
    <2>1. got[t] \in Answers  BY <1>2 DEF TakeInfo, AnswerIsInHand
    <2> QED BY <1>2, <2>1, MaxSessionsIsNat DEF TakeInfo, Answers, InfoType
  <1>3. ASSUME NEW t \in Threads, TakeWrongAnswer(t) PROVE InfoType'
      BY <1>1, <1>3, MaxSessionsIsNat DEF TakeWrongAnswer, InfoType
  <1>4. CASE _info_cache' \in {None, _info_cache}
      BY <1>1, <1>4 DEF InfoType
  <1> QED BY <1>2, <1>3, <1>4
      DEF Next, Step, Begin, BeginInfo, BeginClose, Handshake, RejectedHere, Admit, PassesGate,
          TakeAnswer, InfoIsNoInfo, TakeLock, Close, Open, OpenFails, Send, Receive, Lost,
          Interrupted, Serve, ServeRaises, ServerDies

\* Only a served request changes what the remote stores.
LEMMA StoreKeepsType ==
    ASSUME TypeOK, Next
    PROVE  StoreType'
  <1>1. StoreType /\ stdin \in Seq(Requests)  BY DEF TypeOK, StoreType
  <1>2. CASE Serve
    <2>1. Head(stdin) \in Requests  BY <1>1, <1>2 DEF Serve
    <2>2. Head(stdin).key \in Keys  BY <2>1 DEF Requests
    <2> QED BY <1>1, <1>2, <2>2 DEF Serve, Effect, StoreType
  <1>3. CASE UNCHANGED store  BY <1>1, <1>3 DEF store, StoreType
  <1> QED BY <1>2, <1>3
      DEF Next, Step, Begin, BeginInfo, BeginClose, Handshake, RejectedHere, Admit, PassesGate,
          TakeInfo, TakeAnswer, TakeWrongAnswer, InfoIsNoInfo, TakeLock, Close, Open, OpenFails,
          Send, Receive, Lost, Interrupted, ServeRaises, ServerDies, store

\* What is left to show of a step.
Rest ==
    /\ LockType /\ CallerType
    /\ RequestsAreReady /\ PipesAreQuiet /\ ServerIsCurrent
    /\ AnswersAreRecent /\ RequestIsOut /\ AnswerIsInHand

\* A thread that returns without the lock.
LEMMA ReturnKeepsRest ==
    ASSUME IInv, UNCHANGED setup, NEW t \in Threads,
           pc[t] \notin {"send", "wait", "close"}, Return(t), UNCHANGED connection
    PROVE  Rest'
  <1> USE NoneIsNothing, MaxSessionsIsNat, SetupsAreKnown, TypeInParts
      DEF IInv, Rest, PipesType, LockType, CallerType, RequestsAreReady, PipesAreQuiet,
          ServerIsCurrent, AnswersAreRecent, RequestIsOut, AnswerIsInHand, Methods, AllOps,
          Setup, Goto, Return, connection, store
  <1>1. LockType'  OBVIOUS
  <1>2. CallerType'  OBVIOUS
  <1>3. RequestsAreReady'  OBVIOUS
  <1>4. AnswerIsInHand'  OBVIOUS
  <1>5. (PipesAreQuiet /\ ServerIsCurrent /\ AnswersAreRecent /\ RequestIsOut)'  OBVIOUS
  <1> QED BY <1>1, <1>2, <1>3, <1>4, <1>5

\* The caller's steps leave the connection alone.
LEMMA CallerKeepsRest ==
    ASSUME IInv, UNCHANGED setup, NEW t \in Threads,
           \/ Begin(t) \/ BeginInfo(t) \/ BeginClose(t) \/ Handshake(t) \/ RejectedHere(t)
           \/ Admit(t) \/ PassesGate(t) \/ TakeInfo(t) \/ TakeWrongAnswer(t)
           \/ InfoIsNoInfo(t) \/ TakeAnswer(t)
    PROVE  Rest'
  <1> USE NoneIsNothing, MaxSessionsIsNat, SetupsAreKnown, TypeInParts
      DEF IInv, Rest, PipesType, LockType, CallerType, RequestsAreReady, PipesAreQuiet,
          ServerIsCurrent, AnswersAreRecent, RequestIsOut, AnswerIsInHand, Methods, AllOps,
          Setup, Goto, Return, connection, store
  <1>1. CASE Begin(t)            BY <1>1 DEF Begin, FirstRpc
  <1>2. CASE BeginInfo(t)
    <2>1. LockType'  BY <1>2 DEF BeginInfo
    <2>2. CallerType'  BY <1>2 DEF BeginInfo
    <2>3. RequestsAreReady'  BY <1>2 DEF BeginInfo
    <2>4. AnswerIsInHand'  BY <1>2 DEF BeginInfo
    <2>5. (PipesAreQuiet /\ ServerIsCurrent /\ AnswersAreRecent /\ RequestIsOut)'
        BY <1>2 DEF BeginInfo
    <2> QED BY <2>1, <2>2, <2>3, <2>4, <2>5
  <1>3. CASE BeginClose(t)       BY <1>3 DEF BeginClose
  <1>4. CASE Handshake(t)
    <2>1. CASE _info_cache = None
      <3>1. LockType'  BY <1>4, <2>1 DEF Handshake
      <3>2. CallerType'  BY <1>4, <2>1 DEF Handshake
      <3>3. RequestsAreReady'  BY <1>4, <2>1 DEF Handshake
      <3>4. AnswerIsInHand'  BY <1>4, <2>1 DEF Handshake
      <3>5. (PipesAreQuiet /\ ServerIsCurrent /\ AnswersAreRecent /\ RequestIsOut)'
          BY <1>4, <2>1 DEF Handshake
      <3> QED BY <3>1, <3>2, <3>3, <3>4, <3>5
    <2>2. CASE _info_cache # None
      <3>1. /\ pc[t] = "handshake" /\ pc' = [pc EXCEPT ![t] = "gate"]
            /\ UNCHANGED <<op, key, rpc, wire, got, _lock, stdin, stdout, session, server>>
          BY <1>4, <2>2 DEF Handshake
      <3>2. LockType'  BY <3>1
      <3>3. CallerType'  BY <3>1
      <3>4. RequestsAreReady'  BY <3>1
      <3>5. AnswerIsInHand'  BY <3>1
      <3>6. (PipesAreQuiet /\ ServerIsCurrent /\ AnswersAreRecent /\ RequestIsOut)'  BY <3>1
      <3> QED BY <3>2, <3>3, <3>4, <3>5, <3>6
    <2> QED BY <2>1, <2>2
  <1>5. CASE RejectedHere(t)     BY <1>5, ReturnKeepsRest DEF RejectedHere
  <1>6. CASE Admit(t)            BY <1>6 DEF Admit
  <1>7. CASE PassesGate(t)       BY <1>7 DEF PassesGate
  <1>8. CASE TakeInfo(t)
    <2>1. CASE op[t] = "info"
      <3>1. pc[t] = "got" /\ Return(t) /\ UNCHANGED connection
          BY <1>8, <2>1 DEF TakeInfo
      <3> QED BY <3>1, ReturnKeepsRest
    <2>2. CASE op[t] # "info"
      <3>1. /\ pc[t] = "got" /\ pc' = [pc EXCEPT ![t] = "gate"]
            /\ got' = [got EXCEPT ![t] = None]
            /\ UNCHANGED <<op, key, rpc, wire, _lock, stdin, stdout, session, server>>
          BY <1>8, <2>2 DEF TakeInfo
      <3>2. LockType'  BY <3>1
      <3>3. CallerType'  BY <3>1
      <3>4. RequestsAreReady'  BY <2>2, <3>1
      <3>5. AnswerIsInHand'  BY <3>1
      <3>6. (PipesAreQuiet /\ ServerIsCurrent /\ AnswersAreRecent /\ RequestIsOut)'  BY <3>1
      <3> QED BY <3>2, <3>3, <3>4, <3>5, <3>6
    <2> QED BY <2>1, <2>2
  <1>9. CASE TakeWrongAnswer(t)  BY <1>9 DEF TakeWrongAnswer
  <1>10. CASE InfoIsNoInfo(t)    BY <1>10 DEF InfoIsNoInfo
  <1>11. CASE TakeAnswer(t)
    <2>1. CASE got[t].tag = "ok" /\ rpc[t] \in {"prepare", "save_value"}
      <3> DEFINE m == NextRpc(rpc[t])
      <3>1. /\ pc[t] = "got" /\ pc' = [pc EXCEPT ![t] = "handshake"]
            /\ rpc' = [rpc EXCEPT ![t] = m] /\ m \in Methods
            /\ got' = [got EXCEPT ![t] = None]
            /\ UNCHANGED <<op, key, wire, _lock, stdin, stdout, session, server>>
          BY <1>11, <2>1 DEF TakeAnswer, NextRpc
      <3> HIDE DEF m
      <3>2. LockType'  BY <3>1
      <3>3. CallerType'  BY <3>1
      <3>4. RequestsAreReady'  BY <3>1
      <3>5. AnswerIsInHand'  BY <3>1
      <3>6. (PipesAreQuiet /\ ServerIsCurrent /\ AnswersAreRecent /\ RequestIsOut)'  BY <3>1
      <3> QED BY <3>2, <3>3, <3>4, <3>5, <3>6
    <2>2. CASE ~(got[t].tag = "ok" /\ rpc[t] \in {"prepare", "save_value"})
      <3>1. pc[t] = "got" /\ Return(t) /\ UNCHANGED connection
          BY <1>11, <2>2 DEF TakeAnswer
      <3> QED BY <3>1, ReturnKeepsRest
    <2> QED BY <2>1, <2>2
  <1> QED BY <1>1, <1>2, <1>3, <1>4, <1>5, <1>6, <1>7, <1>8, <1>9, <1>10, <1>11

\* One thread at a time is on the connection.
LEMMA ConnectionKeepsRest ==
    ASSUME IInv, UNCHANGED setup, NEW t \in Threads,
           \/ TakeLock(t) \/ Close(t) \/ Open(t) \/ OpenFails(t)
           \/ Send(t) \/ Receive(t) \/ Lost(t) \/ Interrupted(t)
    PROVE  Rest'
  <1> USE NoneIsNothing, MaxSessionsIsNat, SetupsAreKnown, TypeInParts
      DEF IInv, Rest, PipesType, LockType, CallerType, RequestsAreReady, PipesAreQuiet,
          ServerIsCurrent, AnswersAreRecent, RequestIsOut, AnswerIsInHand, Methods, AllOps,
          Setup, Goto, Return, connection, store
  <1>1. CASE TakeLock(t)     BY <1>1 DEF TakeLock
  <1>2. CASE Close(t)        BY <1>2 DEF Close, Closed
  <1>3. CASE Open(t)
    <2>1. session' # 0 /\ Len(stdin') = 0 /\ Len(stdout') = 0
        BY <1>3 DEF Open, ServerType
    <2> QED BY <1>3, <2>1 DEF Open
  <1>4. CASE OpenFails(t)    BY <1>4 DEF OpenFails
  <1>5. CASE Send(t)
    <2> DEFINE req == [by |-> t, method |-> wire[t], key |-> key[t]]
    <2>1. req \in Requests  BY <1>5 DEF Send, Requests
    <2>2. stdin' = Append(stdin, req) /\ stdin' \in Seq(Requests) /\ Len(stdin') = Len(stdin) + 1
        BY <1>5, <2>1 DEF Send
    <2>3. setup.strays = 0 => stdin = <<>> /\ stdout = <<>>
        BY <1>5 DEF Send
    <2>4. RequestIsOut'
        BY <1>5, <2>1, <2>2, <2>3 DEF Send
    <2> HIDE DEF req
    <2>5. (LockType /\ CallerType /\ RequestsAreReady /\ PipesAreQuiet /\ ServerIsCurrent
              /\ AnswersAreRecent /\ AnswerIsInHand)'
        BY <1>5, <2>2 DEF Send
    <2> QED BY <2>4, <2>5
  <1>6. CASE Receive(t)      BY <1>6 DEF Receive
  <1>7. CASE Lost(t)         BY <1>7 DEF Lost, Closed
  <1>8. CASE Interrupted(t)  BY <1>8 DEF Interrupted
  <1> QED BY <1>1, <1>2, <1>3, <1>4, <1>5, <1>6, <1>7, <1>8

\* The server answers each request it takes, or dies.
LEMMA ServerKeepsRest ==
    ASSUME IInv, UNCHANGED setup, Serve \/ ServeRaises \/ ServerDies
    PROVE  Rest'
  <1> USE NoneIsNothing, MaxSessionsIsNat, SetupsAreKnown, TypeInParts
      DEF IInv, Rest, PipesType, LockType, CallerType, RequestsAreReady, PipesAreQuiet,
          ServerIsCurrent, AnswersAreRecent, RequestIsOut, AnswerIsInHand, Methods, AllOps,
          Setup, Goto, Return, connection, store
  <1>1. ASSUME NEW tag \in {"ok", "err"}, server.alive, stdin # <<>>, Answered(tag),
               stdin' = Tail(stdin),
               UNCHANGED <<_lock, _opened, session, server, pc, op, key, rpc, wire, got>>
        PROVE  Rest'
    <2> DEFINE a == [by |-> Head(stdin).by, method |-> Head(stdin).method, tag |-> tag,
                     session |-> session, read_only |-> server.read_only]
    <2>1. Head(stdin) \in Requests  BY <1>1
    <2>2. session \in 1..MaxSessions  BY <1>1 DEF ServerType
    <2>3. a \in Answers /\ a.session = session
        BY <2>1, <2>2 DEF Answers, Requests, ServerType
    <2>4. /\ stdout' \in Seq(Answers) /\ stdin' \in Seq(Requests)
          /\ stdout' = Append(stdout, a)
          /\ Len(stdout') = Len(stdout) + 1 /\ Len(stdin') = Len(stdin) - 1
        BY <1>1, <2>3 DEF Answered
    <2>5. RequestIsOut'
      <3>1. SUFFICES ASSUME setup.strays = 0, NEW t \in Threads, pc[t] = "wait"
                     PROVE  stdin' = <<>> /\ Len(stdout') = 1 /\ stdout'[1].by = t
                              /\ stdout'[1].method = wire[t]
          BY <1>1
      <3>2. stdout = <<>> /\ stdin = <<[by |-> t, method |-> wire[t], key |-> key[t]]>>
          BY <1>1, <3>1
      <3>3. stdin' = <<>> /\ stdout' = <<a>>
          BY <1>1, <2>4, <3>2
      <3> QED BY <3>2, <3>3
    <2>6. AnswersAreRecent'
      <3> HIDE DEF a
      <3> QED BY <1>1, <2>3, <2>4
    <2> HIDE DEF a
    <2>7. (LockType /\ CallerType /\ RequestsAreReady /\ PipesAreQuiet /\ ServerIsCurrent
              /\ AnswerIsInHand)'
        BY <1>1, <2>4
    <2> QED BY <2>5, <2>6, <2>7
  <1>2. CASE ServerDies  BY <1>2 DEF ServerDies
  <1> QED BY <1>1, <1>2 DEF Serve, ServeRaises

\* Every reachable state satisfies the invariant.
LEMMA Invariance == Spec => []IInv
  <1>1. IInv /\ UNCHANGED vars => IInv'
      BY DEF IInv, TypeOK, RequestsAreReady, PipesAreQuiet, ServerIsCurrent, AnswersAreRecent,
             RequestIsOut, AnswerIsInHand, vars, connection, store
  <1>2. ASSUME IInv, Next PROVE IInv'
    <2>1. TypeOK /\ RequestsAreReady /\ ServerIsCurrent /\ AnswerIsInHand  BY <1>2 DEF IInv
    <2>2. setup \in Setup /\ UNCHANGED setup  BY <1>2, <2>1, SetupsAreKnown DEF TypeOK, Next
    <2>3. PipesType' /\ ServerType' /\ InfoType' /\ StoreType'
        BY <1>2, <2>1, <2>2, PipesKeepType, ServerKeepsType, InfoKeepsType, StoreKeepsType
    <2>4. Rest'
        BY <1>2, <2>2, CallerKeepsRest, ConnectionKeepsRest, ServerKeepsRest DEF Next, Step
    <2> QED BY <2>3, <2>4, TypeInParts DEF IInv, Rest
  <1> QED BY InitIInv, <1>1, <1>2, PTL DEF Spec

\* The types of the variables; the lock is owned exactly inside call, reconnect
\* and close; beside what interrupted callers left there is never more than one
\* request or answer in the pipes.
THEOREM TypeCorrect == Spec => []TypeOK
  <1>1. IInv => TypeOK  BY DEF IInv
  <1> QED BY Invariance, <1>1, PTL

\* Frames carry no number, and yet each caller is given the answer to its own
\* request, with any number of threads and of processes that die, as long as
\* no caller is interrupted.
THEOREM AnswersFit == Spec => []AnswerMatchesRequest
  <1>1. IInv => AnswerMatchesRequest
      BY DEF IInv, AnswerIsInHand, AnswerMatchesRequest
  <1> QED BY Invariance, <1>1, PTL

\* Even where callers are interrupted, no answer comes from an earlier process.
THEOREM AnswersAreOfThisProcess == Spec => AnswersAreFromThisProcess
  <1>1. ASSUME IInv, NEW t \in Threads, Receive(t) PROVE Head(stdout).session = session
    <2>1. stdout \in Seq(Answers) /\ stdout # <<>>  BY <1>1 DEF IInv, TypeOK, Receive
    <2>2. Head(stdout) = stdout[1] /\ 1 \in 1..Len(stdout)  BY <2>1
    <2> QED BY <1>1, <2>2 DEF IInv, AnswersAreRecent
  <1>2. IInv => \A t \in Threads : Receive(t) => Head(stdout).session = session
      BY <1>1
  <1> QED BY <1>2, Invariance, PTL DEF AnswersAreFromThisProcess

-----------------------------------------------------------------------------
(* No record without its result *)

\* Nobody is interrupted, and every server process comes up read-only, or none.
Steady == setup.strays = 0 /\ ~(BOOLEAN \subseteq setup.read_only)

\* A process has one of the flags it may come up with.
FlagIsKnown == server.alive => server.read_only \in setup.read_only

\* Between the lock and the answer, what is asked is "info" or the next trip;
\* who only asks for the info has no handshake before it.
WireIsNext ==
    \A t \in Threads :
        /\ pc[t] \in {"handshake", "gate"} => op[t] # "info"
        /\ pc[t] \in {"lock", "send", "wait", "got"} /\ op[t] \notin {"reconnect", "close"} =>
            /\ wire[t] \in {"info", rpc[t]}
            /\ op[t] = "info" => wire[t] = "info"

\* The result of a thread's call is stored, or nothing is ever filed.
Stored(t) == key[t] \in values \/ FALSE \notin setup.read_only

\* It is stored from when save_value is answered until save is.
ResultComesFirst ==
    \A t \in Threads :
        /\ pc[t] # "idle" /\ op[t] \notin {"info", "reconnect", "close"} /\ rpc[t] = "save" =>
             Stored(t)
        /\ pc[t] = "got" /\ wire[t] = "save_value" /\ got[t].tag = "ok" => Stored(t)
        /\ pc[t] = "wait" /\ wire[t] = "save_value" /\ stdout # <<>> /\ stdout[1].tag = "ok" =>
             Stored(t)

ResultsPart == FlagIsKnown /\ WireIsNext /\ ResultComesFirst /\ RecordsHaveValues

\* The caller asks for the second trip only when the first is answered.
LEMMA CallerKeepsResults ==
    ASSUME IInv, Steady, ResultsPart, UNCHANGED setup, NEW t \in Threads,
           \/ Begin(t) \/ BeginInfo(t) \/ BeginClose(t) \/ Handshake(t) \/ RejectedHere(t)
           \/ Admit(t) \/ PassesGate(t) \/ TakeInfo(t) \/ TakeWrongAnswer(t)
           \/ InfoIsNoInfo(t) \/ TakeAnswer(t)
    PROVE  ResultsPart'
  <1>1. CallerType /\ LockType  BY TypeInParts DEF IInv
  <1>2. UNCHANGED <<connection, values, records>>
      BY DEF Begin, BeginInfo, BeginClose, Handshake, RejectedHere, Admit, PassesGate, TakeInfo,
             TakeWrongAnswer, InfoIsNoInfo, TakeAnswer, store
  <1>3. (FlagIsKnown /\ RecordsHaveValues)'
      BY <1>2 DEF ResultsPart, FlagIsKnown, RecordsHaveValues, connection
  <1> USE <1>1, <1>2 DEF CallerType, LockType, ResultsPart, WireIsNext, ResultComesFirst,
                         Stored, Goto, connection
  <1> SUFFICES (WireIsNext /\ ResultComesFirst)'
      BY <1>3
  <1>4. ASSUME Return(t) PROVE (WireIsNext /\ ResultComesFirst)'
      BY <1>4 DEF Return
  <1>5. CASE Begin(t)
    <2>1. PICK o \in {"run", "load", "evict"}, k \in Keys :
              /\ op' = [op EXCEPT ![t] = o] /\ key' = [key EXCEPT ![t] = k]
              /\ rpc' = [rpc EXCEPT ![t] = FirstRpc(o)]
        BY <1>5 DEF Begin
    <2>2. /\ pc[t] = "idle" /\ pc' = [pc EXCEPT ![t] = "handshake"]
          /\ FirstRpc(o) # "save" /\ UNCHANGED <<wire, got>>
        BY <1>5, <2>1 DEF Begin, FirstRpc
    <2>3. WireIsNext'  BY <2>1, <2>2
    <2>4. ResultComesFirst'  BY <2>1, <2>2
    <2> QED BY <2>3, <2>4
  <1>6. CASE BeginInfo(t) \/ BeginClose(t)
    <2>1. CASE BeginInfo(t)
      <3>1. /\ pc[t] = "idle" /\ pc' = [pc EXCEPT ![t] = "lock"]
            /\ op' = [op EXCEPT ![t] = "info"] /\ wire' = [wire EXCEPT ![t] = "info"]
            /\ \A u \in Threads \ {t} : key'[u] = key[u]
            /\ UNCHANGED <<rpc, got>>
          BY <2>1 DEF BeginInfo
      <3>2. WireIsNext'  BY <3>1
      <3>3. ResultComesFirst'  BY <3>1
      <3> QED BY <3>2, <3>3
    <2>2. CASE BeginClose(t)  BY <2>2 DEF BeginClose
    <2> QED BY <1>6, <2>1, <2>2
  <1>7. CASE Handshake(t)
    <2>1. CASE _info_cache = None
      <3>1. /\ pc[t] = "handshake" /\ pc' = [pc EXCEPT ![t] = "lock"]
            /\ wire' = [wire EXCEPT ![t] = "info"] /\ UNCHANGED <<op, key, rpc, got>>
          BY <1>7, <2>1 DEF Handshake
      <3>2. WireIsNext'  BY <3>1
      <3>3. ResultComesFirst'  BY <3>1
      <3> QED BY <3>2, <3>3
    <2>2. CASE _info_cache # None
      <3>1. /\ pc[t] = "handshake" /\ pc' = [pc EXCEPT ![t] = "gate"]
            /\ UNCHANGED <<op, key, rpc, wire, got>>
          BY <1>7, <2>2 DEF Handshake
      <3>2. WireIsNext'  BY <3>1
      <3>3. ResultComesFirst'  BY <3>1
      <3> QED BY <3>2, <3>3
    <2> QED BY <2>1, <2>2
  <1>8. CASE RejectedHere(t) \/ TakeWrongAnswer(t) \/ InfoIsNoInfo(t)
      BY <1>8, <1>4 DEF RejectedHere, TakeWrongAnswer, InfoIsNoInfo
  <1>9. CASE Admit(t)
      BY <1>9 DEF Admit
  <1>10. CASE PassesGate(t)
    <2>1. /\ pc[t] = "gate" /\ pc' = [pc EXCEPT ![t] = "lock"]
          /\ wire' = [wire EXCEPT ![t] = rpc[t]] /\ UNCHANGED <<op, key, rpc, got>>
        BY <1>10 DEF PassesGate
    <2>2. WireIsNext'  BY <2>1
    <2>3. ResultComesFirst'  BY <2>1
    <2> QED BY <2>2, <2>3
  <1>11. CASE TakeInfo(t)
      BY <1>11, <1>4 DEF TakeInfo
  <1>12. CASE TakeAnswer(t)
    <2>1. CASE Return(t)
        BY <2>1, <1>4
    <2>2. CASE ~Return(t)
      <3>1. /\ pc[t] = "got" /\ pc' = [pc EXCEPT ![t] = "handshake"]
            /\ got[t].tag = "ok" /\ wire[t] # "info" /\ rpc[t] \in {"prepare", "save_value"}
            /\ rpc' = [rpc EXCEPT ![t] = NextRpc(rpc[t])]
            /\ got' = [got EXCEPT ![t] = None]
            /\ UNCHANGED <<op, key, wire>>
          BY <1>12, <2>2 DEF TakeAnswer
      <3>2. op[t] \notin {"reconnect", "close"}
          BY <3>1 DEF IInv, RequestsAreReady
      <3>3. rpc[t] = "save_value" => Stored(t)
          BY <3>1, <3>2
      <3>4. WireIsNext'  BY <3>1
      <3>5. ResultComesFirst'  BY <3>1, <3>3 DEF NextRpc
      <3> QED BY <3>4, <3>5
    <2> QED BY <2>1, <2>2
  <1> QED BY <1>5, <1>6, <1>7, <1>8, <1>9, <1>10, <1>11, <1>12

\* An answer is handed on as it came.
LEMMA ConnectionKeepsResults ==
    ASSUME IInv, Steady, ResultsPart, UNCHANGED setup, NEW t \in Threads,
           TakeLock(t) \/ Close(t) \/ Open(t) \/ OpenFails(t) \/ Send(t) \/ Receive(t) \/ Lost(t)
    PROVE  ResultsPart'
  <1>1. CallerType /\ LockType /\ ServerType /\ PipesType  BY TypeInParts DEF IInv
  <1>2. UNCHANGED <<values, records>>
      BY DEF TakeLock, Close, Open, OpenFails, Send, Receive, Lost, store
  <1>3. (FlagIsKnown /\ RecordsHaveValues)'
      BY <1>1, <1>2 DEF ResultsPart, FlagIsKnown, RecordsHaveValues, ServerType,
                        TakeLock, Close, Closed, Open, OpenFails, Send, Receive, Lost
  <1> USE <1>1, <1>2 DEF CallerType, LockType, ResultsPart, WireIsNext, ResultComesFirst,
                         Stored, Goto, Return
  <1> SUFFICES (WireIsNext /\ ResultComesFirst)'
      BY <1>3
  <1>4. CASE TakeLock(t)     BY <1>4 DEF TakeLock
  <1>5. CASE Close(t)        BY <1>5 DEF Close, Closed
  <1>6. CASE Open(t)         BY <1>6 DEF Open
  <1>7. CASE OpenFails(t)    BY <1>7 DEF OpenFails
  <1>8. CASE Send(t)
    <2>1. \A u \in Threads : pc[u] # "wait"
        BY <1>8, NoneIsNothing DEF Send
    <2>2. stdout = <<>>
        BY <2>1 DEF IInv, PipesAreQuiet, Steady, PipesType
    <2> QED BY <1>8, <2>2 DEF Send
  <1>9. CASE Receive(t)
    <2>1. got'[t] = stdout[1]
        BY <1>9 DEF Receive, PipesType
    <2>2. WireIsNext'  BY <1>9 DEF Receive
    <2>3. \A u \in Threads \ {t} : pc[u] # "wait"
        BY <1>9, NoneIsNothing DEF Receive
    <2>4. ResultComesFirst'  BY <1>9, <2>1, <2>3 DEF Receive
    <2> QED BY <2>2, <2>4
  <1>10. CASE Lost(t)        BY <1>10 DEF Lost, Closed
  <1> QED BY <1>4, <1>5, <1>6, <1>7, <1>8, <1>9, <1>10

\* The server takes the request of the one thread that waits.
LEMMA ServerKeepsResults ==
    ASSUME IInv, Steady, ResultsPart, UNCHANGED setup, Serve \/ ServeRaises \/ ServerDies
    PROVE  ResultsPart'
  <1>1. CallerType /\ LockType /\ ServerType /\ PipesType  BY TypeInParts DEF IInv
  <1>2. UNCHANGED <<_lock, pc, op, key, rpc, wire, got>> /\ values \subseteq values'
      BY DEF Serve, ServeRaises, ServerDies, Effect, store
  <1>3. FlagIsKnown'
      BY <1>1 DEF ResultsPart, FlagIsKnown, Serve, ServeRaises, ServerDies, ServerType
  <1>4. WireIsNext'
      BY <1>2 DEF ResultsPart, WireIsNext
  <1>5. \A t \in Threads : Stored(t) => Stored(t)'
      BY <1>2 DEF Stored
  <1>6. CASE ServerDies
      BY <1>2, <1>3, <1>4, <1>5, <1>6
         DEF ServerDies, store, ResultsPart, ResultComesFirst, RecordsHaveValues
  <1>7. ASSUME Serve \/ ServeRaises
        PROVE  ResultComesFirst' /\ RecordsHaveValues'
    <2>1. PICK t \in Threads : pc[t] = "wait"
        BY <1>1, <1>7 DEF IInv, PipesAreQuiet, Steady, PipesType, Serve, ServeRaises
    <2>2. \A u \in Threads \ {t} : pc[u] # "wait"
        BY <1>1, <2>1, NoneIsNothing DEF LockType
    <2>3. stdout = <<>> /\ stdin = <<[by |-> t, method |-> wire[t], key |-> key[t]]>>
        BY <1>7, <2>1 DEF IInv, RequestIsOut, Steady, Serve, ServeRaises
    <2>4. Head(stdin).method = wire[t] /\ Head(stdin).key = key[t]
        BY <2>3
    <2>5. ASSUME Answered("err") PROVE stdout'[1].tag = "err"
      <3> DEFINE a == [by |-> Head(stdin).by, method |-> Head(stdin).method, tag |-> "err",
                       session |-> session, read_only |-> server.read_only]
      <3>1. Head(stdin) \in Requests
          BY <1>1, <2>3 DEF PipesType
      <3>2. session \in 1..MaxSessions
          BY <1>1, <1>7, MaxSessionsIsNat DEF IInv, ServerIsCurrent, ServerType, Serve, ServeRaises
      <3>3. a \in Answers /\ a.tag = "err"
          BY <1>1, <3>1, <3>2 DEF Answers, Requests, ServerType
      <3>4. stdout' = Append(<<>>, a)
          BY <2>3, <2>5 DEF Answered
      <3> HIDE DEF a
      <3> QED BY <3>3, <3>4
    <2>6. CASE Serve
      <3>1. server.read_only \in BOOLEAN /\ server.read_only \in setup.read_only
          BY <1>1, <2>6 DEF ResultsPart, FlagIsKnown, Serve, ServerType
      <3>2. wire[t] = "save_value" => Stored(t)'
          BY <2>4, <2>6, <1>2, <3>1 DEF Serve, Effect, Stored, Steady
      <3>3. ResultComesFirst'
          BY <1>2, <1>5, <2>1, <2>2, <3>2 DEF ResultsPart, ResultComesFirst
      <3>4. CASE wire[t] = "save"
        <4>1. op[t] \notin {"reconnect", "close"}
            BY <2>1 DEF IInv, RequestsAreReady
        <4>2. rpc[t] = "save" /\ op[t] # "info"
            BY <2>1, <3>4, <4>1 DEF ResultsPart, WireIsNext
        <4>3. Stored(t)
            BY <2>1, <4>1, <4>2 DEF ResultsPart, ResultComesFirst
        <4>4. server.read_only = FALSE
            BY <2>4, <2>6, <3>1, <3>4 DEF Serve
        <4>5. key[t] \in values
            BY <3>1, <4>3, <4>4 DEF Stored
        <4> QED BY <2>4, <2>6, <1>2, <3>3, <4>5
                DEF Serve, Effect, ResultsPart, RecordsHaveValues
      <3>5. CASE wire[t] # "save"
        <4>1. records' \subseteq records
            BY <2>4, <2>6, <3>5 DEF Serve, Effect
        <4> QED BY <1>2, <3>3, <4>1 DEF ResultsPart, RecordsHaveValues
      <3> QED BY <3>4, <3>5
    <2>7. CASE ~Serve
      <3>1. stdout'[1].tag = "err" /\ UNCHANGED <<values, records>>
          BY <1>7, <2>5, <2>7 DEF Serve, ServeRaises, store
      <3>2. RecordsHaveValues'
          BY <3>1 DEF ResultsPart, RecordsHaveValues
      <3>3. ResultComesFirst'
          BY <1>2, <1>5, <3>1 DEF ResultsPart, ResultComesFirst
      <3> QED BY <3>2, <3>3
    <2> QED BY <2>6, <2>7
  <1> QED BY <1>3, <1>4, <1>6, <1>7 DEF ResultsPart

\* However many threads and processes: where nobody is interrupted and the
\* server's read-only flag is the same from one process to the next, no record
\* is filed before its result is stored, whenever the connection is lost
\* (remote.py 843-856, _save_value).
THEOREM NoRecordWithoutResult == Spec => [](Steady => RecordsHaveValues)
  <1> DEFINE Inv == IInv /\ (Steady => ResultsPart)
  <1>1. Init => Inv
    <2> SUFFICES ASSUME Init PROVE ResultsPart
        BY InitIInv
    <2> QED BY DEF Init, ResultsPart, FlagIsKnown, WireIsNext, ResultComesFirst, RecordsHaveValues
  <1>2. ASSUME IInv, Steady => ResultsPart, [Next]_vars PROVE Steady' => ResultsPart'
    <2> SUFFICES ASSUME Steady' PROVE ResultsPart'
        OBVIOUS
    <2>1. Steady /\ UNCHANGED setup
        BY <1>2 DEF Next, vars, Steady
    <2>2. ResultsPart
        BY <1>2, <2>1
    <2>3. CASE UNCHANGED vars
        BY <2>2, <2>3 DEF vars, connection, store, ResultsPart, FlagIsKnown, WireIsNext,
                          ResultComesFirst, RecordsHaveValues, Stored
    <2>4. CASE Next
      <3>1. ASSUME NEW t \in Threads, Interrupted(t) PROVE FALSE
          BY <2>1, <3>1 DEF Interrupted, Steady
      <3> QED BY <1>2, <2>1, <2>2, <2>4, <3>1, CallerKeepsResults, ConnectionKeepsResults,
                 ServerKeepsResults DEF Next, Step
    <2> QED BY <1>2, <2>3, <2>4
  <1>3. (Steady => ResultsPart) /\ IInv /\ [Next]_vars => (Steady => ResultsPart)'
      BY <1>2
  <1>4. (Steady => ResultsPart) => (Steady => RecordsHaveValues)
      BY DEF ResultsPart
  <1> QED BY <1>1, <1>3, <1>4, Invariance, PTL DEF Spec

-----------------------------------------------------------------------------
(* Remote implements RemoteCall. *)

MappedState == [t \in Threads |-> IF Promised THEN StateOf(t) ELSE "none"]
MappedRequest == [t \in Threads |-> IF Promised THEN RequestOf(t) ELSE NoRequest]
MappedValues == IF Promised THEN values ELSE {}
MappedRecords == IF Promised THEN records ELSE {}

\* What is shown of a thread's request, by where the thread and its frames are.
LEMMA RequestStates ==
    ASSUME NEW t \in Threads
    PROVE  /\ pc[t] \notin {"send", "wait"} => StateOf(t) = "none" /\ RequestOf(t) = NoRequest
           /\ pc[t] = "send" => StateOf(t) = "calling" /\ RequestOf(t) = NoRequest
           /\ pc[t] = "wait" => RequestOf(t) = [method |-> wire[t], key |-> key[t]]
           /\ pc[t] = "wait" /\ stdin # <<>> => StateOf(t) = "asked"
           /\ pc[t] = "wait" /\ stdin = <<>> /\ stdout # <<>> => StateOf(t) = "served"
           /\ pc[t] = "wait" /\ stdin = <<>> /\ stdout = <<>> => StateOf(t) = "lost"
  BY DEF StateOf, RequestOf

\* The same of the state after a step.
LEMMA RequestStatesNext ==
    ASSUME NEW t \in Threads
    PROVE  /\ pc'[t] \notin {"send", "wait"} => StateOf(t)' = "none" /\ RequestOf(t)' = NoRequest
           /\ pc'[t] = "send" => StateOf(t)' = "calling" /\ RequestOf(t)' = NoRequest
           /\ pc'[t] = "wait" => RequestOf(t)' = [method |-> wire'[t], key |-> key'[t]]
           /\ pc'[t] = "wait" /\ stdin' # <<>> => StateOf(t)' = "asked"
           /\ pc'[t] = "wait" /\ stdin' = <<>> /\ stdout' # <<>> => StateOf(t)' = "served"
           /\ pc'[t] = "wait" /\ stdin' = <<>> /\ stdout' = <<>> => StateOf(t)' = "lost"
  BY DEF StateOf, RequestOf, NoRequest

\* A step of the thread that is on the connection, or comes to it, is a step of
\* that thread's request alone.
LEMMA OneRequestMoves ==
    ASSUME IInv, Promised, UNCHANGED setup, NEW t \in Threads,
           pc[t] \in {"send", "wait"} \/ _lock = None,
           \A u \in Threads \ {t} : pc'[u] = pc[u]
    PROVE  /\ MappedState' = [MappedState EXCEPT ![t] = StateOf(t)']
           /\ MappedRequest' = [MappedRequest EXCEPT ![t] = RequestOf(t)']
  <1>1. ASSUME NEW u \in Threads \ {t} PROVE pc[u] \notin {"send", "wait"}
      BY NoneIsNothing DEF IInv, TypeOK
  <1>2. ASSUME NEW u \in Threads \ {t}
        PROVE  StateOf(u)' = StateOf(u) /\ RequestOf(u)' = RequestOf(u)
      BY <1>1, RequestStates, RequestStatesNext
  <1>3. Promised'  BY DEF Promised
  <1> QED BY <1>2, <1>3 DEF MappedState, MappedRequest

\* A step that leaves everybody on or off the connection, and the pipes.
LEMMA NoRequestMoves ==
    ASSUME UNCHANGED setup,
           \A u \in Threads :
             \/ pc[u] \notin {"send", "wait"} /\ pc'[u] \notin {"send", "wait"}
             \/ /\ pc'[u] = pc[u] /\ wire'[u] = wire[u] /\ key'[u] = key[u]
                /\ UNCHANGED <<stdin, stdout>>
             \/ pc'[u] = "send" /\ pc[u] = "send"
    PROVE  UNCHANGED <<MappedState, MappedRequest>>
  <1>1. ASSUME NEW u \in Threads
        PROVE  StateOf(u)' = StateOf(u) /\ RequestOf(u)' = RequestOf(u)
      BY RequestStates, RequestStatesNext
  <1> QED BY <1>1 DEF MappedState, MappedRequest, Promised, NoRequest

\* Off the connection nothing happens that RemoteCall tells apart.
LEMMA CallerStutters ==
    ASSUME NEW t \in Threads, UNCHANGED setup, IInv,
           \/ Begin(t) \/ BeginInfo(t) \/ BeginClose(t) \/ Handshake(t) \/ RejectedHere(t)
           \/ Admit(t) \/ PassesGate(t) \/ TakeInfo(t) \/ TakeWrongAnswer(t)
           \/ InfoIsNoInfo(t) \/ TakeAnswer(t) \/ Close(t) \/ Open(t)
    PROVE  UNCHANGED <<MappedState, MappedRequest, MappedValues, MappedRecords>>
  <1>1. UNCHANGED <<values, records>>
      BY DEF Begin, BeginInfo, BeginClose, Handshake, RejectedHere, Admit, PassesGate, TakeInfo,
             TakeWrongAnswer, InfoIsNoInfo, TakeAnswer, Close, Open, store
  <1>2. ASSUME NEW u \in Threads
        PROVE  \/ pc[u] \notin {"send", "wait"} /\ pc'[u] \notin {"send", "wait"}
               \/ /\ pc'[u] = pc[u] /\ wire'[u] = wire[u] /\ key'[u] = key[u]
                  /\ UNCHANGED <<stdin, stdout>>
               \/ pc'[u] = "send" /\ pc[u] = "send"
    <2>1. pc \in [Threads -> {"idle", "handshake", "gate", "lock", "send", "wait", "got", "close"}]
        BY DEF IInv, TypeOK
    <2>2. CASE u # t
      <3>1. pc'[u] = pc[u]
          BY <2>1, <2>2 DEF Begin, BeginInfo, BeginClose, Handshake, RejectedHere, Admit,
                PassesGate, TakeInfo, TakeWrongAnswer, InfoIsNoInfo, TakeAnswer, Close, Open,
                Goto, Return
      <3>2. CASE pc[u] = "wait"
        <4>1. pc[t] \notin {"send", "close"}
            BY <2>2, <3>2, NoneIsNothing DEF IInv, TypeOK
        <4>2. UNCHANGED <<stdin, stdout>>
            BY <4>1 DEF Begin, BeginInfo, BeginClose, Handshake, RejectedHere, Admit,
                PassesGate, TakeInfo, TakeWrongAnswer, InfoIsNoInfo, TakeAnswer, Close, Open,
                connection
        <4>3. wire'[u] = wire[u] /\ key'[u] = key[u]
            BY <2>2 DEF IInv, TypeOK, Begin, BeginInfo, BeginClose, Handshake, RejectedHere, Admit,
                PassesGate, TakeInfo, TakeWrongAnswer, InfoIsNoInfo, TakeAnswer, Close, Open, Return
        <4> QED BY <3>1, <4>2, <4>3
      <3> QED BY <3>1, <3>2
    <2> QED BY <2>1, <2>2
          DEF Begin, BeginInfo, BeginClose, Handshake, RejectedHere, Admit, PassesGate, TakeInfo,
              TakeWrongAnswer, InfoIsNoInfo, TakeAnswer, Close, Open, Goto, Return, connection
  <1>3. UNCHANGED <<MappedState, MappedRequest>>
      BY <1>2, NoRequestMoves
  <1> QED BY <1>1, <1>3 DEF MappedValues, MappedRecords, Promised

\* On the connection a thread calls, asks, is answered or loses its request.
LEMMA ConnectionRefines ==
    ASSUME NEW t \in Threads, UNCHANGED setup, IInv, Promised,
           TakeLock(t) \/ OpenFails(t) \/ Send(t) \/ Receive(t) \/ Lost(t)
    PROVE  [Abstract!Next]_<<MappedValues, MappedRecords, MappedState, MappedRequest>>
  <1> USE DEF MappedValues, MappedRecords
  <1>1. UNCHANGED <<MappedValues, MappedRecords>>
      BY DEF TakeLock, OpenFails, Send, Receive, Lost, store, Promised
  <1>2. /\ pc \in [Threads -> {"idle", "handshake", "gate", "lock", "send", "wait", "got", "close"}]
        /\ pc[t] \in {"send", "wait"} \/ _lock = None
        /\ \A u \in Threads \ {t} : pc'[u] = pc[u]
      BY DEF IInv, TypeOK, TakeLock, OpenFails, Send, Receive, Lost, Goto, Return
  <1>3. /\ MappedState' = [MappedState EXCEPT ![t] = StateOf(t)']
        /\ MappedRequest' = [MappedRequest EXCEPT ![t] = RequestOf(t)']
      BY <1>2, OneRequestMoves
  <1>4. MappedState[t] = StateOf(t) /\ MappedRequest[t] = RequestOf(t)
      BY DEF MappedState, MappedRequest
  <1>5. CASE TakeLock(t)
    <2>1. CASE op[t] \in {"reconnect", "close"}
      <3>1. pc[t] = "lock" /\ pc'[t] = "close"  BY <1>2, <1>5, <2>1 DEF TakeLock, Goto
      <3>2. StateOf(t)' = StateOf(t) /\ RequestOf(t)' = RequestOf(t)
          BY <3>1, RequestStates, RequestStatesNext
      <3> QED BY <1>1, <1>3, <1>4, <3>2 DEF MappedState, MappedRequest
    <2>2. CASE op[t] \notin {"reconnect", "close"}
      <3>1. pc[t] = "lock" /\ pc'[t] = "send"  BY <1>2, <1>5, <2>2 DEF TakeLock, Goto
      <3>2. StateOf(t) = "none" /\ StateOf(t)' = "calling" /\ RequestOf(t)' = RequestOf(t)
          BY <3>1, RequestStates, RequestStatesNext
      <3>3. MappedRequest' = MappedRequest
          BY <1>3, <1>4, <3>2 DEF MappedRequest
      <3>4. Abstract!Call(t)
          BY <1>1, <1>3, <1>4, <3>2, <3>3 DEF Abstract!Call, MappedState, MappedRequest
      <3> QED BY <3>4 DEF Abstract!Next
    <2> QED BY <2>1, <2>2
  <1>6. CASE OpenFails(t)
    <2>1. pc[t] = "send" /\ pc'[t] = "idle"  BY <1>2, <1>6 DEF OpenFails, Goto, Return
    <2>2. /\ StateOf(t) = "calling" /\ StateOf(t)' = "none"
          /\ RequestOf(t)' = NoRequest
        BY <2>1, RequestStates, RequestStatesNext
    <2>3. Abstract!Fail(t)
        BY <1>1, <1>3, <1>4, <2>2
           DEF Abstract!Fail, Abstract!Nothing, NoRequest, MappedState, MappedRequest
    <2> QED BY <2>3 DEF Abstract!Next
  <1>7. CASE Send(t)
    <2>1. pc[t] = "send" /\ pc'[t] = "wait"  BY <1>2, <1>7 DEF Send, Goto
    <2>2. stdin' # <<>>
      <3> DEFINE req == [by |-> t, method |-> wire[t], key |-> key[t]]
      <3>1. req \in Requests
          BY <1>7, <2>1 DEF IInv, RequestsAreReady, Requests
      <3>2. stdin' = Append(stdin, req)  BY <1>7 DEF Send
      <3>3. stdin \in Seq(Requests)  BY DEF IInv, TypeOK
      <3> HIDE DEF req
      <3> QED BY <3>1, <3>2, <3>3
    <2>3. /\ StateOf(t) = "calling" /\ StateOf(t)' = "asked"
          /\ RequestOf(t)' = [method |-> wire[t], key |-> key[t]]
        BY <1>7, <2>1, <2>2, RequestStates, RequestStatesNext DEF Send
    <2>4. wire[t] \in Methods /\ key[t] \in Keys
        BY <2>1 DEF IInv, RequestsAreReady
    <2>5. \E m \in {"info", "prepare", "save_value", "save", "load", "evict"}, k \in Keys :
              MappedRequest' = [MappedRequest EXCEPT ![t] = [method |-> m, key |-> k]]
        BY <1>3, <2>3, <2>4 DEF Methods
    <2>6. MappedState[t] = "calling" /\ MappedState' = [MappedState EXCEPT ![t] = "asked"]
        BY <1>3, <1>4, <2>3
    <2>7. Abstract!Ask(t)
        BY <1>1, <2>5, <2>6 DEF Abstract!Ask, MappedState, MappedRequest
    <2> QED BY <2>7 DEF Abstract!Next
  <1>8. CASE Receive(t)
    <2>1. pc[t] = "wait" /\ pc'[t] = "got" /\ stdout # <<>>
        BY <1>2, <1>8 DEF Receive, Goto
    <2>2. stdin = <<>>  BY <2>1 DEF IInv, RequestIsOut, Promised
    <2>3. /\ StateOf(t) = "served" /\ StateOf(t)' = "none"
          /\ RequestOf(t)' = NoRequest
        BY <2>1, <2>2, RequestStates, RequestStatesNext
    <2>4. Abstract!Answer(t)
        BY <1>1, <1>3, <1>4, <2>3
           DEF Abstract!Answer, Abstract!Nothing, NoRequest, MappedState, MappedRequest
    <2> QED BY <2>4 DEF Abstract!Next
  <1>9. CASE Lost(t)
    <2>1. /\ pc[t] = "send" \/ (pc[t] = "wait" /\ stdin = <<>> /\ stdout = <<>>)
          /\ pc'[t] = "idle"
        BY <1>2, <1>9 DEF Lost, Goto, Return, IInv, ServerIsCurrent
    <2>2. /\ StateOf(t) \in {"calling", "lost"} /\ StateOf(t)' = "none"
          /\ RequestOf(t)' = NoRequest
        BY <2>1, RequestStates, RequestStatesNext
    <2>3. Abstract!Fail(t)
        BY <1>1, <1>3, <1>4, <2>2
           DEF Abstract!Fail, Abstract!Nothing, NoRequest, MappedState, MappedRequest
    <2> QED BY <2>3 DEF Abstract!Next
  <1> QED BY <1>5, <1>6, <1>7, <1>8, <1>9

\* The server serves the request of the one thread that waits.
LEMMA ServerRefines ==
    ASSUME UNCHANGED setup, IInv, Promised, Serve \/ ServeRaises \/ ServerDies
    PROVE  [Abstract!Next]_<<MappedValues, MappedRecords, MappedState, MappedRequest>>
  <1> USE DEF MappedValues, MappedRecords
  <1>1. pc \in [Threads -> {"idle", "handshake", "gate", "lock", "send", "wait", "got", "close"}]
          /\ UNCHANGED <<pc, wire, key>>
      BY DEF IInv, TypeOK, Serve, ServeRaises, ServerDies
  <1>2. CASE \A t \in Threads : pc[t] # "wait"
    <2>1. stdin = <<>> /\ stdout = <<>>
        BY <1>2 DEF IInv, TypeOK, PipesAreQuiet, Promised
    <2>2. ServerDies  BY <2>1 DEF Serve, ServeRaises
    <2>3. UNCHANGED <<stdin, stdout, values, records>>  BY <2>1, <2>2 DEF ServerDies, store
    <2>4. UNCHANGED <<MappedState, MappedRequest>>
        BY <1>1, <2>3, NoRequestMoves
    <2> QED BY <2>3, <2>4 DEF Promised
  <1>3. ASSUME NEW t \in Threads, pc[t] = "wait"
        PROVE  [Abstract!Next]_<<MappedValues, MappedRecords, MappedState, MappedRequest>>
    <2>1. /\ MappedState' = [MappedState EXCEPT ![t] = StateOf(t)']
          /\ MappedRequest' = [MappedRequest EXCEPT ![t] = RequestOf(t)']
        BY <1>1, <1>3, OneRequestMoves
    <2>2. /\ MappedState[t] = StateOf(t) /\ MappedRequest[t] = RequestOf(t)
          /\ RequestOf(t) = [method |-> wire[t], key |-> key[t]]
          /\ RequestOf(t)' = RequestOf(t)
        BY <1>1, <1>3, RequestStates, RequestStatesNext DEF MappedState, MappedRequest
    <2>3. MappedRequest' = MappedRequest
        BY <2>1, <2>2 DEF MappedRequest
    <2>4. CASE Serve \/ ServeRaises
      <3>1. stdout = <<>> /\ stdin = <<[by |-> t, method |-> wire[t], key |-> key[t]]>>
          BY <1>3, <2>4 DEF Serve, ServeRaises, IInv, RequestIsOut, Promised
      <3>2. Head(stdin).method = wire[t] /\ Head(stdin).key = key[t] /\ stdin' = <<>>
          BY <2>4, <3>1 DEF Serve, ServeRaises
      <3>3. stdout' # <<>>
        <4>1. PICK a \in {Head(stdout')} : stdout' = Append(stdout, a)
            BY <2>4, <3>1 DEF Serve, ServeRaises, Answered
        <4> QED BY <3>1, <4>1
      <3>4. StateOf(t) = "asked" /\ StateOf(t)' = "served"
          BY <1>1, <1>3, <3>1, <3>2, <3>3, RequestStates, RequestStatesNext
      <3>5. \/ UNCHANGED <<values, records>>
            \/ wire[t] = "save_value" /\ values' = values \cup {key[t]} /\ UNCHANGED records
            \/ wire[t] = "save" /\ records' = records \cup {key[t]} /\ UNCHANGED values
            \/ wire[t] = "evict" /\ records' = records \ {key[t]} /\ UNCHANGED values
          BY <2>4, <3>2 DEF Serve, ServeRaises, Effect, store
      <3>6. Abstract!Serve(t)
          BY <2>1, <2>2, <2>3, <3>4, <3>5
             DEF Abstract!Serve, MappedState, MappedRequest, Promised
      <3> QED BY <3>6 DEF Abstract!Next
    <2>5. CASE ServerDies
      <3>1. UNCHANGED <<MappedValues, MappedRecords>>
          BY <2>5 DEF ServerDies, store, Promised
      <3>2. StateOf(t) \in {"asked", "served", "lost"} /\ StateOf(t)' \in {"served", "lost"}
              /\ (StateOf(t)' = "served" => StateOf(t) \in {"served"})
        <4>1. stdin' = <<>> /\ stdout' \in {stdout, <<>>}  BY <2>5 DEF ServerDies
        <4>2. stdin # <<>> => stdout = <<>>
            BY <1>3 DEF IInv, RequestIsOut, Promised
        <4> QED BY <1>1, <1>3, <4>1, <4>2, RequestStates, RequestStatesNext
      <3>3. CASE StateOf(t)' = StateOf(t)
          BY <2>1, <2>2, <2>3, <3>1, <3>3 DEF MappedState
      <3>4. CASE StateOf(t)' # StateOf(t)
        <4>1. Abstract!Lose(t)
            BY <2>1, <2>2, <2>3, <3>1, <3>2, <3>4
               DEF Abstract!Lose, MappedState, MappedRequest
        <4> QED BY <4>1 DEF Abstract!Next
      <3> QED BY <3>3, <3>4
    <2> QED BY <2>4, <2>5
  <1> QED BY <1>2, <1>3

\* With any number of threads, keys and processes that die: a request takes
\* effect at most once, while its caller waits, and never after the caller
\* was told that the connection is lost.
THEOREM RemoteImplementsRemoteCall == Spec => ImplementsRemoteCall
  <1> DEFINE mapped == <<MappedValues, MappedRecords, MappedState, MappedRequest>>
  <1>1. Init => Abstract!Init
    <2> SUFFICES ASSUME Init PROVE Abstract!Init
        OBVIOUS
    <2>1. \A t \in Threads : StateOf(t) = "none" /\ RequestOf(t) = NoRequest
        BY RequestStates DEF Init
    <2> QED BY <2>1 DEF Init, Abstract!Init, Abstract!Nothing, NoRequest
  <1>2. ASSUME IInv, [Next]_vars PROVE [Abstract!Next]_mapped
    <2>1. CASE UNCHANGED vars
        BY <2>1 DEF vars, connection, store, MappedValues, MappedRecords, MappedState,
                    MappedRequest, StateOf, RequestOf, Promised
    <2>2. CASE Next /\ ~Promised
        BY <2>2 DEF Next, MappedValues, MappedRecords, MappedState, MappedRequest, Promised
    <2>3. CASE Next /\ Promised
      <3>1. ASSUME NEW t \in Threads, Interrupted(t) PROVE FALSE
          BY <2>3, <3>1 DEF Interrupted, Promised
      <3> QED BY <1>2, <2>3, <3>1, CallerStutters, ConnectionRefines, ServerRefines
              DEF Next, Step
    <2> QED BY <1>2, <2>1, <2>2, <2>3
  <1>3. IInv /\ [Next]_vars => [Abstract!Next]_mapped
      BY <1>2
  <1>4. UNCHANGED mapped <=> UNCHANGED Abstract!abstract
      BY DEF Abstract!abstract, MappedValues, MappedRecords, MappedState, MappedRequest
  <1>5. IInv /\ [Next]_vars => [Abstract!Next]_(Abstract!abstract)
      BY <1>3, <1>4
  <1> QED BY <1>1, <1>5, Invariance, PTL DEF Spec, ImplementsRemoteCall, Abstract!Spec
=============================================================================
