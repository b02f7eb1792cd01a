----------------------------- MODULE RemoteCall -----------------------------
(***************************************************************************)
(* What one remote call promises, whatever carries it: a request takes     *)
(* effect at most once, and only while its caller waits for the answer; a  *)
(* caller that is answered was served exactly once; one whose connection   *)
(* is lost may or may not have been, and is never served afterwards.       *)
(***************************************************************************)

CONSTANTS Threads, Keys

VARIABLES
    values,    \* the calls whose result is stored on the remote
    records,   \* the calls that are filed there
    state,     \* what has become of a thread's request
    request    \* what it asks for, [method, key]

abstract == <<values, records, state, request>>

Nothing == [method |-> "none", key |-> "none"]

Init ==
    /\ values = {} /\ records = {}
    /\ state = [t \in Threads |-> "none"]
    /\ request = [t \in Threads |-> Nothing]

Call(t) ==
    /\ state[t] = "none"
    /\ state' = [state EXCEPT ![t] = "calling"]
    /\ UNCHANGED <<values, records, request>>

Ask(t) ==
    /\ state[t] = "calling"
    /\ state' = [state EXCEPT ![t] = "asked"]
    /\ \E m \in {"info", "prepare", "save_value", "save", "load", "evict"}, k \in Keys :
        request' = [request EXCEPT ![t] = [method |-> m, key |-> k]]
    /\ UNCHANGED <<values, records>>

\* The effect of a request, or none when it is refused.
Serve(t) ==
    /\ state[t] = "asked"
    /\ state' = [state EXCEPT ![t] = "served"]
    /\ LET m == request[t].method  k == request[t].key IN
        \/ UNCHANGED <<values, records>>
        \/ m = "save_value" /\ values' = values \cup {k} /\ UNCHANGED records
        \/ m = "save" /\ records' = records \cup {k} /\ UNCHANGED values
        \/ m = "evict" /\ records' = records \ {k} /\ UNCHANGED values
    /\ UNCHANGED request

Answer(t) ==
    /\ state[t] = "served"
    /\ state' = [state EXCEPT ![t] = "none"]
    /\ request' = [request EXCEPT ![t] = Nothing]
    /\ UNCHANGED <<values, records>>

Lose(t) ==
    /\ state[t] \in {"asked", "served"}
    /\ state' = [state EXCEPT ![t] = "lost"]
    /\ UNCHANGED <<values, records, request>>

Fail(t) ==
    /\ state[t] \in {"calling", "lost"}
    /\ state' = [state EXCEPT ![t] = "none"]
    /\ request' = [request EXCEPT ![t] = Nothing]
    /\ UNCHANGED <<values, records>>

Next ==
    \E t \in Threads : Call(t) \/ Ask(t) \/ Serve(t) \/ Answer(t) \/ Lose(t) \/ Fail(t)

Spec == Init /\ [][Next]_abstract
=============================================================================
