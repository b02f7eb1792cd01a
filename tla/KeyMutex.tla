------------------------------ MODULE KeyMutex ------------------------------
(***************************************************************************)
(* What PerKeyLockMixin promises to its callers, without saying how: an    *)
(* operation on a key runs while no other thread runs one on the same key, *)
(* operations on different keys overlap freely, and a thread may enter a   *)
(* key it is already inside of (storage/thread_safe.py, lines 19-25).      *)
(*                                                                         *)
(* inside[t] is the stack of keys that thread t has entered and not left.  *)
(***************************************************************************)
EXTENDS Naturals, Sequences

CONSTANTS Threads, Keys

VARIABLE inside

Entered(t) == {inside[t][n] : n \in 1..Len(inside[t])}

Init == inside = [t \in Threads |-> <<>>]

Enter(t, k) ==
    /\ \A u \in Threads \ {t} : k \notin Entered(u)
    /\ inside' = [inside EXCEPT ![t] = Append(@, k)]

Leave(t) ==
    /\ inside[t] # <<>>
    /\ inside' = [inside EXCEPT ![t] = SubSeq(@, 1, Len(@) - 1)]

Next == \E t \in Threads : Leave(t) \/ \E k \in Keys : Enter(t, k)

Spec == Init /\ [][Next]_inside
=============================================================================
