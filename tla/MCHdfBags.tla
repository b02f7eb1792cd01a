------------------------------- MODULE MCHdfBags ------------------------------
(***************************************************************************)
(* Three keys: 1 and 2 share their first character, each has a bag of its    *)
(* own by two.                                                               *)
(***************************************************************************)
EXTENDS HdfBags, TLC

Prefixes == (0 :> [k \in Keys |-> k]) @@ (1 :> <<"a", "a", "b">>) @@ (2 :> <<"aa", "ab", "ba">>)

Job(do, n, k, to) == [do |-> do, len |-> n, key |-> k, to |-> to]
Nobody == [p \in Processes |-> {}]
Layout(zero, one, two) == (0 :> zero) @@ (1 :> one) @@ (2 :> two)
Program(start, calls, image) == [filed |-> start, jobs |-> calls, image |-> image]

Identity == [k \in Keys |-> k]
\* 1 is renamed to 2, a key that is free.
Rename == [Identity EXCEPT ![1] = 2]

SomeLayouts == {Layout({1, 2}, {}, {}), Layout({}, {1, 2}, {}), Layout({1}, {1, 2}, {}),
                Layout({}, {2}, {1}), Layout({3}, {1}, {2, 3})}

Migrations ==
    {Program(start, [p \in Processes |-> {Job("consolidate", None, None, to)}], Identity) :
        start \in SomeLayouts, to \in Lengths}
    \cup {Program(Layout({}, {1, 2}, {}), [p \in Processes |-> {Job("refix", 1, None, to)}], Identity) :
        to \in {0, 2}}

\* Each process saves and evicts a key of its own in the bag they share.
Sharing ==
    {Program(Layout({}, given, {}),
             [p \in Processes |-> {Job("save", 1, p, None), Job("evict", 1, p, None)}], Identity) :
        given \in {{}, {1}}}

Transforms ==
    {Program(Layout({}, {1, 3}, {}),
             [Nobody EXCEPT ![1] = {Job("transform", 1, None, None)}], image) :
        image \in {Identity, Rename}}

Rebagging ==
    {Program(start, [p \in Processes |-> IF p = 1 THEN {Job("rebag", n, None, None)}
                                         ELSE {Job("save", n, 2, None), Job("evict", n, 2, None)}],
             Identity) : n \in {0, 1}, start \in {Layout({1}, {1}, {})}}

AllPrograms == Migrations \cup Sharing \cup Transforms \cup Rebagging
=============================================================================
