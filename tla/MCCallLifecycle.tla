--------------------------- MODULE MCCallLifecycle ---------------------------
\* Small instances of CallLifecycle for TLC.
EXTENDS CallLifecycle

CONSTANTS t1, t2, a1, a2, r1, r2, p1

\* The result r1 is a collection whose one part p1 is filed separately.
OnePart == [d \in Digests |-> IF d = r1 THEN {p1} ELSE {}]

\* The body is a function of its argument.
Body == [a \in Args |-> IF a = a1 THEN {r1} ELSE {r2}]
=============================================================================
