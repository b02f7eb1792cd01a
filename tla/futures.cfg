\* Three calls for one key; the program ends when all are answered.
SPECIFICATION FairSpec
CONSTANTS
    c1 = c1  c2 = c2  c3 = c3
    Callers = {c1, c2, c3}
    Earlier = Earlier
    NoFuture = NoFuture
INVARIANTS
    InFlightIsSettled
PROPERTIES
    OnlyValuesAreFiled
    FuturesFinish
CHECK_DEADLOCK FALSE
