\* The mixin's lock and the key locks are taken in either order.
SPECIFICATION Spec
CONSTANTS
    t1 = t1  t2 = t2
    Threads = {t1, t2}
    Keys = {1, 2, 3}
    max_size = 2
    Programs <- SaveAndRedigest
    None = None
INVARIANT
    NoDeadlock
CHECK_DEADLOCK FALSE
