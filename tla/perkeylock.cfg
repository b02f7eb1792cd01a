\* Two threads on one storage, two keys, all kinds of operations.
SPECIFICATION FairSpec
CONSTANTS
    Threads = {t1, t2}
    Instances = {self}
    Keys = {1, 2}
    Tables = {b1, b2}
    Locks = {l1, l2}
    ShrinkArgs <- SortedShrinks
    None = None
PROPERTIES
    WaitersProgress
    ImplementsKeyMutex
