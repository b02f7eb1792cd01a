\* Nested views of two caches, every operation; or one query of up to three
\* records, while another thread writes twice; or up to three threads and keys of
\* a cache that keeps two records.
SPECIFICATION Program
CONSTANTS
    t1 = t1  t2 = t2  t3 = t3
    Threads = {t1, t2, t3}
    Keys = {1, 2, 3}
    max_size = 2
    Programs <- LimitPrograms
    None = None
    A = A  B = B  roA = roA  roB = roB  pool = pool  pooled = pooled  stack = stack
    backed = backed  shown = shown  shownPool = shownPool  mixed = mixed  fresh = fresh  shadow = shadow  chosen = chosen  late = late
    Views = {A, B, roA, roB, pool, pooled, stack, backed, shown, shownPool, mixed, fresh, shadow, chosen, late}
    Kind <- TreeKind
    Members <- TreeMembers
    LookupKeys = {k1}
    Results = {r1, r2}
    Hidden = {r2}
    Nothing = Nothing
    Ids = {"i1", "i2", "i3"}
    ValueOf <- MCValueOf
    Stored <- MCStored
    Questions <- MCQuestions
    MaxTime = 2
    MaxWrites = 2
    Missing = Missing
INVARIANTS
    ViewsAgree
    QueriesTellTheCache
    CountIsExact
    CirclesPassTheLimit
PROPERTIES
    RecordsChangeAsAsked
    SaveLeavesAtMostMaxSize
CHECK_DEADLOCK FALSE
