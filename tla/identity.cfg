\* Values stored by two threads, short digests of three bits, and questions.
SPECIFICATION Spec
CONSTANTS
    Threads = {t1, t2}
    ValuesSaved <- SavedValues
    Depths = {0, 2}
    None = None
    Unset = Unset
    Wildcard = Wildcard
    Nobody = Nobody
    Doubles <- SomeDoubles
    Functions <- SomeFunctions
    Function <- TheFunctions
    Hooks <- HookedClasses
    FullDigests <- ThreeDigests
    DigestLength = 3
    MinLength = 1
    Members = {m1, m2}
    Shorts <- ShortDigests
    Specimens <- SomeSpecimens
    Profiles <- SomeProfiles
    Spelled <- TheSpelled
    Flags <- AllFlags
    Calls <- SomeCalls
    Questions <- SomeQuestions
SYMMETRY Symmetry
INVARIANTS
    DigestsMeanValues
    OneKeyPerCall
    QueriesAgree
    StoredLoadBack
    ShortsStayTrue
CHECK_DEADLOCK FALSE
