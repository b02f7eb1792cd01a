\* Two threads; server processes die and are replaced.
SPECIFICATION FairSpec
CONSTANTS
    t1 = t1  t2 = t2  k1 = k1
    Threads = {t1, t2}
    Keys = {k1}
    Setups <- ThreeSetups
    MaxSessions = 2
    None = None
INVARIANTS
    AnswerMatchesRequest
    RecordsHaveValues
PROPERTIES
    ConnectionIsLeft
    ImplementsRemoteCall
    AnswersAreFromThisProcess
