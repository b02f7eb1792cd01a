\* Two threads and two keys; gc() runs between the calls or at any time.
SPECIFICATION FairSpec
CONSTANTS
    t1 = t1  t2 = t2  a1 = a1  a2 = a2  r1 = r1  r2 = r2  p1 = p1
    Threads = {t1, t2}
    Args = {a1, a2}
    Results = {r1, r2}
    Parts = {p1}
    Children <- OnePart
    BodyResults <- Body
    NoResult = NoResult
    Raised = Raised
    None = None
    MaxCalls = 3
    MaxCallsWithGc = 2
    ArgsWithGc = {a1}
INVARIANTS
    FiledUnderOwnKey
    AnswersAreGenuine
    NoDanglingRecords
PROPERTIES
    NoMissInGap
    GcIsComplete
    CallsReturn
