\* Two threads of one process and another process; processes die.
SPECIFICATION FairSpec
CONSTANTS
    Threads = {"t1", "t2", "t3"}
    Processes = {1, 2}
    ProcessOf <- Home
    Records = {r1, r2}
    r1 = r1
    r2 = r2
    Programs <- TwoPrograms
    MaxSaves = 2
    MaxCrashes = 1
    None = None
INVARIANTS
    LoadsAreWhole
PROPERTIES
    RecordStays
    OperationsReturn
CHECK_DEADLOCK FALSE
