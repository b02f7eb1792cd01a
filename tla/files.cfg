\* Two threads of one process and another process; processes die; keys are rotated.
SPECIFICATION Spec
CONSTANTS
    Threads = {"t1", "t2", "t3"}
    Processes = {1, 2}
    ProcessOf <- Home
    Programs <- ThreePrograms
    Keys = {"k1", "k2"}
    KeyLists <- ThreeKeyLists
    Compress <- SecondZips
    MaxSaves = 3
    MaxCrashes = 1
    None = None
INVARIANTS
    FilesAreWhole
    RecordSurvives
PROPERTIES
    LoadsGoForward
CHECK_DEADLOCK FALSE
