\* Two processes on one root, three prefix lengths; one of them may die.
SPECIFICATION Spec
CONSTANTS
    Processes = {1, 2}
    Keys = {1, 2, 3}
    Lengths = {0, 1, 2}
    Prefix <- Prefixes
    Programs <- AllPrograms
    MaxJobs = 3
    MaxCrashes = 1
    Torn = Torn
    None = None
INVARIANTS
    MigrationsAreSafe
    EntriesStay
    TransformsEach
CHECK_DEADLOCK FALSE
