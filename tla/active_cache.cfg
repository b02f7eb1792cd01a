\* Two submitting threads and one worker; or one thread that loads caches by
\* three names while files, directory and environment change twice; or a thread
\* and a runner that make two calls with hooks.
SPECIFICATION Program
CONSTANTS
    Threads = {t1, t2}
    Workers = {w1}
    Caches = {a}
    Defaults = {d1, d2}
    BodyCaches = {b}
    MaxDepth = 2
    MaxTasks = 1
    None = None
    Dirs <- MCDirs
    Up <- MCUp
    Home = "user"
    Places = {"sub", "srv"}
    WorkDir = "work"
    Layouts <- MCLayouts
    Xdg = "xdg"
    Names = {"none", "default", "a"}
    NoName = "none"
    KeysSet <- MCKeysSet
    Given <- MCGiven
    MaxMoves = 2
    MaxMade = 2
    NoFile = NoFile
    Broken = Broken
    Nothing = Nothing
    DefaultNames <- NamedDefault
    CachesOf <- Described
    Building <- CachesBuilt
    ProgramThreads = {c1}
    Runners = {r1}
    HookChoices <- MCHookChoices
    Own <- MCOwn
    Configured <- MCConfigured
    Unknown = Unknown
    Runtime <- MCRuntime
    MaxBlocks = 1
    MaxTicks = 1
    MaxChanges = 1
    MaxCalls = 2
    Unset = Unset
INVARIANTS
    ResultsGoWhereBound
    NamesStayOne
    ConfigIsPortable
    RecordsTellTheirCalls
CHECK_DEADLOCK FALSE
