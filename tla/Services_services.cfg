SPECIFICATION MCSpec
CONSTANTS
    c1 = c1  c2 = c2  k1 = k1  k2 = k2  NoOne = NoOne
    Coros = {k1, k2}  MaxHostCalls = 4
    Keys = {k1, k2}  Callers = {c1, c2}  Free = NoOne  MaxRuns = 3  MaxResources = 4
    Threads = {c1, c2}  Nobody = NoOne  States = {"idle", "busy"}  Events = {"go", "end"}
    Matrix <- MCMatrix  Initial = "idle"  MaxCalls = 3
    Resolvers = {c1, c2}  Abstract = {"IDb"}  Deps <- MCDeps  Optional <- MCOptional
    Lazy <- MCLazy  Callable <- MCCallable  Bound <- MCBound  Scoped = {"Db"}
    MaxResolutions = 2  MaxErrors = 1  MaxScopes = 1
    Users = {c1, c2}  NoUser = NoOne  ShardNames = {k1, k2}  Elsewhere = {"url"}  MaxEngines = 2  MaxFiles = 2
    Databases = {k1}  MaxCommands = 2  Settings = {k1, k2}  Values = {"u"}  MaxSources = 2
    Emitters = {c1, c2}  EventNames = {"a", "e"}  Expected = {"e"}  Engine = {}
    MaxEmits = 3  MaxMonitorCalls = 3
    Requesters = {c1, c2}  Managers = {k1}  MaxChecks = 2  MaxSwitches = 2
    Sources = {"machines", "tasks"}  Interval = 1  MaxClock = 2  MaxRequests = 2  MaxActivity = 1
    Capacity = 2  MaxRecords = 4  MaxFaults = 2
    Widths = {2, 5}  MaxModelChanges = 3
    DisplayValues <- MCDisplayValues  Rows = 3  NaN = NaN
    Channels <- MCScreens  MaxEntries = 2  MaxLines = 4
    Modes = {"m1", "m2"}  Commands <- MCCommands  ModeCommand <- MCModeCommand  Reserved = {"F1"}
    Scope <- MCScope  MaxAsking = 2  MaxAside = 3  MaxBars = 3
    Order <- MCScreens  MaxOpens = 3
    Panels <- MCPanels  Region <- MCRegion  MaxHosts = 2  MaxLaunches = 2
    Workers = {c1, c2}  Methods <- MCMethods  Threshold = 1  MaxTime = 4
    MaxMutations = 3  MaxStarts = 2
    Screens <- MCScreens  MaxEvents = 2  MaxUpsets = 1
    Part = {"async", "exclusive", "scope", "container", "shards", "database", "settings",
            "machine", "doctor", "monitor", "health", "console", "logs", "bench",
            "options", "layouts", "view", "order", "output", "thread", "mutators",
            "bars", "screens"}
INVARIANTS WorkKept ContainerKept PersistenceKept SettingsKept MachineKept DoctorIsRight
           ObserversAreRight WorkbenchKept ScreenKept
CHECK_DEADLOCK FALSE
