SPECIFICATION MCSpec
CONSTANTS
    Items <- MCItems
    Schemas = {a, b, c}
    Empty = empty
    Databases = {"main", "other"}
    Main = "main"
    SkipHooks = FALSE
    SkipBackup = FALSE
    MaxLen = 2
    MaxCommands = 5
    MaxEdits = 2
    MaxFailures = 1
    Names = {n}
    Callers = {p, q}
    StableVersions = {5, 6}
    TestingVersions = {7}
    DefaultSize = 1
    MaxCalls = 2
    MaxOperations = 3
    MaxLost = 1
    Profiles = {f, g}
    Dirs = {x}
    Keys = {1, 2, 3, 4}
    Bad = bad
    Tasks = {s, t}
    None = none
    MaxLogins = 2
    MaxExpired = 1
INVARIANTS
    MigrationsInv
    HistoriesLeadOn
    ProposalsInv
    ReportsAreTrue
    AccountsInv
PROPERTIES
    MigrateKeepsWord
    LoginLasts
SYMMETRY Symmetry
ACTION_CONSTRAINT KeysInOrder
CHECK_DEADLOCK FALSE
