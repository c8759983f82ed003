SPECIFICATION DataSpec
CONSTANTS
    Listers = {l1}
    MaxBackups = 3
    MaxRunning = 2
    MaxGeneration = 0
    Wishes = {"Auto"}
    Instances = {a, b, c}
    Nobody = Nobody
    MaxWrites = 3
    Releases = {50, 60, 61, 70, 71}
    Beta = {60, 70}
    BrokenBeta = 60
    Projects = {p, q}
    NoProject = none
    MaxUpgrades = 2
    MaxBreaks = 2
    MaxEdits = 1
SYMMETRY AnyInstance
CONSTRAINTS
    ListsBesideTwo
    RestoresInPairs
INVARIANTS
    BackupInv
    RestoreKeepsWord
    UpgradeKeepsWord
    InPlaceInv
CHECK_DEADLOCK FALSE
