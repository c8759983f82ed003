SPECIFICATION Spec
CONSTANTS
    Versions <- MCVersions
    Filters <- MCFilters
    Sources = 3
    Documents <- MCDocuments
    Limit = 2
    Procs = {1, 2}
    Packages = {v, w}
    Instances = {i, j}
    None = none
    MaxCommands = 3
    MaxFaults = 1
    Clients = {1, 2}
    Names = {a, b}
    Dirs = {e}
    Missing = missing
    MaxTasks = 3
    MaxCuts = 1
    Installers = {1, 2}
    Builds = {1, 2, 3}
    Nightly = {3}
    Packed = {2}
    MaxRuns = 3
    MaxDeaths = 1
    Lines = {7, 8}
    Phases = {"beta"}
    MaxActs = 2
    Nil = nil
INVARIANTS
    CLIInv
    SelectionIsStable
    CatalogIsReference
    PackagesInv
    InstancesInv
    ReleasesInv
PROPERTY
    PublishedStays
CONSTRAINT CutBefore
CHECK_DEADLOCK FALSE
