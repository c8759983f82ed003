SPECIFICATION MCSpec
CONSTANTS
    Names = {main, dev, next}
    First = main
    Temps = {uuid}
    Bodies = {1, 2, 3}
    MaxCommands = 4
    MaxFaults = 1
    Dumpers = {s, t}
    Databases = {x, y}
    Blocks = 2
    None = none
    MaxDumps = 3
    MaxRestores = 1
    MaxDeaths = 1
    Editors = {v, w}
    Texts = {k, l, m}
    Accepted = {k, l}
    Absent = absent
    InProject = TRUE
    MaxSaves = 2
    MaxEdited = 3
    MaxByHand = 1
    MaxKilled = 1
INVARIANTS
    
    DumpsAreWhole
    EditsInv
PROPERTIES
    BranchFollowsFiles
    NothingReplaced
    ReplacesWhatWasRead
CONSTRAINTS
    ThirdDump
    Strayed
ACTION_CONSTRAINT InOrder
CHECK_DEADLOCK FALSE
SYMMETRY Symmetry
