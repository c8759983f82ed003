SPECIFICATION FairSpec
CONSTANTS
    p1 = p1
    p2 = p2
    p3 = p3
    Procs = {p1, p2, p3}
    InHook = {p3}
    Inodes = {i1, i2}
    NoFile = NoFile
    MaxPolls = 1
INVARIANT ExclusionUnlessRaced
PROPERTIES
    KeepsPromise
    NeverUnlinksAnothersFile
    RequestsAnswered
