SPECIFICATION MCSpec
CONSTANTS
    Paths <- MCPaths
    Matches <- MCMatches
    Extensions = "schema"
    MaxEdits = 1
    MaxTroubles = 1
    Syncers = {s1, s2}
    Nobody = nobody
    Unsafe = {2}
    MaxVersions = 2
    MaxEvents = 1
    MaxChanges = 3
    MaxErrors = 2
INVARIANTS
    WatchInv
    SyncIsTrue
PROPERTIES
    ChangesHandled
    AbortEnds
    SyncFollowsExtension
    ReadyIsTrue
    SyncConverges
CHECK_DEADLOCK FALSE
