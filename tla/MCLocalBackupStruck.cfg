SPECIFICATION BackupSpec
CONSTANTS
    Listers = {l1}
    MaxBackups = 2
    MaxRunning = 2
    MaxGeneration = 1
    Wishes = {"Auto"}
INVARIANTS
    OnlyDeadBackupsRemoved
CHECK_DEADLOCK FALSE
