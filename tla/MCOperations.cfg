SPECIFICATION MCSpec
CONSTANTS
    Last = 3
    Migrating = {1, 2}
    Troubles <- MCTroubles
    None = None
    Processes = {"p", "q"}
    PrefixLength = 2
    TagLength = 2
    PlainLength = 2
    NoFile = NoFile
    Situations <- MCSituations
    s1 = s1
    u1 = u1
    NoValue = NoValue
    Watchdog = Watchdog
    Scanners <- MCScanners
    Readers <- MCReaders
    ScanCodes <- MCScanCodes
    WatchdogCodes <- MCWatchdogCodes
    MaxTime = 2
    Edits = 1
    StaleTicks = 2
    WarningTicks = 2
    CriticalTicks = 3
    RetentionTicks = 0
    Faults = 1
    WatchedFacts <- MCFacts
INVARIANTS RolloutInv FilesAndEvidenceInv
PROPERTIES RolloutIsPrepared PreflightPassIsEarned KeyIsKept AlertsReachReaders BackupsRemain 
CHECK_DEADLOCK FALSE
