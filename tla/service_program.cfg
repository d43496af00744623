SPECIFICATION FairSpec
CONSTANTS
    Modes <- BothModes
    MaxLen = 3
    Buf = 2
    MaxCalls = 4
    MaxSignals = 2
INVARIANTS StoppedBetweenMigrations
PROPERTIES LinkImplemented StopsUnlessMissed CallEnds
\* the client, the thread and the process end
CHECK_DEADLOCK FALSE
