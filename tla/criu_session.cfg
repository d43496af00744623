SPECIFICATION FairSpec
CONSTANTS
    Drivers <- MCDrivers
    Links <- MCLinks
INVARIANTS NetworkKept BridgedOnce MisreportedByHook
PROPERTIES DumpImplemented SessionEnds
\* a session ends
CHECK_DEADLOCK FALSE
