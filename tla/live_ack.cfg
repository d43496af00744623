SPECIFICATION Spec
CONSTANTS
    MAX_ITERS_COUNT = 2
    MIN_ITER_PAGES_COUNT = 1
    MIN_ITER_FS_XFER_BYTES = 1
    MAX_ITER_GROW_RATE = 10
    Pages <- MCPages
    Jobs <- PidJobs
    Faults = {"ack"}
INVARIANTS RestoredCantFail
\* a migration ends, and both programs with it
CHECK_DEADLOCK FALSE
