SPECIFICATION FairSpec
CONSTANTS
    MAX_ITERS_COUNT = 3
    MIN_ITER_PAGES_COUNT = 1
    MIN_ITER_FS_XFER_BYTES = 1
    MAX_ITER_GROW_RATE = 10
    Transfers <- MCTransfers
    Jobs <- MCJobs
INVARIANTS TypeOK StartedOnceUnlessInDoubt UmountedIfUmountWorks FailureGivesBack SuccessKeepsRunning
PROPERTIES StoppedIsTemporary HandoverDecided
\* a migration ends, and both programs with it
CHECK_DEADLOCK FALSE
