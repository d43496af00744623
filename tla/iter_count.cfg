SPECIFICATION Spec
CONSTANTS
    MAX_ITERS_COUNT = 8
    MIN_ITER_PAGES_COUNT = 64
    MIN_ITER_FS_XFER_BYTES = 1048576
    MAX_ITER_GROW_RATE = 10
    Amounts <- MCAmounts
INVARIANTS RoundsWithinMaximum
\* the loop is left: the migration goes on elsewhere
CHECK_DEADLOCK FALSE
