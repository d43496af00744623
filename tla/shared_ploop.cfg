SPECIFICATION Spec
CONSTANT MaxDisks = 4
INVARIANTS RestoredUnlessBroken MergedUnlessBroken MergedLast
\* a migration ends
CHECK_DEADLOCK FALSE
