CONSTANTS
    Goroutines = {g1, g2}
SPECIFICATION FairSpec
INVARIANTS TypeOK NoReadAfterUnmap UnmappedOnce
PROPERTIES ErrorAfterClose EventuallyUnmapped
CHECK_DEADLOCK FALSE
