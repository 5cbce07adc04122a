CONSTANTS
    Sections <- MCSections
    MaxNesting = 3
SPECIFICATION FileSpec
INVARIANTS
    AccessesOwnNode
    FastPathsAgree CacheOffsetDeterminesString ReadsEndWhereSkipsEnd SizeBoundExact
    EachTurnAtItsValue
PROPERTY LoopsEndBehindContainer
CHECK_DEADLOCK FALSE
