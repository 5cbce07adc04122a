CONSTANTS
    Bits = 4
    V4Bits = 3
    Separator = 2
    Databases <- MCDatabases
    Visiting = 255
    Queries <- MCQueries
SPECIFICATION TreeSpec
INVARIANTS
    AgreesWithLookup Increasing CoversLookups EveryRecordListed ErrorsMeanUnsound
    HeightsExact EachNodeOnce VerifiedIffSound VerifiedIteratesCleanly
PROPERTY Terminates
CHECK_DEADLOCK FALSE
