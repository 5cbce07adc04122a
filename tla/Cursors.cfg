CONSTANTS
    Decoders = {"a", "b"}
    Databases <- MCDatabases
    MaxHeld = 3
SPECIFICATION Spec
INVARIANTS TokensProveSuccessors EntriesInOrder
CHECK_DEADLOCK FALSE
