CONSTANTS
    WordBits = 8
    ByteBits = 4
    SeparatorSize = 16
    NodeCounts <- MCNodeCounts
    RecordSizes <- MCRecordSizes
    Lengths <- MCLengths
    Stored <- MCStored
    TailSize = 20
SPECIFICATION Spec
INVARIANT OpenEnforcesBounds
CHECK_DEADLOCK FALSE
