CONSTANTS
    Bits = 3
    V4Bits = 2
    Separator = 1
    Databases <- Sound
    Prefixes <- AllPrefixes
    Options <- DefaultOptions
SPECIFICATION Spec
INVARIANT ContainingNetworkYielded
CHECK_DEADLOCK FALSE
