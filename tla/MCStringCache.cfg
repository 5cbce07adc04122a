CONSTANTS
    Goroutines = {g1, g2}
    Offsets <- MCOffsets
    Payload <- MCPayload
    Size <- MCSize
    Slots = 4
    Mult = 40503
    MinCachedLen = 2
    MaxCachedLen = 100
    Nil = Nil
SPECIFICATION Spec
INVARIANTS TypeOK EntriesReachable AdmittedAfterRecordedMiss SecondCallInterns
PROPERTIES ImplementsInterning DisplacesOnlyAlternate
