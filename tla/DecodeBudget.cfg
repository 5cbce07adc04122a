CONSTANTS
    Sections <- MCSections
    Units = 8
    Payload = 6
    MaxDepth = 4
    PreflightCount = 4
    MaxPath = 2
SPECIFICATION Spec
INVARIANTS WorkIsPaidFor RejectedExactlyWhenTooLarge
