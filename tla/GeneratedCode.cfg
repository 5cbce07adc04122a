CONSTANTS
    Nil = Nil
    Files = {"models.go", "other.go"}
    Packages <- AllPackages
    Outputs <- AllOutputs
SPECIFICATION CodeSpec
INVARIANTS
    OutputsWhole GenerationConverges
    DecodesAsDocumented DecodersAgree HiddenTailsClear FailuresContained
CHECK_DEADLOCK FALSE
