CONSTANTS
    Files = {"models.go", "other.go"}
    Packages <- AllPackages
    Outputs <- NoOutputs
SPECIFICATION Spec
INVARIANT SucceedsInAnyOrder
