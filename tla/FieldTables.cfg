CONSTANTS
    Nil = Nil
    Scalar = Scalar
    Types = {"T", "U", "V"}
    Keys <- MCKeys
    Fingerprint <- MCFingerprint
    Slots = {0, 1}
    Programs <- MCPrograms
SPECIFICATION Spec
INVARIANTS FieldsResolved LookupsExact
CHECK_DEADLOCK FALSE
