CONSTANTS
    Nil = Nil
    Types <- IntegerTypes
    Records <- IntegerRecords
    Values <- MCValues
SPECIFICATION Spec
INVARIANT IntegersKeepTheirValue
