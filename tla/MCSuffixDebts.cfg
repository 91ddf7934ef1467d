SPECIFICATION Spec
CONSTANTS
    Inputs <- MCInputs
    FirstSetsOf <- FirstSets
    NullableOf <- NonConsumingRules
    Overlaps <- MCOverlaps
    Pushes = 5
INVARIANTS
    HeldIffOwed
    ItemsCarryNoDebt
