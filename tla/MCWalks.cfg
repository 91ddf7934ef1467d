SPECIFICATION MCSpec
CONSTANTS
    a = a
    b = b
    c = c
    d = d
    Names <- MCNames
INVARIANTS OrderIsDoneRules SortedButForCycles
PROPERTIES SameAsRecursive CyclicIsExact
CHECK_DEADLOCK FALSE
