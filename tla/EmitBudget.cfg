SPECIFICATION Spec
CONSTANTS
    Max = 7
    Depth = 2
    Units = {0, 1, 2, 3}
INVARIANTS WithinLimit Covered NothingLeaks
PROPERTY OnlyLetThrough
