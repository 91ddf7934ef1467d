SPECIFICATION Spec
CONSTANTS
    Rules = {"r"}
    Marks = {"m", "n"}
    Functions = {f, g}
    MaxCalls = 3
    MaxKeys = 3
INVARIANT RunsInOrder
CHECK_DEADLOCK FALSE
