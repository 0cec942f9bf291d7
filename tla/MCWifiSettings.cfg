SPECIFICATION Spec
CONSTANTS
    Value = {v1, v2}
    Nothing = nothing
    MaxCalls = 3
INVARIANT SuccessMeansStored
CHECK_DEADLOCK FALSE
