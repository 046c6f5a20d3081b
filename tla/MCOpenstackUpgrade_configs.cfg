SPECIFICATION Spec
CONSTANTS
    MaxRelease = 2
    Py3 = 2
    Retries = 0
    MaxSets = 1
    MaxOps = 0
    MaxFails = 0
    MaxFlaky = 0
    MaxRefused = 0
    Managed <- Off
INVARIANT CorrectConfigsSelected
CHECK_DEADLOCK FALSE
