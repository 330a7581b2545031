\* Three viewers dial two targets; one locks after two failures for two ticks.
CONSTANTS
    None = None
    Viewer = {v1, v2, v3}
    Target = {t1, t2}
    MaxFails = 2
    LockoutFor = 2
    FailWindow = 3
SPECIFICATION Spec
INVARIANTS
    OneGuessPerLockout
PROPERTIES
    LockoutEnds
