SPECIFICATION Spec
CONSTANTS
    Ids = {1, 2}
    Specs = {s1}
    Configs = {c1}
    DeviceMaps = {d1}
    Readers = {ws}
    None = None
    MaxEvents = 4
INVARIANT ReconciledDeltasKept
CHECK_DEADLOCK FALSE
