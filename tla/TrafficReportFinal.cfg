SPECIFICATION Spec
CONSTANTS
    Users = {u1}
    Dirs = {"up"}
    Addrs = {a1}
    None = None
    MaxDoings = 3
    MaxRestarts = 1
    MaxFailures = 1
    DeviceCap = 1
INVARIANT FinalDataSent
CHECK_DEADLOCK FALSE
