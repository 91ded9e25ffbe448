SPECIFICATION MCSpec
CONSTANTS
    Users = {u1}
    Dirs = {"up"}
    Addrs = {a1}
    None = None
    MaxDoings = 3
    MaxRestarts = 1
    MaxFailures = 1
    DeviceCap = 1
    Uploads = {l1, l2}
    BufMax = 1
    MaxRecords = 2
    MaxStarts = 2
    MaxFaults = 1
    MaxTurns = 1
    NoChannel = NoChannel
    WriteCap = 1
    EventCap = 1
    StatusCap = 1
    MaxLinks = 2
    MaxEvents = 2
INVARIANTS NoByteTwice NoByteLost AddressesKnown AccessOnce NoStrayReader
PROPERTIES EventuallyBilled SwitchFollowed DownNoticed
CHECK_DEADLOCK FALSE
