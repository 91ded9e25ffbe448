SPECIFICATION Spec
CONSTANTS
    Ids = {1, 2}
    Keys = {"k1", "k2"}
    Limits = {"l1"}
    Configs = {1, 2, 3}
    Invalid = {2}
    BadACL = {}
    Malformed = {}
    Faulty = {"config", "setup"}
    None = None
    UserLists <- SomeLists
    PushOffers = {FALSE}
    ConfigSteps <- Onward
    EventCap = 1
    StatusCap = 1
    MaxChanges = 3
    MaxFaults = 2
    MaxLinks = 0
    MaxRenewals = 1
INVARIANT NothingLost
PROPERTY EventuallyConverged
CHECK_DEADLOCK FALSE
