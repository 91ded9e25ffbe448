SPECIFICATION Spec
CONSTANTS
    Ids = {1, 2}
    Keys = {"k1", "k2"}
    Limits = {"l1"}
    Configs = {1, 2}
    Invalid = {}
    BadACL = {}
    Malformed = {}
    Faulty = {"users"}
    None = None
    UserLists <- SomeLists
    PushOffers = {FALSE}
    ConfigSteps <- Onward
    EventCap = 1
    StatusCap = 1
    MaxChanges = 1
    MaxFaults = 1
    MaxLinks = 0
    MaxRenewals = 0
PROPERTY ConfigTakenByPolling
CHECK_DEADLOCK FALSE
