SPECIFICATION Spec
CONSTANTS
    Ids = {1, 2}
    Keys = {"k1", "k2"}
    Limits = {"l1"}
    Configs = {1, 2}
    Invalid = {}
    BadACL = {}
    Malformed = {}
    Faulty = {}
    None = None
    UserLists <- AllLists
    PushOffers = {FALSE}
    ConfigSteps <- Onward
    EventCap = 1
    StatusCap = 1
    MaxChanges = 2
    MaxFaults = 0
    MaxLinks = 0
    MaxRenewals = 0
PROPERTY StartsWithUsers
CHECK_DEADLOCK FALSE
