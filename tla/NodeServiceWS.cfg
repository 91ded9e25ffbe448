SPECIFICATION Spec
CONSTANTS
    Ids = {1, 2}
    Keys = {"k1", "k2"}
    Limits = {"l1"}
    Configs = {1, 2, 3}
    Invalid = {}
    BadACL = {2}
    Malformed = {3}
    Faulty = {"start", "reload", "update", "add"}
    None = None
    UserLists <- AllLists
    PushOffers = {TRUE, FALSE}
    ConfigSteps <- AnySteps
    EventCap = 1
    StatusCap = 1
    MaxChanges = 2
    MaxFaults = 0
    MaxLinks = 1
    MaxRenewals = 0
INVARIANTS DetectionSound LimitsInStep ServesWhatIsHeld NotLeftStopped
PROPERTY StopsOnlyWithoutUsers
CHECK_DEADLOCK FALSE
