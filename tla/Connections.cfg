SPECIFICATION Spec
CONSTANTS
    Users = {u1}
    Addrs = {1, 2}
    Conns = {k1, k2}
    DeviceLimits = {0, 1}
    None = None
    MaxStray = 1
    Speeds = {0, 1}
    Penalty = 9
    Trigger = 1
    KickAfter = 1
    Release = 1
    IPs = {10, 20, 127}
    Names = {"n1", "n2"}
    Protocols = {"tcp", "udp"}
    Members = {"m1", "m2", "m3"}
    Flows = {f1}
    Forbidden = {127}
    Public = {20}
    MaxPort = 7
    DNSPort = 5
    ACLConfigs <- MCConfigs
    Rosters <- MCRosters
    Dests <- MCDests
    Nil = Nil
    One = k1
    StatNodes = {1}
    IdOf <- MCIdOf
    Window = 1
    SharedSamples = 2
    SharedRejects = 2
    DialMinFails = 1
    DialShare = 2
    GenSpan = 2
    Unseen = Unseen
    MaxCount <- MCMaxCount
    MaxAge = 7
INVARIANTS
    CountsAgree
    ReachedIfListed
    LimitedButForExcess
    XSlotsAccounted
    XCountersAgree
    PolicyAsWritten
    StatsHonest
PROPERTY KicksReach
CHECK_DEADLOCK FALSE
