SPECIFICATION Spec
CONSTANTS
    Users = {u1}
    Addrs = {}
    Conns = {k1, k2}
    DeviceLimits = {0}
    None = None
    Speeds = {0, 1, 2}
    Penalty = 9
    Trigger = 1
    KickAfter = 1
    Release = 2
    Handles = {h1, h2}
    Passes = {main, sync}
    Main = main
    MaxTimers = 2
    Gone = Gone
    Nodes = {n1, n2}
    Instances = 1
    MaxSaves = 3
    Absent = Absent
    Acmes = {a1, a2}
    Renewers = {r1}
    MaxCerts = 3
    Off = Off
    Ids = {1, 2}
    Creds = {p, q}
    Configs = {c1, c2}
    Managed = {c1}
    Nobody = Nobody
    MaxDrains = 1
    Settings = {"a1", "b1", "c2", "bad", "odd"}
    PortOf <- MCPortOf
    Unparsable = {"bad"}
    Uncreatable = {"odd"}
    NodeLists = {us1, us2}
    Nothing = Nothing
    MaxMishaps = 3
    Files <- MCFiles
    Environments <- MCEnvironments
    PanelOf <- MCPanelOf
    DiscoveredIds = {1, 2}
    Missing = Missing
INVARIANTS PenaltyIsEngines BucketsCurrent NoOrphans MailboxUnlessOverlap SettledOnFile RenewalNoticed 
     LayoutSound
PROPERTIES PenaltyEnds WantedRuns StopsOrJams
CHECK_DEADLOCK FALSE
