\* A PATCH clears the version while a health check is probing.
SPECIFICATION FairSpec
CONSTANTS
    Keys = {"k1"}
    Secrets = {"public", "private"}
    IPs = {"gw"}
    PublicIPs = {}
    Routes <- NoRoutes
    AcceptChoices <- DefaultOrDown
    Faults = {}
    MaxId = 1
    Slots = {"s1"}
    PostRequests <- PostGw
    PatchRequests <- PatchCleared
    IntervalRequests = {}
    DupRequests = {}
    Gateway = "gw"
    MaxNewDevicesPerSweep = 1
    Tickers = {"health"}
PROPERTY UncredentialedStaysPending
