\* A crash between creating the gateway row and probing it.
SPECIFICATION FairSpec
CONSTANTS
    Keys = {"k1"}
    Secrets = {"public", "private"}
    IPs = {"gw"}
    PublicIPs = {}
    Routes <- NoRoutes
    AcceptChoices <- DefaultOnly
    Faults = {"crash"}
    MaxId = 1
    Slots = {}
    PostRequests = {}
    PatchRequests = {}
    IntervalRequests = {}
    DupRequests = {}
    Gateway = "gw"
    MaxNewDevicesPerSweep = 1
    Tickers = {"health", "reconcile"}
PROPERTY GatewayGetsVerdict
