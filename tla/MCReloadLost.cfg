\* docker exec may fail once: telegraf is left behind.
SPECIFICATION FairSpec
CONSTANTS
    Keys = {"k1"}
    Secrets = {"public", "private"}
    IPs = {"gw"}
    PublicIPs = {}
    Routes <- NoRoutes
    AcceptChoices <- DefaultOnly
    Faults = {"docker"}
    MaxId = 1
    Slots = {}
    PostRequests = {}
    PatchRequests = {}
    IntervalRequests = {}
    DupRequests = {}
    Gateway = "gw"
    MaxNewDevicesPerSweep = 1
    Tickers = {"reconcile"}
PROPERTY TelegrafConverges
