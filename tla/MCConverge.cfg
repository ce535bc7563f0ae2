\* The feedback loop: requests and changes on the network, then calm.
SPECIFICATION FairSpec
CONSTANTS
    Keys = {"k1"}
    Secrets = {"public", "private"}
    IPs = {"gw"}
    PublicIPs = {}
    Routes <- NoRoutes
    AcceptChoices <- DefaultOrV3
    Faults = {"db", "file", "gateway", "loss"}
    MaxId = 1
    Slots = {"s1"}
    PostRequests <- PostMix
    PatchRequests <- PatchMix
    IntervalRequests = {45, 300}
    DupRequests = {}
    Gateway = "gw"
    MaxNewDevicesPerSweep = 1
    Tickers = {"health", "reconcile"}
INVARIANTS ReloadSeesWholeFile
PROPERTIES StatusConverges StatusStable ConvergenceStable ConfConverges TelegrafConverges
