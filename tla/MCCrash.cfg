\* Two devices, crashes and failed writes at any point, then calm.
SPECIFICATION FairSpec
CONSTANTS
    Keys = {"k1"}
    Secrets = {"public", "private"}
    IPs = {"gw", "lan"}
    PublicIPs = {}
    Routes <- FullMesh
    AcceptChoices <- DefaultOrDown
    Faults = {"crash", "file"}
    MaxId = 2
    Slots = {"s1"}
    PostRequests <- PostLan
    PatchRequests = {}
    IntervalRequests = {}
    DupRequests = {}
    Gateway = "gw"
    MaxNewDevicesPerSweep = 1
    Tickers = {"health", "reconcile"}
PROPERTIES StatusConverges ConfConverges
