\* Sweeps under their cap, with devices deleted and the setting changed.
SPECIFICATION FairSpec
CONSTANTS
    Keys = {"k1"}
    Secrets = {"public", "private"}
    IPs = {"gw", "lan", "lan2", "lan3"}
    PublicIPs = {}
    Routes <- RoutesTree
    AcceptChoices <- DefaultOnly
    Faults = {}
    MaxId = 5
    Slots = {}
    PostRequests = {}
    PatchRequests = {}
    IntervalRequests = {}
    DupRequests = {TRUE, FALSE}
    Gateway = "gw"
    MaxNewDevicesPerSweep = 1
    Tickers = {"health", "sweep"}
INVARIANTS TypeOK AttemptIsRecorded
PROPERTIES DiscoveryConverges OptInOnly StatusStable
