\* A PATCH with a null field.
SPECIFICATION Spec
CONSTANTS
    Keys = {"k1"}
    Secrets = {"public", "private"}
    IPs = {"gw"}
    PublicIPs = {}
    Routes <- NoRoutes
    AcceptChoices <- DefaultOnly
    Faults = {}
    MaxId = 1
    Slots = {"s1"}
    PostRequests = {}
    PatchRequests <- PatchNull
    IntervalRequests = {}
    DupRequests = {}
    Gateway = "gw"
    MaxNewDevicesPerSweep = 1
    Tickers = {"health", "reconcile"}
INVARIANT NilIsNotWritten
