\* Requests against the gateway probe, the health check and the sweep.
SPECIFICATION Spec
CONSTANTS
    Keys = {"k1"}
    Secrets = {"public", "private"}
    IPs = {"gw", "lan", "wan"}
    PublicIPs = {"wan"}
    Routes <- FullMesh
    AcceptChoices <- DefaultOnly
    Faults = {}
    MaxId = 2
    Slots = {s1, s2}
    PostRequests <- PostBoth
    PatchRequests <- PatchCreds
    IntervalRequests = {}
    DupRequests = {}
    Gateway = "gw"
    MaxNewDevicesPerSweep = 1
    Tickers = {"health", "sweep"}
SYMMETRY SlotSymmetry
INVARIANTS SweepStaysPrivate HandlesNameSameDevice
PROPERTIES RegistrySpec OperatorOwnsSettings
