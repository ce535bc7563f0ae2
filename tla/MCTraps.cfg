\* Traps received and read while both processes open and migrate traps.db.
SPECIFICATION FairSpec
CONSTANTS
    Keys = {"k1", "k2"}
    Secrets = {"public", "private"}
    IPs = {"gw", "lan"}
    PublicIPs = {}
    Routes <- NoRoutes
    AcceptChoices <- DefaultOnly
    Faults = {"crash", "db"}
    MaxId = 2
    Slots = {"s1"}
    PostRequests = {}
    PatchRequests <- PatchSome
    IntervalRequests = {}
    DupRequests = {}
    Packets <- SomePackets
    Tables <- SomeTables
    MaxTraps = 2
    ReadLimits = {0, 1}
INVARIANTS MigrationComplete ReadableTrapsTrue AttributionComplete
PROPERTIES TrapsServe
