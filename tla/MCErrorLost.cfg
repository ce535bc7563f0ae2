\* A tool that fails, and what the model is told of it.
SPECIFICATION Spec
CONSTANTS
    Clients = {"c1"}
    Limit = 1
    Window = 1
    MaxTime = 0
    Fleets <- R1Only
    SubNames = {}
    Readings <- FewReadings
    TrapLogs = {}
    Wrap = 4
    Slots = {"s1"}
    Bodies <- PlainBody
    Replies <- CpuReplies
    maxToolIterations = 2
    maxHistoryTurns = 2
INVARIANT ToolErrorsReachModel
