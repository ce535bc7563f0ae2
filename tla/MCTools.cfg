\* Every tool with every kind of argument, one question at a time.
SPECIFICATION Spec
CONSTANTS
    Clients = {"c1"}
    Limit = 1
    Window = 1
    MaxTime = 1
    Fleets <- SomeFleets
    SubNames <- SomeSubNames
    Readings <- AllReadings
    TrapLogs <- SomeTrapLogs
    Wrap = 3
    Slots = {"s1"}
    Bodies <- PlainBody
    Replies <- ManyReplies
    maxToolIterations = 1
    maxHistoryTurns = 2
INVARIANTS QueriesAreSafe ReferenceKept RankingSorted RateTotalTrue
PROPERTIES QuestionsProgress
