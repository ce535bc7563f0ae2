\* Questions at once, against the rate limiter and a model that may ask for
\* tools for ever.
SPECIFICATION FairSpec
CONSTANTS
    Clients = {"c1"}
    Limit = 2
    Window = 2
    MaxTime = 3
    Fleets <- R1Only
    SubNames = {}
    Readings <- FewReadings
    TrapLogs = {}
    Wrap = 4
    Slots = {"s1", "s2"}
    Bodies <- SomeBodies
    Replies <- FewReplies
    maxToolIterations = 2
    maxHistoryTurns = 2
INVARIANTS LimitHolds LimiterExact CostBounded TranscriptWellFormed
PROPERTIES EveryQuestionAnswered QuestionsProgress
