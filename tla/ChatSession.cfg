SPECIFICATION Spec
CONSTANTS
    Turns = 2
    EnableHistory = TRUE
    MaxLoops = 0
    PlannerLimit = 1
    AnswerLimit = 2
    MaxText = 1
    WireCap = 1
    ChanCap = 1
    MaxFaults = 0
    Clients = {"tui"}
    Plans <- SomePlans
INVARIANT SessionStaysInOneRun
CHECK_DEADLOCK FALSE
