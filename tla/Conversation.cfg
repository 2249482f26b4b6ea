SPECIFICATION Spec
CONSTANTS
    Turns = 2
    EnableHistory = TRUE
    MaxLoops = 1
    PlannerLimit = 1
    AnswerLimit = 2
    MaxText = 1
    WireCap = 1
    ChanCap = 1
    MaxFaults = 1
    Clients = {"whole", "tui"}
    Plans <- SomePlans
INVARIANTS AnswerRelayed FollowUpSeesStoredAnswers HistoryOfWholeAnswers
PROPERTIES FailuresReplanned QuestionEnds
CHECK_DEADLOCK FALSE
