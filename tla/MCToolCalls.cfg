CONSTANTS
    Calls = {c1, c2, c3}
    MaxAttempts = 2
SPECIFICATION ToolCallsSpec
INVARIANTS ToolCallsTypeOK AnswersRestOnReports
PROPERTY EveryRoundSettles
CHECK_DEADLOCK FALSE
