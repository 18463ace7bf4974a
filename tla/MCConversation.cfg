CONSTANTS
    MaxTurns = 2
    Sessions = {s1}
    Setups <- MCSetups
    MaxBadSaves = 1
SPECIFICATION ConversationSpec
INVARIANTS ConversationTypeOK AnsweredTurnsAreRemembered HistoryReadsAsConversation EndsOnceAndTruly CliShowsTheAnswer
PROPERTY EveryTurnEnds
