CONSTANTS
    MaxTurns = 2
    Sessions = {s1}
    Setups <- MCImpatient
    MaxBadSaves = 0
SPECIFICATION ConversationSafe
INVARIANT SessionGoesOn
