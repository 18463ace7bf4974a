CONSTANTS
    Names <- MCNames
    Temperatures = {0, 2, 7}
    Environments <- MCTools
    MaxLives = 1
SPECIFICATION LifespanSpec
INVARIANT ToolsNeedACredential
CHECK_DEADLOCK FALSE
