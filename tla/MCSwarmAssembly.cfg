CONSTANTS
    Names <- MCNames
    Temperatures = {0, 2, 7}
    Environments <- MCEnvironments
    MaxLives = 2
SPECIFICATION LifespanSpec
INVARIANTS LifespanTypeOK SwarmIsAsConfigured NoMidRunSurprise AgentsHaveTheirTools ModelsAsConfigured ReportTellsTheSwarm TracesAreFlushed GraphOnOpenSaver
CHECK_DEADLOCK FALSE
