CONSTANTS
    Callers = {c1, c2, c3}
    NoCaller = NoCaller
    Intervals <- MCIntervals
    Starts <- MCStarts
    MaxGrants = 4
    Horizon = 6
SPECIFICATION HistorySpec
INVARIANTS HistoryTypeOK Spacing LockDiscipline BoundedOvertaking
PROPERTY EveryCallerLeaves
