SPECIFICATION LiveSpec
CONSTANTS
    r1 = r1
    r2 = r2
    MaxName = 1
    HistoryLimit = 1
    MaxConsecutiveFailures = 1
    MinAge = 1
    MaxTime = 3
    MaxChanges = 1
    NamesReused = TRUE
    Skew = 1
    LateStarts <- MCNames
    ActiveShown <- MCNone
    Slotless <- MCSecond
    Replicas <- MCReplicas
    Names <- MCNames
    Verdicts <- MCAll
    Endings <- MCSucceeding
PROPERTIES
    TerminalIsFinal
    HistoryConverges
    RunningJobsRun
