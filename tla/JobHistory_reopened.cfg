SPECIFICATION Spec
CONSTANTS
    r1 = r1
    r2 = r2
    MaxName = 1
    HistoryLimit = 1
    MaxConsecutiveFailures = 1
    MinAge = 1
    MaxTime = 3
    MaxChanges = 0
    NamesReused = FALSE
    Skew = 1
    LateStarts <- MCNames
    ActiveShown <- MCNone
    Slotless <- MCNone
    Replicas <- MCReplicas
    Names <- MCNames
    Verdicts <- MCMeasured
    Endings <- MCEndings
PROPERTY RunningViewIsNewJob
