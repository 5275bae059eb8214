SPECIFICATION Spec
CONSTANTS
    r1 = r1
    r2 = r2
    MaxName = 3
    HistoryLimit = 2
    MaxConsecutiveFailures = 1
    MinAge = 0
    MaxTime = 2
    MaxChanges = 0
    NamesReused = FALSE
    Skew = 0
    LateStarts <- MCSecond
    ActiveShown <- MCFirst
    Slotless <- MCNone
    Replicas <- MCOne
    Names <- MCNames
    Verdicts <- MCMeasured
    Endings <- MCFinal
INVARIANTS
    TypeOK
    AnnotationFits
PROPERTIES
    TerminalIsFinal
    RoomyAlarmNeedsSuccess
