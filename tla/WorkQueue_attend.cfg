SPECIFICATION Spec
CONSTANTS
    Period = 3
    Grace = 2
    LeadJitter = 1
    ReconcileMin = 3
    AfterError = 2
    AfterConflict = 1
    Backoff = 1
    ResyncPeriod = 9
    MaxTime = 9
    MaxLag = 2
    MaxChanges = 2
    Verdicts <- MCVerdicts
INVARIANTS
    TypeOK
    NeverForgotten
    SeriesGone
    MissNoticed
