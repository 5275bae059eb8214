SPECIFICATION Spec
CONSTANTS
    YearLen = 3
    MaxSlots = 3
    Horizon = 12
    LastYear = 9
    DayLen = 2
    ReachYears = 1
    LookbackYears = 2
    Rail = 2
    Year <- MCYear
    YearStart <- MCYearStart
    Schedules <- MCSchedules
CHECK_DEADLOCK FALSE
INVARIANTS
    TypeOK
    LoopInvariants
    PrevCorrect
    NextSlotCorrect
    MissedRunsCorrect
PROPERTY Terminates
