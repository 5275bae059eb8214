SPECIFICATION SteadySpec
CONSTANTS
    r1 = r1
    r2 = r2
    Nobody = Nobody
    MaxCount = 1
    MaxTime = 0
    MaxRV = 4
    MaxFaults = 0
    Replicas <- MCOne
    Counts <- MCCounts
    Times <- MCTimes
    Specs <- MCSpecs
    Outcomes <- MCOutcomes
CHECK_DEADLOCK FALSE
INVARIANT BaselineNeverLeads
