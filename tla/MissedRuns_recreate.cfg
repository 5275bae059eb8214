SPECIFICATION MSpec
CONSTANTS
    r1 = r1
    Nobody = Nobody
    MaxCount = 3
    MaxTime = 3
    MaxRV = 12
    MaxFaults = 0
    MaxChanges = 2
    Grace = 1
    Replicas <- MCOne
    Counts <- MCCounts
    Times <- MCTimes
    Slots <- MCSlots
    Specs <- MCInherit
    Outcomes <- MCRecreated
INVARIANT EachMissOnce
