SPECIFICATION LiveSpec
CONSTANTS
    r1 = r1
    Nobody = Nobody
    MaxCount = 3
    MaxTime = 2
    MaxRV = 12
    MaxFaults = 1
    MaxChanges = 2
    Grace = 1
    Replicas <- MCOne
    Counts <- MCCounts
    Times <- MCTimes
    Slots <- MCSlots
    Specs <- MCEdited
    Outcomes <- MCBroken
INVARIANTS
    MTypeOK
    EachMissOnce
PROPERTY StatusConverges
