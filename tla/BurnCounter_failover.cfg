SPECIFICATION PlainSpec
CONSTANTS
    r1 = r1
    r2 = r2
    Nobody = Nobody
    MaxCount = 1
    MaxTime = 1
    MaxRV = 4
    MaxFaults = 1
    Replicas <- MCReplicas
    Counts <- MCCounts
    Times <- MCTimes
    Specs <- MCTwoSpecs
    Outcomes <- MCOutcomes
SYMMETRY MCSymmetry
CHECK_DEADLOCK FALSE
INVARIANTS
    TypeOK
    IInv
    MarkerRemembered
PROPERTIES
    LedgerSpec
    NoPhantomBurn
    LatchNeverRegresses
