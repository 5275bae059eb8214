SPECIFICATION LiveSpec
CONSTANTS
    p1 = p1
    p2 = p2
    Nobody = Nobody
    MaxFaults = 3
    MaxFailures = 2
    Pods <- MCPods
INVARIANTS
    TypeOK
    StaleLabelPasses
CHECK_DEADLOCK FALSE
PROPERTY LabelsConverge
