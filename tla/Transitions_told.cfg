SPECIFICATION LiveSpec
CONSTANTS
    MaxFailing = 1
    MaxChanges = 3
    MaxFaults = 1
    Verdicts <- MCVerdicts
    Specs <- MCSpecs
INVARIANTS
    TypeOK
    StopAnnounced
PROPERTIES
    EventsMatch
    GaugesConverge
