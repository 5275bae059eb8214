SPECIFICATION Spec
CONSTANTS
    MaxFailing = 1
    MaxChanges = 3
    MaxFaults = 0
    Verdicts <- MCVerdicts
    Specs <- MCSpecs
PROPERTY
    AxisEventSent
