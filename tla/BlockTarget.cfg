CONSTANTS
    Targets <- MCTargets
    Kind <- MCKind
    Pins <- MCPins
    Roster <- MCRoster
    Object <- MCObject
    MaxFaults = 1
    MaxRounds = 2
SPECIFICATION LiveSpec
INVARIANTS
    RetainedWhileBorrowed
    FailedAdmissionIsWhole
PROPERTIES
    SupervisionEnds
CHECK_DEADLOCK FALSE
