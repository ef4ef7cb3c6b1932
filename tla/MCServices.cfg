SPECIFICATION MCSpec
CONSTANTS
    NVolumes = 2
    Groups <- MCGroups
    Pins = {p1}
    MaxMounts = 1
    MaxGeneration = 1
    MaxFaults = 1
INVARIANTS
    AllOrNothing
    ConsumersStopFirst
    NothingLeftBehind
PROPERTIES
    NoUnmountUnderUse
    LossStopsService
    EveryCallReturns
\* A runtime that was closed, or is under review, may have nothing left to do.
CHECK_DEADLOCK FALSE
