SPECIFICATION MCSpec
CONSTANTS
    p1 = p1
    p2 = p2
    v1 = v1
    v2 = v2
    w1 = w1
    w2 = w2
    l1 = l1
    l2 = l2
    None = None
    Bad = Bad
    NoProc = NoProc
    NoVal = NoVal
    Procs <- MCProcs
    Vals <- MCVals
    Transitions <- MCTransitions
    MaxRevision = 3
    Contents <- MCContents
    Lease <- MCLease
    MaxPublished = 2
    MaxForeign = 2
    maxPolicyLeases = 1
SYMMETRY Symmetry
INVARIANTS
    CurrentIntact
    PromisedDurable
    AnswersTrue
    LeasePins
PROPERTIES
    CommitOutcome
    ImplementsRegister
