SPECIFICATION MCSpec
CONSTANTS
    v1 = v1
    v2 = v2
    o1 = o1
    o2 = o2
    c1 = c1
    c2 = c2
    Torn = Torn
    None = None
    NoSid = NoSid
    Sids = {s1, s2}
    Vals <- MCVals
    OperationIds <- MCOperationIds
    Transitions <- MCTransitions
    MaxRevision = 4
\* The calls are finite in number: when all have returned the channel stops.
CHECK_DEADLOCK FALSE
INVARIANTS
    PolicySurvives
    EvidenceTrue
    AnswerIsTrue
    ConfirmedTrue
PROPERTIES
    EveryCallReturns
    NoSecondAttempt
