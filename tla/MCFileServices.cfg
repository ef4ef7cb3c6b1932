SPECIFICATION MCSpec
CONSTANTS
    Users = {"al", "bo"}
    Vols = {"v1"}
    Policies <- MCPolicies
    MaxEvents = 2
    MaxChecks = 2
\* A closed service has nothing left to do.
CHECK_DEADLOCK FALSE
INVARIANTS
    KeptWhileUsed
    AnswersAreSo
    DoubtContains
PROPERTIES
    NoneOutOfTurn
