SPECIFICATION Spec
CONSTANTS
    Reqs = {r1, r2}
    Tokens = {t1, t2, t3}
    Passwords = {p1, p2}
    SetupPasswords = {p1, p2}
    None = None
    maximumSessions = 2
    MaxRevision = 3
SYMMETRY Symmetry
INVARIANTS NoStaleSession FailureIsFinal RevokedChangeIsDecided
