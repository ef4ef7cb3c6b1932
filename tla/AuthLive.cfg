SPECIFICATION FairSpec
CONSTANTS
    Reqs = {r1, r2}
    Tokens = {t1}
    Passwords = {p1, p2}
    SetupPasswords = {p1}
    None = None
    maximumSessions = 1
    MaxRevision = 2
PROPERTIES EveryRequestAnswered
