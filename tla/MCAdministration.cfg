CONSTANTS
    l1 = l1
    None = None
    Accounts <- MCAccounts
    Leases <- MCLeases
    Others = {1}
    FirstID = 1
    LastID = 3
    MaxRecords = 2
    MaxLive = 2
    MaxLeases = 1
    MaxRevision = 3
    MaxSMB = 5
    MaxForeign = 1
SPECIFICATION MCSpec
INVARIANTS
    IdentityNeverReused
    ReopensUnlessTorn
    AuthorityOutlivesUse
    NothingAmbiguous
    PageIsTrue
PROPERTIES
    TokenNeverRevives
    EditsAreKept
\* A closed owner and an answered policy have nothing left to do.
CHECK_DEADLOCK FALSE
