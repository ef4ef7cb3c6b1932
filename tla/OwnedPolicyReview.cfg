SPECIFICATION OwnerSpec
CONSTANTS
    None = None
    Bad = Bad
    Contents = {v1, v2}
    Lease = {l1, l2}
    MaxPublished = 2
    MaxForeign = 2
    maxPolicyLeases = 1
INVARIANTS
    EveryChangeReviewed
