SPECIFICATION Spec
CONSTANTS
    Conns = {1}
    Workers = 2
    MaxRevision = 7
    Version = 2
INVARIANT
    EveryReplyUnderstood
