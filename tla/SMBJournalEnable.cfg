SPECIFICATION Spec
CONSTANTS
    NoSid = NoSid
    Sids = {s1, s2}
    MaxRevision = 12
    MaxForeign = 1
PROPERTIES
    EnableFromCredentialOnly
