CONSTANTS
    u1 = u1
    u2 = u2
    u3 = u3
    u4 = u4
    c1 = c1
    c2 = c2
    Users = {u1, u2, u3, u4}
    Cntrs = {c1, c2}
    CntrOf <- MCCntrOf
    Inner = {u4}
    Uses <- MCUses
    Resources = {"somaxconn", "panic", "ip_forward"}
    Values = {1, 30, 200}
    HostValue <- MCHostValue
    None = None
SPECIFICATION Spec
INVARIANTS TypeOK HostCoversCaches CacheCoherent HoldersRun
PROPERTIES HostOnlyRaised KeptUntilWritten
