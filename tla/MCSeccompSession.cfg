CONSTANTS
    c1 = c1
    c2 = c2
    i1 = i1
    e1 = e1
    e2 = e2
    i2 = i2
    Sessions = {i1, e1, e2, i2}
    Cntrs = {c1, c2}
    CntrOf <- MCCntrOf
    InitOf <- MCInitOf
    PidOf <- MCPidOf
    InitPidFd <- MCInitPidFd
    Fds = {1, 2, 3, 4, 5, 6, 7}
    Opens <- MCOpens
SPECIFICATION Spec
INVARIANTS FdStillOwn ClosesOwn  KeptUntilInitDies
PROPERTIES NotifReceived SessionEnds
