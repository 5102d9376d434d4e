CONSTANTS
    t1 = t1
    t2 = t2
    r1 = r1
    r2 = r2
    Clients <- MCClients
    Tracees = {t1, t2}
    Readers = {r1, r2}
    Calls <- MCCalls
    Quota <- MCQuota
    Parsers <- MCParsers
    ProcOf <- MCProcOf
    Files <- MCFiles
    MaxSyscalls = 2
    SymlinkMax = 3
    SysboxfsMounts <- MCSysboxfsMounts
    OpenHowLen = 2
    NamePrefixes <- MCNamePrefixes
    Views <- MCViews
    Cntr <- MCCntr
    Host <- MCHost
    Walkers <- MCWalkers
    Starts <- MCStarts
    Names <- MCNames
    MaxFaults = 1
SPECIFICATION Spec
CHECK_DEADLOCK FALSE
INVARIANTS
    
    
    FdsAccounted
    RootLeftClean
    ListedResolves
    EmulatedDirsEmpty

    
