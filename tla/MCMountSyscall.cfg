SPECIFICATION Spec
CONSTANTS
    Tracees = {t1}
    Dirs <- MCDirs
    Entries <- MCEntries
    MaxMounts = 13
    ProcMounts <- MCProcMounts
    SysMounts <- MCSysMounts
    ProcRoPaths <- MCRoPaths
    ProcMaskPaths <- MCMaskPaths
    MaxAt <- MCMaxAt
    Requests <- MCRequests
    InitialMounts <- MCInitial
INVARIANTS    ReadOnlyReaches 
