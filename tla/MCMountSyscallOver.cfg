SPECIFICATION Spec
CONSTANTS
    Tracees = {t1}
    Dirs <- MCDirs
    Entries <- MCEntries
    MaxMounts = 13
    ProcMounts <- MCProcMounts
    SysMounts <- MCSysMounts
    ProcRoPaths <- MCRoPaths
    ProcMaskPaths <- MCMaskPaths
    MaxAt <- MCMaxAtOver
    Requests <- MCRequestsOver
    InitialMounts <- MCInitial
INVARIANT BaseMountsWhole
