CONSTANTS
    Ids = {a, b}
    Netns = {n1, n2}
    Objs = {o1, o2, o3}
    Fds = {3, 4}
    Callers = {c1, c2}
    NoObj = NoObj
    NoNetns = NoNetns
    NoFd = 0
    NoServer = NoServer
    NoNode = NoNode
    Modes <- MCModes
SPECIFICATION NodeSpec
SYMMETRY Symmetry
VIEW Live
INVARIANTS NetnsListed StateSameNetns NetnsExact PidfdExact ServersExact AttrCached
