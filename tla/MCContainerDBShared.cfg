CONSTANTS
    Ids = {a, b, c}
    Netns = {n1}
    Objs = {o1, o2, o3, o4}
    Fds = {3, 4, 5}
    Callers = {c1}
    NoObj = NoObj
    NoNetns = NoNetns
    NoFd = 0
    NoServer = NoServer
    NoNode = NoNode
    Modes <- MCSharedModes
SPECIFICATION NodeSpec
SYMMETRY Symmetry
VIEW Live
INVARIANTS SameNetnsSameState
