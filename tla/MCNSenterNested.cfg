CONSTANTS
    Requests = {outer, inner, s1}
    Async = {}
    Inner <- Nested
    None = None
    Fails = {"answer"}
    Faulty = {s1}
    outer = outer
    inner = inner
SPECIFICATION FairSpec
PROPERTIES EveryRequestReturns
CHECK_DEADLOCK FALSE
