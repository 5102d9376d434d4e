CONSTANTS
    Requests = {s1, s2, a1}
    Async = {a1}
    Inner <- Flat
    None = None
    Fails = {"start", "config", "first", "decode", "send", "answer"}
    Faulty = {s1, a1}
    outer = outer
    inner = inner
SPECIFICATION FairSpec
INVARIANTS SyncNotReaped ResultExact
PROPERTIES EveryRequestReturns ReaperReturns
