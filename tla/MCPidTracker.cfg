CONSTANTS
  Handlers = {h1, h2, h3}
  Pids = {p1, p2}
  Entries = {e1, e2, e3}
  NoPid = NoPid
  NoEntry = NoEntry
SPECIFICATION FairSpec
INVARIANTS TypeOK MutualExclusion RefcntExact UnlockFindsLocked
PROPERTIES ImplementsPidLock EveryNotificationEnds
