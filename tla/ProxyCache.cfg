CONSTANTS
  Threads = {t1, t2}
  Tags = {i1, i2}
  Addrs = {a1, a2}
  Proxies = {p1, p2, p3}
  NoThread = NoThread
  NoKey = NoKey
  NoProxy = NoProxy
  Failures = {"early", "unwind", "orphan"}
SPECIFICATION FairCacheSpec
INVARIANTS
  TypeOK
  ReachableIsCached
  KeysAreOwned
  AnswerOwnsImpl
PROPERTIES
  OnlyExpiredEvicted
  OneProxyPerImpl
  CallsReturn
  HandlesGo
  EntriesGo
CHECK_DEADLOCK FALSE
