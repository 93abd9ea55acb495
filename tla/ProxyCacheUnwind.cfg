CONSTANTS
  Threads = {t1, t2}
  Tags = {i1}
  Addrs = {a1}
  Proxies = {p1, p2}
  NoThread = NoThread
  NoKey = NoKey
  NoProxy = NoProxy
  Failures = {"unwind"}
SPECIFICATION FairCacheSpec
PROPERTIES
  ExceptionsLeaveGet
CHECK_DEADLOCK FALSE
