SPECIFICATION ServerFairSpec
CONSTANTS
  Subjects = {"rwlock", "store", "fetch", "request"}
  Threads = {t1, t2, t3}
  Calls <- BlockingCalls
  Patience = 1
  CounterLimit = 6
  MaxArrivals = 0
  QClients = {c1, c2, c3}
  QWithJob = {c1, c2}
  QMaxima = {0, 1, 2}
  QSoft = 1
  FcFetches = {"f1", "f2", "f3"}
  FcLoops = {"l1", "l2"}
  FcCall <- MCCall
  FcDomain <- MCDomain
  FcNoClient = "none"
  FcZspill = 2
  FcSpillatMin = 0
  FcSpillatMax = 2
  FcScenarios <- MCFetchesLive
  RqRequests = {"x1", "x2", "x3", "u"}
  RqTcp = {"x1", "x2", "x3"}
  RqIds = {1, 2}
  RqFixed <- MCNoFixed
  RqRetries = 1
  RqRebinds = 1
  RqScenarios <- MCRequestsLive
  Modulus = 8
  IndexSize = 2
  MaxOffset = 9
  TargetSize = 5
  MaxVersion = 5
  Sizes = {1, 2}
  Scenarios <- MCScenarios
INVARIANTS
  MutualExclusion
  JournalUsable
PROPERTIES
  LockProgress
  ImplementsDurableZone
  CompactionKeepsAndFrees
  DumpedInTheEnd
  FcCalledBack
  RqCalledBack
CHECK_DEADLOCK FALSE
