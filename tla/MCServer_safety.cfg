SPECIFICATION ServerSpec
CONSTANTS
  Subjects = {"rwlock", "quota", "store", "fetch", "request"}
  Threads = {t1, t2, t3}
  Calls <- AllCalls
  Patience = 1
  CounterLimit = 0
  MaxArrivals = 3
  QClients = {c1, c2, c3}
  QWithJob = {c1, c2}
  QMaxima = {0, 1, 2}
  QSoft = 1
  FcFetches = {"f1", "f2", "f3"}
  FcLoops = {"l1", "l2"}
  FcCall <- MCCall
  FcDomain <- MCDomain
  FcNoClient = "none"
  FcZspill = 2
  FcSpillatMin = 1
  FcSpillatMax = 2
  FcScenarios <- MCFetches
  RqRequests = {"x1", "x2", "x3", "u"}
  RqTcp = {"x1", "x2", "x3"}
  RqIds = {1, 2}
  RqFixed <- MCNoFixed
  RqRetries = 1
  RqRebinds = 1
  RqScenarios <- MCRequests
  Modulus = 8
  IndexSize = 2
  MaxOffset = 6
  TargetSize = 3
  MaxVersion = 5
  Sizes = {1}
  Scenarios <- MCSecondary
INVARIANTS
  ReleaseAndDestroyRequires
  QuotaExact
  SecondaryDurable
  FcOneCallback
  FcBooks
  RqOneCallback
  RqBooks
PROPERTIES
  ImplementsRWLock
  QuotaBound
CHECK_DEADLOCK FALSE
