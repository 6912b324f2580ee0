SPECIFICATION MaintenanceSpec
CONSTANTS
  Subjects = {"qpzone", "notify", "refresh", "rpz"}
  QzReaders = {"r1", "r2"}
  QzNodes = {n}
  QzTypes = {"RRSIG"}
  QzRdata = {1, 2}
  QzSigTypes = {"RRSIG"}
  QzBucket <- MCBucket
  QzLoaded <- MCLoaded
  QzMaxSerial = 3
  QzMaxWrites <- MCWrites
  QzMayEnd = TRUE
  Limiters = {"notifyrl", "startupnotifyrl"}
  PushPop = {"startupnotifyrl"}
  Pertics <- MCRates
  NfSlots = {n1, n2, n3, n4}
  AlsoNotify <- MCAlsoNotify
  NfKeyed = {}
  NsNames <- MCNsNames
  NsAddrs <- MCNsAddrs
  NfMaxSerial = 2
  NfMaxFails = 0
  RZones = {"y", "z"}
  RPrimaries <- MCPrimaries
  RServers = {"p", "q"}
  RIxfr = {"p"}
  RTls = {"q"}
  RDetachable = {"y"}
  TransfersIn = 2
  TransfersPerNs <- MCTransfers
  RMaxSerial = 1
  RMaxFaults = 0
  RpzZones = {0, 1}
  RpzContents <- MCPolicies
  RpzAddrs <- MCAddrs
  RpzQnames <- MCQnames
  RpzDisabled = {}
  RpzMaxVersion = 2
  RpzMaxFaults = 0
  CzCatalogs = {"A", "B"}
  CzInitials <- MCInitials
  CzContents <- MCCatalogs
  CzStatic = {}
  CzNames = {"m", "n"}
  CzMaxReconf = 1
INVARIANTS
  QzReadersSafe
  QzTidy
  RlOneWakeup
  NfOwned
  NfAnnounced
  TransferQuota
  NoZoneForgotten
  RpzSummaryRight
  RpzLookupsRight
CHECK_DEADLOCK FALSE
