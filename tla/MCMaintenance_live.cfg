SPECIFICATION MaintenanceFairSpec
CONSTANTS
  Subjects = {"notify", "refresh", "rpz", "catz"}
  QzReaders = {"r1", "r2"}
  QzNodes = {n}
  QzTypes = {"RRSIG"}
  QzRdata = {1, 2}
  QzSigTypes = {"RRSIG"}
  QzBucket <- MCBucket
  QzLoaded <- MCLoaded
  QzMaxSerial = 3
  QzMaxWrites <- MCWrites
  QzMayEnd = TRUE
  Limiters = {"notifyrl", "startupnotifyrl"}
  PushPop = {"startupnotifyrl"}
  Pertics = {}
  NfSlots = {n1, n2, n3}
  AlsoNotify <- MCAlsoNotify
  NfKeyed = {}
  NsNames <- MCNsNames
  NsAddrs <- MCNsAddrs
  NfMaxSerial = 2
  NfMaxFails = 1
  RZones = {"z"}
  RPrimaries <- MCPrimaries
  RServers = {"p", "q"}
  RIxfr = {"p"}
  RTls = {}
  RDetachable = {"z"}
  TransfersIn = 1
  TransfersPerNs <- MCTransfers
  RMaxSerial = 2
  RMaxFaults = 1
  RpzZones = {0}
  RpzContents <- MCPolicies
  RpzAddrs <- MCAddrs
  RpzQnames <- MCQnames
  RpzDisabled = {}
  RpzMaxVersion = 3
  RpzMaxFaults = 1
  CzCatalogs = {"A", "B"}
  CzInitials <- MCInitials
  CzContents <- MCCatalogs
  CzStatic = {}
  CzNames = {"m", "n"}
  CzMaxReconf = 1
INVARIANTS
  CatzSound
PROPERTIES
  NfEventuallyTold
  NoRegress
  CatchesUp
  RpzCatchesUp
  CatzSettles
CHECK_DEADLOCK FALSE
