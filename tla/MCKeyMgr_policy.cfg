CONSTANTS
  MaxKeys = 3
  Now = 50
  Horizon = 2
  Policies <- Policy
  FirstPolicy = "old"
  FirstFiles <- NoKeys
  Changes <- PolicyChanges
  Timing <- MCTiming
  Operator = {"checkds", "loadkeys"}
SPECIFICATION FairSpec
INVARIANTS
  NoBogus
  StatesTrue
  NothingMissed
PROPERTIES
  InsecureInTheEnd
