CONSTANTS
  MaxKeys = 3
  Now = 50
  Horizon = 2
  Policies <- ZskFirst
  FirstPolicy = "split"
  FirstFiles <- NoKeys
  Changes <- NoChanges
  Timing <- MCTiming
  Operator = {"checkds"}
SPECIFICATION Spec
INVARIANTS
  NothingMissed
