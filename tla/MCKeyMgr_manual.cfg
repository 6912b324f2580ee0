CONSTANTS
  MaxKeys = 2
  Now = 50
  Horizon = 2
  Policies <- Forever
  FirstPolicy = "csk"
  FirstFiles <- NoKeys
  Changes <- NoChanges
  Timing <- MCTiming
  Operator = {"checkds", "rollover"}
SPECIFICATION Spec
INVARIANTS
  NoBogus
  KeysInUseOnDisk
