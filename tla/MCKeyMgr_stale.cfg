CONSTANTS
  MaxKeys = 2
  Now = 50
  Horizon = 2
  Policies <- CSK
  FirstPolicy = "csk"
  FirstFiles <- NoKeys
  Changes <- NoChanges
  Timing <- MCTiming
  Operator = {"agents"}
SPECIFICATION Spec
INVARIANTS
  StatesTrue
