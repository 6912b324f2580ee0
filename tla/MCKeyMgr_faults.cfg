CONSTANTS
  MaxKeys = 2
  Now = 50
  Horizon = 2
  Policies <- Algorithms
  FirstPolicy = "old"
  FirstFiles <- NoKeys
  Changes <- AlgorithmChange
  Timing <- MCTiming
  Operator = {"agents", "checkds", "fail", "keygen", "races"}
SPECIFICATION FairSpec
PROPERTIES
  RulesKept
  RetiredKeysLeave
