SPECIFICATION FairSpec
CONSTANTS NoValue = NoValue
  Values = {v1, v2, v3} MaxSets = 5
INVARIANTS TypeOK Convergence
PROPERTIES MasterIsNotOverruled EventuallyAgree
CHECK_DEADLOCK FALSE
