SPECIFICATION MCSpec
CONSTANTS NoValue = NoValue
  Keys = {k1, k2} Values = {v1, v2} MaxChanges = 5
INVARIANTS TypeOK Convergence AcknowledgementComes
PROPERTIES MasterIsNotOverruled
CHECK_DEADLOCK FALSE
