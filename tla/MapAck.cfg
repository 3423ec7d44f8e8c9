SPECIFICATION MCSpec
CONSTANTS NoValue = NoValue
  Keys = {k1, k2} Values = {v1, v2} MaxChanges = 4
PROPERTIES AckIsExpected
CHECK_DEADLOCK FALSE
