SPECIFICATION Spec
CONSTANTS Missing = Missing Null = Null
  Entities = {e1}
  Kinds = {"default", "thread", "synchronous", "outOfOrder"}
  MaxMessages = 2
INVARIANT NothingForgotten
CHECK_DEADLOCK FALSE
