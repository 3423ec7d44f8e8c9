SPECIFICATION MCSpec
CONSTANTS Missing = Missing Null = Null
  Entities = {e1, e2}
  Kinds = {"default", "thread", "synchronous", "outOfOrder"}
  MaxMessages = 4
INVARIANTS TypeOK ForgetsNothing DeferredActionsAreSafe KeepsOrder
PROPERTIES StopsWithLifetime HandlesEverything
CHECK_DEADLOCK FALSE
