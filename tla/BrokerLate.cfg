SPECIFICATION Spec
CONSTANTS Missing = Missing Null = Null
  Entities = {e1}
  Kinds = {"default"}
  MaxMessages = 2
PROPERTY RemovedHandlerIsSilent
CHECK_DEADLOCK FALSE
