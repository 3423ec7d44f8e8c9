SPECIFICATION MCSpec
CONSTANTS Client = Client Server = Server MaxCalls = 2
  Ends <- MCEnds MaxBinds <- OnceEach
INVARIANTS CallTypeOK NoDangling SyncIsPossible
PROPERTIES ExecutedInOrder ResultIsFinal CallEnds
CHECK_DEADLOCK FALSE
