INIT MCInit
NEXT MCNext
CONSTANTS Client = Client Server = Server MaxCalls = 0
  Ends <- MCEnds MaxBinds <- ServerTwice
INVARIANT Agreement
CHECK_DEADLOCK FALSE
