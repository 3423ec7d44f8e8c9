SPECIFICATION MCSpec
CONSTANTS MaxConnections = 2 MaxEvents = 1
  Threads <- MCThreads OtherActions <- MCOtherActions Lifetimes <- MCLifetimes
INVARIANTS LinkTypeOK UsesLiveClient LostMeansUnbound
PROPERTIES ReplacedOnlyWhenDead ReadersAreUndisturbed FollowsTheWire ShutdownEnds
