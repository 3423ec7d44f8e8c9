SPECIFICATION MCSpec
CONSTANTS MaxPut = 3 MaxBreaks = 2
INVARIANTS WireTypeOK SeqnContinuity PackagesKeepNumbers NoSendWithoutSocket NothingAckedIsLost
PROPERTIES PopIsSafe ForgetsOnlyAcknowledged UsesProcessorCorrectly ImplementsChannel DeliveredOrStranded PauseAndResumeEnd StopEndsThread
