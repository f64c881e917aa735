SPECIFICATION LoopSpec
CONSTANTS
  Actions <- RestartActions
  PeerEvidence <- NoEvidence
  Steady <- AllSignals
  RequireHeartbeat = TRUE
  AutoRecovery = TRUE
  FixedTaskId = FALSE
  FailureAction = "NavigateToPose"
  MaxActions = 2
  MaxPending = 2
  MaxFeedback = 2
  MaxDuplicates = 1
  Plan <- RestartPlan
  MaxBoots = 1
INVARIANTS SuccessIsOwn ExecutedOnceInOrder
PROPERTY ExpiredStaysUnexecuted
