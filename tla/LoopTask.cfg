SPECIFICATION LoopSpec
CONSTANTS
  Actions <- WholeTask
  PeerEvidence <- NoEvidence
  Steady <- AllButBall
  RequireHeartbeat = TRUE
  AutoRecovery = TRUE
  FixedTaskId = FALSE
  FailureAction = ""
  MaxActions = 7
  MaxPending = 1
  MaxFeedback = 2
  MaxDuplicates = 1
  Plan <- TaskPlan
  MaxBoots = 0
INVARIANTS EvidenceIsPhysical BallLeavesOnce
