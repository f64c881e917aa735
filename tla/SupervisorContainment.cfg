SPECIFICATION NodeSpec
CONSTANTS
  Actions = {"NavigateToPose"}
  PeerEvidence = {}
  Steady = {"pose_valid", "target_valid", "ball_present", "mechanism_healthy", "teammate_safe", "heartbeat"}
  RequireHeartbeat = TRUE
  AutoRecovery = TRUE
  FixedTaskId = FALSE
  MaxActions = 2
  MaxBoots = 0
PROPERTY FailureContained
