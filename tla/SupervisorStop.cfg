SPECIFICATION FairNodeSpec
CONSTANTS
  Actions = {"NavigateToPose", "AbortTask", "EmergencyStop"}
  PeerEvidence <- EvidenceTypes
  Steady = {"pose_valid", "target_valid", "ball_present", "mechanism_healthy", "teammate_safe", "heartbeat"}
  RequireHeartbeat = TRUE
  AutoRecovery = TRUE
  FixedTaskId = FALSE
  MaxActions = 2
  MaxBoots = 1
PROPERTIES FollowsLifecycle LossLeavesActive PendingResolves ResolvedOnce
