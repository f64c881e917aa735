SPECIFICATION NodeSpec
CONSTANTS
  Actions = {"NavigateToPose", "FireShot", "AbortTask"}
  PeerEvidence = {}
  Steady = {}
  RequireHeartbeat = TRUE
  AutoRecovery = TRUE
  FixedTaskId = FALSE
  MaxActions = 1
  MaxBoots = 1
PROPERTIES IssuedUnderInterlock
