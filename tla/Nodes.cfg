SPECIFICATION FairNodes
CONSTANTS
  MaxTime = 3
  MaxReboots = 1
  Silence <- StreamSilence
  MaxStamp = 2
  PoseSilence = 1
  Position <- TwoPlaces
  MaxPositionStep = 1
  Depth = 2
  MaxReceived = 3
  FlagSilence <- FlagPromises
  Latency = 1
  MaxOdomSilence = 1
  RequireMapLocked = TRUE
  MessageTypes <- HeartbeatAndEvidence
  Ttl = 1
  HeartbeatTimeout = 1
  SequencePeriod = 2
  Skews <- OneTickOff
  Epoch = 1
  MaxWallClock = 4
  MaxSent = 2
  MaxRestarts = 1
  Team <- BothTeams
  GameDuration = 4
  PossessionDuration = 2
  AdvanceDuration = 1
  Lateness = 1
  MaxCallTime = 5
  MaxPossessions = 2
  Voxels <- ThreeVoxels
  Scans <- FourScans
  Away <- HereOrFar
  Height <- HereOrFar
  MaxAge = 3
  max_odom_speed = 1
  max_odom_jump = 1
  JumpTicks = 2
  max_z_jump = 1
  overlap_warmup_frames = 2
  min_overlap_map_voxels = 2
  min_overlap_matches = 1
  overlap_neighbor_voxels = 0
  map_window_frames = 2
  max_map_voxels = 2
  min_map_hits = 2
  map_publish_every = 2
  RequirePoseValid = TRUE
  SilenceLimit = 1
  CorrectionLag = 1
  Delay = 1
  MaxPoseAge = 1
  InFlight = 2
  MaxTargetAge = 1
  WallSet = 1
  CameraLag = 2
  TargetDelay = 1
  SignalSilence = 2
  TargetAgeLimit = 1
  FlagsInFlight = 2
CHECK_DEADLOCK FALSE
INVARIANTS TrueMeansNewest PeerDeathNoticed GoalsAreEarned
PROPERTIES TrueIsRecent SilenceIsTold PlaysScoreboard MapperGateReopens
