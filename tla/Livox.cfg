SPECIFICATION FairLivox
CONSTANTS
    l1 = l1
    l2 = l2
    s1 = s1
    s2 = s2
    Handles = {l1, l2, l3}
    Settings = {s1, s2}
    Files <- ThreeFiles
    NoIndex = NoIndex
    kMaxSourceLidar = 2
    MaxReports = 2
    MaxTimeouts = 1
    HandlerLidars = {1, 2}
    PointNum = 2
    PointInterval = 1
    TicksPerMs = 1
    publish_interval_ms_ = 2
    OffsetBits = 2
    Stamps = {1, 4}
    MaxPackets <- TwoOrOne
    MaxTime = 4
    lidar_count_ = 2
    queue_size = 2
    IndexBits = 2
    MaxFrames <- FourOrOne
INVARIANTS SamplingIsConfigured EveryPointOnce FramesInOrder NoLostWakeup
PROPERTY StopReturns
CHECK_DEADLOCK FALSE
