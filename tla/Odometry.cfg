SPECIFICATION OdometrySpec
CONSTANTS
    LioClouds <- ThreeClouds
    Period = 2
    MAX_INI_COUNT = 1
    INIT_TIME = 3
    Uninitialized <- EndTimes
    NoScan = NoScan
    Skew = 0
    MaxScans = 5
    MaxFaults = 1
    MaxSaved = 1
    Features = {f1, f2}
    Iterations <- UpToFour
    cube_len = 32
    DET_RANGE = 4
    CubeAxes <- TwoAxes
    Steps <- HalfRange
    Sights <- ThreeSights
    Positions <- ToAndFro
    MaxMapPoints = 1
    PointTimes <- TimesOfPoints
    SampleTimes <- TimesOfSamples
    MaxScanPoints = 3
    MaxSamples = 3
    Points <- CornersAndCentres
    Boxes = {}
    downsample_size = 2
    NUM_MATCH_POINTS = 2
    Drift = 1
    MaxPerScan = 2
    MaxContents = 2
    MaxSeen = 3
    Width = 3
    Height = 2
    Poses <- InAndOut
    Clouds <- FiveClouds
    occupied_increment = 60
    free_decrement = 20
    occupied_threshold = 45
    free_threshold <- FreeThreshold
    log_odds_decay_per_cloud = 20
    stale_after_clouds = 3
    occupied_cell_inflation = 1
    Never = 5
    N_SCANS = 2
    Turn = 6
    Kinds <- SixKinds
    Strides = {1, 4}
    MaxPoints = 4
    point_filter_num = 2
    LineSize = 8
    NearSets <- FourNearSets
    group_size = 3
    CloudPoints <- PlaneOfPoints
    min_range = 12
    max_range = 50
    z_min <- ZMin
    z_max = 24
    scan_voxel = 24
    max_scan_points = 3
    radius_filter = 18
    radius_min_neighbors = 1
    MaxCloud = 4
    Patterns <- ThreePatterns
    SamplesStep = 5
    DownSample = 2
    ScanPeriods = {2, 4, 16}
    WorldSteps = {1, 3}
    MaxSimTime = 14
    MaxResets = 1
INVARIANTS OdometryIsOfItsScan UpdateCompletes MapInsideCube MovedByItsSegment ScansAreFaithful FilterExact GridForgets PointsAreRepresented PacketsApart
PROPERTIES PosesKeepTime
CHECK_DEADLOCK FALSE
