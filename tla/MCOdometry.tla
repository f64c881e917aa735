------------------------------ MODULE MCOdometry ------------------------------
(***************************************************************************)
(* The components between the LiDAR and the maps, and values for TLC.      *)
(* FastLio is the odometry node; the others are what happens inside its    *)
(* steps, before it and after it.  They share no state at the grain of     *)
(* their models, so a behaviour runs one of them, and the others stay as   *)
(* they began.                                                             *)
(***************************************************************************)
EXTENDS Integers, FiniteSets, Sequences

CONSTANTS
    LioClouds, Period, MAX_INI_COUNT, INIT_TIME, Uninitialized, NoScan, Skew, MaxScans,
    MaxFaults, MaxSaved,
    Features, Iterations,
    cube_len, DET_RANGE, CubeAxes, Steps, Sights, Positions, MaxMapPoints,
    PointTimes, SampleTimes, MaxScanPoints, MaxSamples,
    Points, Boxes, downsample_size, NUM_MATCH_POINTS, Drift, MaxPerScan, MaxContents, MaxSeen,
    Width, Height, Poses, Clouds, occupied_increment, free_decrement, occupied_threshold,
    free_threshold, log_odds_decay_per_cloud, stale_after_clouds, occupied_cell_inflation,
    Never,
    N_SCANS, Turn, Kinds, Strides, MaxPoints, point_filter_num,
    LineSize, NearSets, group_size,
    CloudPoints, min_range, max_range, z_min, z_max, scan_voxel, max_scan_points,
    radius_filter, radius_min_neighbors, MaxCloud,
    Patterns, SamplesStep, DownSample, ScanPeriods, WorldSteps, MaxSimTime, MaxResets

VARIABLES running,
    next_lidar, next_imu, scans, lost, loops, lidar_buffer, time_buffer, imu_buffer,
    last_timestamp_lidar, last_timestamp_imu, lidar_pushed, Measures, scan_num,
    total_scantime, flg_first_scan, first_lidar_time, flg_EKF_inited, b_first_frame_,
    imu_need_init_, init_iter_num, last_imu_, last_lidar_end_time_, feats_undistort,
    feats_down_body, Root_Node, pcl_wait_pub, saved, filter_time, odometry, starved,
    i, maximum_iter, converge, t, x_, P_, point_selected_surf, Nearest_Points, returned, gaps,
    pos_lid, Localmap_Initialized, LocalMap_Points, ikdtree, due,
    curvature, offset_time, it_kp, it_pcl, inner, compensated,
    contents, PointToAdd, PointNoNeedDownsample, ekf_inited, stored, seen,
    lidar_type, feature_enabled, timed, scan, given_offset_time, pl_surf, pl_buff, handled,
    near, pass, index, ftype, last_state, last_surface, selected, pl_corn,
    message, points, filtered, done,
    sensor, have_odom_, log_odds_, observed_, last_update_, grid, hit, freed,
    aviaInfos, rays, connected, scanPeriod, SimTime, lastScanSimTime, packet, previous, resets

-----------------------------------------------------------------------------
Lio == INSTANCE FastLio WITH Clouds <- LioClouds

Update == INSTANCE IteratedUpdate WITH lost <- gaps

Cube == INSTANCE LocalMap WITH Axes <- CubeAxes, MaxPoints <- MaxMapPoints

Motion == INSTANCE Undistortion WITH MaxPoints <- MaxScanPoints

Increment == INSTANCE MapIncrement WITH flg_EKF_inited <- ekf_inited

Grid == INSTANCE OccupancyGrid

Convert == INSTANCE Preprocess

Line == INSTANCE FeatureExtraction WITH i <- index, pl_surf <- selected

Filters == INSTANCE CloudFilters WITH Points <- CloudPoints

Simulated == INSTANCE LidarSimulation WITH Files <- Patterns, Steps <- WorldSteps

\* What the components require of their constants.
ASSUME OdometryAssumption ==
    /\ Lio!LioConstants /\ Update!UpdateConstants /\ Cube!CubeFits /\ Motion!MotionConstants
    /\ Increment!IncrementConstants /\ Grid!GridConstants
    /\ Convert!PreprocessConstants /\ Line!FeatureConstants /\ Filters!FilterConstants
    /\ Simulated!SimulationConstants
-----------------------------------------------------------------------------
lioOwn == <<next_lidar, next_imu, scans, lost, loops, lidar_buffer, time_buffer,
            imu_buffer, last_timestamp_lidar, last_timestamp_imu, lidar_pushed,
            Measures, scan_num, total_scantime, flg_first_scan, first_lidar_time,
            flg_EKF_inited, b_first_frame_, imu_need_init_, init_iter_num, last_imu_,
            last_lidar_end_time_, feats_undistort, feats_down_body, Root_Node,
            pcl_wait_pub, saved, filter_time, odometry, starved>>

updateOwn == <<i, maximum_iter, converge, t, x_, P_, point_selected_surf,
               Nearest_Points, returned, gaps>>

cubeOwn == <<pos_lid, Localmap_Initialized, LocalMap_Points, ikdtree, due>>

motionOwn == <<curvature, offset_time, it_kp, it_pcl, inner, compensated>>

incrementOwn == <<contents, PointToAdd, PointNoNeedDownsample, ekf_inited, stored, seen>>

convertOwn == <<lidar_type, feature_enabled, timed, scan, given_offset_time, pl_surf,
                pl_buff, handled>>

featuresOwn == <<near, pass, index, ftype, last_state, last_surface, selected, pl_corn>>

filtersOwn == <<message, points, filtered, done>>

gridOwn == <<sensor, have_odom_, log_odds_, observed_, last_update_, grid, hit, freed>>

simulatedOwn == <<aviaInfos, rays, connected, scanPeriod, SimTime, lastScanSimTime,
                  packet, previous, resets>>

\* The components other than the one that runs begin in one way.
Begins ==
    /\ IF running = "lio" THEN TRUE ELSE last_lidar_end_time_ = CHOOSE end \in Uninitialized : TRUE
    /\ IF running = "update" THEN TRUE
       ELSE maximum_iter = 1 /\ point_selected_surf = {}
    /\ IF running = "motion" THEN TRUE ELSE curvature = <<0>> /\ offset_time = <<0>>
    /\ IF running = "convert" THEN TRUE
       ELSE lidar_type = "AVIA" /\ feature_enabled = FALSE
    /\ IF running = "features" THEN TRUE ELSE near = {}
    /\ IF running = "filters" THEN TRUE ELSE message = {}
    /\ IF running = "simulated" THEN TRUE ELSE scanPeriod = 2

OdometryInit ==
    /\ running \in {"lio", "update", "cube", "motion", "increment",
                   "convert", "features", "filters", "grid", "simulated"}
    /\ Begins
    /\ Lio!Init /\ Update!Init /\ Cube!Init /\ Motion!Init /\ Increment!IncrementInit
    /\ Convert!ScanInit /\ Line!FeatureInit /\ Filters!Init /\ Grid!Init /\ Simulated!SimInit

Idle(component) ==
    /\ IF component = "lio" THEN TRUE ELSE UNCHANGED lioOwn
    /\ IF component = "update" THEN TRUE ELSE UNCHANGED updateOwn
    /\ IF component = "cube" THEN TRUE ELSE UNCHANGED cubeOwn
    /\ IF component = "motion" THEN TRUE ELSE UNCHANGED motionOwn
    /\ IF component = "increment" THEN TRUE ELSE UNCHANGED incrementOwn
    /\ IF component = "convert" THEN TRUE ELSE UNCHANGED convertOwn
    /\ IF component = "features" THEN TRUE ELSE UNCHANGED featuresOwn
    /\ IF component = "filters" THEN TRUE ELSE UNCHANGED filtersOwn
    /\ IF component = "grid" THEN TRUE ELSE UNCHANGED gridOwn
    /\ IF component = "simulated" THEN TRUE ELSE UNCHANGED simulatedOwn

OdometryNext ==
    /\ UNCHANGED running
    /\ Idle(running)
    /\ \/ running = "lio" /\ Lio!Next
       \/ running = "update" /\ Update!Next
       \/ running = "cube" /\ Cube!Next
       \/ running = "motion" /\ Motion!Next
       \/ running = "increment" /\ Increment!IncrementNext
       \/ running = "convert" /\ Convert!ScanNext
       \/ running = "features" /\ Line!FeatureNext
       \/ running = "filters" /\ Filters!Next
       \/ running = "grid" /\ Grid!Next
       \/ running = "simulated" /\ Simulated!SimNext

odometryVars == <<running, lioOwn, updateOwn, cubeOwn, motionOwn,
                  incrementOwn, convertOwn, featuresOwn, filtersOwn, gridOwn,
                  simulatedOwn>>

OdometrySpec == OdometryInit /\ [][OdometryNext]_odometryVars
-----------------------------------------------------------------------------
OdometryIsOfItsScan == Lio!OdometryIsOfItsScan
PosesKeepTime == Lio!PosesKeepTime
UpdateCompletes == Update!UpdateCompletes
MapInsideCube == Cube!MapInsideCube
MovedByItsSegment == Motion!MovedByItsSegment
PointsAreRepresented == Increment!PointsAreRepresented
\* The preprocessing keeps each point's time, and the plane points it thins out.
ScansAreFaithful == Convert!ScanTimes /\ Line!PlanesAreKept
FilterExact == Filters!FilterExact
GridForgets == Grid!GridForgets
PacketsApart == Simulated!PacketsApart

-----------------------------------------------------------------------------
(* Values for TLC *)

\* A scan with points, one cut short at half its span, and an empty one; five
\* scans, one of which or one sample may be lost, or the time start over once.
ThreeClouds == {[size |-> 0, down |-> 0, span |-> 0], [size |-> 6, down |-> 6, span |-> 2],
                [size |-> 6, down |-> 4, span |-> 1]}

\* The first scan that is compensated may end before this time, or after it.
EndTimes == {5}

\* The sensor moves by up to half its range, to and fro far enough for the cube of
\* eight ranges to be moved on each axis and on both at once.
HalfRange == {-2, 0, 2} \X {-2, 0, 2}
ThreeSights == {<<4, 0>>, <<-4, 3>>, <<0, -4>>}
ToAndFro == {<<2 * x, 0>> : x \in -2..10} \cup {<<2 * x, 2 * x>> : x \in -2..10}

UpToFour == 1..4
TwoAxes == 1..2
TimesOfPoints == 0..3
TimesOfSamples == -2..3

\* Three cells of edge two, the second beside the first and the third beyond it, with
\* their centres and corners; a centre may be nearer than the point at the corner, and
\* the third cell is off the first on every axis.
CornersAndCentres ==
    {<<0, 0, 0>>, <<0, 1, 1>>, <<1, 1, 1>>, <<2, 1, 1>>, <<3, 1, 1>>, <<3, 0, 0>>,
     <<2, 2, 2>>, <<3, 3, 3>>}

\* A grid of three by two cells, seen from one of them and from outside.
InAndOut == {<<0, 0>>, <<-1, 1>>}
FreeThreshold == -12
FiveClouds == {<<>>, <<<<2, 0>>>>, <<<<3, 0>>>>, <<<<1, 1>>, <<2, 0>>>>, <<<<2, 0>>, <<1, 1>>>>}
Kind(ring, far, clean, again) == [ring |-> ring, far |-> far, clean |-> clean, again |-> again]

\* Two lines, and points of a line that is none; strides of a sixth and two thirds
\* of a turn, so that four points go round more than once.
SixKinds == {Kind(0, TRUE, TRUE, FALSE), Kind(1, TRUE, TRUE, FALSE),
             Kind(0, FALSE, TRUE, FALSE), Kind(2, TRUE, TRUE, FALSE),
             Kind(0, TRUE, FALSE, FALSE), Kind(0, TRUE, TRUE, TRUE)}
FourNearSets == {{}, {1}, {1, 6}, {4}}

\* A plane of points a voxel or half a voxel apart.
PlaneOfPoints == {<<12 * x, 0, 12 * z>> : x \in -1..3, z \in 0..2}
ZMin == -12

\* A whole pattern, one with a row that does not parse, and no file; windows
\* shorter than, as long as and longer than the pattern.
ThreePatterns == {<<>>, <<1, 2, 3, 4, 5, 6>>, <<1, 2, 0, 4, 5, 6, 7, 8>>}
=============================================================================
