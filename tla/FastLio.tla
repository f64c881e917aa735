------------------------------- MODULE FastLio -------------------------------
(***************************************************************************)
(* The odometry node of FAST-LIO2 (laserMapping.cpp, IMU_Processing.hpp):  *)
(* callbacks buffer scans and IMU samples, a timer joins one scan with the *)
(* samples up to its end, and the scan goes through IMU initialization,    *)
(* motion compensation, the filter and the map.  One executor thread runs  *)
(* all callbacks.  IteratedUpdate, LocalMap and Undistortion model what    *)
(* happens inside the filter, the map and the compensation.                *)
(*                                                                         *)
(* Time is counted in ticks.  Of a cloud only its number, its stamp and    *)
(* what the branches look at are kept; of the filter's state the time it   *)
(* stands for.  time_sync_en and time_offset_lidar_to_imu are off, as the  *)
(* robot configures them.                                                  *)
(***************************************************************************)
EXTENDS Integers, Sequences

CONSTANTS Clouds,          \* [size, down, span]: points, after the voxel filter, time of the last
          Period,          \* ticks between the stamps of two scans
          MAX_INI_COUNT, INIT_TIME,
          Uninitialized,   \* values last_lidar_end_time_ may start with
          NoScan,
          Skew,            \* ticks one sensor's messages may be ahead of the other's
          MaxScans, MaxFaults, MaxSaved   \* bounds

\* What the node requires of them.
LioConstants ==
    /\ Clouds \subseteq [size : Nat, down : Nat, span : Nat]
    /\ Period \in Nat /\ Skew \in Nat /\ MAX_INI_COUNT \in Nat
    /\ Uninitialized \subseteq Int

VARIABLES
    next_lidar, next_imu, scans,          \* the sensors: their next stamps, the scans so far
    lost, loops,                          \* messages lost, and how often time ran back
    lidar_buffer, time_buffer, imu_buffer,
    last_timestamp_lidar, last_timestamp_imu,
    lidar_pushed, Measures,
    scan_num, total_scantime,             \* lidar_mean_scantime, as count and sum
    flg_first_scan, first_lidar_time, flg_EKF_inited,
    b_first_frame_, imu_need_init_, init_iter_num, last_imu_, last_lidar_end_time_,
    feats_undistort, feats_down_body,
    Root_Node,                            \* is there a map?
    pcl_wait_pub,                         \* the scans in the map that is saved
    saved,
    filter_time,                          \* history: the time the state stands for
    odometry,                             \* history: the last pose published
    starved                               \* history: a scan came without IMU samples

sensors == <<next_lidar, next_imu, scans, lost, loops>>
lidar == <<lidar_buffer, time_buffer, last_timestamp_lidar>>
imu == <<imu_buffer, last_timestamp_imu>>
sync == <<lidar_pushed, Measures, scan_num, total_scantime>>
start == <<flg_first_scan, first_lidar_time, flg_EKF_inited>>
p_imu == <<b_first_frame_, imu_need_init_, init_iter_num, last_imu_, last_lidar_end_time_>>
feats == <<feats_undistort, feats_down_body>>
map == <<pcl_wait_pub, saved>>
history == <<filter_time, odometry, starved>>
vars == <<sensors, lidar, imu, sync, start, p_imu, feats, Root_Node, map, history>>

NoMessage == [number |-> 0, measured |-> 0, stamp |-> -1, time |-> -1]
Last(s) == s[Len(s)]

Init ==
    /\ next_lidar = 0 /\ next_imu = 0 /\ scans = 0 /\ lost = 0 /\ loops = 0
    /\ lidar_buffer = <<>> /\ time_buffer = <<>> /\ imu_buffer = <<>>
    /\ last_timestamp_lidar = 0 /\ last_timestamp_imu = -1
    /\ lidar_pushed = FALSE
    /\ Measures = [lidar |-> NoScan, beg |-> 0, end |-> 0, imu |-> <<>>]
    /\ scan_num = 0 /\ total_scantime = 0
    /\ flg_first_scan = TRUE /\ first_lidar_time = 0 /\ flg_EKF_inited = FALSE
    /\ b_first_frame_ = TRUE /\ imu_need_init_ = TRUE /\ init_iter_num = 1
    /\ last_imu_ = 0 /\ last_lidar_end_time_ \in Uninitialized
    /\ feats_undistort = NoScan /\ feats_down_body = NoScan
    /\ Root_Node = FALSE
    /\ pcl_wait_pub = <<>> /\ saved = <<>>
    /\ filter_time = 0 /\ odometry = NoMessage /\ starved = FALSE
-----------------------------------------------------------------------------
(* The sensors: a scan or sample may be lost, and their time may start     *)
(* over, as when a simulation or a recording is started again.             *)

LidarDue == scans < MaxScans /\ next_lidar + Period <= next_imu + Skew
ImuDue == next_imu <= next_lidar + Period + Skew

Lose ==
    /\ lost + loops < MaxFaults
    /\ lost' = lost + 1
    /\ \/ /\ LidarDue
          /\ scans' = scans + 1
          /\ next_lidar' = next_lidar + Period
          /\ UNCHANGED next_imu
       \/ /\ ImuDue
          /\ next_imu' = next_imu + 1
          /\ UNCHANGED <<scans, next_lidar>>
    /\ UNCHANGED <<loops, lidar, imu, sync, start, p_imu, feats, Root_Node, map, history>>

StartOver ==
    /\ lost + loops < MaxFaults
    /\ loops' = loops + 1
    /\ next_lidar' = 0 /\ next_imu' = 0
    /\ UNCHANGED <<scans, lost, lidar, imu, sync, start, p_imu, feats, Root_Node, map,
                   history>>

\* standard_pcl_cbk and livox_pcl_cbk, after preprocessing.  When time runs back
\* the scans are dropped; their stamps stay in time_buffer.
pcl_cbk(cloud) ==
    LET cur_time == next_lidar
        scan == [number |-> scans + 1, stamp |-> cur_time,
                 size |-> cloud.size, down |-> cloud.down, span |-> cloud.span]
        kept == IF cur_time < last_timestamp_lidar THEN <<>> ELSE lidar_buffer
    IN  /\ LidarDue
        /\ scans' = scans + 1
        /\ next_lidar' = next_lidar + Period
        /\ lidar_buffer' = Append(kept, scan)
        /\ time_buffer' = Append(time_buffer, cur_time)
        /\ last_timestamp_lidar' = cur_time
        /\ UNCHANGED <<next_imu, lost, loops, imu, sync, start, p_imu, feats, Root_Node,
                       map, history>>

imu_cbk ==
    /\ ImuDue
    /\ next_imu' = next_imu + 1
    /\ imu_buffer' = Append(IF next_imu < last_timestamp_imu THEN <<>> ELSE imu_buffer,
                            next_imu)
    /\ last_timestamp_imu' = next_imu
    /\ UNCHANGED <<next_lidar, scans, lost, loops, lidar, sync, start, p_imu, feats,
                   Root_Node, map, history>>
-----------------------------------------------------------------------------
(* sync_packages *)

lidar_mean_scantime == IF scan_num = 0 THEN 0 ELSE total_scantime \div scan_num

\* Too few points, or a last point too early to be the end of the scan.
CutShort(scan) == scan.size <= 1 \/ 2 * scan.span < lidar_mean_scantime

Buffered == lidar_buffer # <<>> /\ imu_buffer # <<>>

\* Mutant: the stamp of the scan that came last.
PushedLatest ==
    LET scan == Head(lidar_buffer)
        beg == Last(time_buffer)
        span == IF CutShort(scan) THEN lidar_mean_scantime ELSE scan.span
    IN  IF lidar_pushed THEN Measures
        ELSE [Measures EXCEPT !.lidar = scan, !.beg = beg, !.end = beg + span]

Pushed ==
    LET scan == Head(lidar_buffer)
        beg == Head(time_buffer)
        span == IF CutShort(scan) THEN lidar_mean_scantime ELSE scan.span
    IN  IF lidar_pushed THEN Measures
        ELSE [Measures EXCEPT !.lidar = scan, !.beg = beg, !.end = beg + span]

Counted ==
    IF lidar_pushed \/ CutShort(Head(lidar_buffer))
    THEN UNCHANGED <<scan_num, total_scantime>>
    ELSE /\ scan_num' = scan_num + 1
         /\ total_scantime' = total_scantime + Head(lidar_buffer).span

\* How many samples belong to a scan: none when the first is not before its end,
\* else those before it and one that is exactly at it.
Share(end) ==
    IF Head(imu_buffer) >= end THEN 0
    ELSE LET before == {i \in DOMAIN imu_buffer : imu_buffer[i] < end}
             n == CHOOSE i \in before : i + 1 \notin before
         IN  IF n < Len(imu_buffer) /\ imu_buffer[n + 1] = end THEN n + 1 ELSE n

\* The timer finds a scan whose samples are not complete.
AwaitImu ==
    /\ Buffered
    /\ last_timestamp_imu < Pushed.end
    /\ ~lidar_pushed
    /\ Counted
    /\ Measures' = Pushed
    /\ lidar_pushed' = TRUE
    /\ UNCHANGED <<sensors, lidar, imu, start, p_imu, feats, Root_Node, map, history>>

sync_packages ==
    LET n == Share(Pushed.end)
    IN  /\ Buffered
        /\ last_timestamp_imu >= Pushed.end
        /\ Counted
        /\ Measures' = [Pushed EXCEPT !.imu = SubSeq(imu_buffer, 1, n)]
        /\ imu_buffer' = SubSeq(imu_buffer, n + 1, Len(imu_buffer))
        /\ lidar_buffer' = Tail(lidar_buffer)
        /\ time_buffer' = Tail(time_buffer)
        /\ lidar_pushed' = FALSE
        /\ UNCHANGED <<sensors, last_timestamp_lidar, last_timestamp_imu, map>>
-----------------------------------------------------------------------------
(* timer_callback, with a scan and its samples in Measures' *)

FirstScan ==
    /\ sync_packages
    /\ flg_first_scan
    /\ flg_first_scan' = FALSE
    /\ first_lidar_time' = Measures'.beg
    /\ UNCHANGED <<flg_EKF_inited, p_imu, feats, Root_Node, history>>

\* ImuProcess::Process without samples leaves feats_undistort as the last scan
\* left it; before the samples are counted it is empty.
ProcessNothing ==
    /\ Measures'.imu = <<>>
    /\ starved' = ~imu_need_init_
    /\ UNCHANGED <<p_imu, feats_undistort, filter_time>>

IMU_init ==
    /\ Measures'.imu # <<>>
    /\ imu_need_init_
    /\ b_first_frame_' = FALSE
    /\ init_iter_num' = (IF b_first_frame_ THEN 1 ELSE init_iter_num) + Len(Measures'.imu)
    /\ imu_need_init_' = (init_iter_num' <= MAX_INI_COUNT)
    /\ last_imu_' = Last(Measures'.imu)
    /\ filter_time' = last_imu_'
    /\ UNCHANGED <<last_lidar_end_time_, feats_undistort, starved>>

\* Mutant: from sample to sample, wherever the last scan ended.
PredictedFromSamples(m) ==
    LET rest == m.end - Last(m.imu)
    IN  Last(m.imu) - last_imu_ + (IF rest > 0 THEN rest ELSE -rest)

\* What the filter is moved ahead by: from sample to sample, what lies before the
\* end of the last scan left out, and then to the end of this one.
Predicted(m) ==
    LET v_imu == <<last_imu_>> \o m.imu
        Step(head, tail) ==
            IF tail < last_lidar_end_time_ THEN 0
            ELSE IF head < last_lidar_end_time_ THEN tail - last_lidar_end_time_
            ELSE tail - head
        Sum[i \in 1..Len(v_imu)] ==
            IF i = 1 THEN 0 ELSE Sum[i - 1] + Step(v_imu[i - 1], v_imu[i])
        rest == m.end - Last(v_imu)
    IN  Sum[Len(v_imu)] + (IF rest > 0 THEN rest ELSE -rest)

predict(dt) == filter_time + dt

UndistortPcl ==
    /\ Measures'.imu # <<>>
    /\ ~imu_need_init_
    /\ filter_time' = predict(Predicted(Measures'))
    /\ last_imu_' = Last(Measures'.imu)
    /\ last_lidar_end_time_' = Measures'.end
    /\ feats_undistort' = Measures'.lidar
    /\ UNCHANGED <<b_first_frame_, imu_need_init_, init_iter_num, starved>>

Process == ProcessNothing \/ IMU_init \/ UndistortPcl

Segmented ==
    /\ sync_packages
    /\ ~flg_first_scan
    /\ Process
    /\ UNCHANGED <<flg_first_scan, first_lidar_time>>

HasPoints == feats_undistort' # NoScan /\ feats_undistort'.size > 0

NoPoint ==
    /\ Segmented
    /\ ~HasPoints
    /\ UNCHANGED <<flg_EKF_inited, feats_down_body, Root_Node, odometry>>

\* lasermap_fov_segment and the voxel filter
Filtered ==
    /\ Segmented
    /\ HasPoints
    /\ flg_EKF_inited' = (Measures'.beg - first_lidar_time >= INIT_TIME)
    /\ feats_down_body' = feats_undistort'

FirstMap ==
    /\ Filtered
    /\ ~Root_Node
    /\ Root_Node' = (feats_down_body'.down > 5)
    /\ UNCHANGED odometry

TooFew ==
    /\ Filtered
    /\ Root_Node
    /\ feats_down_body'.down < 5
    /\ UNCHANGED <<Root_Node, odometry>>

\* The registered cloud is of the points matched; its stamp is the pose's.
publish_frame_world == feats_undistort'.number

publish_odometry ==
    odometry' = [number |-> publish_frame_world, measured |-> Measures'.lidar.number,
                 stamp |-> Measures'.end, time |-> filter_time']

\* update_iterated_dyn_share_modified, publish_odometry, map_incremental and the
\* other messages, all stamped with the end of the scan.
Odometry ==
    /\ Filtered
    /\ Root_Node
    /\ feats_down_body'.down >= 5
    /\ publish_odometry
    /\ UNCHANGED Root_Node

timer_callback == AwaitImu \/ FirstScan \/ NoPoint \/ FirstMap \/ TooFew \/ Odometry

\* The scan of the moment is added, also when it was added before.
publish_map ==
    IF feats_down_body = NoScan THEN pcl_wait_pub
    ELSE Append(pcl_wait_pub, feats_down_body.number)

map_publish_callback ==
    /\ Len(pcl_wait_pub) < MaxSaved
    /\ pcl_wait_pub' = publish_map
    /\ UNCHANGED <<sensors, lidar, imu, sync, start, p_imu, feats, Root_Node, saved, history>>

map_save_callback ==
    /\ saved' = pcl_wait_pub
    /\ UNCHANGED <<sensors, lidar, imu, sync, start, p_imu, feats, Root_Node, pcl_wait_pub,
                   history>>

Next ==
    \/ Lose \/ StartOver \/ imu_cbk \/ \E cloud \in Clouds : pcl_cbk(cloud)
    \/ timer_callback \/ map_publish_callback \/ map_save_callback

Spec == Init /\ [][Next]_vars
-----------------------------------------------------------------------------
(* Properties *)

\* A pose is made of the scan it is stamped with: whichever scans and samples were
\* lost, the scan handed over by sync_packages still has the stamp it came with,
\* and the points matched are that scan's.  Not so once time ran back (time_buffer
\* keeps the stamps of the dropped scans) or a scan came without a sample (the
\* points of the scan before are matched again).
OdometryIsOfItsScan ==
    loops = 0 =>
        /\ Measures.lidar # NoScan => Measures.beg = Measures.lidar.stamp
        /\ ~starved => odometry.number = odometry.measured

\* From one pose to the next the filter is moved by just the time between their
\* stamps, and the stamps increase: no interval is left out and none counted twice,
\* whatever last_lidar_end_time_ holds before the first scan is compensated.
PosesKeepTime ==
    [][odometry' # odometry /\ odometry # NoMessage /\ loops' = 0 /\ ~starved' =>
          /\ odometry'.stamp > odometry.stamp
          /\ odometry'.stamp - odometry.stamp = odometry'.time - odometry.time]_vars
=============================================================================
