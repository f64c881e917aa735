----------------------------- MODULE PubHandler -----------------------------
(***************************************************************************)
(* Where the Livox driver makes frames of packets (pub_handler.cpp): the   *)
(* thread of the SDK queues raw packets, the process thread turns each     *)
(* into points, collects them per lidar and after each packet asks whether *)
(* a frame is due, by the stamps of the lidar when its packets are         *)
(* synchronized, by the clock of the host when they are not.               *)
(*                                                                         *)
(* Time is counted in ticks, TicksPerMs to the millisecond.  A point is    *)
(* the number it has at its lidar and its stamp; coordinates are left out. *)
(***************************************************************************)
EXTENDS Integers, Sequences, FiniteSetsExt

CONSTANTS Lidars,             \* the lidars that have a handler
          PointNum,           \* points of a packet
          PointInterval,      \* ticks between them
          TicksPerMs,
          publish_interval_ms_,
          OffsetBits,         \* width of the offset in a message
          Stamps,             \* stamps a synchronized lidar may send
          MaxPackets(_),      \* bound: packets of a lidar
          MaxTime             \* bound: ticks of the host clock

HandlerConstants ==
    /\ PointNum \in Nat \ {0} /\ 2 ^ OffsetBits \in Nat \ {0}
    /\ PointInterval \in Nat /\ Stamps \subseteq Nat

publish_interval_ == publish_interval_ms_ * TicksPerMs
publish_interval_tolerance_ == publish_interval_ - TicksPerMs

VARIABLES
    now,                   \* clock of the host
    raw_packet_queue_,
    is_timestamp_sync_,    \* as of the last packet of any lidar
    points_clouds_,        \* per lidar, points of no frame yet
    last_pub_time_,        \* 0: not set yet
    published,             \* history: per lidar, the points of its messages
    received               \* history: points of each lidar

handler == <<points_clouds_, last_pub_time_, published>>
vars == <<now, raw_packet_queue_, is_timestamp_sync_, handler, received>>

Init ==
    /\ now = 1
    /\ raw_packet_queue_ = <<>>
    /\ is_timestamp_sync_ = FALSE
    /\ points_clouds_ = [l \in Lidars |-> <<>>]
    /\ last_pub_time_ = 0
    /\ published = [l \in Lidars |-> <<>>]
    /\ received = [l \in Lidars |-> 0]
-----------------------------------------------------------------------------
(* The thread of the SDK *)

GetEthPacketTimestamp(synchronized, stamp) == IF synchronized THEN stamp ELSE now

OnLivoxLidarPointCloudCallback(l, synchronized, stamp, known) ==
    /\ received[l] < MaxPackets(l) * PointNum
    /\ Len(raw_packet_queue_) < MaxPackets(l)
    /\ is_timestamp_sync_' = synchronized
    /\ raw_packet_queue_' = Append(raw_packet_queue_,
           [handle |-> l, first |-> received[l] + 1, known_type |-> known,
            time_stamp |-> GetEthPacketTimestamp(synchronized, stamp)])
    /\ received' = IF known THEN [received EXCEPT ![l] = @ + PointNum] ELSE received
    /\ UNCHANGED <<now, handler>>

\* An IMU packet goes its own way, and yet decides how frames are timed.
ImuPacket(synchronized) ==
    /\ is_timestamp_sync_' = synchronized
    /\ UNCHANGED <<now, raw_packet_queue_, handler, received>>

Tick ==
    /\ now < MaxTime
    /\ now' = now + 1
    /\ UNCHANGED <<raw_packet_queue_, is_timestamp_sync_, handler, received>>
-----------------------------------------------------------------------------
(* The process thread *)

\* ProcessCartesianHighPoint, -LowPoint, ProcessSphericalPoint; a packet of another
\* data type has no points.
PointCloudProcess(p) ==
    IF p.known_type
    THEN [i \in 1..PointNum |-> [number |-> p.first + i - 1,
                                 offset_time |-> p.time_stamp + (i - 1) * PointInterval]]
    ELSE <<>>

BaseTime(cloud) == IF cloud = <<>> THEN 0 ELSE Head(cloud).offset_time
RecentTime(cloud) == IF cloud = <<>> THEN 0 ELSE cloud[Len(cloud)].offset_time

\* The difference is unsigned: a stamp behind the base counts as far ahead.
SyncedFrameDue(cloud) ==
    LET ms == RecentTime(cloud) \div TicksPerMs
        diff == RecentTime(cloud) - BaseTime(cloud)
    IN  /\ ms % publish_interval_ms_ = 0
        /\ ms # 0
        /\ diff < 0 \/ diff >= publish_interval_tolerance_

HostFrameDue == last_pub_time_ # 0 /\ now - last_pub_time_ >= publish_interval_

PartOf(cloud) == [base_time |-> BaseTime(cloud), points |-> cloud]

\* The parts of a frame, of the lidars of S that have points.
FrameOf(S, clouds) == [l \in {k \in S : clouds[k] # <<>>} |-> PartOf(clouds[l])]

\* The points of the message made of a part: InitCustomMsg and FillPointsToCustomMsg
\* of lddc.cpp.  The offset of a point is the difference of two 64 bit stamps cut to a
\* shorter integer.
CustomMsg(part) ==
    [i \in DOMAIN part.points |->
        [number |-> part.points[i].number,
         offset_time |-> (part.points[i].offset_time - part.base_time) % (2 ^ OffsetBits)]]

\* OnLidarPointClounCb turns a frame without a lidar away.
PublishPointCloud(frame) ==
    published' = [l \in Lidars |->
        IF l \in DOMAIN frame THEN published[l] \o CustomMsg(frame[l]) ELSE published[l]]

CheckTimerSynced(l, clouds) ==
    /\ is_timestamp_sync_
    /\ IF SyncedFrameDue(clouds[l])
       THEN /\ PublishPointCloud(FrameOf({l}, clouds))
            /\ points_clouds_' = [clouds EXCEPT ![l] = <<>>]
       ELSE /\ points_clouds_' = clouds
            /\ UNCHANGED published
    /\ UNCHANGED last_pub_time_

CheckTimerKeeps(clouds) ==     \* collects on into the frame it has published
    /\ ~is_timestamp_sync_
    /\ IF HostFrameDue THEN PublishPointCloud(FrameOf(Lidars, clouds)) ELSE UNCHANGED published
    /\ points_clouds_' = clouds
    /\ last_pub_time_' = now

CheckTimerHost(clouds) ==
    /\ ~is_timestamp_sync_
    /\ IF HostFrameDue
       THEN /\ PublishPointCloud(FrameOf(Lidars, clouds))
            /\ points_clouds_' = [l \in Lidars |-> <<>>]
            /\ last_pub_time_' = last_pub_time_ + publish_interval_
       ELSE /\ points_clouds_' = clouds
            /\ last_pub_time_' = IF last_pub_time_ = 0 THEN now ELSE last_pub_time_
            /\ UNCHANGED published

RawDataProcess ==
    /\ raw_packet_queue_ # <<>>
    /\ raw_packet_queue_' = Tail(raw_packet_queue_)
    /\ LET p == Head(raw_packet_queue_)
           clouds == [points_clouds_ EXCEPT ![p.handle] = @ \o PointCloudProcess(p)]
       IN  CheckTimerSynced(p.handle, clouds) \/ CheckTimerHost(clouds)
    /\ UNCHANGED <<now, is_timestamp_sync_, received>>

Next ==
    \/ Tick
    \/ RawDataProcess
    \/ \E synchronized \in BOOLEAN : ImuPacket(synchronized)
    \/ \E l \in Lidars, synchronized, known \in BOOLEAN, stamp \in Stamps :
          OnLivoxLidarPointCloudCallback(l, synchronized, stamp, known)

Spec == Init /\ [][Next]_vars
-----------------------------------------------------------------------------
(* Properties *)

NumbersOf(points) == [i \in DOMAIN points |-> points[i].number]

\* Where the packets of a lidar that have points are in the queue.
Queued(l) ==
    {i \in DOMAIN raw_packet_queue_ :
        raw_packet_queue_[i].handle = l /\ raw_packet_queue_[i].known_type}

\* Every point of a lidar is, once and in its order, in a message, in the cloud that
\* the process thread collects or still queued.
EveryPointOnce ==
    \A l \in Lidars :
        LET taken == IF Queued(l) = {} THEN received[l]
                     ELSE raw_packet_queue_[Min(Queued(l))].first - 1
        IN  NumbersOf(published[l] \o points_clouds_[l]) = [i \in 1..taken |-> i]
=============================================================================
