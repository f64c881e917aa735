----------------------------- MODULE CloudMapper -----------------------------
(***************************************************************************)
(* fastlio_cloud_mapper_node.cpp: registered scans pass a quality gate and *)
(* are gathered in a voxel map that is published and saved.  The filters   *)
(* before the gate are CloudFilters.                                       *)
(*                                                                         *)
(* The pose and its stamp are kept relative to the pose and the stamp last *)
(* accepted, the time a voxel was updated as its age in accepted frames;   *)
(* counters stop where no branch tells them apart any more.  A voxel is a  *)
(* number, and near to the next ones.                                      *)
(***************************************************************************)
EXTENDS Integers, FiniteSets

CONSTANTS Voxels,                 \* an interval
          Scans,                  \* [Voxels -> Nat], points per voxel of a filtered scan
          Away, Height,           \* where the pose can be, in the plane and in z, from the
                                  \* one last accepted
          MaxAge,                 \* bound: ticks of 0.1 s after which every pose of Away is
                                  \* within reach
          max_odom_speed, max_odom_jump, JumpTicks, max_z_jump,
          overlap_warmup_frames, min_overlap_map_voxels, min_overlap_matches,
          overlap_neighbor_voxels,
          map_window_frames, max_map_voxels, min_map_hits, map_publish_every

ASSUME MapperAssumption ==
    /\ JumpTicks <= MaxAge
    /\ \A x \in Away, z \in Height :
          x * x + z * z <= (max_odom_speed * MaxAge) * (max_odom_speed * MaxAge)

VARIABLES
    have_odom_, have_last_accepted_odom_,
    odom,                 \* [x, z, dt], from the pose and stamp last accepted
    warm,                 \* accepted_frames_, up to overlap_warmup_frames
    map_,                 \* [count, age] of the voxels in the map
    reason,               \* what the gate said of the last scan
    frame_index_,         \* modulo map_publish_every
    published,            \* the voxels of the map published last
    file                  \* the saved map: "none", "whole" or "partial"

gate == <<have_odom_, have_last_accepted_odom_, odom>>
mapping == <<warm, map_, reason, frame_index_, published>>
mapperVars == <<gate, mapping, file>>

Abs(n) == IF n < 0 THEN -n ELSE n
Capped(n, cap) == IF n > cap THEN cap ELSE n

MapperInit ==
    /\ have_odom_ = FALSE /\ have_last_accepted_odom_ = FALSE
    /\ odom = [x |-> 0, z |-> 0, dt |-> 0]
    /\ warm = 0 /\ map_ = <<>>
    /\ reason = "none" /\ frame_index_ = 0 /\ published = {}
    /\ file = "none"

\* A pose one or more ticks later, or with the stamp of before.
odomCallback ==
    /\ have_odom_' = TRUE
    /\ \E x \in Away, z \in Height, later \in 0..1 :
          odom' = [x |-> x, z |-> z,
                   dt |-> IF have_last_accepted_odom_ THEN Capped(odom.dt + later, MaxAge)
                          ELSE 0]
    /\ UNCHANGED <<have_last_accepted_odom_, mapping, file>>
-----------------------------------------------------------------------------
hasMapNeighbor(v) ==
    \E w \in DOMAIN map_ : Abs(v - w) <= overlap_neighbor_voxels

\* Every overlap_sample_stride-th point is looked up: some of the voxels.
Overlaps(sampled) ==
    Cardinality({v \in sampled : hasMapNeighbor(v)}) >= min_overlap_matches * Cardinality(sampled)

Seen(scan) == {v \in Voxels : scan[v] > 0}

\* Mutant: the time since the pose last accepted is not looked at.
ElapsedOneTick == 1

\* A stamp that is not newer counts as a tick.
Elapsed == IF odom.dt = 0 THEN 1 ELSE odom.dt

Squared == odom.x * odom.x + odom.z * odom.z

TooFast == Squared > (max_odom_speed * Elapsed) * (max_odom_speed * Elapsed)
Jumped == Elapsed < JumpTicks /\ Squared > max_odom_jump * max_odom_jump
JumpedInZ == Abs(odom.z) > max_z_jump

\* The overlap is asked for once the map is large and old enough.
Mature ==
    /\ Cardinality(DOMAIN map_) >= min_overlap_map_voxels
    /\ warm >= overlap_warmup_frames

\* The gate's answer, the checks in the order of the code.
isFrameReliable(scan, sampled) ==
    IF Seen(scan) = {} THEN "empty_scan"
    ELSE IF ~have_odom_ THEN "no_odom"
    ELSE IF have_last_accepted_odom_ /\ TooFast THEN "odom_speed"
    ELSE IF have_last_accepted_odom_ /\ Jumped THEN "odom_jump"
    ELSE IF have_last_accepted_odom_ /\ JumpedInZ THEN "z_jump"
    ELSE IF Mature /\ DOMAIN map_ # {} /\ ~Overlaps(sampled) THEN "low_overlap"
    ELSE "ok"

rememberAcceptedOdom ==
    /\ have_last_accepted_odom_' = TRUE
    /\ odom' = [x |-> 0, z |-> 0, dt |-> 0]
    /\ UNCHANGED have_odom_
-----------------------------------------------------------------------------
\* The map with the points of a scan, the window applied.
Appended(scan) ==
    LET old == {v \in DOMAIN map_ : map_[v].age + 1 <= map_window_frames}
        Count(v) == IF v \in DOMAIN map_ THEN map_[v].count ELSE 0
    IN  [v \in old \cup Seen(scan) |->
            IF v \in Seen(scan)
            THEN [count |-> Capped(Count(v) + scan[v], min_map_hits), age |-> 0]
            ELSE [count |-> map_[v].count, age |-> map_[v].age + 1]]

Weak(m) == {v \in DOMAIN m : m[v].count < min_map_hits}
Kept(m, S) == [v \in S |-> m[v]]

\* Over the cap, voxels with few hits go first, in the order of the hash map, and
\* then any.
pruneMap(m) ==
    LET over == Cardinality(DOMAIN m) - max_map_voxels
        weak == Cardinality(Weak(m))
    IN  IF over <= 0 THEN {m}
        ELSE IF weak >= over
        THEN {Kept(m, DOMAIN m \ S) : S \in {T \in SUBSET Weak(m) : Cardinality(T) = over}}
        ELSE {Kept(m, S) : S \in {T \in SUBSET (DOMAIN m \ Weak(m)) :
                                     Cardinality(T) = max_map_voxels}}

mapPoints(m) == DOMAIN m \ Weak(m)

publishMap ==
    published' = IF frame_index_' = 0 THEN mapPoints(map_') ELSE published

\* A rejected scan leaves the map, its window and the pose last accepted alone.
cloudCallback(scan, sampled) ==
    /\ frame_index_' = (frame_index_ + 1) % map_publish_every
    /\ reason' = isFrameReliable(scan, sampled)
    /\ IF reason' = "ok"
       THEN /\ warm' = Capped(warm + 1, overlap_warmup_frames)
            /\ rememberAcceptedOdom
            /\ map_' \in pruneMap(Appended(scan))
       ELSE UNCHANGED <<gate, warm, map_>>
    /\ publishMap
    /\ UNCHANGED file

\* By the timer or the destructor; a map without points leaves the file alone.
saveMap ==
    /\ mapPoints(map_) # {}
    /\ file' = "whole"
    /\ UNCHANGED <<gate, mapping>>

\* The node is killed, perhaps while the truncated file is written, and started again.
MapperRestart ==
    /\ have_odom_' = FALSE /\ have_last_accepted_odom_' = FALSE
    /\ odom' = [x |-> 0, z |-> 0, dt |-> 0]
    /\ warm' = 0 /\ map_' = <<>>
    /\ reason' = "none" /\ frame_index_' = 0 /\ published' = {}
    /\ file' \in {file} \cup IF mapPoints(map_) # {} THEN {"partial"} ELSE {}

MapperCloud ==
    \E scan \in Scans : \E sampled \in SUBSET Seen(scan) :
        (sampled = {} => Seen(scan) = {}) /\ cloudCallback(scan, sampled)

MapperNext == odomCallback \/ MapperCloud \/ saveMap \/ MapperRestart

MapperSpec == MapperInit /\ [][MapperNext]_mapperVars

\* A pose with a newer stamp, or the first one.
NewerOdom == odomCallback /\ (odom'.dt > odom.dt \/ ~have_odom_)
-----------------------------------------------------------------------------
(* Properties *)

\* The gate is shut for good by nothing but a pose at another height, scans that do
\* not overlap the map or scans without points: a jump in the plane, a stamp that
\* stands still or missing odometry are overcome while poses keep coming.
GateReopens ==
    []<>(reason \in {"ok", "z_jump", "low_overlap", "empty_scan"})
=============================================================================
