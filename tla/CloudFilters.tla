---------------------------- MODULE CloudFilters ----------------------------
(***************************************************************************)
(* The filters a cloud goes through in fastlio_cloud_mapper_node.cpp       *)
(* before it is judged and mapped: extraction, one point per voxel with a  *)
(* cap on their number, and the removal of points that are alone.  Points  *)
(* are vectors of integers, in a unit in which the mean of MaxCloud points *)
(* or less is an integer too.  The order of a hash map is any order.       *)
(***************************************************************************)
EXTENDS Integers, Sequences, FiniteSets, SequencesExt

CONSTANTS Points,                        \* points that occur, x, y and z
          min_range, max_range, z_min, z_max,
          scan_voxel, max_scan_points,
          radius_filter, radius_min_neighbors,
          MaxCloud                       \* bound: points of a message

Axes == 1..3

\* A bound that is not positive switches its filter off; voxels have an edge.
FilterConstants ==
    /\ Points \subseteq [Axes -> Int]
    /\ min_range \in Int /\ max_range \in Int /\ z_min \in Int /\ z_max \in Int
    /\ scan_voxel \in Nat \ {0} /\ max_scan_points \in Int
    /\ radius_filter \in Int /\ radius_min_neighbors \in Int
    /\ MaxCloud \in Nat

VARIABLES message, points, filtered, done

vars == <<message, points, filtered, done>>

\* A cloud is a set of points here: no two of a scan coincide.
Init ==
    /\ message \in SUBSET Points /\ IsFiniteSet(message)
    /\ Cardinality(message) <= MaxCloud
    /\ points = <<>> /\ filtered = {} /\ done = FALSE

makeKey(p, voxel) == [a \in Axes |-> p[a] \div voxel]

Square(p) == p[1] * p[1] + p[2] * p[2] + p[3] * p[3]
Minus(p, q) == [a \in Axes |-> p[a] - q[a]]
-----------------------------------------------------------------------------
InRange(p) ==
    /\ p[3] \in z_min..z_max
    /\ min_range > 0 => Square(p) >= min_range * min_range
    /\ max_range > 0 => Square(p) <= max_range * max_range

extractPoints(msg) == {p \in msg : InRange(p)}

\* Accumulated point by point.
Total(S, a) ==
    LET order == SetToSeq(S)
        sum[n \in 0..Cardinality(S)] == IF n = 0 THEN 0 ELSE sum[n - 1] + order[n][a]
    IN  sum[Cardinality(S)]

Mean(S) == [a \in Axes |-> Total(S, a) \div Cardinality(S)]

\* One point per voxel, in the order of the hash map.
Voxels(pts) ==
    SetToSeqs({Mean({q \in pts : makeKey(q, scan_voxel) = makeKey(p, scan_voxel)}) : p \in pts})

\* More than the cap: every stride-th is taken, the cap rounded up to a divisor.
Capped(out) ==
    LET n == Len(out)
        stride == (n + max_scan_points - 1) \div max_scan_points
    IN  IF max_scan_points > 0 /\ n > max_scan_points
        THEN [i \in 1..((n + stride - 1) \div stride) |-> out[(i - 1) * stride + 1]]
        ELSE out

voxelDownsample(pts) == {Capped(out) : out \in Voxels(pts)}

\* Mutant: the voxels on one side of the point's own are left out.
AdjacentAhead(key, other) == \A a \in Axes : other[a] - key[a] \in 0..1

\* Only the voxels next to the point's own are searched for neighbours.
Adjacent(key, other) == \A a \in Axes : other[a] - key[a] \in -1..1

Neighbors(p, pts) ==
    {q \in pts \ {p} :
        /\ Adjacent(makeKey(p, radius_filter), makeKey(q, radius_filter))
        /\ Square(Minus(p, q)) <= radius_filter * radius_filter}

radiusOutlierFilter(pts) ==
    IF radius_filter <= 0 \/ radius_min_neighbors <= 0 THEN pts
    ELSE {p \in pts : Cardinality(Neighbors(p, pts)) >= radius_min_neighbors}

\* What cloudCallback does first.
FilterCloud ==
    /\ ~done /\ done' = TRUE
    /\ points' \in voxelDownsample(extractPoints(message))
    /\ filtered' = radiusOutlierFilter(ToSet(points'))
    /\ UNCHANGED message

Next == FilterCloud

Spec == Init /\ [][Next]_vars
-----------------------------------------------------------------------------
(* Properties *)

\* Searching nine voxels finds what a search of all points would: a point stays
\* exactly when enough others lie within the radius, if there is one.  And no voxel is lost, but of
\* a scan with more voxels than the cap, which keeps no more than the cap and at
\* least half of it.
FilterExact ==
    done =>
        LET pts == ToSet(points)
            voxels == {makeKey(p, scan_voxel) : p \in extractPoints(message)}
            Near(p) == {q \in pts \ {p} :
                           Square(Minus(p, q)) <= radius_filter * radius_filter}
        IN  /\ filtered = {p \in pts : \/ radius_filter <= 0
                                      \/ Cardinality(Near(p)) >= radius_min_neighbors}
            /\ \/ /\ Cardinality(pts) = Cardinality(voxels)
                  /\ max_scan_points <= 0 \/ Cardinality(pts) <= max_scan_points
               \/ /\ Cardinality(voxels) > max_scan_points /\ max_scan_points > 0
                  /\ Cardinality(pts) <= max_scan_points
                  /\ 2 * Cardinality(pts) >= max_scan_points
=============================================================================
