------------------------------ MODULE LocalMap ------------------------------
(***************************************************************************)
(* The cube the odometry node keeps its map in: lasermap_fov_segment moves *)
(* it along when the sensor comes near a side, and deletes from the map    *)
(* the slab that it leaves behind on each axis it moved on.  Of the map,   *)
(* the points of PointMap, some are followed.  Lengths are integers.       *)
(***************************************************************************)
EXTENDS Integers, FiniteSets

CONSTANTS cube_len, DET_RANGE,   \* even
          Axes, Steps,           \* axes that occur, movements of the sensor between scans,
                                 \* of at most half of DET_RANGE on an axis
          Sights,                \* where points of a scan lie, seen from the sensor, none
                                 \* farther than DET_RANGE on an axis
          Positions, MaxPoints   \* bounds: where the sensor gets, points followed

MOV_THRESHOLD == 3               \* in halves: 1.5

\* How far the cube moves; both terms of the maximum are multiplied by 20.
mov_dist ==
    LET part == 9 * (cube_len - MOV_THRESHOLD * DET_RANGE)
        half == 10 * DET_RANGE
    IN  (IF part > half THEN part ELSE half) \div 20

\* The cube holds what the sensor sees with room to move, the sensor moves by at most
\* half of what it sees and sees no farther than DET_RANGE, on every axis.
CubeFits ==
    /\ cube_len \in Nat /\ cube_len % 2 = 0
    /\ DET_RANGE \in Nat \ {0} /\ DET_RANGE % 2 = 0
    /\ MOV_THRESHOLD * DET_RANGE < cube_len
    /\ Steps \subseteq [Axes -> Int] /\ Sights \subseteq [Axes -> Int]
    /\ \A a \in Axes :
          /\ \A step \in Steps : 2 * step[a] \in -DET_RANGE..DET_RANGE
          /\ \A sight \in Sights : sight[a] \in -DET_RANGE..DET_RANGE

VARIABLES pos_lid, Localmap_Initialized, LocalMap_Points, ikdtree,
          due         \* the scan has yet to be added to the map

vars == <<pos_lid, Localmap_Initialized, LocalMap_Points, ikdtree, due>>

Add(p, q) == [a \in Axes |-> p[a] + q[a]]
Abs(n) == IF n < 0 THEN -n ELSE n
Origin == [a \in Axes |-> 0]

Init ==
    /\ pos_lid = Origin
    /\ Localmap_Initialized = FALSE
    /\ LocalMap_Points = [min |-> Origin, max |-> Origin]
    /\ ikdtree = {} /\ due = FALSE

InBox(p, box) == \A a \in Axes : box.min[a] <= p[a] /\ p[a] < box.max[a]

\* Distances are taken without their sign.
NearMin(p, a) == 2 * Abs(p[a] - LocalMap_Points.min[a]) <= MOV_THRESHOLD * DET_RANGE
NearMax(p, a) == 2 * Abs(p[a] - LocalMap_Points.max[a]) <= MOV_THRESHOLD * DET_RANGE

Shift(p, a) ==
    IF NearMin(p, a) THEN -mov_dist ELSE IF NearMax(p, a) THEN mov_dist ELSE 0

\* Mutant: the slab beyond the old side, which no point is in.
SlabBeyond(p, a) ==
    IF Shift(p, a) < 0
    THEN [LocalMap_Points EXCEPT !.min[a] = LocalMap_Points.max[a],
                                 !.max[a] = LocalMap_Points.max[a] + mov_dist]
    ELSE [LocalMap_Points EXCEPT !.max[a] = LocalMap_Points.min[a],
                                 !.min[a] = LocalMap_Points.min[a] - mov_dist]

\* The slab that is left behind on an axis: of the old cube, on the far side.
Slab(p, a) ==
    IF Shift(p, a) < 0
    THEN [LocalMap_Points EXCEPT !.min[a] = LocalMap_Points.max[a] - mov_dist]
    ELSE [LocalMap_Points EXCEPT !.max[a] = LocalMap_Points.min[a] + mov_dist]

cub_needrm(p) == {Slab(p, a) : a \in {b \in Axes : Shift(p, b) # 0}}

\* A scan has been located at p.
lasermap_fov_segment(p) ==
    /\ ~due
    /\ due' = TRUE
    /\ pos_lid' = p
    /\ Localmap_Initialized' = TRUE
    /\ IF Localmap_Initialized
       THEN /\ LocalMap_Points' =
                 [min |-> [a \in Axes |-> LocalMap_Points.min[a] + Shift(p, a)],
                  max |-> [a \in Axes |-> LocalMap_Points.max[a] + Shift(p, a)]]
            /\ ikdtree' = {q \in ikdtree : \A box \in cub_needrm(p) : ~InBox(q, box)}
       ELSE /\ LocalMap_Points' =
                 [min |-> [a \in Axes |-> p[a] - cube_len \div 2],
                  max |-> [a \in Axes |-> p[a] + cube_len \div 2]]
            /\ UNCHANGED ikdtree

\* The points of the scan that map_incremental puts in.
Added(S) ==
    /\ due
    /\ due' = FALSE
    /\ ikdtree' = ikdtree \cup {Add(pos_lid, sight) : sight \in S}
    /\ Cardinality(ikdtree') <= MaxPoints
    /\ UNCHANGED <<pos_lid, Localmap_Initialized, LocalMap_Points>>

Next ==
    \/ \E step \in Steps :
          /\ Add(pos_lid, step) \in Positions
          /\ lasermap_fov_segment(Add(pos_lid, step))
    \/ \E S \in SUBSET Sights : Added(S)

Spec == Init /\ [][Next]_vars
-----------------------------------------------------------------------------
(* Properties *)

\* Between two scans the sensor moves by at most half of DET_RANGE; then it always
\* has the cube around it, with all it can see, and the map never holds a point
\* outside the cube: what a move leaves behind is exactly what is deleted, on one
\* axis or on several at once.
MapInsideCube ==
    Localmap_Initialized =>
        \A a \in Axes :
            /\ pos_lid[a] - DET_RANGE >= LocalMap_Points.min[a]
            /\ pos_lid[a] + DET_RANGE <= LocalMap_Points.max[a]
            /\ \A q \in ikdtree : q[a] \in LocalMap_Points.min[a]..LocalMap_Points.max[a]
=============================================================================
