---------------------------- MODULE MapIncrement ----------------------------
(***************************************************************************)
(* map_incremental of the odometry node: which points of a scan enter the  *)
(* map, and whether the others in their cell are thinned out.  The whole   *)
(* scan is decided from the neighbours h_share_model found, before any of  *)
(* its points is added; then the points are added one by one, to a map     *)
(* that changes under the decisions.  The map is PointMap, which the k-d   *)
(* tree implements.                                                        *)
(***************************************************************************)
EXTENDS PointMap, Sequences

CONSTANTS
    NUM_MATCH_POINTS,
    Drift,           \* how far the last iteration moves a point after its search, squared
    MaxPerScan,      \* bound: points of a scan
    MaxContents,     \* bound: points of the first map, and copies of one when a scan comes
    MaxSeen          \* bound: points that are offered to the map

IncrementConstants ==
    /\ Points \subseteq [1..3 -> Int] /\ IsFiniteSet(Points)
    /\ downsample_size \in Nat \ {0} /\ NUM_MATCH_POINTS \in Nat

VARIABLES PointToAdd,             \* decided, to be added with downsampling
          PointNoNeedDownsample,  \* decided, to be added after those, without
          flg_EKF_inited,
          stored,                 \* history: the points that have been in the map
          seen                    \* history: the points that were offered, those still
                                  \* to be added not included

mapVars == <<contents, PointToAdd, PointNoNeedDownsample, flg_EKF_inited, stored, seen>>

InMap == {p \in Points : contents[p] > 0}

calc_dist(p, q) ==
    LET d == [a \in Axes |-> p[a] - q[a]] IN d[1] * d[1] + d[2] * d[2] + d[3] * d[3]

\* What Nearest_Search may answer: nearest first, a point once.
Neighbours(p) ==
    LET k == IF Cardinality(InMap) < NUM_MATCH_POINTS THEN Cardinality(InMap)
             ELSE NUM_MATCH_POINTS
    IN  {s \in [1..k -> InMap] :
            /\ \A m, n \in 1..k : m < n => /\ s[m] # s[n]
                                           /\ calc_dist(p, s[m]) <= calc_dist(p, s[n])
            /\ \A q \in InMap \ {s[n] : n \in 1..k} : calc_dist(p, s[k]) <= calc_dist(p, q)}

\* Nearest_Points of p: searched where the iteration had put p then.
Nearest_Points(p) ==
    UNION {Neighbours(q) : q \in {r \in Points : calc_dist(p, r) <= Drift}}

IncrementInit ==
    /\ Init
    /\ PointToAdd = {} /\ PointNoNeedDownsample = {}
    /\ flg_EKF_inited = FALSE
    /\ stored = {} /\ seen = {}
-----------------------------------------------------------------------------
(* The decision about a point, from its neighbours *)

\* On no axis within half a cell of the centre.
Elsewhere(q, mid) ==
    \A a \in Axes : LET d == 2 * q[a] - mid.min[a] - mid.max[a]
                    IN  d > downsample_size \/ -d > downsample_size

\* Mutant: a neighbour near the point itself, not the centre, makes it needless.
NearerToPoint(near, p) ==
    /\ Len(near) >= NUM_MATCH_POINTS
    /\ \E n \in DOMAIN near : calc_dist(near[n], p) < ToCentre(p, Cell(p))

Nearer(near, p) ==
    /\ Len(near) >= NUM_MATCH_POINTS
    /\ \E n \in DOMAIN near : ToCentre(near[n], Cell(p)) < ToCentre(p, Cell(p))

Decision(near, p) ==
    CASE near = <<>> \/ ~flg_EKF_inited -> "add"
      [] near # <<>> /\ flg_EKF_inited /\ Elsewhere(near[1], Cell(p)) -> "alone"
      [] near # <<>> /\ flg_EKF_inited /\ ~Elsewhere(near[1], Cell(p)) /\ Nearer(near, p) -> "refuse"
      [] OTHER -> "add"

\* The scans that may come, within the bounds.
Scans ==
    {scan \in SUBSET Points :
        /\ Cardinality(scan) <= MaxPerScan /\ Cardinality(seen \cup scan) <= MaxSeen
        /\ \A p \in Points : contents[p] <= MaxContents}

\* Every point with every decision its neighbours may lead to.
Decisions ==
    UNION {{<<p, Decision(near, p)>> : near \in Nearest_Points(p)} : p \in Points}

Decide(decisions) ==
    \E scan \in Scans : \E verdict \in [scan -> {"add", "alone", "refuse"}] :
        /\ \A p \in scan : <<p, verdict[p]>> \in decisions
        /\ PointToAdd' = {p \in scan : verdict[p] = "add"}
        /\ PointNoNeedDownsample' = {p \in scan : verdict[p] = "alone"}
        /\ seen' = seen \cup {p \in scan : verdict[p] = "refuse"}

\* The first loop of map_incremental: nothing is added while it runs.
map_incremental ==
    /\ PointToAdd = {} /\ PointNoNeedDownsample = {}
    /\ Decide(Decisions)
    /\ UNCHANGED <<contents, flg_EKF_inited, stored>>
-----------------------------------------------------------------------------
(* The two calls of Add_Points, a point at a time; a scan has its points in any order *)

Enters(p) ==
    /\ seen' = seen \cup {p}
    /\ stored' = stored \cup {q \in Points : contents'[q] > 0}
    /\ UNCHANGED flg_EKF_inited

AddDownsampled(p) ==
    /\ p \in PointToAdd
    /\ InsertDownsampled(p)
    /\ PointToAdd' = PointToAdd \ {p}
    /\ UNCHANGED PointNoNeedDownsample
    /\ Enters(p)

AddAlone(p) ==
    /\ PointToAdd = {} /\ p \in PointNoNeedDownsample
    /\ Insert(p)
    /\ PointNoNeedDownsample' = PointNoNeedDownsample \ {p}
    /\ UNCHANGED PointToAdd
    /\ Enters(p)

\* The first scan with enough points becomes the map as it is.
BuildMap ==
    /\ stored = {} /\ seen = {} /\ PointToAdd = {}
    /\ Fill
    /\ stored' = {p \in Points : contents'[p] > 0}
    /\ Cardinality(stored') <= MaxContents
    /\ UNCHANGED <<PointToAdd, PointNoNeedDownsample, flg_EKF_inited, seen>>

IncrementNext ==
    \/ BuildMap
    \/ map_incremental
    \/ \E p \in Points : AddDownsampled(p) \/ AddAlone(p)
    \/ flg_EKF_inited' = TRUE
       /\ UNCHANGED <<contents, PointToAdd, PointNoNeedDownsample, stored, seen>>

IncrementSpec == IncrementInit /\ [][IncrementNext]_mapVars
-----------------------------------------------------------------------------
(* Properties *)

\* The cell of p holds a point that is at least as near to its centre.
IsCovered(p) ==
    \E q \in InMap : InBox(q, Cell(p)) /\ ToCentre(q, Cell(p)) <= ToCentre(p, Cell(p))

\* No scan empties a cell of the map or makes it worse: whatever has been in the map
\* has a point in its cell that is at least as near to the centre.  And every point
\* that was offered found one that was at least as near to the centre of its cell,
\* though the one it was refused for may be of the next cell, and may have given way
\* to a point of its own scan.
PointsAreRepresented ==
    /\ \A p \in stored : IsCovered(p)
    /\ \A p \in seen : \E q \in stored : ToCentre(q, Cell(p)) <= ToCentre(p, Cell(p))
=============================================================================
