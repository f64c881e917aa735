-------------------------- MODULE FeatureExtraction --------------------------
(* The search for planes and edges in one line of a scan                        *)
(* (preprocess.cpp, give_feature): three passes give every point a feature type *)
(* and a fourth selects the points the odometry keeps.                          *)
(*                                                                              *)
(* The geometry is data: what plane_judge, the angles and the ratios say of a   *)
(* group of points is any answer the guards around them allow.  Points are      *)
(* numbered from 1; a point before `blind` is `near`.  The write one past the   *)
(* line that a plane group reaching its end makes (types[i_nex] with            *)
(* i_nex = pl.size()) belongs to no point and is left out.                      *)
EXTENDS Integers, Sequences

CONSTANTS LineSize,           \* points of the line
          NearSets,           \* the sets of points of it that may be near
          group_size,         \* points a plane group has at least
          point_filter_num    \* plane points of which one is kept

FeatureConstants ==
    /\ LineSize \in Nat \ {0} /\ NearSets \subseteq SUBSET (1..LineSize)
    /\ group_size \in Nat \ {0} /\ point_filter_num \in Nat \ {0}

VARIABLES near, pass, i, ftype,
          last_state,         \* 1 after a plane group
          last_surface,       \* first plane point not yet in pl_surf, 0 for none
          pl_surf,            \* each point kept stands for the points <<first, last>>
          pl_corn             \* the edge points kept

featureVars == <<near, pass, i, ftype, last_state, last_surface, pl_surf, pl_corn>>

Line == 1..LineSize
Passes == <<"surf", "edge", "small", "select", "done">>
Flat == {"Poss_Plane", "Real_Plane"}

\* ftype >= Real_Plane in the order of the enumeration.
Settled(t) == t \notin {"Nor", "Poss_Plane"}

\* The first point that is not near; a line of near points only is not searched
\* (the loop of the code would leave the array).
head == CHOOSE k \in Line \ near : \A j \in Line \ near : k <= j

FeatureInit ==
    /\ near \in {s \in NearSets : Line \ s # {}}
    /\ pass = "surf"
    /\ i = head
    /\ ftype = [k \in Line |-> "Nor"]
    /\ last_state = 0
    /\ last_surface = 0
    /\ pl_surf = <<>>
    /\ pl_corn = {}

\* The points of plane_judge from i on: a near one ends the search with 2, else
\* the group runs to i_nex and is a plane or not.
GroupEnds == i + group_size .. LineSize + 1

MeetsNear(i_nex) == i_nex \in near /\ i..i_nex - 1 \cap near = {}

plane_judge(i_nex, verdict) ==
    \/ /\ verdict = 2
       /\ i_nex \in i..LineSize
       /\ MeetsNear(i_nex)
    \/ /\ verdict \in {0, 1}
       /\ i_nex \in GroupEnds
       /\ i..i_nex \cap near = {}

Unselected == UNCHANGED <<near, last_surface, pl_surf, pl_corn>>

Surf ==
    /\ pass = "surf"
    /\ i + group_size <= LineSize
    /\ \/ /\ i \in near
          /\ i' = i + 1
          /\ UNCHANGED <<ftype, last_state>>
       \/ /\ i \notin near
          /\ \E i_nex \in i..LineSize + 1, verdict \in 0..2 :
                /\ plane_judge(i_nex, verdict)
                /\ IF verdict = 1
                   THEN /\ \E first \in IF last_state = 1 THEN {"Edge_Plane", "Real_Plane"}
                                                         ELSE {"Poss_Plane"} :
                              ftype' = [k \in Line |->
                                          CASE k = i -> first
                                            [] k \in i + 1..i_nex - 1 -> "Real_Plane"
                                            [] k = i_nex -> "Poss_Plane"
                                            [] OTHER -> ftype[k]]
                        /\ i' = i_nex
                        /\ last_state' = 1
                   ELSE /\ i' = i_nex + 1
                        /\ last_state' = 0
                        /\ UNCHANGED ftype
    /\ UNCHANGED pass
    /\ Unselected

\* The two points on one side of i that a jump leaves a surface at.
edge_jump_judge == {i - 1, i - 2} \cap near = {} \/ {i + 1, i + 2} \cap near = {}

Edge ==
    /\ pass = "edge"
    /\ i + 3 <= LineSize
    /\ \E t \in {ftype[i]} \cup
                (IF i \in near \/ Settled(ftype[i]) THEN {}
                 ELSE (IF edge_jump_judge THEN {"Edge_Jump"} ELSE {})
                      \cup (IF ftype[i] = "Nor" THEN {"Wire"} ELSE {})) :
          ftype' = [ftype EXCEPT ![i] = t]
    /\ i' = i + 1
    /\ UNCHANGED <<pass, last_state>>
    /\ Unselected

SmallPlane ==
    /\ pass = "small"
    /\ i < LineSize
    /\ \/ UNCHANGED ftype
       \/ /\ i - 1..i + 1 \cap near = {}
          /\ ftype[i] = "Nor"
          /\ ftype' = [k \in Line |-> IF k \in i - 1..i + 1 /\ ftype[k] = "Nor"
                                      THEN "Real_Plane" ELSE ftype[k]]
    /\ i' = i + 1
    /\ UNCHANGED <<pass, last_state>>
    /\ Unselected

\* A group is full, and its last point kept, or it ends, and its mean is kept.
Group(last) == IF last_surface = 0 THEN last ELSE last_surface

GroupFull(j) == Group(j) + point_filter_num - 1 = j

Select ==
    /\ pass = "select"
    /\ i <= LineSize
    /\ IF ftype[i] \in Flat
       THEN /\ UNCHANGED pl_corn
            /\ IF GroupFull(i)
               THEN /\ pl_surf' = Append(pl_surf, <<Group(i), i>>)
                    /\ last_surface' = 0
               ELSE /\ last_surface' = Group(i)
                    /\ UNCHANGED pl_surf
       ELSE /\ pl_corn' = IF ftype[i] \in {"Edge_Jump", "Edge_Plane"}
                          THEN pl_corn \cup {i} ELSE pl_corn
            /\ pl_surf' = IF last_surface = 0 THEN pl_surf
                          ELSE Append(pl_surf, <<last_surface, i - 1>>)
            /\ last_surface' = 0
    /\ i' = i + 1
    /\ UNCHANGED <<near, pass, ftype, last_state>>

\* A pass ends where its loop ends and the next starts where its loop starts.
PassEnd == [surf |-> LineSize - group_size, edge |-> LineSize - 3,
            small |-> LineSize - 1, select |-> LineSize]
PassStart == [edge |-> head + 3, small |-> head + 1, select |-> head, done |-> 0]

NextPass ==
    /\ pass # "done"
    /\ i > PassEnd[pass]
    /\ LET next == CHOOSE n \in 1..4 : Passes[n] = pass
       IN /\ pass' = Passes[next + 1]
          /\ i' = PassStart[Passes[next + 1]]
    /\ UNCHANGED <<near, ftype, last_state, last_surface, pl_surf, pl_corn>>

FeatureNext == Surf \/ Edge \/ SmallPlane \/ Select \/ NextPass

FeatureSpec == FeatureInit /\ [][FeatureNext]_featureVars

-----------------------------------------------------------------------------
StandsFor(k) == pl_surf[k][1]..pl_surf[k][2]

\* When the line is done, the plane points are divided among the points kept:
\* each stands for at most point_filter_num consecutive plane points and for
\* nothing else, no plane point is counted twice, and none is left without one
\* but a last group that the end of the line cut short.
PlanesAreKept ==
    pass = "done" =>
        LET kept == UNION {StandsFor(k) : k \in DOMAIN pl_surf}
            flat == {k \in Line : ftype[k] \in Flat /\ k >= head}
        IN /\ kept \subseteq flat
           /\ \A k \in DOMAIN pl_surf : pl_surf[k][2] - pl_surf[k][1] < point_filter_num
           /\ \A k, l \in DOMAIN pl_surf : k # l => StandsFor(k) \cap StandsFor(l) = {}
           /\ \A k \in flat \ kept : /\ k + point_filter_num > LineSize + 1
                                     /\ k..LineSize \subseteq flat
=============================================================================
