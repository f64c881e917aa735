---------------------------- MODULE Undistortion ----------------------------
(***************************************************************************)
(* The backward pass of ImuProcess::UndistortPcl: the points of a scan, in *)
(* order of time, are walked from the last to the first, and the poses     *)
(* taken at the IMU samples along with them, so that each point is moved   *)
(* by the segment between two poses it was measured in.                    *)
(*                                                                         *)
(* Times are relative to the begin of the scan.  The first pose stands for *)
(* the end of the last scan and is filed at time zero; the samples after   *)
(* it may be older than the scan, when scans were lost.                    *)
(***************************************************************************)
EXTENDS Integers, Sequences, SequencesExt

CONSTANTS PointTimes,   \* the times of points that occur, >= 0
          SampleTimes,  \* the times of samples that occur
          MaxPoints, MaxSamples

MotionConstants ==
    /\ PointTimes \subseteq Int /\ SampleTimes \subseteq Int
    /\ MaxPoints \in Nat /\ MaxSamples \in Nat

VARIABLES
    curvature,          \* the times of the points, sorted
    offset_time,        \* the times of IMUpose
    it_kp, it_pcl,
    inner,              \* inside the loop over points
    compensated         \* the segments each point was moved by

vars == <<curvature, offset_time, it_kp, it_pcl, inner, compensated>>

Sorted(s, Before(_, _)) == \A k \in 1..(Len(s) - 1) : Before(s[k], s[k + 1])

\* After the forward pass; a scan without points is left at once.
Init ==
    /\ curvature \in SeqOf(PointTimes, MaxPoints) /\ curvature # <<>> /\ Sorted(curvature, <=)
    /\ offset_time \in {<<0>> \o samples : samples \in SeqOf(SampleTimes, MaxSamples)}
    /\ Sorted(Tail(offset_time), <)
    /\ it_kp = Len(offset_time) /\ it_pcl = Len(curvature)
    /\ inner = FALSE
    /\ compensated = [p \in DOMAIN curvature |-> <<>>]

head == it_kp - 1

\* Mutant: a point is also taken by the segment that begins at its time.
ReachesEqual == curvature[it_pcl] >= offset_time[head]

Reaches == curvature[it_pcl] > offset_time[head]

Enter ==
    /\ ~inner /\ it_kp # 1
    /\ inner' = TRUE
    /\ UNCHANGED <<curvature, offset_time, it_kp, it_pcl, compensated>>

\* At the first point only the inner loop is left, and the point stays the one to
\* go on with.
Compensate ==
    /\ inner /\ Reaches
    /\ compensated' = [compensated EXCEPT ![it_pcl] = Append(@, head)]
    /\ IF it_pcl = 1
       THEN inner' = FALSE /\ it_kp' = head /\ UNCHANGED it_pcl
       ELSE it_pcl' = it_pcl - 1 /\ UNCHANGED <<inner, it_kp>>
    /\ UNCHANGED <<curvature, offset_time>>

Leave ==
    /\ inner /\ ~Reaches
    /\ inner' = FALSE /\ it_kp' = head
    /\ UNCHANGED <<curvature, offset_time, it_pcl, compensated>>

Next == Enter \/ Compensate \/ Leave

Spec == Init /\ [][Next]_vars
-----------------------------------------------------------------------------
(* Properties *)

\* The segments that began before a point was measured.
Begun(p) == {k \in 1..(Len(offset_time) - 1) : offset_time[k] < curvature[p]}

\* When the pass is over, every point but the first was moved exactly once, by the
\* last segment begun before it, or not at all when there is none; the first point
\* was moved by that segment too, and then, on top of it, by every earlier one.
\* This holds also with samples older than the scan, whose times are not in order
\* with the first pose's.
MovedByItsSegment ==
    (it_kp = 1 /\ ~inner) =>
        \A p \in DOMAIN curvature :
            LET last == CHOOSE k \in Begun(p) : \A m \in Begun(p) : m <= k
            IN  IF Begun(p) = {} THEN compensated[p] = <<>>
                ELSE IF p # 1 THEN compensated[p] = <<last>>
                ELSE /\ compensated[p][1] = last
                     /\ {compensated[p][k] : k \in DOMAIN compensated[p]} = Begun(p)
                     /\ Len(compensated[p]) = Cardinality(Begun(p))
=============================================================================
