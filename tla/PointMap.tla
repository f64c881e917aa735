------------------------------ MODULE PointMap ------------------------------
(***************************************************************************)
(* What the incremental k-d tree promises the odometry node: a bag of      *)
(* points that only its own operations change.  A downsampled insertion    *)
(* leaves one point in the cell of the new point, one that is nearest to   *)
(* the centre of the cell; a box deletion removes what lies in the box and *)
(* nothing else.  The removal of a single point, which the odometry node   *)
(* never asks for, may miss it.                                            *)
(***************************************************************************)
EXTENDS Integers, FiniteSets

CONSTANTS Points,          \* points that occur, triples of integers
          Boxes,           \* [min, max], half open on every axis
          downsample_size  \* edge of a cell, positive

VARIABLE contents          \* how often each point is in the map

Axes == 1..3

InBox(p, box) == \A a \in Axes : box.min[a] <= p[a] /\ p[a] < box.max[a]

Cell(p) ==
    LET low == [a \in Axes |-> (p[a] \div downsample_size) * downsample_size]
    IN  [min |-> low, max |-> [a \in Axes |-> low[a] + downsample_size]]

\* Distances are kept doubled and squared: the centre of a cell of odd edge is
\* no integer point.
ToCentre(p, box) ==
    LET d == [a \in Axes |-> 2 * p[a] - box.min[a] - box.max[a]]
    IN  d[1] * d[1] + d[2] * d[2] + d[3] * d[3]

In(box) == {p \in Points : contents[p] > 0 /\ InBox(p, box)}

Nearest(S, box) == {p \in S : \A q \in S : ToCentre(p, box) <= ToCentre(q, box)}
-----------------------------------------------------------------------------
Init == contents = [p \in Points |-> 0]

Fill == contents' \in [Points -> 0..1]

Insert(p) == contents' = [contents EXCEPT ![p] = @ + 1]

InsertDownsampled(p) ==
    LET box == Cell(p)
    IN  \E best \in Nearest(In(box) \cup {p}, box) :
            contents' = [q \in Points |-> IF InBox(q, box)
                                          THEN IF q = best THEN 1 ELSE 0
                                          ELSE contents[q]]

RemoveBox(box) ==
    contents' = [p \in Points |-> IF InBox(p, box) THEN 0 ELSE contents[p]]

RemovePoint(p) ==
    \/ contents' = [contents EXCEPT ![p] = IF @ = 0 THEN 0 ELSE @ - 1]
    \/ UNCHANGED contents

Next ==
    \/ contents = [p \in Points |-> 0] /\ Fill
    \/ \E p \in Points : Insert(p) \/ InsertDownsampled(p) \/ RemovePoint(p)
    \/ \E box \in Boxes : RemoveBox(box)

Spec == Init /\ [][Next]_contents
=============================================================================
