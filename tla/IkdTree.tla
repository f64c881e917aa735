------------------------------- MODULE IkdTree -------------------------------
(***************************************************************************)
(* The incremental k-d tree of FAST-LIO2 (ikd_Tree.h, ikd_Tree.cpp) as one *)
(* thread sees it: lazy deletion with labels that are pushed down on the   *)
(* way, ranges that shrink to the live points, rebuilding of unbalanced or *)
(* mostly deleted subtrees, and the searches that prune by these ranges.   *)
(* A node is a record that holds its sons; an absent son is Nil.  Trees    *)
(* stay below Multi_Thread_Rebuild_Point_Num, where Rebuild hands over to  *)
(* the thread that module IkdRebuild models.  std::nth_element is a sort   *)
(* along the axis, one of the orders it may leave.                         *)
(***************************************************************************)
EXTENDS Integers, Sequences, FiniteSets, TLC

CONSTANTS Nil,
          Points, Boxes,                \* inputs: triples, [min, max]
          Minimal_Unbalanced_Tree_Size,
          delete_criterion, balance_criterion,   \* in percent
          downsample_size,
          Infinity,                     \* above every squared distance
          BuildSize, Radii, Ks,         \* inputs: size of the first scan, radii, neighbours
          MaxTreeSize                   \* bound: nodes of the tree

VARIABLE Root_Node

Axes == 1..3

InBox(p, box) == \A a \in Axes : box.min[a] <= p[a] /\ p[a] < box.max[a]
Apart(n, box) ==
    \E a \in Axes : box.max[a] <= n.low[a] \/ box.min[a] > n.high[a]
WithinClosed(n, box) ==       \* closed at the upper end
    \A a \in Axes : box.min[a] <= n.low[a] /\ n.high[a] <= box.max[a]

Within(n, box) ==
    \A a \in Axes : box.min[a] <= n.low[a] /\ n.high[a] < box.max[a]

Square(v) == v[1] * v[1] + v[2] * v[2] + v[3] * v[3]
calc_dist(p, q) == Square([a \in Axes |-> p[a] - q[a]])

BoxDistFromLow(n, p) ==       \* measured from the lower end on both sides
    IF n = Nil THEN Infinity
    ELSE Square([a \in Axes |-> IF p[a] < n.low[a] \/ p[a] > n.high[a]
                                 THEN p[a] - n.low[a] ELSE 0])

calc_box_dist(n, p) ==
    IF n = Nil THEN Infinity
    ELSE Square([a \in Axes |-> CASE p[a] < n.low[a] -> p[a] - n.low[a]
                                  [] p[a] > n.high[a] -> p[a] - n.high[a]
                                  [] OTHER -> 0])
-----------------------------------------------------------------------------
(* Nodes *)

InitTreeNode(p, axis) ==
    [point |-> p, division_axis |-> axis, low |-> p, high |-> p,
     left |-> Nil, right |-> Nil,
     TreeSize |-> 1, invalid_point_num |-> 0, down_del_num |-> 0,
     point_deleted |-> FALSE, tree_deleted |-> FALSE,
     point_downsample_deleted |-> FALSE, tree_downsample_deleted |-> FALSE,
     push_left |-> FALSE, push_right |-> FALSE]

Size(n) == IF n = Nil THEN 0 ELSE n.TreeSize
Count(b) == IF b THEN 1 ELSE 0
Least(S) == CHOOSE x \in S : \A y \in S : x <= y
Greatest(S) == CHOOSE x \in S : \A y \in S : x >= y

\* The range covers the live parts of the subtree, all parts when none lives.
Update(n) ==
    LET sons == {n.left, n.right} \ {Nil}
        gone == n.point_deleted /\ \A s \in sons : s.tree_deleted
        live == {s \in sons : gone \/ ~s.tree_deleted}
        own == IF gone \/ ~n.point_deleted THEN {n.point} ELSE {}
        lows == own \cup {s.low : s \in live}
        highs == own \cup {s.high : s \in live}
    IN  [n EXCEPT
          !.TreeSize = 1 + Size(n.left) + Size(n.right),
          !.invalid_point_num = Count(n.point_deleted)
              + (IF n.left = Nil THEN 0 ELSE n.left.invalid_point_num)
              + (IF n.right = Nil THEN 0 ELSE n.right.invalid_point_num),
          !.down_del_num = Count(n.point_downsample_deleted)
              + (IF n.left = Nil THEN 0 ELSE n.left.down_del_num)
              + (IF n.right = Nil THEN 0 ELSE n.right.down_del_num),
          !.tree_deleted = gone,
          !.tree_downsample_deleted =
              n.point_downsample_deleted /\ \A s \in sons : s.tree_downsample_deleted,
          !.low = [a \in Axes |-> Least({v[a] : v \in lows})],
          !.high = [a \in Axes |-> Greatest({v[a] : v \in highs})]]

Inherit(n, son) ==
    LET downsampled == son.tree_downsample_deleted \/ n.tree_downsample_deleted
        pointDown == son.point_downsample_deleted \/ n.tree_downsample_deleted
        deleted == n.tree_deleted \/ downsampled
        downs == IF n.tree_downsample_deleted THEN son.TreeSize ELSE son.down_del_num
    IN  [son EXCEPT
          !.tree_downsample_deleted = downsampled,
          !.point_downsample_deleted = pointDown,
          !.tree_deleted = deleted,
          !.point_deleted = deleted \/ pointDown,
          !.down_del_num = downs,
          !.invalid_point_num = IF n.tree_deleted THEN son.TreeSize ELSE downs,
          !.push_left = TRUE, !.push_right = TRUE]

Push_Down(n) ==
    LET Due(flag, son) == flag /\ son # Nil
    IN  [n EXCEPT
          !.left = IF Due(n.push_left, @) THEN Inherit(n, @) ELSE @,
          !.push_left = @ /\ n.left = Nil,
          !.right = IF Due(n.push_right, @) THEN Inherit(n, @) ELSE @,
          !.push_right = @ /\ n.right = Nil]

RECURSIVE Settled(_), flatten(_)
\* The tree after flatten has pushed every label down.
Settled(n) ==
    IF n = Nil THEN Nil
    ELSE LET m == Push_Down(n)
         IN  [m EXCEPT !.left = Settled(@), !.right = Settled(@)]

\* The live points, in the order flatten stores them.
flatten(n) ==
    IF n = Nil THEN <<>>
    ELSE LET m == Push_Down(n)
         IN  (IF m.point_deleted THEN <<>> ELSE <<m.point>>)
                \o flatten(m.left) \o flatten(m.right)
-----------------------------------------------------------------------------
(* Building and rebuilding *)

LongestAxis(S) ==
    LET span == [a \in Axes |-> Greatest({p[a] : p \in S}) - Least({p[a] : p \in S})]
    IN  CHOOSE a \in Axes : /\ \A b \in Axes : span[b] <= span[a]
                            /\ \A b \in 1..(a - 1) : span[b] < span[a]

RECURSIVE BuildTree(_)
BuildTree(storage) ==
    IF storage = <<>> THEN Nil
    ELSE LET axis == LongestAxis({storage[i] : i \in DOMAIN storage})
             sorted == SortSeq(storage, LAMBDA p, q : p[axis] < q[axis])
             mid == (Len(storage) + 1) \div 2
         IN  Update([InitTreeNode(sorted[mid], axis) EXCEPT
                       !.left = BuildTree(SubSeq(sorted, 1, mid - 1)),
                       !.right = BuildTree(SubSeq(sorted, mid + 1, Len(sorted)))])

Criterion_Check(n) ==
    /\ n.TreeSize > Minimal_Unbalanced_Tree_Size
    /\ LET son == IF n.left = Nil THEN n.right ELSE n.left
           rest == n.TreeSize - 1
       IN  \/ 100 * n.invalid_point_num > delete_criterion * n.TreeSize
           \/ 100 * son.TreeSize > balance_criterion * rest
           \/ 100 * son.TreeSize < (100 - balance_criterion) * rest

Rebuild(n) == BuildTree(flatten(n))

\* The end of every operation that went below a node.
Finish(n, allow_rebuild) ==
    LET m == Update(n)
    IN  IF allow_rebuild /\ Criterion_Check(m) THEN Rebuild(m) ELSE m
-----------------------------------------------------------------------------
(* The recursive operations *)

GoesLeft(n, p) == p[n.division_axis] < n.point[n.division_axis]

RECURSIVE Delete_by_range(_, _, _, _), Delete_by_point(_, _, _),
          Add_by_range(_, _, _), Add_by_point(_, _, _, _)

Delete_by_range(root, box, allow_rebuild, is_downsample) ==
    IF root = Nil THEN Nil
    ELSE IF root.tree_deleted THEN root
    ELSE LET n == Push_Down(root)
             Drop == [n EXCEPT !.point_deleted = TRUE,
                               !.point_downsample_deleted = @ \/ is_downsample]
             whole == [Drop EXCEPT
                 !.tree_deleted = TRUE, !.push_left = TRUE, !.push_right = TRUE,
                 !.invalid_point_num = n.TreeSize,
                 !.tree_downsample_deleted = @ \/ is_downsample,
                 !.down_del_num = IF is_downsample THEN n.TreeSize ELSE @]
             m == IF ~n.point_deleted /\ InBox(n.point, box) THEN Drop ELSE n
             Below(son) == Delete_by_range(son, box, allow_rebuild, is_downsample)
         IN  IF Apart(n, box) THEN n
             ELSE IF Within(n, box) THEN whole
             ELSE Finish([m EXCEPT !.left = Below(@), !.right = Below(@)], allow_rebuild)

Delete_by_point(root, p, allow_rebuild) ==
    IF root = Nil THEN Nil
    ELSE IF root.tree_deleted THEN root
    ELSE LET n == Push_Down(root)
             Below(son) == Delete_by_point(son, p, allow_rebuild)
         IN  IF n.point = p /\ ~n.point_deleted
             THEN [n EXCEPT !.point_deleted = TRUE,
                            !.invalid_point_num = @ + 1,
                            !.tree_deleted = @ \/ n.invalid_point_num + 1 = n.TreeSize]
             ELSE Finish(IF GoesLeft(n, p) THEN [n EXCEPT !.left = Below(@)]
                                           ELSE [n EXCEPT !.right = Below(@)],
                         allow_rebuild)

Add_by_range(root, box, allow_rebuild) ==
    IF root = Nil THEN Nil
    ELSE LET n == Push_Down(root)
             m == IF InBox(n.point, box)
                  THEN [n EXCEPT !.point_deleted = n.point_downsample_deleted] ELSE n
             Below(son) == Add_by_range(son, box, allow_rebuild)
         IN  IF Apart(n, box) THEN n
             ELSE IF Within(n, box)
             THEN [n EXCEPT !.tree_deleted = n.tree_downsample_deleted,
                            !.point_deleted = n.point_downsample_deleted,
                            !.push_left = TRUE, !.push_right = TRUE,
                            !.invalid_point_num = n.down_del_num]
             ELSE Finish([m EXCEPT !.left = Below(@), !.right = Below(@)], allow_rebuild)

Add_by_point(root, p, allow_rebuild, father_axis) ==
    IF root = Nil THEN Update(InitTreeNode(p, 1 + (father_axis % 3)))
    ELSE LET n == Push_Down(root)
             Below(son) == Add_by_point(son, p, allow_rebuild, n.division_axis)
         IN  Finish(IF GoesLeft(n, p) THEN [n EXCEPT !.left = Below(@)]
                                      ELSE [n EXCEPT !.right = Below(@)],
                    allow_rebuild)
-----------------------------------------------------------------------------
(* Searching.  A search pushes labels down on its way, so it returns the   *)
(* tree it leaves beside what it found.                                    *)

\* MANUAL_HEAP, a maximum heap by distance and then by x.
Lower(a, b) == IF a.dist = b.dist THEN a.point[1] < b.point[1] ELSE a.dist < b.dist
Swap(h, i, j) == [h EXCEPT ![i] = h[j], ![j] = h[i]]

RECURSIVE MoveDown(_, _), FloatUp(_, _)
MoveDown(h, i) ==
    LET big == IF 2 * i + 1 <= Len(h) /\ Lower(h[2 * i], h[2 * i + 1])
               THEN 2 * i + 1 ELSE 2 * i
    IN  IF big <= Len(h) /\ Lower(h[i], h[big]) THEN MoveDown(Swap(h, i, big), big) ELSE h

FloatUp(h, i) ==
    IF i > 1 /\ Lower(h[i \div 2], h[i])
    THEN FloatUp(Swap(h, i, i \div 2), i \div 2) ELSE h

HeapPush(h, e) == FloatUp(Append(h, e), Len(h) + 1)

HeapPop(h) ==
    IF Len(h) <= 1 THEN <<>>
    ELSE MoveDown([SubSeq(h, 1, Len(h) - 1) EXCEPT ![1] = h[Len(h)]], 1)

RECURSIVE Search(_, _, _, _), Drain(_)
\* The code spells out which son to enter first; in all its branches the nearer
\* one is first and a son is entered while it may still hold a nearer point.
Search(root, k, p, q) ==
    IF root = Nil THEN [tree |-> Nil, q |-> q]
    ELSE IF root.tree_deleted THEN [tree |-> root, q |-> q]
    ELSE LET n == Push_Down(root)
             dist == calc_dist(p, n.point)
             Worth(d, h) == Len(h) < k \/ d < h[1].dist
             own == IF ~n.point_deleted /\ Worth(dist, q)
                    THEN HeapPush(IF Len(q) >= k THEN HeapPop(q) ELSE q,
                                  [point |-> n.point, dist |-> dist])
                    ELSE q
             toLeft == calc_box_dist(n.left, p)
             toRight == calc_box_dist(n.right, p)
             Enter(son, d, h) == IF Worth(d, h) THEN Search(son, k, p, h)
                                 ELSE [tree |-> son, q |-> h]
         IN  IF toLeft <= toRight
             THEN LET l == Enter(n.left, toLeft, own)
                      r == Enter(n.right, toRight, l.q)
                  IN  [tree |-> [n EXCEPT !.left = l.tree, !.right = r.tree], q |-> r.q]
             ELSE LET r == Enter(n.right, toRight, own)
                      l == Enter(n.left, toLeft, r.q)
                  IN  [tree |-> [n EXCEPT !.left = l.tree, !.right = r.tree], q |-> l.q]

Drain(h) == IF h = <<>> THEN <<>> ELSE Append(Drain(HeapPop(h)), h[1].point)

Nearest_Search(root, p, k) ==
    LET s == Search(root, k, p, <<>>)
    IN  [tree |-> s.tree, found |-> Drain(s.q)]

RECURSIVE Search_by_range(_, _), Search_by_radius(_, _, _)
Search_by_range(root, box) ==
    IF root = Nil THEN [tree |-> Nil, found |-> <<>>]
    ELSE LET n == Push_Down(root)
             own == IF InBox(n.point, box) /\ ~n.point_deleted THEN <<n.point>> ELSE <<>>
             l == Search_by_range(n.left, box)
             r == Search_by_range(n.right, box)
         IN  IF Apart(n, box) THEN [tree |-> n, found |-> <<>>]
             ELSE IF Within(n, box) THEN [tree |-> Settled(n), found |-> flatten(n)]
             ELSE [tree |-> [n EXCEPT !.left = l.tree, !.right = r.tree],
                   found |-> own \o l.found \o r.found]

\* The square roots of the code are compared through their squares; a is twice
\* the distance to the centre of the range, b its diameter, both squared.
Search_by_radius(root, p, radius) ==
    IF root = Nil THEN [tree |-> Nil, found |-> <<>>]
    ELSE LET n == Push_Down(root)
             a == Square([i \in Axes |-> n.low[i] + n.high[i] - 2 * p[i]])
             b == Square([i \in Axes |-> n.high[i] - n.low[i]])
             c == 4 * radius * radius
             outside == a - b - c > 0 /\ (a - b - c) * (a - b - c) > 4 * b * c
             inside == c - a - b >= 0 /\ (c - a - b) * (c - a - b) >= 4 * a * b
             own == IF ~n.point_deleted /\ calc_dist(n.point, p) <= radius * radius
                    THEN <<n.point>> ELSE <<>>
             l == Search_by_radius(n.left, p, radius)
             r == Search_by_radius(n.right, p, radius)
         IN  IF outside THEN [tree |-> n, found |-> <<>>]
             ELSE IF inside THEN [tree |-> Settled(n), found |-> flatten(n)]
             ELSE [tree |-> [n EXCEPT !.left = l.tree, !.right = r.tree],
                   found |-> own \o l.found \o r.found]
-----------------------------------------------------------------------------
(* The interface *)

RoomFor(k) == Size(Root_Node) + k <= MaxTreeSize

NoTree == Root_Node = Nil

Build(cloud) ==
    /\ Root_Node = Nil
    /\ RoomFor(Len(cloud))
    /\ Root_Node' = BuildTree(cloud)

DownsampleBox(p) ==
    LET low == [a \in Axes |-> (p[a] \div downsample_size) * downsample_size]
    IN  [min |-> low, max |-> [a \in Axes |-> low[a] + downsample_size]]

\* Twice the distance to the middle of the box, squared.
MidDist(p, box) == Square([a \in Axes |-> 2 * p[a] - box.min[a] - box.max[a]])

\* The new point unless a stored one is nearer; the first of the nearest.
DownsampleResult(p, stored, box) ==
    LET Better(i) == /\ MidDist(stored[i], box) < MidDist(p, box)
                     /\ \A j \in DOMAIN stored :
                          LET dj == MidDist(stored[j], box) di == MidDist(stored[i], box)
                          IN  di < dj \/ (di = dj /\ i <= j)
    IN  IF \E i \in DOMAIN stored : Better(i)
        THEN stored[CHOOSE i \in DOMAIN stored : Better(i)] ELSE p

Add_Points(p, downsample_on) ==
    /\ Root_Node # Nil
    /\ RoomFor(1)
    /\ LET box == DownsampleBox(p)
           s == Search_by_range(Root_Node, box)
           result == DownsampleResult(p, s.found, box)
           cleared == IF s.found = <<>> THEN s.tree
                      ELSE Delete_by_range(s.tree, box, TRUE, TRUE)
       IN  Root_Node' =
             IF ~downsample_on
             THEN Add_by_point(Root_Node, p, TRUE, Root_Node.division_axis)
             ELSE IF Len(s.found) > 1 \/ result = p
             THEN Add_by_point(cleared, result, TRUE, cleared.division_axis)
             ELSE s.tree

Delete_Point_Boxes(box) == Root_Node' = Delete_by_range(Root_Node, box, TRUE, FALSE)

Delete_Points(p) == Root_Node' = Delete_by_point(Root_Node, p, TRUE)

Add_Point_Boxes(box) == Root_Node' = Add_by_range(Root_Node, box, TRUE)

NearestSearch(p, k) == Root_Node' = Nearest_Search(Root_Node, p, k).tree

Box_Search(box) == Root_Node' = Search_by_range(Root_Node, box).tree

Radius_Search(p, radius) == Root_Node' = Search_by_radius(Root_Node, p, radius).tree
-----------------------------------------------------------------------------
Occurrences(s, p) == Len(SelectSeq(s, LAMBDA x : x = p))

\* The live points, as a bag.
LivePoints(root) ==
    LET all == flatten(root) IN [p \in Points |-> Occurrences(all, p)]
-----------------------------------------------------------------------------
(* A client that calls every operation in any order. *)

Clouds == {S \in SUBSET Points : Cardinality(S) = BuildSize}
AsSeq(S) == CHOOSE s \in [1..Cardinality(S) -> S] : {s[i] : i \in DOMAIN s} = S

VARIABLES restoring,    \* may the client also call Add_Point_Boxes?
          contents      \* the live points of Root_Node, as long as it may not

TreeNext ==
    \/ \E S \in Clouds : Build(AsSeq(S))
    \/ \E p \in Points, on \in BOOLEAN : Add_Points(p, on)
    \/ \E box \in Boxes : Delete_Point_Boxes(box)
    \/ \E box \in Boxes : Box_Search(box)
    \/ \E p \in Points, k \in Ks : NearestSearch(p, k)
    \/ \E p \in Points, r \in Radii : Radius_Search(p, r)
    \/ \E p \in Points : Delete_Points(p)
    \/ restoring /\ \E box \in Boxes : Add_Point_Boxes(box)

Init ==
    /\ NoTree
    /\ restoring \in BOOLEAN
    /\ contents = LivePoints(Root_Node)

Next ==
    /\ TreeNext
    /\ contents' = IF restoring THEN contents ELSE LivePoints(Root_Node')
    /\ UNCHANGED restoring
-----------------------------------------------------------------------------
Map == INSTANCE PointMap

\* The lazy labels, the rebuilding and the searches between them change nothing:
\* the live points go through a behaviour of PointMap.
ImplementsPointMap == Map!Spec

NearestExact ==
    LET all == flatten(Root_Node)
    IN  \A p \in Points, k \in Ks :
          LET found == Nearest_Search(Root_Node, p, k).found
              dists == [i \in DOMAIN all |-> calc_dist(p, all[i])]
              best == SortSeq(dists, LAMBDA d, e : d < e)
          IN  /\ [i \in DOMAIN found |-> calc_dist(p, found[i])]
                    = SubSeq(best, 1, IF k < Len(all) THEN k ELSE Len(all))
              /\ \A x \in Points : Occurrences(found, x) <= Occurrences(all, x)

Matches(found, Chosen(_)) ==
    LET all == flatten(Root_Node)
    IN  \A x \in Points :
          Occurrences(found, x) = IF Chosen(x) THEN Occurrences(all, x) ELSE 0

RangeExact ==
    \A box \in Boxes :
        Matches(Search_by_range(Root_Node, box).found, LAMBDA x : InBox(x, box))

RadiusExact ==
    \A c \in Points, r \in Radii :
        Matches(Search_by_radius(Root_Node, c, r).found,
                LAMBDA x : calc_dist(c, x) <= r * r)

RECURSIVE CountsRight(_)
CountsRight(n) ==
    \/ n = Nil
    \/ /\ n.TreeSize - n.invalid_point_num = Len(flatten(n))
       /\ n.tree_deleted = (flatten(n) = <<>>)
       /\ CountsRight(Settled(n).left) /\ CountsRight(Settled(n).right)

\* Pruning by stale or shrunken ranges never costs an answer: every search returns
\* what a search through all live points would, and the counts that trigger
\* rebuilding are the true ones.  After Add_Point_Boxes, which the odometry node
\* never calls, the ranges of restored points may be too small and only the counts
\* are promised.
AnswersExact ==
    /\ restoring \/ (NearestExact /\ RangeExact /\ RadiusExact)
    /\ CountsRight(Root_Node)
=============================================================================
