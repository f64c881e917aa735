------------------------------ MODULE ScanProofs ------------------------------
(***************************************************************************)
(* Theorems about what a scan goes through before and beside the odometry, *)
(* for any patterns, messages, lines of points and clouds: the packets of  *)
(* the simulated LiDAR, the conversion and the features of a message, and  *)
(* the filters of the mapper.                                              *)
(***************************************************************************)
EXTENDS OdometryProofs

-----------------------------------------------------------------------------
(* FeatureExtraction *)

LEMMA HeadIsLeast ==
  ASSUME Line!FeatureConstants, near \in NearSets, (1..LineSize) \ near # {}
  PROVE  Line!head \in (1..LineSize) \ near
<1> DEFINE far == (1..LineSize) \ near
<1>1. far \subseteq Nat /\ far # {}
  OBVIOUS
<1> HIDE DEF far
<1>2. \E k \in far : \A j \in far : k <= j
  BY <1>1, LeastOf
<1>3. (CHOOSE k \in far : \A j \in far : k <= j) \in far
  BY <1>2
<1>4. Line!head = CHOOSE k \in far : \A j \in far : k <= j
  BY DEF Line!head, Line!Line, far
<1>5. QED
  BY <1>3, <1>4 DEF far

\* The plane points from h up to n are divided among the points kept, each for less
\* than point_filter_num more, and the group from last on that is still open.
Divided(h, n, kept, last, types) ==
  /\ kept \in Seq(Nat \X Nat)
  /\ \A k \in DOMAIN kept :
       /\ h <= kept[k][1] /\ kept[k][1] <= kept[k][2] /\ kept[k][2] < n
       /\ kept[k][2] - kept[k][1] < point_filter_num
  /\ \A j, k \in DOMAIN kept : j < k => kept[j][2] < kept[k][1]
  /\ last # 0 => /\ last \in h..(n - 1)
                 /\ n - last < point_filter_num
                 /\ \A k \in DOMAIN kept : kept[k][2] < last
  /\ \A q \in h..(n - 1) :
       types[q] \in Line!Flat <=>
         \/ \E k \in DOMAIN kept : q \in kept[k][1]..kept[k][2]
         \/ last # 0 /\ last <= q

\* A group of at most point_filter_num points is closed by its last point or by the
\* first point after it that is no plane point.
LEMMA GroupCloses ==
  ASSUME point_filter_num \in Nat, NEW h \in Nat \ {0}, NEW n \in Nat, h <= n,
         NEW kept, NEW last, NEW types, Divided(h, n, kept, last, types),
         NEW from \in h..n, NEW to \in from..n, to - from < point_filter_num,
         last # 0 => from = last, last = 0 => from = n,
         to = n <=> types[n] \in Line!Flat, n - to <= 1
  PROVE  Divided(h, n + 1, Append(kept, <<from, to>>), 0, types)
<1> DEFINE longer == Append(kept, <<from, to>>)
<1>1. from \in Nat /\ to \in Nat /\ kept \in Seq(Nat \X Nat)
  BY DEF Divided
<1>2. longer \in Seq(Nat \X Nat) /\ DOMAIN longer = 1..(Len(kept) + 1) /\ Len(kept) \in Nat
      /\ DOMAIN kept = 1..Len(kept)
  BY <1>1
<1>3. \A k \in DOMAIN kept : longer[k] = kept[k]
  BY <1>1
<1>4. longer[Len(kept) + 1] = <<from, to>>
  BY <1>1
<1>5. \A k \in DOMAIN kept : kept[k][1] \in Nat /\ kept[k][2] \in Nat
  BY <1>1
<1> HIDE DEF longer
<1>6. \A k \in DOMAIN kept : kept[k][2] < from
  <2> SUFFICES ASSUME NEW k \in DOMAIN kept PROVE kept[k][2] < from
    OBVIOUS
  <2>1. CASE last = 0
    BY <1>5, <2>1 DEF Divided
  <2>2. CASE last # 0
    BY <1>5, <2>2 DEF Divided
  <2>3. QED
    BY <2>1, <2>2
<1>7. ASSUME NEW k \in DOMAIN longer
      PROVE  /\ h <= longer[k][1] /\ longer[k][1] <= longer[k][2] /\ longer[k][2] < n + 1
             /\ longer[k][2] - longer[k][1] < point_filter_num
  <2>1. CASE k = Len(kept) + 1
    BY <1>1, <1>4, <2>1
  <2>2. CASE k \in DOMAIN kept
    BY <1>3, <1>5, <2>2 DEF Divided
  <2>3. QED
    BY <1>2, <2>1, <2>2
<1>8. ASSUME NEW j \in DOMAIN longer, NEW k \in DOMAIN longer, j < k
      PROVE  longer[j][2] < longer[k][1]
  <2>1. j \in DOMAIN kept
    BY <1>2, <1>8
  <2>2. CASE k = Len(kept) + 1
    BY <1>3, <1>4, <1>6, <2>1, <2>2
  <2>3. CASE k \in DOMAIN kept
    BY <1>3, <1>8, <2>1, <2>3 DEF Divided
  <2>4. QED
    BY <1>2, <2>2, <2>3
<1>9. ASSUME NEW q \in h..n
      PROVE  types[q] \in Line!Flat <=> \E k \in DOMAIN longer : q \in longer[k][1]..longer[k][2]
  <2>1. (\E k \in DOMAIN longer : q \in longer[k][1]..longer[k][2])
        <=> (\E k \in DOMAIN kept : q \in kept[k][1]..kept[k][2]) \/ q \in from..to
    <3>1. ASSUME NEW k \in DOMAIN longer, q \in longer[k][1]..longer[k][2]
          PROVE  (\E m \in DOMAIN kept : q \in kept[m][1]..kept[m][2]) \/ q \in from..to
      <4>1. CASE k = Len(kept) + 1
        BY <1>4, <3>1, <4>1
      <4>2. CASE k \in DOMAIN kept
        BY <1>3, <3>1, <4>2
      <4>3. QED
        BY <1>2, <4>1, <4>2
    <3>2. ASSUME NEW k \in DOMAIN kept, q \in kept[k][1]..kept[k][2]
          PROVE  \E m \in DOMAIN longer : q \in longer[m][1]..longer[m][2]
      <4>1. k \in DOMAIN longer /\ q \in longer[k][1]..longer[k][2]
        BY <1>2, <1>3, <3>2
      <4>2. QED
        BY <4>1
    <3>3. ASSUME q \in from..to
          PROVE  \E m \in DOMAIN longer : q \in longer[m][1]..longer[m][2]
      <4>1. Len(kept) + 1 \in DOMAIN longer
        BY <1>2
      <4>2. q \in longer[Len(kept) + 1][1]..longer[Len(kept) + 1][2]
        BY <1>4, <3>3
      <4>3. QED
        BY <4>1, <4>2
    <3>4. QED
      BY <3>1, <3>2, <3>3
  <2>2. CASE q = n
    <3>1. ~\E k \in DOMAIN kept : q \in kept[k][1]..kept[k][2]
      BY <1>5, <1>6, <2>2
    <3>2. q \in from..to <=> to = n
      BY <1>1, <2>2
    <3>3. QED
      BY <2>1, <2>2, <3>1, <3>2
  <2>3. CASE q # n
    <3>1. q \in h..(n - 1)
      BY <2>3
    <3>2. (q \in from..to) <=> (last # 0 /\ last <= q)
      BY <1>1, <2>3
    <3>3. QED
      BY <2>1, <3>1, <3>2 DEF Divided
  <2>4. QED
    BY <2>2, <2>3
<1>10. n = (n + 1) - 1
  OBVIOUS
<1>11. QED
  BY <1>2, <1>7, <1>8, <1>9, <1>10 DEF Divided, longer

\* A group goes on, or begins, while it is not full, and without a group a point that
\* is no plane point changes nothing.
LEMMA GroupGoesOn ==
  ASSUME point_filter_num \in Nat \ {0}, NEW h \in Nat \ {0}, NEW n \in Nat, h <= n,
         NEW kept, NEW last, NEW types, Divided(h, n, kept, last, types),
         NEW next,
         \/ last = 0 /\ next = 0 /\ types[n] \notin Line!Flat
         \/ /\ types[n] \in Line!Flat
            /\ next = IF last = 0 THEN n ELSE last
            /\ next + point_filter_num - 1 # n
  PROVE  Divided(h, n + 1, kept, next, types)
<1>1. kept \in Seq(Nat \X Nat)
  BY DEF Divided
<1>2. \A k \in DOMAIN kept : kept[k][1] \in Nat /\ kept[k][2] \in Nat
  BY <1>1
<1>3. next # 0 => /\ next \in h..n
                  /\ (n + 1) - next < point_filter_num
                  /\ \A k \in DOMAIN kept : kept[k][2] < next
  <2> SUFFICES ASSUME next # 0
               PROVE  /\ next \in h..n
                      /\ (n + 1) - next < point_filter_num
                      /\ \A k \in DOMAIN kept : kept[k][2] < next
    OBVIOUS
  <2>1. CASE last = 0
    <3>1. next = n /\ n + point_filter_num - 1 # n
      BY <2>1
    <3>2. point_filter_num > 1
      BY <3>1
    <3>3. QED
      BY <1>2, <3>1, <3>2 DEF Divided
  <2>2. CASE last # 0
    <3>1. next = last /\ last \in h..(n - 1) /\ n - last < point_filter_num
      BY <2>2 DEF Divided
    <3>2. (n + 1) - next < point_filter_num
      BY <2>2, <3>1
    <3>3. QED
      BY <2>2, <3>1, <3>2 DEF Divided
  <2>3. QED
    BY <2>1, <2>2
<1>4. \A k \in DOMAIN kept : kept[k][2] < n + 1
  BY <1>2 DEF Divided
<1>5. ASSUME NEW q \in h..n
      PROVE  types[q] \in Line!Flat <=>
               \/ \E k \in DOMAIN kept : q \in kept[k][1]..kept[k][2]
               \/ next # 0 /\ next <= q
  <2>1. CASE q = n
    <3>1. ~\E k \in DOMAIN kept : q \in kept[k][1]..kept[k][2]
      BY <1>2, <2>1 DEF Divided
    <3>2. next # 0 => next <= q
      BY <1>3, <2>1
    <3>3. types[n] \in Line!Flat => next # 0
      BY DEF Divided
    <3>4. QED
      BY <2>1, <3>1, <3>2, <3>3
  <2>2. CASE q # n
    <3>1. q \in h..(n - 1)
      BY <2>2
    <3>2. (next # 0 /\ next <= q) <=> (last # 0 /\ last <= q)
      BY <3>1
    <3>3. QED
      BY <3>1, <3>2 DEF Divided
  <2>3. QED
    BY <2>1, <2>2
<1>6. n = (n + 1) - 1
  OBVIOUS
<1>7. QED
  BY <1>1, <1>3, <1>4, <1>5, <1>6 DEF Divided

PlaneInv ==
  /\ near \in NearSets /\ (1..LineSize) \ near # {}
  /\ pass \in {"surf", "edge", "small", "select", "done"}
  /\ pass \in {"surf", "edge", "small"} => selected = <<>> /\ last_surface = 0
  /\ pass = "select" =>
       /\ index \in Line!head..(LineSize + 1)
       /\ Divided(Line!head, index, selected, last_surface, ftype)
  /\ pass = "done" => Divided(Line!head, LineSize + 1, selected, last_surface, ftype)

LEMMA NothingDivided == ASSUME NEW h \in Nat, NEW types PROVE Divided(h, h, <<>>, 0, types)
<1>1. <<>> \in Seq(Nat \X Nat) /\ DOMAIN <<>> = {}
  OBVIOUS
<1>2. h..(h - 1) = {}
  OBVIOUS
<1>3. QED
  BY <1>1, <1>2 DEF Divided

LEMMA PlaneInvInit == ASSUME Line!FeatureInit PROVE PlaneInv
<1>1. near \in NearSets /\ (1..LineSize) \ near # {}
  BY DEF Line!FeatureInit, Line!Line
<1>2. pass = "surf" /\ selected = <<>> /\ last_surface = 0
  BY DEF Line!FeatureInit
<1>3. QED
  BY <1>1, <1>2 DEF PlaneInv

LEMMA SelectInv ==
  ASSUME Line!FeatureConstants, PlaneInv, Line!Select
  PROVE  PlaneInv'
<1> DEFINE h == Line!head
<1>1. h \in Nat \ {0} /\ LineSize \in Nat /\ point_filter_num \in Nat \ {0}
  BY HeadIsLeast DEF PlaneInv, Line!FeatureConstants
<1>2. index \in h..LineSize /\ Divided(h, index, selected, last_surface, ftype)
  BY <1>1 DEF PlaneInv, Line!Select
<1>3. near' = near /\ pass' = pass /\ pass = "select" /\ ftype' = ftype /\ index' = index + 1
  BY DEF Line!Select
<1>4. (Line!head)' = Line!head
  BY <1>3 DEF Line!head
<1> HIDE DEF h
<1>5. index \in Nat
  BY <1>1, <1>2
<1>6. last_surface # 0 =>
        last_surface \in h..(index - 1) /\ index - last_surface < point_filter_num
  BY <1>2 DEF Divided
<1>7. Divided(h, index + 1, selected', last_surface', ftype)
  <2>1. CASE ftype[index] \in Line!Flat /\ Line!GroupFull(index)
    <3> DEFINE from == Line!Group(index)
    <3>1. selected' = Append(selected, <<from, index>>) /\ last_surface' = 0
      BY <2>1 DEF Line!Select
    <3>2. last_surface # 0 => from = last_surface
      BY DEF Line!Group
    <3>3. last_surface = 0 => from = index
      BY DEF Line!Group
    <3>4. from + point_filter_num - 1 = index
      BY <2>1 DEF Line!GroupFull
    <3> HIDE DEF from
    <3>5. from \in h..index
      BY <1>2, <1>5, <1>6, <3>2, <3>3
    <3>6. index - from < point_filter_num
      BY <1>1, <1>5, <3>4, <3>5
    <3>7. index \in from..index /\ index - index <= 1
      BY <1>1, <1>5, <3>5
    <3>8. index = index <=> ftype[index] \in Line!Flat
      BY <2>1
    <3>9. h <= index
      BY <1>2
    <3>10. Divided(h, index + 1, Append(selected, <<from, index>>), 0, ftype)
      BY <1>1, <1>2, <1>5, <3>2, <3>3, <3>5, <3>6, <3>7, <3>8, <3>9, GroupCloses
    <3>11. QED
      BY <3>1, <3>10
  <2>2. CASE ftype[index] \in Line!Flat /\ ~Line!GroupFull(index)
    <3>1. selected' = selected /\ last_surface' = Line!Group(index)
      BY <2>2 DEF Line!Select
    <3>2. last_surface' = IF last_surface = 0 THEN index ELSE last_surface
      BY <3>1 DEF Line!Group
    <3>3. last_surface' + point_filter_num - 1 # index
      BY <2>2, <3>1 DEF Line!GroupFull
    <3>4. h <= index
      BY <1>2
    <3>5. Divided(h, index + 1, selected, last_surface', ftype)
      BY <1>1, <1>2, <1>5, <2>2, <3>2, <3>3, <3>4, GroupGoesOn
    <3>6. QED
      BY <3>1, <3>5
  <2>3. CASE ftype[index] \notin Line!Flat /\ last_surface = 0
    <3>1. selected' = selected /\ last_surface' = 0
      BY <2>3 DEF Line!Select
    <3>2. h <= index
      BY <1>2
    <3>3. Divided(h, index + 1, selected, 0, ftype)
      BY <1>1, <1>2, <1>5, <2>3, <3>2, GroupGoesOn
    <3>4. QED
      BY <3>1, <3>3
  <2>4. CASE ftype[index] \notin Line!Flat /\ last_surface # 0
    <3>1. selected' = Append(selected, <<last_surface, index - 1>>) /\ last_surface' = 0
      BY <2>4 DEF Line!Select
    <3>2. last_surface \in h..index /\ (index - 1) \in last_surface..index
      BY <1>1, <1>5, <1>6, <2>4
    <3>3. (index - 1) - last_surface < point_filter_num /\ index - (index - 1) <= 1
      BY <1>1, <1>5, <1>6, <2>4
    <3>4. (index - 1 = index) <=> ftype[index] \in Line!Flat
      BY <1>5, <2>4
    <3>5. h <= index
      BY <1>2
    <3>6. Divided(h, index + 1, Append(selected, <<last_surface, index - 1>>), 0, ftype)
      BY <1>1, <1>2, <1>5, <2>4, <3>2, <3>3, <3>4, <3>5, GroupCloses
    <3>7. QED
      BY <3>1, <3>6
  <2>5. QED
    BY <2>1, <2>2, <2>3, <2>4
<1>8. index + 1 \in h..(LineSize + 1)
  BY <1>1, <1>2
<1>9. QED
  BY <1>3, <1>4, <1>7, <1>8 DEF PlaneInv, h

LEMMA PassesInOrder ==
  ASSUME NEW n \in 1..4
  PROVE  /\ Line!Passes[n] = "surf" => Line!Passes[n + 1] = "edge"
         /\ Line!Passes[n] = "edge" => Line!Passes[n + 1] = "small"
         /\ Line!Passes[n] = "small" => Line!Passes[n + 1] = "select"
         /\ Line!Passes[n] = "select" => Line!Passes[n + 1] = "done"
<1>1. CASE n = 1
  BY <1>1 DEF Line!Passes
<1>2. CASE n = 2
  BY <1>2 DEF Line!Passes
<1>3. CASE n = 3
  BY <1>3 DEF Line!Passes
<1>4. CASE n = 4
  BY <1>4 DEF Line!Passes
<1>5. QED
  BY <1>1, <1>2, <1>3, <1>4

LEMMA NextPassInv ==
  ASSUME Line!FeatureConstants, PlaneInv, Line!NextPass
  PROVE  PlaneInv'
<1>1. UNCHANGED <<near, ftype, last_state, last_surface, selected, pl_corn>>
      /\ pass # "done" /\ index > Line!PassEnd[pass]
  BY DEF Line!NextPass
<1>2. (Line!head)' = Line!head
  BY <1>1 DEF Line!head
<1>3. Line!head \in Nat \ {0} /\ Line!head <= LineSize /\ LineSize \in Nat
  BY HeadIsLeast DEF PlaneInv, Line!FeatureConstants
<1> DEFINE next == CHOOSE n \in 1..4 : Line!Passes[n] = pass
<1>4. pass' = Line!Passes[next + 1] /\ index' = Line!PassStart[Line!Passes[next + 1]]
  BY DEF Line!NextPass
<1>5. \E n \in 1..4 : Line!Passes[n] = pass
  <2>1. Line!Passes[1] = "surf" /\ Line!Passes[2] = "edge" /\ Line!Passes[3] = "small"
        /\ Line!Passes[4] = "select"
    BY DEF Line!Passes
  <2>2. pass \in {"surf", "edge", "small", "select"}
    BY <1>1 DEF PlaneInv
  <2>3. 1 \in 1..4 /\ 2 \in 1..4 /\ 3 \in 1..4 /\ 4 \in 1..4
    OBVIOUS
  <2>4. QED
    BY <2>1, <2>2, <2>3
<1>6. next \in 1..4 /\ Line!Passes[next] = pass
  BY <1>5
<1> HIDE DEF next
<1>7. /\ pass = "surf" => pass' = "edge"
      /\ pass = "edge" => pass' = "small"
      /\ pass = "small" => pass' = "select"
      /\ pass = "select" => pass' = "done"
  BY <1>4, <1>6, PassesInOrder
<1>8. CASE pass \in {"surf", "edge"}
  <2>1. pass' \in {"edge", "small"} /\ selected' = <<>> /\ last_surface' = 0
    BY <1>1, <1>7, <1>8 DEF PlaneInv
  <2>2. QED
    BY <1>1, <2>1 DEF PlaneInv
<1>9. CASE pass = "small"
  <2>1. pass' = "select" /\ selected' = <<>> /\ last_surface' = 0
    BY <1>1, <1>7, <1>9 DEF PlaneInv
  <2>2. index' = Line!head
    BY <1>4, <1>7, <1>9 DEF Line!PassStart
  <2>3. Divided(Line!head, Line!head, <<>>, 0, ftype)
    BY <1>3, NothingDivided
  <2>4. index' \in Line!head..(LineSize + 1)
    BY <1>3, <2>2
  <2>5. QED
    BY <1>1, <1>2, <2>1, <2>2, <2>3, <2>4 DEF PlaneInv
<1>10. CASE pass = "select"
  <2>1. pass' = "done"
    BY <1>7, <1>10
  <2>2. Line!PassEnd[pass] = LineSize
    BY <1>10 DEF Line!PassEnd
  <2>3. index = LineSize + 1
    BY <1>1, <1>3, <1>10, <2>2 DEF PlaneInv
  <2>4. Divided(Line!head, LineSize + 1, selected, last_surface, ftype)
    BY <1>10, <2>3 DEF PlaneInv
  <2>5. QED
    BY <1>1, <1>2, <2>1, <2>4 DEF PlaneInv
<1>11. QED
  BY <1>1, <1>8, <1>9, <1>10 DEF PlaneInv

LEMMA PlaneInvStep ==
  ASSUME Line!FeatureConstants, PlaneInv, [Line!FeatureNext]_(Line!featureVars)
  PROVE  PlaneInv'
<1>1. CASE Line!Surf \/ Line!Edge \/ Line!SmallPlane
  <2>1. UNCHANGED <<near, last_surface, selected, pl_corn>> /\ pass' = pass
        /\ pass \in {"surf", "edge", "small"}
    BY <1>1 DEF Line!Surf, Line!Edge, Line!SmallPlane, Line!Unselected
  <2>2. QED
    BY <2>1 DEF PlaneInv
<1>2. CASE UNCHANGED Line!featureVars
  <2>1. UNCHANGED <<near, pass, index, ftype, last_surface, selected>>
    BY <1>2 DEF Line!featureVars
  <2>2. (Line!head)' = Line!head
    BY <2>1 DEF Line!head
  <2>3. QED
    BY <2>1, <2>2 DEF PlaneInv
<1>3. QED
  BY <1>1, <1>2, SelectInv, NextPassInv DEF Line!FeatureNext

\* When the search is over, the plane points of the line are divided as stated.
LEMMA PlaneInvKept ==
  ASSUME Line!FeatureConstants, PlaneInv
  PROVE  Line!PlanesAreKept
<1> SUFFICES ASSUME pass = "done" PROVE Line!PlanesAreKept
  BY DEF Line!PlanesAreKept
<1> DEFINE h == Line!head
           kept == UNION {Line!StandsFor(k) : k \in DOMAIN selected}
           flat == {k \in Line!Line : ftype[k] \in Line!Flat /\ k >= Line!head}
<1>1. h \in Nat \ {0} /\ h <= LineSize /\ LineSize \in Nat /\ point_filter_num \in Nat
  BY HeadIsLeast DEF PlaneInv, Line!FeatureConstants
<1>2. Divided(h, LineSize + 1, selected, last_surface, ftype)
  BY DEF PlaneInv
<1>3. \A k \in DOMAIN selected : /\ selected[k][1] \in Nat /\ selected[k][2] \in Nat
                                 /\ Line!StandsFor(k) = selected[k][1]..selected[k][2]
  BY <1>2 DEF Divided, Line!StandsFor
<1>4. \A q : q \in flat <=> q \in h..LineSize /\ ftype[q] \in Line!Flat
  BY <1>1 DEF Line!Line
<1>5. \A q \in kept : \E k \in DOMAIN selected : q \in selected[k][1]..selected[k][2]
  BY <1>3
<1>6. \A k \in DOMAIN selected : \A q \in selected[k][1]..selected[k][2] : q \in kept
  BY <1>3
<1>7. (LineSize + 1) - 1 = LineSize
  BY <1>1
<1>8. \A q \in h..LineSize : ftype[q] \in Line!Flat <=>
         \/ \E k \in DOMAIN selected : q \in selected[k][1]..selected[k][2]
         \/ last_surface # 0 /\ last_surface <= q
  BY <1>2, <1>7 DEF Divided
<1>9. \A k \in DOMAIN selected : selected[k][2] - selected[k][1] < point_filter_num
  BY <1>2 DEF Divided
<1>10. ASSUME NEW k \in DOMAIN selected, NEW q \in selected[k][1]..selected[k][2]
       PROVE  q \in h..LineSize
  BY <1>1, <1>2, <1>3, <1>10 DEF Divided
<1>11. \A j, k \in DOMAIN selected : j < k => selected[j][2] < selected[k][1]
  BY <1>2 DEF Divided
<1>12. last_surface # 0 => last_surface \in h..LineSize
                           /\ (LineSize + 1) - last_surface < point_filter_num
  BY <1>2, <1>7 DEF Divided
<1> HIDE DEF h, kept, flat
<1>13. kept \subseteq flat
  BY <1>4, <1>5, <1>8, <1>10
<1>14. ASSUME NEW j \in DOMAIN selected, NEW k \in DOMAIN selected, j # k
       PROVE  Line!StandsFor(j) \cap Line!StandsFor(k) = {}
  <2>1. j \in Nat /\ k \in Nat
    BY <1>2 DEF Divided
  <2>2. selected[j][2] < selected[k][1] \/ selected[k][2] < selected[j][1]
    BY <1>11, <1>14, <2>1
  <2>3. (selected[j][1]..selected[j][2]) \cap (selected[k][1]..selected[k][2]) = {}
    BY <1>3, <2>2
  <2>4. QED
    BY <1>3, <2>3
<1>15. ASSUME NEW k \in flat \ kept
       PROVE  k + point_filter_num > LineSize + 1 /\ k..LineSize \subseteq flat
  <2>1. k \in h..LineSize /\ ~\E m \in DOMAIN selected : k \in selected[m][1]..selected[m][2]
    BY <1>4, <1>6
  <2>2. last_surface # 0 /\ last_surface <= k
    BY <1>4, <1>8, <2>1
  <2>3. k + point_filter_num > LineSize + 1
    BY <1>1, <1>12, <2>1, <2>2
  <2>4. ASSUME NEW q \in k..LineSize PROVE q \in flat
    <3>1. q \in h..LineSize /\ last_surface <= q
      BY <1>1, <1>12, <2>1, <2>2
    <3>2. QED
      BY <1>4, <1>8, <2>2, <3>1
  <2>5. QED
    BY <2>3, <2>4
<1>16. QED
  BY <1>9, <1>13, <1>14, <1>15 DEF Line!PlanesAreKept, kept, flat

-----------------------------------------------------------------------------
(* Division *)

\* n is d times its quotient and the remainder, in one way.
LEMMA Divides ==
  ASSUME NEW d \in Nat \ {0}, NEW n \in Int, NEW k \in Int, NEW r \in 0..(d - 1), n = d * k + r
  PROVE  n \div d = k /\ (n % d) = r
<1>1. PICK j, s : j = n \div d /\ s = (n % d)
  OBVIOUS
<1>2. j \in Int /\ s \in 0..(d - 1) /\ n = d * j + s
  BY <1>1
<1>3. \A x, y \in Int : x < y => d * x + d <= d * y
  OBVIOUS
<1>4. ~(j < k) /\ ~(k < j)
  <2>1. d * j \in Int /\ d * k \in Int
    BY <1>2
  <2>2. QED
    BY <1>2, <1>3, <2>1
<1>5. j = k
  BY <1>2, <1>4
<1>6. QED
  BY <1>1, <1>2, <1>5

LEMMA WithinTwo ==
  ASSUME NEW d \in Nat \ {0}, NEW n \in Nat, n < 2 * d
  PROVE  (n % d) = IF n < d THEN n ELSE n - d
<1>1. CASE n < d
  <2>1. n \in 0..(d - 1) /\ n = d * 0 + n
    BY <1>1
  <2>2. QED
    BY <1>1, <2>1, Divides
<1>2. CASE n >= d
  <2>1. n - d \in 0..(d - 1) /\ n = d * 1 + (n - d)
    BY <1>2
  <2>2. (n % d) = n - d
    BY <2>1, Divides
  <2>3. QED
    BY <1>2, <2>2
<1>3. QED
  BY <1>1, <1>2

-----------------------------------------------------------------------------
(* Preprocess *)

ScanPoints == [ring : Nat, at : Nat, far : BOOLEAN, clean : BOOLEAN, again : BOOLEAN]

\* The points of a message in order, within two turns, and each line measured more
\* than once a turn.
MessageOK(s) ==
  /\ s \in Seq(ScanPoints)
  /\ \A j, k \in DOMAIN s : j <= k => s[j].at <= s[k].at
  /\ \A k \in DOMAIN s : s[k].at < 2 * Turn
  /\ \A j, k \in DOMAIN s :
       j < k /\ s[j].ring = s[k].ring /\ (\A m \in (j + 1)..(k - 1) : s[m].ring # s[j].ring)
         => s[k].at - s[j].at < Turn

LEMMA PointOK ==
  ASSUME NEW s, MessageOK(s), NEW k \in DOMAIN s
  PROVE  s[k].at \in Nat /\ s[k].ring \in Nat
<1>1. s \in Seq(ScanPoints)
  BY DEF MessageOK
<1>2. s[k] \in ScanPoints
  BY <1>1
<1>3. QED
  BY <1>2 DEF ScanPoints

LEMMA FirstIsFirst ==
  ASSUME MessageOK(scan), NEW k \in DOMAIN scan
  PROVE  /\ Convert!First(scan[k].ring) \in 1..k
         /\ scan[Convert!First(scan[k].ring)].ring = scan[k].ring
         /\ \A j \in 1..(Convert!First(scan[k].ring) - 1) : scan[j].ring # scan[k].ring
<1> DEFINE l == scan[k].ring
           fired == {j \in DOMAIN scan : scan[j].ring = l}
<1>1. Len(scan) \in Nat /\ DOMAIN scan = 1..Len(scan)
  BY DEF MessageOK
<1>2. fired \subseteq Nat /\ k \in fired
  BY <1>1
<1>3. \A j \in fired : j \in DOMAIN scan /\ scan[j].ring = l
  OBVIOUS
<1>4. \A j \in DOMAIN scan : scan[j].ring = l => j \in fired
  OBVIOUS
<1> HIDE DEF fired, l
<1>5. PICK f \in fired : \A j \in fired : f <= j
  BY <1>2, LeastOf
<1>6. f \in 1..k
  BY <1>1, <1>2, <1>3, <1>5
<1>7. \A j \in 1..(f - 1) : scan[j].ring # l
  BY <1>1, <1>3, <1>4, <1>5
<1>8. f \in DOMAIN scan /\ scan[f].ring = l
  BY <1>3
<1>9. \E j \in DOMAIN scan : scan[j].ring = l /\ \A m \in 1..(j - 1) : scan[m].ring # l
  BY <1>7, <1>8
<1>10. PICK g : g = Convert!First(l)
  OBVIOUS
<1>11. g \in DOMAIN scan /\ scan[g].ring = l /\ \A m \in 1..(g - 1) : scan[m].ring # l
  BY <1>9, <1>10 DEF Convert!First
<1>12. g \in 1..k
  <2>1. ~(f < g)
    BY <1>1, <1>6, <1>8, <1>11
  <2>2. QED
    BY <1>1, <1>6, <1>11, <2>1
<1>13. QED
  BY <1>10, <1>11, <1>12 DEF l

\* time_last of a line after point n, from what it was before.
LastTime(l, n, before) ==
  IF scan[n].ring # l THEN before
  ELSE IF Convert!First(l) = n THEN 0 ELSE Convert!Curvature(before, scan[n])

LEMMA CurvatureIsInt ==
  ASSUME Convert!PreprocessConstants, MessageOK(scan), NEW k \in DOMAIN scan, NEW b \in Int
  PROVE  Convert!Curvature(b, scan[k]) \in Int
<1>1. Convert!First(scan[k].ring) \in DOMAIN scan /\ Turn \in Nat \ {0}
  <2>1. Len(scan) \in Nat /\ DOMAIN scan = 1..Len(scan)
    BY DEF MessageOK
  <2>2. QED
    BY <2>1, FirstIsFirst DEF Convert!PreprocessConstants
<1>2. scan[k].at \in Nat /\ scan[Convert!First(scan[k].ring)].at \in Nat
  BY <1>1, PointOK
<1>3. \A n \in Nat : Convert!Yaw(n) \in Int
  BY <1>1 DEF Convert!Yaw
<1>4. QED
  BY <1>1, <1>2, <1>3 DEF Convert!Curvature, Convert!OffsetTime, Convert!SinceFirst

\* The recursion of the model, unfolded.
LEMMA TimeLastUnfolds ==
  ASSUME Convert!PreprocessConstants, MessageOK(scan), NEW time, time = Convert!TimeLast
  PROVE  /\ \A l \in Convert!Lines : time[0][l] = 0
         /\ \A n \in 1..Len(scan), l \in Convert!Lines :
              time[n][l] = LastTime(l, n, time[n - 1][l])
<1> DEFINE len == Len(scan)
           V == [Convert!Lines -> Int]
           Zero == [l \in Convert!Lines |-> 0]
           StepTo(n, v) == [l \in Convert!Lines |->
                              IF scan[n].ring # l THEN v[l]
                              ELSE IF Convert!First(l) = n THEN 0
                                   ELSE Convert!Curvature(v[l], scan[n])]
           Body(g) == [n \in 0..len |-> IF n = 0 THEN Zero ELSE StepTo(n, g[n - 1])]
           last == CHOOSE g : g = Body(g)
           F == [x \in (1..len) \X V |-> StepTo(x[1], x[2])]
<1>1. Convert!TimeLast = last
  BY DEF Convert!TimeLast
<1>2. len \in Nat /\ DOMAIN scan = 1..len
  BY DEF MessageOK
<1>3. Zero \in V
  OBVIOUS
<1>4. \A n, v : \A l \in Convert!Lines : StepTo(n, v)[l] = LastTime(l, n, v[l])
  BY DEF LastTime
<1>5. ASSUME NEW n \in 1..len, NEW v \in V PROVE StepTo(n, v) \in V
  <2>1. ASSUME NEW l \in Convert!Lines PROVE LastTime(l, n, v[l]) \in Int
    <3>1. v[l] \in Int /\ n \in DOMAIN scan
      BY <1>2
    <3>2. Convert!Curvature(v[l], scan[n]) \in Int
      BY <3>1, CurvatureIsInt
    <3>3. QED
      BY <3>1, <3>2 DEF LastTime
  <2>2. StepTo(n, v) = [l \in Convert!Lines |-> StepTo(n, v)[l]]
    OBVIOUS
  <2> HIDE DEF StepTo
  <2>3. QED
    BY <1>4, <2>1, <2>2
<1>6. \A l \in Convert!Lines : Zero[l] = 0
  OBVIOUS
<1> HIDE DEF len, V, Zero, StepTo, last
<1>7. F \in [(1..len) \X V -> V] /\ \A n \in 1..len, v \in V : F[<<n, v>>] = StepTo(n, v)
  BY <1>5
<1> HIDE DEF F
<1>8. PICK g \in [0..len -> V] : Unfolded(g, Zero, F, len)
  BY <1>2, <1>3, <1>7, RecursionExists
<1>9. g = Body(g)
  <2>1. g = [n \in 0..len |-> g[n]]
    BY <1>8
  <2>2. ASSUME NEW n \in 0..len PROVE g[n] = IF n = 0 THEN Zero ELSE StepTo(n, g[n - 1])
    <3>1. CASE n = 0
      BY <1>8, <3>1 DEF Unfolded
    <3>2. CASE n # 0
      <4>1. n \in 1..len /\ n - 1 \in 0..len
        BY <1>2, <3>2
      <4>2. g[n] = F[<<n, g[n - 1]>>] /\ g[n - 1] \in V
        BY <1>8, <4>1 DEF Unfolded
      <4>3. QED
        BY <1>7, <3>2, <4>1, <4>2
    <3>3. QED
      BY <3>1, <3>2
  <2>3. QED
    BY <2>1, <2>2
<1>10. last = Body(last)
  <2> HIDE DEF Body
  <2>1. QED
    BY <1>9 DEF last
<1>11. last[0] = Zero
  BY <1>2, <1>10
<1>12. ASSUME NEW n \in 1..len PROVE last[n] = StepTo(n, last[n - 1])
  BY <1>2, <1>10
<1>13. time = last
  BY <1>1
<1>14. QED
  BY <1>4, <1>6, <1>11, <1>12, <1>13 DEF len

\* From the angle the head has turned since the line's first point, and the time of
\* the line's last one, the time of the point is worked out.
LEMMA OffsetIsSince ==
  ASSUME Turn \in Nat \ {0}, NEW a \in Nat, NEW b \in Nat, NEW c \in Nat,
         a <= b, b <= c, c < 2 * Turn, c - b < Turn, NEW p, p.at = c
  PROVE  Convert!OffsetTime([yaw_fp |-> Convert!Yaw(a), time_last |-> b - a], p) = c - a
<1>1. PICK half : half = Turn \div 2
  OBVIOUS
<1>2. half \in Int
  BY <1>1
<1>3. PICK ra, rc : ra = (a % Turn) /\ rc = (c % Turn)
  OBVIOUS
<1>4. ra = (IF a < Turn THEN a ELSE a - Turn) /\ rc = (IF c < Turn THEN c ELSE c - Turn)
  <2>1. a < 2 * Turn
    OBVIOUS
  <2>2. (a % Turn) = IF a < Turn THEN a ELSE a - Turn
    BY <2>1, WithinTwo
  <2>3. (c % Turn) = IF c < Turn THEN c ELSE c - Turn
    BY WithinTwo
  <2>4. QED
    BY <1>3, <2>2, <2>3
<1>5. Convert!Yaw(a) = half - ra /\ Convert!Yaw(p.at) = half - rc
  BY <1>1, <1>3 DEF Convert!Yaw
<1>6. PICK line : line = [yaw_fp |-> Convert!Yaw(a), time_last |-> b - a]
  OBVIOUS
<1>7. line.yaw_fp = half - ra /\ line.time_last = b - a
  BY <1>5, <1>6
<1>8. PICK since : since = Convert!SinceFirst(line, p)
  OBVIOUS
<1>9. since = IF rc >= ra THEN rc - ra ELSE (rc - ra) + Turn
  BY <1>2, <1>4, <1>5, <1>7, <1>8 DEF Convert!SinceFirst
<1>10. Convert!OffsetTime(line, p) = IF since < b - a THEN since + Turn ELSE since
  BY <1>7, <1>8 DEF Convert!OffsetTime
<1>11. since \in Int
  BY <1>4, <1>9
<1>12. (IF since < b - a THEN since + Turn ELSE since) = c - a
  BY <1>4, <1>9, <1>11
<1>13. QED
  BY <1>6, <1>10, <1>12

\* After n points the time of a line is that of its last point since its first.
TimesAfter(time, n) ==
  \A l \in Convert!Lines :
    /\ (\A k \in 1..n : scan[k].ring # l) => time[n][l] = 0
    /\ \A k \in 1..n :
         scan[k].ring = l /\ (\A j \in (k + 1)..n : scan[j].ring # l)
           => time[n][l] = scan[k].at - scan[Convert!First(l)].at

LEMMA FiredBefore ==
  ASSUME NEW n \in Nat, NEW f \in 1..n
  PROVE  \E k \in f..n : /\ scan[k].ring = scan[f].ring
                         /\ \A j \in (k + 1)..n : scan[j].ring # scan[f].ring
<1> DEFINE l == scan[f].ring
           ages == {a \in 0..(n - f) : scan[n - a].ring = l}
<1>1. n - f \in ages
  <2>1. n - f \in 0..(n - f) /\ n - (n - f) = f
    OBVIOUS
  <2>2. QED
    BY <2>1
<1>2. ages \subseteq Nat /\ \A a \in ages : a \in 0..(n - f) /\ scan[n - a].ring = l
  OBVIOUS
<1>3. \A a \in 0..(n - f) : scan[n - a].ring = l => a \in ages
  OBVIOUS
<1> HIDE DEF ages, l
<1>4. PICK a \in ages : \A b \in ages : a <= b
  BY <1>1, <1>2, LeastOf
<1>5. a \in 0..(n - f) /\ scan[n - a].ring = l
  BY <1>2
<1>6. PICK k \in f..n : k = n - a
  BY <1>5
<1>7. ASSUME NEW j \in (k + 1)..n PROVE scan[j].ring # l
  <2>1. n - j \in 0..(n - f) /\ n - j < a /\ n - (n - j) = j
    BY <1>5, <1>6
  <2>2. n - j \notin ages
    BY <1>2, <1>4, <2>1
  <2>3. QED
    BY <1>3, <2>1, <2>2
<1>8. QED
  BY <1>5, <1>6, <1>7 DEF l

LEMMA TimesAfterNext ==
  ASSUME Convert!PreprocessConstants, MessageOK(scan), NEW time, NEW n \in 0..(Len(scan) - 1),
         \A l \in Convert!Lines : time[n + 1][l] = LastTime(l, n + 1, time[n][l]),
         TimesAfter(time, n)
  PROVE  TimesAfter(time, n + 1)
<1>1. Len(scan) \in Nat /\ DOMAIN scan = 1..Len(scan) /\ Turn \in Nat \ {0}
  BY DEF MessageOK, Convert!PreprocessConstants
<1>2. n \in Nat /\ n + 1 \in DOMAIN scan /\ n + 1 \in 1..(n + 1)
  BY <1>1
<1>3. \A k \in 1..(n + 1) : k \in DOMAIN scan /\ (k = n + 1 \/ k \in 1..n)
  BY <1>1
<1> SUFFICES ASSUME NEW l \in Convert!Lines
             PROVE  /\ (\A k \in 1..(n + 1) : scan[k].ring # l) => time[n + 1][l] = 0
                    /\ \A k \in 1..(n + 1) :
                         scan[k].ring = l /\ (\A j \in (k + 1)..(n + 1) : scan[j].ring # l)
                           => time[n + 1][l] = scan[k].at - scan[Convert!First(l)].at
  BY DEF TimesAfter
<1>4. /\ (\A k \in 1..n : scan[k].ring # l) => time[n][l] = 0
      /\ \A k \in 1..n :
           scan[k].ring = l /\ (\A j \in (k + 1)..n : scan[j].ring # l)
             => time[n][l] = scan[k].at - scan[Convert!First(l)].at
  BY DEF TimesAfter
<1>5. CASE scan[n + 1].ring # l
  <2>1. time[n + 1][l] = time[n][l]
    BY <1>5 DEF LastTime
  <2>2. \A k \in 1..n : k \in 1..(n + 1) /\ \A j \in (k + 1)..n : j \in (k + 1)..(n + 1)
    BY <1>2
  <2>3. QED
    BY <1>3, <1>4, <1>5, <2>1, <2>2
<1>6. CASE scan[n + 1].ring = l
  <2> DEFINE f == Convert!First(l)
  <2>1. f \in 1..(n + 1) /\ scan[f].ring = l /\ \A j \in 1..(f - 1) : scan[j].ring # l
    BY <1>2, <1>6, FirstIsFirst
  <2>2. time[n + 1][l] = IF f = n + 1 THEN 0 ELSE Convert!Curvature(time[n][l], scan[n + 1])
    BY <1>6 DEF LastTime
  <2>3. ASSUME NEW k \in 1..(n + 1), scan[k].ring = l,
               \A j \in (k + 1)..(n + 1) : scan[j].ring # l
        PROVE  k = n + 1
    <3>1. n + 1 \notin (k + 1)..(n + 1)
      BY <1>6, <2>3
    <3>2. QED
      BY <1>2, <3>1
  <2>4. scan[n + 1].at \in Nat /\ scan[f].at \in Nat
    BY <1>2, <1>3, <2>1, PointOK
  <2> HIDE DEF f
  <2>5. time[n + 1][l] = scan[n + 1].at - scan[f].at
    <3>1. CASE f = n + 1
      BY <2>2, <2>4, <3>1
    <3>2. CASE f # n + 1
      <4>1. f \in 1..n /\ n <= Len(scan)
        BY <1>1, <1>2, <2>1, <3>2
      <4>1a. PICK g \in 1..n : g = f /\ scan[g].ring = l
        BY <2>1, <4>1
      <4>2. PICK k \in f..n : scan[k].ring = l /\ \A j \in (k + 1)..n : scan[j].ring # l
        <5>1. n \in Nat /\ g \in 1..n
          BY <1>2
        <5>2. \E k \in g..n : /\ scan[k].ring = scan[g].ring
                              /\ \A j \in (k + 1)..n : scan[j].ring # scan[g].ring
          BY <5>1, FiredBefore
        <5>3. QED
          BY <4>1a, <5>2
      <4>3. k \in 1..n /\ k \in DOMAIN scan /\ f \in DOMAIN scan
        BY <1>1, <1>2, <4>1, <4>2
      <4>4. time[n][l] = scan[k].at - scan[f].at
        BY <1>4, <4>2, <4>3 DEF f
      <4>5. scan[k].at \in Nat
        BY <4>3, PointOK
      <4>6. scan[f].at <= scan[k].at /\ scan[k].at <= scan[n + 1].at
        <5>1. f <= k /\ k <= n + 1
          BY <1>2, <4>1, <4>2
        <5>2. QED
          BY <1>2, <4>3, <5>1 DEF MessageOK
      <4>7. scan[n + 1].at < 2 * Turn
        BY <1>2 DEF MessageOK
      <4>8. scan[n + 1].at - scan[k].at < Turn
        <5>1. k < n + 1 /\ (n + 1) - 1 = n /\ scan[k].ring = scan[n + 1].ring
          BY <1>2, <1>6, <4>2, <4>3
        <5>2. \A m \in (k + 1)..((n + 1) - 1) : scan[m].ring # scan[k].ring
          BY <4>2, <5>1
        <5>3. QED
          BY <1>2, <4>3, <5>1, <5>2 DEF MessageOK
      <4>9. Convert!Curvature(time[n][l], scan[n + 1])
              = Convert!OffsetTime([yaw_fp |-> Convert!Yaw(scan[f].at),
                                    time_last |-> scan[k].at - scan[f].at], scan[n + 1])
        BY <1>6, <4>4 DEF Convert!Curvature, f
      <4>10. PICK a \in Nat, b \in Nat, c \in Nat :
               a = scan[f].at /\ b = scan[k].at /\ c = scan[n + 1].at
        BY <2>4, <4>5
      <4>11. Convert!OffsetTime([yaw_fp |-> Convert!Yaw(a), time_last |-> b - a], scan[n + 1])
               = c - a
        <5>1. a <= b /\ b <= c /\ c < 2 * Turn /\ c - b < Turn
          BY <4>6, <4>7, <4>8, <4>10
        <5>2. PICK p : p = scan[n + 1]
          OBVIOUS
        <5>3. p.at = c
          BY <4>10, <5>2
        <5>4. Convert!OffsetTime([yaw_fp |-> Convert!Yaw(a), time_last |-> b - a], p) = c - a
          <6>1. Turn \in Nat \ {0}
            BY <1>1
          <6>2. a \in Nat /\ b \in Nat /\ c \in Nat
            OBVIOUS
          <6>3. QED
            BY ONLY <5>1, <5>3, <6>1, <6>2, OffsetIsSince
        <5>5. QED
          BY <5>2, <5>4
      <4>12. QED
        BY <2>2, <3>2, <4>9, <4>10, <4>11
    <3>3. QED
      BY <3>1, <3>2
  <2>6. ~(\A k \in 1..(n + 1) : scan[k].ring # l)
    BY <1>2, <1>6
  <2>7. QED
    BY <2>3, <2>5, <2>6 DEF f
<1>7. QED
  BY <1>5, <1>6

\* The time worked out for a point is the time since its line's first point.
LEMMA ReckonedTimes ==
  ASSUME Convert!PreprocessConstants, MessageOK(scan), NEW n \in DOMAIN scan,
         scan[n].ring \in Convert!Lines
  PROVE  Convert!TimeLast[n][scan[n].ring] = scan[n].at - scan[Convert!First(scan[n].ring)].at
<1>1. PICK time : time = Convert!TimeLast
  OBVIOUS
<1>2. PICK len \in Nat : len = Len(scan) /\ DOMAIN scan = 1..len
  BY DEF MessageOK
<1> DEFINE Good == {m \in 0..len : TimesAfter(time, m)}
<1>3. TimesAfter(time, 0)
  <2>1. \A l \in Convert!Lines : time[0][l] = 0
    BY <1>1, TimeLastUnfolds
  <2>2. 1..0 = {}
    OBVIOUS
  <2>3. QED
    BY <2>1, <2>2 DEF TimesAfter
<1>4. 0 \in Good
  BY <1>3
<1>5. ASSUME NEW m \in 0..(len - 1), m \in Good PROVE m + 1 \in Good
  <2>1. m + 1 \in 1..Len(scan) /\ (m + 1) - 1 = m
    BY <1>2
  <2>2. \A l \in Convert!Lines : time[m + 1][l] = LastTime(l, m + 1, time[m][l])
    BY <1>1, <2>1, TimeLastUnfolds
  <2>3. TimesAfter(time, m)
    BY <1>5
  <2>4. m \in 0..(Len(scan) - 1)
    BY <1>2
  <2>5. TimesAfter(time, m + 1)
    BY <2>2, <2>3, <2>4, TimesAfterNext
  <2>6. QED
    BY <1>2, <2>1, <2>5
<1> HIDE DEF Good
<1>6. 0..len \subseteq Good
  BY <1>4, <1>5, InductionUpTo
<1>7. TimesAfter(time, n)
  BY <1>2, <1>6 DEF Good
<1>8. (n + 1)..n = {} /\ n \in 1..n
  BY <1>2
<1>9. QED
  BY <1>1, <1>7, <1>8 DEF TimesAfter

LEMMA MessageGrows ==
  ASSUME NEW s, MessageOK(s), NEW p \in ScanPoints, p.at < 2 * Turn,
         \A k \in DOMAIN s : s[k].at <= p.at,
         \A k \in DOMAIN s :
           s[k].ring = p.ring /\ (\A m \in (k + 1)..Len(s) : s[m].ring # s[k].ring)
             => p.at - s[k].at < Turn
  PROVE  MessageOK(Append(s, p))
<1> DEFINE longer == Append(s, p)
<1>1. s \in Seq(ScanPoints) /\ Len(s) \in Nat /\ DOMAIN s = 1..Len(s)
  BY DEF MessageOK
<1>2. longer \in Seq(ScanPoints) /\ DOMAIN longer = 1..(Len(s) + 1)
      /\ longer[Len(s) + 1] = p /\ \A k \in DOMAIN s : longer[k] = s[k]
  BY <1>1
<1>3. \A k \in DOMAIN longer : k = Len(s) + 1 \/ k \in DOMAIN s
  BY <1>1, <1>2
<1> HIDE DEF longer
<1>4. p.at \in Nat
  BY DEF ScanPoints
<1>5. ASSUME NEW j \in DOMAIN longer, NEW k \in DOMAIN longer, j <= k
      PROVE  longer[j].at <= longer[k].at
  <2>1. CASE k = Len(s) + 1
    BY <1>2, <1>3, <1>4, <2>1
  <2>2. CASE k \in DOMAIN s
    <3>1. j \in DOMAIN s
      BY <1>1, <1>2, <1>5, <2>2
    <3>2. QED
      BY <1>2, <1>5, <2>2, <3>1 DEF MessageOK
  <2>3. QED
    BY <1>3, <2>1, <2>2
<1>6. \A k \in DOMAIN longer : longer[k].at < 2 * Turn
  BY <1>2, <1>3 DEF MessageOK
<1>7. ASSUME NEW j \in DOMAIN longer, NEW k \in DOMAIN longer, j < k,
             longer[j].ring = longer[k].ring,
             \A m \in (j + 1)..(k - 1) : longer[m].ring # longer[j].ring
      PROVE  longer[k].at - longer[j].at < Turn
  <2>1. j \in DOMAIN s /\ longer[j] = s[j]
    BY <1>1, <1>2, <1>7
  <2>2. \A m \in (j + 1)..(k - 1) : m \in DOMAIN s /\ s[m].ring # s[j].ring
    BY <1>1, <1>2, <1>7, <2>1
  <2>3. CASE k = Len(s) + 1
    <3>1. k - 1 = Len(s) /\ longer[k] = p
      BY <1>1, <1>2, <2>3
    <3>2. QED
      BY <1>7, <2>1, <2>2, <3>1
  <2>4. CASE k \in DOMAIN s
    <3>1. longer[k] = s[k]
      BY <1>2, <2>4
    <3>2. QED
      BY <1>7, <2>1, <2>2, <2>4, <3>1 DEF MessageOK
  <2>5. QED
    BY <1>3, <2>3, <2>4
<1>8. QED
  BY <1>2, <1>5, <1>6, <1>7 DEF MessageOK, longer

\* What a handler keeps carries the time at which it was measured.
LEMMA HandlersKeepTime ==
  ASSUME Convert!PreprocessConstants, MessageOK(scan), NEW given,
         lidar_type \in Convert!Handlers \ {"default"}, lidar_type = "MID360" => ~given,
         NEW out,
         out = CASE lidar_type = "AVIA" -> Convert!avia_handler
                 [] lidar_type = "OUST64" -> Convert!oust64_handler
                 [] lidar_type = "VELO16" -> Convert!velodyne_handler(given)
                 [] lidar_type = "MID360" -> Convert!mid360_handler
                 [] OTHER -> Convert!default_handler
  PROVE  \A q \in DOMAIN out :
           out[q] = IF lidar_type \in Convert!AlwaysTimed \/ given THEN scan[q].at
                    ELSE scan[q].at - scan[Convert!First(scan[q].ring)].at
<1>1. ASSUME NEW taken, NEW q \in DOMAIN Convert!Walk(taken)
      PROVE  Convert!Walk(taken)[q] = scan[q].at
  BY DEF Convert!Walk
<1>2. ASSUME NEW taken, taken \subseteq DOMAIN scan, NEW q \in DOMAIN Convert!Reckoned(taken)
      PROVE  Convert!Reckoned(taken)[q] = scan[q].at - scan[Convert!First(scan[q].ring)].at
  <2>1. q \in taken /\ scan[q].ring \in Convert!Lines
        /\ Convert!Reckoned(taken)[q] = Convert!TimeLast[q][scan[q].ring]
    BY DEF Convert!Reckoned
  <2>2. QED
    BY <1>2, <2>1, ReckonedTimes
<1>3. CASE lidar_type = "AVIA"
  <2>1. out = Convert!avia_handler
    BY <1>3
  <2>2. \E taken : out = Convert!Walk(taken)
    BY <2>1 DEF Convert!avia_handler
  <2>3. QED
    BY <1>1, <1>3, <2>2 DEF Convert!AlwaysTimed
<1>4. CASE lidar_type = "OUST64"
  <2>1. out = Convert!oust64_handler
    BY <1>4
  <2>2. \E taken : out = Convert!Walk(taken)
    BY <2>1 DEF Convert!oust64_handler
  <2>3. QED
    BY <1>1, <1>4, <2>2 DEF Convert!AlwaysTimed
<1>5. CASE lidar_type = "VELO16"
  <2>1. out = Convert!velodyne_handler(given)
    BY <1>5
  <2>2. \E taken \in SUBSET DOMAIN scan :
          out = IF given THEN Convert!Walk(taken) ELSE Convert!Reckoned(taken)
    BY <2>1 DEF Convert!velodyne_handler
  <2>3. PICK taken \in SUBSET DOMAIN scan :
          out = IF given THEN Convert!Walk(taken) ELSE Convert!Reckoned(taken)
    BY <2>2
  <2>4. lidar_type \notin Convert!AlwaysTimed
    BY <1>5 DEF Convert!AlwaysTimed
  <2>5. CASE given
    BY <1>1, <2>3, <2>5
  <2>6. CASE ~given
    BY <1>2, <2>3, <2>4, <2>6
  <2>7. QED
    BY <2>5, <2>6
<1>6. CASE lidar_type = "MID360"
  <2>1. out = Convert!mid360_handler
    BY <1>6
  <2>2. \E taken \in SUBSET DOMAIN scan : out = Convert!Reckoned(taken)
    BY <2>1 DEF Convert!mid360_handler
  <2>3. lidar_type \notin Convert!AlwaysTimed /\ ~given
    BY <1>6 DEF Convert!AlwaysTimed
  <2>4. QED
    BY <1>2, <2>2, <2>3
<1>7. QED
  BY <1>3, <1>4, <1>5, <1>6 DEF Convert!Handlers

ConvertInv ==
  /\ MessageOK(scan)
  /\ lidar_type \in Convert!Handlers
  /\ lidar_type = "MID360" => ~given_offset_time
  /\ ~handled => pl_surf = <<>> /\ pl_buff = <<>>
  /\ Convert!ScanTimes

LEMMA NothingKept ==
  ASSUME pl_surf = <<>>, pl_buff = <<>>
  PROVE  Convert!ScanTimes
<1>1. DOMAIN pl_surf = {} /\ DOMAIN pl_buff = {}
  OBVIOUS
<1>2. QED
  BY <1>1 DEF Convert!ScanTimes

LEMMA EmptyMessage == MessageOK(<<>>)
<1>1. <<>> \in Seq(ScanPoints) /\ DOMAIN <<>> = {}
  OBVIOUS
<1>2. QED
  BY <1>1 DEF MessageOK

LEMMA ConvertInvInit == ASSUME Convert!ScanInit PROVE ConvertInv
<1>1. Convert!ScanTimes
  BY NothingKept DEF Convert!ScanInit
<1>2. QED
  BY <1>1, EmptyMessage DEF Convert!ScanInit, ConvertInv

LEMMA NextPointInv ==
  ASSUME Convert!PreprocessConstants, ConvertInv, Convert!NextPoint
  PROVE  ConvertInv'
<1>1. /\ UNCHANGED <<lidar_type, feature_enabled, timed, given_offset_time, pl_surf, pl_buff,
                     handled>>
      /\ ~handled
  BY DEF Convert!NextPoint
<1>2. Turn \in Nat \ {0} /\ Strides \subseteq Nat
      /\ Kinds \subseteq [ring : Nat, far : BOOLEAN, clean : BOOLEAN, again : BOOLEAN]
  BY DEF Convert!PreprocessConstants
<1>3. MessageOK(scan) /\ Len(scan) \in Nat /\ DOMAIN scan = 1..Len(scan) /\ scan \in Seq(ScanPoints)
  BY DEF ConvertInv, MessageOK
<1>4. PICK kind \in Kinds, stride \in Strides : \E at :
        /\ at = IF scan = <<>> THEN 0 ELSE Convert!Last(scan).at + stride
        /\ at < 2 * Turn
        /\ \A k \in DOMAIN scan :
              scan[k].ring = kind.ring /\ Convert!FiredLast(k) => at - scan[k].at < Turn
        /\ scan' = Append(scan, [ring |-> kind.ring, at |-> at, far |-> kind.far,
                                 clean |-> kind.clean, again |-> kind.again])
  BY DEF Convert!NextPoint
<1>4a. PICK at :
        /\ at = IF scan = <<>> THEN 0 ELSE Convert!Last(scan).at + stride
        /\ at < 2 * Turn
        /\ \A k \in DOMAIN scan :
              scan[k].ring = kind.ring /\ Convert!FiredLast(k) => at - scan[k].at < Turn
        /\ scan' = Append(scan, [ring |-> kind.ring, at |-> at, far |-> kind.far,
                                 clean |-> kind.clean, again |-> kind.again])
  BY <1>4
<1>5. at \in Nat /\ \A k \in DOMAIN scan : scan[k].at <= at
  <2>1. CASE scan = <<>>
    BY <1>4a, <2>1
  <2>2. CASE scan # <<>>
    <3>1. Len(scan) \in DOMAIN scan /\ \A k \in DOMAIN scan : k <= Len(scan)
      BY <1>3, <2>2
    <3>2. at = scan[Len(scan)].at + stride /\ stride \in Nat
      BY <1>2, <1>4a, <2>2 DEF Convert!Last
    <3>3. \A k \in DOMAIN scan : scan[k].at \in Nat
      BY <1>3, PointOK
    <3>4. \A k \in DOMAIN scan : scan[k].at <= scan[Len(scan)].at
      BY <1>3, <3>1 DEF MessageOK
    <3>5. QED
      BY <3>1, <3>2, <3>3, <3>4
  <2>3. QED
    BY <2>1, <2>2
<1>6. PICK p : p = [ring |-> kind.ring, at |-> at, far |-> kind.far,
                    clean |-> kind.clean, again |-> kind.again]
  OBVIOUS
<1>7. kind \in [ring : Nat, far : BOOLEAN, clean : BOOLEAN, again : BOOLEAN]
  BY <1>2
<1>8. p \in ScanPoints /\ p.at = at /\ p.ring = kind.ring
  BY <1>5, <1>6, <1>7 DEF ScanPoints
<1>9. \A k \in DOMAIN scan :
        scan[k].ring = p.ring /\ (\A m \in (k + 1)..Len(scan) : scan[m].ring # scan[k].ring)
          => p.at - scan[k].at < Turn
  BY <1>4a, <1>8 DEF Convert!FiredLast
<1>10. MessageOK(Append(scan, p))
  <2>1. p.at < 2 * Turn /\ \A k \in DOMAIN scan : scan[k].at <= p.at
    BY <1>4a, <1>5, <1>8
  <2>2. QED
    BY <1>3, <1>8, <1>9, <2>1, MessageGrows
<1>11. MessageOK(scan')
  BY <1>4a, <1>6, <1>10
<1>12. MessageOK(scan)' /\ pl_surf' = <<>> /\ pl_buff' = <<>>
  BY <1>1, <1>11 DEF ConvertInv, MessageOK
<1>13. (DOMAIN pl_surf)' = {} /\ (DOMAIN pl_buff)' = {}
  BY <1>12
<1>14. (Convert!ScanTimes)'
  BY <1>13 DEF Convert!ScanTimes
<1>15. QED
  BY <1>1, <1>12, <1>14 DEF ConvertInv

LEMMA ProcessInv ==
  ASSUME Convert!PreprocessConstants, ConvertInv, Convert!process
  PROVE  ConvertInv'
<1>1. UNCHANGED <<lidar_type, feature_enabled, timed, scan>> /\ handled' = TRUE
  BY DEF Convert!process
<1>2. MessageOK(scan) /\ lidar_type \in Convert!Handlers
  BY DEF ConvertInv
<1>3. lidar_type = "MID360" => ~given_offset_time'
  BY DEF Convert!process, ConvertInv
<1>4. PICK out :
        /\ out = CASE lidar_type = "AVIA" -> Convert!avia_handler
                   [] lidar_type = "OUST64" -> Convert!oust64_handler
                   [] lidar_type = "VELO16" -> Convert!velodyne_handler(given_offset_time')
                   [] lidar_type = "MID360" -> Convert!mid360_handler
                   [] OTHER -> Convert!default_handler
        /\ \/ /\ pl_surf' = <<>>
              /\ pl_buff' = [l \in {k \in Convert!Lines : Convert!Sought(out, k)} |->
                               Convert!OfLine(out, l)]
           \/ pl_surf' = out /\ pl_buff' = <<>>
  BY DEF Convert!process
<1>5. ASSUME lidar_type # "default", NEW q \in DOMAIN out
      PROVE  out[q] = IF lidar_type \in Convert!AlwaysTimed \/ given_offset_time' THEN scan[q].at
                      ELSE scan[q].at - scan[Convert!First(scan[q].ring)].at
  BY <1>2, <1>3, <1>4, <1>5, HandlersKeepTime
<1>6. \A q : (Convert!MeasuredAt(q))'
               = IF lidar_type \in Convert!AlwaysTimed \/ given_offset_time' THEN scan[q].at
                 ELSE scan[q].at - scan[Convert!First(scan[q].ring)].at
  BY <1>1 DEF Convert!MeasuredAt, Convert!AlwaysTimed, Convert!First
<1>7. ASSUME lidar_type # "default"
      PROVE  /\ \A q \in DOMAIN pl_surf' : pl_surf'[q] = (Convert!MeasuredAt(q))'
             /\ \A l \in DOMAIN pl_buff' : \A q \in DOMAIN pl_buff'[l] :
                  pl_buff'[l][q] = (Convert!MeasuredAt(q))'
  <2>1. CASE pl_surf' = out /\ pl_buff' = <<>>
    <3>1. DOMAIN pl_buff' = {}
      BY <2>1
    <3>2. QED
      BY <1>5, <1>6, <1>7, <2>1, <3>1
  <2>2. CASE /\ pl_surf' = <<>>
             /\ pl_buff' = [l \in {k \in Convert!Lines : Convert!Sought(out, k)} |->
                              Convert!OfLine(out, l)]
    <3>1. DOMAIN pl_surf' = {}
      BY <2>2
    <3>2. ASSUME NEW l \in DOMAIN pl_buff', NEW q \in DOMAIN pl_buff'[l]
          PROVE  pl_buff'[l][q] = (Convert!MeasuredAt(q))'
      <4>1. pl_buff'[l] = Convert!OfLine(out, l)
        BY <2>2
      <4>2. q \in DOMAIN out /\ Convert!OfLine(out, l)[q] = out[q]
        BY <4>1 DEF Convert!OfLine
      <4>3. QED
        BY <1>5, <1>6, <1>7, <4>1, <4>2
    <3>3. QED
      BY <3>1, <3>2
  <2>3. QED
    BY <1>4, <2>1, <2>2
<1>8. (Convert!ScanTimes)'
  BY <1>1, <1>7 DEF Convert!ScanTimes
<1>9. MessageOK(scan)'
  BY <1>1, <1>2 DEF MessageOK
<1>10. QED
  BY <1>1, <1>2, <1>3, <1>8, <1>9 DEF ConvertInv

LEMMA ConvertInvStep ==
  ASSUME Convert!PreprocessConstants, ConvertInv, [Convert!ScanNext]_(Convert!scanVars)
  PROVE  ConvertInv'
<1>1. CASE Convert!NextScan
  <2>1. /\ lidar_type' = lidar_type /\ given_offset_time' = given_offset_time
        /\ scan' = <<>> /\ pl_surf' = <<>> /\ pl_buff' = <<>>
    BY <1>1 DEF Convert!NextScan
  <2>2. (DOMAIN pl_surf)' = {} /\ (DOMAIN pl_buff)' = {}
    BY <2>1
  <2>3. (Convert!ScanTimes)'
    BY <2>2 DEF Convert!ScanTimes
  <2>4. MessageOK(scan)'
    BY <2>1, EmptyMessage DEF MessageOK
  <2>5. QED
    BY <2>1, <2>3, <2>4 DEF ConvertInv
<1>2. CASE UNCHANGED Convert!scanVars
  <2>1. UNCHANGED <<lidar_type, scan, given_offset_time, pl_surf, pl_buff, handled>>
    BY <1>2 DEF Convert!scanVars
  <2>2. (Convert!ScanTimes)' = Convert!ScanTimes
    BY <2>1 DEF Convert!ScanTimes, Convert!MeasuredAt, Convert!First
  <2>3. QED
    BY <2>1, <2>2 DEF ConvertInv, MessageOK
<1>3. QED
  BY <1>1, <1>2, NextPointInv, ProcessInv DEF Convert!ScanNext

\* A scan is converted, and a line of it searched, without a point losing its time and
\* with the plane points of the line divided among those kept: for any LiDAR, message,
\* line and parameters.
THEOREM ScansStayFaithful == Convert!ScanSpec /\ Line!FeatureSpec => []ScansAreFaithful
<1>1. Convert!PreprocessConstants /\ Line!FeatureConstants
  BY OdometryAssumption
<1>2. ConvertInv /\ PlaneInv => ScansAreFaithful
  BY <1>1, PlaneInvKept DEF ConvertInv, ScansAreFaithful
<1>3. Convert!ScanInit /\ Line!FeatureInit => ConvertInv /\ PlaneInv
  BY ConvertInvInit, PlaneInvInit
<1>4. ConvertInv /\ [Convert!ScanNext]_(Convert!scanVars) => ConvertInv'
  BY <1>1, ConvertInvStep
<1>5. PlaneInv /\ [Line!FeatureNext]_(Line!featureVars) => PlaneInv'
  BY <1>1, PlaneInvStep
<1>6. QED
  BY <1>2, <1>3, <1>4, <1>5, PTL DEF Convert!ScanSpec, Line!FeatureSpec

-----------------------------------------------------------------------------
(* LidarSimulation *)

\* A pattern has a sample at every tick, but for at most one.
TicksOK(s) ==
  /\ s \in Seq(Nat)
  /\ \A j, k \in DOMAIN s : j < k => s[k] - s[j] \in {k - j, k - j + 1}

LEMMA Ticks ==
  ASSUME TicksOK(aviaInfos), NEW n \in Nat, n = Len(aviaInfos)
  PROVE  /\ DOMAIN aviaInfos = 1..n
         /\ \A k \in 1..n : aviaInfos[k] \in Nat
         /\ \A j, k \in 1..n : j < k => aviaInfos[k] - aviaInfos[j] \in {k - j, k - j + 1}
         /\ \A j, k \in 1..n : j < k => aviaInfos[j] < aviaInfos[k]
<1>1. aviaInfos \in Seq(Nat)
  BY DEF TicksOK
<1>2. DOMAIN aviaInfos = 1..n /\ \A k \in 1..n : aviaInfos[k] \in Nat
  BY <1>1
<1>3. \A j, k \in 1..n : j < k => aviaInfos[k] - aviaInfos[j] \in {k - j, k - j + 1}
  BY <1>2 DEF TicksOK
<1>4. ASSUME NEW j \in 1..n, NEW k \in 1..n, j < k PROVE aviaInfos[j] < aviaInfos[k]
  <2>1. aviaInfos[k] - aviaInfos[j] \in {k - j, k - j + 1}
    BY <1>3, <1>4
  <2>2. aviaInfos[j] \in Nat /\ aviaInfos[k] \in Nat
    BY <1>2
  <2>3. QED
    BY <1>4, <2>1, <2>2
<1>5. QED
  BY <1>2, <1>3, <1>4

LEMMA PatternPeriod ==
  ASSUME TicksOK(aviaInfos), NEW n \in Nat \ {0}, n = Len(aviaInfos)
  PROVE  /\ aviaInfos[1] \in Nat /\ aviaInfos[n] \in Nat
         /\ Simulated!scanPatternPeriodTicks = aviaInfos[n] - aviaInfos[1] + 1
         /\ aviaInfos[n] - aviaInfos[1] \in {n - 1, n}
         /\ \A j, k \in 1..n : j < k =>
              aviaInfos[k] - aviaInfos[j] <= aviaInfos[n] - aviaInfos[1]
<1> DEFINE S == Simulated!ToSet(aviaInfos)
<1>1. /\ DOMAIN aviaInfos = 1..n
      /\ \A k \in 1..n : aviaInfos[k] \in Nat
      /\ \A j, k \in 1..n : j < k => aviaInfos[k] - aviaInfos[j] \in {k - j, k - j + 1}
  BY Ticks
<1>2. /\ \A x \in S : \E k \in 1..n : x = aviaInfos[k]
      /\ \A k \in 1..n : aviaInfos[k] \in S
  BY <1>1 DEF Simulated!ToSet
<1>3. \A k \in 1..n : aviaInfos[1] <= aviaInfos[k] /\ aviaInfos[k] <= aviaInfos[n]
  <2> SUFFICES ASSUME NEW k \in 1..n
               PROVE  aviaInfos[1] <= aviaInfos[k] /\ aviaInfos[k] <= aviaInfos[n]
    OBVIOUS
  <2>1. 1 \in 1..n /\ n \in 1..n
    OBVIOUS
  <2>2. k = 1 \/ aviaInfos[k] - aviaInfos[1] \in {k - 1, k - 1 + 1}
    BY <1>1, <2>1
  <2>3. k = n \/ aviaInfos[n] - aviaInfos[k] \in {n - k, n - k + 1}
    BY <1>1, <2>1
  <2>4. aviaInfos[1] \in Nat /\ aviaInfos[k] \in Nat /\ aviaInfos[n] \in Nat
    BY <1>1, <2>1
  <2>5. aviaInfos[1] <= aviaInfos[k]
    BY <2>2, <2>4
  <2>6. aviaInfos[k] <= aviaInfos[n]
    BY <2>3, <2>4
  <2>7. QED
    BY <2>5, <2>6
<1> HIDE DEF S
<1>4. 1 \in 1..n /\ n \in 1..n
  OBVIOUS
<1>5. PICK low, high : low = aviaInfos[1] /\ high = aviaInfos[n]
  OBVIOUS
<1>6. low \in Nat /\ high \in Nat /\ low \in S /\ high \in S
      /\ \A x \in S : x \in Nat /\ low <= x /\ x <= high
  BY <1>1, <1>2, <1>3, <1>4, <1>5
<1>7. Simulated!Max(S) = high
  <2>1. Simulated!Max(S) = CHOOSE x \in S : \A y \in S : x >= y
    BY DEF Simulated!Max
  <2>2. \E x \in S : \A y \in S : x >= y
    BY <1>6
  <2>3. Simulated!Max(S) \in S /\ \A y \in S : Simulated!Max(S) >= y
    BY <2>1, <2>2
  <2>4. PICK x \in S : x = Simulated!Max(S)
    BY <2>3
  <2>5. x >= high /\ x <= high /\ x \in Nat
    BY <1>6, <2>3, <2>4
  <2>6. QED
    BY <1>6, <2>4, <2>5
<1>8. Simulated!Min(S) = low
  <2>1. Simulated!Min(S) = CHOOSE x \in S : \A y \in S : x <= y
    BY DEF Simulated!Min
  <2>2. \E x \in S : \A y \in S : x <= y
    BY <1>6
  <2>3. Simulated!Min(S) \in S /\ \A y \in S : Simulated!Min(S) <= y
    BY <2>1, <2>2
  <2>4. PICK x \in S : x = Simulated!Min(S)
    BY <2>3
  <2>5. x >= low /\ x <= low /\ x \in Nat
    BY <1>6, <2>3, <2>4
  <2>6. QED
    BY <1>6, <2>4, <2>5
<1>9. Simulated!scanPatternPeriodTicks = high - low + 1
  BY <1>7, <1>8 DEF Simulated!scanPatternPeriodTicks, S
<1>10. high - low \in {n - 1, n}
  <2>1. n = 1 \/ aviaInfos[n] - aviaInfos[1] \in {n - 1, n - 1 + 1}
    BY <1>1, <1>4
  <2>2. n = 1 => high - low = 0
    BY <1>5, <1>6
  <2>3. QED
    BY <1>5, <2>1, <2>2
<1>11. ASSUME NEW j \in 1..n, NEW k \in 1..n, j < k
       PROVE  aviaInfos[k] - aviaInfos[j] <= high - low
  <2>1. PICK x \in Nat, y \in Nat : x = aviaInfos[j] /\ y = aviaInfos[k]
    BY <1>1
  <2>2. low <= x /\ y <= high
    BY <1>3, <1>5, <2>1
  <2>3. QED
    BY <1>6, <2>1, <2>2
<1>12. QED
  BY <1>5, <1>6, <1>9, <1>10, <1>11

LEMMA WindowBounds ==
  ASSUME NEW period \in Nat \ {0}, NEW n \in Nat \ {0},
         NEW window, window = Simulated!PacketPatternSamples(period, n)
  PROVE  window \in 1..n /\ window <= period
<1>1. Simulated!Max({1, period}) = period
  <2> DEFINE S == {1, period}
  <2>1. Simulated!Max(S) = CHOOSE x \in S : \A y \in S : x >= y
    BY DEF Simulated!Max
  <2>2. \A y \in S : period >= y
    OBVIOUS
  <2>3. Simulated!Max(S) \in S /\ \A y \in S : Simulated!Max(S) >= y
    BY <2>1, <2>2
  <2>4. QED
    BY <2>3
<1>2. Simulated!Min({n, period}) \in {n, period}
      /\ Simulated!Min({n, period}) <= n /\ Simulated!Min({n, period}) <= period
  <2> DEFINE S == {n, period}
  <2>1. Simulated!Min(S) = CHOOSE x \in S : \A y \in S : x <= y
    BY DEF Simulated!Min
  <2>2. \E x \in S : \A y \in S : x <= y
    OBVIOUS
  <2>3. Simulated!Min(S) \in S /\ \A y \in S : Simulated!Min(S) <= y
    BY <2>1, <2>2
  <2>4. QED
    BY <2>3
<1>3. window = Simulated!Min({n, period})
  BY <1>1 DEF Simulated!PacketPatternSamples
<1>4. QED
  BY <1>2, <1>3

\* The rays share the window out: each has a later sample of it than the ones before.
LEMMA RaysShare ==
  ASSUME NEW window \in Nat \ {0}, NEW count \in 1..window,
         NEW share, \A r \in 1..count : share[r] = ((r - 1) * window) \div count
  PROVE  /\ share[1] = 0
         /\ \A r \in 1..count : share[r] \in 0..(window - 1)
         /\ \A q, r \in 1..count : q < r => share[q] < share[r]
<1>1. \A x, y \in Int : x < y => window * x + window <= window * y
  OBVIOUS
<1>2. \A x, y \in Int : x < y => count * x + count <= count * y
  OBVIOUS
<1>3. count \in Nat \ {0}
  OBVIOUS
<1>4. \A m \in Int : m \div count \in Int /\ count * (m \div count) <= m
                     /\ m < count * (m \div count) + count
  BY <1>3
<1>5. ASSUME NEW r \in 1..count
      PROVE  \E m \in Int, d \in Int :
               /\ share[r] = d /\ m = window * (r - 1)
               /\ count * d <= m /\ m < count * d + count
  <2>1. (r - 1) * window \in Int /\ (r - 1) * window = window * (r - 1)
    OBVIOUS
  <2>2. PICK m \in Int : m = (r - 1) * window
    BY <2>1
  <2>3. share[r] = m \div count
    BY <2>2
  <2>4. QED
    BY <1>4, <2>1, <2>2, <2>3
<1>6. ASSUME NEW q \in 1..count, NEW r \in 1..count, q < r
      PROVE  share[q] < share[r]
  <2>1. PICK m \in Int, d \in Int : /\ share[q] = d /\ m = window * (q - 1)
                                    /\ count * d <= m /\ m < count * d + count
    BY <1>5
  <2>2. PICK l \in Int, e \in Int : /\ share[r] = e /\ l = window * (r - 1)
                                    /\ count * e <= l /\ l < count * e + count
    BY <1>5
  <2>3. m + window <= l
    BY <1>1, <1>6, <2>1, <2>2
  <2>4. count * d \in Int /\ count * e \in Int
    OBVIOUS
  <2>5. ~(e < d)
    BY <1>2, <2>1, <2>2, <2>3, <2>4
  <2>6. e # d
    BY <2>1, <2>2, <2>3, <2>4
  <2>7. QED
    BY <2>1, <2>2, <2>5, <2>6
<1>7. share[1] = 0
  <2>1. 1 \in 1..count /\ window * (1 - 1) = 0
    OBVIOUS
  <2>2. PICK d \in Int : share[1] = d /\ count * d <= 0 /\ 0 < count * d + count
    BY <1>5, <2>1
  <2>3. count * 0 = 0 /\ count * d \in Int
    OBVIOUS
  <2>4. ~(d < 0) /\ ~(0 < d)
    BY <1>2, <2>2, <2>3
  <2>5. QED
    BY <2>2, <2>4
<1>8. ASSUME NEW r \in 1..count PROVE share[r] \in 0..(window - 1)
  <2>1. PICK m \in Int, d \in Int : /\ share[r] = d /\ m = window * (r - 1)
                                    /\ count * d <= m /\ m < count * d + count
    BY <1>5
  <2>2. m + window <= window * count
    BY <1>1, <2>1
  <2>3. window * count = count * window /\ count * window \in Int /\ count * d \in Int
    OBVIOUS
  <2>4. d < window
    <3>1. ~(window < d) /\ window # d
      BY <1>2, <2>1, <2>2, <2>3
    <3>2. QED
      BY <3>1
  <2>5. d >= 0
    <3>1. 0 <= m
      <4>1. r - 1 = 0 \/ 0 < r - 1
        OBVIOUS
      <4>2. window * 0 = 0
        OBVIOUS
      <4>3. QED
        BY <1>1, <2>1, <4>1, <4>2
    <3>2. count * d + count <= count * 0 \/ d >= 0
      BY <1>2
    <3>3. QED
      BY <2>1, <2>3, <3>1, <3>2
  <2>6. QED
    BY <2>1, <2>4, <2>5
<1>9. QED
  BY <1>6, <1>7, <1>8

\* The ticks from the sample a packet starts at to the one d samples on, across the
\* end of the pattern when it lies there.
Elapsed(n, start, d) ==
  IF start + d < n THEN aviaInfos[start + d + 1] - aviaInfos[start + 1]
  ELSE Simulated!scanPatternPeriodTicks
         - (aviaInfos[start + 1] - aviaInfos[start + d - n + 1])

LEMMA OverTheEnd ==
  ASSUME NEW n \in Nat, NEW d \in Nat, NEW period \in Int, NEW back \in Int,
         period = n + 1, back = n - d \/ back = n - d + 1
  PROVE  period - back \in {d, d + 1}
<1>1. CASE back = n - d
  BY <1>1
<1>2. CASE back = n - d + 1
  BY <1>2
<1>3. QED
  BY <1>1, <1>2

LEMMA ElapsedBounds ==
  ASSUME TicksOK(aviaInfos), NEW n \in Nat \ {0}, n = Len(aviaInfos),
         NEW start \in 0..(n - 1), NEW d \in 0..(n - 1)
  PROVE  Elapsed(n, start, d) \in {d, d + 1}
<1>1. PICK low \in Nat, high \in Nat, period \in Nat :
        /\ low = aviaInfos[1] /\ high = aviaInfos[n]
        /\ period = Simulated!scanPatternPeriodTicks
        /\ period = high - low + 1 /\ high - low \in {n - 1, n}
  <2>1. /\ aviaInfos[1] \in Nat /\ aviaInfos[n] \in Nat
        /\ Simulated!scanPatternPeriodTicks = aviaInfos[n] - aviaInfos[1] + 1
        /\ aviaInfos[n] - aviaInfos[1] \in {n - 1, n}
    BY PatternPeriod
  <2>2. PICK low \in Nat, high \in Nat : low = aviaInfos[1] /\ high = aviaInfos[n]
    BY <2>1
  <2>3. high - low + 1 \in Nat
    BY <2>1, <2>2
  <2>4. QED
    BY <2>1, <2>2, <2>3
<1>2. \A k \in 1..n : aviaInfos[k] \in Nat
  BY Ticks
<1>3. \A j, k \in 1..n : j < k => aviaInfos[k] - aviaInfos[j] \in {k - j, k - j + 1}
  BY Ticks
<1>4. \A j, k \in 1..n : j < k => aviaInfos[k] - aviaInfos[j] <= high - low
  <2>1. \A j, k \in 1..n : j < k => aviaInfos[k] - aviaInfos[j] <= aviaInfos[n] - aviaInfos[1]
    BY PatternPeriod
  <2>2. QED
    BY <1>1, <2>1
<1>5. CASE start + d < n
  <2>1. start + 1 \in 1..n /\ start + d + 1 \in 1..n
    BY <1>5
  <2>2. PICK x \in Nat, y \in Nat : x = aviaInfos[start + 1] /\ y = aviaInfos[start + d + 1]
    BY <1>2, <2>1
  <2>3. Elapsed(n, start, d) = y - x
    BY <1>5, <2>2 DEF Elapsed
  <2>4. CASE d = 0
    BY <2>2, <2>3, <2>4
  <2>5. CASE d # 0
    <3>1. start + 1 < start + d + 1 /\ (start + d + 1) - (start + 1) = d
      BY <2>5
    <3>2. y - x \in {d, d + 1}
      BY <1>3, <2>1, <2>2, <3>1
    <3>3. QED
      BY <2>3, <3>2
  <2>6. QED
    BY <2>4, <2>5
<1>6. CASE start + d >= n
  <2>1. start + 1 \in 1..n /\ start + d - n + 1 \in 1..n /\ start + d - n + 1 < start + 1
        /\ (start + 1) - (start + d - n + 1) = n - d
    BY <1>6
  <2>2. PICK x \in Nat, y \in Nat :
          x = aviaInfos[start + 1] /\ y = aviaInfos[start + d - n + 1]
    BY <1>2, <2>1
  <2>3. Elapsed(n, start, d) = period - (x - y)
    BY <1>1, <1>6, <2>2 DEF Elapsed
  <2>4. x - y \in {n - d, n - d + 1}
    BY <1>3, <2>1, <2>2
  <2>5. x - y <= high - low
    BY <1>4, <2>1, <2>2
  <2>6. CASE d = 0
    BY <1>6, <2>6
  <2>7. CASE high - low = n
    <3>1. PICK back \in Int : back = x - y
      BY <2>2
    <3>2. period = n + 1
      BY <1>1, <2>7
    <3>3. back = n - d \/ back = n - d + 1
      BY <2>4, <3>1
    <3>4. d \in Nat /\ period \in Int /\ Elapsed(n, start, d) = period - back
      BY <1>1, <2>3, <3>1
    <3>5. QED
      BY <3>2, <3>3, <3>4, OverTheEnd
  <2>8. CASE high - low = n - 1 /\ d # 0
    <3>1. PICK h : h = aviaInfos[n]
      OBVIOUS
    <3>2. x - y = n - d
      <4>1. ASSUME x - y = n - d + 1 PROVE FALSE
        <5>1. x - low \in {start, start + 1}
          <6>1. start + 1 = 1 \/ aviaInfos[start + 1] - aviaInfos[1] \in {start, start + 1}
            <7>1. 1 \in 1..n /\ (start + 1) - 1 = start
              OBVIOUS
            <7>2. QED
              BY <1>3, <2>1, <7>1
          <6>2. start # 0
            BY <1>6
          <6>3. QED
            BY <1>1, <2>2, <6>1, <6>2
        <5>2. high - x \in {n - start - 1, n - start}
          <6>1. start + 1 = n \/ aviaInfos[n] - aviaInfos[start + 1] \in {n - start - 1, n - start}
            <7>1. n \in 1..n /\ n - (start + 1) = n - start - 1 /\ n - (start + 1) + 1 = n - start
              OBVIOUS
            <7>2. QED
              BY <1>3, <2>1, <7>1
          <6>2. QED
            BY <1>1, <2>2, <6>1
        <5>3. y >= low + (start + d - n)
          <6>1. PICK p \in 1..n : p = start + d - n + 1
            BY <2>1
          <6>2. p = 1 \/ aviaInfos[p] - aviaInfos[1] \in {p - 1, p - 1 + 1}
            BY <1>3
          <6>3. aviaInfos[p] = y /\ aviaInfos[1] = low
            BY <1>1, <2>2, <6>1
          <6>4. p = 1 => y = low
            BY <6>3
          <6>5. y - low >= p - 1
            BY <6>2, <6>3, <6>4
          <6>6. QED
            BY <6>1, <6>5
        <5>4. QED
          BY <2>8, <4>1, <5>1, <5>2, <5>3
      <4>2. QED
        BY <2>4, <4>1
    <3>3. QED
      BY <1>1, <2>2, <2>3, <2>8, <3>2
  <2>9. QED
    BY <1>1, <2>6, <2>7, <2>8
<1>7. QED
  BY <1>5, <1>6

\* Later samples of a packet are later.
LEMMA ElapsedGrows ==
  ASSUME TicksOK(aviaInfos), NEW n \in Nat \ {0}, n = Len(aviaInfos),
         NEW start \in 0..(n - 1), NEW d \in 0..(n - 1), NEW e \in 0..(n - 1), d < e
  PROVE  Elapsed(n, start, d) < Elapsed(n, start, e)
<1>1. \A k \in 1..n : aviaInfos[k] \in Nat
  BY Ticks
<1>2. \A j, k \in 1..n : j < k => aviaInfos[j] < aviaInfos[k]
  BY Ticks
<1>3. /\ Simulated!scanPatternPeriodTicks = aviaInfos[n] - aviaInfos[1] + 1
      /\ aviaInfos[1] \in Nat /\ aviaInfos[n] \in Nat
  BY PatternPeriod
<1>4. PICK x \in Nat : x = aviaInfos[start + 1]
  BY <1>1
<1>5. CASE start + e < n
  <2>1. start + d + 1 \in 1..n /\ start + e + 1 \in 1..n /\ start + d < n
    BY <1>5
  <2>2. PICK y \in Nat, z \in Nat : y = aviaInfos[start + d + 1] /\ z = aviaInfos[start + e + 1]
    BY <1>1, <2>1
  <2>3. y < z
    BY <1>2, <2>1, <2>2
  <2>4. Elapsed(n, start, d) = y - x /\ Elapsed(n, start, e) = z - x
    BY <1>4, <1>5, <2>1, <2>2 DEF Elapsed
  <2>5. QED
    BY <2>3, <2>4
<1>6. CASE start + d < n /\ start + e >= n
  <2>1. start + d + 1 \in 1..n /\ start + e - n + 1 \in 1..n /\ ~(start + e < n)
        /\ 1 \in 1..n /\ n \in 1..n
    BY <1>6
  <2>2. PICK y \in Nat, z \in Nat, low \in Nat, high \in Nat :
          /\ y = aviaInfos[start + d + 1] /\ z = aviaInfos[start + e - n + 1]
          /\ low = aviaInfos[1] /\ high = aviaInfos[n]
    BY <1>1, <2>1
  <2>3. low <= z /\ y <= high
    <3>1. PICK j \in 1..n, k \in 1..n : j = start + e - n + 1 /\ k = start + d + 1
      BY <2>1
    <3>2. aviaInfos[1] <= aviaInfos[j] /\ aviaInfos[k] <= aviaInfos[n]
      <4>1. \A m \in 1..n : (1 = m \/ 1 < m) /\ (m = n \/ m < n)
        OBVIOUS
      <4>2. ASSUME NEW l \in 1..n, NEW m \in 1..n, l = m \/ l < m
            PROVE  aviaInfos[l] <= aviaInfos[m]
        <5>1. l = m => aviaInfos[l] <= aviaInfos[m]
          <6>1. \A v \in Nat : v <= v
            OBVIOUS
          <6>2. QED
            BY <1>1, <6>1
        <5>2. l < m => aviaInfos[l] < aviaInfos[m]
          BY <1>2
        <5>3. aviaInfos[l] \in Nat /\ aviaInfos[m] \in Nat
          BY <1>1
        <5>4. QED
          BY <4>2, <5>1, <5>2, <5>3
      <4>3. QED
        BY <2>1, <4>1, <4>2
    <3>3. QED
      BY <2>2, <3>1, <3>2
  <2>4. Elapsed(n, start, d) = y - x
    BY <1>4, <1>6, <2>2 DEF Elapsed
  <2>5. Elapsed(n, start, e) = (high - low + 1) - (x - z)
    BY <1>3, <1>4, <2>1, <2>2 DEF Elapsed
  <2>6. QED
    BY <2>3, <2>4, <2>5
<1>7. CASE start + d >= n
  <2>1. start + d - n + 1 \in 1..n /\ start + e - n + 1 \in 1..n
        /\ ~(start + d < n) /\ ~(start + e < n) /\ start + d - n + 1 < start + e - n + 1
    BY <1>7
  <2>2. PICK y \in Nat, z \in Nat :
          y = aviaInfos[start + d - n + 1] /\ z = aviaInfos[start + e - n + 1]
    BY <1>1, <2>1
  <2>3. y < z
    BY <1>2, <2>1, <2>2
  <2>4. PICK period \in Int : period = Simulated!scanPatternPeriodTicks
    BY <1>3
  <2>5. Elapsed(n, start, d) = period - (x - y) /\ Elapsed(n, start, e) = period - (x - z)
    BY <1>4, <2>1, <2>2, <2>4 DEF Elapsed
  <2>6. QED
    BY <2>3, <2>5
<1>8. QED
  BY <1>5, <1>6, <1>7

LEMMA OffsetIsElapsed ==
  ASSUME TicksOK(aviaInfos), NEW n \in Nat \ {0}, n = Len(aviaInfos),
         NEW start \in 0..(n - 1), NEW d \in 0..(n - 1)
  PROVE  Simulated!PatternOffset(aviaInfos[1 + ((start + d) % n)], aviaInfos[start + 1])
           = Elapsed(n, start, d)
<1>1. PICK period : period = Simulated!scanPatternPeriodTicks
  OBVIOUS
<1>2. period \in Nat \ {0}
      /\ \A j, k \in 1..n : j < k => aviaInfos[k] - aviaInfos[j] <= period - 1
  <2>1. /\ aviaInfos[1] \in Nat /\ aviaInfos[n] \in Nat
        /\ period = aviaInfos[n] - aviaInfos[1] + 1
        /\ aviaInfos[n] - aviaInfos[1] \in {n - 1, n}
        /\ \A j, k \in 1..n : j < k =>
             aviaInfos[k] - aviaInfos[j] <= aviaInfos[n] - aviaInfos[1]
    BY <1>1, PatternPeriod
  <2>2. PICK low \in Nat, high \in Nat : low = aviaInfos[1] /\ high = aviaInfos[n]
    BY <2>1
  <2>3. period = high - low + 1 /\ high - low \in {n - 1, n}
    BY <2>1, <2>2
  <2>4. period \in Nat \ {0} /\ period - 1 = high - low
    BY <2>3
  <2>5. QED
    BY <2>1, <2>2, <2>4
<1>3. \A k \in 1..n : aviaInfos[k] \in Nat
  BY Ticks
<1>4. \A j, k \in 1..n : j < k => aviaInfos[j] < aviaInfos[k]
  BY Ticks
<1>5. ((start + d) % n) = IF start + d < n THEN start + d ELSE start + d - n
  <2>1. start + d \in Nat /\ start + d < 2 * n
    OBVIOUS
  <2>2. PICK m \in Nat : m = start + d
    BY <2>1
  <2>3. (m % n) = IF m < n THEN m ELSE m - n
    BY <2>1, <2>2, WithinTwo
  <2>4. QED
    BY <2>2, <2>3
<1>6. PICK x \in Nat : x = aviaInfos[start + 1]
  BY <1>3
<1>7. CASE start + d < n
  <2>1. start + d + 1 \in 1..n /\ start + 1 \in 1..n /\ 1 + (start + d) = start + d + 1
    BY <1>7
  <2>2. PICK y \in Nat : y = aviaInfos[start + d + 1]
    BY <1>3, <2>1
  <2>3. y - x \in 0..(period - 1)
    <3>1. CASE d = 0
      BY <1>2, <1>6, <2>2, <3>1
    <3>2. CASE d # 0
      <4>1. start + 1 < start + d + 1
        BY <3>2
      <4>2. x < y
        BY <1>4, <1>6, <2>1, <2>2, <4>1
      <4>3. y - x <= period - 1
        BY <1>2, <1>6, <2>1, <2>2, <4>1
      <4>4. QED
        BY <1>2, <4>2, <4>3
    <3>3. QED
      BY <3>1, <3>2
  <2>4. PICK m \in 0..(period - 1) : m = y - x
    BY <2>3
  <2>5. m \in Nat /\ m < period /\ m < 2 * period
    BY <1>2
  <2>6. (m % period) = m
    BY <1>2, <2>5, WithinTwo
  <2>7. aviaInfos[1 + ((start + d) % n)] = y
    BY <1>5, <1>7, <2>1, <2>2
  <2>8. Simulated!PatternOffset(y, x) = m
    BY <1>1, <2>4, <2>6 DEF Simulated!PatternOffset
  <2>9. Elapsed(n, start, d) = y - x
    BY <1>6, <1>7, <2>2 DEF Elapsed
  <2>10. QED
    BY <1>6, <2>4, <2>7, <2>8, <2>9
<1>8. CASE start + d >= n
  <2>1. start + d - n + 1 \in 1..n /\ start + 1 \in 1..n /\ 1 + (start + d - n) = start + d - n + 1
        /\ ~(start + d < n) /\ start + d - n + 1 < start + 1
    BY <1>8
  <2>2. PICK y \in Nat : y = aviaInfos[start + d - n + 1]
    BY <1>3, <2>1
  <2>3. y < x /\ x - y <= period - 1
    BY <1>2, <1>4, <1>6, <2>1, <2>2
  <2>4. PICK m \in 0..(period - 1), k \in Int : m = period - (x - y) /\ k = y - x
    BY <1>2, <2>3
  <2>5. period * (-1) = -period
    BY <1>2
  <2>6. k = period * (-1) + m /\ -1 \in Int
    BY <1>2, <2>4, <2>5
  <2>7. (k % period) = m
    BY <1>2, <2>6, Divides
  <2>8. aviaInfos[1 + ((start + d) % n)] = y
    BY <1>5, <2>1, <2>2
  <2>9. Simulated!PatternOffset(y, x) = m
    BY <1>1, <2>4, <2>7 DEF Simulated!PatternOffset
  <2>10. Elapsed(n, start, d) = period - (x - y)
    BY <1>1, <1>6, <2>1, <2>2 DEF Elapsed
  <2>11. QED
    BY <1>6, <2>4, <2>8, <2>9, <2>10
<1>9. QED
  BY <1>7, <1>8

SimInv ==
  /\ scanPeriod \in ScanPeriods /\ SimTime \in Nat /\ lastScanSimTime \in Nat
  /\ TicksOK(aviaInfos)
  /\ connected => /\ aviaInfos # <<>>
                  /\ rays \in 1..Simulated!PacketPatternSamples(scanPeriod, Len(aviaInfos))
  /\ lastScanSimTime = 0 => packet = Simulated!None
  /\ lastScanSimTime # 0 => packet.timebase = lastScanSimTime
  /\ \A r \in DOMAIN packet.points : packet.points[r] \in 0..scanPeriod
  /\ Simulated!PacketsApart

\* The offset of a ray from the start of its packet.
LEMMA PacketOffsets ==
  ASSUME TicksOK(aviaInfos), aviaInfos # <<>>, scanPeriod \in Nat \ {0},
         rays \in 1..Simulated!PacketPatternSamples(scanPeriod, Len(aviaInfos)), NEW time \in Nat,
         NEW set, set = Simulated!InitializeRays(time)
  PROVE  /\ \A r \in 1..rays : Simulated!PatternOffset(set[r], set[1]) \in 0..scanPeriod
         /\ \A q, r \in 1..rays : q < r =>
              Simulated!PatternOffset(set[q], set[1]) < Simulated!PatternOffset(set[r], set[1])
<1>1. PICK n \in Nat \ {0} : n = Len(aviaInfos)
  <2>1. aviaInfos \in Seq(Nat)
    BY DEF TicksOK
  <2>2. Len(aviaInfos) \in Nat \ {0}
    BY <2>1
  <2>3. QED
    BY <2>2
<1>2. PICK window \in 1..n : window = Simulated!PacketPatternSamples(scanPeriod, n)
                             /\ window <= scanPeriod
  BY WindowBounds
<1>3. PICK start \in 0..(n - 1) : start = Simulated!PatternStartIndex(time, n)
  <2>1. (time % n) \in 0..(n - 1)
    OBVIOUS
  <2>2. QED
    BY <2>1 DEF Simulated!PatternStartIndex
<1>4. window \in Nat \ {0} /\ rays \in 1..window
  BY <1>1, <1>2
<1> DEFINE share == [r \in 1..rays |-> ((r - 1) * window) \div rays]
<1>5. \A r \in 1..rays : share[r] = ((r - 1) * window) \div rays
  OBVIOUS
<1>6. \A r \in 1..rays : set[r] = aviaInfos[1 + ((start + share[r]) % n)]
  BY <1>1, <1>2, <1>3 DEF Simulated!InitializeRays, Simulated!PatternIndexForRay,
     Simulated!maxPointSize
<1> HIDE DEF share
<1>7. /\ share[1] = 0
      /\ \A r \in 1..rays : share[r] \in 0..(window - 1)
      /\ \A q, r \in 1..rays : q < r => share[q] < share[r]
  BY <1>4, <1>5, RaysShare
<1>8. 1 \in 1..rays
  BY <1>4
<1>9. set[1] = aviaInfos[start + 1]
  <2>1. (start % n) = start
    <3>1. start \in Nat /\ start < 2 * n /\ start < n
      OBVIOUS
    <3>2. QED
      BY <3>1, WithinTwo
  <2>2. start + share[1] = start /\ 1 + start = start + 1
    BY <1>7
  <2>3. QED
    BY <1>6, <1>8, <2>1, <2>2
<1>10. ASSUME NEW r \in 1..rays
       PROVE  /\ share[r] \in 0..(n - 1) /\ share[r] < window
              /\ Simulated!PatternOffset(set[r], set[1]) = Elapsed(n, start, share[r])
  <2>1. PICK d \in 0..(window - 1) : d = share[r]
    BY <1>7
  <2>2. d \in 0..(n - 1) /\ d < window
    BY <1>2, <2>1
  <2>3. Simulated!PatternOffset(aviaInfos[1 + ((start + d) % n)], aviaInfos[start + 1])
          = Elapsed(n, start, d)
    BY <1>1, <2>2, OffsetIsElapsed
  <2>4. QED
    BY <1>6, <1>9, <2>1, <2>2, <2>3
<1>11. ASSUME NEW r \in 1..rays
       PROVE  Simulated!PatternOffset(set[r], set[1]) \in 0..scanPeriod
  <2>1. PICK d \in 0..(n - 1) : d = share[r] /\ d < window
    BY <1>10
  <2>2. Elapsed(n, start, d) \in {d, d + 1}
    BY <1>1, ElapsedBounds
  <2>3. Simulated!PatternOffset(set[r], set[1]) \in {d, d + 1}
    BY <1>10, <2>1, <2>2
  <2>4. QED
    BY <1>2, <2>1, <2>3
<1>12. ASSUME NEW q \in 1..rays, NEW r \in 1..rays, q < r
       PROVE  Simulated!PatternOffset(set[q], set[1]) < Simulated!PatternOffset(set[r], set[1])
  <2>1. PICK d \in 0..(n - 1), e \in 0..(n - 1) : d = share[q] /\ e = share[r]
    BY <1>10
  <2>2. d < e
    BY <1>7, <1>12, <2>1
  <2>3. Elapsed(n, start, d) < Elapsed(n, start, e)
    BY <1>1, <2>2, ElapsedGrows
  <2>4. QED
    BY <1>10, <2>1, <2>3
<1>13. QED
  BY <1>11, <1>12

\* So that no ray of a packet is held back to the time of one before it.
LEMMA PacketTimes ==
  ASSUME TicksOK(aviaInfos), aviaInfos # <<>>, scanPeriod \in Nat \ {0},
         rays \in 1..Simulated!PacketPatternSamples(scanPeriod, Len(aviaInfos)), NEW time \in Nat,
         NEW back \in SUBSET (1..rays), NEW new, new = Simulated!OnNewLaserScans(time, back)
  PROVE  /\ new.timebase = time /\ DOMAIN new.points = back
         /\ \A r \in back : new.points[r] \in 0..scanPeriod
         /\ \A q, r \in back : q < r => new.points[q] < new.points[r]
<1>1. PICK set : set = Simulated!InitializeRays(time)
  OBVIOUS
<1> DEFINE Offset(r) == Simulated!PatternOffset(set[r], set[1])
<1>2. /\ \A r \in 1..rays : Offset(r) \in 0..scanPeriod
      /\ \A q, r \in 1..rays : q < r => Offset(q) < Offset(r)
  BY <1>1, PacketOffsets
<1>3. new = [timebase |-> time,
             points |-> [r \in back |-> Simulated!Max({Offset(q) : q \in back \cap 1..r})]]
  BY <1>1 DEF Simulated!OnNewLaserScans
<1> HIDE DEF Offset
<1>4. new.timebase = time /\ DOMAIN new.points = back
      /\ \A r \in back : new.points[r] = Simulated!Max({Offset(q) : q \in back \cap 1..r})
  BY <1>3
<1>5. rays \in Nat
  <2>1. PICK n \in Nat \ {0} : n = Len(aviaInfos)
    <3>1. aviaInfos \in Seq(Nat)
      BY DEF TicksOK
    <3>2. Len(aviaInfos) \in Nat \ {0}
      BY <3>1
    <3>3. QED
      BY <3>2
  <2>2. Simulated!PacketPatternSamples(scanPeriod, n) \in 1..n
    BY WindowBounds
  <2>3. QED
    BY <2>1, <2>2
<1>6. ASSUME NEW r \in back PROVE new.points[r] = Offset(r)
  <2> DEFINE S == {Offset(q) : q \in back \cap 1..r}
  <2>1. r \in 1..r /\ r \in 1..rays
    BY <1>5
  <2>2. Offset(r) \in S
    BY <2>1
  <2>3. ASSUME NEW x \in S PROVE x \in Nat /\ x <= Offset(r)
    <3>1. PICK q \in back \cap 1..r : x = Offset(q)
      BY <2>3
    <3>2. q \in 1..rays /\ (q = r \/ q < r)
      BY <2>1
    <3>3. Offset(q) \in 0..scanPeriod /\ Offset(r) \in 0..scanPeriod
      BY <1>2, <2>1, <3>2
    <3>4. q < r => Offset(q) < Offset(r)
      BY <1>2, <2>1, <3>2
    <3>5. QED
      BY <3>1, <3>2, <3>3, <3>4
  <2> HIDE DEF S
  <2>4. PICK top \in Nat : top = Offset(r)
    BY <2>2, <2>3
  <2>5. Simulated!Max(S) = CHOOSE x \in S : \A y \in S : x >= y
    BY DEF Simulated!Max
  <2>6. \E x \in S : \A y \in S : x >= y
    BY <2>2, <2>3, <2>4
  <2>7. Simulated!Max(S) \in S /\ \A y \in S : Simulated!Max(S) >= y
    BY <2>5, <2>6
  <2>8. PICK x \in S : x = Simulated!Max(S)
    BY <2>7
  <2>9. x >= top /\ x <= top /\ x \in Nat
    BY <2>2, <2>3, <2>4, <2>7, <2>8
  <2>10. Simulated!Max(S) = Offset(r)
    BY <2>4, <2>8, <2>9
  <2>11. QED
    BY <1>4, <2>10 DEF S
<1>7. back \subseteq 1..rays
  OBVIOUS
<1>8. QED
  BY <1>2, <1>4, <1>6, <1>7

LEMMA SimInvInit == ASSUME Simulated!SimInit PROVE SimInv
<1>1. TicksOK(<<>>)
  <2>1. <<>> \in Seq(Nat) /\ DOMAIN <<>> = {}
    OBVIOUS
  <2>2. QED
    BY <2>1 DEF TicksOK
<1>2. /\ aviaInfos = <<>> /\ connected = FALSE /\ scanPeriod \in ScanPeriods
      /\ SimTime = 0 /\ lastScanSimTime = 0
      /\ packet = Simulated!None /\ previous = Simulated!None
  BY DEF Simulated!SimInit
<1>3. DOMAIN packet.points = {} /\ DOMAIN previous.points = {}
  BY <1>2 DEF Simulated!None
<1>4. Simulated!PacketsApart
  BY <1>3 DEF Simulated!PacketsApart
<1>5. QED
  BY <1>1, <1>2, <1>3, <1>4 DEF SimInv

LEMMA LoadInv ==
  ASSUME Simulated!SimulationConstants, SimInv, Simulated!Load
  PROVE  SimInv'
<1>1. /\ UNCHANGED <<scanPeriod, SimTime, lastScanSimTime, packet, previous, resets>>
      /\ \E file \in Patterns :
           LET infos == Simulated!ReadCsvFile(file)
               requested == (SamplesStep + DownSample - 1) \div DownSample
               window == Simulated!PacketPatternSamples(scanPeriod, Len(infos))
           IN /\ infos # <<>>
              /\ aviaInfos' = infos
              /\ connected' = (requested > 0 /\ requested <= window)
              /\ rays' = IF connected' THEN requested ELSE 0
  BY DEF Simulated!Load
<1>2. PICK file \in Patterns :
        \E requested :
          /\ requested = (SamplesStep + DownSample - 1) \div DownSample
          /\ Simulated!ReadCsvFile(file) # <<>> /\ aviaInfos' = Simulated!ReadCsvFile(file)
          /\ connected' = (requested > 0 /\ requested <=
               Simulated!PacketPatternSamples(scanPeriod, Len(Simulated!ReadCsvFile(file))))
          /\ rays' = IF connected' THEN requested ELSE 0
  BY <1>1
<1>3. PICK requested :
        /\ requested = (SamplesStep + DownSample - 1) \div DownSample
        /\ connected' = (requested > 0 /\ requested <=
             Simulated!PacketPatternSamples(scanPeriod, Len(aviaInfos')))
        /\ rays' = IF connected' THEN requested ELSE 0
  BY <1>2
<1>4. TicksOK(aviaInfos') /\ aviaInfos' # <<>>
  <2>1. PICK ticks : ticks = Simulated!ReadCsvFile(file)
    OBVIOUS
  <2>2. /\ ticks \in Seq(Nat)
        /\ \A j, k \in DOMAIN ticks : j < k => ticks[k] - ticks[j] \in {k - j, k - j + 1}
    BY <2>1 DEF Simulated!SimulationConstants
  <2>3. TicksOK(ticks)
    BY <2>2 DEF TicksOK
  <2>4. QED
    BY <1>2, <2>1, <2>3
<1>5. scanPeriod \in Nat \ {0} /\ requested \in Int
  BY <1>3 DEF SimInv, Simulated!SimulationConstants
<1>6. PICK n \in Nat \ {0} : n = Len(aviaInfos')
  <2>1. aviaInfos' \in Seq(Nat)
    BY <1>4 DEF TicksOK
  <2>2. Len(aviaInfos') \in Nat \ {0}
    BY <1>4, <2>1
  <2>3. QED
    BY <2>2
<1>7. PICK window \in 1..n : window = Simulated!PacketPatternSamples(scanPeriod, n)
  BY <1>5, WindowBounds
<1>8. connected' => rays' \in 1..Simulated!PacketPatternSamples(scanPeriod, Len(aviaInfos'))
  <2>1. connected' => requested > 0 /\ requested <= window /\ rays' = requested
    BY <1>3, <1>6, <1>7
  <2>2. requested > 0 /\ requested <= window => requested \in 1..window
    BY <1>5
  <2>3. QED
    BY <1>6, <1>7, <2>1, <2>2
<1>9. (Simulated!PacketPatternSamples(scanPeriod, Len(aviaInfos)))'
        = Simulated!PacketPatternSamples(scanPeriod, Len(aviaInfos'))
  BY <1>1 DEF Simulated!PacketPatternSamples, Simulated!Min, Simulated!Max
<1>10. connected' => (rays \in 1..Simulated!PacketPatternSamples(scanPeriod, Len(aviaInfos)))'
  BY <1>8, <1>9
<1>11. TicksOK(aviaInfos)'
  BY <1>4 DEF TicksOK
<1>12. (Simulated!PacketsApart)'
  BY <1>1 DEF SimInv, Simulated!PacketsApart
<1>13. (packet = Simulated!None)' = (packet = Simulated!None)
  BY <1>1 DEF Simulated!None
<1>14. QED
  BY <1>1, <1>4, <1>10, <1>11, <1>12, <1>13 DEF SimInv

\* What a step that leaves the packets alone keeps.
LEMMA NoPacketInv ==
  ASSUME SimInv, SimTime' \in Nat,
         UNCHANGED <<aviaInfos, rays, connected, scanPeriod, lastScanSimTime, packet, previous>>
  PROVE  SimInv'
<1>1. (Simulated!PacketPatternSamples(scanPeriod, Len(aviaInfos)))'
        = Simulated!PacketPatternSamples(scanPeriod, Len(aviaInfos))
  BY DEF Simulated!PacketPatternSamples, Simulated!Min, Simulated!Max
<1>2. (Simulated!PacketsApart)' /\ TicksOK(aviaInfos)'
  BY DEF SimInv, Simulated!PacketsApart, TicksOK
<1>3. (packet = Simulated!None)' = (packet = Simulated!None)
  BY DEF Simulated!None
<1>4. QED
  BY <1>1, <1>2, <1>3 DEF SimInv

\* A ray of the last packet was due before the next packet begins.
LEMMA WithinSpan ==
  ASSUME NEW time \in Nat, NEW base \in Nat, NEW after \in Nat, NEW span \in Nat,
         time - base >= span, after <= span
  PROVE  base + after <= time
OBVIOUS

LEMMA WorldUpdateInv ==
  ASSUME Simulated!SimulationConstants, SimInv, Simulated!OnWorldUpdate
  PROVE  SimInv'
<1>1. PICK step \in WorldSteps :
        /\ SimTime' = SimTime + step
        /\ IF ~connected \/ (lastScanSimTime # 0 /\ SimTime' - lastScanSimTime < scanPeriod)
           THEN UNCHANGED <<lastScanSimTime, packet, previous>>
           ELSE /\ lastScanSimTime' = SimTime'
                /\ previous' = packet
                /\ \E back \in Simulated!UpdateRays :
                      packet' = Simulated!OnNewLaserScans(SimTime', back)
        /\ UNCHANGED <<aviaInfos, rays, connected, scanPeriod, resets>>
  BY DEF Simulated!OnWorldUpdate
<1>2. /\ SimTime \in Nat /\ lastScanSimTime \in Nat
      /\ scanPeriod \in Nat \ {0} /\ step \in Nat \ {0}
  BY DEF SimInv, Simulated!SimulationConstants
<1>3. SimTime' \in Nat \ {0}
  BY <1>1, <1>2
<1>4. CASE ~connected \/ (lastScanSimTime # 0 /\ SimTime' - lastScanSimTime < scanPeriod)
  BY <1>1, <1>3, <1>4, NoPacketInv
<1>5. CASE ~(~connected \/ (lastScanSimTime # 0 /\ SimTime' - lastScanSimTime < scanPeriod))
  <2>1. PICK back \in SUBSET (1..rays) : packet' = Simulated!OnNewLaserScans(SimTime', back)
    BY <1>1, <1>5 DEF Simulated!UpdateRays
  <2>2. lastScanSimTime' = SimTime' /\ previous' = packet /\ connected
    BY <1>1, <1>5
  <2>3. /\ TicksOK(aviaInfos) /\ aviaInfos # <<>>
        /\ rays \in 1..Simulated!PacketPatternSamples(scanPeriod, Len(aviaInfos))
    BY <2>2 DEF SimInv
  <2>4a. PICK time \in Nat \ {0} : time = SimTime'
    BY <1>3
  <2>4. PICK new : time = SimTime' /\ new = packet'
    BY <2>4a
  <2>5. /\ new.timebase = time /\ DOMAIN new.points = back
        /\ \A r \in back : new.points[r] \in 0..scanPeriod
        /\ \A q, r \in back : q < r => new.points[q] < new.points[r]
    BY <1>2, <2>1, <2>3, <2>4, PacketTimes
  <2>6. ASSUME NEW r \in DOMAIN packet.points
        PROVE  packet.timebase + packet.points[r] <= time
    <3>1. lastScanSimTime # 0
      <4>1. lastScanSimTime = 0 => DOMAIN packet.points = {}
        BY DEF SimInv, Simulated!None
      <4>2. QED
        BY <2>6, <4>1
    <3>2. packet.timebase = lastScanSimTime /\ packet.points[r] \in 0..scanPeriod
      BY <2>6, <3>1 DEF SimInv
    <3>3. ~(SimTime' - lastScanSimTime < scanPeriod)
      BY <1>5, <3>1
    <3>4. time - lastScanSimTime >= scanPeriod
      <4>1. PICK l \in Nat, p \in Nat : l = lastScanSimTime /\ p = scanPeriod
        BY <1>2
      <4>2. ~(time - l < p)
        BY <2>4a, <3>3, <4>1
      <4>3. QED
        BY <4>1, <4>2
    <3>5. PICK base \in Nat, after \in Nat, span \in Nat :
            base = packet.timebase /\ base = lastScanSimTime /\ after = packet.points[r]
              /\ span = scanPeriod /\ after <= span
      BY <1>2, <3>2
    <3>6. time - base >= span
      BY <3>4, <3>5
    <3>7. base + after <= time
      <4>1. time \in Nat
        BY <2>4a
      <4>2. QED
        BY <4>1, <3>5, <3>6, WithinSpan
    <3>8. QED
      BY <3>5, <3>7
  <2>7. (Simulated!PacketsApart)'
    <3>1. \A q, r \in DOMAIN packet'.points : q < r => packet'.points[q] < packet'.points[r]
      BY <2>4, <2>5
    <3>2. \A r \in DOMAIN previous'.points :
            previous'.timebase + previous'.points[r] <= packet'.timebase
      BY <2>2, <2>4, <2>5, <2>6
    <3>3. QED
      BY <3>1, <3>2 DEF Simulated!PacketsApart
  <2>8. (Simulated!PacketPatternSamples(scanPeriod, Len(aviaInfos)))'
          = Simulated!PacketPatternSamples(scanPeriod, Len(aviaInfos))
    BY <1>1 DEF Simulated!PacketPatternSamples, Simulated!Min, Simulated!Max
  <2>9. TicksOK(aviaInfos)' /\ scanPeriod' \in ScanPeriods
    BY <1>1 DEF SimInv, TicksOK
  <2>10. (rays \in 1..Simulated!PacketPatternSamples(scanPeriod, Len(aviaInfos)))'
         /\ aviaInfos' # <<>>
    BY <1>1, <2>3, <2>8
  <2>11. lastScanSimTime' # 0 /\ lastScanSimTime' \in Nat /\ SimTime' \in Nat
    BY <1>3, <2>2
  <2>12. packet'.timebase = lastScanSimTime'
         /\ \A r \in DOMAIN packet'.points : packet'.points[r] \in 0..scanPeriod'
    BY <1>1, <2>2, <2>4, <2>5
  <2>13. QED
    BY <2>7, <2>9, <2>10, <2>11, <2>12 DEF SimInv
<1>6. QED
  BY <1>4, <1>5

LEMMA SimInvStep ==
  ASSUME Simulated!SimulationConstants, SimInv, [Simulated!SimNext]_(Simulated!simVars)
  PROVE  SimInv'
<1>1. CASE Simulated!WorldReset
  <2>1. SimTime' \in Nat
        /\ UNCHANGED <<aviaInfos, rays, connected, scanPeriod, lastScanSimTime, packet, previous>>
    BY <1>1 DEF Simulated!WorldReset
  <2>2. QED
    BY <2>1, NoPacketInv
<1>2. CASE UNCHANGED Simulated!simVars
  <2>1. SimTime' \in Nat
        /\ UNCHANGED <<aviaInfos, rays, connected, scanPeriod, lastScanSimTime, packet, previous>>
    BY <1>2 DEF Simulated!simVars, SimInv
  <2>2. QED
    BY <2>1, NoPacketInv
<1>3. QED
  BY <1>1, <1>2, LoadInv, WorldUpdateInv DEF Simulated!SimNext

\* The times of the simulated LiDAR's packets never run back and never overlap: for any
\* pattern that lacks at most one sample, any rays, periods and world steps.
THEOREM PacketsStayApart == Simulated!SimSpec => []PacketsApart
<1>1. Simulated!SimulationConstants
  BY OdometryAssumption
<1>2. SimInv => PacketsApart
  BY DEF SimInv, PacketsApart
<1>3. Simulated!SimInit => SimInv
  BY SimInvInit
<1>4. SimInv /\ [Simulated!SimNext]_(Simulated!simVars) => SimInv'
  BY <1>1, SimInvStep
<1>5. QED
  BY <1>2, <1>3, <1>4, PTL DEF Simulated!SimSpec

-----------------------------------------------------------------------------
(* CloudFilters *)

Vectors == [Filters!Axes -> Int]

LEMMA FiltersCardinality == \A S : Filters!Cardinality(S) = Cardinality(S)
  BY DEF Filters!Cardinality, Cardinality

LEMMA KeysAdjacent ==
  ASSUME NEW r \in Nat \ {0}, NEW x \in Int, NEW y \in Int, x - y <= r, y - x <= r
  PROVE  (y \div r) - (x \div r) \in -1..1
<1>1. PICK k \in Int, l \in Int : k = x \div r /\ l = y \div r
  OBVIOUS
<1>2. /\ r * k <= x /\ x < r * k + r
      /\ r * l <= y /\ y < r * l + r
  BY <1>1
<1>3. \A m, n \in Int : m < n => r * m + r <= r * n
  OBVIOUS
<1>4. r * k \in Int /\ r * l \in Int
  OBVIOUS
<1>5. ~(k + 1 < l)
  <2>1. k < k + 1 /\ r * (k + 1) \in Int
    OBVIOUS
  <2>2. r * k + r <= r * (k + 1)
    BY <1>3, <2>1
  <2>3. k + 1 < l => r * (k + 1) + r <= r * l
    BY <1>3
  <2>4. QED
    BY <1>2, <1>4, <2>1, <2>2, <2>3
<1>6. ~(l + 1 < k)
  <2>1. l < l + 1 /\ r * (l + 1) \in Int
    OBVIOUS
  <2>2. r * l + r <= r * (l + 1)
    BY <1>3, <2>1
  <2>3. l + 1 < k => r * (l + 1) + r <= r * k
    BY <1>3
  <2>4. QED
    BY <1>2, <1>4, <2>1, <2>2, <2>3
<1>7. QED
  BY <1>1, <1>5, <1>6

LEMMA SquareOrder == ASSUME NEW m \in Nat, NEW n \in Nat, m < n PROVE m * m < n * n
<1>1. n * m + n <= n * n \/ m * n + n <= n * n
  OBVIOUS
<1>2. m * n = n * m /\ m * m <= m * n
  OBVIOUS
<1>3. n * n \in Int /\ m * n \in Int /\ m * m \in Int
  OBVIOUS
<1>4. QED
  BY <1>1, <1>2, <1>3

LEMMA RootBounds ==
  ASSUME NEW r \in Nat, NEW x \in Int, NEW rest \in Nat, x * x + rest <= r * r
  PROVE  x <= r /\ -x <= r
<1>1. x * x \in Int /\ r * r \in Int /\ (-x) * (-x) = x * x
  OBVIOUS
<1>2. r < x => r * r < x * x
  BY SquareOrder
<1>3. r < -x => r * r < (-x) * (-x)
  BY SquareOrder
<1>4. QED
  BY <1>1, <1>2, <1>3

\* Points within the radius lie in voxels next to each other.
LEMMA NeighborsAdjacent ==
  ASSUME radius_filter \in Nat \ {0}, NEW p \in Vectors, NEW q \in Vectors,
         Filters!Square(Filters!Minus(p, q)) <= radius_filter * radius_filter
  PROVE  Filters!Adjacent(Filters!makeKey(p, radius_filter), Filters!makeKey(q, radius_filter))
<1>1. Filters!Axes = {1, 2, 3}
  BY DEF Filters!Axes
<1>2. \A a \in Filters!Axes : p[a] \in Int /\ q[a] \in Int
  BY DEF Vectors
<1>3. PICK x \in Int, y \in Int, z \in Int :
        x = p[1] - q[1] /\ y = p[2] - q[2] /\ z = p[3] - q[3]
  BY <1>1, <1>2
<1>4. x * x + y * y + z * z <= radius_filter * radius_filter
  <2>1. Filters!Minus(p, q)[1] = x /\ Filters!Minus(p, q)[2] = y /\ Filters!Minus(p, q)[3] = z
    BY <1>1, <1>3 DEF Filters!Minus
  <2>2. QED
    BY <2>1 DEF Filters!Square
<1>5. \A n \in Int : n * n \in Nat
  OBVIOUS
<1>6. PICK xx \in Nat, yy \in Nat, zz \in Nat : xx = x * x /\ yy = y * y /\ zz = z * z
  BY <1>5
<1>7. /\ x * x + (yy + zz) <= radius_filter * radius_filter
      /\ y * y + (xx + zz) <= radius_filter * radius_filter
      /\ z * z + (xx + yy) <= radius_filter * radius_filter
  <2>1. radius_filter * radius_filter \in Nat
    OBVIOUS
  <2>2. PICK rr \in Nat : rr = radius_filter * radius_filter
    BY <2>1
  <2>3. xx + yy + zz <= rr
    BY <1>4, <1>6, <2>2
  <2>4. xx + (yy + zz) <= rr /\ yy + (xx + zz) <= rr /\ zz + (xx + yy) <= rr
    BY <2>3
  <2>5. QED
    BY <1>6, <2>2, <2>4
<1>8. /\ x <= radius_filter /\ -x <= radius_filter
      /\ y <= radius_filter /\ -y <= radius_filter
      /\ z <= radius_filter /\ -z <= radius_filter
  <2>1. yy + zz \in Nat /\ xx + zz \in Nat /\ xx + yy \in Nat
    OBVIOUS
  <2>2. x <= radius_filter /\ -x <= radius_filter
    BY <1>7, <2>1, RootBounds
  <2>3. y <= radius_filter /\ -y <= radius_filter
    BY <1>7, <2>1, RootBounds
  <2>4. z <= radius_filter /\ -z <= radius_filter
    BY <1>7, <2>1, RootBounds
  <2>5. QED
    BY <2>2, <2>3, <2>4
<1>9. \A a \in Filters!Axes : p[a] - q[a] <= radius_filter /\ q[a] - p[a] <= radius_filter
  BY <1>1, <1>2, <1>3, <1>8
<1>10. ASSUME NEW a \in Filters!Axes
       PROVE  Filters!makeKey(q, radius_filter)[a] - Filters!makeKey(p, radius_filter)[a] \in -1..1
  <2>1. (q[a] \div radius_filter) - (p[a] \div radius_filter) \in -1..1
    BY <1>2, <1>9, KeysAdjacent
  <2>2. QED
    BY <2>1 DEF Filters!makeKey
<1>11. QED
  BY <1>10 DEF Filters!Adjacent

\* The radius filter keeps the points with neighbours enough.
LEMMA RadiusFilterExact ==
  ASSUME Filters!FilterConstants, NEW pts \in SUBSET Vectors, IsFiniteSet(pts)
  PROVE  Filters!radiusOutlierFilter(pts)
           = {p \in pts : \/ radius_filter <= 0
                          \/ Cardinality({q \in pts \ {p} : Filters!Square(Filters!Minus(p, q))
                                                          <= radius_filter * radius_filter})
                               >= radius_min_neighbors}
<1> DEFINE Within(p) == {q \in pts \ {p} : Filters!Square(Filters!Minus(p, q))
                                             <= radius_filter * radius_filter}
<1>1. radius_filter \in Int /\ radius_min_neighbors \in Int
  BY DEF Filters!FilterConstants
<1>2. CASE radius_filter <= 0 \/ radius_min_neighbors <= 0
  <2>1. radius_filter <= 0 \/ radius_min_neighbors <= 0
    BY <1>2
  <2>2. ASSUME NEW p \in pts
        PROVE  radius_filter <= 0 \/ Cardinality(Within(p)) >= radius_min_neighbors
    <3>1. Within(p) \in SUBSET pts
      OBVIOUS
    <3> HIDE DEF Within
    <3>2. IsFiniteSet(Within(p))
      BY <3>1, FS_Subset
    <3>3. Cardinality(Within(p)) \in Nat
      BY <3>2, FS_CardinalityType
    <3>4. QED
      BY <1>1, <2>1, <3>3
  <2>3. Filters!radiusOutlierFilter(pts) = pts
    BY <1>2 DEF Filters!radiusOutlierFilter
  <2>4. QED
    BY <2>2, <2>3
<1>3. CASE ~(radius_filter <= 0 \/ radius_min_neighbors <= 0)
  <2>1. radius_filter \in Nat \ {0}
    BY <1>1, <1>3
  <2>2. ASSUME NEW p \in pts PROVE Filters!Neighbors(p, pts) = Within(p)
    <3>1. \A q \in Within(p) : Filters!Adjacent(Filters!makeKey(p, radius_filter),
                                                Filters!makeKey(q, radius_filter))
      BY <2>1, NeighborsAdjacent
    <3>2. QED
      BY <3>1 DEF Filters!Neighbors
  <2>3. Filters!radiusOutlierFilter(pts)
          = {p \in pts : Filters!Cardinality(Filters!Neighbors(p, pts)) >= radius_min_neighbors}
    BY <1>3 DEF Filters!radiusOutlierFilter
  <2> HIDE DEF Within
  <2>4. \A p \in pts : Filters!Cardinality(Filters!Neighbors(p, pts)) = Cardinality(Within(p))
    BY <2>2, FiltersCardinality
  <2>5. Filters!radiusOutlierFilter(pts)
          = {p \in pts : radius_filter <= 0 \/ Cardinality(Within(p)) >= radius_min_neighbors}
    BY <1>1, <2>1, <2>3, <2>4
  <2>6. QED
    BY <2>5 DEF Within
<1>4. QED
  BY <1>2, <1>3

\* Added up in any order, between the least and the greatest for each.
LEMMA TotalBounds ==
  ASSUME NEW S, IsFiniteSet(S), S \subseteq Vectors, NEW a \in Filters!Axes,
         NEW low \in Int, NEW high \in Int,
         \A q \in S : low <= q[a] /\ q[a] <= high
  PROVE  \E total \in Int : /\ total = Filters!Total(S, a)
                            /\ low * Cardinality(S) <= total
                            /\ total <= high * Cardinality(S)
<1> DEFINE len == Cardinality(S)
           order == Filters!SetToSeq(S)
           Body(g) == [n \in 0..len |-> IF n = 0 THEN 0 ELSE g[n - 1] + order[n][a]]
           sum == CHOOSE g : g = Body(g)
           F == [x \in (1..len) \X Int |-> x[2] + order[x[1]][a]]
<1>1. len \in Nat /\ \E f : f \in [1..len -> S] /\ Filters!IsInjective(f)
  <2>1. Cardinality(S) \in Nat /\ ExistsBijection(1..Cardinality(S), S)
    BY FS_CardinalityType
  <2>2. PICK f : f \in Bijection(1..Cardinality(S), S)
    BY <2>1 DEF ExistsBijection
  <2>3. f \in [1..Cardinality(S) -> S] /\ IsInjective(f)
    BY <2>2 DEF Bijection, Injection
  <2>4. Filters!IsInjective(f)
    BY <2>3 DEF Filters!IsInjective, IsInjective
  <2>5. QED
    BY <2>1, <2>3, <2>4
<1>2. order = CHOOSE f \in [1..len -> S] : Filters!IsInjective(f)
  BY FiltersCardinality DEF Filters!SetToSeq
<1>3. order \in [1..len -> S]
  BY <1>1, <1>2
<1>4. Filters!Total(S, a) = sum[len]
  BY FiltersCardinality DEF Filters!Total
<1> HIDE DEF len, order, sum
<1>5. \A n \in 1..len : order[n][a] \in Int /\ low <= order[n][a] /\ order[n][a] <= high
  <2> SUFFICES ASSUME NEW n \in 1..len
               PROVE  order[n][a] \in Int /\ low <= order[n][a] /\ order[n][a] <= high
    OBVIOUS
  <2>1. order[n] \in S
    BY <1>3
  <2>2. order[n] \in Vectors
    BY <2>1
  <2>3. order[n][a] \in Int
    BY <2>2 DEF Vectors
  <2>4. QED
    BY <2>1, <2>3
<1>6. F \in [(1..len) \X Int -> Int] /\ \A n \in 1..len, m \in Int : F[<<n, m>>] = m + order[n][a]
  BY <1>5
<1> HIDE DEF F
<1>7. PICK g \in [0..len -> Int] : Unfolded(g, 0, F, len)
  <2>1. len \in Nat /\ 0 \in Int /\ F \in [(1..len) \X Int -> Int]
    BY <1>1, <1>6
  <2>2. QED
    BY <2>1, RecursionExists
<1>8. g = Body(g)
  <2>1. g = [n \in 0..len |-> g[n]]
    BY <1>7
  <2>2. ASSUME NEW n \in 0..len PROVE g[n] = IF n = 0 THEN 0 ELSE g[n - 1] + order[n][a]
    <3>1. CASE n = 0
      BY <1>7, <3>1 DEF Unfolded
    <3>2. CASE n # 0
      <4>1. n \in 1..len /\ n - 1 \in 0..len
        BY <1>1, <3>2
      <4>2. g[n] = F[<<n, g[n - 1]>>] /\ g[n - 1] \in Int
        BY <1>7, <4>1 DEF Unfolded
      <4>3. QED
        BY <1>6, <3>2, <4>1, <4>2
    <3>3. QED
      BY <3>1, <3>2
  <2>3. QED
    BY <2>1, <2>2
<1>9. sum = Body(sum)
  <2> HIDE DEF Body
  <2>1. QED
    BY <1>8 DEF sum
<1>10. sum[0] = 0
  BY <1>1, <1>9
<1>11. ASSUME NEW n \in 1..len PROVE sum[n] = sum[n - 1] + order[n][a]
  BY <1>1, <1>9
<1> DEFINE Good == {n \in 0..len : sum[n] \in Int /\ low * n <= sum[n] /\ sum[n] <= high * n}
<1>12. 0 \in Good
  BY <1>1, <1>10
<1>13. ASSUME NEW n \in 0..(len - 1), n \in Good PROVE n + 1 \in Good
  <2>1. n + 1 \in 1..len /\ n + 1 \in 0..len /\ (n + 1) - 1 = n
    BY <1>1
  <2>2. PICK m \in Int, v \in Int : m = sum[n] /\ v = order[n + 1][a]
    BY <1>5, <1>13, <2>1
  <2>3. low * (n + 1) = low * n + low /\ high * (n + 1) = high * n + high
        /\ low * n \in Int /\ high * n \in Int
    OBVIOUS
  <2>4. sum[n + 1] = m + v
    BY <1>11, <2>1, <2>2
  <2>5. low * n <= m /\ m <= high * n /\ low <= v /\ v <= high
    BY <1>5, <1>13, <2>1, <2>2
  <2>6. low * (n + 1) <= m + v /\ m + v <= high * (n + 1)
    BY <2>3, <2>5
  <2>7. QED
    BY <2>1, <2>4, <2>6
<1> HIDE DEF Good
<1>14. 0..len \subseteq Good
  BY <1>1, <1>12, <1>13, InductionUpTo
<1>15. len \in Good
  BY <1>1, <1>14
<1>16. QED
  BY <1>4, <1>15 DEF Good, len

LEMMA MeanBetween ==
  ASSUME NEW n \in Nat \ {0}, NEW low \in Int, NEW high \in Int, NEW total \in Int,
         low * n <= total, total <= high * n
  PROVE  low <= total \div n /\ total \div n <= high /\ total \div n \in Int
<1>1. PICK m \in Int : m = total \div n
  OBVIOUS
<1>2. n * m <= total /\ total < n * m + n
  BY <1>1
<1>3. \A x, y \in Int : x < y => n * x + n <= n * y
  OBVIOUS
<1>4. low * n = n * low /\ high * n = n * high /\ n * low \in Int /\ n * high \in Int /\ n * m \in Int
  OBVIOUS
<1>5. ~(m < low) /\ ~(high < m)
  BY <1>2, <1>3, <1>4
<1>6. QED
  BY <1>1, <1>5

\* The mean of points of one voxel lies in that voxel.
LEMMA MeanKeepsKey ==
  ASSUME scan_voxel \in Nat \ {0}, NEW S, IsFiniteSet(S), S \subseteq Vectors, NEW key, S # {},
         \A q \in S : Filters!makeKey(q, scan_voxel) = key
  PROVE  Filters!Mean(S) \in Vectors /\ Filters!makeKey(Filters!Mean(S), scan_voxel) = key
<1>1. PICK n \in Nat \ {0} : n = Cardinality(S) /\ n = Filters!Cardinality(S)
  <2>1. Cardinality(S) \in Nat /\ Cardinality(S) # 0
    BY FS_CardinalityType, FS_EmptySet
  <2>2. QED
    BY <2>1, FiltersCardinality
<1>2. ASSUME NEW a \in Filters!Axes
      PROVE  /\ Filters!Total(S, a) \div n \in Int
             /\ (Filters!Total(S, a) \div n) \div scan_voxel = key[a]
  <2>1. \A q \in S : q[a] \in Int /\ q[a] \div scan_voxel = key[a]
    BY DEF Vectors, Filters!makeKey
  <2>2. PICK k \in Int : k = key[a]
    BY <2>1
  <2>3. PICK low \in Int, high \in Int : low = scan_voxel * k /\ high = scan_voxel * k + scan_voxel - 1
    OBVIOUS
  <2>4. \A m \in Int : /\ scan_voxel * (m \div scan_voxel) <= m
                       /\ m < scan_voxel * (m \div scan_voxel) + scan_voxel
    OBVIOUS
  <2>5. ASSUME NEW q \in S PROVE low <= q[a] /\ q[a] <= high
    <3>1. PICK m \in Int : m = q[a] /\ m \div scan_voxel = k
      BY <2>1, <2>2
    <3>2. scan_voxel * k <= m /\ m < scan_voxel * k + scan_voxel
      BY <2>4, <3>1
    <3>3. QED
      BY <2>3, <3>1, <3>2
  <2>6. PICK total \in Int : /\ total = Filters!Total(S, a)
                             /\ low * n <= total /\ total <= high * n
    BY <1>1, <2>5, TotalBounds
  <2>7. PICK mean \in Int : mean = total \div n /\ low <= mean /\ mean <= high
    BY <2>6, MeanBetween
  <2>8. PICK r \in 0..(scan_voxel - 1) : r = mean - low
    BY <2>3, <2>7
  <2>9. mean = scan_voxel * k + r
    BY <2>3, <2>8
  <2>10. mean \div scan_voxel = k
    BY <2>9, Divides
  <2>11. QED
    BY <2>2, <2>6, <2>7, <2>10
<1>3. Filters!Mean(S) = [a \in Filters!Axes |-> Filters!Total(S, a) \div n]
  BY <1>1 DEF Filters!Mean
<1>4. Filters!Mean(S) \in Vectors
  BY <1>2, <1>3 DEF Vectors
<1>5. \A a \in Filters!Axes : Filters!makeKey(Filters!Mean(S), scan_voxel)[a] = key[a]
  BY <1>2, <1>3 DEF Filters!makeKey
<1>6. PICK p \in S : key = Filters!makeKey(p, scan_voxel)
  OBVIOUS
<1>7. key = [a \in Filters!Axes |-> key[a]]
  BY <1>6 DEF Filters!makeKey
<1>8. Filters!makeKey(Filters!Mean(S), scan_voxel)
        = [a \in Filters!Axes |-> Filters!makeKey(Filters!Mean(S), scan_voxel)[a]]
  BY DEF Filters!makeKey
<1>9. QED
  BY <1>4, <1>5, <1>7, <1>8

MeansOf(pts) == {Filters!Mean({q \in pts : Filters!makeKey(q, scan_voxel)
                                             = Filters!makeKey(p, scan_voxel)}) : p \in pts}

VoxelsOf(pts) == {Filters!makeKey(p, scan_voxel) : p \in pts}

\* A voxel has one mean, and no two voxels have the same.
LEMMA VoxelsApart ==
  ASSUME scan_voxel \in Nat \ {0}, NEW pts, IsFiniteSet(pts), pts \subseteq Vectors
  PROVE  /\ MeansOf(pts) \subseteq Vectors /\ IsFiniteSet(MeansOf(pts))
         /\ Cardinality(MeansOf(pts)) = Cardinality(VoxelsOf(pts))
<1> DEFINE means == MeansOf(pts)
           key(p) == Filters!makeKey(p, scan_voxel)
           cell(p) == {q \in pts : key(q) = key(p)}
           keys == {key(p) : p \in pts}
<1>1. ASSUME NEW p \in pts
      PROVE  Filters!Mean(cell(p)) \in Vectors /\ key(Filters!Mean(cell(p))) = key(p)
  <2>1. cell(p) \subseteq pts /\ p \in cell(p)
    OBVIOUS
  <2>2. \A q \in cell(p) : Filters!makeKey(q, scan_voxel) = Filters!makeKey(p, scan_voxel)
    OBVIOUS
  <2> HIDE DEF cell
  <2>3. IsFiniteSet(cell(p)) /\ cell(p) \subseteq Vectors /\ cell(p) # {}
    BY <2>1, FS_Subset
  <2>4. QED
    BY <2>2, <2>3, MeanKeepsKey
<1>2. \A p, q \in pts : key(p) = key(q) => cell(p) = cell(q)
  OBVIOUS
<1>3. /\ \A m \in means : \E p \in pts : m = Filters!Mean(cell(p))
      /\ \A p \in pts : Filters!Mean(cell(p)) \in means
  BY DEF MeansOf
<1>4. \A k : k \in keys <=> \E p \in pts : k = key(p)
  OBVIOUS
<1> HIDE DEF key, cell, keys, means
<1>5. means \subseteq Vectors
  BY <1>1, <1>3
<1> DEFINE g == [p \in pts |-> Filters!Mean(cell(p))]
           f == [m \in means |-> key(m)]
<1>6. IsFiniteSet(means)
  <2>1. g \in Surjection(pts, means)
    BY <1>3 DEF Surjection
  <2>2. QED
    BY <2>1, FS_Surjection
<1>7. f \in [means -> keys]
  <2>1. ASSUME NEW m \in means PROVE key(m) \in keys
    <3>1. PICK p \in pts : m = Filters!Mean(cell(p))
      BY <1>3
    <3>2. key(m) = key(p)
      BY <1>1, <3>1
    <3>3. QED
      BY <1>4, <3>2
  <2>2. QED
    BY <2>1
<1>8. \A l, m \in means : f[l] = f[m] => l = m
  <2> SUFFICES ASSUME NEW l \in means, NEW m \in means, key(l) = key(m) PROVE l = m
    OBVIOUS
  <2>1. PICK p \in pts : l = Filters!Mean(cell(p))
    BY <1>3
  <2>2. PICK q \in pts : m = Filters!Mean(cell(q))
    BY <1>3
  <2>3. key(p) = key(q)
    BY <1>1, <2>1, <2>2
  <2>4. cell(p) = cell(q)
    BY <1>2, <2>3
  <2>5. QED
    BY <2>1, <2>2, <2>4
<1>9. \A k \in keys : \E m \in means : f[m] = k
  BY <1>1, <1>3, <1>4
<1>10. f \in Bijection(means, keys)
  <2>1. f \in Injection(means, keys)
    BY <1>7, <1>8 DEF Injection, IsInjective
  <2>2. f \in Surjection(means, keys)
    BY <1>7, <1>9 DEF Surjection
  <2>3. QED
    BY <2>1, <2>2 DEF Bijection
<1>11. Cardinality(means) = Cardinality(keys)
  <2>1. ExistsBijection(means, keys)
    BY <1>10 DEF ExistsBijection
  <2>2. QED
    BY <1>6, <2>1, FS_Bijection
<1>12. QED
  BY <1>5, <1>6, <1>11 DEF keys, key, means, VoxelsOf

\* As many points as places in a sequence that repeats none.
LEMMA PlacesOfPoints ==
  ASSUME NEW n \in Nat, NEW s, DOMAIN s = 1..n, \A j, k \in 1..n : s[j] = s[k] => j = k
  PROVE  IsFiniteSet(Filters!ToSet(s)) /\ Cardinality(Filters!ToSet(s)) = n
<1> DEFINE f == [k \in 1..n |-> s[k]]
<1>1. Filters!ToSet(s) = {s[k] : k \in 1..n}
  BY DEF Filters!ToSet
<1> DEFINE all == Filters!ToSet(s)
<1>2. f \in [1..n -> all] /\ \A k \in 1..n : f[k] = s[k]
  BY <1>1
<1>3. \A x \in all : \E k \in 1..n : f[k] = x
  BY <1>1
<1> HIDE DEF f, all
<1>4. f \in Injection(1..n, all)
  BY <1>2 DEF Injection, IsInjective
<1>5. f \in Surjection(1..n, all)
  BY <1>2, <1>3 DEF Surjection
<1>6. ExistsBijection(1..n, all)
  BY <1>4, <1>5 DEF ExistsBijection, Bijection
<1>7. IsFiniteSet(1..n) /\ Cardinality(1..n) = n
  BY FS_Interval
<1>8. IsFiniteSet(all) /\ Cardinality(all) = n
  BY <1>6, <1>7, FS_Bijection
<1>9. QED
  BY <1>8 DEF all

LEMMA Multiples ==
  ASSUME NEW d \in Nat \ {0}, NEW x \in Int, NEW y \in Int, x < y
  PROVE  d * x + d <= d * y /\ d * x \in Int /\ d * y \in Int
  OBVIOUS

LEMMA CapIsKept ==
  ASSUME NEW n \in Nat, NEW cap \in Nat \ {0}, n > cap, NEW s \in Int, NEW v \in Int,
         cap * s <= n + cap - 1, n + cap - 1 < cap * s + cap,
         s * v <= n + s - 1, n + s - 1 < s * v + s
  PROVE  s > 0 /\ v > 0 /\ v <= cap /\ 2 * v >= cap
<1>1. cap * s \in Int /\ s * cap = cap * s /\ s * v \in Int
  OBVIOUS
<1>2. s > 0
  <2>1. ASSUME s < 1 PROVE FALSE
    <3>1. cap * s + cap <= cap * 1 /\ cap * 1 = cap
      BY <2>1, Multiples
    <3>2. QED
      BY <1>1, <3>1
  <2>2. QED
    BY <2>1
<1>3. s \in Nat \ {0}
  BY <1>2
<1>4. v <= cap
  <2>1. ASSUME cap < v PROVE FALSE
    <3>1. s * cap + s <= s * v
      BY <1>3, <2>1, Multiples
    <3>2. QED
      BY <1>1, <3>1
  <2>2. QED
    BY <2>1
<1>5. v > 0
  <2>1. ASSUME v < 1 PROVE FALSE
    <3>1. s * v + s <= s * 1 /\ s * 1 = s
      BY <1>3, <2>1, Multiples
    <3>2. QED
      BY <1>1, <3>1
  <2>2. QED
    BY <2>1
<1>6. 2 * v >= cap
  <2>1. ASSUME 2 * v < cap PROVE FALSE
    <3>1. s * (2 * v) + s <= s * cap
      BY <1>3, <2>1, Multiples
    <3>2. s * (2 * v) = s * v + s * v
      OBVIOUS
    <3>3. QED
      BY <1>1, <1>3, <3>1, <3>2
  <2>2. QED
    BY <2>1
<1>7. QED
  BY <1>2, <1>4, <1>5, <1>6

\* The places taken, one every stride from the first on.
LEMMA PlacesTaken ==
  ASSUME NEW n \in Nat, NEW s \in Nat \ {0}, NEW v \in Nat, s * v <= n + s - 1
  PROVE  /\ \A k \in 1..v : (k - 1) * s + 1 \in 1..n
         /\ \A j, k \in 1..v : (j - 1) * s + 1 = (k - 1) * s + 1 => j = k
<1>1. ASSUME NEW k \in 1..v PROVE (k - 1) * s + 1 \in 1..n
  <2>1. PICK j \in Int : j = k - 1 /\ j < v /\ -1 < j
    OBVIOUS
  <2>2. s * j + s <= s * v /\ s * j \in Int /\ s * v \in Int
    BY <2>1, Multiples
  <2>3. s * (-1) + s <= s * j /\ s * (-1) = -s
    BY <2>1, Multiples
  <2>4. (k - 1) * s = s * j
    BY <2>1
  <2>5. QED
    BY <2>2, <2>3, <2>4
<1>2. ASSUME NEW j \in 1..v, NEW k \in 1..v, (j - 1) * s + 1 = (k - 1) * s + 1 PROVE j = k
  <2>1. PICK x \in Int, y \in Int : x = j - 1 /\ y = k - 1
    OBVIOUS
  <2>2. s * x = s * y
    <3>1. (j - 1) * s \in Int /\ (k - 1) * s \in Int
      OBVIOUS
    <3>2. (j - 1) * s = (k - 1) * s
      BY <1>2, <3>1
    <3>3. (j - 1) * s = s * x /\ (k - 1) * s = s * y
      BY <2>1
    <3>4. QED
      BY <3>2, <3>3
  <2>3. ~(x < y)
    <3>1. x < y => s * x + s <= s * y /\ s * x \in Int
      BY Multiples
    <3>2. QED
      BY <2>2, <3>1
  <2>4. ~(y < x)
    <3>1. y < x => s * y + s <= s * x /\ s * y \in Int
      BY Multiples
    <3>2. QED
      BY <2>2, <3>1
  <2>5. QED
    BY <2>1, <2>3, <2>4
<1>3. QED
  BY <1>1, <1>2

\* Of more points than the cap, evenly spaced ones are taken: no more than the cap, and
\* at least half of it.
LEMMA CappedPlaces ==
  ASSUME max_scan_points \in Int, NEW out, NEW n \in Nat, Len(out) = n,
         DOMAIN out = 1..n, \A j, k \in 1..n : out[j] = out[k] => j = k
  PROVE  \E m \in Nat :
           /\ DOMAIN Filters!Capped(out) = 1..m
           /\ \A k \in 1..m : \E j \in 1..n : Filters!Capped(out)[k] = out[j]
           /\ \A j, k \in 1..m : Filters!Capped(out)[j] = Filters!Capped(out)[k] => j = k
           /\ \/ m = n /\ (max_scan_points <= 0 \/ m <= max_scan_points)
              \/ /\ n > max_scan_points /\ max_scan_points > 0
                 /\ m <= max_scan_points /\ 2 * m >= max_scan_points
<1>1. CASE ~(max_scan_points > 0 /\ n > max_scan_points)
  <2>1. Filters!Capped(out) = out
    BY <1>1 DEF Filters!Capped
  <2>2. n = n /\ (max_scan_points <= 0 \/ n <= max_scan_points)
    BY <1>1
  <2>3. \A k \in 1..n : out[k] = out[k]
    OBVIOUS
  <2>4. QED
    BY <2>1, <2>2, <2>3
<1>2. CASE max_scan_points > 0 /\ n > max_scan_points
  <2>1. PICK cap \in Nat \ {0} : cap = max_scan_points
    BY <1>2
  <2>2. PICK top \in Nat : top = n + cap - 1
    OBVIOUS
  <2>3. PICK s \in Int : s = top \div cap
    OBVIOUS
  <2>4. cap * s <= top /\ top < cap * s + cap
    BY <2>3
  <2>5. PICK above \in Int : above = n + s - 1
    OBVIOUS
  <2>6. s > 0
    <3>1. ASSUME s < 1 PROVE FALSE
      <4>1. cap * s + cap <= cap * 1 /\ cap * 1 = cap /\ cap * s \in Int
        BY <3>1, Multiples
      <4>2. QED
        BY <1>2, <2>1, <2>2, <2>4, <4>1
    <3>2. QED
      BY <3>1
  <2>7. s \in Nat \ {0}
    BY <2>6
  <2>8. PICK v \in Int : v = above \div s
    BY <2>7
  <2>9. s * v <= above /\ above < s * v + s
    BY <2>7, <2>8
  <2>10. v > 0 /\ v <= cap /\ 2 * v >= cap
    <3>1. n > cap /\ cap * s <= n + cap - 1 /\ n + cap - 1 < cap * s + cap
      BY <1>2, <2>1, <2>2, <2>4
    <3>2. s * v <= n + s - 1 /\ n + s - 1 < s * v + s
      BY <2>5, <2>9
    <3>3. QED
      BY <3>1, <3>2, CapIsKept
  <2>11. v \in Nat
    BY <2>10
  <2>12. /\ \A k \in 1..v : (k - 1) * s + 1 \in 1..n
         /\ \A j, k \in 1..v : (j - 1) * s + 1 = (k - 1) * s + 1 => j = k
    <3>1. s * v <= n + s - 1
      BY <2>5, <2>9
    <3>2. QED
      BY <2>7, <2>11, <3>1, PlacesTaken
  <2>13. Filters!Capped(out) = [k \in 1..v |-> out[(k - 1) * s + 1]]
    <3>1. (n + max_scan_points - 1) \div max_scan_points = s
      BY <2>1, <2>2, <2>3
    <3>2. (n + s - 1) \div s = v
      BY <2>5, <2>8
    <3>3. Filters!Capped(out)
            = LET stride == (n + max_scan_points - 1) \div max_scan_points
              IN  [k \in 1..((n + stride - 1) \div stride) |-> out[(k - 1) * stride + 1]]
      BY <1>2 DEF Filters!Capped
    <3>4. QED
      BY <3>1, <3>2, <3>3
  <2> DEFINE place(k) == (k - 1) * s + 1
  <2>14. /\ \A k \in 1..v : place(k) \in 1..n
         /\ \A j, k \in 1..v : place(j) = place(k) => j = k
    BY <2>12
  <2>15. Filters!Capped(out) = [k \in 1..v |-> out[place(k)]]
    BY <2>13
  <2> HIDE DEF place
  <2>16. DOMAIN Filters!Capped(out) = 1..v
         /\ \A k \in 1..v : Filters!Capped(out)[k] = out[place(k)]
    BY <2>15
  <2>17. \A k \in 1..v : \E j \in 1..n : Filters!Capped(out)[k] = out[j]
    BY <2>14, <2>16
  <2>18. \A j, k \in 1..v : Filters!Capped(out)[j] = Filters!Capped(out)[k] => j = k
    BY <2>14, <2>16
  <2>19. n > max_scan_points /\ max_scan_points > 0 /\ v <= max_scan_points
         /\ 2 * v >= max_scan_points
    BY <1>2, <2>1, <2>10
  <2>20. QED
    BY <2>11, <2>16, <2>17, <2>18, <2>19
<1>3. QED
  BY <1>1, <1>2

LEMMA DownsampledPoints ==
  ASSUME Filters!FilterConstants, NEW pts, IsFiniteSet(pts), pts \subseteq Vectors,
         NEW new, new \in Filters!voxelDownsample(pts),
         NEW voxels, voxels = VoxelsOf(pts)
  PROVE  /\ Filters!ToSet(new) \subseteq Vectors /\ IsFiniteSet(Filters!ToSet(new))
         /\ \/ /\ Cardinality(Filters!ToSet(new)) = Cardinality(voxels)
               /\ max_scan_points <= 0 \/ Cardinality(Filters!ToSet(new)) <= max_scan_points
            \/ /\ Cardinality(voxels) > max_scan_points /\ max_scan_points > 0
               /\ Cardinality(Filters!ToSet(new)) <= max_scan_points
               /\ 2 * Cardinality(Filters!ToSet(new)) >= max_scan_points
<1>1. scan_voxel \in Nat \ {0} /\ max_scan_points \in Int
  BY DEF Filters!FilterConstants
<1>2. PICK means : means = MeansOf(pts)
  OBVIOUS
<1>3. means \subseteq Vectors /\ IsFiniteSet(means) /\ Cardinality(means) = Cardinality(voxels)
  BY <1>1, <1>2, VoxelsApart
<1>4. PICK n \in Nat : n = Cardinality(means) /\ n = Filters!Cardinality(means)
  BY <1>3, FS_CardinalityType, FiltersCardinality
<1>5. PICK out \in Filters!SetToSeqs(means) : new = Filters!Capped(out)
  BY <1>2 DEF Filters!voxelDownsample, Filters!Voxels, MeansOf
<1>6. out \in [1..n -> means] /\ \A j, k \in 1..n : j # k => out[j] # out[k]
  BY <1>4, <1>5 DEF Filters!SetToSeqs
<1>7. DOMAIN out = 1..n /\ Len(out) = n
  BY <1>6
<1>8. PICK m \in Nat :
        /\ DOMAIN new = 1..m
        /\ \A k \in 1..m : \E j \in 1..n : new[k] = out[j]
        /\ \A j, k \in 1..m : new[j] = new[k] => j = k
        /\ \/ m = n /\ (max_scan_points <= 0 \/ m <= max_scan_points)
           \/ /\ n > max_scan_points /\ max_scan_points > 0
              /\ m <= max_scan_points /\ 2 * m >= max_scan_points
  <2>1. \A j, k \in 1..n : out[j] = out[k] => j = k
    BY <1>6
  <2>2. QED
    BY <1>1, <1>5, <1>7, <2>1, CappedPlaces
<1>9. IsFiniteSet(Filters!ToSet(new)) /\ Cardinality(Filters!ToSet(new)) = m
  BY <1>8, PlacesOfPoints
<1>10. Filters!ToSet(new) \subseteq Vectors
  <2>1. \A k \in 1..m : new[k] \in Vectors
    BY <1>3, <1>6, <1>8
  <2>2. QED
    BY <1>8, <2>1 DEF Filters!ToSet
<1>11. QED
  BY <1>3, <1>4, <1>8, <1>9, <1>10

FilterInv ==
  /\ message \in SUBSET CloudPoints /\ IsFiniteSet(message)
  /\ Filters!FilterExact

LEMMA FilterCloudInv ==
  ASSUME Filters!FilterConstants, FilterInv, Filters!FilterCloud
  PROVE  FilterInv'
<1>1. /\ message' = message
      /\ points' \in Filters!voxelDownsample(Filters!extractPoints(message))
      /\ filtered' = Filters!radiusOutlierFilter(Filters!ToSet(points'))
  BY DEF Filters!FilterCloud
<1>2. PICK taken : taken = Filters!extractPoints(message)
  OBVIOUS
<1>3. taken \subseteq Vectors /\ IsFiniteSet(taken)
  <2>1. taken \in SUBSET message
    BY <1>2 DEF Filters!extractPoints
  <2>2. message \subseteq Vectors /\ IsFiniteSet(message)
    BY DEF FilterInv, Filters!FilterConstants, Vectors
  <2>3. QED
    BY <2>1, <2>2, FS_Subset
<1>4. PICK voxels : voxels = VoxelsOf(taken)
  OBVIOUS
<1>5. PICK pts : pts = Filters!ToSet(points')
  OBVIOUS
<1>6. /\ pts \subseteq Vectors /\ IsFiniteSet(pts)
      /\ \/ /\ Cardinality(pts) = Cardinality(voxels)
            /\ max_scan_points <= 0 \/ Cardinality(pts) <= max_scan_points
         \/ /\ Cardinality(voxels) > max_scan_points /\ max_scan_points > 0
            /\ Cardinality(pts) <= max_scan_points
            /\ 2 * Cardinality(pts) >= max_scan_points
  <2>1. PICK new : new = points'
    OBVIOUS
  <2>2. new \in Filters!voxelDownsample(taken)
    BY <1>1, <1>2, <2>1
  <2>3. pts = Filters!ToSet(new)
    BY <1>5, <2>1
  <2>4. QED
    BY <1>3, <1>4, <2>2, <2>3, DownsampledPoints
<1>7. filtered' = {p \in pts :
                     \/ radius_filter <= 0
                     \/ Cardinality({q \in pts \ {p} : Filters!Square(Filters!Minus(p, q))
                                                     <= radius_filter * radius_filter})
                          >= radius_min_neighbors}
  <2>1. filtered' = Filters!radiusOutlierFilter(pts)
    BY <1>1, <1>5
  <2>2. QED
    BY <1>6, <2>1, RadiusFilterExact
<1>8. (Filters!FilterExact)'
  <2>1. (Filters!ToSet(points))' = pts
    BY <1>5 DEF Filters!ToSet
  <2>2. {Filters!makeKey(p, scan_voxel) : p \in (Filters!extractPoints(message))'} = voxels
    <3>1. (Filters!extractPoints(message))' = taken
      BY <1>1, <1>2 DEF Filters!extractPoints, Filters!InRange
    <3>2. QED
      BY <1>4, <3>1 DEF VoxelsOf
  <2>3. QED
    BY <1>6, <1>7, <2>1, <2>2, FiltersCardinality DEF Filters!FilterExact
<1>9. QED
  BY <1>1, <1>8 DEF FilterInv

LEMMA FilterInvInit == ASSUME Filters!Init PROVE FilterInv
<1>1. message \in SUBSET CloudPoints /\ Filters!IsFiniteSet(message) /\ done = FALSE
  BY DEF Filters!Init
<1>2. IsFiniteSet(message)
  BY <1>1 DEF Filters!IsFiniteSet, IsFiniteSet
<1>3. Filters!FilterExact
  BY <1>1 DEF Filters!FilterExact
<1>4. QED
  BY <1>1, <1>2, <1>3 DEF FilterInv

LEMMA FilterInvStep ==
  ASSUME Filters!FilterConstants, FilterInv, [Filters!Next]_(Filters!vars)
  PROVE  FilterInv'
<1>1. CASE UNCHANGED Filters!vars
  <2>1. UNCHANGED <<message, points, filtered, done>>
    BY <1>1 DEF Filters!vars
  <2>2. (Filters!FilterExact)' = Filters!FilterExact
    BY <2>1 DEF Filters!FilterExact, Filters!ToSet, Filters!extractPoints
  <2>3. QED
    BY <2>1, <2>2 DEF FilterInv
<1>2. QED
  BY <1>1, FilterCloudInv DEF Filters!Next

\* The filters keep exactly the points they should, and lose no voxel but to the cap: for
\* any points on a grid of integers, voxels, radius and cap.
THEOREM FiltersAreExact == Filters!Spec => []FilterExact
<1>1. Filters!FilterConstants
  BY OdometryAssumption
<1>2. FilterInv => FilterExact
  BY DEF FilterInv, FilterExact
<1>3. Filters!Init => FilterInv
  BY FilterInvInit
<1>4. FilterInv /\ [Filters!Next]_(Filters!vars) => FilterInv'
  BY <1>1, FilterInvStep
<1>5. QED
  BY <1>2, <1>3, <1>4, PTL DEF Filters!Spec
-----------------------------------------------------------------------------
(* The stages together: a step of one leaves every other as it is *)

\* The stage that runs takes one of its own steps, and the others keep what is theirs.
LEMMA OneStageSteps ==
  ASSUME [OdometryNext]_odometryVars
  PROVE
    /\ [Lio!Next]_(Lio!vars)
    /\ [Update!Next]_(Update!vars)
    /\ [Cube!Next]_(Cube!vars)
    /\ [Motion!Next]_(Motion!vars)
    /\ [Increment!IncrementNext]_(Increment!mapVars)
    /\ [Convert!ScanNext]_(Convert!scanVars)
    /\ [Line!FeatureNext]_(Line!featureVars)
    /\ [Filters!Next]_(Filters!vars)
    /\ [Grid!Next]_(Grid!vars)
    /\ [Simulated!SimNext]_(Simulated!simVars)
<1>1. OdometryNext \/ UNCHANGED odometryVars
  OBVIOUS
<1>2. [Lio!Next]_(Lio!vars)
  <2>1. Lio!Next \/ UNCHANGED lioOwn
    BY <1>1 DEF OdometryNext, Idle, odometryVars
  <2>2. UNCHANGED lioOwn => UNCHANGED Lio!vars
    BY DEF lioOwn, Lio!vars, Lio!sensors, Lio!lidar, Lio!imu, Lio!sync,
         Lio!start, Lio!p_imu, Lio!feats, Lio!map, Lio!history
  <2>3. QED
    BY <2>1, <2>2
<1>3. [Update!Next]_(Update!vars)
  <2>1. Update!Next \/ UNCHANGED updateOwn
    BY <1>1 DEF OdometryNext, Idle, odometryVars
  <2>2. UNCHANGED updateOwn => UNCHANGED Update!vars
    BY DEF updateOwn, Update!vars
  <2>3. QED
    BY <2>1, <2>2
<1>4. [Cube!Next]_(Cube!vars)
  <2>1. Cube!Next \/ UNCHANGED cubeOwn
    BY <1>1 DEF OdometryNext, Idle, odometryVars
  <2>2. UNCHANGED cubeOwn => UNCHANGED Cube!vars
    BY DEF cubeOwn, Cube!vars
  <2>3. QED
    BY <2>1, <2>2
<1>5. [Motion!Next]_(Motion!vars)
  <2>1. Motion!Next \/ UNCHANGED motionOwn
    BY <1>1 DEF OdometryNext, Idle, odometryVars
  <2>2. UNCHANGED motionOwn => UNCHANGED Motion!vars
    BY DEF motionOwn, Motion!vars
  <2>3. QED
    BY <2>1, <2>2
<1>6. [Increment!IncrementNext]_(Increment!mapVars)
  <2>1. Increment!IncrementNext \/ UNCHANGED incrementOwn
    BY <1>1 DEF OdometryNext, Idle, odometryVars
  <2>2. UNCHANGED incrementOwn => UNCHANGED Increment!mapVars
    BY DEF incrementOwn, Increment!mapVars
  <2>3. QED
    BY <2>1, <2>2
<1>7. [Convert!ScanNext]_(Convert!scanVars)
  <2>1. Convert!ScanNext \/ UNCHANGED convertOwn
    BY <1>1 DEF OdometryNext, Idle, odometryVars
  <2>2. UNCHANGED convertOwn => UNCHANGED Convert!scanVars
    BY DEF convertOwn, Convert!scanVars
  <2>3. QED
    BY <2>1, <2>2
<1>8. [Line!FeatureNext]_(Line!featureVars)
  <2>1. Line!FeatureNext \/ UNCHANGED featuresOwn
    BY <1>1 DEF OdometryNext, Idle, odometryVars
  <2>2. UNCHANGED featuresOwn => UNCHANGED Line!featureVars
    BY DEF featuresOwn, Line!featureVars
  <2>3. QED
    BY <2>1, <2>2
<1>9. [Filters!Next]_(Filters!vars)
  <2>1. Filters!Next \/ UNCHANGED filtersOwn
    BY <1>1 DEF OdometryNext, Idle, odometryVars
  <2>2. UNCHANGED filtersOwn => UNCHANGED Filters!vars
    BY DEF filtersOwn, Filters!vars
  <2>3. QED
    BY <2>1, <2>2
<1>10. [Grid!Next]_(Grid!vars)
  <2>1. Grid!Next \/ UNCHANGED gridOwn
    BY <1>1 DEF OdometryNext, Idle, odometryVars
  <2>2. UNCHANGED gridOwn => UNCHANGED Grid!vars
    BY DEF gridOwn, Grid!vars
  <2>3. QED
    BY <2>1, <2>2
<1>11. [Simulated!SimNext]_(Simulated!simVars)
  <2>1. Simulated!SimNext \/ UNCHANGED simulatedOwn
    BY <1>1 DEF OdometryNext, Idle, odometryVars
  <2>2. UNCHANGED simulatedOwn => UNCHANGED Simulated!simVars
    BY DEF simulatedOwn, Simulated!simVars
  <2>3. QED
    BY <2>1, <2>2
<1>12. QED
  BY <1>2, <1>3, <1>4, <1>5, <1>6, <1>7, <1>8, <1>9, <1>10, <1>11

\* A behaviour of the whole is a behaviour of every stage.
THEOREM EveryStageRuns ==
  OdometrySpec =>
    /\ Lio!Spec
    /\ Update!Spec
    /\ Cube!Spec
    /\ Motion!Spec
    /\ Increment!IncrementSpec
    /\ Convert!ScanSpec
    /\ Line!FeatureSpec
    /\ Filters!Spec
    /\ Grid!Spec
    /\ Simulated!SimSpec
<1>1. OdometrySpec => Lio!Spec
  <2>1. OdometryInit => Lio!Init
    BY DEF OdometryInit
  <2>2. [OdometryNext]_odometryVars => [Lio!Next]_(Lio!vars)
    BY OneStageSteps
  <2>3. QED
    BY <2>1, <2>2, PTL DEF OdometrySpec, Lio!Spec
<1>2. OdometrySpec => Update!Spec
  <2>1. OdometryInit => Update!Init
    BY DEF OdometryInit
  <2>2. [OdometryNext]_odometryVars => [Update!Next]_(Update!vars)
    BY OneStageSteps
  <2>3. QED
    BY <2>1, <2>2, PTL DEF OdometrySpec, Update!Spec
<1>3. OdometrySpec => Cube!Spec
  <2>1. OdometryInit => Cube!Init
    BY DEF OdometryInit
  <2>2. [OdometryNext]_odometryVars => [Cube!Next]_(Cube!vars)
    BY OneStageSteps
  <2>3. QED
    BY <2>1, <2>2, PTL DEF OdometrySpec, Cube!Spec
<1>4. OdometrySpec => Motion!Spec
  <2>1. OdometryInit => Motion!Init
    BY DEF OdometryInit
  <2>2. [OdometryNext]_odometryVars => [Motion!Next]_(Motion!vars)
    BY OneStageSteps
  <2>3. QED
    BY <2>1, <2>2, PTL DEF OdometrySpec, Motion!Spec
<1>5. OdometrySpec => Increment!IncrementSpec
  <2>1. OdometryInit => Increment!IncrementInit
    BY DEF OdometryInit
  <2>2. [OdometryNext]_odometryVars => [Increment!IncrementNext]_(Increment!mapVars)
    BY OneStageSteps
  <2>3. QED
    BY <2>1, <2>2, PTL DEF OdometrySpec, Increment!IncrementSpec
<1>6. OdometrySpec => Convert!ScanSpec
  <2>1. OdometryInit => Convert!ScanInit
    BY DEF OdometryInit
  <2>2. [OdometryNext]_odometryVars => [Convert!ScanNext]_(Convert!scanVars)
    BY OneStageSteps
  <2>3. QED
    BY <2>1, <2>2, PTL DEF OdometrySpec, Convert!ScanSpec
<1>7. OdometrySpec => Line!FeatureSpec
  <2>1. OdometryInit => Line!FeatureInit
    BY DEF OdometryInit
  <2>2. [OdometryNext]_odometryVars => [Line!FeatureNext]_(Line!featureVars)
    BY OneStageSteps
  <2>3. QED
    BY <2>1, <2>2, PTL DEF OdometrySpec, Line!FeatureSpec
<1>8. OdometrySpec => Filters!Spec
  <2>1. OdometryInit => Filters!Init
    BY DEF OdometryInit
  <2>2. [OdometryNext]_odometryVars => [Filters!Next]_(Filters!vars)
    BY OneStageSteps
  <2>3. QED
    BY <2>1, <2>2, PTL DEF OdometrySpec, Filters!Spec
<1>9. OdometrySpec => Grid!Spec
  <2>1. OdometryInit => Grid!Init
    BY DEF OdometryInit
  <2>2. [OdometryNext]_odometryVars => [Grid!Next]_(Grid!vars)
    BY OneStageSteps
  <2>3. QED
    BY <2>1, <2>2, PTL DEF OdometrySpec, Grid!Spec
<1>10. OdometrySpec => Simulated!SimSpec
  <2>1. OdometryInit => Simulated!SimInit
    BY DEF OdometryInit
  <2>2. [OdometryNext]_odometryVars => [Simulated!SimNext]_(Simulated!simVars)
    BY OneStageSteps
  <2>3. QED
    BY <2>1, <2>2, PTL DEF OdometrySpec, Simulated!SimSpec
<1>11. QED
  BY <1>1, <1>2, <1>3, <1>4, <1>5, <1>6, <1>7, <1>8, <1>9, <1>10, PTL

\* Whatever the sensors, the messages and the order of the stages: each keeps its own
\* promise in a behaviour of the whole, the one the runs check.
THEOREM EveryStageHolds ==
  OdometrySpec =>
    /\ [](/\ OdometryIsOfItsScan /\ UpdateCompletes /\ MapInsideCube /\ MovedByItsSegment
          /\ ScansAreFaithful /\ FilterExact /\ GridForgets /\ PacketsApart
          /\ PointsAreRepresented)
    /\ PosesKeepTime
  BY EveryStageRuns, PosesAreOfTheirScan, PosesKeepTheirTime, UpdatesComplete, MapStaysInCube,
     PointsMoveByTheirSegment, PointsStayRepresented, ScansStayFaithful, FiltersAreExact,
     GridsForget, PacketsStayApart, PTL
=============================================================================
