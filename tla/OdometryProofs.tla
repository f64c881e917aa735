--------------------------- MODULE OdometryProofs ---------------------------
(***************************************************************************)
(* Theorems about the components between the LiDAR and the maps, each a    *)
(* specification of its own: the odometry node, the iterated update, the   *)
(* cube of the local map, the undistortion, the occupancy grid and the map *)
(* increment, for any scans, points, times, clouds and parameters that     *)
(* meet the requirements their modules state.  What recursive functions    *)
(* compute is proved by induction over the naturals, on sets, for which no *)
(* theorem with an operator as its parameter is needed.                    *)
(***************************************************************************)
EXTENDS MCOdometry, FiniteSetTheorems, WellFoundedInduction, TLAPS

-----------------------------------------------------------------------------
(* Induction over the naturals, and recursive functions *)

LEMMA LeastOf ==
  ASSUME NEW S, S \subseteq Nat, S # {}
  PROVE  \E least \in S : \A n \in S : least <= n
<1>1. PICK least \in S : \A y \in S : ~(<<y, least>> \in OpToRel(<, Nat))
  BY NatLessThanWellFounded, WFMin
<1>2. ASSUME NEW n \in S PROVE least <= n
  <2>1. <<n, least>> \in OpToRel(<, Nat) <=> n < least
    BY DEF OpToRel
  <2>2. n \in Nat /\ least \in Nat
    OBVIOUS
  <2>3. ~(n < least)
    BY <1>1, <2>1
  <2>4. QED
    BY <2>2, <2>3
<1>3. QED
  BY <1>2

LEMMA InductionUpTo ==
  ASSUME NEW len \in Nat, NEW Good, 0 \in Good,
         \A n \in 0..(len - 1) : n \in Good => n + 1 \in Good
  PROVE  0..len \subseteq Good
<1> DEFINE Bad == (0..len) \ Good
<1>1. SUFFICES ASSUME Bad # {} PROVE FALSE
  OBVIOUS
<1>2. PICK least \in Bad : \A n \in Bad : least <= n
  <2>1. Bad \subseteq Nat
    OBVIOUS
  <2> HIDE DEF Bad
  <2>2. QED
    BY <1>1, <2>1, LeastOf
<1>3. least \in 1..len /\ least - 1 \in 0..(len - 1) /\ (least - 1) + 1 = least
  OBVIOUS
<1>4. least - 1 \in Good
  BY <1>2, <1>3
<1>5. QED
  BY <1>3, <1>4

\* What a function defined by recursion on 0..len computes exists.
Unfolded(g, start, F, m) ==
  /\ DOMAIN g = 0..m
  /\ g[0] = start
  /\ \A n \in 1..m : g[n] = F[<<n, g[n - 1]>>]

LEMMA RecursionExists ==
  ASSUME NEW V, NEW start \in V, NEW len \in Nat, NEW F \in [(1..len) \X V -> V]
  PROVE  \E g \in [0..len -> V] : Unfolded(g, start, F, len)
<1> DEFINE Solved(m) == \E g \in [0..m -> V] : Unfolded(g, start, F, m)
           Bad == {m \in 0..len : ~Solved(m)}
<1>1. SUFFICES ASSUME Bad # {} PROVE FALSE
  OBVIOUS
<1>2. Bad \subseteq Nat
  OBVIOUS
<1> HIDE DEF Bad
<1>3. PICK m \in Bad : \A n \in Bad : m <= n
  BY <1>1, <1>2, LeastOf
<1>4. m \in 0..len /\ ~Solved(m)
  BY DEF Bad
<1>5. m = 0 => Solved(m)
  <2>1. Unfolded([n \in 0..0 |-> start], start, F, 0)
    BY DEF Unfolded
  <2>2. QED
    BY <2>1
<1>6. m # 0 => Solved(m)
  <2> SUFFICES ASSUME m # 0 PROVE Solved(m)
    OBVIOUS
  <2>1. m - 1 \in 0..len /\ m - 1 \notin Bad
    BY <1>3, <1>4
  <2>2. Solved(m - 1)
    BY <2>1 DEF Bad
  <2>3. PICK g \in [0..(m - 1) -> V] : Unfolded(g, start, F, m - 1)
    BY <2>2
  <2> DEFINE last == F[<<m, g[m - 1]>>]
             h == [n \in 0..m |-> IF n = m THEN last ELSE g[n]]
  <2>4. g[m - 1] \in V /\ <<m, g[m - 1]>> \in (1..len) \X V
    BY <1>4, <2>3
  <2>5. last \in V
    BY <2>4
  <2>6. last = F[<<m, g[m - 1]>>]
    OBVIOUS
  <2> HIDE DEF last
  <2>7. h \in [0..m -> V] /\ DOMAIN h = 0..m
    BY <1>4, <2>5
  <2>8. h[0] = start
    BY <1>4, <2>3 DEF Unfolded
  <2>9. ASSUME NEW n \in 1..m PROVE h[n] = F[<<n, h[n - 1]>>]
    <3>1. n - 1 \in 0..m /\ n - 1 # m /\ h[n - 1] = g[n - 1]
      BY <1>4
    <3>2. CASE n = m
      BY <1>4, <2>6, <3>1, <3>2
    <3>3. CASE n # m
      <4>1. n \in 1..(m - 1) /\ h[n] = g[n]
        BY <1>4, <3>3
      <4>2. QED
        BY <2>3, <3>1, <4>1 DEF Unfolded
    <3>4. QED
      BY <3>2, <3>3
  <2> HIDE DEF h
  <2>10. Unfolded(h, start, F, m)
    BY <2>7, <2>8, <2>9 DEF Unfolded
  <2>11. QED
    BY <2>7, <2>10
<1>7. QED
  BY <1>4, <1>5, <1>6

-----------------------------------------------------------------------------
(* IteratedUpdate *)

\* As long as every iteration had a point, as many steps were made as iterations; a
\* step was small, or the last is near, only when a search after a step was made or
\* is asked for.  Once all points are given up without a search, none is asked for.
UpdateInv ==
  /\ maximum_iter \in Nat \ {0}
  /\ i \in -1..maximum_iter
  /\ t \in Nat /\ x_ \in Nat /\ Nearest_Points \in Int
  /\ converge \in BOOLEAN /\ returned \in BOOLEAN
  /\ P_.kind = "posterior" <=> returned
  /\ returned => P_ = [kind |-> "posterior", at |-> x_ - 1]
  /\ (\E gap \in gaps : ~gap.searched) =>
        ~converge /\ point_selected_surf = {} /\ ~returned
  /\ gaps = {} =>
       IF returned THEN Nearest_Points >= 1
       ELSE /\ x_ = i + 1
            /\ i < maximum_iter
            /\ t > 0 => (converge /\ x_ >= 1) \/ Nearest_Points >= 1
            /\ i = maximum_iter - 1 => (converge /\ x_ >= 1) \/ Nearest_Points >= 1
            /\ i = -1 => converge /\ t = 0

LEMMA UpdateInvInit == ASSUME Update!UpdateConstants, Update!Init PROVE UpdateInv
<1>1. P_.kind # "posterior" /\ returned = FALSE /\ gaps = {}
  BY DEF Update!Init
<1>2. maximum_iter \in Nat \ {0} /\ i = -1 /\ t = 0 /\ x_ = 0 /\ Nearest_Points = -1 /\ converge = TRUE
  BY DEF Update!UpdateConstants, Update!Init
<1>3. i \in -1..maximum_iter /\ i < maximum_iter /\ i # maximum_iter - 1 /\ x_ = i + 1
  BY <1>2
<1>4. ~\E gap \in gaps : ~gap.searched
  BY <1>1
<1>5. ~returned /\ returned \in BOOLEAN /\ ~(P_.kind = "posterior")
  BY <1>1
<1>6. converge /\ converge \in BOOLEAN
  BY <1>2
<1>7. t \in Nat /\ x_ \in Nat /\ Nearest_Points \in Int /\ t = 0 /\ maximum_iter \in Nat \ {0}
  BY <1>2
<1>8. QED
  BY <1>3, <1>4, <1>5, <1>6, <1>7 DEF UpdateInv

LEMMA SkipInv == ASSUME UpdateInv, Update!Skip PROVE UpdateInv'
<1>1. gaps' # {}
  BY DEF Update!Skip
<1>2. /\ maximum_iter' = maximum_iter /\ i' = i + 1 /\ t' = t /\ x_' = x_ /\ P_' = P_
      /\ converge' = converge /\ returned' = returned /\ ~returned /\ i # maximum_iter
      /\ point_selected_surf' = {}
      /\ Nearest_Points' \in Int
  BY DEF Update!Skip, Update!h_share_model, Update!Over, UpdateInv
<1>3. ASSUME NEW gap \in gaps', ~gap.searched
      PROVE  ~converge
  BY <1>3 DEF Update!Skip, UpdateInv
<1>4. QED
  BY <1>1, <1>2, <1>3 DEF UpdateInv

LEMMA StepInv == ASSUME UpdateInv, NEW small \in BOOLEAN, Update!Step(small) PROVE UpdateInv'
<1> DEFINE count == IF small THEN t + 1 ELSE t
           ends == Update!Ends(count)
<1>1. /\ maximum_iter' = maximum_iter /\ x_' = x_ + 1 /\ t' = count /\ gaps' = gaps
      /\ ~returned /\ i # maximum_iter
      /\ returned' = ends /\ i' = IF ends THEN i ELSE i + 1
      /\ converge' = (small \/ (t = 0 /\ i = maximum_iter - 2))
      /\ point_selected_surf' # {}
      /\ Nearest_Points' = IF converge THEN x_ ELSE Nearest_Points
      /\ point_selected_surf' \in SUBSET (IF converge THEN Features ELSE point_selected_surf)
  BY DEF Update!Step, Update!Over, Update!Stepped, Update!NextConverge, Update!h_share_model
<1>2. P_' = IF ends THEN [kind |-> "posterior", at |-> x_] ELSE [kind |-> "carried", at |-> x_]
  BY DEF Update!Step, Update!Reduced, Update!Carried
<1>3. ends <=> count > 1 \/ i = maximum_iter - 1
  BY DEF Update!Ends
<1>4. count \in Nat
  BY DEF UpdateInv
<1>5. ~\E gap \in gaps : ~gap.searched
  BY <1>1 DEF UpdateInv
<1> HIDE DEF ends
<1>6. gaps' = {} => IF returned' THEN Nearest_Points' >= 1
                    ELSE /\ x_' = i' + 1
                         /\ i' < maximum_iter'
                         /\ t' > 0 => (converge' /\ x_' >= 1) \/ Nearest_Points' >= 1
                         /\ i' = maximum_iter' - 1 =>
                              (converge' /\ x_' >= 1) \/ Nearest_Points' >= 1
                         /\ i' = -1 => converge' /\ t' = 0
  <2> SUFFICES ASSUME gaps = {}
               PROVE  IF ends THEN Nearest_Points' >= 1
                      ELSE /\ i + 1 < maximum_iter
                           /\ count > 0 => converge' \/ Nearest_Points' >= 1
                           /\ i + 1 = maximum_iter - 1 => converge' \/ Nearest_Points' >= 1
    BY <1>1 DEF UpdateInv
  <2>1. CASE ends
    BY <1>1, <1>3, <2>1 DEF UpdateInv
  <2>2. CASE ~ends
    <3>1. i + 1 < maximum_iter
      BY <1>1, <1>3, <2>2 DEF UpdateInv
    <3>2. ASSUME t > 0 PROVE Nearest_Points' >= 1
      BY <1>1, <3>2 DEF UpdateInv
    <3>3. small => converge'
      BY <1>1
    <3>4. ~small => count = t
      OBVIOUS
    <3>5. i + 1 = maximum_iter - 1 /\ t = 0 => converge'
      <4>1. i + 1 = maximum_iter - 1 => i = maximum_iter - 2
        BY DEF UpdateInv
      <4>2. QED
        BY <1>1, <4>1
    <3>6. t = 0 \/ t > 0
      BY DEF UpdateInv
    <3> HIDE DEF count
    <3>7. QED
      BY <2>2, <3>1, <3>2, <3>3, <3>4, <3>5, <3>6
  <2>3. QED
    BY <2>1, <2>2
<1>7. returned' \in BOOLEAN /\ converge' \in BOOLEAN
  BY <1>1, <1>3
<1>8. P_'.kind = "posterior" <=> returned'
  BY <1>1, <1>2
<1>9. returned' => P_' = [kind |-> "posterior", at |-> x_' - 1]
  BY <1>1, <1>2 DEF UpdateInv
<1>10. i' \in -1..maximum_iter' /\ x_' \in Nat /\ t' \in Nat /\ Nearest_Points' \in Int
  BY <1>1, <1>4 DEF UpdateInv
<1> HIDE DEF count
<1>11. QED
  BY <1>1, <1>5, <1>6, <1>7, <1>8, <1>9, <1>10 DEF UpdateInv

\* For any points and numbers of iterations, an update that always finds a point ends
\* with the covariance of its last step and matches searched for after a step; one
\* that gives up all points between two searches never reduces it.
THEOREM UpdatesComplete == Update!Spec => []UpdateCompletes
<1>1. Update!Init => UpdateInv
  BY UpdateInvInit, OdometryAssumption
<1>2. UpdateInv /\ [Update!Next]_(Update!vars) => UpdateInv'
  <2> SUFFICES ASSUME UpdateInv, [Update!Next]_(Update!vars) PROVE UpdateInv'
    OBVIOUS
  <2>1. CASE Update!Skip
    BY <2>1, SkipInv
  <2>2. ASSUME NEW small \in BOOLEAN, Update!Step(small) PROVE UpdateInv'
    BY <2>2, StepInv
  <2>3. CASE UNCHANGED Update!vars
    BY <2>3 DEF Update!vars, UpdateInv
  <2>4. QED
    BY <2>1, <2>2, <2>3 DEF Update!Next
<1>3. UpdateInv => UpdateCompletes
  BY DEF UpdateCompletes, UpdateInv, Update!UpdateCompletes, Update!Over
<1>4. QED
  BY <1>1, <1>2, <1>3, PTL DEF Update!Spec
-----------------------------------------------------------------------------
(* LocalMap *)

\* The lengths, in the terms of the proofs: half is half of what the sensor sees.
LEMMA MoveBounds ==
  ASSUME Cube!CubeFits
  PROVE  \E half \in Nat \ {0} :
            /\ DET_RANGE = 2 * half
            /\ 6 * half < cube_len
            /\ Cube!mov_dist \in Int
            /\ Cube!mov_dist >= half
            /\ Cube!mov_dist = half \/ 20 * Cube!mov_dist <= 9 * (cube_len - 6 * half)
<1> DEFINE half == DET_RANGE \div 2
           part == 9 * (cube_len - 3 * DET_RANGE)
<1>1. half \in Nat \ {0} /\ DET_RANGE = 2 * half
  BY DEF Cube!CubeFits
<1> HIDE DEF half
<1>2. 6 * half < cube_len /\ cube_len \in Nat
  BY <1>1 DEF Cube!CubeFits, Cube!MOV_THRESHOLD
<1>3. part = 9 * (cube_len - 6 * half) /\ part \in Int
  BY <1>1, <1>2
<1> HIDE DEF part
<1>4. Cube!mov_dist = (IF part > 20 * half THEN part ELSE 20 * half) \div 20
  BY <1>1, <1>2 DEF Cube!mov_dist, Cube!MOV_THRESHOLD, part
<1>5. CASE part > 20 * half
  <2>1. Cube!mov_dist = part \div 20
    BY <1>4, <1>5
  <2>2. part \div 20 \in Int /\ part \div 20 >= half /\ 20 * (part \div 20) <= part
    BY <1>1, <1>3, <1>5
  <2>3. QED
    BY <1>1, <1>2, <1>3, <2>1, <2>2
<1>6. CASE ~(part > 20 * half)
  <2>1. Cube!mov_dist = half
    BY <1>1, <1>4, <1>6
  <2>2. QED
    BY <1>1, <1>2, <2>1
<1>7. QED
  BY <1>5, <1>6

\* The cube, once there is one, has the sensor at least DET_RANGE inside on every
\* axis, and a slab is half open: the far side is never reached.
CubeInv ==
  /\ pos_lid \in [CubeAxes -> Int]
  /\ Localmap_Initialized \in BOOLEAN
  /\ LocalMap_Points \in [min : [CubeAxes -> Int], max : [CubeAxes -> Int]]
  /\ ~Localmap_Initialized => ikdtree = {} /\ ~due
  /\ Localmap_Initialized =>
        \A a \in CubeAxes :
          /\ LocalMap_Points.max[a] = LocalMap_Points.min[a] + cube_len
          /\ LocalMap_Points.min[a] + DET_RANGE <= pos_lid[a]
          /\ pos_lid[a] + DET_RANGE < LocalMap_Points.max[a]
          /\ \A q \in ikdtree : /\ q[a] \in Int
                                /\ LocalMap_Points.min[a] <= q[a]
                                /\ q[a] < LocalMap_Points.max[a]

LEMMA CubeInvInit == ASSUME Cube!Init PROVE CubeInv
<1>1. Cube!Origin \in [CubeAxes -> Int]
  BY DEF Cube!Origin
<1>2. LocalMap_Points \in [min : [CubeAxes -> Int], max : [CubeAxes -> Int]] /\ pos_lid \in [CubeAxes -> Int]
  BY <1>1 DEF Cube!Init
<1>3. ~Localmap_Initialized /\ Localmap_Initialized \in BOOLEAN /\ ikdtree = {} /\ ~due
  BY DEF Cube!Init
<1>4. QED
  BY <1>2, <1>3 DEF CubeInv

\* The side that comes near is moved away far enough, and the other not too far.
LEMMA ShiftKeepsAround ==
  ASSUME Cube!CubeFits, CubeInv, Localmap_Initialized,
         NEW p \in [CubeAxes -> Int], NEW a \in CubeAxes,
         2 * (p[a] - pos_lid[a]) \in -DET_RANGE..DET_RANGE
  PROVE  /\ Cube!Shift(p, a) \in Int
         /\ LocalMap_Points.min[a] + Cube!Shift(p, a) + DET_RANGE <= p[a]
         /\ p[a] + DET_RANGE < LocalMap_Points.max[a] + Cube!Shift(p, a)
         /\ Cube!Shift(p, a) # 0 => Cube!Shift(p, a) \in {Cube!mov_dist, -Cube!mov_dist}
         /\ Cube!mov_dist \in Nat \ {0}
<1> DEFINE low == LocalMap_Points.min[a]
           high == LocalMap_Points.max[a]
           shift == Cube!Shift(p, a)
           mov == Cube!mov_dist
<1>1. PICK half \in Nat \ {0} :
         /\ DET_RANGE = 2 * half
         /\ 6 * half < cube_len
         /\ mov \in Int
         /\ mov >= half
         /\ mov = half \/ 20 * mov <= 9 * (cube_len - 6 * half)
  BY MoveBounds
<1>2. /\ low \in Int /\ high \in Int /\ high = low + cube_len /\ cube_len \in Nat
      /\ pos_lid[a] \in Int /\ p[a] \in Int
      /\ low + 2 * half <= pos_lid[a] /\ pos_lid[a] + 2 * half < high
  BY <1>1 DEF CubeInv, Cube!CubeFits
<1>3. low + half <= p[a] /\ p[a] + half < high
  BY <1>1, <1>2
<1>4. shift = IF p[a] - low <= 3 * half THEN -mov ELSE IF high - p[a] <= 3 * half THEN mov ELSE 0
  <2>1. Cube!NearMin(p, a) <=> p[a] - low <= 3 * half
    BY <1>1, <1>2, <1>3 DEF Cube!NearMin, Cube!Abs, Cube!MOV_THRESHOLD
  <2>2. Cube!NearMax(p, a) <=> high - p[a] <= 3 * half
    BY <1>1, <1>2, <1>3 DEF Cube!NearMax, Cube!Abs, Cube!MOV_THRESHOLD
  <2>3. QED
    BY <2>1, <2>2 DEF Cube!Shift
<1> HIDE DEF low, high, shift, mov
<1>5. CASE p[a] - low <= 3 * half
  <2>1. shift = -mov
    BY <1>4, <1>5
  <2>2. low + shift + 2 * half <= p[a]
    BY <1>1, <1>2, <1>3, <2>1
  <2>3. p[a] + 2 * half < high + shift
    BY <1>1, <1>2, <1>5, <2>1
  <2>4. QED
    BY <1>1, <2>1, <2>2, <2>3 DEF low, high, shift, mov
<1>6. CASE ~(p[a] - low <= 3 * half) /\ high - p[a] <= 3 * half
  <2>1. shift = mov
    BY <1>4, <1>6
  <2>2. low + shift + 2 * half <= p[a]
    BY <1>1, <1>2, <1>6, <2>1
  <2>3. p[a] + 2 * half < high + shift
    BY <1>1, <1>2, <1>3, <2>1
  <2>4. QED
    BY <1>1, <2>1, <2>2, <2>3 DEF low, high, shift, mov
<1>7. CASE ~(p[a] - low <= 3 * half) /\ ~(high - p[a] <= 3 * half)
  <2>1. shift = 0
    BY <1>4, <1>7
  <2>2. low + shift + 2 * half <= p[a] /\ p[a] + 2 * half < high + shift
    BY <1>1, <1>2, <1>7, <2>1
  <2>3. QED
    BY <1>1, <2>1, <2>2 DEF low, high, shift, mov
<1>8. QED
  BY <1>5, <1>6, <1>7

\* The cube is moved: what stays in the map is in no slab, and so in the moved cube.
LEMMA SegmentInv ==
  ASSUME Cube!CubeFits, CubeInv, NEW p \in [CubeAxes -> Int],
         \A a \in CubeAxes : 2 * (p[a] - pos_lid[a]) \in -DET_RANGE..DET_RANGE,
         Cube!lasermap_fov_segment(p)
  PROVE  CubeInv'
<1> DEFINE shift(a) == Cube!Shift(p, a)
<1>1. pos_lid' = p /\ Localmap_Initialized' /\ Localmap_Initialized' \in BOOLEAN
  BY DEF Cube!lasermap_fov_segment
<1>2. CASE ~Localmap_Initialized
  <2>1. /\ LocalMap_Points' = [min |-> [a \in CubeAxes |-> p[a] - cube_len \div 2],
                               max |-> [a \in CubeAxes |-> p[a] + cube_len \div 2]]
        /\ ikdtree' = {}
    BY <1>2 DEF Cube!lasermap_fov_segment, CubeInv
  <2>2. PICK side \in Nat : cube_len = 2 * side /\ cube_len \div 2 = side /\ DET_RANGE < side
    <3>1. PICK half \in Nat \ {0} : DET_RANGE = 2 * half /\ 6 * half < cube_len
      BY MoveBounds
    <3>2. cube_len \div 2 \in Nat /\ cube_len = 2 * (cube_len \div 2)
      BY DEF Cube!CubeFits
    <3>3. DET_RANGE < cube_len \div 2
      BY <3>1, <3>2
    <3>4. QED
      BY <3>2, <3>3
  <2>3. LocalMap_Points' \in [min : [CubeAxes -> Int], max : [CubeAxes -> Int]]
    BY <2>1, <2>2
  <2>4. ASSUME NEW a \in CubeAxes
        PROVE  /\ LocalMap_Points'.max[a] = LocalMap_Points'.min[a] + cube_len
               /\ LocalMap_Points'.min[a] + DET_RANGE <= p[a]
               /\ p[a] + DET_RANGE < LocalMap_Points'.max[a]
    <3>1. LocalMap_Points'.max[a] = p[a] + side /\ LocalMap_Points'.min[a] = p[a] - side
      BY <2>1, <2>2
    <3>2. p[a] \in Int /\ DET_RANGE \in Nat
      BY DEF Cube!CubeFits
    <3>3. QED
      BY <2>2, <3>1, <3>2
  <2>5. QED
    BY <1>1, <2>1, <2>3, <2>4 DEF CubeInv
<1>3. CASE Localmap_Initialized
  <2>1. /\ LocalMap_Points' = [min |-> [a \in CubeAxes |-> LocalMap_Points.min[a] + shift(a)],
                               max |-> [a \in CubeAxes |-> LocalMap_Points.max[a] + shift(a)]]
        /\ ikdtree' = {q \in ikdtree : \A box \in Cube!cub_needrm(p) : ~Cube!InBox(q, box)}
    BY <1>3 DEF Cube!lasermap_fov_segment
  <2>2. ASSUME NEW a \in CubeAxes
        PROVE  /\ shift(a) \in Int
               /\ LocalMap_Points.min[a] + shift(a) + DET_RANGE <= p[a]
               /\ p[a] + DET_RANGE < LocalMap_Points.max[a] + shift(a)
               /\ shift(a) # 0 => shift(a) \in {Cube!mov_dist, -Cube!mov_dist}
               /\ Cube!mov_dist \in Nat \ {0}
    BY <1>3, ShiftKeepsAround
  <2> HIDE DEF shift
  <2>3. /\ LocalMap_Points.min \in [CubeAxes -> Int] /\ LocalMap_Points.max \in [CubeAxes -> Int]
        /\ cube_len \in Nat
    BY DEF CubeInv, Cube!CubeFits
  <2>4. LocalMap_Points' \in [min : [CubeAxes -> Int], max : [CubeAxes -> Int]]
    BY <2>1, <2>2, <2>3
  <2>5. ASSUME NEW a \in CubeAxes
        PROVE  /\ LocalMap_Points'.min[a] = LocalMap_Points.min[a] + shift(a)
               /\ LocalMap_Points'.max[a] = LocalMap_Points.max[a] + shift(a)
    BY <2>1
  <2>6. ASSUME NEW a \in CubeAxes
        PROVE  /\ LocalMap_Points'.max[a] = LocalMap_Points'.min[a] + cube_len
               /\ LocalMap_Points'.min[a] + DET_RANGE <= p[a]
               /\ p[a] + DET_RANGE < LocalMap_Points'.max[a]
    BY <1>3, <2>2, <2>3, <2>5 DEF CubeInv
  <2>7. ASSUME NEW a \in CubeAxes, NEW q \in ikdtree'
        PROVE  /\ q[a] \in Int
               /\ LocalMap_Points.min[a] + shift(a) <= q[a]
               /\ q[a] < LocalMap_Points.max[a] + shift(a)
    <3>1. /\ q \in ikdtree
          /\ \A b \in CubeAxes : q[b] \in Int /\ LocalMap_Points.min[b] <= q[b]
                             /\ q[b] < LocalMap_Points.max[b]
      BY <1>3, <2>1 DEF CubeInv
    <3>2. CASE shift(a) = 0
      BY <2>3, <3>1, <3>2
    <3>3. CASE shift(a) # 0
      <4>1. ~Cube!InBox(q, Cube!Slab(p, a))
        BY <2>1, <3>3 DEF Cube!cub_needrm, shift
      <4>2. CASE shift(a) < 0
        <5> DEFINE slab == [LocalMap_Points EXCEPT
                              !.min[a] = LocalMap_Points.max[a] - Cube!mov_dist]
        <5>1. Cube!Slab(p, a) = slab
          BY <4>2 DEF Cube!Slab, shift
        <5>2. /\ slab.max = LocalMap_Points.max
              /\ slab.min = [LocalMap_Points.min EXCEPT
                               ![a] = LocalMap_Points.max[a] - Cube!mov_dist]
          BY DEF CubeInv
        <5> HIDE DEF slab
        <5>3. ~(LocalMap_Points.max[a] - Cube!mov_dist <= q[a])
          BY <2>3, <3>1, <4>1, <5>1, <5>2 DEF Cube!InBox
        <5>4. shift(a) = -Cube!mov_dist
          BY <2>2, <4>2
        <5>5. QED
          BY <2>2, <2>3, <3>1, <5>3, <5>4
      <4>3. CASE ~(shift(a) < 0)
        <5> DEFINE slab == [LocalMap_Points EXCEPT
                              !.max[a] = LocalMap_Points.min[a] + Cube!mov_dist]
        <5>1. Cube!Slab(p, a) = slab
          BY <4>3 DEF Cube!Slab, shift
        <5>2. /\ slab.min = LocalMap_Points.min
              /\ slab.max = [LocalMap_Points.max EXCEPT
                               ![a] = LocalMap_Points.min[a] + Cube!mov_dist]
          BY DEF CubeInv
        <5> HIDE DEF slab
        <5>3. ~(q[a] < LocalMap_Points.min[a] + Cube!mov_dist)
          BY <2>3, <3>1, <4>1, <5>1, <5>2 DEF Cube!InBox
        <5>4. shift(a) = Cube!mov_dist
          BY <2>2, <3>3, <4>3
        <5>5. QED
          BY <2>2, <2>3, <3>1, <5>3, <5>4
      <4>4. QED
        BY <4>2, <4>3
    <3>4. QED
      BY <3>2, <3>3
  <2>8. QED
    BY <1>1, <2>4, <2>5, <2>6, <2>7 DEF CubeInv
<1>4. QED
  BY <1>2, <1>3

\* What is added lies within what the sensor sees.
LEMMA AddedInv ==
  ASSUME Cube!CubeFits, CubeInv, NEW S \in SUBSET Sights, Cube!Added(S) PROVE CubeInv'
<1>1. /\ due /\ Localmap_Initialized
      /\ ikdtree' = ikdtree \cup {Cube!Add(pos_lid, sight) : sight \in S}
      /\ UNCHANGED <<pos_lid, Localmap_Initialized, LocalMap_Points>>
  BY DEF Cube!Added, CubeInv
<1>2. ASSUME NEW sight \in S, NEW a \in CubeAxes
      PROVE  /\ Cube!Add(pos_lid, sight)[a] \in Int
             /\ LocalMap_Points.min[a] <= Cube!Add(pos_lid, sight)[a]
             /\ Cube!Add(pos_lid, sight)[a] < LocalMap_Points.max[a]
  <2>1. Cube!Add(pos_lid, sight)[a] = pos_lid[a] + sight[a]
    BY DEF Cube!Add
  <2>2. sight[a] \in -DET_RANGE..DET_RANGE /\ DET_RANGE \in Nat
    BY DEF Cube!CubeFits
  <2>3. /\ pos_lid[a] \in Int /\ LocalMap_Points.min[a] \in Int /\ LocalMap_Points.max[a] \in Int
        /\ LocalMap_Points.min[a] + DET_RANGE <= pos_lid[a]
        /\ pos_lid[a] + DET_RANGE < LocalMap_Points.max[a]
    BY <1>1 DEF CubeInv
  <2>4. QED
    BY <2>1, <2>2, <2>3
<1>3. ASSUME NEW q \in ikdtree', NEW a \in CubeAxes
      PROVE  /\ q[a] \in Int /\ LocalMap_Points.min[a] <= q[a] /\ q[a] < LocalMap_Points.max[a]
  BY <1>1, <1>2 DEF CubeInv
<1>4. QED
  BY <1>1, <1>3 DEF CubeInv

\* Whatever the sensor's way, by at most half of DET_RANGE between two scans, the cube
\* is around all it can see and the map holds no point outside the cube.
THEOREM MapStaysInCube == Cube!Spec => []MapInsideCube
<1> USE OdometryAssumption
<1>1. Cube!Init => CubeInv
  BY CubeInvInit
<1>2. CubeInv /\ [Cube!Next]_(Cube!vars) => CubeInv'
  <2> SUFFICES ASSUME CubeInv, [Cube!Next]_(Cube!vars) PROVE CubeInv'
    OBVIOUS
  <2>1. ASSUME NEW step \in Steps, Cube!lasermap_fov_segment(Cube!Add(pos_lid, step))
        PROVE  CubeInv'
    <3>1. Cube!Add(pos_lid, step) \in [CubeAxes -> Int]
      BY DEF Cube!Add, Cube!CubeFits, CubeInv
    <3>2. ASSUME NEW a \in CubeAxes
          PROVE  2 * (Cube!Add(pos_lid, step)[a] - pos_lid[a]) \in -DET_RANGE..DET_RANGE
      <4>1. step[a] \in Int /\ pos_lid[a] \in Int /\ 2 * step[a] \in -DET_RANGE..DET_RANGE
        BY DEF Cube!CubeFits, CubeInv
      <4>2. Cube!Add(pos_lid, step)[a] - pos_lid[a] = step[a]
        BY <4>1 DEF Cube!Add
      <4>3. QED
        BY <4>1, <4>2
    <3>3. QED
      BY <2>1, <3>1, <3>2, SegmentInv
  <2>2. ASSUME NEW S \in SUBSET Sights, Cube!Added(S) PROVE CubeInv'
    BY <2>2, AddedInv
  <2>3. CASE UNCHANGED Cube!vars
    BY <2>3 DEF Cube!vars, CubeInv
  <2>4. QED
    BY <2>1, <2>2, <2>3 DEF Cube!Next
<1>3. CubeInv => MapInsideCube
  <2> SUFFICES ASSUME CubeInv, Localmap_Initialized, NEW a \in CubeAxes
               PROVE  /\ pos_lid[a] - DET_RANGE >= LocalMap_Points.min[a]
                      /\ pos_lid[a] + DET_RANGE <= LocalMap_Points.max[a]
                      /\ \A q \in ikdtree : q[a] \in LocalMap_Points.min[a]..LocalMap_Points.max[a]
    BY DEF MapInsideCube, Cube!MapInsideCube
  <2>1. /\ pos_lid[a] \in Int /\ LocalMap_Points.min[a] \in Int /\ LocalMap_Points.max[a] \in Int
        /\ DET_RANGE \in Nat
    BY DEF CubeInv, Cube!CubeFits
  <2>2. QED
    BY <2>1 DEF CubeInv
<1>4. QED
  BY <1>1, <1>2, <1>3, PTL DEF Cube!Spec
-----------------------------------------------------------------------------
(* Undistortion *)

\* Neighbours in order are in order however far apart they are.
LEMMA SortedThroughout ==
  ASSUME NEW s \in Seq(Int), \A k \in 1..(Len(s) - 1) : s[k] <= s[k + 1],
         NEW p \in DOMAIN s
  PROVE  \A q \in DOMAIN s : p <= q => s[p] <= s[q]
<1> DEFINE Bad == {q \in DOMAIN s : p <= q /\ ~(s[p] <= s[q])}
<1>1. SUFFICES ASSUME Bad # {} PROVE FALSE
  OBVIOUS
<1>2. Bad \subseteq Nat /\ DOMAIN s = 1..Len(s) /\ Len(s) \in Nat /\ \A k \in DOMAIN s : s[k] \in Int
  OBVIOUS
<1>3. PICK q \in Bad : \A n \in Bad : q <= n
  <2> HIDE DEF Bad
  <2>1. QED
    BY <1>1, <1>2, LeastOf
<1>4. q \in 1..Len(s) /\ p \in 1..Len(s) /\ p < q
  BY <1>2
<1>5. q - 1 \in DOMAIN s /\ p <= q - 1 /\ q - 1 \notin Bad
  BY <1>2, <1>3, <1>4
<1>6. s[p] <= s[q - 1]
  BY <1>5
<1>7. s[q - 1] <= s[q]
  <2>1. q - 1 \in 1..(Len(s) - 1) /\ (q - 1) + 1 = q
    BY <1>2, <1>4
  <2>2. QED
    BY <2>1
<1>8. s[p] <= s[q]
  BY <1>2, <1>4, <1>5, <1>6, <1>7
<1>9. QED
  BY <1>8

\* The segments the pass is through with.
Walked == it_kp..(Len(offset_time) - 1)

MovedOnce(p) ==
  \E k \in Motion!Begun(p) : compensated[p] = <<k>> /\ \A m \in Motion!Begun(p) : m <= k

\* The pass has moved the points after it_pcl, and none before it but perhaps the
\* first, which none of the walked segments was for.
MotionTypeOK ==
  /\ curvature \in Seq(Int) /\ offset_time \in Seq(Int) /\ curvature # <<>>
  /\ \A p, q \in DOMAIN curvature : p <= q => curvature[p] <= curvature[q]
  /\ it_kp \in DOMAIN offset_time /\ it_pcl \in DOMAIN curvature
  /\ inner \in BOOLEAN /\ (inner => it_kp # 1)
  /\ compensated \in [DOMAIN curvature -> Seq(Nat)]

OthersMoved ==
  \A p \in DOMAIN curvature :
     IF p > it_pcl THEN MovedOnce(p)
     ELSE p # 1 => compensated[p] = <<>> /\ Motion!Begun(p) \cap Walked = {}

FirstMoved ==
  /\ {compensated[1][k] : k \in DOMAIN compensated[1]} = Motion!Begun(1) \cap Walked
  /\ Len(compensated[1]) = Cardinality(Motion!Begun(1) \cap Walked)
  /\ compensated[1] # <<>> =>
        it_pcl = 1 /\ \A k \in DOMAIN compensated[1] : compensated[1][k] <= compensated[1][1]

MotionInv == MotionTypeOK /\ OthersMoved /\ FirstMoved

LEMMA MotionTypes ==
  ASSUME MotionTypeOK
  PROVE  /\ Len(curvature) \in Nat /\ DOMAIN curvature = 1..Len(curvature)
         /\ Len(curvature) # 0 /\ \A k \in DOMAIN curvature : curvature[k] \in Int
         /\ Len(offset_time) \in Nat /\ DOMAIN offset_time = 1..Len(offset_time)
         /\ \A k \in DOMAIN offset_time : offset_time[k] \in Int
         /\ it_kp \in 1..Len(offset_time) /\ it_pcl \in 1..Len(curvature)
         /\ it_kp \in Int /\ it_pcl \in Int
<1>1. Len(curvature) \in Nat /\ DOMAIN curvature = 1..Len(curvature)
  BY DEF MotionTypeOK
<1>2. Len(curvature) # 0
  BY DEF MotionTypeOK
<1>3. Len(offset_time) \in Nat /\ DOMAIN offset_time = 1..Len(offset_time)
  BY DEF MotionTypeOK
<1>4. \A k \in DOMAIN curvature : curvature[k] \in Int
  BY DEF MotionTypeOK
<1>5. \A k \in DOMAIN offset_time : offset_time[k] \in Int
  BY DEF MotionTypeOK
<1>6. it_kp \in DOMAIN offset_time /\ it_pcl \in DOMAIN curvature
  BY DEF MotionTypeOK
<1>7. QED
  BY <1>1, <1>2, <1>3, <1>4, <1>5, <1>6

LEMMA BoundedSeq ==
  ASSUME NEW S, S \subseteq Int, NEW n \in Nat, NEW s \in Motion!SeqOf(S, n) PROVE s \in Seq(Int)
<1>1. PICK m \in 0..n : s \in [1..m -> S]
  BY DEF Motion!SeqOf
<1>2. m \in Nat
  BY <1>1
<1>3. s \in [1..m -> Int]
  <2>1. s = [k \in 1..m |-> s[k]] /\ \A k \in 1..m : s[k] \in Int
    BY <1>1
  <2>2. QED
    BY <2>1
<1>4. QED
  BY <1>2, <1>3

LEMMA MotionInvInit == ASSUME Motion!MotionConstants, Motion!Init PROVE MotionInv
<1>1. curvature \in Seq(Int) /\ curvature # <<>>
  <2>1. curvature \in Motion!SeqOf(PointTimes, MaxScanPoints) /\ curvature # <<>>
    BY DEF Motion!Init
  <2>2. QED
    BY <2>1, BoundedSeq DEF Motion!MotionConstants
<1>2. offset_time \in Seq(Int) /\ Len(offset_time) >= 1
  <2>1. PICK samples \in Motion!SeqOf(SampleTimes, MaxSamples) : offset_time = <<0>> \o samples
    BY DEF Motion!Init
  <2>2. samples \in Seq(Int)
    BY <2>1, BoundedSeq DEF Motion!MotionConstants
  <2>3. QED
    BY <2>1, <2>2
<1>3. \A p, q \in DOMAIN curvature : p <= q => curvature[p] <= curvature[q]
  <2>1. \A k \in 1..(Len(curvature) - 1) : curvature[k] <= curvature[k + 1]
    BY DEF Motion!Init, Motion!Sorted
  <2>2. QED
    BY <1>1, <2>1, SortedThroughout
<1>4. /\ it_kp = Len(offset_time) /\ it_pcl = Len(curvature) /\ inner = FALSE
      /\ compensated = [p \in DOMAIN curvature |-> <<>>]
  BY DEF Motion!Init
<1>5. Walked = {}
  BY <1>2, <1>4 DEF Walked
<1>6. 1 \in DOMAIN curvature /\ it_pcl \in DOMAIN curvature /\ it_kp \in DOMAIN offset_time
      /\ \A p \in DOMAIN curvature : ~(p > it_pcl)
  BY <1>1, <1>2, <1>4
<1>7. compensated[1] = <<>> /\ compensated \in [DOMAIN curvature -> Seq(Nat)]
      /\ \A p \in DOMAIN curvature : compensated[p] = <<>>
  BY <1>4, <1>6
<1>8. Cardinality(Motion!Begun(1) \cap Walked) = 0 /\ Motion!Begun(1) \cap Walked = {}
  BY <1>5, FS_EmptySet
<1>9. {compensated[1][k] : k \in DOMAIN compensated[1]} = {} /\ Len(compensated[1]) = 0
  BY <1>7
<1>10. inner \in BOOLEAN /\ ~inner
  BY <1>4
<1>11. QED
  BY <1>1, <1>2, <1>3, <1>5, <1>6, <1>7, <1>8, <1>9, <1>10 DEF MotionInv, MotionTypeOK, OthersMoved, FirstMoved

LEMMA BegunStays ==
  ASSUME UNCHANGED <<curvature, offset_time>>, NEW p PROVE Motion!Begun(p)' = Motion!Begun(p)
  BY DEF Motion!Begun

LEMMA LeaveInv == ASSUME MotionInv, Motion!Leave PROVE MotionInv'
<1> DEFINE last == it_kp - 1
<1>1. /\ it_kp' = last /\ inner' = FALSE /\ inner
      /\ UNCHANGED <<curvature, offset_time, it_pcl, compensated>>
      /\ ~(curvature[it_pcl] > offset_time[last])
  BY DEF Motion!Leave, Motion!Reaches, Motion!head
<1>2. /\ it_kp \in 1..Len(offset_time) /\ it_kp # 1 /\ Len(offset_time) \in Nat
      /\ \A k \in 1..Len(offset_time) : offset_time[k] \in Int
      /\ \A k \in DOMAIN curvature : curvature[k] \in Int
  <2>1. MotionTypeOK /\ it_kp # 1
    BY <1>1 DEF MotionInv, MotionTypeOK
  <2>2. QED
    BY <2>1, MotionTypes
<1>3. last \in DOMAIN offset_time /\ Walked' = Walked \cup {last}
  BY <1>1, <1>2 DEF Walked
<1>4. ASSUME NEW p \in DOMAIN curvature, p <= it_pcl
      PROVE  last \notin Motion!Begun(p)
  <2>1. curvature[p] <= curvature[it_pcl]
    BY <1>4 DEF MotionInv, MotionTypeOK, OthersMoved, FirstMoved
  <2>2. QED
    BY <1>1, <1>2, <1>3, <2>1 DEF MotionInv, MotionTypeOK, OthersMoved, FirstMoved, Motion!Begun
<1> HIDE DEF last
<1>5. \A p \in DOMAIN curvature : p <= it_pcl =>
        Motion!Begun(p)' \cap Walked' = Motion!Begun(p) \cap Walked
  BY <1>1, <1>3, <1>4, BegunStays
<1>6. 1 \in DOMAIN curvature /\ 1 <= it_pcl
  BY MotionTypes DEF MotionInv
<1>7. \A p \in DOMAIN curvature : MovedOnce(p)' <=> MovedOnce(p)
  BY <1>1, BegunStays DEF MovedOnce
<1>8. \A p \in DOMAIN curvature : p <= it_pcl \/ p > it_pcl
  BY MotionTypes DEF MotionInv
<1>9. \A p \in DOMAIN curvature :
        IF p > it_pcl THEN MovedOnce(p)'
        ELSE p # 1 => compensated[p] = <<>> /\ Motion!Begun(p)' \cap Walked' = {}
  BY <1>5, <1>7, <1>8 DEF MotionInv, MotionTypeOK, OthersMoved, FirstMoved
<1>10. inner' \in BOOLEAN /\ ~inner' /\ it_kp' \in DOMAIN offset_time
  BY <1>1, <1>3
<1>11. MotionTypeOK'
  BY <1>1, <1>10 DEF MotionInv, MotionTypeOK
<1>12. OthersMoved'
  BY <1>1, <1>9 DEF OthersMoved
<1>13. FirstMoved'
  BY <1>1, <1>5, <1>6 DEF MotionInv, FirstMoved
<1>14. QED
  BY <1>11, <1>12, <1>13 DEF MotionInv

LEMMA CompensateInv == ASSUME MotionInv, Motion!Compensate PROVE MotionInv'
<1>1. PICK here \in DOMAIN curvature, last \in Int : here = it_pcl /\ last = it_kp - 1
  BY DEF MotionInv, MotionTypeOK, OthersMoved, FirstMoved
<1>2. /\ inner /\ curvature[here] > offset_time[last]
      /\ UNCHANGED <<curvature, offset_time>>
      /\ compensated' = [compensated EXCEPT ![here] = Append(compensated[here], last)]
      /\ IF here = 1
         THEN inner' = FALSE /\ it_kp' = last /\ it_pcl' = here
         ELSE it_pcl' = here - 1 /\ inner' = inner /\ it_kp' = it_kp
  BY <1>1 DEF Motion!Compensate, Motion!Reaches, Motion!head
<1>3. /\ it_kp \in 1..Len(offset_time) /\ it_kp # 1 /\ Len(offset_time) \in Nat
      /\ DOMAIN offset_time = 1..Len(offset_time)
      /\ DOMAIN curvature = 1..Len(curvature) /\ Len(curvature) \in Nat
      /\ here \in 1..Len(curvature)
  <2>1. MotionTypeOK /\ it_kp # 1
    BY <1>2 DEF MotionInv, MotionTypeOK
  <2>2. QED
    BY <1>1, <2>1, MotionTypes
<1>4. /\ last \in DOMAIN offset_time /\ last \in Nat
      /\ last \in Motion!Begun(here) /\ last \notin Walked
  BY <1>1, <1>2, <1>3 DEF Walked, Motion!Begun
<1>5. compensated' \in [DOMAIN curvature -> Seq(Nat)]
  BY <1>2, <1>4 DEF MotionInv, MotionTypeOK, OthersMoved, FirstMoved
<1>6. \A p \in DOMAIN curvature : p # here => compensated'[p] = compensated[p]
  BY <1>2 DEF MotionInv, MotionTypeOK, OthersMoved, FirstMoved
<1>7. compensated'[here] = Append(compensated[here], last) /\ compensated[here] \in Seq(Nat)
  BY <1>2 DEF MotionInv, MotionTypeOK, OthersMoved, FirstMoved
<1>8. \A k \in Motion!Begun(here) : k \in Walked \/ k <= last
  BY <1>1, <1>3 DEF Walked, Motion!Begun
<1>9. \A p \in DOMAIN curvature : Motion!Begun(p)' = Motion!Begun(p)
  BY <1>2, BegunStays
<1>10. CASE here # 1
  <2>1. it_pcl' = here - 1 /\ inner' = inner /\ it_kp' = it_kp /\ Walked' = Walked
    BY <1>2, <1>10 DEF Walked
  <2>2. compensated[here] = <<>> /\ Motion!Begun(here) \cap Walked = {}
    BY <1>1, <1>3, <1>10 DEF MotionInv, MotionTypeOK, OthersMoved, FirstMoved
  <2>3. MovedOnce(here)'
    <3>1. compensated'[here] = <<last>>
      BY <1>4, <1>7, <2>2
    <3>2. \A k \in Motion!Begun(here) : k <= last
      BY <1>8, <2>2
    <3>3. \E k \in Motion!Begun(here) :
             compensated'[here] = <<k>> /\ \A m \in Motion!Begun(here) : m <= k
      BY <1>4, <3>1, <3>2
    <3>4. QED
      BY <1>9, <3>3 DEF MovedOnce
  <2>4. ASSUME NEW p \in DOMAIN curvature
        PROVE  IF p > here - 1 THEN MovedOnce(p)'
               ELSE p # 1 => compensated'[p] = <<>> /\ Motion!Begun(p)' \cap Walked' = {}
    <3>1. CASE p = here
      BY <1>3, <2>3, <3>1
    <3>2. CASE p > here
      <4>1. MovedOnce(p) /\ p > here - 1 /\ p # here
        BY <1>1, <1>3, <3>2 DEF MotionInv, MotionTypeOK, OthersMoved, FirstMoved
      <4>2. MovedOnce(p)'
        BY <1>6, <1>9, <4>1 DEF MovedOnce
      <4>3. QED
        BY <4>1, <4>2
    <3>3. CASE ~(p = here) /\ ~(p > here)
      <4>1. ~(p > here - 1) /\ ~(p > it_pcl)
        BY <1>1, <1>3, <3>3
      <4>2. p # 1 => compensated[p] = <<>> /\ Motion!Begun(p) \cap Walked = {}
        BY <4>1 DEF MotionInv, MotionTypeOK, OthersMoved, FirstMoved
      <4>3. compensated'[p] = compensated[p]
        BY <1>6, <3>3
      <4>4. QED
        BY <1>9, <2>1, <4>1, <4>2, <4>3
    <3>4. QED
      BY <3>1, <3>2, <3>3
  <2>5. 1 \in DOMAIN curvature /\ compensated'[1] = compensated[1] /\ compensated[1] = <<>>
    BY <1>1, <1>3, <1>6, <1>10 DEF MotionInv, FirstMoved
  <2>6. here - 1 \in DOMAIN curvature
    BY <1>3, <1>10
  <2>7. MotionTypeOK'
    BY <1>2, <1>5, <2>1, <2>6 DEF MotionInv, MotionTypeOK
  <2>8. OthersMoved'
    BY <1>2, <2>1, <2>4 DEF OthersMoved
  <2>9. FirstMoved'
    BY <1>9, <2>1, <2>5 DEF MotionInv, FirstMoved
  <2>10. QED
    BY <2>7, <2>8, <2>9 DEF MotionInv
<1>11. CASE here = 1
  <2>1. it_pcl' = 1 /\ inner' = FALSE /\ it_kp' = last
    BY <1>2, <1>11
  <2>2. Walked' = Walked \cup {last}
    BY <1>1, <1>2, <1>3, <2>1 DEF Walked
  <2> DEFINE before == Motion!Begun(1) \cap Walked
             first == compensated[1]
  <2>3. Motion!Begun(1)' \cap Walked' = before \cup {last} /\ last \notin before
    BY <1>4, <1>9, <1>11, <2>2
  <2>4. /\ first \in Seq(Nat) /\ compensated'[1] = Append(first, last)
        /\ {first[k] : k \in DOMAIN first} = before /\ Len(first) = Cardinality(before)
        /\ \A k \in DOMAIN first : first[k] <= first[1]
    <3>1. first \in Seq(Nat) /\ (first = <<>> => DOMAIN first = {})
      BY <1>7, <1>11
    <3>2. QED
      BY <1>7, <1>11, <3>1 DEF MotionInv, FirstMoved
  <2>5. IsFiniteSet(before)
    <3>1. IsFiniteSet(1..Len(offset_time))
      BY <1>3, FS_Interval
    <3>2. before \subseteq 1..Len(offset_time)
      BY <1>3 DEF Walked
    <3>3. QED
      BY <3>1, <3>2, FS_Subset
  <2>6. \A k \in before : last <= k
    BY <1>1, <1>3 DEF Walked
  <2> HIDE DEF first, before
  <2>7. Cardinality(before \cup {last}) = Cardinality(before) + 1
    BY <2>3, <2>5, FS_AddElement
  <2>8. /\ Len(compensated'[1]) = Len(first) + 1
        /\ DOMAIN compensated'[1] = DOMAIN first \cup {Len(first) + 1}
        /\ \A k \in DOMAIN first : compensated'[1][k] = first[k]
        /\ compensated'[1][Len(first) + 1] = last
        /\ Len(first) \in Nat /\ Len(first) + 1 \notin DOMAIN first
    BY <1>4, <2>4
  <2>9. {compensated'[1][k] : k \in DOMAIN compensated'[1]} = before \cup {last}
    BY <2>4, <2>8
  <2>10. ASSUME NEW k \in DOMAIN compensated'[1]
         PROVE  compensated'[1][k] <= compensated'[1][1]
    <3>1. CASE first = <<>>
      <4>1. Len(first) = 0 /\ DOMAIN first = {}
        BY <3>1
      <4>2. k = 1 /\ compensated'[1][1] = last
        BY <2>8, <4>1
      <4>3. QED
        BY <1>4, <4>2
    <3>2. CASE first # <<>>
      <4>1. 1 \in DOMAIN first /\ compensated'[1][1] = first[1] /\ first[1] \in before
        BY <2>4, <2>8, <3>2
      <4>2. CASE k \in DOMAIN first
        BY <2>4, <2>8, <4>1, <4>2
      <4>3. CASE k = Len(first) + 1
        BY <2>6, <2>8, <4>1, <4>3
      <4>4. QED
        BY <2>8, <4>2, <4>3
    <3>3. QED
      BY <3>1, <3>2
  <2>11. ASSUME NEW p \in DOMAIN curvature
         PROVE  IF p > 1 THEN MovedOnce(p)'
                ELSE p # 1 => compensated'[p] = <<>> /\ Motion!Begun(p)' \cap Walked' = {}
    <3>1. CASE p > 1
      <4>1. MovedOnce(p) /\ compensated'[p] = compensated[p]
        BY <1>1, <1>3, <1>6, <1>11, <3>1 DEF MotionInv, MotionTypeOK, OthersMoved, FirstMoved
      <4>2. QED
        BY <1>9, <3>1, <4>1 DEF MovedOnce
    <3>2. CASE ~(p > 1)
      BY <1>3, <3>2
    <3>3. QED
      BY <3>1, <3>2
  <2>12. Len(compensated'[1]) = Cardinality(before \cup {last})
    BY <2>4, <2>7, <2>8
  <2>13. last \in DOMAIN offset_time' /\ it_pcl' \in DOMAIN curvature' /\ inner' \in BOOLEAN /\ ~inner'
    BY <1>2, <1>3, <1>4, <1>11, <2>1
  <2>14. MotionTypeOK'
    BY <1>2, <1>5, <2>13 DEF MotionInv, MotionTypeOK
  <2>15. OthersMoved'
    BY <1>2, <2>1, <2>11 DEF OthersMoved
  <2>16. FirstMoved'
    BY <2>1, <2>3, <2>9, <2>10, <2>12 DEF FirstMoved
  <2>17. QED
    BY <2>14, <2>15, <2>16 DEF MotionInv
<1>12. QED
  BY <1>10, <1>11

LEMMA EnterInv == ASSUME MotionInv, Motion!Enter PROVE MotionInv'
<1>1. it_kp # 1 /\ inner' = TRUE /\ UNCHANGED <<curvature, offset_time, it_kp, it_pcl, compensated>>
  BY DEF Motion!Enter
<1>2. Walked' = Walked /\ \A p : Motion!Begun(p)' = Motion!Begun(p)
  BY <1>1, BegunStays DEF Walked
<1>3. \A p : MovedOnce(p)' <=> MovedOnce(p)
  BY <1>1, <1>2 DEF MovedOnce
<1>4. inner' \in BOOLEAN /\ (inner' => it_kp' # 1)
  BY <1>1
<1>5. MotionTypeOK'
  BY <1>1, <1>4 DEF MotionInv, MotionTypeOK
<1>6. OthersMoved' /\ FirstMoved'
  BY <1>1, <1>2, <1>3 DEF MotionInv, OthersMoved, FirstMoved
<1>7. QED
  BY <1>5, <1>6 DEF MotionInv

\* The instance's cardinality is the one the library's theorems are about.
LEMMA SameCardinality == \A S : Motion!Cardinality(S) = Cardinality(S)
  BY DEF Motion!Cardinality, Cardinality

LEMMA PassIsOver == ASSUME MotionInv PROVE Motion!MovedByItsSegment
<1> SUFFICES ASSUME it_kp = 1, NEW p \in DOMAIN curvature
             PROVE  LET last == CHOOSE k \in Motion!Begun(p) : \A m \in Motion!Begun(p) : m <= k
                    IN  IF Motion!Begun(p) = {} THEN compensated[p] = <<>>
                        ELSE IF p # 1 THEN compensated[p] = <<last>>
                        ELSE /\ compensated[p][1] = last
                             /\ {compensated[p][k] : k \in DOMAIN compensated[p]} = Motion!Begun(p)
                             /\ Len(compensated[p]) = Cardinality(Motion!Begun(p))
  BY SameCardinality DEF Motion!MovedByItsSegment
<1> DEFINE last == CHOOSE k \in Motion!Begun(p) : \A m \in Motion!Begun(p) : m <= k
<1>1. ASSUME NEW k \in Motion!Begun(p), \A m \in Motion!Begun(p) : m <= k
      PROVE  last = k
  <2>1. last \in Motion!Begun(p) /\ \A m \in Motion!Begun(p) : m <= last
    BY <1>1
  <2>2. last <= k /\ k <= last /\ last \in Int /\ k \in Int
    BY <1>1, <2>1 DEF Motion!Begun
  <2> HIDE DEF last
  <2>3. QED
    BY <2>2
<1> HIDE DEF last
<1>2. Motion!Begun(p) \cap Walked = Motion!Begun(p)
  BY DEF Walked, Motion!Begun
<1>3. p \in Nat /\ it_pcl \in Nat /\ p >= 1 /\ it_pcl >= 1
  BY MotionTypes DEF MotionInv
<1>4. CASE p > it_pcl
  <2>1. PICK k \in Motion!Begun(p) : compensated[p] = <<k>> /\ \A m \in Motion!Begun(p) : m <= k
    BY <1>4 DEF MotionInv, MotionTypeOK, OthersMoved, FirstMoved, MovedOnce
  <2>2. p # 1
    BY <1>3, <1>4
  <2>3. QED
    BY <1>1, <2>1, <2>2 DEF last
<1>5. CASE ~(p > it_pcl) /\ p # 1
  BY <1>2, <1>5 DEF MotionInv, MotionTypeOK, OthersMoved, FirstMoved
<1>6. CASE p = 1
  <2>1. /\ {compensated[p][k] : k \in DOMAIN compensated[p]} = Motion!Begun(p)
        /\ Len(compensated[p]) = Cardinality(Motion!Begun(p))
        /\ compensated[p] \in Seq(Nat)
        /\ compensated[p] # <<>> => \A k \in DOMAIN compensated[p] : compensated[p][k] <= compensated[p][1]
    BY <1>2, <1>6 DEF MotionInv, MotionTypeOK, OthersMoved, FirstMoved
  <2>2. CASE compensated[p] = <<>>
    BY <2>1, <2>2
  <2>3. CASE compensated[p] # <<>>
    <3>1. 1 \in DOMAIN compensated[p]
      BY <2>1, <2>3
    <3>2. compensated[p][1] \in Motion!Begun(p) /\ \A m \in Motion!Begun(p) : m <= compensated[p][1]
      BY <2>1, <2>3, <3>1
    <3>3. last = compensated[p][1]
      BY <1>1, <3>2
    <3>4. QED
      BY <1>6, <2>1, <3>2, <3>3 DEF last
  <2>4. QED
    BY <2>2, <2>3
<1>7. QED
  BY <1>4, <1>5, <1>6

\* Whatever the times of points and samples, every point is moved by the segment it
\* was measured in, once; only the first point of a scan is moved on by the others.
THEOREM PointsMoveByTheirSegment == Motion!Spec => []MovedByItsSegment
<1>1. Motion!Init => MotionInv
  BY MotionInvInit, OdometryAssumption
<1>2. MotionInv /\ [Motion!Next]_(Motion!vars) => MotionInv'
  <2> SUFFICES ASSUME MotionInv, [Motion!Next]_(Motion!vars) PROVE MotionInv'
    OBVIOUS
  <2>1. CASE Motion!Enter
    BY <2>1, EnterInv
  <2>2. CASE Motion!Compensate
    BY <2>2, CompensateInv
  <2>3. CASE Motion!Leave
    BY <2>3, LeaveInv
  <2>4. CASE UNCHANGED Motion!vars
    <3>1. UNCHANGED <<curvature, offset_time, it_kp, it_pcl, inner, compensated>>
      BY <2>4 DEF Motion!vars
    <3>2. Walked' = Walked /\ \A p : Motion!Begun(p)' = Motion!Begun(p)
      BY <3>1, BegunStays DEF Walked
    <3>3. \A p : MovedOnce(p)' <=> MovedOnce(p)
      BY <3>1, <3>2 DEF MovedOnce
    <3>4. QED
      BY <3>1, <3>2, <3>3 DEF MotionInv, MotionTypeOK, OthersMoved, FirstMoved
  <2>5. QED
    BY <2>1, <2>2, <2>3, <2>4 DEF Motion!Next
<1>3. MotionInv => MovedByItsSegment
  BY PassIsOver DEF MovedByItsSegment
<1>4. QED
  BY <1>1, <1>2, <1>3, PTL DEF Motion!Spec
-----------------------------------------------------------------------------
(* OccupancyGrid *)

Value == -100..100

LEMMA ClampBounds ==
  ASSUME NEW n \in Int
  PROVE  /\ Grid!clamp(n, -100, 100) \in Value
         /\ n >= -100 => Grid!clamp(n, -100, 100) <= n
         /\ n <= 100 => Grid!clamp(n, -100, 100) >= n
         /\ n < -100 => Grid!clamp(n, -100, 100) = -100
         /\ n > 100 => Grid!clamp(n, -100, 100) = 100
  BY DEF Grid!clamp, Value

\* What one point makes of a cell.
MarkStep(c, passed, raised, n, before) ==
  LET lowered == IF c \in passed[n] THEN Grid!clamp(before - free_decrement, -100, 100) ELSE before
  IN  IF c \in raised[n] THEN Grid!clamp(lowered + occupied_increment, -100, 100) ELSE lowered

LEMMA MarkStepBounds ==
  ASSUME Grid!GridConstants, NEW c, NEW passed, NEW raised, NEW n, NEW before \in Value
  PROVE  /\ MarkStep(c, passed, raised, n, before) \in Value
         /\ c \notin raised[n] => MarkStep(c, passed, raised, n, before) <= before
         /\ c \notin raised[n] /\ c \in passed[n] =>
              \/ MarkStep(c, passed, raised, n, before) = -100
              \/ MarkStep(c, passed, raised, n, before) <= before - free_decrement
         /\ c \notin passed[n] => MarkStep(c, passed, raised, n, before) >= before
         /\ c \notin passed[n] /\ c \in raised[n] =>
              \/ MarkStep(c, passed, raised, n, before) = 100
              \/ MarkStep(c, passed, raised, n, before) >= before + occupied_increment
<1>1. free_decrement \in Nat /\ occupied_increment \in Nat /\ before \in -100..100
  BY DEF Grid!GridConstants, Value
<1>2. QED
  BY <1>1 DEF MarkStep, Grid!clamp, Value

\* The recursion of the model, unfolded.
LEMMA MarkedUnfolds ==
  ASSUME Grid!GridConstants, NEW c, NEW S, NEW passed \in Seq(S), NEW raised, Grid!Faded(c) \in Value
  PROVE  \E mark \in [0..Len(passed) -> Value] :
            /\ Grid!Marked(c, passed, raised) = mark[Len(passed)]
            /\ mark[0] = Grid!Faded(c)
            /\ \A n \in 1..Len(passed) : mark[n] = MarkStep(c, passed, raised, n, mark[n - 1])
<1> DEFINE len == Len(passed)
           Body(g) == [n \in 0..len |->
                         IF n = 0 THEN Grid!Faded(c)
                         ELSE LET before == g[n - 1]
                                  lowered == IF c \in passed[n]
                                             THEN Grid!clamp(before - free_decrement, -100, 100)
                                             ELSE before
                              IN  IF c \in raised[n]
                                  THEN Grid!clamp(lowered + occupied_increment, -100, 100)
                                  ELSE lowered]
           mark == CHOOSE g : g = Body(g)
           F == [x \in (1..len) \X Value |-> MarkStep(c, passed, raised, x[1], x[2])]
<1>1. Grid!Marked(c, passed, raised) = mark[len]
  BY DEF Grid!Marked
<1>2. len \in Nat
  OBVIOUS
<1>3. \A g : Body(g) = [n \in 0..len |-> IF n = 0 THEN Grid!Faded(c)
                                         ELSE MarkStep(c, passed, raised, n, g[n - 1])]
  BY DEF MarkStep
<1> HIDE DEF len, Body, mark
<1>4. F \in [(1..len) \X Value -> Value]
  BY MarkStepBounds
<1>5. \A n \in 1..len, v \in Value : F[<<n, v>>] = MarkStep(c, passed, raised, n, v)
  OBVIOUS
<1> HIDE DEF F
<1>6. PICK g \in [0..len -> Value] : Unfolded(g, Grid!Faded(c), F, len)
  BY <1>2, <1>4, RecursionExists
<1>7. ASSUME NEW n \in 1..len PROVE g[n] = MarkStep(c, passed, raised, n, g[n - 1])
  <2>1. n - 1 \in 0..len
    BY <1>2
  <2>2. QED
    BY <1>5, <1>6, <2>1 DEF Unfolded
<1>8. g[0] = Grid!Faded(c)
  BY <1>6 DEF Unfolded
<1>9. g = [n \in 0..len |-> IF n = 0 THEN Grid!Faded(c)
                            ELSE MarkStep(c, passed, raised, n, g[n - 1])]
  <2>1. g = [n \in 0..len |-> g[n]]
    BY <1>6
  <2>2. \A n \in 0..len : n = 0 \/ n \in 1..len
    BY <1>2
  <2>3. QED
    BY <1>7, <1>8, <2>1, <2>2
<1>10. mark = Body(mark)
  BY <1>3, <1>9 DEF mark
<1>11. mark = [n \in 0..len |-> IF n = 0 THEN Grid!Faded(c)
                                ELSE MarkStep(c, passed, raised, n, mark[n - 1])]
  BY <1>3, <1>10
<1>12. mark[0] = Grid!Faded(c)
  BY <1>2, <1>11
<1>13. ASSUME NEW n \in 1..len PROVE mark[n] = MarkStep(c, passed, raised, n, mark[n - 1])
  BY <1>2, <1>11
<1>14. mark \in [0..len -> Value]
  <2> DEFINE Good == {n \in 0..len : mark[n] \in Value}
  <2>1. 0 \in Good
    BY <1>2, <1>12
  <2>2. ASSUME NEW n \in 0..(len - 1), n \in Good PROVE n + 1 \in Good
    <3>1. n + 1 \in 1..len /\ (n + 1) - 1 = n
      BY <1>2
    <3>2. mark[n + 1] = MarkStep(c, passed, raised, n + 1, mark[n])
      BY <1>13, <3>1
    <3>3. mark[n] \in Value
      BY <2>2
    <3>4. QED
      BY <1>2, <3>1, <3>2, <3>3, MarkStepBounds
  <2> HIDE DEF Good
  <2>3. 0..len \subseteq Good
    BY <1>2, <2>1, <2>2, InductionUpTo
  <2>4. \A n \in 0..len : mark[n] \in Value
    BY <2>3 DEF Good
  <2>5. QED
    BY <1>11, <2>4
<1>15. QED
  BY <1>1, <1>12, <1>13, <1>14 DEF len

\* A cell that no point raised is no higher than it had faded to, and lower by one
\* decrement when a ray passed it; and the other way round.
LEMMA MarkedBounds ==
  ASSUME Grid!GridConstants, NEW c, NEW S, NEW passed \in Seq(S), NEW raised, Grid!Faded(c) \in Value
  PROVE  LET marked == Grid!Marked(c, passed, raised)
             faded == Grid!Faded(c)
             isPassed == \E n \in 1..Len(passed) : c \in passed[n]
             isRaised == \E n \in 1..Len(passed) : c \in raised[n]
         IN  /\ marked \in Value
             /\ ~isRaised => /\ marked <= faded
                             /\ isPassed => marked = -100 \/ marked <= faded - free_decrement
             /\ ~isPassed => /\ marked >= faded
                             /\ isRaised => marked = 100 \/ marked >= faded + occupied_increment
<1> DEFINE len == Len(passed)
           faded == Grid!Faded(c)
           IsPassed(m) == \E n \in 1..m : c \in passed[n]
           IsRaised(m) == \E n \in 1..m : c \in raised[n]
<1>1. PICK mark \in [0..len -> Value] :
            /\ Grid!Marked(c, passed, raised) = mark[len]
            /\ mark[0] = faded
            /\ \A n \in 1..len : mark[n] = MarkStep(c, passed, raised, n, mark[n - 1])
  BY MarkedUnfolds
<1>2. len \in Nat
  OBVIOUS
<1>3. free_decrement \in Nat /\ occupied_increment \in Nat /\ faded \in Int /\ faded \in -100..100
  <2>1. free_decrement \in Nat /\ occupied_increment \in Nat
    BY DEF Grid!GridConstants
  <2>2. faded \in -100..100
    BY DEF Value
  <2> HIDE DEF faded
  <2>3. QED
    BY <2>1, <2>2
<1> DEFINE Low(m) == ~IsRaised(m) =>
                        /\ mark[m] <= faded
                        /\ IsPassed(m) => mark[m] = -100 \/ mark[m] <= faded - free_decrement
           High(m) == ~IsPassed(m) =>
                        /\ mark[m] >= faded
                        /\ IsRaised(m) => mark[m] = 100 \/ mark[m] >= faded + occupied_increment
           Good == {m \in 0..len : Low(m) /\ High(m)}
<1> HIDE DEF len, faded
<1>4. 0 \in Good
  <2>1. ~IsPassed(0) /\ ~IsRaised(0)
    OBVIOUS
  <2>2. Low(0) /\ High(0)
    BY <1>1, <1>3, <2>1
  <2>3. QED
    BY <1>2, <2>2
<1>5. ASSUME NEW m \in 0..(len - 1), m \in Good PROVE m + 1 \in Good
  <2>1. m + 1 \in 1..len /\ (m + 1) - 1 = m /\ m \in 0..len /\ m + 1 \in 0..len
    BY <1>2
  <2>2. mark[m + 1] = MarkStep(c, passed, raised, m + 1, mark[m])
    BY <1>1, <2>1
  <2>3. mark[m] \in Value /\ mark[m] \in Int /\ mark[m + 1] \in Int
    <3>1. mark[m] \in Value /\ mark[m + 1] \in Value
      BY <1>1, <2>1
    <3>2. Value \subseteq Int
      BY DEF Value
    <3>3. QED
      BY <3>1, <3>2
  <2>4. IsPassed(m + 1) <=> IsPassed(m) \/ c \in passed[m + 1]
    BY <2>1
  <2>5. IsRaised(m + 1) <=> IsRaised(m) \/ c \in raised[m + 1]
    BY <2>1
  <2>6. Low(m) /\ High(m)
    BY <1>5
  <2> HIDE DEF IsPassed, IsRaised, Good
  <2>7. /\ c \notin raised[m + 1] => mark[m + 1] <= mark[m]
        /\ c \notin raised[m + 1] /\ c \in passed[m + 1] =>
              mark[m + 1] = -100 \/ mark[m + 1] <= mark[m] - free_decrement
        /\ c \notin passed[m + 1] => mark[m + 1] >= mark[m]
        /\ c \notin passed[m + 1] /\ c \in raised[m + 1] =>
              mark[m + 1] = 100 \/ mark[m + 1] >= mark[m] + occupied_increment
    BY <2>2, <2>3, MarkStepBounds
  <2>8. Low(m + 1)
    <3> SUFFICES ASSUME ~IsRaised(m + 1)
                 PROVE  /\ mark[m + 1] <= faded
                        /\ IsPassed(m + 1) =>
                             mark[m + 1] = -100 \/ mark[m + 1] <= faded - free_decrement
      OBVIOUS
    <3>1. /\ c \notin raised[m + 1] /\ mark[m] <= faded
          /\ IsPassed(m) => mark[m] = -100 \/ mark[m] <= faded - free_decrement
      BY <2>5, <2>6
    <3>2. mark[m + 1] <= faded
      BY <1>3, <2>3, <2>7, <3>1
    <3>3. CASE c \in passed[m + 1]
      BY <1>3, <2>3, <2>7, <3>1, <3>2, <3>3
    <3>4. CASE IsPassed(m)
      BY <1>3, <2>3, <2>7, <3>1, <3>2, <3>4
    <3>5. QED
      BY <2>4, <3>2, <3>3, <3>4
  <2>9. High(m + 1)
    <3> SUFFICES ASSUME ~IsPassed(m + 1)
                 PROVE  /\ mark[m + 1] >= faded
                        /\ IsRaised(m + 1) =>
                             mark[m + 1] = 100 \/ mark[m + 1] >= faded + occupied_increment
      OBVIOUS
    <3>1. /\ c \notin passed[m + 1] /\ mark[m] >= faded
          /\ IsRaised(m) => mark[m] = 100 \/ mark[m] >= faded + occupied_increment
      BY <2>4, <2>6
    <3>2. mark[m + 1] >= faded
      BY <1>3, <2>3, <2>7, <3>1
    <3>3. CASE c \in raised[m + 1]
      BY <1>3, <2>3, <2>7, <3>1, <3>2, <3>3
    <3>4. CASE IsRaised(m)
      BY <1>3, <2>3, <2>7, <3>1, <3>2, <3>4
    <3>5. QED
      BY <2>5, <3>2, <3>3, <3>4
  <2>10. QED
    BY <2>1, <2>8, <2>9 DEF Good
<1> HIDE DEF Good
<1>6. 0..len \subseteq Good
  BY <1>2, <1>4, <1>5, InductionUpTo
<1>7. len \in Good
  BY <1>2, <1>6
<1>8. Low(len) /\ High(len)
  BY <1>7 DEF Good
<1>9. mark[len] \in Value
  BY <1>1, <1>2
<1>10. QED
  BY <1>1, <1>8, <1>9 DEF len, faded

\* The heights a cell can have, by how long ago it was marked; one mark of the other
\* kind since then counts too.
Highest(c) ==
  100 - hit[c] * log_odds_decay_per_cloud - (IF last_update_[c] < hit[c] THEN free_decrement ELSE 0)

Lowest(c) ==
  -100 + freed[c] * log_odds_decay_per_cloud
       + (IF last_update_[c] < freed[c] THEN occupied_increment ELSE 0)

CellInv(c) ==
  /\ log_odds_[c] \in Value /\ observed_[c] \in BOOLEAN
  /\ last_update_[c] \in 0..Never /\ hit[c] \in 0..Never /\ freed[c] \in 0..Never
  /\ last_update_[c] <= hit[c] /\ last_update_[c] <= freed[c]
  /\ log_odds_[c] > 0 => log_odds_[c] <= Highest(c)
  /\ log_odds_[c] < 0 => log_odds_[c] >= Lowest(c)
  /\ ~observed_[c] => log_odds_[c] = 0

ShownInv(c) ==
  /\ grid[c] = 100 => last_update_[c] <= stale_after_clouds /\ log_odds_[c] >= occupied_threshold
  /\ grid[c] = 0 => last_update_[c] <= stale_after_clouds /\ log_odds_[c] <= free_threshold

GridInv ==
  /\ DOMAIN log_odds_ = Grid!Cells
  /\ \A c \in Grid!Cells : CellInv(c) /\ ShownInv(c)

LEMMA FadedBounds ==
  ASSUME Grid!GridConstants, NEW c \in Grid!Cells, CellInv(c)
  PROVE  /\ Grid!Faded(c) \in Value
         /\ Grid!Faded(c) > 0 => log_odds_[c] > 0 /\ Grid!Faded(c) <= log_odds_[c] - log_odds_decay_per_cloud
         /\ Grid!Faded(c) < 0 => log_odds_[c] < 0 /\ Grid!Faded(c) >= log_odds_[c] + log_odds_decay_per_cloud
         /\ Grid!StaysObserved(c) \in BOOLEAN
         /\ ~Grid!StaysObserved(c) => Grid!Faded(c) = 0
<1>1. /\ log_odds_decay_per_cloud \in Nat \ {0} /\ stale_after_clouds \in Nat \ {0}
      /\ log_odds_[c] \in -100..100 /\ log_odds_[c] \in Int
      /\ ~observed_[c] => log_odds_[c] = 0
  <2>1. log_odds_decay_per_cloud \in Nat \ {0} /\ stale_after_clouds \in Nat \ {0}
    BY DEF Grid!GridConstants
  <2>2. log_odds_[c] \in -100..100 /\ (~observed_[c] => log_odds_[c] = 0)
    BY DEF CellInv, Value
  <2>3. QED
    BY <2>1, <2>2
<1>2. Grid!Faded(c) = IF ~observed_[c] THEN log_odds_[c]
                      ELSE IF Grid!Stale(c) THEN 0
                      ELSE IF log_odds_[c] > 0
                      THEN Grid!clamp(log_odds_[c] - log_odds_decay_per_cloud, 0, 100)
                      ELSE Grid!clamp(log_odds_[c] + log_odds_decay_per_cloud, -100, 0)
  BY <1>1 DEF Grid!Faded
<1>3. Grid!StaysObserved(c) <=> observed_[c] /\ ~Grid!Stale(c) /\ Grid!Faded(c) # 0
  BY <1>1 DEF Grid!StaysObserved
<1>4. CASE ~observed_[c]
  BY <1>1, <1>2, <1>3, <1>4 DEF Value, Grid!StaysObserved
<1>5. CASE observed_[c] /\ Grid!Stale(c)
  BY <1>1, <1>2, <1>3, <1>5 DEF Value, Grid!StaysObserved
<1>6. CASE observed_[c] /\ ~Grid!Stale(c) /\ log_odds_[c] > 0
  <2>1. Grid!Faded(c) = Grid!clamp(log_odds_[c] - log_odds_decay_per_cloud, 0, 100)
    BY <1>2, <1>6
  <2>2. /\ Grid!Faded(c) \in Value
        /\ Grid!Faded(c) > 0 => Grid!Faded(c) <= log_odds_[c] - log_odds_decay_per_cloud
        /\ ~(Grid!Faded(c) < 0)
    BY <1>1, <1>6, <2>1 DEF Grid!clamp, Value
  <2>3. Grid!StaysObserved(c) \in BOOLEAN
    BY DEF Grid!StaysObserved
  <2>4. QED
    BY <1>3, <1>6, <2>2, <2>3
<1>7. CASE observed_[c] /\ ~Grid!Stale(c) /\ ~(log_odds_[c] > 0)
  <2>1. Grid!Faded(c) = Grid!clamp(log_odds_[c] + log_odds_decay_per_cloud, -100, 0)
    BY <1>2, <1>7
  <2>2. /\ Grid!Faded(c) \in Value
        /\ Grid!Faded(c) < 0 => /\ log_odds_[c] < 0
                                /\ Grid!Faded(c) >= log_odds_[c] + log_odds_decay_per_cloud
        /\ ~(Grid!Faded(c) > 0)
    BY <1>1, <1>7, <2>1 DEF Grid!clamp, Value
  <2>3. Grid!StaysObserved(c) \in BOOLEAN
    BY DEF Grid!StaysObserved
  <2>4. QED
    BY <1>3, <1>7, <2>2, <2>3
<1>8. QED
  BY <1>4, <1>5, <1>6, <1>7

Older(age) == IF age = Never THEN Never ELSE age + 1

\* What a cloud makes of a cell, by whether one of its rays passed the cell and one of
\* its points raised it.
LEMMA CloudOnCell ==
  ASSUME Grid!GridConstants, NEW cloud \in Clouds, Grid!cloudCallback(cloud),
         DOMAIN log_odds_ = Grid!Cells, NEW c \in Grid!Cells, CellInv(c)
  PROVE  \E isPassed, isRaised \in BOOLEAN :
            /\ log_odds_'[c] \in Value
            /\ ~isRaised => /\ log_odds_'[c] <= Grid!Faded(c)
                            /\ isPassed => \/ log_odds_'[c] = -100
                                           \/ log_odds_'[c] <= Grid!Faded(c) - free_decrement
            /\ ~isPassed => /\ log_odds_'[c] >= Grid!Faded(c)
                            /\ isRaised => \/ log_odds_'[c] = 100
                                           \/ log_odds_'[c] >= Grid!Faded(c) + occupied_increment
            /\ observed_'[c] = (isPassed \/ isRaised \/ Grid!StaysObserved(c))
            /\ last_update_'[c] = IF isPassed \/ isRaised THEN 0 ELSE Older(last_update_[c])
            /\ hit'[c] = IF isRaised THEN 0 ELSE Older(hit[c])
            /\ freed'[c] = IF isPassed THEN 0 ELSE Older(freed[c])
            /\ grid'[c] = Grid!Shown(c)
<1> DEFINE passes == [n \in DOMAIN cloud |-> IF cloud[n] \in Grid!Cells
                                             THEN Grid!Passed(cloud[n]) ELSE {}]
           raises == [n \in DOMAIN cloud |-> IF cloud[n] \in Grid!Cells
                                             THEN Grid!markOccupied(cloud[n]) ELSE {}]
           isPassed == \E n \in 1..Len(passes) : c \in passes[n]
           isRaised == \E n \in 1..Len(passes) : c \in raises[n]
           S == {passes[n] : n \in DOMAIN cloud}
<1>1. Len(cloud) \in Nat /\ DOMAIN cloud = 1..Len(cloud)
  BY DEF Grid!GridConstants
<1>2. /\ passes \in Seq(S) /\ DOMAIN passes = DOMAIN cloud /\ DOMAIN raises = DOMAIN cloud
  BY <1>1
<1>3. Len(passes) = Len(cloud)
  BY <1>1, <1>2
<1>4. log_odds_' = [d \in Grid!Cells |-> Grid!Marked(d, passes, raises)]
  BY DEF Grid!cloudCallback
<1>5. c \in UNION Grid!ToSet(passes) <=> isPassed
  BY <1>1, <1>2, <1>3 DEF Grid!ToSet
<1>6. c \in UNION Grid!ToSet(raises) <=> isRaised
  BY <1>1, <1>2, <1>3 DEF Grid!ToSet
<1>7. Grid!decays
  BY DEF Grid!decays, Grid!GridConstants
<1> DEFINE inPassed == c \in UNION Grid!ToSet(passes)
           inRaised == c \in UNION Grid!ToSet(raises)
<1>8. /\ last_update_'[c] = IF inPassed \/ inRaised THEN 0 ELSE Older(last_update_[c])
      /\ hit'[c] = IF inRaised THEN 0 ELSE Older(hit[c])
      /\ freed'[c] = IF inPassed THEN 0 ELSE Older(freed[c])
      /\ grid'[c] = Grid!Shown(c)
  BY DEF Grid!cloudCallback, Older
<1>9. observed_'[c] = (inPassed \/ inRaised \/ Grid!StaysObserved(c))
  <2>1. observed_'[c] = (\/ c \in (UNION Grid!ToSet(passes)) \cup (UNION Grid!ToSet(raises))
                         \/ IF Grid!decays THEN Grid!StaysObserved(c) ELSE observed_[c])
    BY DEF Grid!cloudCallback
  <2>2. c \in (UNION Grid!ToSet(passes)) \cup (UNION Grid!ToSet(raises)) <=> inPassed \/ inRaised
    OBVIOUS
  <2> HIDE DEF inPassed, inRaised
  <2>3. QED
    BY <1>7, <2>1, <2>2
<1> HIDE DEF inPassed, inRaised
<1> HIDE DEF passes, raises, S
<1>10. Grid!Faded(c) \in Value
  BY FadedBounds
<1>11. LET marked == Grid!Marked(c, passes, raises)
           faded == Grid!Faded(c)
       IN  /\ marked \in Value
           /\ ~isRaised => /\ marked <= faded
                           /\ isPassed => marked = -100 \/ marked <= faded - free_decrement
           /\ ~isPassed => /\ marked >= faded
                           /\ isRaised => marked = 100 \/ marked >= faded + occupied_increment
  BY <1>2, <1>10, MarkedBounds
<1>12. log_odds_'[c] = Grid!Marked(c, passes, raises)
  BY <1>4
<1>13. isPassed \in BOOLEAN /\ isRaised \in BOOLEAN
  OBVIOUS
<1>14. (inPassed <=> isPassed) /\ (inRaised <=> isRaised)
  BY <1>5, <1>6 DEF inPassed, inRaised
<1> HIDE DEF isPassed, isRaised
<1>15. /\ last_update_'[c] = IF isPassed \/ isRaised THEN 0 ELSE Older(last_update_[c])
       /\ hit'[c] = IF isRaised THEN 0 ELSE Older(hit[c])
       /\ freed'[c] = IF isPassed THEN 0 ELSE Older(freed[c])
       /\ grid'[c] = Grid!Shown(c)
  BY <1>8, <1>14
<1>16. observed_'[c] = (isPassed \/ isRaised \/ Grid!StaysObserved(c))
  BY <1>9, <1>14
<1>17. QED
  BY <1>11, <1>12, <1>13, <1>15, <1>16

LEMMA OneMore == ASSUME NEW m \in Nat, NEW n \in Nat PROVE (m + 1) * n = m * n + n /\ m * n \in Nat
  OBVIOUS

LEMMA CloudInv ==
  ASSUME Grid!GridConstants, NEW cloud \in Clouds, Grid!cloudCallback(cloud), GridInv PROVE GridInv'
<1>1. DOMAIN log_odds_' = Grid!Cells
  BY DEF Grid!cloudCallback
<1>2. ASSUME NEW c \in Grid!Cells
      PROVE  CellInv(c)' /\ ShownInv(c)'
  <2>1. CellInv(c) /\ DOMAIN log_odds_ = Grid!Cells
    BY DEF GridInv
  <2> DEFINE decay == log_odds_decay_per_cloud
             faded == Grid!Faded(c)
  <2>2. PICK isPassed, isRaised \in BOOLEAN :
            /\ log_odds_'[c] \in Value
            /\ ~isRaised => /\ log_odds_'[c] <= faded
                            /\ isPassed => \/ log_odds_'[c] = -100
                                           \/ log_odds_'[c] <= faded - free_decrement
            /\ ~isPassed => /\ log_odds_'[c] >= faded
                            /\ isRaised => \/ log_odds_'[c] = 100
                                           \/ log_odds_'[c] >= faded + occupied_increment
            /\ observed_'[c] = (isPassed \/ isRaised \/ Grid!StaysObserved(c))
            /\ last_update_'[c] = IF isPassed \/ isRaised THEN 0 ELSE Older(last_update_[c])
            /\ hit'[c] = IF isRaised THEN 0 ELSE Older(hit[c])
            /\ freed'[c] = IF isPassed THEN 0 ELSE Older(freed[c])
            /\ grid'[c] = Grid!Shown(c)
    BY <2>1, CloudOnCell
  <2>3. /\ faded \in Value
        /\ faded > 0 => log_odds_[c] > 0 /\ faded <= log_odds_[c] - decay
        /\ faded < 0 => log_odds_[c] < 0 /\ faded >= log_odds_[c] + decay
        /\ Grid!StaysObserved(c) \in BOOLEAN
        /\ ~Grid!StaysObserved(c) => faded = 0
    BY <2>1, FadedBounds
  <2>4. /\ free_decrement \in Nat /\ occupied_increment \in Nat /\ decay \in Nat /\ Never \in Nat
        /\ occupied_threshold \in 1..100 /\ free_threshold \in -100..-1
        /\ stale_after_clouds \in Nat \ {0}
    BY DEF Grid!GridConstants
  <2>5. /\ log_odds_[c] \in Int /\ log_odds_'[c] \in Int /\ faded \in Int
    BY <2>1, <2>2, <2>3 DEF CellInv, Value
  <2>6. /\ last_update_[c] \in 0..Never /\ hit[c] \in 0..Never /\ freed[c] \in 0..Never
        /\ last_update_[c] <= hit[c] /\ last_update_[c] <= freed[c]
        /\ log_odds_[c] > 0 => log_odds_[c] <= Highest(c)
        /\ log_odds_[c] < 0 => log_odds_[c] >= Lowest(c)
    BY <2>1 DEF CellInv
  <2> HIDE DEF decay, faded
  <2>7. /\ last_update_'[c] \in 0..Never /\ hit'[c] \in 0..Never /\ freed'[c] \in 0..Never
        /\ last_update_'[c] <= hit'[c] /\ last_update_'[c] <= freed'[c]
    BY <2>2, <2>4, <2>6 DEF Older
  <2>8. ~observed_'[c] => log_odds_'[c] = 0
    BY <2>2, <2>3, <2>5
  <2>9. observed_'[c] \in BOOLEAN
    BY <2>2
  <2>10. ASSUME log_odds_'[c] > 0 PROVE log_odds_'[c] <= Highest(c)'
    <3>1. CASE isRaised
      <4>1. hit'[c] = 0 /\ last_update_'[c] = 0
        BY <2>2, <3>1
      <4>2. Highest(c)' = 100
        BY <2>4, <4>1 DEF Highest, decay
      <4>3. QED
        BY <2>2, <4>2 DEF Value
    <3>2. CASE ~isRaised
      <4> DEFINE less == IF last_update_[c] < hit[c] THEN free_decrement ELSE 0
                 less1 == IF last_update_'[c] < hit'[c] THEN free_decrement ELSE 0
                 spent == hit[c] * decay
      <4>1. faded > 0 /\ log_odds_'[c] <= faded
        BY <2>2, <2>5, <2>10, <3>2
      <4>2. faded <= 100 - spent - less - decay /\ spent \in Nat /\ less \in Nat
        <5>1. log_odds_[c] <= 100 - spent - less
          BY <2>3, <2>6, <4>1 DEF Highest, decay
        <5>2. spent \in Nat /\ less \in Nat
          BY <2>4, <2>6
        <5> HIDE DEF spent, less
        <5>3. QED
          BY <2>3, <2>4, <2>5, <4>1, <5>1, <5>2
      <4>3. hit'[c] = Older(hit[c])
        BY <2>2, <3>2
      <4>4. hit'[c] * decay <= spent + decay
        <5>1. hit[c] \in Nat /\ (hit'[c] = hit[c] \/ hit'[c] = hit[c] + 1)
          BY <2>4, <2>6, <4>3 DEF Older
        <5>2. (hit[c] + 1) * decay = spent + decay
          BY <2>4, <5>1, OneMore
        <5>3. QED
          BY <2>4, <4>2, <5>1, <5>2
      <4>5. Highest(c)' = 100 - hit'[c] * decay - less1
        BY DEF Highest, decay
      <4>6. hit'[c] * decay \in Nat
        BY <2>4, <2>7
      <4> HIDE DEF spent
      <4>7. CASE isPassed
        <5>1. log_odds_'[c] <= faded - free_decrement
          BY <2>2, <2>10, <3>2, <4>7
        <5>2. less1 \in 0..free_decrement
          BY <2>4
        <5> HIDE DEF less, less1
        <5>3. QED
          BY <2>4, <2>5, <4>2, <4>4, <4>5, <4>6, <5>1, <5>2
      <4>8. CASE ~isPassed
        <5>1. last_update_'[c] = Older(last_update_[c])
          BY <2>2, <3>2, <4>8
        <5>2. less1 <= less /\ less1 \in Nat
          BY <2>4, <2>6, <4>3, <5>1 DEF Older
        <5> HIDE DEF less, less1
        <5>3. QED
          BY <2>4, <2>5, <4>1, <4>2, <4>4, <4>5, <4>6, <5>2
      <4>9. QED
        BY <4>7, <4>8
    <3>3. QED
      BY <3>1, <3>2
  <2>11. ASSUME log_odds_'[c] < 0 PROVE log_odds_'[c] >= Lowest(c)'
    <3>1. CASE isPassed
      <4>1. freed'[c] = 0 /\ last_update_'[c] = 0
        BY <2>2, <3>1
      <4>2. Lowest(c)' = -100
        BY <2>4, <4>1 DEF Lowest, decay
      <4>3. QED
        BY <2>2, <4>2 DEF Value
    <3>2. CASE ~isPassed
      <4> DEFINE more == IF last_update_[c] < freed[c] THEN occupied_increment ELSE 0
                 more1 == IF last_update_'[c] < freed'[c] THEN occupied_increment ELSE 0
                 spent == freed[c] * decay
      <4>1. faded < 0 /\ log_odds_'[c] >= faded
        BY <2>2, <2>5, <2>11, <3>2
      <4>2. faded >= -100 + spent + more + decay /\ spent \in Nat /\ more \in Nat
        <5>1. log_odds_[c] >= -100 + spent + more
          BY <2>3, <2>6, <4>1 DEF Lowest, decay
        <5>2. spent \in Nat /\ more \in Nat
          BY <2>4, <2>6
        <5> HIDE DEF spent, more
        <5>3. QED
          BY <2>3, <2>4, <2>5, <4>1, <5>1, <5>2
      <4>3. freed'[c] = Older(freed[c])
        BY <2>2, <3>2
      <4>4. freed'[c] * decay <= spent + decay
        <5>1. freed[c] \in Nat /\ (freed'[c] = freed[c] \/ freed'[c] = freed[c] + 1)
          BY <2>4, <2>6, <4>3 DEF Older
        <5>2. (freed[c] + 1) * decay = spent + decay
          BY <2>4, <5>1, OneMore
        <5>3. QED
          BY <2>4, <4>2, <5>1, <5>2
      <4>5. Lowest(c)' = -100 + freed'[c] * decay + more1
        BY DEF Lowest, decay
      <4>6. freed'[c] * decay \in Nat
        BY <2>4, <2>7
      <4> HIDE DEF spent
      <4>7. CASE isRaised
        <5>1. log_odds_'[c] >= faded + occupied_increment
          BY <2>2, <2>11, <3>2, <4>7
        <5>2. more1 \in 0..occupied_increment
          BY <2>4
        <5> HIDE DEF more, more1
        <5>3. QED
          BY <2>4, <2>5, <4>2, <4>4, <4>5, <4>6, <5>1, <5>2
      <4>8. CASE ~isRaised
        <5>1. last_update_'[c] = Older(last_update_[c])
          BY <2>2, <3>2, <4>8
        <5>2. more1 <= more /\ more1 \in Nat
          BY <2>4, <2>6, <4>3, <5>1 DEF Older
        <5> HIDE DEF more, more1
        <5>3. QED
          BY <2>4, <2>5, <4>1, <4>2, <4>4, <4>5, <4>6, <5>2
      <4>9. QED
        BY <4>7, <4>8
    <3>3. QED
      BY <3>1, <3>2
  <2>12. CellInv(c)'
    BY <2>2, <2>7, <2>8, <2>9, <2>10, <2>11 DEF CellInv
  <2>13. ShownInv(c)'
    <3>1. grid'[c] = Grid!Shown(c)
      BY <2>2
    <3>2. 50 + (IF log_odds_'[c] < 0 THEN -((-log_odds_'[c]) \div 2) ELSE log_odds_'[c] \div 2) \in Int
      BY <2>5
    <3>3. ASSUME grid'[c] = 100 PROVE c \in Grid!OccupiedCells
      BY <3>1, <3>2, <3>3 DEF Grid!Shown, Grid!clamp, Grid!Unknown
    <3>4. ASSUME grid'[c] = 0 PROVE c \in Grid!FreeCells
      BY <3>1, <3>2, <3>4 DEF Grid!Shown, Grid!clamp, Grid!Unknown
    <3>5. QED
      BY <2>4, <3>3, <3>4 DEF ShownInv, Grid!OccupiedCells, Grid!FreeCells, Grid!isCellFresh
  <2>14. QED
    BY <2>12, <2>13
<1>3. QED
  BY <1>1, <1>2 DEF GridInv

LEMMA GridInvInit == ASSUME Grid!GridConstants, Grid!Init PROVE GridInv
<1>1. /\ log_odds_ = [c \in Grid!Cells |-> 0] /\ observed_ = [c \in Grid!Cells |-> FALSE]
      /\ last_update_ = [c \in Grid!Cells |-> Never] /\ grid = [c \in Grid!Cells |-> -1]
      /\ hit = [c \in Grid!Cells |-> Never] /\ freed = [c \in Grid!Cells |-> Never]
  BY DEF Grid!Init, Grid!Unknown
<1>2. Never \in 0..Never /\ 0 \in Value
  BY DEF Grid!GridConstants, Value
<1>3. QED
  BY <1>1, <1>2 DEF GridInv, CellInv, ShownInv

LEMMA GridInvForgets == ASSUME Grid!GridConstants, GridInv PROVE Grid!GridForgets
<1> SUFFICES ASSUME NEW c \in Grid!Cells
             PROVE  /\ grid[c] = 100 =>
                          /\ hit[c] * log_odds_decay_per_cloud <= 100 - occupied_threshold
                          /\ hit[c] <= stale_after_clouds
                    /\ grid[c] = 0 =>
                          /\ freed[c] * log_odds_decay_per_cloud <= 100 + free_threshold
                          /\ freed[c] <= stale_after_clouds
                    /\ ~observed_[c] => log_odds_[c] = 0
  BY DEF Grid!GridForgets
<1> DEFINE decay == log_odds_decay_per_cloud
<1>1. CellInv(c) /\ ShownInv(c)
  BY DEF GridInv
<1>2. /\ free_decrement \in Nat /\ occupied_increment \in Nat /\ decay \in Nat \ {0} /\ Never \in Nat
      /\ occupied_threshold \in 1..100 /\ free_threshold \in -100..-1
      /\ stale_after_clouds \in Nat
      /\ 100 - occupied_threshold <= stale_after_clouds * decay + free_decrement
      /\ 100 + free_threshold <= stale_after_clouds * decay + occupied_increment
  BY DEF Grid!GridConstants
<1>3. /\ log_odds_[c] \in Int /\ hit[c] \in Nat /\ freed[c] \in Nat /\ last_update_[c] \in Nat
  BY <1>1, <1>2 DEF CellInv, Value
<1> HIDE DEF decay
<1>4. \A n \in Nat : n > stale_after_clouds => n * decay > stale_after_clouds * decay
  <2> SUFFICES ASSUME NEW n \in Nat, n > stale_after_clouds
               PROVE  n * decay > stale_after_clouds * decay
    OBVIOUS
  <2>1. PICK more \in Nat \ {0} : n = stale_after_clouds + more
    <3>1. n - stale_after_clouds \in Nat \ {0} /\ n = stale_after_clouds + (n - stale_after_clouds)
      BY <1>2
    <3>2. QED
      BY <3>1
  <2>2. n * decay = stale_after_clouds * decay + more * decay
    BY <1>2, <2>1
  <2>3. more * decay > 0 /\ more * decay \in Int /\ stale_after_clouds * decay \in Int
    BY <1>2, <2>1
  <2>4. QED
    BY <2>2, <2>3
<1>5. hit[c] * decay \in Int /\ freed[c] * decay \in Int /\ stale_after_clouds * decay \in Int
  BY <1>2, <1>3
<1>6. ASSUME grid[c] = 100
      PROVE  hit[c] * decay <= 100 - occupied_threshold /\ hit[c] <= stale_after_clouds
  <2>1. /\ last_update_[c] <= stale_after_clouds /\ log_odds_[c] >= occupied_threshold
        /\ log_odds_[c] <= Highest(c)
    BY <1>1, <1>2, <1>3, <1>6 DEF CellInv, ShownInv
  <2>2. hit[c] * decay + (IF last_update_[c] < hit[c] THEN free_decrement ELSE 0)
           <= 100 - occupied_threshold
    BY <1>2, <1>3, <1>5, <2>1 DEF Highest, decay
  <2>3. hit[c] * decay <= 100 - occupied_threshold
    BY <1>2, <1>5, <2>2
  <2>4. ~(hit[c] > stale_after_clouds)
    <3> SUFFICES ASSUME hit[c] > stale_after_clouds PROVE FALSE
      OBVIOUS
    <3>1. hit[c] * decay + free_decrement <= 100 - occupied_threshold
      BY <1>2, <1>3, <2>1, <2>2
    <3>2. hit[c] * decay > stale_after_clouds * decay
      BY <1>3, <1>4
    <3>3. QED
      BY <1>2, <1>5, <3>1, <3>2
  <2>5. QED
    BY <1>2, <1>3, <2>3, <2>4
<1>7. ASSUME grid[c] = 0
      PROVE  freed[c] * decay <= 100 + free_threshold /\ freed[c] <= stale_after_clouds
  <2>1. /\ last_update_[c] <= stale_after_clouds /\ log_odds_[c] <= free_threshold
        /\ log_odds_[c] >= Lowest(c)
    BY <1>1, <1>2, <1>3, <1>7 DEF CellInv, ShownInv
  <2>2. freed[c] * decay + (IF last_update_[c] < freed[c] THEN occupied_increment ELSE 0)
           <= 100 + free_threshold
    BY <1>2, <1>3, <1>5, <2>1 DEF Lowest, decay
  <2>3. freed[c] * decay <= 100 + free_threshold
    BY <1>2, <1>5, <2>2
  <2>4. ~(freed[c] > stale_after_clouds)
    <3> SUFFICES ASSUME freed[c] > stale_after_clouds PROVE FALSE
      OBVIOUS
    <3>1. freed[c] * decay + occupied_increment <= 100 + free_threshold
      BY <1>2, <1>3, <2>1, <2>2
    <3>2. freed[c] * decay > stale_after_clouds * decay
      BY <1>3, <1>4
    <3>3. QED
      BY <1>2, <1>5, <3>1, <3>2
  <2>5. QED
    BY <1>2, <1>3, <2>3, <2>4
<1>8. ~observed_[c] => log_odds_[c] = 0
  BY <1>1 DEF CellInv
<1>9. QED
  BY <1>6, <1>7, <1>8 DEF decay

\* For any grid, clouds, poses and order of points, when what fades reaches the
\* thresholds in time: no cell is shown occupied, or free, on evidence that is older
\* than the decay takes to the threshold, or stale.
THEOREM GridsForget == Grid!Spec => []GridForgets
<1>0. Grid!GridConstants
  BY OdometryAssumption
<1>1. Grid!Init => GridInv
  BY <1>0, GridInvInit
<1>2. GridInv /\ [Grid!Next]_(Grid!vars) => GridInv'
  <2> SUFFICES ASSUME GridInv, [Grid!Next]_(Grid!vars) PROVE GridInv'
    OBVIOUS
  <2>1. ASSUME NEW cloud \in Clouds, Grid!cloudCallback(cloud) PROVE GridInv'
    BY <1>0, <2>1, CloudInv
  <2>2. ASSUME UNCHANGED <<log_odds_, observed_, last_update_, grid, hit, freed>> PROVE GridInv'
    BY <2>2 DEF GridInv, CellInv, ShownInv, Highest, Lowest
  <2>3. ASSUME NEW pose \in Poses, Grid!odomCallback(pose) PROVE GridInv'
    BY <2>2, <2>3 DEF Grid!odomCallback
  <2>4. CASE UNCHANGED Grid!vars
    BY <2>2, <2>4 DEF Grid!vars
  <2>5. QED
    BY <2>1, <2>3, <2>4 DEF Grid!Next
<1>3. GridInv => GridForgets
  BY <1>0, GridInvForgets DEF GridForgets
<1>4. QED
  BY <1>1, <1>2, <1>3, PTL DEF Grid!Spec
-----------------------------------------------------------------------------
(* MapIncrement *)

MapTypeOK ==
  /\ contents \in [Points -> Nat]
  /\ PointToAdd \subseteq Points /\ PointNoNeedDownsample \subseteq Points
  /\ seen \subseteq Points /\ stored \subseteq Points
  /\ \A p \in Points : contents[p] > 0 => p \in stored

LEMMA PointInItsCell ==
  ASSUME Increment!IncrementConstants, NEW p \in Points PROVE Increment!InBox(p, Increment!Cell(p))
<1>1. ASSUME NEW a \in 1..3
      PROVE  /\ (p[a] \div downsample_size) * downsample_size <= p[a]
             /\ p[a] < (p[a] \div downsample_size) * downsample_size + downsample_size
  <2>1. p[a] \in Int /\ downsample_size \in Nat \ {0}
    BY DEF Increment!IncrementConstants
  <2>2. \A n \in Int, d \in Nat \ {0} : (n \div d) * d <= n /\ n < (n \div d) * d + d
    OBVIOUS
  <2>3. QED
    BY <2>1, <2>2
<1>2. QED
  BY <1>1 DEF Increment!InBox, Increment!Cell, Increment!Axes

\* The multiple of d that begins the interval n lies in.
LEMMA OneInterval ==
  ASSUME NEW n \in Int, NEW k \in Int, NEW l \in Int, NEW d \in Nat \ {0},
         k * d <= n, n < k * d + d, l * d <= n, n < l * d + d
  PROVE  k = l
<1>1. ASSUME NEW u \in Int, NEW v \in Int, u < v PROVE u * d + d <= v * d
  <2>1. PICK w \in Nat : v = u + 1 + w
    <3>1. v - u - 1 \in Nat /\ v = u + 1 + (v - u - 1)
      BY <1>1
    <3>2. QED
      BY <3>1
  <2>2. v * d = u * d + d + w * d
    BY <2>1
  <2>3. w * d >= 0
    OBVIOUS
  <2>4. QED
    BY <2>2, <2>3
<1>2. ~(k < l)
  BY <1>1
<1>3. ~(l < k)
  BY <1>1
<1>4. QED
  BY <1>2, <1>3

\* Cells do not overlap.
LEMMA OneCell ==
  ASSUME Increment!IncrementConstants, NEW p \in Points, NEW q \in Points,
         Increment!InBox(q, Increment!Cell(p))
  PROVE  Increment!Cell(q) = Increment!Cell(p)
<1>1. ASSUME NEW a \in 1..3 PROVE p[a] \div downsample_size = q[a] \div downsample_size
  <2>1. PICK k \in Int, l \in Int : k = p[a] \div downsample_size /\ l = q[a] \div downsample_size
    BY DEF Increment!IncrementConstants
  <2>2. q[a] \in Int /\ downsample_size \in Nat \ {0}
    BY DEF Increment!IncrementConstants
  <2>3. k * downsample_size <= q[a] /\ q[a] < k * downsample_size + downsample_size
    BY <2>1 DEF Increment!InBox, Increment!Cell, Increment!Axes
  <2>4. l * downsample_size <= q[a] /\ q[a] < l * downsample_size + downsample_size
    BY <2>1, PointInItsCell DEF Increment!InBox, Increment!Cell, Increment!Axes
  <2>5. k = l
    BY ONLY <2>2, <2>3, <2>4, <2>1, OneInterval
  <2>6. QED
    BY <2>1, <2>5
<1>2. QED
  BY <1>1 DEF Increment!Cell, Increment!Axes

LEMMA DistanceIsInt ==
  ASSUME Increment!IncrementConstants, NEW p \in Points, NEW q \in Points
  PROVE  Increment!ToCentre(q, Increment!Cell(p)) \in Int
<1> DEFINE box == Increment!Cell(p)
<1>1. \A a \in 1..3 : q[a] \in Int /\ p[a] \in Int
  BY DEF Increment!IncrementConstants
<1>2. \A n \in Int : n \div downsample_size \in Int
  BY DEF Increment!IncrementConstants
<1>3. \A a \in 1..3 : box.min[a] \in Int /\ box.max[a] \in Int
  BY <1>1, <1>2 DEF Increment!Cell, Increment!Axes, Increment!IncrementConstants
<1> HIDE DEF box
<1>4. Increment!ToCentre(q, box) \in Int
  BY <1>1, <1>3 DEF Increment!ToCentre, Increment!Axes
<1>5. QED
  BY <1>4 DEF box

\* The two halves of the property, of every point that was stored or offered.
StoredCovered == \A p \in stored : Increment!IsCovered(p)

AsNear(q, p) ==
  Increment!ToCentre(q, Increment!Cell(p)) <= Increment!ToCentre(p, Increment!Cell(p))

SeenFound == \A p \in seen : \E q \in stored : AsNear(q, p)

LEMMA AsNearItself == ASSUME Increment!IncrementConstants, NEW p \in Points PROVE AsNear(p, p)
  BY DistanceIsInt DEF AsNear

LEMMA CoveredAfter ==
  ASSUME NEW r \in Points, NEW q \in Points,
         contents'[q] > 0, Increment!InBox(q, Increment!Cell(r)), AsNear(q, r)
  PROVE  Increment!IsCovered(r)'
  BY DEF Increment!IsCovered, Increment!InMap, AsNear, Increment!InBox, Increment!Cell,
         Increment!ToCentre, Increment!Axes

\* What is in the map covers its cell, whatever the step.
LEMMA InMapCovered ==
  ASSUME Increment!IncrementConstants, NEW p \in Points, contents'[p] > 0
  PROVE  Increment!IsCovered(p)'
  BY PointInItsCell, AsNearItself, CoveredAfter

\* A downsampled insertion leaves a point of the cell that no other is nearer than,
\* and so every cell that was covered.
LEMMA DownsampledLeaves ==
  ASSUME Increment!IncrementConstants, MapTypeOK, NEW p \in Points, Increment!InsertDownsampled(p)
  PROVE  /\ contents' \in [Points -> Nat]
         /\ \E q \in Points : contents'[q] > 0 /\ AsNear(q, p)
         /\ \A r \in Points : Increment!IsCovered(r) => Increment!IsCovered(r)'
<1> DEFINE box == Increment!Cell(p)
<1>1. PICK best \in Increment!Nearest(Increment!In(box) \cup {p}, box) :
         contents' = [q \in Points |-> IF Increment!InBox(q, box)
                                       THEN IF q = best THEN 1 ELSE 0
                                       ELSE contents[q]]
  BY DEF Increment!InsertDownsampled
<1>2. /\ best \in Points /\ Increment!InBox(best, box)
      /\ \A q \in Increment!In(box) : Increment!ToCentre(best, box) <= Increment!ToCentre(q, box)
      /\ AsNear(best, p)
  BY PointInItsCell DEF Increment!Nearest, Increment!In, AsNear
<1>3. contents'[best] = 1
  BY <1>1, <1>2
<1>4. contents' \in [Points -> Nat]
  BY <1>1 DEF MapTypeOK
<1>5. ASSUME NEW r \in Points, Increment!IsCovered(r) PROVE Increment!IsCovered(r)'
  <2>1. PICK q \in Points : contents[q] > 0 /\ Increment!InBox(q, Increment!Cell(r)) /\ AsNear(q, r)
    BY <1>5 DEF Increment!IsCovered, Increment!InMap, AsNear
  <2>2. PICK s \in Points :
           contents'[s] > 0 /\ Increment!InBox(s, Increment!Cell(r)) /\ AsNear(s, r)
    <3>1. CASE ~Increment!InBox(q, box)
      <4>1. contents'[q] = contents[q]
        BY <1>1, <3>1
      <4>2. QED
        BY <2>1, <4>1
    <3>2. CASE Increment!InBox(q, box)
      <4>1. Increment!Cell(r) = box
        <5>1. Increment!Cell(q) = Increment!Cell(r)
          BY <2>1, OneCell
        <5>2. Increment!Cell(q) = box
          BY <3>2, OneCell
        <5>3. QED
          BY <5>1, <5>2
      <4>2. Increment!ToCentre(best, box) <= Increment!ToCentre(q, box)
        BY <1>2, <2>1, <3>2 DEF Increment!In
      <4>3. /\ Increment!ToCentre(best, box) \in Int /\ Increment!ToCentre(q, box) \in Int
            /\ Increment!ToCentre(r, box) \in Int
        BY <1>2, DistanceIsInt
      <4>4. Increment!ToCentre(q, box) <= Increment!ToCentre(r, box)
        BY <2>1, <4>1 DEF AsNear
      <4>5. Increment!ToCentre(best, box) <= Increment!ToCentre(r, box)
        BY <4>2, <4>3, <4>4
      <4>6. AsNear(best, r)
        BY <4>1, <4>5 DEF AsNear
      <4>7. QED
        BY <1>2, <1>3, <4>1, <4>6
    <3>3. QED
      BY <3>1, <3>2
  <2>3. QED
    BY <2>2, CoveredAfter
<1>6. QED
  BY <1>2, <1>3, <1>4, <1>5

LEMMA InsertLeaves ==
  ASSUME Increment!IncrementConstants, MapTypeOK, NEW p \in Points, Increment!Insert(p)
  PROVE  /\ contents' \in [Points -> Nat]
         /\ \E q \in Points : contents'[q] > 0 /\ AsNear(q, p)
         /\ \A r \in Points : Increment!IsCovered(r) => Increment!IsCovered(r)'
<1>1. contents' \in [Points -> Nat] /\ contents'[p] > 0
  BY DEF Increment!Insert, MapTypeOK
<1>2. \A q \in Points : contents[q] > 0 => contents'[q] > 0
  BY DEF Increment!Insert, MapTypeOK
<1>3. ASSUME NEW r \in Points, Increment!IsCovered(r) PROVE Increment!IsCovered(r)'
  <2>1. PICK q \in Points : contents[q] > 0 /\ Increment!InBox(q, Increment!Cell(r)) /\ AsNear(q, r)
    BY <1>3 DEF Increment!IsCovered, Increment!InMap, AsNear
  <2>2. QED
    BY <1>2, <2>1, CoveredAfter
<1>4. QED
  BY <1>1, <1>3, AsNearItself

\* A point that is added leaves the cells covered, and is offered with one as near.
LEMMA EntersStep ==
  ASSUME Increment!IncrementConstants, MapTypeOK, StoredCovered, SeenFound, NEW p \in Points,
         Increment!AddDownsampled(p) \/ Increment!AddAlone(p)
  PROVE  MapTypeOK' /\ StoredCovered' /\ SeenFound'
<1>1. /\ contents' \in [Points -> Nat]
      /\ \E q \in Points : contents'[q] > 0 /\ AsNear(q, p)
      /\ \A r \in Points : Increment!IsCovered(r) => Increment!IsCovered(r)'
  BY DownsampledLeaves, InsertLeaves DEF Increment!AddDownsampled, Increment!AddAlone
<1>2. /\ seen' = seen \cup {p}
      /\ stored' = stored \cup {q \in Points : contents'[q] > 0}
      /\ PointToAdd' \subseteq PointToAdd
      /\ PointNoNeedDownsample' \subseteq PointNoNeedDownsample
  BY DEF Increment!AddDownsampled, Increment!AddAlone, Increment!Enters
<1>3. MapTypeOK'
  BY <1>1, <1>2 DEF MapTypeOK
<1>4. StoredCovered'
  <2>1. SUFFICES ASSUME NEW r \in stored' PROVE Increment!IsCovered(r)'
    BY DEF StoredCovered
  <2>2. CASE r \in stored
    BY <1>1, <2>2 DEF StoredCovered, MapTypeOK
  <2>3. CASE r \in Points /\ contents'[r] > 0
    BY <2>3, InMapCovered
  <2>4. QED
    BY <1>2, <2>2, <2>3
<1>5. SeenFound'
  <2>1. \A r \in seen : \E q \in stored' : AsNear(q, r)
    BY <1>2 DEF SeenFound
  <2>2. \E q \in stored' : AsNear(q, p)
    BY <1>1, <1>2
  <2>3. \A r \in seen' : \E q \in stored' : AsNear(q, r)
    BY <1>2, <2>1, <2>2
  <2>4. QED
    BY <2>3 DEF SeenFound, AsNear, Increment!Cell, Increment!ToCentre, Increment!Axes
<1>6. QED
  BY <1>3, <1>4, <1>5

\* What a decision refuses it refuses for a point of the map.
LEMMA RefusedFor ==
  ASSUME Increment!IncrementConstants, MapTypeOK, NEW p \in Points,
         <<p, "refuse">> \in Increment!Decisions
  PROVE  \E q \in stored : AsNear(q, p)
<1>1. PICK close \in Increment!Nearest_Points(p) : Increment!Decision(close, p) = "refuse"
  BY DEF Increment!Decisions
<1>2. Increment!Nearer(close, p)
  BY <1>1 DEF Increment!Decision
<1>3. PICK n \in DOMAIN close :
         Increment!ToCentre(close[n], Increment!Cell(p)) < Increment!ToCentre(p, Increment!Cell(p))
  BY <1>2 DEF Increment!Nearer
<1>4. close[n] \in Points /\ contents[close[n]] > 0
  <2>1. PICK r \in Points : close \in Increment!Neighbours(r)
    BY DEF Increment!Nearest_Points
  <2>2. QED
    BY <1>3, <2>1 DEF Increment!Neighbours, Increment!InMap
<1>5. AsNear(close[n], p)
  BY <1>3, <1>4, DistanceIsInt DEF AsNear
<1>6. QED
  BY <1>4, <1>5 DEF MapTypeOK

LEMMA DecideStep ==
  ASSUME Increment!IncrementConstants, MapTypeOK, StoredCovered, SeenFound,
         Increment!map_incremental
  PROVE  MapTypeOK' /\ StoredCovered' /\ SeenFound'
<1>1. Increment!Decide(Increment!Decisions)
  BY DEF Increment!map_incremental
<1>2. PICK cloud \in Increment!Scans :
        \E verdict \in [cloud -> {"add", "alone", "refuse"}] :
          /\ \A p \in cloud : <<p, verdict[p]>> \in Increment!Decisions
          /\ PointToAdd' = {p \in cloud : verdict[p] = "add"}
          /\ PointNoNeedDownsample' = {p \in cloud : verdict[p] = "alone"}
          /\ seen' = seen \cup {p \in cloud : verdict[p] = "refuse"}
  BY <1>1 DEF Increment!Decide
<1>3. PICK verdict \in [cloud -> {"add", "alone", "refuse"}] :
        /\ \A p \in cloud : <<p, verdict[p]>> \in Increment!Decisions
        /\ PointToAdd' = {p \in cloud : verdict[p] = "add"}
        /\ PointNoNeedDownsample' = {p \in cloud : verdict[p] = "alone"}
        /\ seen' = seen \cup {p \in cloud : verdict[p] = "refuse"}
  BY <1>2
<1>4. cloud \subseteq Points
  BY DEF Increment!Scans
<1>5. UNCHANGED <<contents, stored>>
  BY DEF Increment!map_incremental
<1>6. \A p \in seen' : p \in seen \/ (p \in Points /\ <<p, "refuse">> \in Increment!Decisions)
  BY <1>3, <1>4
<1>7. MapTypeOK'
  BY <1>3, <1>4, <1>5 DEF MapTypeOK
<1>8. StoredCovered'
  BY <1>5 DEF StoredCovered, Increment!IsCovered, Increment!InMap, Increment!InBox, Increment!Cell,
              Increment!ToCentre, Increment!Axes
<1>9. \A p \in seen' : \E q \in stored' : AsNear(q, p)
  BY <1>5, <1>6, RefusedFor DEF SeenFound
<1>10. SeenFound'
  BY <1>9 DEF SeenFound, AsNear, Increment!Cell, Increment!ToCentre, Increment!Axes
<1>11. QED
  BY <1>7, <1>8, <1>10

\* For any points, edge of a cell, number of neighbours and movement after the search:
\* no scan empties a cell of the map or makes it worse, and every point of a scan finds
\* one at least as near to the centre of its cell, though the scan is decided on
\* neighbours that its own points replace.
THEOREM PointsStayRepresented == Increment!IncrementSpec => []PointsAreRepresented
<1>0. Increment!IncrementConstants
  BY OdometryAssumption
<1>1. Increment!IncrementInit => MapTypeOK /\ StoredCovered /\ SeenFound
  BY DEF Increment!IncrementInit, Increment!Init, MapTypeOK, StoredCovered, SeenFound
<1>2. MapTypeOK /\ StoredCovered /\ SeenFound /\ [Increment!IncrementNext]_(Increment!mapVars)
      => MapTypeOK' /\ StoredCovered' /\ SeenFound'
  <2> SUFFICES ASSUME MapTypeOK, StoredCovered, SeenFound,
                      [Increment!IncrementNext]_(Increment!mapVars)
               PROVE  MapTypeOK' /\ StoredCovered' /\ SeenFound'
    OBVIOUS
  <2>1. CASE Increment!BuildMap
    <3>1. /\ contents' \in [Points -> 0..1] /\ stored' = {p \in Points : contents'[p] > 0}
          /\ UNCHANGED <<PointToAdd, PointNoNeedDownsample, seen>> /\ seen = {}
      BY <2>1 DEF Increment!BuildMap, Increment!Fill
    <3>2. MapTypeOK'
      BY <3>1 DEF MapTypeOK
    <3>3. StoredCovered'
      BY <1>0, <3>1, InMapCovered DEF StoredCovered
    <3>4. SeenFound'
      BY <3>1 DEF SeenFound
    <3>5. QED
      BY <3>2, <3>3, <3>4
  <2>2. CASE Increment!map_incremental
    BY <1>0, <2>2, DecideStep
  <2>3. ASSUME NEW p \in Points, Increment!AddDownsampled(p) \/ Increment!AddAlone(p)
        PROVE  MapTypeOK' /\ StoredCovered' /\ SeenFound'
    BY <1>0, <2>3, EntersStep
  <2>4. CASE UNCHANGED <<contents, PointToAdd, PointNoNeedDownsample, stored, seen>>
    <3>1. MapTypeOK'
      BY <2>4 DEF MapTypeOK
    <3>2. StoredCovered'
      BY <2>4 DEF StoredCovered, Increment!IsCovered, Increment!InMap, Increment!InBox,
                  Increment!Cell, Increment!ToCentre, Increment!Axes
    <3>3. SeenFound'
      BY <2>4 DEF SeenFound, AsNear, Increment!Cell, Increment!ToCentre, Increment!Axes
    <3>4. QED
      BY <3>1, <3>2, <3>3
  <2>5. QED
    BY <2>1, <2>2, <2>3, <2>4 DEF Increment!IncrementNext, Increment!mapVars
<1>3. StoredCovered /\ SeenFound => PointsAreRepresented
  BY DEF StoredCovered, SeenFound, AsNear, PointsAreRepresented, Increment!PointsAreRepresented
<1>4. QED
  BY <1>1, <1>2, <1>3, PTL DEF Increment!IncrementSpec
-----------------------------------------------------------------------------
(* FastLio: poses and their scans *)

LioScan == [number : Nat, stamp : Nat, size : Nat, down : Nat, span : Nat]
LioMeasures == [lidar : LioScan \cup {NoScan}, beg : Nat, end : Nat, imu : Seq(Nat)]

LioTypeOK ==
  /\ next_lidar \in Nat /\ next_imu \in Nat /\ scans \in Nat
  /\ lidar_buffer \in Seq(LioScan) /\ time_buffer \in Seq(Nat) /\ imu_buffer \in Seq(Nat)
  /\ last_timestamp_lidar \in Nat /\ last_timestamp_imu \in Int
  /\ lidar_pushed \in BOOLEAN /\ Measures \in LioMeasures
  /\ scan_num \in Nat /\ total_scantime \in Nat
  /\ flg_first_scan \in BOOLEAN /\ imu_need_init_ \in BOOLEAN /\ starved \in BOOLEAN
  /\ last_imu_ \in Int /\ last_lidar_end_time_ \in Int /\ filter_time \in Int
  /\ odometry.stamp \in Int /\ odometry.time \in Int

\* A buffered scan and its stamp stay side by side.
StampsKept ==
  /\ Len(time_buffer) = Len(lidar_buffer)
  /\ \A k \in DOMAIN lidar_buffer : time_buffer[k] = lidar_buffer[k].stamp
  /\ last_timestamp_lidar <= next_lidar
  /\ Measures.lidar # NoScan => Measures.beg = Measures.lidar.stamp

\* Before the filter is initialized there are no points to match.
PointsOfScan ==
  /\ ~starved => odometry.number = odometry.measured
  /\ imu_need_init_ => feats_undistort = NoScan /\ ~starved
  /\ odometry # Lio!NoMessage => ~imu_need_init_ /\ ~flg_first_scan

SamplesInOrder ==
  /\ last_timestamp_imu < next_imu
  /\ \A k \in DOMAIN imu_buffer : imu_buffer[k] < next_imu
  /\ \A j, k \in DOMAIN imu_buffer : j < k => imu_buffer[j] < imu_buffer[k]

\* Since the last pose the filter and the end of the last scan moved together, and
\* the samples left are not before that end.
FilterKeepsTime ==
  odometry # Lio!NoMessage /\ ~starved =>
    /\ last_imu_ <= last_lidar_end_time_
    /\ last_lidar_end_time_ <= last_timestamp_imu
    /\ \A k \in DOMAIN imu_buffer : last_lidar_end_time_ <= imu_buffer[k]
    /\ odometry.stamp <= last_lidar_end_time_
    /\ filter_time - last_lidar_end_time_ = odometry.time - odometry.stamp

LioInv ==
  /\ loops \in Nat
  /\ loops = 0 => LioTypeOK /\ StampsKept /\ PointsOfScan /\ SamplesInOrder /\ FilterKeepsTime

LEMMA LioInvInit == ASSUME Lio!LioConstants, Lio!Init PROVE LioInv
<1>1. LioTypeOK
  <2>1. Measures \in LioMeasures
    BY DEF Lio!Init, LioMeasures
  <2>2. odometry.stamp \in Int /\ odometry.time \in Int /\ last_lidar_end_time_ \in Int
    BY DEF Lio!Init, Lio!LioConstants, Lio!NoMessage
  <2>3. /\ next_lidar \in Nat /\ next_imu \in Nat /\ scans \in Nat
        /\ last_timestamp_lidar \in Nat /\ last_timestamp_imu \in Int
        /\ scan_num \in Nat /\ total_scantime \in Nat /\ last_imu_ \in Int /\ filter_time \in Int
    BY DEF Lio!Init
  <2>4. lidar_buffer \in Seq(LioScan) /\ time_buffer \in Seq(Nat) /\ imu_buffer \in Seq(Nat)
    BY DEF Lio!Init
  <2>5. /\ lidar_pushed \in BOOLEAN /\ flg_first_scan \in BOOLEAN
        /\ imu_need_init_ \in BOOLEAN /\ starved \in BOOLEAN
    BY DEF Lio!Init
  <2>6. QED
    BY <2>1, <2>2, <2>3, <2>4, <2>5 DEF LioTypeOK
<1>2. StampsKept /\ PointsOfScan /\ SamplesInOrder /\ FilterKeepsTime
  BY DEF Lio!Init, StampsKept, PointsOfScan, SamplesInOrder, FilterKeepsTime, Lio!NoMessage
<1>3. QED
  BY <1>1, <1>2 DEF Lio!Init, LioInv


LEMMA AppendedTo ==
  ASSUME NEW T, NEW s \in Seq(T), NEW x \in T
  PROVE  /\ Append(s, x) \in Seq(T) /\ Len(Append(s, x)) = Len(s) + 1 /\ Len(s) \in Nat
         /\ DOMAIN Append(s, x) = DOMAIN s \cup {Len(s) + 1} /\ DOMAIN s = 1..Len(s)
         /\ Append(s, x)[Len(s) + 1] = x
         /\ \A k \in DOMAIN s : Append(s, x)[k] = s[k]
  OBVIOUS

LEMMA LidarHeard ==
  ASSUME Lio!LioConstants, LioInv, loops = 0, NEW cloud \in LioClouds, Lio!pcl_cbk(cloud)
  PROVE  LioInv'
<1> DEFINE new == [number |-> scans + 1, stamp |-> next_lidar,
                   size |-> cloud.size, down |-> cloud.down, span |-> cloud.span]
<1>0. LioTypeOK /\ StampsKept /\ PointsOfScan /\ SamplesInOrder /\ FilterKeepsTime
  BY DEF LioInv
<1>1. /\ new \in LioScan /\ new.stamp = next_lidar
  <2>1. cloud \in [size : Nat, down : Nat, span : Nat]
    BY DEF Lio!LioConstants
  <2>2. QED
    BY <1>0, <2>1 DEF LioScan, LioTypeOK
<1>2. /\ scans' = scans + 1 /\ next_lidar' = next_lidar + Period
      /\ lidar_buffer' = Append(lidar_buffer, new)
      /\ time_buffer' = Append(time_buffer, next_lidar)
      /\ last_timestamp_lidar' = next_lidar
  BY <1>0 DEF Lio!pcl_cbk, LioTypeOK, StampsKept
<1>3. /\ UNCHANGED <<next_imu, lost, loops, imu_buffer, last_timestamp_imu, lidar_pushed, Measures>>
      /\ UNCHANGED <<scan_num, total_scantime, flg_first_scan, imu_need_init_, starved>>
      /\ UNCHANGED <<last_imu_, last_lidar_end_time_, filter_time, odometry, feats_undistort>>
  BY DEF Lio!pcl_cbk, Lio!imu, Lio!sync, Lio!start, Lio!p_imu, Lio!feats, Lio!history
<1> HIDE DEF new
<1>4. /\ lidar_buffer' \in Seq(LioScan) /\ Len(lidar_buffer') = Len(lidar_buffer) + 1
      /\ DOMAIN lidar_buffer' = DOMAIN lidar_buffer \cup {Len(lidar_buffer) + 1}
      /\ lidar_buffer'[Len(lidar_buffer) + 1] = new
      /\ \A k \in DOMAIN lidar_buffer : lidar_buffer'[k] = lidar_buffer[k]
      /\ DOMAIN lidar_buffer = 1..Len(lidar_buffer)
  BY <1>0, <1>1, <1>2, AppendedTo DEF LioTypeOK
<1>5. /\ time_buffer' \in Seq(Nat) /\ Len(time_buffer') = Len(time_buffer) + 1
      /\ time_buffer'[Len(time_buffer) + 1] = next_lidar
      /\ \A k \in DOMAIN time_buffer : time_buffer'[k] = time_buffer[k]
      /\ DOMAIN time_buffer = 1..Len(time_buffer)
  BY <1>0, <1>2, AppendedTo DEF LioTypeOK
<1>6. LioTypeOK'
  <2>1. next_lidar' \in Nat /\ scans' \in Nat /\ last_timestamp_lidar' \in Nat
    BY <1>0, <1>2 DEF LioTypeOK, Lio!LioConstants
  <2>2. QED
    BY <1>0, <1>3, <1>4, <1>5, <2>1 DEF LioTypeOK
<1>7. StampsKept'
  <2>1. last_timestamp_lidar' <= next_lidar'
    BY <1>0, <1>2 DEF LioTypeOK, Lio!LioConstants
  <2>2. ASSUME NEW k \in DOMAIN lidar_buffer' PROVE time_buffer'[k] = lidar_buffer'[k].stamp
    <3>1. CASE k \in DOMAIN lidar_buffer
      BY <1>0, <1>4, <1>5, <3>1 DEF StampsKept
    <3>2. CASE k = Len(lidar_buffer) + 1
      BY <1>0, <1>1, <1>4, <1>5, <3>2 DEF StampsKept
    <3>3. QED
      BY <1>4, <3>1, <3>2
  <2>3. QED
    BY <1>0, <1>3, <1>4, <1>5, <2>1, <2>2 DEF StampsKept
<1>8. PointsOfScan' /\ SamplesInOrder' /\ FilterKeepsTime'
  BY <1>0, <1>3 DEF PointsOfScan, SamplesInOrder, FilterKeepsTime
<1>9. QED
  BY <1>3, <1>6, <1>7, <1>8 DEF LioInv

LEMMA ImuHeard ==
  ASSUME LioInv, loops = 0, Lio!imu_cbk
  PROVE  LioInv'
<1>0. LioTypeOK /\ StampsKept /\ PointsOfScan /\ SamplesInOrder /\ FilterKeepsTime
  BY DEF LioInv
<1>1. /\ next_imu' = next_imu + 1 /\ last_timestamp_imu' = next_imu
      /\ imu_buffer' = Append(imu_buffer, next_imu)
  BY <1>0 DEF Lio!imu_cbk, LioTypeOK, SamplesInOrder
<1>2. /\ UNCHANGED <<next_lidar, scans, loops, lidar_buffer, time_buffer, last_timestamp_lidar>>
      /\ UNCHANGED <<lidar_pushed, Measures, scan_num, total_scantime, flg_first_scan>>
      /\ UNCHANGED <<imu_need_init_, starved, last_imu_, last_lidar_end_time_, filter_time>>
      /\ UNCHANGED <<odometry, feats_undistort>>
  BY DEF Lio!imu_cbk, Lio!lidar, Lio!sync, Lio!start, Lio!p_imu, Lio!feats, Lio!history
<1>3. /\ imu_buffer' \in Seq(Nat) /\ Len(imu_buffer) \in Nat
      /\ DOMAIN imu_buffer' = DOMAIN imu_buffer \cup {Len(imu_buffer) + 1}
      /\ imu_buffer'[Len(imu_buffer) + 1] = next_imu
      /\ \A k \in DOMAIN imu_buffer : imu_buffer'[k] = imu_buffer[k] /\ imu_buffer[k] \in Nat
      /\ DOMAIN imu_buffer = 1..Len(imu_buffer)
  BY <1>0, <1>1, AppendedTo DEF LioTypeOK
<1>4. LioTypeOK'
  <2>1. next_imu' \in Nat /\ last_timestamp_imu' \in Int
    BY <1>0, <1>1 DEF LioTypeOK
  <2>2. QED
    BY <1>0, <1>2, <1>3, <2>1 DEF LioTypeOK
<1>5. StampsKept' /\ PointsOfScan'
  BY <1>0, <1>2 DEF StampsKept, PointsOfScan
<1>6. SamplesInOrder'
  <2>1. \A k \in DOMAIN imu_buffer' : imu_buffer'[k] < next_imu'
    BY <1>0, <1>1, <1>3 DEF LioTypeOK, SamplesInOrder
  <2>2. ASSUME NEW j \in DOMAIN imu_buffer', NEW k \in DOMAIN imu_buffer', j < k
        PROVE  imu_buffer'[j] < imu_buffer'[k]
    <3>1. j \in DOMAIN imu_buffer
      BY <1>3, <2>2
    <3>2. CASE k \in DOMAIN imu_buffer
      BY <1>0, <1>3, <2>2, <3>1, <3>2 DEF SamplesInOrder
    <3>3. CASE k = Len(imu_buffer) + 1
      BY <1>0, <1>3, <3>1, <3>3 DEF SamplesInOrder
    <3>4. QED
      BY <1>3, <3>2, <3>3
  <2>3. QED
    BY <1>0, <1>1, <2>1, <2>2 DEF LioTypeOK, SamplesInOrder
<1>7. FilterKeepsTime'
  <2>1. SUFFICES ASSUME odometry # Lio!NoMessage, ~starved PROVE FilterKeepsTime'
    BY <1>2 DEF FilterKeepsTime
  <2>2. last_lidar_end_time_ <= last_timestamp_imu /\ last_timestamp_imu < next_imu
    BY <1>0, <2>1 DEF FilterKeepsTime, SamplesInOrder
  <2>3. last_lidar_end_time_ <= next_imu
    BY <1>0, <2>2 DEF LioTypeOK
  <2>4. \A k \in DOMAIN imu_buffer' : last_lidar_end_time_ <= imu_buffer'[k]
    BY <1>0, <1>3, <2>1, <2>3 DEF FilterKeepsTime
  <2>5. QED
    BY <1>0, <1>1, <1>2, <2>1, <2>3, <2>4 DEF FilterKeepsTime
<1>8. QED
  BY <1>2, <1>4, <1>5, <1>6, <1>7 DEF LioInv

\* Every step but those of the timer.
LEMMA SensorsInv ==
  ASSUME Lio!LioConstants, LioInv, loops = 0,
         \/ Lio!Lose \/ Lio!StartOver \/ Lio!imu_cbk \/ \E cloud \in LioClouds : Lio!pcl_cbk(cloud)
         \/ Lio!map_publish_callback \/ Lio!map_save_callback \/ UNCHANGED Lio!vars
  PROVE  LioInv'
<1>0. LioTypeOK /\ StampsKept /\ PointsOfScan /\ SamplesInOrder /\ FilterKeepsTime
  BY DEF LioInv
<1> DEFINE Rest == UNCHANGED <<lidar_buffer, time_buffer, imu_buffer, last_timestamp_lidar,
                               last_timestamp_imu, lidar_pushed, Measures, scan_num,
                               total_scantime, flg_first_scan, imu_need_init_, starved,
                               last_imu_, last_lidar_end_time_, filter_time, odometry,
                               feats_undistort>>
<1>1. ASSUME Rest, loops' = loops, next_lidar' \in Nat, next_imu' \in Nat, scans' \in Nat,
             next_lidar <= next_lidar', next_imu <= next_imu'
      PROVE  LioInv'
  <2>1. LioTypeOK' /\ PointsOfScan' /\ FilterKeepsTime'
    BY <1>0, <1>1 DEF LioTypeOK, PointsOfScan, FilterKeepsTime
  <2>2. StampsKept'
    <3>1. last_timestamp_lidar <= next_lidar'
      BY <1>0, <1>1 DEF LioTypeOK, StampsKept
    <3>2. QED
      BY <1>0, <1>1, <3>1 DEF StampsKept
  <2>3. SamplesInOrder'
    <3>1. last_timestamp_imu < next_imu'
      BY <1>0, <1>1 DEF LioTypeOK, SamplesInOrder
    <3>2. \A k \in DOMAIN imu_buffer : imu_buffer[k] < next_imu'
      BY <1>0, <1>1 DEF LioTypeOK, SamplesInOrder
    <3>3. QED
      BY <1>0, <1>1, <3>1, <3>2 DEF SamplesInOrder
  <2>4. QED
    BY <1>1, <2>1, <2>2, <2>3 DEF LioInv
<1>2. CASE Lio!Lose
  <2>1. Rest /\ loops' = loops
    BY <1>2 DEF Lio!Lose, Lio!lidar, Lio!imu, Lio!sync, Lio!start, Lio!p_imu, Lio!feats, Lio!history
  <2>2. \/ scans' = scans + 1 /\ next_lidar' = next_lidar + Period /\ next_imu' = next_imu
        \/ scans' = scans /\ next_lidar' = next_lidar /\ next_imu' = next_imu + 1
    BY <1>2 DEF Lio!Lose
  <2> HIDE DEF Rest
  <2>3. QED
    BY <1>0, <1>1, <2>1, <2>2 DEF LioTypeOK, Lio!LioConstants
<1>3. CASE Lio!StartOver
  BY <1>3 DEF Lio!StartOver, LioInv
<1>4. CASE Lio!imu_cbk \/ \E cloud \in LioClouds : Lio!pcl_cbk(cloud)
  BY <1>4, ImuHeard, LidarHeard
<1>5. CASE Lio!map_publish_callback \/ Lio!map_save_callback \/ UNCHANGED Lio!vars
  <2>1. Rest /\ UNCHANGED <<loops, next_lidar, next_imu, scans>>
    BY <1>5 DEF Lio!map_publish_callback, Lio!map_save_callback, Lio!vars, Lio!sensors, Lio!lidar,
                Lio!imu, Lio!sync, Lio!start, Lio!p_imu, Lio!feats, Lio!history
  <2> HIDE DEF Rest
  <2>2. QED
    BY <1>0, <1>1, <2>1 DEF LioTypeOK
<1>6. QED
  BY <1>2, <1>3, <1>4, <1>5

\* sync_packages: the stamp of a scan, and its share of the samples.
LEMMA MeanIsNat == ASSUME LioTypeOK PROVE Lio!lidar_mean_scantime \in Nat
<1>1. \A m, n \in Nat : n # 0 => m \div n \in Nat
  OBVIOUS
<1>2. QED
  BY <1>1 DEF LioTypeOK, Lio!lidar_mean_scantime

LEMMA PushedKeepsStamp ==
  ASSUME LioTypeOK, StampsKept, Lio!Buffered
  PROVE  /\ Lio!Pushed \in LioMeasures
         /\ Lio!Pushed.lidar # NoScan => Lio!Pushed.beg = Lio!Pushed.lidar.stamp
<1> DEFINE scan0 == Head(lidar_buffer)
           beg0 == Head(time_buffer)
           span0 == IF Lio!CutShort(scan0) THEN Lio!lidar_mean_scantime ELSE scan0.span
<1>1. scan0 \in LioScan /\ beg0 \in Nat /\ beg0 = scan0.stamp
  <2>1. /\ 1 \in DOMAIN lidar_buffer /\ scan0 = lidar_buffer[1]
        /\ lidar_buffer[1] \in LioScan
    BY DEF LioTypeOK, Lio!Buffered
  <2>2. beg0 = time_buffer[1] /\ time_buffer[1] \in Nat
    BY <2>1 DEF LioTypeOK, StampsKept, Lio!Buffered
  <2>3. QED
    BY <2>1, <2>2 DEF StampsKept
<1>2. span0 \in Nat
  BY <1>1, MeanIsNat DEF LioScan
<1>3. Lio!Pushed = IF lidar_pushed THEN Measures
                   ELSE [Measures EXCEPT !.lidar = scan0, !.beg = beg0, !.end = beg0 + span0]
  BY DEF Lio!Pushed
<1>4. beg0 + span0 \in Nat
  BY <1>1, <1>2
<1> HIDE DEF scan0, beg0, span0
<1>5. CASE lidar_pushed
  BY <1>3, <1>5 DEF LioTypeOK, StampsKept
<1>6. CASE ~lidar_pushed
  <2>1. Measures \in LioMeasures
    BY DEF LioTypeOK
  <2>2. Lio!Pushed = [lidar |-> scan0, beg |-> beg0, end |-> beg0 + span0, imu |-> Measures.imu]
    BY <1>3, <1>6, <2>1 DEF LioMeasures
  <2>3. Measures.imu \in Seq(Nat)
    BY <2>1 DEF LioMeasures
  <2>4. QED
    BY <1>1, <1>4, <2>2, <2>3 DEF LioMeasures
<1>7. QED
  BY <1>5, <1>6

LEMMA SamplesShared ==
  ASSUME LioTypeOK, SamplesInOrder, imu_buffer # <<>>, NEW end \in Nat, NEW n, n = Lio!Share(end)
  PROVE  /\ n \in 0..Len(imu_buffer) /\ Len(imu_buffer) \in Nat
         /\ \A k \in 1..n : imu_buffer[k] <= end
         /\ \A k \in (n + 1)..Len(imu_buffer) : end <= imu_buffer[k]
         /\ n # 0 => imu_buffer[1] < end
<1> DEFINE len == Len(imu_buffer)
           before == {k \in DOMAIN imu_buffer : imu_buffer[k] < end}
           Others == {k \in 1..(len + 1) : k \notin before}
<1>1. /\ DOMAIN imu_buffer = 1..len /\ len \in Nat /\ len # 0
      /\ \A k \in 1..len : imu_buffer[k] \in Nat
      /\ Head(imu_buffer) = imu_buffer[1]
  BY DEF LioTypeOK
<1>2. \A j, k \in 1..len : j < k => imu_buffer[j] < imu_buffer[k]
  BY <1>1 DEF SamplesInOrder
<1>3. CASE imu_buffer[1] >= end
  <2>1. n = 0
    BY <1>1, <1>3 DEF Lio!Share
  <2>2. \A k \in 1..len : end <= imu_buffer[k]
    BY <1>1, <1>2, <1>3
  <2>3. QED
    BY <1>1, <2>1, <2>2
<1>4. CASE ~(imu_buffer[1] >= end)
  <2>1. PICK last \in before : last + 1 \notin before
    <3>1. Others # {} /\ Others \subseteq Nat
      BY <1>1
    <3>2. PICK least \in Others : \A k \in Others : least <= k
      <4> HIDE DEF Others
      <4>1. QED
        BY <3>1, LeastOf
    <3>3. 1 \in before
      BY <1>1, <1>4
    <3>4. least \in 2..(len + 1) /\ (least - 1) + 1 = least /\ least \notin before
      BY <1>1, <3>2, <3>3
    <3>5. least - 1 \in before
      BY <1>1, <3>2, <3>4
    <3>6. QED
      BY <3>4, <3>5
  <2> DEFINE m == CHOOSE k \in before : k + 1 \notin before
  <2>2. m \in before /\ m + 1 \notin before
    BY <2>1
  <2>3. n = IF m < len /\ imu_buffer[m + 1] = end THEN m + 1 ELSE m
    BY <1>1, <1>4 DEF Lio!Share
  <2>4. m \in 1..len /\ imu_buffer[m] < end
    BY <1>1, <2>2
  <2>5. m + 1 \in 1..len => imu_buffer[m + 1] >= end
    BY <1>1, <2>2
  <2> HIDE DEF m, before, Others
  <2>6. \A k \in 1..m : imu_buffer[k] <= end
    BY <1>1, <1>2, <2>4
  <2>7. \A k \in (m + 1)..len : end <= imu_buffer[k]
    <3>1. SUFFICES ASSUME NEW k \in (m + 1)..len PROVE end <= imu_buffer[k]
      OBVIOUS
    <3>2. m + 1 \in 1..len /\ k \in 1..len /\ (k = m + 1 \/ m + 1 < k)
      BY <1>1, <2>4
    <3>3. imu_buffer[m + 1] >= end /\ (k = m + 1 \/ imu_buffer[m + 1] < imu_buffer[k])
      BY <1>2, <2>5, <3>2
    <3>4. QED
      BY <1>1, <3>2, <3>3
  <2>8. CASE n = m
    BY <1>1, <1>4, <2>4, <2>6, <2>7, <2>8
  <2>9. CASE m < len /\ imu_buffer[m + 1] = end /\ n = m + 1
    <3>1. \A k \in 1..(m + 1) : imu_buffer[k] <= end
      BY <1>1, <2>4, <2>6, <2>9
    <3>2. QED
      BY <1>1, <1>4, <2>4, <2>7, <2>9, <3>1
  <2>10. QED
    BY <2>3, <2>8, <2>9
<1>5. QED
  BY <1>3, <1>4

LEMMA Parts ==
  ASSUME NEW T, NEW s \in Seq(T), NEW n \in 0..Len(s)
  PROVE  /\ SubSeq(s, 1, n) \in Seq(T) /\ Len(SubSeq(s, 1, n)) = n
         /\ DOMAIN SubSeq(s, 1, n) = 1..n
         /\ \A k \in 1..n : SubSeq(s, 1, n)[k] = s[k]
         /\ SubSeq(s, n + 1, Len(s)) \in Seq(T) /\ Len(SubSeq(s, n + 1, Len(s))) = Len(s) - n
         /\ DOMAIN SubSeq(s, n + 1, Len(s)) = 1..(Len(s) - n)
         /\ \A k \in 1..(Len(s) - n) : SubSeq(s, n + 1, Len(s))[k] = s[n + k] /\ n + k \in (n + 1)..Len(s)
  OBVIOUS

\* What sync_packages hands over, and what it leaves.
LioShare ==
  /\ Measures' \in LioMeasures
  /\ Measures'.end <= last_timestamp_imu
  /\ \A k \in DOMAIN Measures'.imu : Measures'.imu[k] = imu_buffer[k] /\ k \in DOMAIN imu_buffer
  /\ \A k \in DOMAIN Measures'.imu : Measures'.imu[k] <= Measures'.end
  /\ Measures'.imu # <<>> => Measures'.imu[1] < Measures'.end
  /\ \A k \in DOMAIN imu_buffer' : Measures'.end <= imu_buffer'[k]

LEMMA SyncKeeps ==
  ASSUME LioTypeOK, StampsKept, SamplesInOrder, Lio!sync_packages
  PROVE  /\ StampsKept' /\ SamplesInOrder' /\ LioShare
         /\ UNCHANGED <<next_lidar, next_imu, scans, loops, last_timestamp_lidar, last_timestamp_imu>>
         /\ lidar_buffer' \in Seq(LioScan) /\ time_buffer' \in Seq(Nat) /\ imu_buffer' \in Seq(Nat)
         /\ scan_num' \in Nat /\ total_scantime' \in Nat /\ ~lidar_pushed' /\ lidar_pushed' \in BOOLEAN
<1>00. PICK pushed : pushed = Lio!Pushed
  OBVIOUS
<1>6. PICK n : n = Lio!Share(pushed.end)
  OBVIOUS
<1>1. Lio!Buffered /\ lidar_buffer # <<>> /\ imu_buffer # <<>>
  BY DEF Lio!sync_packages, Lio!Buffered
<1>2. pushed \in LioMeasures /\ (pushed.lidar # NoScan => pushed.beg = pushed.lidar.stamp)
  BY <1>1, <1>00, PushedKeepsStamp
<1>3. pushed.end \in Nat
  BY <1>2 DEF LioMeasures
<1>4. /\ pushed.end <= last_timestamp_imu
      /\ Measures' = [pushed EXCEPT !.imu = SubSeq(imu_buffer, 1, n)]
      /\ imu_buffer' = SubSeq(imu_buffer, n + 1, Len(imu_buffer))
      /\ lidar_buffer' = Tail(lidar_buffer) /\ time_buffer' = Tail(time_buffer)
      /\ ~lidar_pushed' /\ lidar_pushed' \in BOOLEAN
      /\ UNCHANGED <<next_lidar, next_imu, scans, loops, last_timestamp_lidar, last_timestamp_imu>>
  BY <1>00, <1>3, <1>6 DEF Lio!sync_packages, Lio!sensors, LioTypeOK
<1>5. scan_num' \in Nat /\ total_scantime' \in Nat
  <2>1. Head(lidar_buffer) \in LioScan
    BY <1>1 DEF LioTypeOK
  <2>2. Head(lidar_buffer).span \in Nat
    BY <2>1 DEF LioScan
  <2>3. Lio!Counted
    BY DEF Lio!sync_packages
  <2>4. QED
    BY <2>2, <2>3 DEF Lio!Counted, LioTypeOK
<1>7. /\ n \in 0..Len(imu_buffer) /\ Len(imu_buffer) \in Nat
      /\ \A k \in 1..n : imu_buffer[k] <= pushed.end
      /\ \A k \in (n + 1)..Len(imu_buffer) : pushed.end <= imu_buffer[k]
      /\ n # 0 => imu_buffer[1] < pushed.end
  <2>1. n \in 0..Len(imu_buffer) /\ Len(imu_buffer) \in Nat
    BY <1>1, <1>3, <1>6, SamplesShared
  <2>2. \A k \in 1..n : imu_buffer[k] <= pushed.end
    BY <1>1, <1>3, <1>6, SamplesShared
  <2>3. \A k \in (n + 1)..Len(imu_buffer) : pushed.end <= imu_buffer[k]
    BY <1>1, <1>3, <1>6, SamplesShared
  <2>4. n # 0 => imu_buffer[1] < pushed.end
    BY <1>1, <1>3, <1>6, SamplesShared
  <2>5. QED
    BY <2>1, <2>2, <2>3, <2>4
<1>8. /\ imu_buffer \in Seq(Nat) /\ DOMAIN imu_buffer = 1..Len(imu_buffer)
  BY DEF LioTypeOK
<1>b. PICK front : front = SubSeq(imu_buffer, 1, n)
  OBVIOUS
<1>9. /\ front \in Seq(Nat) /\ DOMAIN front = 1..n /\ Len(front) = n
      /\ \A k \in 1..n : front[k] = imu_buffer[k]
  BY <1>b, <1>7, <1>8, Parts
<1>d. /\ imu_buffer' \in Seq(Nat) /\ DOMAIN imu_buffer' = 1..(Len(imu_buffer) - n)
      /\ \A k \in 1..(Len(imu_buffer) - n) : /\ imu_buffer'[k] = imu_buffer[n + k]
                                             /\ n + k \in (n + 1)..Len(imu_buffer)
  <2>1. PICK rest : rest = SubSeq(imu_buffer, n + 1, Len(imu_buffer))
    OBVIOUS
  <2>2. rest \in Seq(Nat) /\ DOMAIN rest = 1..(Len(imu_buffer) - n)
    BY <1>7, <1>8, <2>1, Parts
  <2>3. \A k \in 1..(Len(imu_buffer) - n) : rest[k] = imu_buffer[n + k]
    BY <1>7, <1>8, <2>1, Parts
  <2>4. \A k \in 1..(Len(imu_buffer) - n) : n + k \in (n + 1)..Len(imu_buffer)
    BY <1>7
  <2>5. imu_buffer' = rest
    BY <1>4, <2>1
  <2>6. QED
    BY <2>2, <2>3, <2>4, <2>5
<1>10. front # <<>> => n # 0 /\ front[1] = imu_buffer[1]
  BY <1>7, <1>9
<1>11. /\ Measures' = [lidar |-> pushed.lidar, beg |-> pushed.beg, end |-> pushed.end, imu |-> front]
       /\ Measures' \in LioMeasures
  <2>1. Measures' = [pushed EXCEPT !.imu = front]
    BY <1>b, <1>4
  <2>2. QED
    BY <1>2, <1>9, <2>1 DEF LioMeasures
<1>12. LioShare
  <2>1. Measures'.imu = front /\ Measures'.end = pushed.end
    BY <1>11
  <2>2. \A k \in DOMAIN front : /\ front[k] = imu_buffer[k] /\ k \in DOMAIN imu_buffer
                                /\ front[k] <= pushed.end
    BY <1>7, <1>8, <1>9
  <2>3. front # <<>> => front[1] < pushed.end
    BY <1>7, <1>10
  <2>4. \A k \in DOMAIN imu_buffer' : pushed.end <= imu_buffer'[k]
    BY <1>7, <1>d
  <2>5. QED
    BY <1>4, <1>11, <2>1, <2>2, <2>3, <2>4 DEF LioShare
<1>13. SamplesInOrder'
  <2>1. \A k \in DOMAIN imu_buffer' : imu_buffer'[k] < next_imu'
    <3>1. ASSUME NEW k \in DOMAIN imu_buffer' PROVE imu_buffer'[k] < next_imu
      <4>1. imu_buffer'[k] = imu_buffer[n + k] /\ n + k \in DOMAIN imu_buffer
        <5>1. k \in 1..(Len(imu_buffer) - n)
          BY <1>d
        <5>2. imu_buffer'[k] = imu_buffer[n + k] /\ n + k \in (n + 1)..Len(imu_buffer)
          BY <1>d, <5>1
        <5>3. n + k \in 1..Len(imu_buffer)
          BY <1>7, <5>1
        <5>4. QED
          BY <1>8, <5>2, <5>3
      <4>2. QED
        BY <4>1 DEF SamplesInOrder
    <3>2. QED
      BY <1>4, <3>1
  <2>2. ASSUME NEW j \in DOMAIN imu_buffer', NEW k \in DOMAIN imu_buffer', j < k
        PROVE  imu_buffer'[j] < imu_buffer'[k]
    <3>1. /\ n + j \in DOMAIN imu_buffer /\ n + k \in DOMAIN imu_buffer /\ n + j < n + k
          /\ imu_buffer'[j] = imu_buffer[n + j] /\ imu_buffer'[k] = imu_buffer[n + k]
      <4>1. j \in 1..(Len(imu_buffer) - n) /\ k \in 1..(Len(imu_buffer) - n)
        BY <1>d
      <4>2. n + j < n + k
        BY <1>7, <2>2, <4>1
      <4>3. n + j \in DOMAIN imu_buffer /\ n + k \in DOMAIN imu_buffer
        <5>1. n + j \in 1..Len(imu_buffer) /\ n + k \in 1..Len(imu_buffer)
          BY <1>7, <4>1
        <5>2. QED
          BY <1>8, <5>1
      <4>4. QED
        BY <1>d, <4>1, <4>2, <4>3
    <3>2. QED
      BY <3>1 DEF SamplesInOrder
  <2>3. QED
    BY <1>4, <2>1, <2>2 DEF SamplesInOrder
<1>c. \A T, s : s \in Seq(T) /\ s # <<>> =>
        /\ Tail(s) \in Seq(T) /\ Len(Tail(s)) = Len(s) - 1 /\ DOMAIN Tail(s) = 1..(Len(s) - 1)
        /\ \A k \in 1..(Len(s) - 1) : Tail(s)[k] = s[k + 1] /\ k + 1 \in DOMAIN s
  OBVIOUS
<1>14. /\ lidar_buffer' \in Seq(LioScan) /\ time_buffer' \in Seq(Nat)
       /\ Len(lidar_buffer') = Len(lidar_buffer) - 1 /\ Len(time_buffer') = Len(time_buffer) - 1
       /\ DOMAIN lidar_buffer' = 1..(Len(lidar_buffer) - 1)
       /\ \A k \in 1..(Len(lidar_buffer) - 1) :
             /\ lidar_buffer'[k] = lidar_buffer[k + 1] /\ time_buffer'[k] = time_buffer[k + 1]
             /\ k + 1 \in DOMAIN lidar_buffer
  <2>1. lidar_buffer \in Seq(LioScan) /\ time_buffer \in Seq(Nat) /\ Len(time_buffer) = Len(lidar_buffer)
    BY DEF LioTypeOK, StampsKept
  <2>2. time_buffer # <<>>
    BY <1>1, <2>1
  <2>3. QED
    BY <1>1, <1>4, <1>c, <2>1, <2>2
<1>15. StampsKept'
  <2>1. Measures'.lidar # NoScan => Measures'.beg = Measures'.lidar.stamp
    BY <1>2, <1>11
  <2>2. QED
    BY <1>4, <1>14, <2>1 DEF StampsKept
<1>16. QED
  BY <1>4, <1>5, <1>d, <1>12, <1>13, <1>14, <1>15

LEMMA AwaitInv == ASSUME LioInv, loops = 0, Lio!AwaitImu PROVE LioInv'
<1>0. LioTypeOK /\ StampsKept /\ PointsOfScan /\ SamplesInOrder /\ FilterKeepsTime
  BY DEF LioInv
<1>1. /\ Lio!Pushed \in LioMeasures
      /\ Lio!Pushed.lidar # NoScan => Lio!Pushed.beg = Lio!Pushed.lidar.stamp
  BY <1>0, PushedKeepsStamp DEF Lio!AwaitImu
<1>2. /\ Measures' = Lio!Pushed /\ lidar_pushed' /\ lidar_pushed' \in BOOLEAN
      /\ UNCHANGED <<loops, next_lidar, next_imu, scans, lidar_buffer, time_buffer, imu_buffer>>
      /\ UNCHANGED <<last_timestamp_lidar, last_timestamp_imu, flg_first_scan, imu_need_init_>>
      /\ UNCHANGED <<starved, last_imu_, last_lidar_end_time_, filter_time, odometry, feats_undistort>>
  BY DEF Lio!AwaitImu, Lio!sensors, Lio!lidar, Lio!imu, Lio!start, Lio!p_imu, Lio!feats, Lio!history
<1>3. scan_num' \in Nat /\ total_scantime' \in Nat
  <2>1. Head(lidar_buffer) \in LioScan
    BY <1>0 DEF LioTypeOK, Lio!AwaitImu, Lio!Buffered
  <2>2. Head(lidar_buffer).span \in Nat
    BY <2>1 DEF LioScan
  <2>3. Lio!Counted
    BY DEF Lio!AwaitImu
  <2>4. QED
    BY <1>0, <2>2, <2>3 DEF Lio!Counted, LioTypeOK
<1>4. LioTypeOK' /\ StampsKept'
  BY <1>0, <1>1, <1>2, <1>3 DEF LioTypeOK, StampsKept
<1>5. PointsOfScan' /\ SamplesInOrder' /\ FilterKeepsTime'
  BY <1>0, <1>2 DEF PointsOfScan, SamplesInOrder, FilterKeepsTime
<1>6. QED
  BY <1>2, <1>4, <1>5 DEF LioInv

\* What the filter is moved ahead by.
PredictStep(head, tail) ==
  IF tail < last_lidar_end_time_ THEN 0
  ELSE IF head < last_lidar_end_time_ THEN tail - last_lidar_end_time_
  ELSE tail - head

PredictStamps(m) == <<last_imu_>> \o m.imu

Predicts(sum, v) ==
  /\ sum \in [1..Len(v) -> Int]
  /\ sum[1] = 0
  /\ \A n \in 2..Len(v) : sum[n] = sum[n - 1] + PredictStep(v[n - 1], v[n])

\* The recursion of the model, unfolded.
LEMMA PredictedUnfolds ==
  ASSUME NEW m \in LioMeasures, m.imu # <<>>, last_imu_ \in Int, last_lidar_end_time_ \in Int,
         NEW v, v = PredictStamps(m)
  PROVE  /\ Len(v) = Len(m.imu) + 1 /\ Len(v) \in Nat /\ Len(v) >= 2
         /\ v[1] = last_imu_ /\ \A n \in 1..Len(v) : v[n] \in Int
         /\ \A n \in 2..Len(v) : v[n] = m.imu[n - 1] /\ n - 1 \in DOMAIN m.imu
         /\ \E sum : /\ Predicts(sum, v)
                     /\ LET rest == m.end - v[Len(v)]
                        IN  Lio!Predicted(m) = sum[Len(v)] + (IF rest > 0 THEN rest ELSE -rest)
<1> DEFINE len == Len(v)
           StepOf(head, tail) ==
             IF tail < last_lidar_end_time_ THEN 0
             ELSE IF head < last_lidar_end_time_ THEN tail - last_lidar_end_time_
             ELSE tail - head
           Body(g) == [n \in 1..len |-> IF n = 1 THEN 0 ELSE g[n - 1] + StepOf(v[n - 1], v[n])]
           sum == CHOOSE g : g = Body(g)
           rest == m.end - v[len]
           F == [x \in (1..(len - 1)) \X Int |-> x[2] + PredictStep(v[x[1]], v[x[1] + 1])]
<1>1. Lio!Predicted(m) = sum[len] + (IF rest > 0 THEN rest ELSE -rest)
  BY DEF Lio!Predicted, Lio!Last, PredictStamps
<1>2. /\ m.imu \in Seq(Nat) /\ m.end \in Nat
      /\ Len(m.imu) \in Nat /\ Len(m.imu) # 0 /\ DOMAIN m.imu = 1..Len(m.imu)
  BY DEF LioMeasures
<1>3. /\ len = Len(m.imu) + 1 /\ len \in Nat /\ len >= 2
      /\ v[1] = last_imu_
      /\ \A n \in 2..len : v[n] = m.imu[n - 1] /\ n - 1 \in DOMAIN m.imu
  BY <1>2 DEF PredictStamps
<1>4. \A n \in 1..len : v[n] \in Int
  <2>1. ASSUME NEW n \in 1..len, n # 1 PROVE v[n] \in Int
    <3>1. n \in 2..len
      BY <1>3, <2>1
    <3>2. v[n] = m.imu[n - 1] /\ n - 1 \in DOMAIN m.imu
      BY <1>3, <3>1
    <3>3. QED
      BY <1>2, <3>2
  <2>2. QED
    BY <1>3, <2>1
<1>5. \A head, tail : StepOf(head, tail) = PredictStep(head, tail)
  BY DEF PredictStep
<1>6. \A head, tail \in Int : PredictStep(head, tail) \in Int
  BY DEF PredictStep
<1> HIDE DEF len, StepOf
<1>7. F \in [(1..(len - 1)) \X Int -> Int]
  <2>1. ASSUME NEW x \in (1..(len - 1)) \X Int
        PROVE  x[2] + PredictStep(v[x[1]], v[x[1] + 1]) \in Int
    <3>1. x[1] \in 1..len /\ x[1] + 1 \in 1..len /\ x[2] \in Int
      BY <1>3
    <3>2. PredictStep(v[x[1]], v[x[1] + 1]) \in Int
      BY <1>4, <1>6, <3>1
    <3>3. QED
      BY <3>1, <3>2
  <2>2. QED
    BY <2>1
<1>8. \A n \in 1..(len - 1), y \in Int : F[<<n, y>>] = y + PredictStep(v[n], v[n + 1])
  OBVIOUS
<1> HIDE DEF F
<1>9. PICK g \in [0..(len - 1) -> Int] : Unfolded(g, 0, F, len - 1)
  <2>1. PICK top \in Nat : top = len - 1
    BY <1>3
  <2>2. F \in [(1..top) \X Int -> Int] /\ 0 \in Int
    BY <1>7, <2>1
  <2>3. \E g \in [0..top -> Int] : Unfolded(g, 0, F, top)
    BY <2>2, RecursionExists
  <2>4. QED
    BY <2>1, <2>3
<1>10. /\ g[0] = 0
       /\ \A n \in 1..(len - 1) : g[n] = g[n - 1] + PredictStep(v[n], v[n + 1])
  <2>1. g[0] = 0 /\ \A n \in 1..(len - 1) : g[n] = F[<<n, g[n - 1]>>]
    BY <1>9 DEF Unfolded
  <2>2. \A n \in 1..(len - 1) : n - 1 \in 0..(len - 1)
    BY <1>3
  <2>3. QED
    BY <1>8, <1>9, <2>1, <2>2
<1> DEFINE h == [n \in 1..len |-> g[n - 1]]
<1>11. h \in [1..len -> Int]
  <2>1. \A n \in 1..len : n - 1 \in 0..(len - 1)
    BY <1>3
  <2>2. QED
    BY <1>9, <2>1
<1>12. h = Body(h)
  <2>1. ASSUME NEW n \in 1..len
        PROVE  h[n] = IF n = 1 THEN 0 ELSE h[n - 1] + StepOf(v[n - 1], v[n])
    <3>1. CASE n = 1
      BY <1>3, <1>10, <3>1
    <3>2. CASE n # 1
      <4>1. n - 1 \in 1..(len - 1) /\ n - 1 \in 1..len /\ (n - 1) + 1 = n
        BY <1>3, <3>2
      <4>2. g[n - 1] = g[(n - 1) - 1] + PredictStep(v[n - 1], v[n])
        BY <1>10, <4>1
      <4>3. h[n] = g[n - 1] /\ h[n - 1] = g[(n - 1) - 1]
        BY <4>1
      <4>4. QED
        BY <1>5, <3>2, <4>2, <4>3
    <3>3. QED
      BY <3>1, <3>2
  <2>2. h = [n \in 1..len |-> h[n]]
    OBVIOUS
  <2> HIDE DEF h
  <2>3. QED
    BY <2>1, <2>2
<1>13. sum = Body(sum)
  <2> HIDE DEF Body, h
  <2>1. QED
    BY <1>12 DEF sum
<1> HIDE DEF sum
<1>14. sum[1] = 0
  BY <1>3, <1>13
<1>15. ASSUME NEW n \in 2..len PROVE sum[n] = sum[n - 1] + PredictStep(v[n - 1], v[n])
  <2>1. n \in 1..len /\ n # 1
    BY <1>3
  <2>2. sum[n] = sum[n - 1] + StepOf(v[n - 1], v[n])
    BY <1>13, <2>1
  <2>3. QED
    BY <1>5, <2>2
<1>16. sum \in [1..len -> Int]
  <2>1. sum = [n \in 1..len |-> sum[n]]
    BY <1>13
  <2> DEFINE Good == {n \in 0..(len - 1) : sum[n + 1] \in Int}
  <2>2. 0 \in Good
    BY <1>3, <1>14
  <2>3. ASSUME NEW n \in 0..((len - 1) - 1), n \in Good PROVE n + 1 \in Good
    <3>1. /\ n + 2 \in 2..len /\ n + 1 \in 1..len /\ n + 2 \in 1..len /\ (n + 2) - 1 = n + 1
          /\ (n + 1) + 1 = n + 2 /\ n + 1 \in 0..(len - 1)
      BY <1>3
    <3>2. sum[n + 2] = sum[n + 1] + PredictStep(v[n + 1], v[n + 2])
      BY <1>15, <3>1
    <3>3. sum[n + 1] \in Int /\ PredictStep(v[n + 1], v[n + 2]) \in Int
      BY <1>4, <1>6, <2>3, <3>1
    <3>4. QED
      BY <3>1, <3>2, <3>3
  <2> HIDE DEF Good
  <2>4. PICK top \in Nat : top = len - 1
    BY <1>3
  <2>5. 0..top \subseteq Good
    <3>1. \A n \in 0..(top - 1) : n \in Good => n + 1 \in Good
      BY <2>3, <2>4
    <3>2. QED
      BY <2>2, <3>1, InductionUpTo
  <2>6. ASSUME NEW n \in 1..len PROVE sum[n] \in Int
    <3>1. n - 1 \in Good /\ (n - 1) + 1 = n
      BY <1>3, <2>4, <2>5
    <3>2. QED
      BY <3>1 DEF Good
  <2>7. QED
    BY <2>1, <2>6
<1>17. Predicts(sum, v)
  BY <1>14, <1>15, <1>16 DEF Predicts, len
<1>18. QED
  BY <1>1, <1>3, <1>4, <1>17 DEF len

LEMMA PredictedIsInt ==
  ASSUME NEW m \in LioMeasures, m.imu # <<>>, last_imu_ \in Int, last_lidar_end_time_ \in Int
  PROVE  Lio!Predicted(m) \in Int
<1>1. PICK v : v = PredictStamps(m)
  OBVIOUS
<1>2. Len(v) \in Nat /\ Len(v) >= 2 /\ \A n \in 1..Len(v) : v[n] \in Int
  BY <1>1, PredictedUnfolds
<1>3. PICK sum : /\ Predicts(sum, v)
                 /\ LET rest == m.end - v[Len(v)]
                    IN  Lio!Predicted(m) = sum[Len(v)] + (IF rest > 0 THEN rest ELSE -rest)
  BY <1>1, PredictedUnfolds
<1>4. Len(v) \in 1..Len(v)
  BY <1>2
<1>5. sum[Len(v)] \in Int /\ v[Len(v)] \in Int
  BY <1>2, <1>3, <1>4 DEF Predicts
<1>6. m.end \in Int
  BY DEF LioMeasures
<1>7. QED
  BY <1>3, <1>5, <1>6

\* From sample to sample the filter is moved to the end of the scan, and to no other
\* time, when it stood at the end of the last one and no sample lies before that.
LEMMA PredictedToEnd ==
  ASSUME NEW m \in LioMeasures, m.imu # <<>>, last_imu_ \in Int, last_lidar_end_time_ \in Int,
         last_imu_ <= last_lidar_end_time_,
         \A k \in DOMAIN m.imu : last_lidar_end_time_ <= m.imu[k] /\ m.imu[k] <= m.end
  PROVE  Lio!Predicted(m) = m.end - last_lidar_end_time_
<1>1. PICK v : v = PredictStamps(m)
  OBVIOUS
<1>2. /\ Len(v) \in Nat /\ Len(v) >= 2 /\ v[1] = last_imu_ /\ \A n \in 1..Len(v) : v[n] \in Int
      /\ \A n \in 2..Len(v) : v[n] = m.imu[n - 1] /\ n - 1 \in DOMAIN m.imu
  BY <1>1, PredictedUnfolds
<1>3. PICK sum : /\ Predicts(sum, v)
                 /\ LET rest == m.end - v[Len(v)]
                    IN  Lio!Predicted(m) = sum[Len(v)] + (IF rest > 0 THEN rest ELSE -rest)
  BY <1>1, PredictedUnfolds
<1>4. ASSUME NEW n \in 2..Len(v)
      PROVE  v[n] \in Int /\ last_lidar_end_time_ <= v[n] /\ v[n] <= m.end
  <2>1. v[n] = m.imu[n - 1] /\ n - 1 \in DOMAIN m.imu /\ n \in 1..Len(v)
    BY <1>2
  <2>2. QED
    BY <1>2, <2>1
<1>5. /\ sum[1] = 0
      /\ \A n \in 2..Len(v) : sum[n] = sum[n - 1] + PredictStep(v[n - 1], v[n])
  BY <1>3 DEF Predicts
<1> DEFINE Good == {n \in 0..(Len(v) - 1) : n = 0 \/ sum[n + 1] = v[n + 1] - last_lidar_end_time_}
<1>6. 0 \in Good
  BY <1>2
<1>7. ASSUME NEW n \in 0..((Len(v) - 1) - 1), n \in Good PROVE n + 1 \in Good
  <2>1. /\ n + 2 \in 2..Len(v) /\ (n + 2) - 1 = n + 1 /\ (n + 1) + 1 = n + 2
        /\ n + 1 \in 0..(Len(v) - 1)
    BY <1>2
  <2>2. sum[n + 2] = sum[n + 1] + PredictStep(v[n + 1], v[n + 2])
    BY <1>5, <2>1
  <2>3. v[n + 2] \in Int /\ last_lidar_end_time_ <= v[n + 2]
    BY <1>4, <2>1
  <2>4. sum[n + 2] = v[n + 2] - last_lidar_end_time_
    <3>1. CASE n = 0
      BY <1>2, <1>5, <2>2, <2>3, <3>1 DEF PredictStep
    <3>2. CASE n # 0
      <4>1. n + 1 \in 2..Len(v)
        BY <1>2, <3>2
      <4>2. v[n + 1] \in Int /\ last_lidar_end_time_ <= v[n + 1]
        BY <1>4, <4>1
      <4>3. sum[n + 1] = v[n + 1] - last_lidar_end_time_
        BY <1>7, <3>2
      <4>4. QED
        BY <2>2, <2>3, <4>2, <4>3 DEF PredictStep
    <3>3. QED
      BY <3>1, <3>2
  <2>5. QED
    BY <2>1, <2>4
<1> HIDE DEF Good
<1>8. PICK top \in Nat : top = Len(v) - 1
  BY <1>2
<1>9. 0..top \subseteq Good
  <2>1. \A n \in 0..(top - 1) : n \in Good => n + 1 \in Good
    BY <1>7, <1>8
  <2>2. QED
    BY <1>6, <2>1, InductionUpTo
<1>10. sum[Len(v)] = v[Len(v)] - last_lidar_end_time_
  <2>1. top \in Good /\ top # 0 /\ top + 1 = Len(v)
    BY <1>2, <1>8, <1>9
  <2>2. QED
    BY <2>1 DEF Good
<1>11. v[Len(v)] \in Int /\ v[Len(v)] <= m.end /\ m.end \in Int
  <2>1. Len(v) \in 2..Len(v)
    BY <1>2
  <2>2. QED
    BY <1>4, <2>1 DEF LioMeasures
<1>12. QED
  BY <1>3, <1>10, <1>11

LEMMA FirstScanInv == ASSUME LioInv, loops = 0, Lio!FirstScan PROVE LioInv'
<1>0. LioTypeOK /\ StampsKept /\ PointsOfScan /\ SamplesInOrder /\ FilterKeepsTime
  BY DEF LioInv
<1>1. Lio!sync_packages /\ flg_first_scan /\ ~flg_first_scan' /\ flg_first_scan' \in BOOLEAN
  BY DEF Lio!FirstScan
<1>2. UNCHANGED <<imu_need_init_, starved, last_imu_, last_lidar_end_time_, filter_time, odometry, feats_undistort>>
  BY DEF Lio!FirstScan, Lio!p_imu, Lio!feats, Lio!history
<1>3. /\ StampsKept' /\ SamplesInOrder' /\ LioShare
      /\ UNCHANGED <<next_lidar, next_imu, scans, loops, last_timestamp_lidar, last_timestamp_imu>>
      /\ lidar_buffer' \in Seq(LioScan) /\ time_buffer' \in Seq(Nat) /\ imu_buffer' \in Seq(Nat)
      /\ scan_num' \in Nat /\ total_scantime' \in Nat /\ ~lidar_pushed' /\ lidar_pushed' \in BOOLEAN
  BY <1>0, <1>1, SyncKeeps
<1>4. Measures' \in LioMeasures
  BY <1>3 DEF LioShare
<1>5. LioTypeOK'
  BY <1>0, <1>1, <1>2, <1>3, <1>4 DEF LioTypeOK
<1>6. PointsOfScan' /\ FilterKeepsTime'
  BY <1>0, <1>1, <1>2 DEF PointsOfScan, FilterKeepsTime
<1>7. QED
  BY <1>3, <1>5, <1>6 DEF LioInv

\* Later scans: what becomes of the pose, by what Process does.
LEMMA PoseOrNot ==
  ASSUME Lio!NoPoint \/ Lio!FirstMap \/ Lio!TooFew \/ Lio!Odometry
  PROVE  /\ Lio!sync_packages /\ ~flg_first_scan /\ Lio!Process /\ flg_first_scan' = flg_first_scan
         /\ \/ odometry' = odometry
            \/ /\ feats_undistort' # NoScan
               /\ odometry' = [number |-> feats_undistort'.number, measured |-> Measures'.lidar.number,
                               stamp |-> Measures'.end, time |-> filter_time']
<1>1. CASE Lio!NoPoint
  BY <1>1 DEF Lio!NoPoint, Lio!Segmented
<1>2. CASE Lio!FirstMap
  BY <1>2 DEF Lio!FirstMap, Lio!Filtered, Lio!Segmented
<1>3. CASE Lio!TooFew
  BY <1>3 DEF Lio!TooFew, Lio!Filtered, Lio!Segmented
<1>4. CASE Lio!Odometry
  BY <1>4 DEF Lio!Odometry, Lio!Filtered, Lio!Segmented, Lio!HasPoints, Lio!publish_odometry,
              Lio!publish_frame_world
<1>5. QED
  BY <1>1, <1>2, <1>3, <1>4

LioPose == Lio!NoPoint \/ Lio!FirstMap \/ Lio!TooFew \/ Lio!Odometry

\* A scan that is compensated moves the filter from the end of one scan to the end of the next.
LEMMA CompensatedMoves ==
  ASSUME LioTypeOK, LioShare, Lio!UndistortPcl
  PROVE  /\ filter_time' \in Int /\ last_imu_' \in Nat /\ last_lidar_end_time_' = Measures'.end
         /\ Measures'.end \in Nat /\ last_imu_' <= Measures'.end
         /\ feats_undistort' = Measures'.lidar /\ starved' = starved
         /\ ~imu_need_init_ /\ imu_need_init_' = imu_need_init_
         /\ last_imu_ <= last_lidar_end_time_
            /\ (\A k \in DOMAIN imu_buffer : last_lidar_end_time_ <= imu_buffer[k])
            => /\ filter_time' - Measures'.end = filter_time - last_lidar_end_time_
               /\ last_lidar_end_time_ < Measures'.end
<1> DEFINE m == Measures'
<1>1. /\ m.imu # <<>> /\ ~imu_need_init_ /\ imu_need_init_' = imu_need_init_
      /\ filter_time' = filter_time + Lio!Predicted(m) /\ last_imu_' = m.imu[Len(m.imu)]
      /\ last_lidar_end_time_' = m.end /\ feats_undistort' = m.lidar /\ starved' = starved
  BY DEF Lio!UndistortPcl, Lio!predict, Lio!Last
<1>2. m \in LioMeasures /\ m.imu \in Seq(Nat) /\ m.end \in Nat
  BY DEF LioShare, LioMeasures
<1>3. /\ Len(m.imu) \in DOMAIN m.imu /\ 1 \in DOMAIN m.imu
      /\ \A k \in DOMAIN m.imu : m.imu[k] \in Nat
  BY <1>1, <1>2
<1>4. /\ \A k \in DOMAIN m.imu : m.imu[k] = imu_buffer[k] /\ k \in DOMAIN imu_buffer
      /\ \A k \in DOMAIN m.imu : m.imu[k] <= m.end
      /\ m.imu[1] < m.end
  BY <1>1 DEF LioShare
<1> HIDE DEF m
<1>5. last_imu_ \in Int /\ last_lidar_end_time_ \in Int /\ filter_time \in Int
  BY DEF LioTypeOK
<1>6. Lio!Predicted(m) \in Int
  BY <1>1, <1>2, <1>5, PredictedIsInt
<1>7. ASSUME last_imu_ <= last_lidar_end_time_,
             \A k \in DOMAIN imu_buffer : last_lidar_end_time_ <= imu_buffer[k]
      PROVE  filter_time' - m.end = filter_time - last_lidar_end_time_ /\ last_lidar_end_time_ < m.end
  <2>1. \A k \in DOMAIN m.imu : last_lidar_end_time_ <= m.imu[k] /\ m.imu[k] <= m.end
    BY <1>4, <1>7
  <2>2. Lio!Predicted(m) = m.end - last_lidar_end_time_
    BY <1>1, <1>2, <1>5, <1>7, <2>1, PredictedToEnd
  <2>3. last_lidar_end_time_ <= m.imu[1] /\ m.imu[1] \in Nat
    BY <1>3, <2>1
  <2>4. QED
    BY <1>1, <1>2, <1>4, <1>5, <2>2, <2>3
<1>8. last_imu_' \in Nat /\ last_imu_' <= m.end
  BY <1>1, <1>3, <1>4
<1>9. filter_time' \in Int
  BY <1>1, <1>5, <1>6
<1>10. QED
  BY <1>1, <1>2, <1>7, <1>8, <1>9 DEF m

LEMMA PoseInv == ASSUME LioInv, loops = 0, LioPose PROVE LioInv'
<1>0. LioTypeOK /\ StampsKept /\ PointsOfScan /\ SamplesInOrder /\ FilterKeepsTime
  BY DEF LioInv
<1>1. /\ Lio!sync_packages /\ ~flg_first_scan /\ Lio!Process /\ flg_first_scan' = flg_first_scan
      /\ \/ odometry' = odometry
         \/ /\ feats_undistort' # NoScan
            /\ odometry' = [number |-> feats_undistort'.number, measured |-> Measures'.lidar.number,
                            stamp |-> Measures'.end, time |-> filter_time']
  BY PoseOrNot DEF LioPose
<1>2. /\ StampsKept' /\ SamplesInOrder' /\ LioShare
      /\ UNCHANGED <<next_lidar, next_imu, scans, loops, last_timestamp_lidar, last_timestamp_imu>>
      /\ lidar_buffer' \in Seq(LioScan) /\ time_buffer' \in Seq(Nat) /\ imu_buffer' \in Seq(Nat)
      /\ scan_num' \in Nat /\ total_scantime' \in Nat /\ ~lidar_pushed' /\ lidar_pushed' \in BOOLEAN
  BY <1>0, <1>1, SyncKeeps
<1>3. Measures' \in LioMeasures /\ Measures'.end \in Nat
  BY <1>2 DEF LioShare, LioMeasures
<1>4. ASSUME imu_need_init_' \in BOOLEAN, starved' \in BOOLEAN, last_imu_' \in Int,
             last_lidar_end_time_' \in Int, filter_time' \in Int, PointsOfScan', FilterKeepsTime'
      PROVE  LioInv'
  <2>1. odometry'.stamp \in Int /\ odometry'.time \in Int
    BY <1>0, <1>1, <1>3, <1>4 DEF LioTypeOK
  <2>2. LioTypeOK'
    BY <1>0, <1>1, <1>2, <1>3, <1>4, <2>1 DEF LioTypeOK
  <2>3. QED
    BY <1>2, <1>4, <2>2 DEF LioInv
<1>5. CASE Lio!ProcessNothing
  <2>1. /\ starved' = ~imu_need_init_ /\ starved' \in BOOLEAN
        /\ UNCHANGED <<imu_need_init_, last_imu_, last_lidar_end_time_, feats_undistort, filter_time>>
    BY <1>0, <1>5 DEF Lio!ProcessNothing, Lio!p_imu, LioTypeOK
  <2>2. CASE imu_need_init_
    <3>1. ~starved' /\ odometry' = odometry /\ odometry = Lio!NoMessage /\ ~starved
      BY <1>0, <1>1, <2>1, <2>2 DEF PointsOfScan
    <3>2. PointsOfScan' /\ FilterKeepsTime'
      BY <1>0, <2>1, <2>2, <3>1 DEF PointsOfScan, FilterKeepsTime
    <3>3. QED
      BY <1>0, <1>4, <2>1, <3>2 DEF LioTypeOK
  <2>3. CASE ~imu_need_init_
    <3>1. PointsOfScan' /\ FilterKeepsTime'
      BY <1>1, <2>1, <2>3 DEF PointsOfScan, FilterKeepsTime
    <3>2. QED
      BY <1>0, <1>4, <2>1, <3>1 DEF LioTypeOK
  <2>4. QED
    BY <1>0, <2>2, <2>3 DEF LioTypeOK
<1>6. CASE Lio!IMU_init
  <2>1. /\ imu_need_init_ /\ imu_need_init_' \in BOOLEAN /\ Measures'.imu # <<>>
        /\ last_imu_' = Measures'.imu[Len(Measures'.imu)] /\ filter_time' = last_imu_'
        /\ UNCHANGED <<last_lidar_end_time_, feats_undistort, starved>>
    BY <1>6 DEF Lio!IMU_init, Lio!Last
  <2>2. Measures'.imu \in Seq(Nat)
    BY <1>3 DEF LioMeasures
  <2>3. last_imu_' \in Int
    BY <2>1, <2>2
  <2>4. odometry = Lio!NoMessage /\ ~starved /\ feats_undistort = NoScan /\ odometry' = odometry
    BY <1>0, <1>1, <2>1 DEF PointsOfScan
  <2>5. PointsOfScan' /\ FilterKeepsTime'
    BY <1>0, <2>1, <2>4 DEF PointsOfScan, FilterKeepsTime
  <2>6. QED
    BY <1>0, <1>4, <2>1, <2>3, <2>5 DEF LioTypeOK
<1>7. CASE Lio!UndistortPcl
  <2>1. /\ filter_time' \in Int /\ last_imu_' \in Nat /\ last_lidar_end_time_' = Measures'.end
        /\ last_imu_' <= Measures'.end
        /\ feats_undistort' = Measures'.lidar /\ starved' = starved
        /\ ~imu_need_init_ /\ imu_need_init_' = imu_need_init_
        /\ last_imu_ <= last_lidar_end_time_
           /\ (\A k \in DOMAIN imu_buffer : last_lidar_end_time_ <= imu_buffer[k])
           => /\ filter_time' - Measures'.end = filter_time - last_lidar_end_time_
              /\ last_lidar_end_time_ < Measures'.end
    BY <1>0, <1>2, <1>7, CompensatedMoves
  <2>2. PointsOfScan'
    BY <1>0, <1>1, <2>1 DEF PointsOfScan
  <2>3. /\ Measures'.end <= last_timestamp_imu'
        /\ \A k \in DOMAIN imu_buffer' : Measures'.end <= imu_buffer'[k]
    BY <1>2 DEF LioShare
  <2>4. FilterKeepsTime'
    <3>1. CASE odometry' = odometry
      <4>1. SUFFICES ASSUME odometry # Lio!NoMessage, ~starved
                     PROVE  /\ odometry.stamp <= Measures'.end
                            /\ filter_time' - Measures'.end = odometry.time - odometry.stamp
        BY <2>1, <2>3, <3>1 DEF FilterKeepsTime
      <4>2. /\ odometry.stamp <= last_lidar_end_time_
            /\ filter_time' - Measures'.end = filter_time - last_lidar_end_time_
            /\ filter_time - last_lidar_end_time_ = odometry.time - odometry.stamp
            /\ last_lidar_end_time_ < Measures'.end
        BY <1>0, <2>1, <4>1 DEF FilterKeepsTime
      <4>3. QED
        BY <1>0, <1>3, <4>2 DEF LioTypeOK
    <3>2. CASE odometry' # odometry
      <4>1. odometry'.stamp = Measures'.end /\ odometry'.time = filter_time'
        BY <1>1, <3>2
      <4>2. QED
        BY <1>3, <2>1, <2>3, <4>1 DEF FilterKeepsTime
    <3>3. QED
      BY <3>1, <3>2
  <2>5. QED
    BY <1>0, <1>3, <1>4, <2>1, <2>2, <2>4 DEF LioTypeOK
<1>8. QED
  BY <1>1, <1>5, <1>6, <1>7 DEF Lio!Process

LEMMA LioInvStep == ASSUME Lio!LioConstants, LioInv, [Lio!Next]_(Lio!vars) PROVE LioInv'
<1>1. CASE loops # 0
  <2>1. loops' = loops \/ loops' = loops + 1
    <3>1. CASE Lio!timer_callback
      <4>1. CASE Lio!AwaitImu
        BY <4>1 DEF Lio!AwaitImu, Lio!sensors
      <4>2. CASE Lio!FirstScan
        BY <4>2 DEF Lio!FirstScan, Lio!sync_packages, Lio!sensors
      <4>3. CASE LioPose
        BY <4>3, PoseOrNot DEF LioPose, Lio!sync_packages, Lio!sensors
      <4>4. QED
        BY <3>1, <4>1, <4>2, <4>3 DEF Lio!timer_callback, LioPose
    <3>2. CASE Lio!Lose \/ Lio!StartOver \/ Lio!imu_cbk \/ \E cloud \in LioClouds : Lio!pcl_cbk(cloud)
      BY <3>2 DEF Lio!Lose, Lio!StartOver, Lio!imu_cbk, Lio!pcl_cbk
    <3>3. CASE Lio!map_publish_callback \/ Lio!map_save_callback \/ UNCHANGED Lio!vars
      BY <3>3 DEF Lio!map_publish_callback, Lio!map_save_callback, Lio!vars, Lio!sensors
    <3>4. QED
      BY <3>1, <3>2, <3>3 DEF Lio!Next
  <2>2. QED
    BY <1>1, <2>1 DEF LioInv
<1>2. CASE loops = 0
  BY <1>2, SensorsInv, AwaitInv, FirstScanInv, PoseInv DEF Lio!Next, Lio!timer_callback, LioPose
<1>3. QED
  BY <1>1, <1>2

LEMMA PosesKeepTimeStep ==
  ASSUME LioInv, LioInv', [Lio!Next]_(Lio!vars),
         odometry' # odometry, odometry # Lio!NoMessage, loops' = 0, ~starved'
  PROVE  /\ odometry'.stamp > odometry.stamp
         /\ odometry'.stamp - odometry.stamp = odometry'.time - odometry.time
<1>1. LioPose
  BY DEF Lio!Next, Lio!timer_callback, LioPose, Lio!AwaitImu, Lio!FirstScan, Lio!Lose, Lio!StartOver,
         Lio!imu_cbk, Lio!pcl_cbk, Lio!map_publish_callback, Lio!map_save_callback, Lio!vars, Lio!history
<1>2. /\ Lio!sync_packages /\ Lio!Process
      /\ feats_undistort' # NoScan
      /\ odometry'.stamp = Measures'.end /\ odometry'.time = filter_time'
  BY <1>1, PoseOrNot DEF LioPose
<1>3. loops = 0
  BY <1>2 DEF Lio!sync_packages, Lio!sensors
<1>4. LioTypeOK /\ StampsKept /\ PointsOfScan /\ SamplesInOrder /\ FilterKeepsTime
  BY <1>3 DEF LioInv
<1>5. LioShare
  BY <1>2, <1>4, SyncKeeps
<1>6. ~imu_need_init_
  BY <1>4 DEF PointsOfScan
<1>7. Lio!UndistortPcl
  BY <1>2, <1>6 DEF Lio!Process, Lio!ProcessNothing, Lio!IMU_init
<1>8. /\ filter_time' \in Int /\ Measures'.end \in Nat /\ starved' = starved
      /\ last_imu_ <= last_lidar_end_time_
         /\ (\A k \in DOMAIN imu_buffer : last_lidar_end_time_ <= imu_buffer[k])
         => /\ filter_time' - Measures'.end = filter_time - last_lidar_end_time_
            /\ last_lidar_end_time_ < Measures'.end
  BY <1>4, <1>5, <1>7, CompensatedMoves
<1>9. /\ odometry.stamp <= last_lidar_end_time_
      /\ filter_time' - Measures'.end = filter_time - last_lidar_end_time_
      /\ filter_time - last_lidar_end_time_ = odometry.time - odometry.stamp
      /\ last_lidar_end_time_ < Measures'.end
  BY <1>4, <1>8 DEF FilterKeepsTime
<1>10. \A s, e, end, f, g, q \in Int :
          s <= e /\ g - end = f - e /\ f - e = q - s /\ e < end => end > s /\ end - s = g - q
  OBVIOUS
<1>11. /\ odometry.stamp \in Int /\ odometry.time \in Int /\ filter_time \in Int
       /\ last_lidar_end_time_ \in Int /\ filter_time' \in Int /\ Measures'.end \in Int
  BY <1>4, <1>8 DEF LioTypeOK
<1>12. Measures'.end > odometry.stamp /\ Measures'.end - odometry.stamp = filter_time' - odometry.time
  BY <1>9, <1>10, <1>11
<1>13. QED
  BY <1>2, <1>12

\* A pose is made of the scan it is stamped with, whatever is lost, until time runs back
\* or a scan comes without a sample.
THEOREM PosesAreOfTheirScan == Lio!Spec => []OdometryIsOfItsScan
<1>0. Lio!LioConstants
  BY OdometryAssumption
<1>1. Lio!Init => LioInv
  BY <1>0, LioInvInit
<1>2. LioInv /\ [Lio!Next]_(Lio!vars) => LioInv'
  BY <1>0, LioInvStep
<1>3. LioInv => OdometryIsOfItsScan
  BY DEF LioInv, StampsKept, PointsOfScan, OdometryIsOfItsScan, Lio!OdometryIsOfItsScan
<1>4. QED
  BY <1>1, <1>2, <1>3, PTL DEF Lio!Spec

\* From pose to pose the filter moves by just the time between their stamps, for any
\* scans, samples and losses.
THEOREM PosesKeepTheirTime == Lio!Spec => PosesKeepTime
<1>0. Lio!LioConstants
  BY OdometryAssumption
<1>1. Lio!Init => LioInv
  BY <1>0, LioInvInit
<1>2. LioInv /\ [Lio!Next]_(Lio!vars) => LioInv'
  BY <1>0, LioInvStep
<1>3. LioInv /\ LioInv' /\ [Lio!Next]_(Lio!vars) =>
        [odometry' # odometry /\ odometry # Lio!NoMessage /\ loops' = 0 /\ ~starved' =>
           /\ odometry'.stamp > odometry.stamp
           /\ odometry'.stamp - odometry.stamp = odometry'.time - odometry.time]_(Lio!vars)
  BY PosesKeepTimeStep
<1>4. QED
  BY <1>1, <1>2, <1>3, PTL DEF Lio!Spec, PosesKeepTime, Lio!PosesKeepTime
=============================================================================
