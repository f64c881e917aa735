---------------------------- MODULE OccupancyGrid ----------------------------
(***************************************************************************)
(* pointcloud_occupancy_grid_node.cpp: every point of a cloud raises the   *)
(* cells around it and lowers the cells on the ray from the sensor to it,  *)
(* every cloud lets the grid fade, and what is published of a cell is its  *)
(* state, or that it is unknown.  Positions are cells.  The grid is the    *)
(* one made out of the last cloud: the node sends it after every           *)
(* publish_every_n_clouds of them, and a reader's is up to that many older.*)
(***************************************************************************)
EXTENDS Integers, Sequences, SequencesExt

CONSTANTS Width, Height,             \* cells on each axis
          Poses,                     \* cells the sensor gets to, on the grid or not
          Clouds,                    \* sequences of cells, those of the points of a cloud
          occupied_increment, free_decrement, occupied_threshold, free_threshold,
          log_odds_decay_per_cloud, stale_after_clouds,
          occupied_cell_inflation,
          Never                      \* older than any age that is counted

\* The thresholds lie on their sides of zero, and what fades reaches them before it
\* is stale, counting what one mark of the other kind adds.
GridConstants ==
    /\ occupied_increment \in Nat /\ free_decrement \in Nat
    /\ occupied_threshold \in 1..100 /\ free_threshold \in -100..-1
    /\ log_odds_decay_per_cloud \in Nat \ {0} /\ stale_after_clouds \in Nat \ {0}
    /\ 100 - occupied_threshold <= stale_after_clouds * log_odds_decay_per_cloud + free_decrement
    /\ 100 + free_threshold <= stale_after_clouds * log_odds_decay_per_cloud + occupied_increment
    /\ Never \in Nat
    /\ \A cloud \in Clouds : cloud \in Seq(Int \X Int)

VARIABLES
    sensor, have_odom_,
    log_odds_, observed_,
    last_update_,                    \* clouds ago, up to Never
    grid,                            \* the grid as of the last cloud
    hit, freed                       \* history: clouds since a cell was raised, lowered

vars == <<sensor, have_odom_, log_odds_, observed_, last_update_, grid, hit, freed>>

Cells == (0..(Width - 1)) \X (0..(Height - 1))
Unknown == -1
clamp(n, low, high) == IF n < low THEN low ELSE IF n > high THEN high ELSE n

Init ==
    /\ sensor = <<0, 0>> /\ have_odom_ = FALSE
    /\ log_odds_ = [c \in Cells |-> 0] /\ observed_ = [c \in Cells |-> FALSE]
    /\ last_update_ = [c \in Cells |-> Never]
    /\ grid = [c \in Cells |-> Unknown]
    /\ hit = [c \in Cells |-> Never] /\ freed = [c \in Cells |-> Never]

odomCallback(pose) ==
    /\ have_odom_' = TRUE /\ sensor' = pose
    /\ UNCHANGED <<log_odds_, observed_, last_update_, grid, hit, freed>>
-----------------------------------------------------------------------------
\* The cells a ray passes before its end, from wherever the sensor is: x, y and
\* the error of the line algorithm after n steps.
raycastFree(s, e) ==
    LET Abs(n) == IF n < 0 THEN -n ELSE n
        dx == Abs(e[1] - s[1])
        dy == -Abs(e[2] - s[2])
        step_x == IF s[1] < e[1] THEN 1 ELSE -1
        step_y == IF s[2] < e[2] THEN 1 ELSE -1
        Next(p) ==
            LET onX == 2 * p.error >= dy
                onY == 2 * p.error <= dx
            IN  [at |-> <<IF onX THEN p.at[1] + step_x ELSE p.at[1],
                          IF onY THEN p.at[2] + step_y ELSE p.at[2]>>,
                 error |-> p.error + (IF onX THEN dy ELSE 0) + (IF onY THEN dx ELSE 0)]
        Walk[n \in 0..(dx - dy)] ==
            IF n = 0 THEN [at |-> s, error |-> dx + dy]
            ELSE LET p == Walk[n - 1] IN IF p.at = e THEN p ELSE Next(p)
    IN  {Walk[n].at : n \in DOMAIN Walk} \ {e}

\* The cell of a point and those its inflation covers.
markOccupied(e) ==
    {c \in Cells : (c[1] - e[1]) * (c[1] - e[1]) + (c[2] - e[2]) * (c[2] - e[2])
                      <= occupied_cell_inflation * occupied_cell_inflation}

\* decayGrid: ages count the cloud that has come.
Stale(c) == last_update_[c] + 1 > stale_after_clouds

\* Mutant: a cell that is stale becomes unknown, and keeps what it had gathered.
FadedUnlessStale(c) ==
    IF ~observed_[c] \/ Stale(c) THEN log_odds_[c]
    ELSE IF log_odds_[c] > 0 THEN clamp(log_odds_[c] - log_odds_decay_per_cloud, 0, 100)
    ELSE clamp(log_odds_[c] + log_odds_decay_per_cloud, -100, 0)

Faded(c) ==
    IF ~observed_[c] THEN log_odds_[c]
    ELSE IF stale_after_clouds > 0 /\ Stale(c) THEN 0
    ELSE IF log_odds_[c] > 0 THEN clamp(log_odds_[c] - log_odds_decay_per_cloud, 0, 100)
    ELSE clamp(log_odds_[c] + log_odds_decay_per_cloud, -100, 0)

decays == log_odds_decay_per_cloud > 0 \/ stale_after_clouds > 0

StaysObserved(c) ==
    /\ observed_[c]
    /\ ~(stale_after_clouds > 0 /\ Stale(c))
    /\ log_odds_decay_per_cloud > 0 => Faded(c) # 0

\* The points in their order; each lowers its ray first and then raises its cells.
Passed(e) == IF have_odom_ THEN raycastFree(sensor, e) ELSE {}

\* passed[n] and raised[n] are the cells of the n-th point.
Marked(c, passed, raised) ==
    LET Mark[n \in 0..Len(passed)] ==
            IF n = 0 THEN Faded(c)
            ELSE LET before == Mark[n - 1]
                     lowered == IF c \in passed[n]
                                THEN clamp(before - free_decrement, -100, 100) ELSE before
                 IN  IF c \in raised[n]
                     THEN clamp(lowered + occupied_increment, -100, 100)
                     ELSE lowered
    IN  Mark[Len(passed)]

isCellFresh(c) ==
    /\ observed_'[c]
    /\ stale_after_clouds > 0 => last_update_'[c] <= stale_after_clouds

\* The cells of the two markers, which are also those the grid has at its ends.
OccupiedCells == {c \in Cells : isCellFresh(c) /\ log_odds_'[c] >= occupied_threshold}
FreeCells == {c \in Cells : isCellFresh(c) /\ log_odds_'[c] <= free_threshold}

\* publishGrid; the division by two is towards zero.
Shown(c) ==
    IF ~isCellFresh(c) THEN Unknown
    ELSE IF c \in OccupiedCells THEN 100
    ELSE IF c \in FreeCells THEN 0
    ELSE clamp(50 + (IF log_odds_'[c] < 0 THEN -((-log_odds_'[c]) \div 2)
                     ELSE log_odds_'[c] \div 2), 1, 99)

\* The points come in the cloud's order; one off the grid marks nothing.
cloudCallback(cloud) ==
    LET passes == [n \in DOMAIN cloud |-> IF cloud[n] \in Cells THEN Passed(cloud[n]) ELSE {}]
        raises == [n \in DOMAIN cloud |-> IF cloud[n] \in Cells THEN markOccupied(cloud[n])
                                         ELSE {}]
        passed == UNION ToSet(passes)
        raised == UNION ToSet(raises)
        Older(age) == IF age = Never THEN Never ELSE age + 1
    IN  /\ log_odds_' = [c \in Cells |-> Marked(c, passes, raises)]
        /\ observed_' = [c \in Cells |-> \/ c \in passed \cup raised
                                         \/ IF decays THEN StaysObserved(c) ELSE observed_[c]]
        /\ last_update_' = [c \in Cells |-> IF c \in passed \cup raised THEN 0
                                            ELSE Older(last_update_[c])]
        /\ grid' = [c \in Cells |-> Shown(c)]
        /\ hit' = [c \in Cells |-> IF c \in raised THEN 0 ELSE Older(hit[c])]
        /\ freed' = [c \in Cells |-> IF c \in passed THEN 0 ELSE Older(freed[c])]
        /\ UNCHANGED <<sensor, have_odom_>>

Next ==
    \/ \E pose \in Poses : odomCallback(pose)
    \/ \E cloud \in Clouds : cloudCallback(cloud)

Spec == Init /\ [][Next]_vars
-----------------------------------------------------------------------------
(* Properties *)

\* A cell is shown occupied only if a point raised it no longer ago than the decay
\* takes from the top to the threshold, shown free only if a ray lowered it as
\* recently, and either no longer ago than stale_after_clouds; a ray never lowers
\* its own end.
GridForgets ==
    \A c \in Cells :
        /\ grid[c] = 100 =>
              /\ hit[c] * log_odds_decay_per_cloud <= 100 - occupied_threshold
              /\ hit[c] <= stale_after_clouds
        /\ grid[c] = 0 =>
              /\ freed[c] * log_odds_decay_per_cloud <= 100 + free_threshold
              /\ freed[c] <= stale_after_clouds
        /\ ~observed_[c] => log_odds_[c] = 0
=============================================================================
