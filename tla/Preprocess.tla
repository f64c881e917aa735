----------------------------- MODULE Preprocess -----------------------------
(* The conversion of a LiDAR message into the cloud FAST-LIO works on           *)
(* (preprocess.cpp): which points are kept, and at which time of the scan each  *)
(* of them is taken to be measured.                                             *)
(*                                                                              *)
(* One tick of time is the time a spinning head takes for one step of its Turn  *)
(* steps, and a time worked out from the direction is kept in steps too: what   *)
(* is left out is the division by omega_l, which stands for 0.361 degrees per   *)
(* time and scan rate where the head turns by 0.36, so that the code's times    *)
(* are 0.3 % short, and the scale of time_unit, which the configuration must    *)
(* give right.  A point is                                                      *)
(*   [ring, at, far, clean, again]                                              *)
(* its line, when it was measured, whether it lies beyond `blind`, whether its  *)
(* Livox tag is one of the two accepted ones and whether it repeats the         *)
(* coordinates of the point before it.  `at` is in the message only when the    *)
(* message is `timed`; the direction of the point shows it modulo a turn.       *)
EXTENDS Integers, Sequences, FiniteSets, SequencesExt

CONSTANTS N_SCANS,            \* lines of the LiDAR
          Turn,               \* steps of a full turn of the head
          Kinds,              \* the points a message has: [ring, far, clean, again]
          Strides,            \* steps between two points of a message
          point_filter_num,
          MaxPoints

PreprocessConstants ==
    /\ N_SCANS \in Nat /\ Turn \in Nat \ {0} /\ Strides \subseteq Nat
    /\ Kinds \subseteq [ring : Nat, far : BOOLEAN, clean : BOOLEAN, again : BOOLEAN]
    /\ point_filter_num \in Nat \ {0} /\ MaxPoints \in Nat

VARIABLES lidar_type,         \* the configured LiDAR
          feature_enabled,
          timed,              \* the message gives the time of its points
          scan,               \* the message, point by point
          given_offset_time,
          pl_surf,            \* the points kept, by index, with the time given to them
          pl_buff,            \* the same per line, where the features are sought
          handled

scanVars == <<lidar_type, feature_enabled, timed, scan, given_offset_time,
              pl_surf, pl_buff, handled>>

Handlers == {"AVIA", "OUST64", "VELO16", "MID360", "default"}
Lines == 0..N_SCANS - 1

\* The LiDARs whose driver writes a time into every point.
AlwaysTimed == {"AVIA", "OUST64"}

\* The azimuth of a head that turns clockwise, in (-180, 180] degrees.
Yaw(at) == (Turn \div 2) - (at % Turn)

-----------------------------------------------------------------------------
(* The message as the driver builds it.                                        *)

\* Only the Livox message has tags.  A line the LiDAR does not have is sent only where
\* the handler checks it: the others write beyond their vectors of N_SCANS entries.
Emits(kind) ==
    /\ lidar_type # "AVIA" => kind.clean /\ ~kind.again
    /\ \/ lidar_type \in AlwaysTimed
       \/ feature_enabled /\ lidar_type # "MID360"
       \/ kind.ring < N_SCANS
    /\ kind.again => scan # <<>> /\ Last(scan).far

\* A head fires each of its lines more than once a turn.
FiredLast(k) == \A j \in k + 1..Len(scan) : scan[j].ring # scan[k].ring

NextPoint ==
    /\ ~handled
    /\ Len(scan) < MaxPoints
    /\ \E kind \in {k \in Kinds : Emits(k)}, stride \in Strides :
          LET at == IF scan = <<>> THEN 0 ELSE Last(scan).at + stride
          IN /\ at < 2 * Turn
             /\ \A k \in DOMAIN scan :
                   scan[k].ring = kind.ring /\ FiredLast(k) => at - scan[k].at < Turn
             /\ scan' = Append(scan, [ring |-> kind.ring, at |-> at, far |-> kind.far,
                                      clean |-> kind.clean, again |-> kind.again])
    /\ UNCHANGED <<lidar_type, feature_enabled, timed, given_offset_time,
                   pl_surf, pl_buff, handled>>

-----------------------------------------------------------------------------
(* The handlers.  Each walks the message once; what it keeps of it is a function *)
(* on the indices of the points it keeps, which stay in their order.            *)

\* (i - 1) is the zero-based index of the code.
EveryNth(i) == (i - 1) % point_filter_num = 0

\* The points of a message whose points carry their time.
Walk(taken) == [i \in taken |-> scan[i].at]

\* The Livox message: from the second point on, the points of a known line with
\* an accepted tag, every point_filter_num-th of them.
Valid(p) == p.ring < N_SCANS /\ p.clean
ValidBefore(i) == Cardinality({k \in 2..i : Valid(scan[k])})
Written(i) == /\ i > 1
              /\ Valid(scan[i])
              /\ feature_enabled \/ ValidBefore(i) % point_filter_num = 0

\* A point is compared with entry i-1 of pl_full, which stays at the origin
\* unless that point was written.
avia_handler ==
    Walk({i \in DOMAIN scan : /\ Written(i)
                              /\ ~(scan[i].again /\ Written(i - 1))
                              /\ scan[i].far \/ feature_enabled})

oust64_handler ==
    Walk({i \in DOMAIN scan :
            /\ scan[i].far
            /\ IF feature_enabled THEN scan[i].ring < N_SCANS ELSE EveryNth(i)})

\* The first point of a line sets its zero, and is not kept.
First(line) == CHOOSE k \in DOMAIN scan : /\ scan[k].ring = line
                                          /\ \A j \in 1..k - 1 : scan[j].ring # line

\* Without times: the time since the first point of the line, from the angle
\* the head has turned, and one turn more when it would run back.
SinceFirst(line, p) ==
    LET since == line.yaw_fp - Yaw(p.at)
    IN IF since >= 0 THEN since ELSE since + Turn

\* The same without the turn that keeps the time from running back.
OffsetWithinTurn(line, p) == SinceFirst(line, p)

OffsetTime(line, p) ==
    LET curvature == SinceFirst(line, p)
    IN IF curvature < line.time_last THEN curvature + Turn ELSE curvature

Curvature(time_last, p) ==
    OffsetTime([yaw_fp |-> Yaw(scan[First(p.ring)].at), time_last |-> time_last], p)

\* time_last of each line after the first n points.
TimeLast ==
    LET last[n \in 0..Len(scan)] ==
          IF n = 0 THEN [l \in Lines |-> 0]
          ELSE [l \in Lines |->
                  IF scan[n].ring # l THEN last[n - 1][l]
                  ELSE IF First(l) = n THEN 0 ELSE Curvature(last[n - 1][l], scan[n])]
    IN  last

Reckoned(taken) ==
    LET last == TimeLast
    IN  [i \in {k \in taken : scan[k].ring \in Lines /\ First(scan[k].ring) # k} |->
            last[i][scan[i].ring]]

velodyne_handler(given) ==
    LET taken == {i \in DOMAIN scan : IF feature_enabled THEN scan[i].ring < N_SCANS
                                      ELSE EveryNth(i) /\ scan[i].far}
    IN IF given THEN Walk(taken) ELSE Reckoned(taken)

mid360_handler == Reckoned({i \in DOMAIN scan : scan[i].far})

default_handler == [i \in {k \in DOMAIN scan : scan[k].far} |-> 0]

OfLine(out, line) == [i \in {k \in DOMAIN out : scan[k].ring = line} |-> out[i]]

\* The features are sought line by line, in the lines that have points enough; an
\* Ouster line is not skipped whatever it has.
Sought(out, line) ==
    LET size == Cardinality(DOMAIN OfLine(out, line))
    IN CASE lidar_type = "AVIA" -> size > 5
         [] lidar_type = "VELO16" -> size >= 2
         [] OTHER -> TRUE

\* With linesize -1, read as unsigned, the loop over an Ouster line without points
\* runs out of the array and the program ends: no message is handled then.
RunsOut(out) ==
    /\ feature_enabled /\ lidar_type = "OUST64"
    /\ \E l \in Lines : DOMAIN OfLine(out, l) = {}

process ==
    /\ ~handled
    /\ handled' = TRUE
    /\ given_offset_time' =
          CASE scan = <<>> -> given_offset_time
            [] lidar_type = "VELO16" -> timed /\ Last(scan).at > 0
            [] lidar_type = "MID360" -> FALSE
            [] OTHER -> given_offset_time
    /\ LET out == CASE lidar_type = "AVIA" -> avia_handler
                    [] lidar_type = "OUST64" -> oust64_handler
                    [] lidar_type = "VELO16" -> velodyne_handler(given_offset_time')
                    [] lidar_type = "MID360" -> mid360_handler
                    [] OTHER -> default_handler
       IN /\ ~RunsOut(out)
          /\ IF feature_enabled /\ lidar_type \in {"AVIA", "OUST64", "VELO16"}
             THEN /\ pl_surf' = <<>>
                  /\ pl_buff' = [l \in {k \in Lines : Sought(out, k)} |-> OfLine(out, l)]
             ELSE /\ pl_surf' = out
                  /\ pl_buff' = <<>>
    /\ UNCHANGED <<lidar_type, feature_enabled, timed, scan>>

\* The next message of the same LiDAR.
NextScan ==
    /\ handled
    /\ handled' = FALSE
    /\ scan' = <<>>
    /\ pl_surf' = <<>>
    /\ pl_buff' = <<>>
    /\ timed' \in IF lidar_type = "VELO16" THEN BOOLEAN ELSE {timed}
    /\ UNCHANGED <<lidar_type, feature_enabled, given_offset_time>>

ScanInit ==
    /\ lidar_type \in Handlers
    /\ feature_enabled \in BOOLEAN
    /\ timed = (lidar_type \in AlwaysTimed)
    /\ scan = <<>>
    /\ given_offset_time = FALSE
    /\ pl_surf = <<>>
    /\ pl_buff = <<>>
    /\ handled = FALSE

ScanNext == NextPoint \/ process \/ NextScan

ScanSpec == ScanInit /\ [][ScanNext]_scanVars

-----------------------------------------------------------------------------
\* When the point was measured: since the message began where the points carry
\* their times, otherwise since the first point of its line.
MeasuredAt(i) ==
    IF lidar_type \in AlwaysTimed \/ given_offset_time
    THEN scan[i].at
    ELSE scan[i].at - scan[First(scan[i].ring)].at

\* Every point that leaves the preprocessing carries the time at which it was
\* measured, also when the LiDAR gives no times and the time is worked out from
\* the direction of the point, and also when the head turns more than once in a
\* message: a point moved to the time of another part of the scan is compensated
\* with the wrong motion (UndistortPcl).  The plain PointCloud2 input claims no
\* times and is left out.
ScanTimes ==
    lidar_type # "default" =>
        /\ \A i \in DOMAIN pl_surf : pl_surf[i] = MeasuredAt(i)
        /\ \A l \in DOMAIN pl_buff : \A i \in DOMAIN pl_buff[l] :
               pl_buff[l][i] = MeasuredAt(i)
=============================================================================
