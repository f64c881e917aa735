--------------------------- MODULE LidarSimulation ---------------------------
(* The simulated MID-360 (robocon_mid360_simulation, livox_points_plugin.cpp):  *)
(* a Gazebo plugin that walks through the recorded scan pattern of the real     *)
(* LiDAR and packs what the rays hit into CustomMsg packets with a time per     *)
(* point.                                                                       *)
(*                                                                              *)
(* Time is counted in ticks of the pattern (kScanPatternTickToNanoseconds) from *)
(* the start of the simulation.  A row of the pattern file is the tick of its   *)
(* sample, or 0 when it does not parse into three numbers; directions are data, *)
(* and whether a ray returns is any choice.                                     *)
EXTENDS Integers, Sequences, SequencesExt, FiniteSetsExt

CONSTANTS Files,              \* what csv_file_name may hold, <<>> for no file
          SamplesStep, DownSample,   \* the configured rays of a packet
          ScanPeriods,        \* update periods the sensor may have
          Steps,              \* simulated time between two world updates
          MaxSimTime, MaxResets

\* The rows of the file that parse into three numbers.
ReadCsvFile(file) == SelectSeq(file, LAMBDA row : row # 0)

\* A pattern has a sample at every tick, but for at most one row that does not
\* parse: packets take one sample per tick of their period.
SimulationConstants ==
    /\ SamplesStep \in Int /\ DownSample \in Nat \ {0}
    /\ ScanPeriods \subseteq Nat \ {0} /\ Steps \subseteq Nat \ {0}
    /\ MaxSimTime \in Nat /\ MaxResets \in Nat
    /\ \A file \in Files :
          LET ticks == ReadCsvFile(file)
          IN  /\ ticks \in Seq(Nat)
              /\ \A j, k \in DOMAIN ticks :
                    j < k => ticks[k] - ticks[j] \in {k - j, k - j + 1}

VARIABLES aviaInfos,          \* the ticks of the samples
          rays,               \* rays of the shape, 0 without a contract
          connected,          \* worldUpdateConnection exists
          scanPeriod,
          SimTime, lastScanSimTime,
          packet, previous,   \* the last two packets: [timebase, points by ray]
          resets

simVars == <<aviaInfos, rays, connected, scanPeriod, SimTime, lastScanSimTime,
             packet, previous, resets>>

None == [timebase |-> 0, points |-> <<>>]

maxPointSize == Len(aviaInfos)
scanPatternPeriodTicks == Max(ToSet(aviaInfos)) - Min(ToSet(aviaInfos)) + 1

-----------------------------------------------------------------------------
(* The timing helpers.                                                         *)

PatternOffset(tick, start_tick) == (tick - start_tick) % scanPatternPeriodTicks

\* A window as long as the whole pattern, however often packets are sent.
WholePattern(period, size) == size

PacketPatternSamples(period, size) == Min({size, Max({1, period})})

PatternStartIndex(time, size) == time % size

PatternIndexForRay(start, window, ray, ray_count, size) ==
    (start + (ray * window) \div ray_count) % size

-----------------------------------------------------------------------------
SimInit ==
    /\ aviaInfos = <<>>
    /\ rays = 0
    /\ connected = FALSE
    /\ scanPeriod \in ScanPeriods
    /\ SimTime = 0
    /\ lastScanSimTime = 0
    /\ packet = None
    /\ previous = None
    /\ resets = 0

\* A plugin without a pattern, or whose packet would need two rays at one tick,
\* never connects to the world and stays silent.
Load ==
    /\ aviaInfos = <<>>
    /\ \E file \in Files :
          LET infos == ReadCsvFile(file)
              requested == (SamplesStep + DownSample - 1) \div DownSample
              window == PacketPatternSamples(scanPeriod, Len(infos))
          IN /\ infos # <<>>
             /\ aviaInfos' = infos
             /\ connected' = (requested > 0 /\ requested <= window)
             /\ rays' = IF connected' THEN requested ELSE 0
    /\ UNCHANGED <<scanPeriod, SimTime, lastScanSimTime, packet, previous, resets>>

\* The samples the rays are set to for a packet at the given time.
InitializeRays(time) ==
    LET window == PacketPatternSamples(scanPeriod, maxPointSize)
        start == PatternStartIndex(time, maxPointSize)
    IN [r \in 1..rays |->
          aviaInfos[1 + PatternIndexForRay(start, window, r - 1, rays, maxPointSize)]]

\* The rays that end on something within range: whichever the world has it be.
UpdateRays == SUBSET (1..rays)

\* The packet: the offset of each ray that returned, none earlier than the one of
\* a ray before it.
OnNewLaserScans(time, returned) ==
    LET ticks == InitializeRays(time)
        Offset(r) == PatternOffset(ticks[r], ticks[1])
    IN [timebase |-> time,
        points |-> [r \in returned |-> Max({Offset(q) : q \in returned \cap 1..r})]]

\* One iteration of the world: the clock advances and, when a period has gone by
\* since the last packet, the next one is made.
OnWorldUpdate ==
    \E step \in Steps :
       /\ SimTime + step <= MaxSimTime
       /\ SimTime' = SimTime + step
       /\ IF ~connected \/ (lastScanSimTime # 0 /\ SimTime' - lastScanSimTime < scanPeriod)
          THEN UNCHANGED <<lastScanSimTime, packet, previous>>
          ELSE /\ lastScanSimTime' = SimTime'
               /\ previous' = packet
               /\ \E returned \in UpdateRays :
                     packet' = OnNewLaserScans(SimTime', returned)
       /\ UNCHANGED <<aviaInfos, rays, connected, scanPeriod, resets>>

\* The world is reset: its clock starts again, and the plugin, which has no
\* Reset of its own, keeps its own time.
WorldReset ==
    /\ SimTime > 0
    /\ resets < MaxResets
    /\ resets' = resets + 1
    /\ SimTime' = 0
    /\ UNCHANGED <<aviaInfos, rays, connected, scanPeriod, lastScanSimTime, packet, previous>>

SimNext == Load \/ OnWorldUpdate \/ WorldReset

SimSpec == SimInit /\ [][SimNext]_simVars

-----------------------------------------------------------------------------
\* The times of a packet never run back, no two rays share one, and the packet
\* ends before the next one begins, wherever in the pattern it starts, whether
\* or not it crosses the end of the pattern or a row that did not parse, and
\* after a reset of the world too: the odometry splits the stream at these
\* times (sync_packages) and the stream probe of the package requires them.
PacketsApart ==
    /\ \A q, r \in DOMAIN packet.points : q < r => packet.points[q] < packet.points[r]
    /\ \A r \in DOMAIN previous.points :
          previous.timebase + previous.points[r] <= packet.timebase
=============================================================================
