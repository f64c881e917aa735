------------------------------- MODULE MCLivox -------------------------------
(***************************************************************************)
(* Instances of the three parts of the Livox driver for TLC; a behaviour   *)
(* runs one of them.  In Livox.cfg, Devices: three lidars for two slots.   *)
(* Handler: two lidars, packets of two points, frames of two milliseconds. *)
(* Storage: two lidars and ring queues of two, whose indexes wrap at four. *)
(***************************************************************************)
EXTENDS Lddc

CONSTANTS Handles, Settings, Files, NoIndex,
          kMaxSourceLidar, MaxReports, MaxTimeouts,
          HandlerLidars, PointNum, PointInterval, TicksPerMs, publish_interval_ms_, OffsetBits,
          Stamps, MaxPackets(_), MaxTime,
          l1, l2, s1, s2

ThreeFiles ==
    {<<>>,
     <<[has_ip |-> TRUE, handle |-> l1, keys |-> {s1, s2, "extrinsic_parameter"}]>>,
     <<[has_ip |-> TRUE, handle |-> l1, keys |-> {s1}],
       [has_ip |-> FALSE, handle |-> l2, keys |-> {s1, s2}],
       [has_ip |-> TRUE, handle |-> l2, keys |-> {}],
       [has_ip |-> TRUE, handle |-> l1, keys |-> {s2}]>>}

FourOrOne(l) == IF l = 0 THEN 4 ELSE 1
TwoOrOne(l) == IF l = 1 THEN 2 ELSE 1

VARIABLES
    map_index_, index_cache_, livox_config, set_bits, device_state, initialized,
    commands, reports, timeouts, accepted, refused,
    now, raw_packet_queue_, is_timestamp_sync_, points_clouds_, last_pub_time_,
    frames, received,
    running

Devices == INSTANCE LidarDevices WITH connect_state <- device_state
Handler == INSTANCE PubHandler WITH Lidars <- HandlerLidars, published <- frames

ASSUME LivoxAssumption == Devices!DevicesConstants /\ Handler!HandlerConstants

deviceVars ==
    <<map_index_, index_cache_, livox_config, set_bits, device_state, initialized, commands,
      reports, timeouts, accepted, refused>>
handlerVars ==
    <<now, raw_packet_queue_, is_timestamp_sync_, points_clouds_, last_pub_time_, frames,
      received>>
livoxVars == <<vars, deviceVars, handlerVars, running>>

LivoxInit ==
    /\ running \in {"devices", "handler", "storage"}
    /\ Devices!Init
    /\ Handler!Init
    /\ Init
    /\ numbered => transfer_format_ = "PointCloud2"
    /\ running # "storage" => sending = {"imu"}

LivoxNext ==
    /\ UNCHANGED running
    /\ \/ running = "devices" /\ Devices!Next /\ UNCHANGED <<vars, handlerVars>>
       \/ running = "handler" /\ Handler!Next /\ UNCHANGED <<vars, deviceVars>>
       \/ running = "storage" /\ Next /\ UNCHANGED <<deviceVars, handlerVars>>

LivoxSpec == LivoxInit /\ [][LivoxNext]_livoxVars

\* Fairness of Lddc, where it runs.
Storing == running = "storage" /\ UNCHANGED <<deviceVars, handlerVars, running>>
FairLivox ==
    /\ LivoxSpec
    /\ \A st \in Streams : WF_livoxVars(Storing /\ PollThread(st))
    /\ \A st \in Streams : SF_livoxVars(Storing /\ PollingDone(st))
    /\ []<>(tpc["pcd"] \notin {"pop", "update"})
    /\ WF_livoxVars(Storing /\ (Unindexed \/ PushLidarData))
    /\ WF_livoxVars(Storing /\ ImuSignal)
    /\ WF_livoxVars(Storing /\ SetExitSignal)
    /\ WF_livoxVars(Storing /\ Join)
    /\ \A l \in Lidars :
         WF_livoxVars(Storing /\ l \in present /\ connect_state[l] = "None" /\ Connect(l))
    /\ WF_livoxVars(Storing /\ (\E parts \in FramesOf(present) : StoragePointData(parts)))
    /\ SF_livoxVars(Storing /\ \E l \in present : StorageImuData(l))

SamplingIsConfigured == Devices!SamplingIsConfigured
EveryPointOnce == Handler!EveryPointOnce
=============================================================================
