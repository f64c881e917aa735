---------------------------- MODULE NodesProofs ----------------------------
(***************************************************************************)
(* Theorems about the components that MCNodes brings together, each as a   *)
(* specification of its own.  InputGuard, PoseBridge, Preflight, TeamLink, *)
(* TargetGate and PoseCommand judge a message by its age: for all          *)
(* silences, latencies, TTLs, timeouts, clock skews, depths of topics and  *)
(* numbers of messages and restarts.  MatchRules: for any teams, durations *)
(* and bounds.                                                             *)
(***************************************************************************)
EXTENDS MCNodes, TLAPS

-----------------------------------------------------------------------------
(* InputGuard *)

\* A stream in order was last heard when it was last in order.
GuardInv ==
  /\ GuardTypeOK
  /\ \A s \in Stream : ok[s] => good[s] = arrival[s]

LEMMA GuardInvInit == GuardInit => GuardInv
  BY HostAssumption, GuardAssumption
  DEF GuardInit, GuardInv, GuardTypeOK, HostInit, HostTypeOK, Moment, Instant, Never, NoFlag, FlagMessage

\* Publishing keeps the signature and the flag in their types.
LEMMA PublishType ==
  ASSUME GuardTypeOK, now' = now, NEW force \in BOOLEAN, PublishStatus(force),
         arrival' \in [Stream -> Moment], ok' \in [Stream -> BOOLEAN]
  PROVE  /\ signature' \in {{}} \cup {{x} : x \in [Stream -> BOOLEAN] \X [Stream -> BOOLEAN]}
         /\ inputFlag' \in FlagMessage
<1>1. <<ok', [s \in Stream |-> IsFresh(s)']>> \in [Stream -> BOOLEAN] \X [Stream -> BOOLEAN]
  BY DEF IsFresh, Recent
<1>2. Signature' \in {{x} : x \in [Stream -> BOOLEAN] \X [Stream -> BOOLEAN]}
  BY <1>1 DEF Signature
<1>3. InputValid' \in BOOLEAN
  BY DEF InputValid
<1>4. now \in Moment
  BY DEF GuardTypeOK, HostTypeOK, Moment
<1>5. QED
  BY <1>2, <1>3, <1>4 DEF PublishStatus, GuardTypeOK, FlagMessage

LEMMA TakeInv ==
  ASSUME GuardInv, NEW s \in Stream, NEW taken \in BOOLEAN, NEW p \in Packet,
         taken => p.stamp > stamp[s], timebase' \in 0..MaxStamp, TakePacket(s, taken, p)
  PROVE  GuardInv'
<1>1. now' = now /\ reboots' = reboots /\ now \in Moment /\ now # Never
  BY HostAssumption DEF TakePacket, GuardInv, GuardTypeOK, HostTypeOK, Moment, Instant, Never
<1>2. /\ arrival' \in [Stream -> Moment]
      /\ ok' \in [Stream -> BOOLEAN]
      /\ stamp' \in [Stream -> 0..MaxStamp]
      /\ good' \in [Stream -> Moment]
  BY <1>1 DEF TakePacket, GuardInv, GuardTypeOK, Packet
<1>3. PICK reworded \in BOOLEAN : PublishStatus(reworded)
  BY DEF TakePacket
<1>4. /\ signature' \in {{}} \cup {{x} : x \in [Stream -> BOOLEAN] \X [Stream -> BOOLEAN]}
      /\ inputFlag' \in FlagMessage
  BY <1>1, <1>2, <1>3, PublishType DEF GuardInv
<1>5. taken => p.stamp # 0
  BY GuardAssumption DEF GuardInv, GuardTypeOK, Packet
<1>6. ASSUME NEW r \in Stream, ok'[r]
      PROVE  stamp'[r] # 0 /\ arrival'[r] # Never /\ good'[r] = arrival'[r]
  <2>1. CASE r = s
    BY <1>1, <1>5, <1>6, <2>1 DEF TakePacket, GuardInv, GuardTypeOK
  <2>2. CASE r # s
    BY <1>6, <2>2 DEF TakePacket, GuardInv, GuardTypeOK
  <2>3. QED
    BY <2>1, <2>2
<1>7. HostTypeOK'
  BY <1>1 DEF GuardInv, GuardTypeOK, HostTypeOK
<1>8. QED
  BY <1>2, <1>4, <1>6, <1>7 DEF GuardInv, GuardTypeOK

LEMMA GuardInvStep == ASSUME GuardInv, [GuardNext]_guardVars PROVE GuardInv'
<1>1. ASSUME NEW p \in Packet, LidarCallback(p) PROVE GuardInv'
  <2>1. timebase' \in 0..MaxStamp
    BY <1>1 DEF LidarCallback, Packet, GuardInv, GuardTypeOK
  <2>2. (p.sound /\ p.timebase > timebase /\ p.stamp > stamp["lidar"]) \in BOOLEAN
    BY DEF Packet
  <2>3. QED
    BY <1>1, <2>1, <2>2, TakeInv DEF LidarCallback, Stream
<1>2. ASSUME NEW p \in Packet, ImuCallback(p) PROVE GuardInv'
  <2>1. timebase' \in 0..MaxStamp
    BY <1>2 DEF ImuCallback, GuardInv, GuardTypeOK
  <2>2. (p.sound /\ p.stamp > stamp["imu"]) \in BOOLEAN
    BY DEF Packet
  <2>3. QED
    BY <1>2, <2>1, <2>2, TakeInv DEF ImuCallback, Stream
<1>3. CASE StatusTimer
  <2>1. now' = now /\ arrival' = arrival /\ ok' = ok /\ PublishStatus(TRUE)
    BY <1>3 DEF StatusTimer, streamVars
  <2>2. /\ signature' \in {{}} \cup {{x} : x \in [Stream -> BOOLEAN] \X [Stream -> BOOLEAN]}
        /\ inputFlag' \in FlagMessage
    BY <2>1, PublishType DEF GuardInv, GuardTypeOK
  <2>3. QED
    BY <1>3, <2>2 DEF StatusTimer, streamVars, GuardInv, GuardTypeOK, HostTypeOK
<1>4. CASE GuardRestart
  <2>1. HostTypeOK'
    BY <1>4, HostAssumption DEF GuardRestart, Reboot, GuardInv, GuardTypeOK, HostTypeOK
  <2>2. arrival' \in [Stream -> Moment] /\ ok' \in [Stream -> BOOLEAN] /\ stamp' \in [Stream -> 0..MaxStamp]
    BY <1>4, GuardAssumption DEF GuardRestart, Moment
  <2>3. QED
    BY <1>4, <2>1, <2>2, GuardAssumption DEF GuardRestart, GuardInv, GuardTypeOK
<1>5. CASE GuardWaits
  <2>1. HostTypeOK'
    BY <1>5, HostAssumption DEF GuardWaits, TimePasses, GuardInv, GuardTypeOK, HostTypeOK, Instant
  <2>2. QED
    BY <1>5, <2>1 DEF GuardWaits, guardOwn, streamVars, GuardInv, GuardTypeOK
<1>6. CASE UNCHANGED guardVars
  BY <1>6 DEF guardVars, guardOwn, streamVars, GuardInv, GuardTypeOK, HostTypeOK
<1>7. QED
  BY <1>1, <1>2, <1>3, <1>4, <1>5, <1>6 DEF GuardNext

LEMMA GuardInvariant == GuardSpec => []GuardInv
<1>1. GuardInv /\ [GuardNext]_guardVars => GuardInv'
  BY GuardInvStep
<1>2. QED
  BY GuardInvInit, <1>1, PTL DEF GuardSpec

\* The guard's state is well formed in every reachable state: a stream that counts
\* as in order has a stamp and a time of arrival.
THEOREM GuardTypeCorrect == GuardSpec => []GuardTypeOK
<1>1. GuardInv => GuardTypeOK
  BY DEF GuardInv
<1>2. QED
  BY GuardInvariant, <1>1, PTL

\* The flag says what the signature it was published with says, and once the
\* process has heard a packet the signature tells what is known of each stream.
SignatureInv ==
  /\ \A known \in [Stream -> BOOLEAN], fresh \in [Stream -> BOOLEAN] :
       signature = {<<known, fresh>>} => inputFlag.value = \A s \in Stream : known[s] /\ fresh[s]
  /\ (\E s \in Stream : arrival[s] # Never) =>
       \E fresh \in [Stream -> BOOLEAN] : signature = {<<ok, fresh>>}

LEMMA PublishInv ==
  ASSUME SignatureInv, NEW force \in BOOLEAN, PublishStatus(force)
  PROVE  SignatureInv'
<1> DEFINE now2 == [s \in Stream |-> IsFresh(s)]
<1>1. now2' \in [Stream -> BOOLEAN]
  BY DEF IsFresh, Recent
<1>2. signature' = {<<ok', now2'>>}
  BY DEF PublishStatus, Signature
<1>3. ASSUME NEW known \in [Stream -> BOOLEAN], NEW fresh \in [Stream -> BOOLEAN],
             signature' = {<<known, fresh>>}
      PROVE  inputFlag'.value = \A s \in Stream : known[s] /\ fresh[s]
  <2>1. CASE inputFlag' = inputFlag /\ signature' = signature
    BY <1>3, <2>1 DEF SignatureInv
  <2>2. CASE inputFlag' = [value |-> InputValid', sent |-> now]
    <3>1. known = ok' /\ fresh = now2'
      <4> HIDE DEF now2
      <4>1. <<known, fresh>> \in {<<ok', now2'>>}
        BY <1>2, <1>3
      <4>2. QED
        BY <4>1, Z3
    <3>2. InputValid' = \A s \in Stream : known[s] /\ fresh[s]
      BY <3>1 DEF InputValid
    <3>3. inputFlag'.value = InputValid'
      BY <2>2
    <3>4. QED
      BY <3>2, <3>3
  <2>3. QED
    BY <2>1, <2>2 DEF PublishStatus
<1>4. QED
  BY <1>1, <1>2, <1>3 DEF SignatureInv

LEMMA SignatureStep == ASSUME SignatureInv, [GuardNext]_guardVars PROVE SignatureInv'
<1>1. ASSUME NEW p \in Packet, LidarCallback(p) \/ ImuCallback(p) PROVE SignatureInv'
  <2>1. PICK reworded \in BOOLEAN : PublishStatus(reworded)
    BY <1>1 DEF LidarCallback, ImuCallback, TakePacket
  <2>2. QED
    BY <2>1, PublishInv
<1>2. CASE StatusTimer
  BY <1>2, PublishInv DEF StatusTimer
<1>3. CASE GuardRestart
  BY <1>3 DEF GuardRestart, SignatureInv
<1>4. CASE GuardWaits \/ UNCHANGED guardVars
  BY <1>4 DEF GuardWaits, guardVars, guardOwn, streamVars, SignatureInv
<1>5. QED
  BY <1>1, <1>2, <1>3, <1>4 DEF GuardNext

\* No TRUE stands on input_valid once a packet of either stream was refused, however
\* many publications the signature spared.
THEOREM RefusalIsAlwaysTold == GuardSpec => []RefusalIsTold
<1>1. GuardInit => SignatureInv
  BY DEF GuardInit, SignatureInv
<1>2. SignatureInv /\ [GuardNext]_guardVars => SignatureInv'
  BY SignatureStep
<1>3. GuardInv /\ SignatureInv => RefusalIsTold
  BY DEF GuardInv, GuardTypeOK, SignatureInv, RefusalIsTold
<1>4. QED
  BY <1>1, <1>2, <1>3, GuardInvariant, PTL DEF GuardSpec

\* Of each stream: a step of the guard is a step of a publisher that keeps its promise.
LEMMA GuardPromiseStep ==
  ASSUME GuardInv, GuardInv', [GuardNext]_guardVars
  PROVE  /\ [Lidar!FlagNext]_(Lidar!flagVars)
         /\ [Imu!FlagNext]_(Imu!flagVars)
<1>1. ASSUME NEW force \in BOOLEAN, PublishStatus(force), now' = now,
             \A s \in Stream : good'[s] \in {good[s], now}
      PROVE  Lidar!Report /\ Imu!Report
  <2>1. CASE inputFlag' = inputFlag
    BY <1>1, <2>1 DEF Lidar!Report, Imu!Report, Stream
  <2>2. CASE inputFlag' = [value |-> InputValid', sent |-> now]
    <3>1. InputValid' \in BOOLEAN
      BY DEF InputValid
    <3>2. ASSUME NEW s \in Stream, InputValid' PROVE good'[s] # -1 /\ now - good'[s] <= Silence[s]
      BY <1>1, <3>2 DEF InputValid, IsFresh, Recent, GuardInv, Never
    <3>3. /\ Lidar!Keeps(InputValid', now, good'["lidar"])
          /\ Imu!Keeps(InputValid', now, good'["imu"])
      BY <3>2 DEF Lidar!Keeps, Imu!Keeps, Stream
    <3>4. QED
      BY <1>1, <2>2, <3>1, <3>3 DEF Lidar!Report, Imu!Report, Stream
  <2>3. QED
    BY <1>1, <2>1, <2>2 DEF PublishStatus
<1>2. ASSUME NEW p \in Packet, LidarCallback(p) \/ ImuCallback(p)
      PROVE  Lidar!Report /\ Imu!Report
  <2>1. now' = now /\ \A s \in Stream : good'[s] \in {good[s], now}
    BY <1>2 DEF LidarCallback, ImuCallback, TakePacket, GuardInv, GuardTypeOK
  <2>2. PICK reworded \in BOOLEAN : PublishStatus(reworded)
    BY <1>2 DEF LidarCallback, ImuCallback, TakePacket
  <2>3. QED
    BY <1>1, <2>1, <2>2
<1>3. CASE StatusTimer
  BY <1>1, <1>3 DEF StatusTimer, Lidar!FlagNext, Imu!FlagNext
<1>4. CASE GuardRestart
  BY <1>4 DEF GuardRestart, Reboot, Lidar!flagVars, Imu!flagVars
<1>5. CASE GuardWaits
  BY <1>5 DEF GuardWaits, TimePasses, guardOwn, Lidar!FlagNext, Lidar!TimeGoesOn, Imu!FlagNext, Imu!TimeGoesOn
<1>6. CASE UNCHANGED guardVars
  BY <1>6 DEF guardVars, guardOwn, Lidar!flagVars, Imu!flagVars
<1>7. QED
  BY <1>2, <1>3, <1>4, <1>5, <1>6 DEF GuardNext, Lidar!FlagNext, Imu!FlagNext

\* The guard implements, for the LiDAR and for the IMU, a publisher that says TRUE
\* only on evidence within its silence.
THEOREM GuardIsTruthful == GuardSpec => GuardKeepsPromise
<1>1. GuardInit => Lidar!FlagInit /\ Imu!FlagInit
  BY DEF GuardInit, HostInit, Lidar!FlagInit, Imu!FlagInit, NoFlag, Never, Stream
<1>2. GuardInv /\ GuardInv' /\ [GuardNext]_guardVars =>
        [Lidar!FlagNext]_(Lidar!flagVars) /\ [Imu!FlagNext]_(Imu!flagVars)
  BY GuardPromiseStep
<1>3. QED
  BY <1>1, <1>2, GuardInvariant, PTL DEF GuardSpec, GuardKeepsPromise, Lidar!FlagSpec, Imu!FlagSpec

-----------------------------------------------------------------------------
(* PoseBridge *)

\* A pose that counts as valid was received when a valid one was received last.
BridgeInv ==
  /\ BridgeTypeOK
  /\ lastValid => goodPose = poseArrival

LEMMA PutProperties ==
  ASSUME NEW M, NEW topic \in Seq(M), NEW m \in M, Len(topic) <= Depth
  PROVE  /\ Put(topic, m) \in Seq(M)
         /\ Put(topic, m) # <<>>
         /\ Len(Put(topic, m)) <= Depth
         /\ Put(topic, m)[Len(Put(topic, m))] = m
<1> USE BridgeAssumption
<1>1. CASE Len(topic) < Depth
  BY <1>1 DEF Put
<1>2. CASE ~(Len(topic) < Depth)
  <2>1. topic # <<>> /\ Len(topic) > 0
    BY <1>2
  <2>2. Tail(topic) \in Seq(M) /\ Len(Tail(topic)) = Len(topic) - 1
    BY <2>1
  <2>3. Put(topic, m) = Append(Tail(topic), m)
    BY <1>2 DEF Put
  <2>4. QED
    BY <2>2, <2>3
<1>3. QED
  BY <1>1, <1>2

\* A status that is published keeps the topic and the history in their types.
LEMMA PublishPoseType ==
  ASSUME BridgeTypeOK, PublishPoseStatus, now' = now, serial' \in 0..MaxReceived,
         lastValid' \in BOOLEAN, lastHard' \in BOOLEAN
  PROVE  /\ validTopic' \in Seq(ValidMessage)
         /\ Len(validTopic') <= Depth
         /\ poseFlag' \in FlagMessage
<1>1. PoseValid' \in BOOLEAN
  BY DEF PoseValid, Recent
<1>2. [serial |-> serial', value |-> PoseValid'] \in ValidMessage
  BY <1>1 DEF ValidMessage
<1>3. validTopic' \in Seq(ValidMessage) /\ Len(validTopic') <= Depth
  BY <1>2, PutProperties DEF PublishPoseStatus, BridgeTypeOK
<1>4. poseFlag' \in FlagMessage
  BY <1>1 DEF PublishPoseStatus, FlagMessage, BridgeTypeOK, HostTypeOK, Moment
<1>5. QED
  BY <1>3, <1>4

LEMMA BridgeInvInit == ASSUME BridgeInit PROVE BridgeInv
<1>1. HostTypeOK /\ 0 \in 0..MaxReceived
  BY HostAssumption, BridgeAssumption DEF BridgeInit, HostInit, HostTypeOK, Instant
<1>2. odomTopic \in Seq(OdomMessage) /\ validTopic \in Seq(ValidMessage)
  BY DEF BridgeInit
<1>3. Len(odomTopic) <= Depth /\ Len(validTopic) <= Depth
  BY BridgeAssumption DEF BridgeInit
<1>4. heldOdom \in OdomMessage /\ heldValid \in ValidMessage /\ poseFlag \in FlagMessage
  BY <1>1 DEF BridgeInit, OdomMessage, ValidMessage, FlagMessage, NoFlag, Moment
<1>5. QED
  BY <1>1, <1>2, <1>3, <1>4 DEF BridgeInit, BridgeInv, BridgeTypeOK, Moment

LEMMA BridgeInvStep == ASSUME BridgeInv, [BridgeNext]_bridgeVars PROVE BridgeInv'
<1> USE DEF BridgeInv
<1>1. ASSUME NEW p \in SourceOdometry, SourceOdomCallback(p) PROVE BridgeInv'
  <2>1. /\ now' = now /\ reboots' = reboots /\ serial' \in 0..MaxReceived /\ lastHard' \in BOOLEAN
        /\ poseArrival' = now /\ heldOdom' = heldOdom /\ heldValid' = heldValid /\ PublishPoseStatus
    <3>1. /\ now' = now /\ reboots' = reboots /\ serial' = serial + 1 /\ lastHard' \in BOOLEAN
          /\ poseArrival' = now /\ heldOdom' = heldOdom /\ heldValid' = heldValid
          /\ serial < MaxReceived
      BY <1>1 DEF SourceOdomCallback, HardFailure, ForwardPose
    <3>2. PublishPoseStatus
      BY <1>1 DEF SourceOdomCallback, HardFailure, ForwardPose
    <3>3. serial' \in 0..MaxReceived
      BY <3>1, BridgeAssumption DEF BridgeTypeOK
    <3>4. QED
      BY <3>1, <3>2, <3>3
  <2>2. HostTypeOK' /\ now \in Moment
    BY <2>1 DEF BridgeTypeOK, HostTypeOK, Moment
  <2>3. CASE HardFailure(p)
    <3>1. lastValid' \in BOOLEAN
      BY <2>3 DEF HardFailure
    <3>2. QED
      <4>1. /\ validTopic' \in Seq(ValidMessage) /\ Len(validTopic') <= Depth
            /\ poseFlag' \in FlagMessage
        BY <2>1, <3>1, PublishPoseType
      <4>2. UNCHANGED <<lastPosition, odomTopic, goodPose>> /\ ~lastValid'
        BY <2>3 DEF HardFailure
      <4>3. QED
        BY <2>1, <2>2, <3>1, <4>1, <4>2 DEF BridgeTypeOK
  <2>4. CASE ForwardPose(p)
    <3>1. Quality(p) \in BOOLEAN
      BY DEF Quality, SourceOdometry, StepTooLong
    <3>2. lastValid' \in BOOLEAN
      BY <2>4, <3>1 DEF ForwardPose
    <3>3. [serial |-> serial', valid |-> lastValid'] \in OdomMessage
      BY <2>1, <3>2 DEF OdomMessage
    <3>4. odomTopic' \in Seq(OdomMessage) /\ Len(odomTopic') <= Depth
      BY <2>4, <3>3, PutProperties DEF ForwardPose, BridgeTypeOK
    <3>5. lastPosition' \in SUBSET Position
      BY <2>4 DEF ForwardPose, BridgeTypeOK, SourceOdometry
    <3>6. goodPose' \in Moment /\ (lastValid' => goodPose' = now)
      BY <2>2, <2>4 DEF ForwardPose, BridgeTypeOK
    <3>7. QED
      BY <2>1, <2>2, <3>2, <3>4, <3>5, <3>6, PublishPoseType DEF BridgeTypeOK
  <2>5. QED
    BY <1>1, <2>3, <2>4 DEF SourceOdomCallback
<1>2. CASE PoseTimer
  BY <1>2, PublishPoseType DEF PoseTimer, bridgeState, BridgeTypeOK, HostTypeOK
<1>3. CASE BridgeRestart
  <2>1. HostTypeOK'
    BY <1>3, HostAssumption DEF BridgeRestart, Reboot, BridgeTypeOK, HostTypeOK
  <2>2. lastPosition' \in SUBSET Position /\ poseArrival' \in Moment /\ ~lastValid' /\ lastHard' \in BOOLEAN
    BY <1>3 DEF BridgeRestart, Moment
  <2>3. UNCHANGED <<serial, odomTopic, validTopic, heldOdom, heldValid, poseFlag, goodPose>>
    BY <1>3 DEF BridgeRestart
  <2>4. lastValid' = FALSE
    BY <1>3 DEF BridgeRestart
  <2>5. QED
    BY <2>1, <2>2, <2>3, <2>4 DEF BridgeTypeOK
<1>4. CASE ReaderTakesOdom
  <2>1. Head(odomTopic) \in OdomMessage /\ Tail(odomTopic) \in Seq(OdomMessage)
        /\ Len(Tail(odomTopic)) <= Depth
    BY <1>4, BridgeAssumption DEF ReaderTakesOdom, BridgeTypeOK
  <2>2. QED
    BY <1>4, <2>1 DEF ReaderTakesOdom, bridgeState, BridgeTypeOK, HostTypeOK
<1>5. CASE ReaderTakesValid
  <2>1. Head(validTopic) \in ValidMessage /\ Tail(validTopic) \in Seq(ValidMessage)
        /\ Len(Tail(validTopic)) <= Depth
    BY <1>5, BridgeAssumption DEF ReaderTakesValid, BridgeTypeOK
  <2>2. QED
    BY <1>5, <2>1 DEF ReaderTakesValid, bridgeState, BridgeTypeOK, HostTypeOK
<1>6. CASE BridgeWaits
  <2>1. HostTypeOK'
    BY <1>6, HostAssumption DEF BridgeWaits, TimePasses, BridgeTypeOK, HostTypeOK, Instant
  <2>2. QED
    BY <1>6, <2>1 DEF BridgeWaits, bridgeOwn, bridgeState, BridgeTypeOK
<1>7. CASE UNCHANGED bridgeVars
  BY <1>7 DEF bridgeVars, bridgeOwn, bridgeState, BridgeTypeOK, HostTypeOK
<1>8. QED
  BY <1>1, <1>2, <1>3, <1>4, <1>5, <1>6, <1>7 DEF BridgeNext

LEMMA BridgeInvariant == BridgeSpec => []BridgeInv
<1>1. BridgeInv /\ [BridgeNext]_bridgeVars => BridgeInv'
  BY BridgeInvStep
<1>2. QED
  BY BridgeInvInit, <1>1, PTL DEF BridgeSpec

\* The bridge's state is well formed, and neither topic outgrows its depth.
THEOREM BridgeTypeCorrect == BridgeSpec => []BridgeTypeOK
<1>1. BridgeInv => BridgeTypeOK
  BY DEF BridgeInv
<1>2. QED
  BY BridgeInvariant, <1>1, PTL

LEMMA BridgePromiseStep ==
  ASSUME BridgeInv, BridgeInv', [BridgeNext]_bridgeVars
  PROVE  [Pose!FlagNext]_(Pose!flagVars)
<1>1. ASSUME PublishPoseStatus, now' = now, goodPose' \in {goodPose, now} PROVE Pose!Report
  <2>1. PoseValid' \in BOOLEAN
    BY DEF PoseValid, Recent
  <2>2. Pose!Keeps(PoseValid', now, goodPose')
    BY <1>1 DEF Pose!Keeps, PoseValid, Recent, BridgeInv, Never
  <2>3. QED
    BY <1>1, <2>1, <2>2 DEF PublishPoseStatus, Pose!Report
<1>2. ASSUME NEW p \in SourceOdometry, SourceOdomCallback(p) PROVE Pose!Report
  BY <1>1, <1>2 DEF SourceOdomCallback, HardFailure, ForwardPose
<1>3. CASE PoseTimer
  BY <1>1, <1>3 DEF PoseTimer, Pose!FlagNext
<1>4. CASE BridgeRestart \/ ReaderTakesOdom \/ ReaderTakesValid \/ UNCHANGED bridgeVars
  BY <1>4 DEF BridgeRestart, Reboot, ReaderTakesOdom, ReaderTakesValid, bridgeVars, bridgeOwn, Pose!flagVars
<1>5. CASE BridgeWaits
  BY <1>5 DEF BridgeWaits, TimePasses, bridgeOwn, Pose!FlagNext, Pose!TimeGoesOn
<1>6. QED
  BY <1>2, <1>3, <1>4, <1>5 DEF BridgeNext, Pose!FlagNext

\* The bridge implements a publisher that says TRUE only on a valid pose within the
\* pose silence.
THEOREM BridgeIsTruthful == BridgeSpec => BridgeKeepsPromise
<1>1. BridgeInit => Pose!FlagInit
  BY DEF BridgeInit, HostInit, Pose!FlagInit, NoFlag, Never
<1>2. BridgeInv /\ BridgeInv' /\ [BridgeNext]_bridgeVars => [Pose!FlagNext]_(Pose!flagVars)
  BY BridgePromiseStep
<1>3. QED
  BY <1>1, <1>2, BridgeInvariant, PTL DEF BridgeSpec, BridgeKeepsPromise, Pose!FlagSpec

\* What the last flag published says, the newest odometry bears out; and what the
\* bridge knows of the last message of FAST-LIO is what it has published.
NewestValid == IF validTopic = <<>> THEN heldValid ELSE validTopic[Len(validTopic)]

FollowInv ==
  /\ NewestValid.value => NewestOdom.valid /\ NewestOdom.serial = NewestValid.serial
  /\ lastValid /\ ~lastHard => NewestOdom.valid /\ NewestOdom.serial = serial

\* Taking the head of a topic does not change which message is the newest.
LEMMA TakeKeepsNewest ==
  ASSUME NEW M, NEW topic \in Seq(M), topic # <<>>
  PROVE  /\ Tail(topic) = <<>> => Head(topic) = topic[Len(topic)]
         /\ Tail(topic) # <<>> => Tail(topic)[Len(Tail(topic))] = topic[Len(topic)]
<1>1. Len(topic) \in Nat /\ Len(topic) # 0
  OBVIOUS
<1>2. /\ Tail(topic) \in Seq(M) /\ Len(Tail(topic)) = Len(topic) - 1
      /\ Head(topic) = topic[1]
  BY <1>1
<1>3. ASSUME Tail(topic) # <<>> PROVE Tail(topic)[Len(Tail(topic))] = topic[Len(topic)]
  <2>1. Len(Tail(topic)) # 0
    BY <1>2, <1>3
  <2>2. Len(topic) - 1 \in 1..Len(Tail(topic))
    BY <1>1, <1>2, <2>1
  <2>3. QED
    BY <1>1, <1>2, <2>2
<1>4. ASSUME Tail(topic) = <<>> PROVE Head(topic) = topic[Len(topic)]
  <2>1. Len(topic) = 1
    BY <1>1, <1>2, <1>4
  <2>2. QED
    BY <1>2, <2>1
<1>5. QED
  BY <1>3, <1>4

LEMMA PublishedIsNewest ==
  ASSUME BridgeTypeOK, BridgeTypeOK', PublishPoseStatus
  PROVE  NewestValid' = [serial |-> serial', value |-> PoseValid']
<1>1. PoseValid' \in BOOLEAN
  BY DEF PoseValid, Recent, BridgeTypeOK
<1>2. [serial |-> serial', value |-> PoseValid'] \in ValidMessage
  BY <1>1 DEF ValidMessage, BridgeTypeOK
<1>3. QED
  BY <1>2, PutProperties DEF PublishPoseStatus, NewestValid, BridgeTypeOK

LEMMA FollowStep ==
  ASSUME BridgeTypeOK, BridgeTypeOK', FollowInv, [BridgeNext]_bridgeVars
  PROVE  FollowInv'
<1>1. ASSUME NEW p \in SourceOdometry, SourceOdomCallback(p) PROVE FollowInv'
  <2>1. PublishPoseStatus
    BY <1>1 DEF SourceOdomCallback, HardFailure, ForwardPose
  <2>2. NewestValid' = [serial |-> serial', value |-> PoseValid']
    BY <2>1, PublishedIsNewest
  <2>3. CASE HardFailure(p)
    BY <2>2, <2>3 DEF HardFailure, FollowInv, PoseValid
  <2>4. CASE ForwardPose(p)
    <3>1. [serial |-> serial', valid |-> lastValid'] \in OdomMessage
      BY DEF BridgeTypeOK, OdomMessage
    <3>2. NewestOdom' = [serial |-> serial', valid |-> lastValid']
      <4> DEFINE m == [serial |-> serial', valid |-> lastValid']
      <4>1. odomTopic' = Put(odomTopic, m)
        BY <2>4 DEF ForwardPose
      <4>2. m \in OdomMessage /\ odomTopic \in Seq(OdomMessage) /\ Len(odomTopic) <= Depth
        BY <3>1 DEF BridgeTypeOK
      <4> HIDE DEF m
      <4>3. odomTopic' # <<>> /\ odomTopic'[Len(odomTopic')] = m
        BY <4>1, <4>2, PutProperties
      <4>4. QED
        BY <4>3 DEF NewestOdom, m
    <3>3. QED
      BY <2>2, <3>2 DEF FollowInv, PoseValid
  <2>5. QED
    BY <1>1, <2>3, <2>4 DEF SourceOdomCallback
<1>2. CASE PoseTimer
  <2>1. NewestValid' = [serial |-> serial', value |-> PoseValid']
    BY <1>2, PublishedIsNewest DEF PoseTimer
  <2>2. NewestOdom' = NewestOdom /\ lastValid' = lastValid /\ lastHard' = lastHard /\ serial' = serial
    BY <1>2 DEF PoseTimer, bridgeState, NewestOdom
  <2>3. QED
    BY <2>1, <2>2 DEF FollowInv, PoseValid
<1>3. CASE BridgeRestart
  <2>1. NewestOdom' = NewestOdom /\ NewestValid' = NewestValid /\ lastValid' = FALSE
    BY <1>3 DEF BridgeRestart, NewestOdom, NewestValid
  <2>2. QED
    BY <2>1 DEF FollowInv
<1>4. CASE ReaderTakesOdom
  <2>1. NewestOdom' = NewestOdom
    BY <1>4, TakeKeepsNewest DEF ReaderTakesOdom, NewestOdom, BridgeTypeOK
  <2>2. NewestValid' = NewestValid /\ lastValid' = lastValid /\ lastHard' = lastHard /\ serial' = serial
    BY <1>4 DEF ReaderTakesOdom, bridgeState, NewestValid
  <2>3. QED
    BY <2>1, <2>2 DEF FollowInv
<1>5. CASE ReaderTakesValid
  <2>1. NewestValid' = NewestValid
    BY <1>5, TakeKeepsNewest DEF ReaderTakesValid, NewestValid, BridgeTypeOK
  <2>2. NewestOdom' = NewestOdom /\ lastValid' = lastValid /\ lastHard' = lastHard /\ serial' = serial
    BY <1>5 DEF ReaderTakesValid, bridgeState, NewestOdom
  <2>3. QED
    BY <2>1, <2>2 DEF FollowInv
<1>6. CASE BridgeWaits \/ UNCHANGED bridgeVars
  <2>1. NewestOdom' = NewestOdom /\ NewestValid' = NewestValid
        /\ lastValid' = lastValid /\ lastHard' = lastHard /\ serial' = serial
    BY <1>6 DEF BridgeWaits, bridgeVars, bridgeOwn, bridgeState, NewestOdom, NewestValid
  <2>2. QED
    BY <2>1 DEF FollowInv
<1>7. QED
  BY <1>1, <1>2, <1>3, <1>4, <1>5, <1>6 DEF BridgeNext

\* For any depth of the topics and any order in which they are read: TRUE, once all
\* flags are read, speaks of the newest odometry, and that is valid.
THEOREM TrueSpeaksOfNewest == BridgeSpec => []TrueMeansNewest
<1>1. BridgeInit => FollowInv
  BY DEF BridgeInit, FollowInv, NewestValid
<1>2. BridgeTypeOK /\ BridgeTypeOK' /\ FollowInv /\ [BridgeNext]_bridgeVars => FollowInv'
  BY FollowStep
<1>3. FollowInv => TrueMeansNewest
  BY DEF FollowInv, TrueMeansNewest, NewestValid
<1>4. QED
  BY <1>1, <1>2, <1>3, BridgeTypeCorrect, PTL DEF BridgeSpec

-----------------------------------------------------------------------------
(* Preflight *)

\* A flag that counts was received with evidence that was recent then.
PreflightInv ==
  /\ PreflightTypeOK
  /\ \A f \in Flag :
       flags[f].value => /\ backing[f] # Never
                         /\ flags[f].at - backing[f] <= FlagSilence[f] + Latency

LEMMA PreflightInvInit == PreflightInit => PreflightInv
<1>1. PreflightInit => readyFlag \in BOOLEAN
  BY Zenon DEF PreflightInit
<1>2. QED
  BY <1>1, HostAssumption, PreflightAssumption
  DEF PreflightInit, PreflightInv, PreflightTypeOK, HostInit, HostTypeOK, Moment, Instant, Never

LEMMA PreflightInvStep == ASSUME PreflightInv, [PreflightNext]_preflightVars PROVE PreflightInv'
<1> USE DEF PreflightInv
<1>1. ASSUME NEW f \in Flag, NEW value \in BOOLEAN, NEW e \in Behind(f, value),
             FlagCallback(f, value, e)
      PROVE  PreflightInv'
  <2>1. PICK told \in Instant :
          /\ e <= told /\ told <= now /\ now - told <= Latency
          /\ Publisher(f)!Keeps(value, told, e)
    BY <1>1 DEF Behind
  <2>2. e \in Moment
    BY <1>1 DEF Behind
  <2>3. now' = now /\ reboots' = reboots /\ now \in Moment /\ now # Never /\ now \in Int
    BY <1>1, HostAssumption DEF FlagCallback, PreflightTypeOK, HostTypeOK, Moment, Instant, Never
  <2>4. /\ flags' = [flags EXCEPT ![f] = [value |-> value, at |-> now]]
        /\ backing' = [backing EXCEPT ![f] = e]
        /\ odomHeard' = odomHeard /\ readyFlag' = readyFlag
    BY <1>1 DEF FlagCallback
  <2>5. value => e # Never /\ told - e <= FlagSilence[f]
    BY <2>1 DEF Publisher!Keeps, Never
  <2>6. value => now - e <= FlagSilence[f] + Latency
    BY <2>1, <2>3, <2>5, <2>2, PreflightAssumption, HostAssumption DEF Moment, Instant, Never
  <2>7. ASSUME NEW g \in Flag, flags'[g].value
        PROVE  /\ backing'[g] # Never
               /\ flags'[g].at - backing'[g] <= FlagSilence[g] + Latency
               /\ flags'[g].at # Never
    <3>1. CASE g = f
      BY <2>3, <2>4, <2>5, <2>6, <2>7, <3>1 DEF PreflightTypeOK
    <3>2. CASE g # f
      BY <2>4, <2>7, <3>2 DEF PreflightTypeOK
    <3>3. QED
      BY <3>1, <3>2
  <2>8. flags' \in [Flag -> [value : BOOLEAN, at : Moment]] /\ backing' \in [Flag -> Moment]
    BY <2>2, <2>3, <2>4 DEF PreflightTypeOK
  <2>9. QED
    BY <2>3, <2>4, <2>7, <2>8 DEF PreflightTypeOK, HostTypeOK
<1>2. CASE OdomHeardCallback
  BY <1>2 DEF OdomHeardCallback, PreflightTypeOK, HostTypeOK, Moment
<1>3. CASE ReadyTicks
  <2>1. PICK typeOk \in BOOLEAN : ReadyTimer(typeOk)
    BY <1>3 DEF ReadyTicks
  <2>2. Ready(typeOk) \in BOOLEAN
    BY DEF Ready
  <2>3. readyFlag' \in BOOLEAN
    BY <2>1, <2>2 DEF ReadyTimer
  <2>4. QED
    BY <2>1, <2>3 DEF ReadyTimer, PreflightTypeOK, HostTypeOK
<1>4. CASE PreflightRestart
  <2>1. HostTypeOK'
    BY <1>4, HostAssumption DEF PreflightRestart, Reboot, PreflightTypeOK, HostTypeOK
  <2>2. QED
    BY <1>4, <2>1 DEF PreflightRestart, PreflightTypeOK, Moment
<1>5. CASE PreflightWaits
  <2>1. HostTypeOK'
    BY <1>5, HostAssumption DEF PreflightWaits, TimePasses, PreflightTypeOK, HostTypeOK, Instant
  <2>2. QED
    BY <1>5, <2>1 DEF PreflightWaits, preflightOwn, PreflightTypeOK
<1>6. CASE UNCHANGED preflightVars
  BY <1>6 DEF preflightVars, preflightOwn, PreflightTypeOK, HostTypeOK
<1>7. QED
  BY <1>1, <1>2, <1>3, <1>4, <1>5, <1>6 DEF PreflightNext

LEMMA PreflightInvariant == PreflightSpec => []PreflightInv
<1>1. PreflightInv /\ [PreflightNext]_preflightVars => PreflightInv'
  BY PreflightInvStep
<1>2. QED
  BY PreflightInvInit, <1>1, PTL DEF PreflightSpec

\* Preflight's state is well formed.
THEOREM PreflightTypeCorrect == PreflightSpec => []PreflightTypeOK
<1>1. PreflightInv => PreflightTypeOK
  BY DEF PreflightInv
<1>2. QED
  BY PreflightInvariant, <1>1, PTL

LEMMA PreflightIsRecent == PreflightInv => ReadyIsRecent
<1>1. SUFFICES ASSUME PreflightInv, NEW typeOk \in BOOLEAN, Ready(typeOk), NEW f \in Required
               PROVE  /\ backing[f] # Never
                      /\ now - backing[f] <= FlagSilence[f] + Latency + MaxOdomSilence
  BY DEF ReadyIsRecent
<1>2. FlagOk(f)
  BY <1>1 DEF Ready
<1>3. f \in Flag
  BY DEF Required
<1>4. /\ flags[f].at \in Int /\ backing[f] \in Int /\ now \in Int
      /\ FlagSilence[f] \in Int /\ Latency \in Int /\ MaxOdomSilence \in Int
  BY <1>1, <1>3, HostAssumption, PreflightAssumption
  DEF PreflightInv, PreflightTypeOK, HostTypeOK, Moment, Instant, Never
<1>5. QED
  BY <1>1, <1>2, <1>3, <1>4 DEF FlagOk, Recent, PreflightInv

\* For publishers that keep their promise, ready rests on evidence whose age is
\* bounded by the sum of silence, latency and the age limit of preflight.
THEOREM ReadyRestsOnRecent == PreflightSpec => []ReadyIsRecent
<1>1. QED
  BY PreflightInvariant, PreflightIsRecent, PTL

-----------------------------------------------------------------------------
(* TeamLink *)

LEMMA TypeInit == TeamInit => TeamTypeOK
  BY TeamLinkAssumption DEF TeamInit, TeamTypeOK, None, Message

\* The number the peer gives a message is a natural number, as validate demands.
LEMMA SequenceIsNatural == ASSUME TeamTypeOK PROVE NextSequence \in Nat /\ PeerClock \in Nat
<1>1. PeerClock \in Nat
  BY TeamLinkAssumption DEF TeamTypeOK, PeerClock
<1>2. PeerClock \div SequencePeriod \in Nat
  BY <1>1, TeamLinkAssumption
<1>3. QED
  BY <1>1, <1>2 DEF TeamTypeOK, NextSequence

LEMMA TypeStep == ASSUME TeamTypeOK, [TeamNext]_teamVars PROVE TeamTypeOK'
<1> USE DEF TeamTypeOK
<1>1. ASSUME NEW t \in MessageTypes, PeerSends(t) PROVE TeamTypeOK'
  <2> DEFINE m == [type |-> t, ours |-> peerTask,
                   sequence |-> NextSequence, created |-> PeerClock]
  <2>1. m \in Message
    BY SequenceIsNatural DEF Message
  <2>2. sent' \subseteq Message
    BY <1>1, <2>1 DEF PeerSends
  <2>3. QED
    BY <1>1, <2>2 DEF PeerSends, linkVars
<1>2. CASE PeerRestart
  BY <1>2 DEF PeerRestart, linkVars
<1>3. ASSUME NEW m \in sent, Receive(m) PROVE TeamTypeOK'
  <2>1. m \in Message
    BY DEF TeamTypeOK
  <2>2. CASE Accepts(m)
    <3>1. latest' \in [MessageTypes -> Nat \cup {None}]
      BY <1>3, <2>1, <2>2 DEF Receive, Message
    <3>2. accepted' \in Seq(Message)
      BY <1>3, <2>1, <2>2 DEF Receive
    <3>3. lastHeartbeat' \in Nat \cup {None} /\ lastHeartbeat' <= wallClock'
      BY <1>3, <2>2, TeamLinkAssumption DEF Receive
    <3>4. QED
      BY <1>3, <3>1, <3>2, <3>3 DEF Receive, peerVars
  <2>3. CASE ~Accepts(m)
    BY <1>3, <2>3 DEF Receive, linkVars, peerVars
  <2>4. QED
    BY <2>2, <2>3
<1>4. CASE LinkRestart
  BY <1>4, TeamLinkAssumption DEF LinkRestart, peerVars, None
<1>5. CASE WallTick
  BY <1>5, TeamLinkAssumption DEF WallTick, peerVars, linkVars, None
<1>6. CASE UNCHANGED teamVars
  BY <1>6 DEF teamVars, peerVars, linkVars
<1>7. QED
  BY <1>1, <1>2, <1>3, <1>4, <1>5, <1>6 DEF TeamNext

\* The variables keep their types in every reachable state; in particular no
\* heartbeat is stamped in the future.
THEOREM TeamTypeCorrect == TeamSpec => []TeamTypeOK
<1>1. TeamInit => TeamTypeOK
  BY TypeInit
<1>2. TeamTypeOK /\ [TeamNext]_teamVars => TeamTypeOK'
  BY TypeStep
<1>3. QED
  BY <1>1, <1>2, PTL DEF TeamSpec

-----------------------------------------------------------------------------
(* A dead teammate is noticed *)

\* The heartbeat time on record is backed by a heartbeat that was sent on our
\* task and was alive at that time.
HeartbeatIsBacked ==
  lastHeartbeat # None =>
    \E m \in sent :
      /\ m.ours
      /\ m.type = "heartbeat"
      /\ lastHeartbeat <= m.created + Ttl

LEMMA BackedStep ==
  ASSUME TeamTypeOK, HeartbeatIsBacked, [TeamNext]_teamVars
  PROVE  HeartbeatIsBacked'
<1> USE DEF HeartbeatIsBacked
<1>1. ASSUME NEW t \in MessageTypes, PeerSends(t) PROVE HeartbeatIsBacked'
  BY <1>1 DEF PeerSends, linkVars
<1>2. CASE PeerRestart
  BY <1>2 DEF PeerRestart, linkVars
<1>3. ASSUME NEW m \in sent, Receive(m) PROVE HeartbeatIsBacked'
  <2>1. CASE Accepts(m) /\ m.type = "heartbeat"
    <3>1. lastHeartbeat' = wallClock /\ sent' = sent
      BY <1>3, <2>1 DEF Receive, peerVars
    <3>2. m.ours /\ wallClock <= m.created + Ttl
      BY <2>1 DEF Accepts, IsFreshMessage
    <3>3. QED
      BY <2>1, <3>1, <3>2
  <2>2. CASE ~(Accepts(m) /\ m.type = "heartbeat")
    BY <1>3, <2>2 DEF Receive, peerVars, linkVars
  <2>3. QED
    BY <2>1, <2>2
<1>4. CASE LinkRestart
  BY <1>4 DEF LinkRestart
<1>5. CASE WallTick
  BY <1>5 DEF WallTick, peerVars, linkVars
<1>6. CASE UNCHANGED teamVars
  BY <1>6 DEF teamVars, peerVars, linkVars
<1>7. QED
  BY <1>1, <1>2, <1>3, <1>4, <1>5, <1>6 DEF TeamNext

LEMMA BackedIsNoticed == ASSUME TeamTypeOK, HeartbeatIsBacked PROVE PeerDeathNoticed
<1>1. SUFFICES ASSUME PeerAlive
               PROVE  \E m \in sent : /\ m.ours
                                      /\ m.type = "heartbeat"
                                      /\ wallClock - (m.created - skew) <= HeartbeatTimeout + Ttl + skew
  BY DEF PeerDeathNoticed
<1>2. PICK m \in sent : m.ours /\ m.type = "heartbeat" /\ lastHeartbeat <= m.created + Ttl
  BY <1>1 DEF PeerAlive, HeartbeatIsBacked
<1>3. /\ m.created \in Int /\ wallClock \in Int /\ skew \in Int /\ lastHeartbeat \in Int
      /\ Ttl \in Int /\ HeartbeatTimeout \in Int
  BY TeamLinkAssumption DEF TeamTypeOK, Message, None
<1>4. wallClock - lastHeartbeat <= HeartbeatTimeout
  BY <1>1 DEF PeerAlive
<1>5. wallClock - (m.created - skew) <= HeartbeatTimeout + Ttl + skew
  BY <1>2, <1>3, <1>4
<1>6. QED
  BY <1>2, <1>5

\* The peer counts as alive for at most the timeout, the life of a message and
\* the skew after its last heartbeat, whatever is lost, late or repeated and
\* however often either end restarts.
THEOREM DeathIsNoticed == TeamSpec => []PeerDeathNoticed
<1>1. TeamInit => HeartbeatIsBacked
  BY DEF TeamInit, HeartbeatIsBacked
<1>2. TeamTypeOK /\ HeartbeatIsBacked /\ [TeamNext]_teamVars => HeartbeatIsBacked'
  BY BackedStep
<1>3. TeamTypeOK /\ HeartbeatIsBacked => PeerDeathNoticed
  BY BackedIsNoticed
<1>4. QED
  BY <1>1, <1>2, <1>3, TeamTypeCorrect, PTL DEF TeamSpec

-----------------------------------------------------------------------------
(* Order of acceptance *)

\* latest is the greatest sequence accepted for its type.
LatestIsGreatest ==
  \A k \in DOMAIN accepted :
    /\ latest[accepted[k].type] # None
    /\ accepted[k].sequence <= latest[accepted[k].type]

OrderInv == LatestIsGreatest /\ AcceptedInOrder

LEMMA OrderStep ==
  ASSUME TeamTypeOK, OrderInv, [TeamNext]_teamVars
  PROVE  OrderInv'
<1> USE DEF OrderInv
<1>1. ASSUME UNCHANGED linkVars PROVE OrderInv'
  BY <1>1 DEF linkVars, LatestIsGreatest, AcceptedInOrder
<1>2. CASE LinkRestart
  BY <1>2 DEF LinkRestart, LatestIsGreatest, AcceptedInOrder
<1>3. ASSUME NEW m \in sent, Receive(m), Accepts(m) PROVE OrderInv'
  <2>1. m \in Message /\ m.type \in MessageTypes /\ m.sequence \in Nat
    BY DEF TeamTypeOK, Message
  <2>2. /\ latest' = [latest EXCEPT ![m.type] = m.sequence]
        /\ accepted' = Append(accepted, m)
    BY <1>3 DEF Receive
  <2>3. /\ DOMAIN accepted' = DOMAIN accepted \cup {Len(accepted) + 1}
        /\ accepted'[Len(accepted) + 1] = m
        /\ \A k \in DOMAIN accepted : accepted'[k] = accepted[k] /\ k <= Len(accepted) /\ k \in Nat
    BY <2>1, <2>2 DEF TeamTypeOK
  <2>4. \A k \in DOMAIN accepted :
          accepted[k] \in Message /\ accepted[k].type \in MessageTypes /\ accepted[k].sequence \in Nat
    <3>1. \A k \in DOMAIN accepted : accepted[k] \in Message
      BY DEF TeamTypeOK
    <3>2. QED
      BY <3>1 DEF Message
  <2>5. latest'[m.type] = m.sequence /\ \A t \in MessageTypes \ {m.type} : latest'[t] = latest[t]
    BY <2>1, <2>2 DEF TeamTypeOK
  <2>6. \A k \in DOMAIN accepted : accepted[k].type = m.type => accepted[k].sequence < m.sequence
    BY <1>3, <2>1, <2>4 DEF Accepts, LatestIsGreatest, TeamTypeOK, None
  <2>7. LatestIsGreatest'
    BY <2>1, <2>3, <2>4, <2>5, <2>6 DEF LatestIsGreatest, None
  <2>8. AcceptedInOrder'
    <3>1. SUFFICES ASSUME NEW j \in DOMAIN accepted', NEW k \in DOMAIN accepted', j < k,
                          accepted'[j].type = accepted'[k].type
                   PROVE  accepted'[j].sequence < accepted'[k].sequence
      BY DEF AcceptedInOrder
    <3>2. CASE k \in DOMAIN accepted
      <4>1. j # Len(accepted) + 1
        BY <2>3, <3>1, <3>2 DEF TeamTypeOK
      <4>2. QED
        BY <2>3, <3>1, <3>2, <4>1 DEF AcceptedInOrder
    <3>3. CASE k = Len(accepted) + 1
      <4>1. j \in DOMAIN accepted
        BY <2>3, <3>1, <3>3
      <4>2. QED
        BY <2>3, <2>6, <3>1, <3>3, <4>1
    <3>4. QED
      BY <2>3, <3>1, <3>2, <3>3
  <2>9. QED
    BY <2>7, <2>8
<1>4. ASSUME NEW m \in sent, Receive(m) PROVE Accepts(m) \/ UNCHANGED linkVars
  BY <1>4 DEF Receive
<1>5. (\E t \in MessageTypes : PeerSends(t)) \/ PeerRestart \/ WallTick \/ UNCHANGED teamVars
      => UNCHANGED linkVars
  BY DEF PeerSends, PeerRestart, WallTick, teamVars
<1>6. QED
  BY <1>1, <1>2, <1>3, <1>4, <1>5 DEF TeamNext

\* Each message is accepted at most once by a process, and those of one type in
\* the order of their sequences.
THEOREM OrderIsKept == TeamSpec => []AcceptedInOrder
<1>1. TeamInit => OrderInv
  BY DEF TeamInit, OrderInv, LatestIsGreatest, AcceptedInOrder
<1>2. TeamTypeOK /\ OrderInv /\ [TeamNext]_teamVars => OrderInv'
  BY OrderStep
<1>3. OrderInv => AcceptedInOrder
  BY DEF OrderInv
<1>4. QED
  BY <1>1, <1>2, <1>3, TeamTypeCorrect, PTL DEF TeamSpec

-----------------------------------------------------------------------------
(* A clocked peer is always heard *)

\* Clocks that differ by a period are numbered differently.
LEMMA PeriodsDiffer ==
  ASSUME NEW a \in Nat, NEW b \in Nat, NEW P \in Nat \ {0}, a + P <= b
  PROVE  a \div P < b \div P
<1> DEFINE qa == a \div P
<1> DEFINE qb == b \div P
<1>1. qa \in Int /\ qb \in Int
  OBVIOUS
<1>2. P * qa <= a /\ a < P * qa + P
  OBVIOUS
<1>3. P * qb <= b /\ b < P * qb + P
  OBVIOUS
<1> HIDE DEF qa, qb
<1>4. ASSUME qb <= qa PROVE FALSE
  <2>1. P * qb <= P * qa
    BY <1>1, <1>4
  <2>2. P * qa \in Int /\ P * qb \in Int
    BY <1>1
  <2>3. QED
    BY <1>2, <1>3, <2>1, <2>2
<1>5. QED
  BY <1>1, <1>4 DEF qa, qb

\* Of a clocked peer: the sequence of a message is the period it was sent in, and latest
\* is the sequence of a message this process accepted.
ClockInv ==
  /\ \A m \in sent : m.sequence = m.created \div SequencePeriod
  /\ \A k \in DOMAIN accepted : accepted[k].sequence = accepted[k].created \div SequencePeriod
  /\ \A t \in MessageTypes : latest[t] # None =>
       \E k \in DOMAIN accepted : accepted[k].type = t /\ accepted[k].sequence = latest[t]

LEMMA ClockStep ==
  ASSUME clocked, TeamTypeOK, ClockInv, [TeamNext]_teamVars
  PROVE  ClockInv'
<1> USE DEF ClockInv
<1>1. ASSUME NEW t \in MessageTypes, PeerSends(t) PROVE ClockInv'
  BY <1>1 DEF PeerSends, NextSequence, linkVars
<1>2. CASE PeerRestart
  BY <1>2 DEF PeerRestart, linkVars
<1>3. ASSUME NEW m \in sent, Receive(m) PROVE ClockInv'
  <2>1. CASE Accepts(m)
    <3>1. m \in Message /\ m.type \in MessageTypes /\ m.sequence = m.created \div SequencePeriod
      BY DEF TeamTypeOK, Message
    <3>2. /\ latest' = [latest EXCEPT ![m.type] = m.sequence]
          /\ accepted' = Append(accepted, m)
          /\ sent' = sent
      BY <1>3, <2>1 DEF Receive, peerVars
    <3>3. /\ DOMAIN accepted' = DOMAIN accepted \cup {Len(accepted) + 1}
          /\ accepted'[Len(accepted) + 1] = m
          /\ \A k \in DOMAIN accepted : accepted'[k] = accepted[k]
      BY <3>1, <3>2 DEF TeamTypeOK
    <3>4. ASSUME NEW t \in MessageTypes, latest'[t] # None
          PROVE  \E k \in DOMAIN accepted' : accepted'[k].type = t /\ accepted'[k].sequence = latest'[t]
      <4>1. CASE t = m.type
        BY <3>1, <3>2, <3>3, <4>1 DEF TeamTypeOK
      <4>2. CASE t # m.type
        <5>1. latest'[t] = latest[t]
          BY <3>2, <4>2 DEF TeamTypeOK
        <5>2. QED
          BY <3>3, <3>4, <5>1
      <4>3. QED
        BY <4>1, <4>2
    <3>5. QED
      BY <3>1, <3>2, <3>3, <3>4
  <2>2. CASE ~Accepts(m)
    BY <1>3, <2>2 DEF Receive, peerVars, linkVars
  <2>3. QED
    BY <2>1, <2>2
<1>4. CASE LinkRestart
  BY <1>4 DEF LinkRestart, peerVars
<1>5. CASE WallTick
  BY <1>5 DEF WallTick, peerVars, linkVars
<1>6. CASE UNCHANGED teamVars
  BY <1>6 DEF teamVars, peerVars, linkVars
<1>7. QED
  BY <1>1, <1>2, <1>3, <1>4, <1>5, <1>6 DEF TeamNext

\* A peer numbers in one way for good.
LEMMA ClockedStays == ASSUME [TeamNext]_teamVars PROVE clocked' = clocked
  BY DEF TeamNext, PeerSends, PeerRestart, Receive, LinkRestart, WallTick, teamVars, peerVars

LEMMA ClockedIsHeard == ASSUME TeamTypeOK, clocked => ClockInv PROVE NewerIsAccepted
<1>1. SUFFICES ASSUME NEW m \in sent, m.ours, IsFreshMessage(m),
                      clocked,
                      \A k \in DOMAIN accepted :
                        accepted[k].type = m.type =>
                          accepted[k].created + SequencePeriod <= m.created,
                      latest[m.type] # None
               PROVE  latest[m.type] < m.sequence
  BY DEF NewerIsAccepted, Accepts
<1>0. ClockInv
  BY <1>1
<1>2. /\ m.type \in MessageTypes /\ m.created \in Nat
      /\ m.sequence = m.created \div SequencePeriod
  <2>1. m \in Message
    BY <1>1 DEF TeamTypeOK
  <2>2. QED
    BY <1>0, <1>1, <2>1 DEF Message, ClockInv
<1>3. PICK k \in DOMAIN accepted : accepted[k].type = m.type /\ accepted[k].sequence = latest[m.type]
  BY <1>0, <1>1, <1>2 DEF ClockInv
<1>4. accepted[k].created \in Nat /\ accepted[k].sequence = accepted[k].created \div SequencePeriod
  <2>1. accepted[k] \in Message
    BY DEF TeamTypeOK
  <2>2. QED
    BY <1>0, <2>1 DEF Message, ClockInv
<1>5. accepted[k].created + SequencePeriod <= m.created
  BY <1>1, <1>3
<1>6. accepted[k].created \div SequencePeriod < m.created \div SequencePeriod
  BY <1>2, <1>4, <1>5, PeriodsDiffer, TeamLinkAssumption
<1>7. QED
  BY <1>2, <1>3, <1>4, <1>6

\* A peer that numbers its messages by its clock is never refused as old when
\* it is newer: no restart of either end makes the link deaf.
THEOREM ClockedPeerIsHeard == TeamSpec => []NewerIsAccepted
<1>1. TeamInit => (clocked => ClockInv)
  BY DEF TeamInit, ClockInv
<1>2. TeamTypeOK /\ (clocked => ClockInv) /\ [TeamNext]_teamVars => (clocked => ClockInv)'
  BY ClockStep, ClockedStays
<1>3. TeamTypeOK /\ (clocked => ClockInv) => NewerIsAccepted
  BY ClockedIsHeard
<1>4. QED
  BY <1>1, <1>2, <1>3, TeamTypeCorrect, PTL DEF TeamSpec

-----------------------------------------------------------------------------
(* TargetGate *)

Observation == [age : Nat, judged : Int]
TargetFlag == [valid : BOOLEAN, sent : 0..TargetDelay, age : Nat]

\* The age a stamp shows is short of the true age by no more than the wall clock
\* was set back; ages are counted only as far as anything asks for them.
JudgedRight(o) ==
  /\ o.judged >= o.age - WallSet \/ o.judged > MaxTargetAge
  /\ wallStep = 0 => o.judged >= o.age \/ o.judged > TargetLimit

\* How old the target behind a flag may be: at the gate, on its way, and at the
\* supervisor.
TargetInv ==
  /\ wallStep \in {-WallSet, 0, WallSet}
  /\ latestTarget \in SUBSET Observation
  /\ \A o, p \in latestTarget : o = p
  /\ \A o \in latestTarget : JudgedRight(o)
  /\ targetWire \in Seq(TargetFlag)
  /\ \A i \in 1..Len(targetWire) :
        targetWire[i].valid => targetWire[i].age <= MaxTargetAge + WallSet + targetWire[i].sent
  /\ target \in [valid : BOOLEAN, age : Nat, at : Nat]
  /\ target.valid => target.age <= MaxTargetAge + WallSet + TargetDelay + target.at

\* Counting up does not run back and never counts two.
LEMMA CountUpBounds ==
  /\ \A age, limit \in Nat : CountUp(age, limit) \in age..(age + 1)
  /\ \A age \in Int, limit \in Nat :
        CountUp(age, limit) \in age..(age + 1) /\ (age <= limit => CountUp(age, limit) = age + 1)
  BY DEF CountUp

LEMMA TargetInvInit == TargetInit => TargetInv
  BY TargetAssumption DEF TargetInit, TargetInv, NoTarget, Observation, TargetFlag

\* A flag stays one when its ages change.
LEMMA FlagChanges ==
  ASSUME NEW flag \in TargetFlag, NEW way \in 0..TargetDelay, NEW age \in Nat
  PROVE  [flag EXCEPT !.sent = way, !.age = age] \in TargetFlag
  BY DEF TargetFlag

\* A flag that says TRUE is about an observation the gate let through.
LEMMA TimerInv == ASSUME TargetInv, TargetTimer PROVE TargetInv'
<1> DEFINE valid == \E o \in latestTarget : ValidateAge(o)
           age == IF valid THEN (CHOOSE o \in latestTarget : TRUE).age ELSE 0
           flag == [valid |-> valid, sent |-> 0, age |-> age]
           all == Append(targetWire, flag)
<1>1. age \in Nat /\ (valid => age <= MaxTargetAge + WallSet)
  <2>1. CASE valid
    <3>1. PICK o \in latestTarget : ValidateAge(o)
      BY <2>1
    <3>2. (CHOOSE p \in latestTarget : TRUE) = o
      BY DEF TargetInv
    <3>3. o \in Observation /\ JudgedRight(o)
      BY DEF TargetInv
    <3>4. age = o.age
      BY <2>1, <3>2
    <3>5. o.age \in Nat /\ o.judged \in Int /\ o.judged <= MaxTargetAge
      BY <3>1, <3>3, TargetAssumption DEF ValidateAge, Observation
    <3> HIDE DEF age, valid
    <3>6. QED
      BY <3>3, <3>4, <3>5, TargetAssumption DEF JudgedRight
  <2>2. QED
    BY <2>1
<1>2. valid \in BOOLEAN
  OBVIOUS
<1> HIDE DEF valid, age
<1>3. flag \in TargetFlag
  BY <1>1, <1>2, TargetAssumption DEF TargetFlag
<1>4. /\ all \in Seq(TargetFlag)
      /\ \A i \in 1..Len(all) : all[i].valid => all[i].age <= MaxTargetAge + WallSet + all[i].sent
  BY <1>1, <1>3, TargetAssumption DEF TargetInv
<1>5. targetWire' = all \/ targetWire' = SubSeq(all, 2, Len(all))
  <2>1. SubSeq(all, 1, Len(all)) = all
    BY <1>4
  <2>2. QED
    BY <2>1 DEF TargetTimer, valid, age
<1>6. /\ targetWire' \in Seq(TargetFlag)
      /\ \A i \in 1..Len(targetWire') :
            targetWire'[i].valid => targetWire'[i].age <= MaxTargetAge + WallSet + targetWire'[i].sent
  <2> HIDE DEF all
  <2>1. CASE targetWire' = all
    BY <2>1, <1>4
  <2>2. CASE targetWire' = SubSeq(all, 2, Len(all))
    <3>1. /\ SubSeq(all, 2, Len(all)) \in Seq(TargetFlag)
          /\ \A i \in 1..Len(SubSeq(all, 2, Len(all))) :
                i + 1 \in 1..Len(all) /\ SubSeq(all, 2, Len(all))[i] = all[i + 1]
      BY <1>4
    <3>2. QED
      BY <2>2, <3>1, <1>4
  <2>3. QED
    BY <1>5, <2>1, <2>2
<1>7. QED
  BY <1>6 DEF TargetInv, TargetTimer, JudgedRight

\* Setting the wall clock takes from the age a stamp shows no more than it is set by.
LEMMA WallClockInv ==
  ASSUME TargetInv, NEW by \in {-WallSet, WallSet}, WallClockSet(by) PROVE TargetInv'
<1>1. \A o \in latestTarget' : o \in Observation /\ JudgedRight(o)'
  <2>1. SUFFICES ASSUME NEW o \in latestTarget
                 PROVE  /\ [o EXCEPT !.judged = @ + by] \in Observation
                        /\ JudgedRight([o EXCEPT !.judged = @ + by])'
    BY DEF WallClockSet
  <2>2. o \in Observation /\ JudgedRight(o) /\ wallStep = 0 /\ wallStep' = by
    BY DEF TargetInv, WallClockSet
  <2>3. QED
    BY <2>2, TargetAssumption DEF Observation, JudgedRight, TargetLimit
<1>2. \A o, p \in latestTarget' : o = p
  BY DEF TargetInv, WallClockSet
<1>3. QED
  BY <1>1, <1>2 DEF TargetInv, WallClockSet

LEMMA TargetAgesInv == ASSUME TargetInv, TargetAges PROVE TargetInv'
<1>0. TargetLimit \in Nat /\ {MaxTargetAge, WallSet, TargetDelay, TargetAgeLimit, SignalSilence} \subseteq Nat
  BY TargetAssumption DEF TargetLimit
<1>1. \A o \in latestTarget' : o \in Observation /\ JudgedRight(o)'
  <2> DEFINE older(o) == [age |-> CountUp(o.age, TargetLimit), judged |-> CountUp(o.judged, TargetLimit)]
  <2>1. SUFFICES ASSUME NEW o \in latestTarget
                 PROVE  older(o) \in Observation /\ JudgedRight(older(o))'
    BY DEF TargetAges
  <2>2. o \in Observation /\ JudgedRight(o) /\ wallStep' = wallStep
    BY DEF TargetInv, TargetAges
  <2>3. o.age \in Nat /\ o.judged \in Int
    BY <2>2 DEF Observation
  <2>4. /\ CountUp(o.age, TargetLimit) \in o.age..(o.age + 1)
        /\ CountUp(o.judged, TargetLimit) \in o.judged..(o.judged + 1)
        /\ o.judged <= TargetLimit => CountUp(o.judged, TargetLimit) = o.judged + 1
    BY <1>0, <2>3, CountUpBounds
  <2>5. /\ older(o).age \in o.age..(o.age + 1)
        /\ older(o).judged \in o.judged..(o.judged + 1)
        /\ o.judged <= TargetLimit => older(o).judged = o.judged + 1
    BY <2>4
  <2>6. MaxTargetAge <= TargetLimit
    BY <1>0 DEF TargetLimit
  <2>7. older(o) \in Observation
    BY <2>3, <2>4 DEF Observation
  <2> HIDE DEF older
  <2>8. QED
    BY <1>0, <2>2, <2>3, <2>5, <2>6, <2>7 DEF JudgedRight
<1>2. \A o, p \in latestTarget' : o = p
  BY DEF TargetInv, TargetAges
<1>3. /\ targetWire' \in Seq(TargetFlag)
      /\ \A i \in 1..Len(targetWire') :
            targetWire'[i].valid => targetWire'[i].age <= MaxTargetAge + WallSet + targetWire'[i].sent
  <2> DEFINE older(f) == [f EXCEPT !.sent = @ + 1, !.age = CountUp(@, TargetLimit)]
  <2>1. targetWire' = [i \in 1..Len(targetWire) |-> older(targetWire[i])]
    <3>1. DOMAIN targetWire = 1..Len(targetWire)
      BY DEF TargetInv
    <3>2. QED
      BY <3>1, Zenon DEF TargetAges
  <2>2. \A i \in 1..Len(targetWire) :
          /\ older(targetWire[i]) \in TargetFlag
          /\ older(targetWire[i]).valid =>
               older(targetWire[i]).age <= MaxTargetAge + WallSet + older(targetWire[i]).sent
    <3>1. SUFFICES ASSUME NEW i \in 1..Len(targetWire), NEW f, f = targetWire[i]
                   PROVE  /\ older(f) \in TargetFlag
                          /\ older(f).valid => older(f).age <= MaxTargetAge + WallSet + older(f).sent
      OBVIOUS
    <3>2. f \in TargetFlag /\ f.sent < TargetDelay
          /\ (f.valid => f.age <= MaxTargetAge + WallSet + f.sent)
      <4>1. DOMAIN targetWire = 1..Len(targetWire)
        BY DEF TargetInv
      <4>2. targetWire[i].sent < TargetDelay
        BY <4>1 DEF TargetAges
      <4>3. QED
        BY <3>1, <4>2 DEF TargetInv
    <3>3. f.age \in Nat
      BY <3>2 DEF TargetFlag
    <3>4. CountUp(f.age, TargetLimit) \in f.age..(f.age + 1)
      BY <1>0, <3>3, CountUpBounds
    <3>5. older(f).valid = f.valid /\ older(f).sent = f.sent + 1
          /\ older(f).age = CountUp(f.age, TargetLimit)
      BY <3>2 DEF TargetFlag
    <3>6. f.sent \in Nat /\ f.sent + 1 \in 0..TargetDelay /\ f.valid \in BOOLEAN
      BY <1>0, <3>2 DEF TargetFlag
    <3>7. older(f) \in TargetFlag
      <4>1. CountUp(f.age, TargetLimit) \in Nat
        BY <3>3, <3>4
      <4>2. QED
        BY <3>2, <3>6, <4>1, FlagChanges
    <3>8. older(f).valid => older(f).age <= MaxTargetAge + WallSet + older(f).sent
      <4>1. PICK was \in Nat, is \in Nat, since \in Nat :
              was = f.age /\ is = CountUp(f.age, TargetLimit) /\ since = f.sent
        BY <3>3, <3>4, <3>6
      <4>2. is <= was + 1
        BY <3>4, <4>1
      <4>3. f.valid => was <= MaxTargetAge + WallSet + since
        BY <3>2, <4>1
      <4>4. f.valid => is <= MaxTargetAge + WallSet + (since + 1)
        BY <1>0, <4>2, <4>3
      <4>5. QED
        BY <3>5, <4>1, <4>4
    <3>9. QED
      BY <3>7, <3>8
  <2> HIDE DEF older
  <2>3. QED
    BY <2>1, <2>2 DEF TargetInv
<1>4. /\ target' \in [valid : BOOLEAN, age : Nat, at : Nat]
      /\ target'.valid => target'.age <= MaxTargetAge + WallSet + TargetDelay + target'.at
  <2>1. CASE target' = NoTarget
    BY <1>0, <2>1 DEF NoTarget
  <2>2. CASE target' = [target EXCEPT !.at = @ + 1, !.age = CountUp(@, TargetLimit)]
    <3>1. target \in [valid : BOOLEAN, age : Nat, at : Nat]
      BY DEF TargetInv
    <3>2. target.age \in Nat /\ target.at \in Nat
      BY <3>1
    <3>3. CountUp(target.age, TargetLimit) \in target.age..(target.age + 1)
      BY <1>0, <3>2, CountUpBounds
    <3>4. target' = [valid |-> target.valid, age |-> CountUp(target.age, TargetLimit),
                     at |-> target.at + 1]
      BY <2>2, <3>1
    <3>5. PICK is : is = CountUp(target.age, TargetLimit)
      OBVIOUS
    <3>6. is \in Nat /\ is <= target.age + 1
      BY <3>2, <3>3, <3>5
    <3>7. target' = [valid |-> target.valid, age |-> is, at |-> target.at + 1]
      BY <3>4, <3>5
    <3>8. target.valid => target.age <= MaxTargetAge + WallSet + TargetDelay + target.at
      BY DEF TargetInv
    <3>9. target.valid => is <= MaxTargetAge + WallSet + TargetDelay + (target.at + 1)
      BY <1>0, <3>2, <3>6, <3>8
    <3>10. QED
      BY <3>1, <3>2, <3>6, <3>7, <3>9
  <2>3. QED
    BY <2>1, <2>2 DEF TargetAges
<1>5. QED
  BY <1>1, <1>2, <1>3, <1>4 DEF TargetInv, TargetAges

LEMMA TargetInvStep == ASSUME TargetInv, [TargetNext]_targetVars PROVE TargetInv'
<1>1. ASSUME NEW age \in 0..CameraLag, NEW set \in {0, wallStep}, NEW sound \in BOOLEAN,
             ObservationCallback(age, set, sound)
      PROVE  TargetInv'
  <2> DEFINE seen == [age |-> age, judged |-> age + set]
  <2>1. seen \in Observation /\ JudgedRight(seen) /\ wallStep' = wallStep
    BY <1>1, TargetAssumption DEF TargetInv, ObservationCallback, Observation, JudgedRight
  <2>2. latestTarget' = {} \/ latestTarget' = {seen}
    BY <1>1 DEF ObservationCallback
  <2> HIDE DEF seen
  <2>3. QED
    BY <1>1, <2>1, <2>2 DEF TargetInv, ObservationCallback, JudgedRight
<1>2. CASE TargetTimer
  BY <1>2, TimerInv
<1>3. CASE TargetGateStarts
  BY <1>3 DEF TargetInv, TargetGateStarts
<1>4. ASSUME NEW by \in {-WallSet, WallSet} \ {0}, WallClockSet(by) PROVE TargetInv'
  BY <1>4, WallClockInv
<1>5. CASE TargetSignal
  <2>1. /\ targetWire[1] \in TargetFlag
        /\ targetWire[1].valid => targetWire[1].age <= MaxTargetAge + WallSet + targetWire[1].sent
        /\ target' = [valid |-> targetWire[1].valid, age |-> targetWire[1].age, at |-> 0]
    BY <1>5 DEF TargetInv, TargetSignal
  <2>2. /\ target' \in [valid : BOOLEAN, age : Nat, at : Nat]
        /\ target'.valid => target'.age <= MaxTargetAge + WallSet + TargetDelay + target'.at
    BY <2>1, TargetAssumption DEF TargetFlag
  <2>3. /\ targetWire' \in Seq(TargetFlag)
        /\ \A i \in 1..Len(targetWire') :
              targetWire'[i].valid => targetWire'[i].age <= MaxTargetAge + WallSet + targetWire'[i].sent
    BY <1>5 DEF TargetInv, TargetSignal
  <2>4. QED
    BY <1>5, <2>2, <2>3 DEF TargetInv, TargetSignal, JudgedRight
<1>6. CASE TargetAges
  BY <1>6, TargetAgesInv
<1>7. CASE UNCHANGED targetVars
  BY <1>7 DEF TargetInv, targetVars, JudgedRight
<1>8. QED
  BY <1>1, <1>2, <1>3, <1>4, <1>5, <1>6, <1>7 DEF TargetNext

LEMMA TargetIsRecent == TargetInv => ShotTargetIsRecent
  BY TargetAssumption DEF TargetInv, ShotTargetIsRecent, TargetAllowsShot, TargetLimit

\* For every limit, delay and setting of the wall clock: no shot is let through at a
\* target older than the gate, the clock, the way and the supervisor together allow.
THEOREM ShotTargetsAreRecent == TargetSpec => []ShotTargetIsRecent
<1>1. QED
  BY TargetIsRecent, TargetInvInit, TargetInvStep, PTL DEF TargetSpec

-----------------------------------------------------------------------------
(* PoseCommand *)

SentPose == [heard : Nat, sent : Nat]
SentLock == [locked : BOOLEAN, sent : Nat]

CommandTypeOK ==
  /\ verified \in BOOLEAN /\ anchorUp \in BOOLEAN /\ ticked \in BOOLEAN /\ bridgeLocked \in BOOLEAN
  /\ odomAge \in Nat /\ doubtAge \in Nat
  /\ poseWire \in Seq(SentPose) /\ lockWire \in Seq(SentLock)
  /\ pose \in [heard : Nat, at : Nat]

\* What is on its way comes in time.
InTime ==
  /\ \A k \in DOMAIN poseWire : poseWire[k].sent <= Delay
  /\ \A k \in DOMAIN lockWire : lockWire[k].sent <= Delay

\* A pose is of odometry that was recent when it was sent.
PosesHeard ==
  /\ odomSeen = "fresh" => odomAge <= SilenceLimit
  /\ \A k \in DOMAIN poseWire : poseWire[k].heard <= OdomAgeLimit + poseWire[k].sent
  /\ pose.at <= MaxPoseAge => pose.heard <= OdomAgeLimit + Delay + pose.at

\* A message that takes the lock back is on its way, sent at most one period into the
\* doubt, with at most one message behind it for every period since.
Telling(k) ==
  /\ ~lockWire[k].locked /\ doubtAge <= lockWire[k].sent + 1
  /\ Len(lockWire) - k + (IF ticked THEN 0 ELSE 1) <= lockWire[k].sent

\* No pose comes any more, and all were sent at most one period into the doubt.
PosesAreOld ==
  /\ ~anchorUp
  /\ \A k \in DOMAIN poseWire : doubtAge <= poseWire[k].sent + 1
  /\ pose.at <= MaxPoseAge => doubtAge <= 1 + Delay + pose.at

\* Every lock that the bridge has, or will have, is taken back.
LocksAreTakenBack ==
  /\ bridgeLocked => \E k \in DOMAIN lockWire : Telling(k)
  /\ \A j \in DOMAIN lockWire :
        lockWire[j].locked => \E k \in DOMAIN lockWire : k > j /\ Telling(k)

\* An anchor in doubt is about to say so, has said so, or has died.
DoubtIsTold ==
  /\ Confirmed => doubtAge = 0
  /\ ~Confirmed => \/ doubtAge = 0
                   \/ doubtAge = 1 /\ anchorUp /\ ~ticked
                   \/ LocksAreTakenBack
                   \/ PosesAreOld

CommandInv == CommandTypeOK /\ InTime /\ PosesHeard /\ DoubtIsTold

LEMMA SendType ==
  ASSUME NEW S, NEW wire \in Seq(S), NEW m \in S
  PROVE  /\ Send(wire, m) \in Seq(S)
         /\ \A k \in DOMAIN Send(wire, m) :
               Send(wire, m)[k] = m \/ \E j \in DOMAIN wire : Send(wire, m)[k] = wire[j]
<1> DEFINE all == Append(wire, m)
<1>1. all \in Seq(S) /\ Len(all) = Len(wire) + 1 /\ Len(wire) \in Nat
  OBVIOUS
<1>2. \A k \in 1..Len(all) : all[k] = m \/ \E j \in DOMAIN wire : all[k] = wire[j]
  OBVIOUS
<1> HIDE DEF all
<1>3. CASE Len(all) > InFlight
  <2>1. Send(wire, m) = SubSeq(all, 2, Len(all))
    BY <1>3 DEF Send, all
  <2>2. /\ Send(wire, m) \in Seq(S) /\ Len(Send(wire, m)) = Len(all) - 1
        /\ \A k \in 1..(Len(all) - 1) : Send(wire, m)[k] = all[k + 1] /\ k + 1 \in 1..Len(all)
    BY <1>1, <2>1
  <2>3. DOMAIN Send(wire, m) = 1..(Len(all) - 1)
    BY <2>2
  <2>4. QED
    BY <1>2, <2>2, <2>3
<1>4. CASE ~(Len(all) > InFlight)
  <2>1. Send(wire, m) = SubSeq(all, 1, Len(all))
    BY <1>4 DEF Send, all
  <2>2. Send(wire, m) \in Seq(S) /\ Len(Send(wire, m)) = Len(all)
        /\ \A k \in 1..Len(all) : Send(wire, m)[k] = all[k]
    BY <1>1, <2>1
  <2>3. QED
    BY <1>2, <2>2
<1>5. QED
  BY <1>3, <1>4

LEMMA SendKeeps ==
  ASSUME NEW S, NEW wire \in Seq(S), NEW m \in S
  PROVE  /\ Len(Send(wire, m)) \in DOMAIN Send(wire, m)
         /\ Send(wire, m)[Len(Send(wire, m))] = m
         /\ \A k \in DOMAIN wire :
               (Len(wire) >= InFlight => k >= 2) =>
                  \E j \in DOMAIN Send(wire, m) :
                     /\ Send(wire, m)[j] = wire[k]
                     /\ Len(Send(wire, m)) - j = Len(wire) + 1 - k
<1> DEFINE all == Append(wire, m)
<1>1. /\ all \in Seq(S) /\ Len(all) = Len(wire) + 1 /\ Len(wire) \in Nat
      /\ all[Len(all)] = m /\ \A k \in 1..Len(wire) : all[k] = wire[k]
      /\ DOMAIN wire = 1..Len(wire)
  OBVIOUS
<1> HIDE DEF all
<1>2. CASE Len(all) > InFlight
  <2>1. Send(wire, m) = SubSeq(all, 2, Len(all))
    BY <1>2 DEF Send, all
  <2>2. /\ Send(wire, m) \in Seq(S) /\ Len(Send(wire, m)) = Len(wire)
        /\ DOMAIN Send(wire, m) = 1..Len(wire)
        /\ \A k \in 1..Len(wire) : Send(wire, m)[k] = all[k + 1]
    BY <1>1, <2>1
  <2>3. Len(wire) >= 1
    BY <1>1, <1>2, CommandAssumption
  <2>4. Send(wire, m)[Len(wire)] = m
    BY <1>1, <2>2, <2>3
  <2>5. Len(wire) >= InFlight
    BY <1>1, <1>2, CommandAssumption
  <2>6. ASSUME NEW k \in DOMAIN wire, k >= 2
        PROVE  k - 1 \in 1..Len(wire) /\ Send(wire, m)[k - 1] = wire[k]
    BY <1>1, <2>2, <2>6
  <2>7. QED
    BY <1>1, <2>2, <2>3, <2>4, <2>5, <2>6
<1>3. CASE ~(Len(all) > InFlight)
  <2>1. Send(wire, m) = SubSeq(all, 1, Len(all))
    BY <1>3 DEF Send, all
  <2>2. /\ Send(wire, m) \in Seq(S) /\ Len(Send(wire, m)) = Len(all)
        /\ DOMAIN Send(wire, m) = 1..Len(all)
        /\ \A k \in 1..Len(all) : Send(wire, m)[k] = all[k]
    BY <1>1, <2>1
  <2>3. QED
    BY <1>1, <2>2
<1>4. QED
  BY <1>2, <1>3

LEMMA SendOlder ==
  ASSUME NEW S, NEW wire \in Seq(S), NEW m \in S, NEW k \in DOMAIN Send(wire, m),
         k # Len(Send(wire, m))
  PROVE  \E old \in DOMAIN wire : /\ wire[old] = Send(wire, m)[k]
                                  /\ Len(Send(wire, m)) - k = Len(wire) + 1 - old
<1> DEFINE all == Append(wire, m)
<1>1. /\ all \in Seq(S) /\ Len(all) = Len(wire) + 1 /\ Len(wire) \in Nat
      /\ \A n \in 1..Len(wire) : all[n] = wire[n]
      /\ DOMAIN wire = 1..Len(wire)
  OBVIOUS
<1> HIDE DEF all
<1>2. CASE Len(all) > InFlight
  <2>1. Send(wire, m) = SubSeq(all, 2, Len(all))
    BY <1>2 DEF Send, all
  <2>2. /\ Send(wire, m) \in Seq(S) /\ Len(Send(wire, m)) = Len(wire)
        /\ DOMAIN Send(wire, m) = 1..Len(wire)
        /\ \A n \in 1..Len(wire) : Send(wire, m)[n] = all[n + 1]
    BY <1>1, <2>1
  <2>3. k + 1 \in 1..Len(wire) /\ wire[k + 1] = Send(wire, m)[k]
    BY <1>1, <2>2
  <2>4. QED
    BY <1>1, <2>2, <2>3
<1>3. CASE ~(Len(all) > InFlight)
  <2>1. Send(wire, m) = SubSeq(all, 1, Len(all))
    BY <1>3 DEF Send, all
  <2>2. /\ Send(wire, m) \in Seq(S) /\ Len(Send(wire, m)) = Len(all)
        /\ DOMAIN Send(wire, m) = 1..Len(all)
        /\ \A n \in 1..Len(all) : Send(wire, m)[n] = all[n]
    BY <1>1, <2>1
  <2>3. k \in 1..Len(wire) /\ wire[k] = Send(wire, m)[k]
    BY <1>1, <2>2
  <2>4. QED
    BY <1>1, <2>2, <2>3
<1>4. QED
  BY <1>2, <1>3

LEMMA CommandInvInit == CommandInit => CommandInv
<1>1. SUFFICES ASSUME CommandInit PROVE CommandInv
  OBVIOUS
<1>2. OdomAgeLimit \in Nat /\ SilenceLimit <= OdomAgeLimit /\ CorrectionLag <= OdomAgeLimit
  BY CommandAssumption DEF OdomAgeLimit, Longest
<1>3. CommandTypeOK
  <2>1. NoPose \in [heard : Nat, at : Nat]
    BY CommandAssumption DEF NoPose
  <2>2. OdomAgeLimit + 1 \in Nat
    BY <1>2
  <2>3. poseWire \in Seq(SentPose) /\ lockWire \in Seq(SentLock)
    BY <1>1 DEF CommandInit
  <2>4. ~verified /\ verified \in BOOLEAN /\ anchorUp \in BOOLEAN
    BY <1>1 DEF CommandInit, AnchorFresh
  <2>5. ticked \in BOOLEAN /\ bridgeLocked \in BOOLEAN
    BY <1>1 DEF CommandInit
  <2>6. pose = NoPose /\ odomAge = OdomAgeLimit + 1 /\ doubtAge = 0
    BY <1>1 DEF CommandInit
  <2>7. QED
    BY <2>1, <2>2, <2>3, <2>4, <2>5, <2>6 DEF CommandTypeOK
<1>4. DOMAIN poseWire = {} /\ DOMAIN lockWire = {}
  BY <1>1 DEF CommandInit
<1>5. InTime /\ PosesHeard
  BY <1>1, <1>4, CommandAssumption DEF CommandInit, AnchorFresh, InTime, PosesHeard, NoPose
<1>6. DoubtIsTold
  BY <1>1 DEF CommandInit, AnchorFresh, DoubtIsTold, Confirmed
<1>7. QED
  BY <1>3, <1>5, <1>6 DEF CommandInv

-----------------------------------------------------------------------------
(* What an action of the anchor leaves to the others, by what it sends *)

LEMMA LimitTypes ==
  /\ OdomAgeLimit \in Nat /\ SilenceLimit <= OdomAgeLimit /\ CorrectionLag <= OdomAgeLimit
  /\ SilenceLimit \in Nat /\ CorrectionLag \in Nat
  /\ Delay \in Nat /\ MaxPoseAge \in Nat /\ HeardLimit = OdomAgeLimit + Delay + MaxPoseAge
  /\ DoubtLimit = 1 + Delay + MaxPoseAge
  BY CommandAssumption DEF OdomAgeLimit, Longest, HeardLimit, DoubtLimit

\* A pose is published with odometry that is recent.
LEMMA PoseIsSent ==
  ASSUME CommandTypeOK, InTime, PosesHeard, NEW age \in Nat, age <= OdomAgeLimit,
         PublishLocalized(age)
  PROVE  /\ poseWire' \in Seq(SentPose)
         /\ \A k \in DOMAIN poseWire' : /\ poseWire'[k].sent <= Delay
                                        /\ poseWire'[k].heard <= OdomAgeLimit + poseWire'[k].sent
<1> DEFINE m == [heard |-> age, sent |-> 0]
<1>1. m \in SentPose /\ m.sent <= Delay /\ m.heard <= OdomAgeLimit + m.sent
  BY LimitTypes DEF SentPose
<1>2. poseWire' = Send(poseWire, m)
  BY DEF PublishLocalized
<1> HIDE DEF m
<1>3. poseWire \in Seq(SentPose)
  BY DEF CommandTypeOK
<1>4. /\ poseWire' \in Seq(SentPose)
      /\ \A k \in DOMAIN poseWire' :
            poseWire'[k] = m \/ \E j \in DOMAIN poseWire : poseWire'[k] = poseWire[j]
  BY <1>1, <1>2, <1>3, SendType
<1>5. QED
  BY <1>1, <1>4 DEF InTime, PosesHeard

LEMMA LocksStay ==
  ASSUME LocksAreTakenBack, UNCHANGED <<doubtAge, lockWire, ticked, bridgeLocked>>
  PROVE  LocksAreTakenBack'
<1>1. ASSUME NEW k \in DOMAIN lockWire, Telling(k) PROVE Telling(k)'
  BY <1>1 DEF Telling
<1>2. QED
  BY <1>1 DEF LocksAreTakenBack

LEMMA VerifiedOrNot ==
  ASSUME CommandInv, AnchorActs, verified' \in BOOLEAN,
         lockWire' = lockWire, ticked' = ticked
  PROVE  DoubtIsTold'
<1>1. /\ anchorUp /\ anchorUp' /\ bridgeLocked' = bridgeLocked /\ pose' = pose
      /\ doubtAge' = IF verified' THEN 0 ELSE doubtAge
  BY DEF AnchorActs, bridgeSide
<1>2. CASE verified'
  BY <1>1, <1>2 DEF DoubtIsTold, Confirmed
<1>3. CASE ~verified' /\ verified
  <2>1. doubtAge' = 0
    BY <1>1, <1>3 DEF CommandInv, DoubtIsTold, Confirmed
  <2>2. QED
    BY <1>3, <2>1 DEF DoubtIsTold, Confirmed
<1>4. CASE ~verified' /\ ~verified
  <2>1. doubtAge' = doubtAge /\ ~Confirmed /\ ~Confirmed'
    BY <1>1, <1>4 DEF Confirmed
  <2>2. LocksAreTakenBack => LocksAreTakenBack'
    BY <1>1, <2>1, LocksStay
  <2>3. ~PosesAreOld
    BY <1>1 DEF PosesAreOld
  <2>4. QED
    BY <1>1, <2>1, <2>2, <2>3 DEF CommandInv, DoubtIsTold
<1>5. QED
  BY <1>2, <1>3, <1>4 DEF CommandInv, CommandTypeOK

\* The actions of the anchor that send no lock.
LEMMA AnchorInv ==
  ASSUME CommandInv, AnchorActs, verified' \in BOOLEAN, lockWire' = lockWire, ticked' = ticked,
         \/ UNCHANGED poseWire
         \/ \E age \in Nat : age <= OdomAgeLimit /\ PublishLocalized(age),
         odomAge' \in Nat, odomSeen' = "fresh" => odomAge' <= SilenceLimit
  PROVE  CommandInv'
<1>1. /\ poseWire' \in Seq(SentPose)
      /\ \A k \in DOMAIN poseWire' : /\ poseWire'[k].sent <= Delay
                                     /\ poseWire'[k].heard <= OdomAgeLimit + poseWire'[k].sent
  <2>1. CASE UNCHANGED poseWire
    BY <2>1 DEF CommandInv, CommandTypeOK, InTime, PosesHeard
  <2>2. QED
    BY <2>1, PoseIsSent DEF CommandInv
<1>2. anchorUp' = anchorUp /\ bridgeLocked' = bridgeLocked /\ pose' = pose
      /\ doubtAge' = IF verified' THEN 0 ELSE doubtAge
  BY DEF AnchorActs, bridgeSide
<1>3. CommandTypeOK'
  BY <1>1, <1>2 DEF CommandInv, CommandTypeOK
<1>4. InTime'
  BY <1>1 DEF CommandInv, InTime
<1>5. PosesHeard'
  BY <1>1, <1>2 DEF CommandInv, PosesHeard
<1>6. QED
  BY <1>3, <1>4, <1>5, VerifiedOrNot DEF CommandInv

LEMMA AnchorStepInv ==
  ASSUME CommandInv,
         \/ AnchorOdom \/ AnchorRequest \/ AnchorInitialpose \/ AnchorCorrection
         \/ \E value \in BOOLEAN : AnchorPoseValid(value)
  PROVE  CommandInv'
<1> USE DEF CommandInv
<1>0. /\ odomAge \in Nat /\ verified \in BOOLEAN
      /\ odomSeen = "fresh" => odomAge <= SilenceLimit
  BY DEF CommandTypeOK, PosesHeard
<1>1. CASE AnchorOdom
  <2>1. /\ AnchorActs /\ lockWire' = lockWire /\ ticked' = ticked /\ odomAge' = 0
        /\ verified' = verified /\ (PublishLocalized(0) \/ UNCHANGED poseWire)
    BY <1>1 DEF AnchorOdom, OdomCallback, trackingVars
  <2>2. QED
    BY <1>0, <2>1, AnchorInv, LimitTypes
<1>2. CASE AnchorRequest
  <2>1. /\ AnchorActs /\ UNCHANGED <<lockWire, ticked, odomAge, poseWire, odomSeen>>
        /\ verified' = FALSE
    BY <1>2 DEF AnchorRequest, RelocalizationRequestCallback, RequestRelocalization, wires
  <2>2. QED
    BY <1>0, <2>1, AnchorInv
<1>3. CASE AnchorInitialpose
  <2>1. /\ AnchorActs /\ UNCHANGED <<lockWire, ticked, odomAge, odomSeen>>
        /\ verified' = FALSE /\ odomSeen = "fresh" /\ PublishLocalized(odomAge)
    BY <1>3 DEF AnchorInitialpose, InitialposeCallback, SetProvisionalAnchor, ReadyForAnchor
  <2>2. odomAge <= OdomAgeLimit
    BY <1>0, <2>1, LimitTypes
  <2>3. QED
    BY <1>0, <2>1, <2>2, AnchorInv
<1>4. CASE AnchorCorrection
  <2>1. /\ AnchorActs /\ UNCHANGED <<lockWire, ticked, odomAge, odomSeen>>
        /\ verified' = TRUE
        /\ odomSeen # "none" => odomAge <= CorrectionLag /\ PublishLocalized(odomAge)
        /\ odomSeen = "none" => UNCHANGED poseWire
    BY <1>4 DEF AnchorCorrection, CorrectionCallback, AcceptAnchor
  <2>2. odomSeen # "none" => odomAge <= OdomAgeLimit
    BY <1>0, <2>1, LimitTypes
  <2>3. QED
    BY <1>0, <2>1, <2>2, AnchorInv
<1>5. ASSUME NEW value \in BOOLEAN, AnchorPoseValid(value) PROVE CommandInv'
  <2>1. /\ AnchorActs /\ UNCHANGED <<lockWire, ticked, odomAge, poseWire, odomSeen>>
        /\ verified' = verified
    BY <1>5 DEF AnchorPoseValid, PoseValidCallback, wires, trackingVars
  <2>2. QED
    BY <1>0, <2>1, AnchorInv
<1>6. QED
  BY <1>1, <1>2, <1>3, <1>4, <1>5

\* The tick tells a lock or takes it back, and leaves what is on its way.
LEMMA AnchorTickInv == ASSUME Delay < InFlight, CommandInv, AnchorTick PROVE CommandInv'
<1> DEFINE m == [locked |-> lockTopic', sent |-> 0]
<1>1. /\ anchorUp /\ anchorUp' = anchorUp /\ ~ticked /\ ticked' = TRUE /\ verified' = verified
      /\ bridgeLocked' = bridgeLocked /\ pose' = pose /\ poseWire' = poseWire
      /\ odomAge' = odomAge /\ odomSeen' = odomSeen
      /\ doubtAge' = (IF verified THEN 0 ELSE doubtAge)
      /\ lockWire' = Send(lockWire, m)
  BY DEF AnchorTick, AnchorActs, PublishAnchorStatus, bridgeSide
<1>2. m \in SentLock /\ m.sent = 0 /\ (~verified => ~m.locked)
  <2>1. lockTopic' = (trackingState' = "TRACKING") /\ trackingState' = Update(poseValid, odomSeen = "fresh")
    BY DEF AnchorTick, PublishAnchorStatus
  <2>2. lockTopic' \in BOOLEAN
    BY <2>1
  <2>3. ~verified => trackingState' # "TRACKING"
    BY <2>1 DEF Update
  <2>4. QED
    BY <2>1, <2>2, <2>3 DEF SentLock
<1> HIDE DEF m
<1>3. lockWire \in Seq(SentLock) /\ doubtAge \in Nat /\ Len(lockWire) \in Nat
  BY DEF CommandInv, CommandTypeOK
<1>4. /\ lockWire' \in Seq(SentLock)
      /\ \A k \in DOMAIN lockWire' :
            lockWire'[k] = m \/ \E j \in DOMAIN lockWire : lockWire'[k] = lockWire[j]
  BY <1>1, <1>2, <1>3, SendType
<1>5. /\ Len(lockWire') \in DOMAIN lockWire' /\ lockWire'[Len(lockWire')] = m
      /\ \A k \in DOMAIN lockWire :
            (Len(lockWire) >= InFlight => k >= 2) =>
               \E j \in DOMAIN lockWire' : /\ lockWire'[j] = lockWire[k]
                                          /\ Len(lockWire') - j = Len(lockWire) + 1 - k
  BY <1>1, <1>2, <1>3, SendKeeps
<1>6. CommandTypeOK'
  BY <1>1, <1>4 DEF CommandInv, CommandTypeOK
<1>7. InTime'
  BY <1>1, <1>2, <1>4, LimitTypes DEF CommandInv, InTime
<1>8. PosesHeard'
  BY <1>1 DEF CommandInv, PosesHeard
<1>9. DOMAIN lockWire' = 1..Len(lockWire') /\ Len(lockWire') \in Nat
  BY <1>4
<1>10. DoubtIsTold'
  <2>1. CASE verified
    BY <1>1, <2>1 DEF DoubtIsTold, Confirmed
  <2>2. CASE ~verified /\ doubtAge # 0
    <3>1. ~Confirmed /\ ~Confirmed' /\ doubtAge' = doubtAge
      BY <1>1, <2>2 DEF Confirmed
    <3>2. CASE doubtAge = 1
      <4>1. PICK last \in DOMAIN lockWire' : last = Len(lockWire')
        BY <1>5
      <4>2. Len(lockWire') - last = 0 /\ ~lockWire'[last].locked
        BY <1>2, <1>5, <1>9, <2>2, <4>1
      <4>3. Telling(last)'
        BY <1>1, <1>2, <1>5, <2>2, <3>1, <3>2, <4>1, <4>2 DEF Telling
      <4>4. ASSUME NEW j \in DOMAIN lockWire', lockWire'[j].locked PROVE last > j
        BY <1>9, <4>1, <4>2, <4>4
      <4>5. LocksAreTakenBack'
        BY <4>3, <4>4 DEF LocksAreTakenBack
      <4>6. QED
        BY <3>1, <4>5 DEF DoubtIsTold
    <3>3. CASE LocksAreTakenBack
      <4>1. ASSUME NEW k \in DOMAIN lockWire, Telling(k)
            PROVE  \E j \in DOMAIN lockWire' : /\ Telling(j)'
                                               /\ Len(lockWire') - j = Len(lockWire) + 1 - k
        <5>1. /\ lockWire[k].sent <= Delay /\ lockWire[k].sent \in Nat /\ k \in Nat
              /\ Len(lockWire) - k + 1 <= lockWire[k].sent
          <6>1. lockWire[k] \in SentLock /\ k \in Nat
            BY <1>3
          <6>2. QED
            BY <1>1, <4>1, <6>1 DEF Telling, CommandInv, InTime, SentLock
        <5>2. Len(lockWire) >= InFlight => k >= 2
          <6>1. \A len, old, delay, places \in Nat :
                  len - k + 1 <= old /\ old <= delay /\ delay < places /\ len >= places => k >= 2
            BY <5>1
          <6>2. Delay \in Nat /\ InFlight \in Nat
            BY CommandAssumption
          <6>3. QED
            BY <1>3, <5>1, <6>1, <6>2
        <5>3. PICK j \in DOMAIN lockWire' : /\ lockWire'[j] = lockWire[k]
                                            /\ Len(lockWire') - j = Len(lockWire) + 1 - k
          BY <1>5, <5>2
        <5>4. Len(lockWire') - j + 0 <= lockWire'[j].sent
          BY <1>3, <5>1, <5>3
        <5>5. Telling(j)'
          BY <1>1, <3>1, <4>1, <5>3, <5>4 DEF Telling
        <5>6. QED
          BY <5>3, <5>5
      <4>2. ASSUME NEW j \in DOMAIN lockWire', lockWire'[j].locked
            PROVE  \E k \in DOMAIN lockWire' : k > j /\ Telling(k)'
        <5>1. j # Len(lockWire')
          BY <1>2, <1>5, <2>2, <4>2
        <5>2. PICK old \in DOMAIN lockWire : /\ lockWire[old] = lockWire'[j]
                                             /\ Len(lockWire') - j = Len(lockWire) + 1 - old
          BY <1>1, <1>2, <1>3, <5>1, SendOlder
        <5>3. PICK k \in DOMAIN lockWire : k > old /\ Telling(k)
          BY <3>3, <4>2, <5>2 DEF LocksAreTakenBack
        <5>4. PICK new \in DOMAIN lockWire' : /\ Telling(new)'
                                              /\ Len(lockWire') - new = Len(lockWire) + 1 - k
          BY <4>1, <5>3
        <5>5. new > j
          BY <1>3, <1>9, <5>2, <5>3, <5>4
        <5>6. QED
          BY <5>4, <5>5
      <4>3. LocksAreTakenBack'
        BY <1>1, <3>3, <4>1, <4>2 DEF LocksAreTakenBack
      <4>4. QED
        BY <3>1, <4>3 DEF DoubtIsTold
    <3>4. ~PosesAreOld
      BY <1>1 DEF PosesAreOld
    <3>5. QED
      BY <2>2, <3>1, <3>2, <3>3, <3>4 DEF CommandInv, DoubtIsTold
  <2>3. CASE ~verified /\ doubtAge = 0
    BY <1>1, <2>3 DEF DoubtIsTold, Confirmed
  <2>4. QED
    BY <2>1, <2>2, <2>3
<1>11. QED
  BY <1>6, <1>7, <1>8, <1>10 DEF CommandInv

-----------------------------------------------------------------------------
(* The processes, the bridge and the time *)

LEMMA AnchorDiesInv == ASSUME CommandInv, AnchorDies PROVE CommandInv'
<1>1. /\ UNCHANGED <<verified, ticked, bridgeLocked, odomAge, doubtAge, poseWire, lockWire, pose, odomSeen>>
      /\ anchorUp /\ ~anchorUp' /\ anchorUp' \in BOOLEAN
  BY DEF AnchorDies, anchorVars, trackingVars, wires, bridgeSide
<1>2. CommandTypeOK' /\ InTime' /\ PosesHeard'
  BY <1>1 DEF CommandInv, CommandTypeOK, InTime, PosesHeard
<1>3. DoubtIsTold'
  <2>1. LocksAreTakenBack => LocksAreTakenBack'
    BY <1>1, LocksStay
  <2>2. CASE Confirmed
    BY <1>1, <2>2 DEF CommandInv, DoubtIsTold, Confirmed
  <2>3. CASE doubtAge = 1
    <3>1. \A k \in DOMAIN poseWire : poseWire[k].sent \in Nat
      <4>1. \A k \in DOMAIN poseWire : poseWire[k] \in SentPose
        BY DEF CommandInv, CommandTypeOK
      <4>2. QED
        BY <4>1 DEF SentPose
    <3>2. pose.at \in Nat
      BY DEF CommandInv, CommandTypeOK
    <3>3. PosesAreOld'
      BY <1>1, <2>3, <3>1, <3>2, LimitTypes DEF PosesAreOld
    <3>4. QED
      BY <1>1, <3>3 DEF DoubtIsTold, Confirmed
  <2>4. CASE ~Confirmed /\ doubtAge # 1
    BY <1>1, <2>1, <2>4 DEF CommandInv, DoubtIsTold, Confirmed, PosesAreOld
  <2>5. QED
    BY <2>2, <2>3, <2>4
<1>4. QED
  BY <1>2, <1>3 DEF CommandInv

LEMMA AnchorStartsInv == ASSUME CommandInv, AnchorStarts PROVE CommandInv'
<1>1. /\ UNCHANGED <<bridgeLocked, poseWire, lockWire, pose>>
      /\ verified' = FALSE /\ anchorUp' = TRUE /\ ticked' = FALSE /\ doubtAge' = 0
      /\ odomAge' = OdomAgeLimit + 1 /\ odomSeen' = "none"
  BY DEF AnchorStarts, wires, bridgeSide
<1>2. OdomAgeLimit + 1 \in Nat
  BY LimitTypes
<1>3. CommandTypeOK'
  BY <1>1, <1>2 DEF CommandInv, CommandTypeOK
<1>4. InTime' /\ PosesHeard'
  BY <1>1 DEF CommandInv, InTime, PosesHeard
<1>5. QED
  BY <1>1, <1>3, <1>4 DEF CommandInv, DoubtIsTold

LEMMA TakePoseInv == ASSUME CommandInv, TakePose PROVE CommandInv'
<1>1. /\ UNCHANGED <<verified, anchorUp, ticked, bridgeLocked, odomAge, odomSeen, doubtAge, lockWire>>
      /\ poseWire # <<>> /\ poseWire' = Tail(poseWire)
      /\ pose' = [heard |-> Head(poseWire).heard, at |-> 0]
  BY DEF TakePose, anchorVars, trackingVars
<1>2. poseWire \in Seq(SentPose)
  BY DEF CommandInv, CommandTypeOK
<1>3. /\ poseWire' \in Seq(SentPose) /\ 1 \in DOMAIN poseWire /\ Head(poseWire) = poseWire[1]
      /\ \A k \in DOMAIN poseWire' : k + 1 \in DOMAIN poseWire /\ poseWire'[k] = poseWire[k + 1]
  BY <1>1, <1>2
<1>4. /\ poseWire[1] \in SentPose /\ poseWire[1].sent <= Delay
      /\ poseWire[1].heard <= OdomAgeLimit + poseWire[1].sent
      /\ poseWire[1].heard \in Nat /\ poseWire[1].sent \in Nat
  <2>1. poseWire[1] \in SentPose
    BY <1>2, <1>3
  <2>2. poseWire[1].heard \in Nat /\ poseWire[1].sent \in Nat
    BY <2>1 DEF SentPose
  <2>3. QED
    BY <1>3, <2>1, <2>2 DEF CommandInv, InTime, PosesHeard
<1>5. pose' \in [heard : Nat, at : Nat] /\ pose'.at = 0 /\ pose'.heard = poseWire[1].heard
  BY <1>1, <1>3, <1>4
<1>6. CommandTypeOK'
  BY <1>1, <1>3, <1>5 DEF CommandInv, CommandTypeOK
<1>7. InTime'
  BY <1>1, <1>3 DEF CommandInv, InTime
<1>8. PosesHeard'
  BY <1>1, <1>3, <1>4, <1>5, LimitTypes DEF CommandInv, PosesHeard
<1>9. DoubtIsTold'
  <2>1. LocksAreTakenBack => LocksAreTakenBack'
    BY <1>1, LocksStay
  <2>2. doubtAge \in Nat
    BY DEF CommandInv, CommandTypeOK
  <2>3. PosesAreOld => PosesAreOld'
    BY <1>1, <1>3, <1>4, <1>5, <2>2, LimitTypes DEF PosesAreOld
  <2>4. QED
    BY <1>1, <2>1, <2>3 DEF CommandInv, DoubtIsTold, Confirmed
<1>10. QED
  BY <1>6, <1>7, <1>8, <1>9 DEF CommandInv

LEMMA TakeLockInv == ASSUME CommandInv, TakeLock PROVE CommandInv'
<1>1. /\ UNCHANGED <<verified, anchorUp, ticked, odomAge, odomSeen, doubtAge, poseWire, pose>>
      /\ lockWire # <<>> /\ lockWire' = Tail(lockWire)
      /\ bridgeLocked' = Head(lockWire).locked
  BY DEF TakeLock, anchorVars, trackingVars
<1>2. lockWire \in Seq(SentLock)
  BY DEF CommandInv, CommandTypeOK
<1>3. /\ lockWire' \in Seq(SentLock) /\ 1 \in DOMAIN lockWire /\ Head(lockWire) = lockWire[1]
      /\ Len(lockWire') = Len(lockWire) - 1 /\ Len(lockWire) \in Nat
      /\ DOMAIN lockWire = 1..Len(lockWire)
      /\ \A k \in DOMAIN lockWire' : k + 1 \in DOMAIN lockWire /\ lockWire'[k] = lockWire[k + 1]
      /\ \A k \in DOMAIN lockWire : k # 1 => k - 1 \in DOMAIN lockWire' /\ lockWire'[k - 1] = lockWire[k]
  BY <1>1, <1>2
<1>4. bridgeLocked' = lockWire[1].locked /\ lockWire[1].locked \in BOOLEAN
  <2>1. lockWire[1] \in SentLock
    BY <1>2, <1>3
  <2>2. lockWire[1].locked \in BOOLEAN
    BY <2>1 DEF SentLock
  <2>3. QED
    BY <1>1, <1>3, <2>2
<1>5. bridgeLocked' \in BOOLEAN
  BY <1>4
<1>6. CommandTypeOK'
  BY <1>1, <1>3, <1>5 DEF CommandInv, CommandTypeOK
<1>7. InTime'
  BY <1>1, <1>3 DEF CommandInv, InTime
<1>8. PosesHeard'
  BY <1>1 DEF CommandInv, PosesHeard
<1>9. DoubtIsTold'
  <2>1. ASSUME NEW k \in DOMAIN lockWire, Telling(k), k # 1
        PROVE  \E n \in DOMAIN lockWire' : n = k - 1 /\ Telling(n)'
    <3>1. PICK n \in DOMAIN lockWire' : n = k - 1 /\ lockWire'[n] = lockWire[k]
      BY <1>3, <2>1
    <3>2. Len(lockWire') - n = Len(lockWire) - k
      BY <1>3, <3>1
    <3>3. Telling(n)'
      BY <1>1, <2>1, <3>1, <3>2 DEF Telling
    <3>4. QED
      BY <3>1, <3>3
  <2>2. PosesAreOld => PosesAreOld'
    BY <1>1 DEF PosesAreOld
  <2>3. ASSUME LocksAreTakenBack PROVE LocksAreTakenBack'
    <3>1. ASSUME NEW old \in DOMAIN lockWire, lockWire[old].locked
          PROVE  \E n \in DOMAIN lockWire' : n > old - 1 /\ Telling(n)'
      <4>1. PICK k \in DOMAIN lockWire : k > old /\ Telling(k)
        BY <2>3, <3>1 DEF LocksAreTakenBack
      <4>2. k # 1 /\ k - 1 > old - 1
        BY <1>3, <4>1
      <4>3. QED
        BY <2>1, <4>1, <4>2
    <3>2. bridgeLocked' => \E n \in DOMAIN lockWire' : Telling(n)'
      BY <1>3, <1>4, <3>1
    <3>3. ASSUME NEW j \in DOMAIN lockWire', lockWire'[j].locked
          PROVE  \E n \in DOMAIN lockWire' : n > j /\ Telling(n)'
      <4>1. j + 1 \in DOMAIN lockWire /\ lockWire[j + 1].locked /\ (j + 1) - 1 = j
        BY <1>3, <3>3
      <4>2. QED
        BY <3>1, <4>1
    <3>4. QED
      BY <3>2, <3>3 DEF LocksAreTakenBack
  <2>4. QED
    BY <1>1, <2>2, <2>3 DEF CommandInv, DoubtIsTold, Confirmed
<1>10. QED
  BY <1>6, <1>7, <1>8, <1>9 DEF CommandInv

LEMMA BridgeStartsInv == ASSUME CommandInv, BridgeStarts PROVE CommandInv'
<1>1. /\ UNCHANGED <<verified, anchorUp, ticked, odomAge, odomSeen, doubtAge, poseWire, lockWire>>
      /\ pose' = NoPose /\ ~bridgeLocked' /\ bridgeLocked' \in BOOLEAN
  BY DEF BridgeStarts, anchorVars, trackingVars, wires
<1>2. pose' \in [heard : Nat, at : Nat] /\ pose'.at = MaxPoseAge + 1 /\ MaxPoseAge \in Nat
  BY <1>1, LimitTypes DEF NoPose
<1>3. CommandTypeOK' /\ InTime'
  BY <1>1, <1>2 DEF CommandInv, CommandTypeOK, InTime
<1>4. PosesHeard' /\ (PosesAreOld => PosesAreOld')
  BY <1>1, <1>2 DEF CommandInv, PosesHeard, PosesAreOld
<1>5. LocksAreTakenBack => LocksAreTakenBack'
  <2>1. ASSUME NEW k \in DOMAIN lockWire, Telling(k) PROVE Telling(k)'
    BY <1>1, <2>1 DEF Telling
  <2>2. QED
    BY <1>1, <2>1 DEF LocksAreTakenBack
<1>6. QED
  BY <1>1, <1>3, <1>4, <1>5 DEF CommandInv, DoubtIsTold, Confirmed

\* A period that ends makes everything older by one, up to what no limit tells apart.
LEMMA OlderBounds ==
  ASSUME NEW age \in Nat, NEW limit \in Nat
  PROVE  /\ Older(age, limit) \in Nat /\ Older(age, limit) <= age + 1
         /\ \A n \in 0..limit : Older(age, limit) <= n => age <= n
         /\ age = 0 => Older(age, limit) = 1
  BY DEF Older

LEMMA PeriodPassesInv == ASSUME CommandInv, PeriodPasses PROVE CommandInv'
<1>1. /\ anchorUp => ticked
      /\ \A n \in DOMAIN poseWire : poseWire[n].sent < Delay
      /\ \A n \in DOMAIN lockWire : lockWire[n].sent < Delay
      /\ ~ticked' /\ ticked' \in BOOLEAN
      /\ odomAge' = Older(odomAge, OdomAgeLimit)
      /\ poseWire' = [n \in DOMAIN poseWire |->
                        [heard |-> Older(poseWire[n].heard, HeardLimit), sent |-> poseWire[n].sent + 1]]
      /\ lockWire' = OlderWire(lockWire)
      /\ pose' = (IF pose.at >= MaxPoseAge THEN NoPose
                  ELSE [heard |-> Older(pose.heard, HeardLimit), at |-> pose.at + 1])
      /\ doubtAge' = (IF Confirmed THEN 0 ELSE Older(doubtAge, DoubtLimit))
      /\ anchorUp' = anchorUp /\ bridgeLocked' = bridgeLocked
  BY DEF PeriodPasses
<1>2. /\ verified' = verified
      /\ IF odomSeen = "fresh" /\ odomAge' > SilenceLimit THEN odomSeen' = "stale"
         ELSE odomSeen' = odomSeen
  BY DEF PeriodPasses, OdomSilence, anchorVars, trackingVars
<1>3. /\ poseWire \in Seq(SentPose) /\ lockWire \in Seq(SentLock)
      /\ odomAge \in Nat /\ doubtAge \in Nat /\ pose \in [heard : Nat, at : Nat]
      /\ pose.heard \in Nat /\ pose.at \in Nat
      /\ HeardLimit \in Nat /\ DoubtLimit \in Nat
  BY LimitTypes DEF CommandInv, CommandTypeOK
<1>4. /\ poseWire' \in Seq(SentPose) /\ DOMAIN poseWire' = DOMAIN poseWire
      /\ \A n \in DOMAIN poseWire : /\ poseWire[n].heard \in Nat /\ poseWire[n].sent \in Nat
                                    /\ poseWire'[n].sent = poseWire[n].sent + 1
                                    /\ poseWire'[n].heard = Older(poseWire[n].heard, HeardLimit)
  <2>1. ASSUME NEW n \in DOMAIN poseWire
        PROVE  /\ poseWire[n].heard \in Nat /\ poseWire[n].sent \in Nat
               /\ [heard |-> Older(poseWire[n].heard, HeardLimit), sent |-> poseWire[n].sent + 1]
                     \in SentPose
    <3>1. poseWire[n] \in SentPose
      BY <1>3
    <3>2. poseWire[n].heard \in Nat /\ poseWire[n].sent \in Nat
      BY <3>1 DEF SentPose
    <3>3. Older(poseWire[n].heard, HeardLimit) \in Nat
      BY <1>3, <3>2, OlderBounds
    <3>4. QED
      BY <3>2, <3>3 DEF SentPose
  <2>2. DOMAIN poseWire = 1..Len(poseWire) /\ Len(poseWire) \in Nat
    BY <1>3
  <2>3. QED
    BY <1>1, <2>1, <2>2
<1>5. /\ lockWire' \in Seq(SentLock) /\ DOMAIN lockWire' = DOMAIN lockWire
      /\ Len(lockWire') = Len(lockWire) /\ Len(lockWire) \in Nat
      /\ \A n \in DOMAIN lockWire : /\ lockWire[n].sent \in Nat /\ n \in Nat
                                    /\ lockWire'[n].sent = lockWire[n].sent + 1
                                    /\ lockWire'[n].locked = lockWire[n].locked
  <2>1. ASSUME NEW n \in DOMAIN lockWire
        PROVE  /\ lockWire[n].sent \in Nat
               /\ [lockWire[n] EXCEPT !.sent = @ + 1] \in SentLock
               /\ [lockWire[n] EXCEPT !.sent = @ + 1].sent = lockWire[n].sent + 1
               /\ [lockWire[n] EXCEPT !.sent = @ + 1].locked = lockWire[n].locked
    <3>1. lockWire[n] \in SentLock
      BY <1>3
    <3>2. QED
      BY <3>1 DEF SentLock
  <2>2. DOMAIN lockWire = 1..Len(lockWire) /\ Len(lockWire) \in Nat
    BY <1>3
  <2>3. lockWire' = [n \in 1..Len(lockWire) |-> [lockWire[n] EXCEPT !.sent = @ + 1]]
    BY <1>1, <2>2 DEF OlderWire
  <2>4. lockWire' \in Seq(SentLock)
    BY <2>1, <2>2, <2>3
  <2>5. DOMAIN lockWire' = 1..Len(lockWire)
    BY <2>3
  <2>6. Len(lockWire') = Len(lockWire)
    BY <2>2, <2>4, <2>5
  <2>7. \A n \in DOMAIN lockWire : lockWire'[n] = [lockWire[n] EXCEPT !.sent = @ + 1]
    BY <2>2, <2>3
  <2>8. ASSUME NEW n \in DOMAIN lockWire
        PROVE  /\ lockWire[n].sent \in Nat /\ n \in Nat
               /\ lockWire'[n].sent = lockWire[n].sent + 1
               /\ lockWire'[n].locked = lockWire[n].locked
    <3>1. n \in Nat
      BY <2>2
    <3>2. lockWire'[n] = [lockWire[n] EXCEPT !.sent = @ + 1]
      BY <2>7
    <3>3. /\ lockWire[n].sent \in Nat
          /\ [lockWire[n] EXCEPT !.sent = @ + 1].sent = lockWire[n].sent + 1
          /\ [lockWire[n] EXCEPT !.sent = @ + 1].locked = lockWire[n].locked
      BY <2>1
    <3>4. QED
      BY <3>1, <3>2, <3>3
  <2>9. QED
    BY <2>2, <2>4, <2>5, <2>6, <2>8
<1>6. odomAge' \in Nat /\ doubtAge' \in Nat
  BY <1>1, <1>3, OlderBounds, LimitTypes
<1>7. /\ pose' \in [heard : Nat, at : Nat]
      /\ pose'.at <= MaxPoseAge => /\ pose'.at = pose.at + 1 /\ pose.at <= MaxPoseAge
                                    /\ pose'.heard = Older(pose.heard, HeardLimit)
  <2>1. Older(pose.heard, HeardLimit) \in Nat
    BY <1>3, OlderBounds
  <2>2. QED
    BY <1>1, <1>3, <2>1, LimitTypes DEF NoPose
<1>8. CommandTypeOK'
  BY <1>1, <1>2, <1>4, <1>5, <1>6, <1>7 DEF CommandInv, CommandTypeOK
<1>9. InTime'
  <2>1. ASSUME NEW n \in DOMAIN poseWire PROVE poseWire'[n].sent <= Delay
    <3>1. PICK since \in Nat : since = poseWire[n].sent
      BY <1>4
    <3>2. since < Delay /\ poseWire'[n].sent = since + 1
      BY <1>1, <1>4, <3>1
    <3>3. QED
      BY <3>2, LimitTypes
  <2>2. ASSUME NEW n \in DOMAIN lockWire PROVE lockWire'[n].sent <= Delay
    <3>1. PICK since \in Nat : since = lockWire[n].sent
      BY <1>5
    <3>2. since < Delay /\ lockWire'[n].sent = since + 1
      BY <1>1, <1>5, <3>1
    <3>3. QED
      BY <3>2, LimitTypes
  <2>3. DOMAIN poseWire' = DOMAIN poseWire /\ DOMAIN lockWire' = DOMAIN lockWire
    BY <1>4, <1>5
  <2>4. QED
    BY <2>1, <2>2, <2>3 DEF InTime
<1>10. PosesHeard'
  <2>1. odomSeen' = "fresh" => odomAge' <= SilenceLimit
    <3>1. ASSUME odomSeen' = "fresh" PROVE ~(odomAge' > SilenceLimit)
      BY <1>2, <3>1
    <3>2. odomAge' \in Nat /\ SilenceLimit \in Nat
      BY <1>6, LimitTypes
    <3>3. QED
      BY <3>1, <3>2
  <2>0. \A a, b, c, d, e \in Nat : a <= b + 1 /\ b <= c + e /\ d = e + 1 => a <= c + d
    OBVIOUS
  <2>2. ASSUME NEW n \in DOMAIN poseWire
        PROVE  poseWire'[n].heard <= OdomAgeLimit + poseWire'[n].sent
    <3>0. poseWire[n].heard \in Nat /\ poseWire'[n].heard = Older(poseWire[n].heard, HeardLimit)
      BY <1>4
    <3>a. \A age, limit \in Nat : Older(age, limit) \in Nat /\ Older(age, limit) <= age + 1
      BY OlderBounds
    <3>1. poseWire'[n].heard <= poseWire[n].heard + 1 /\ poseWire'[n].heard \in Nat
      BY <1>3, <3>0, <3>a
    <3>2. poseWire[n].heard <= OdomAgeLimit + poseWire[n].sent
      BY DEF CommandInv, PosesHeard
    <3>3. /\ poseWire[n].heard \in Nat /\ poseWire[n].sent \in Nat
          /\ poseWire'[n].sent = poseWire[n].sent + 1 /\ OdomAgeLimit \in Nat
      BY <1>4, LimitTypes
    <3>4. QED
      BY <3>1, <3>2, <3>3
  <2>3. ASSUME pose'.at <= MaxPoseAge PROVE pose'.heard <= OdomAgeLimit + Delay + pose'.at
    <3>1. pose'.heard <= pose.heard + 1 /\ pose'.heard \in Nat
      BY <1>3, <1>7, <2>3, OlderBounds
    <3>2. pose.heard <= OdomAgeLimit + Delay + pose.at
      BY <1>7, <2>3 DEF CommandInv, PosesHeard
    <3>3. /\ pose.heard \in Nat /\ pose.at \in Nat /\ pose'.at = pose.at + 1
          /\ OdomAgeLimit + Delay \in Nat
      BY <1>3, <1>7, <2>3, LimitTypes, CommandAssumption
    <3>4. QED
      BY <3>1, <3>2, <3>3
  <2>4. QED
    BY <1>4, <2>1, <2>2, <2>3 DEF PosesHeard
<1>11. DoubtIsTold'
  <2>1. CASE Confirmed
    BY <1>1, <1>2, <2>1 DEF DoubtIsTold, Confirmed
  <2>2. CASE ~Confirmed
    <3>1. ~Confirmed' /\ doubtAge' = Older(doubtAge, DoubtLimit)
      BY <1>1, <1>2, <2>2 DEF Confirmed
    <3>2. doubtAge' <= doubtAge + 1
      BY <1>3, <3>1, OlderBounds
    <3>3. ASSUME PosesAreOld PROVE PosesAreOld'
      <4>1. \A n \in DOMAIN poseWire : doubtAge' <= poseWire'[n].sent + 1
        <5>1. ASSUME NEW n \in DOMAIN poseWire PROVE doubtAge' <= poseWire'[n].sent + 1
          <6>1. /\ doubtAge <= poseWire[n].sent + 1 /\ poseWire[n].sent \in Nat
                /\ poseWire'[n].sent = poseWire[n].sent + 1
            BY <1>4, <3>3 DEF PosesAreOld
          <6>2. QED
            BY <1>3, <1>6, <3>2, <6>1
        <5>2. QED
          BY <5>1
      <4>2. pose'.at <= MaxPoseAge => doubtAge' <= 1 + Delay + pose'.at
        BY <1>3, <1>6, <1>7, <3>2, <3>3, LimitTypes DEF PosesAreOld
      <4>3. QED
        BY <1>1, <1>4, <3>3, <4>1, <4>2 DEF PosesAreOld
    <3>4. ASSUME LocksAreTakenBack PROVE LocksAreTakenBack'
      <4>1. ASSUME NEW k \in DOMAIN lockWire, Telling(k) PROVE Telling(k)'
        <5>1. doubtAge' <= lockWire'[k].sent + 1
          BY <1>3, <1>5, <1>6, <3>2, <4>1 DEF Telling
        <5>2. Len(lockWire') - k + 1 <= lockWire'[k].sent
          BY <1>5, <4>1 DEF Telling
        <5>3. QED
          BY <1>1, <1>5, <4>1, <5>1, <5>2 DEF Telling
      <4>2. QED
        BY <1>1, <1>5, <3>4, <4>1 DEF LocksAreTakenBack
    <3>5. CASE doubtAge = 0
      <4>1. doubtAge' = 1
        BY <1>3, <3>1, <3>5, OlderBounds
      <4>2. CASE anchorUp
        BY <1>1, <4>1, <4>2, <3>1 DEF DoubtIsTold
      <4>3. CASE ~anchorUp
        <5>1. \A n \in DOMAIN poseWire : doubtAge' <= poseWire'[n].sent + 1
          BY <1>4, <4>1
        <5>2. pose'.at <= MaxPoseAge => doubtAge' <= 1 + Delay + pose'.at
          BY <1>3, <1>7, <4>1, LimitTypes
        <5>3. PosesAreOld'
          BY <1>1, <1>4, <4>3, <5>1, <5>2 DEF PosesAreOld
        <5>4. QED
          BY <3>1, <5>3 DEF DoubtIsTold
      <4>4. QED
        BY <4>2, <4>3
    <3>6. QED
      BY <1>1, <2>2, <3>1, <3>3, <3>4, <3>5 DEF CommandInv, DoubtIsTold
  <2>3. QED
    BY <2>1, <2>2
<1>12. QED
  BY <1>8, <1>9, <1>10, <1>11 DEF CommandInv

LEMMA CommandInvBacks == ASSUME CommandInv PROVE CommandsAreBacked
<1> SUFFICES ASSUME bridgeLocked, pose.at <= MaxPoseAge
             PROVE  doubtAge <= DoubtLimit /\ pose.heard <= HeardLimit
  BY DEF CommandsAreBacked, PoseGate
<1>1. pose.heard \in Nat /\ pose.at \in Nat /\ doubtAge \in Nat
  BY DEF CommandInv, CommandTypeOK
<1>2. pose.heard <= HeardLimit
  BY <1>1, LimitTypes DEF CommandInv, PosesHeard
<1>3. CASE LocksAreTakenBack
  <2>1. PICK k \in DOMAIN lockWire : Telling(k)
    BY <1>3 DEF LocksAreTakenBack
  <2>2. lockWire[k] \in SentLock
    BY DEF CommandInv, CommandTypeOK
  <2>3. lockWire[k].sent \in Nat /\ lockWire[k].sent <= Delay /\ doubtAge <= lockWire[k].sent + 1
    BY <2>1, <2>2 DEF CommandInv, InTime, Telling, SentLock
  <2>4. QED
    BY <1>1, <1>2, <2>3, LimitTypes
<1>4. CASE PosesAreOld
  BY <1>1, <1>2, <1>4, LimitTypes DEF PosesAreOld
<1>5. CASE doubtAge = 0 \/ doubtAge = 1
  BY <1>2, <1>5, LimitTypes
<1>6. QED
  BY <1>3, <1>4, <1>5 DEF CommandInv, DoubtIsTold

LEMMA CommandInvStep ==
  ASSUME Delay < InFlight, CommandInv, [CommandNext]_commandVars PROVE CommandInv'
<1>1. CASE \/ AnchorOdom \/ AnchorRequest \/ AnchorInitialpose \/ AnchorCorrection
           \/ \E value \in BOOLEAN : AnchorPoseValid(value)
  BY <1>1, AnchorStepInv
<1>2. CASE AnchorTick
  BY <1>2, AnchorTickInv
<1>3. CASE AnchorDies
  BY <1>3, AnchorDiesInv
<1>4. CASE AnchorStarts
  BY <1>4, AnchorStartsInv
<1>5. CASE TakePose
  BY <1>5, TakePoseInv
<1>6. CASE TakeLock
  BY <1>6, TakeLockInv
<1>7. CASE BridgeStarts
  BY <1>7, BridgeStartsInv
<1>8. CASE PeriodPasses
  BY <1>8, PeriodPassesInv
<1>9. CASE UNCHANGED commandVars
  <2>1. UNCHANGED <<verified, anchorUp, ticked, bridgeLocked, odomAge, odomSeen, doubtAge,
                    poseWire, lockWire, pose>>
    BY <1>9 DEF commandVars, anchorVars, trackingVars, commandOwn, wires, bridgeSide
  <2>2. /\ LocksAreTakenBack => LocksAreTakenBack'
        /\ PosesAreOld => PosesAreOld'
    BY <2>1, LocksStay DEF PosesAreOld
  <2>3. CommandTypeOK' /\ InTime' /\ PosesHeard'
    BY <2>1 DEF CommandInv, CommandTypeOK, InTime, PosesHeard
  <2>4. QED
    BY <2>1, <2>2, <2>3 DEF CommandInv, DoubtIsTold, Confirmed
<1>10. QED
  BY <1>1, <1>2, <1>3, <1>4, <1>5, <1>6, <1>7, <1>8, <1>9 DEF CommandNext

\* Behind every command stands an anchor that was confirmed, or came up, at most one
\* tick, one delay and one age limit ago, and odometry as old as its limits add up to,
\* although the lock has no age at the bridge and the anchor may die at any time.  The
\* topics hold what is sent within a delay: with fewer places a lock that is taken
\* back could be dropped on its way again and again.
THEOREM CommandsBacked ==
  ASSUME Delay < InFlight PROVE CommandSpec => []CommandsAreBacked
<1>1. CommandInit => CommandInv
  BY CommandInvInit
<1>2. CommandInv /\ [CommandNext]_commandVars => CommandInv'
  BY CommandInvStep
<1>3. CommandInv => CommandsAreBacked
  BY CommandInvBacks
<1>4. QED
  BY <1>1, <1>2, <1>3, PTL DEF CommandSpec
-----------------------------------------------------------------------------
(* MatchRules: types *)

LEMMA SeenAtType == ASSUME RulesTypeOK, NEW t \in SeenAt PROVE t \in 0..MaxCallTime
  BY RulesAssumption DEF RulesTypeOK, SeenAt

\* The clock moves the state forward only, and nothing else.
LEMMA ClockMoves ==
  ASSUME RulesTypeOK, NEW t \in 0..MaxCallTime
  PROVE  /\ ClockState(t) \in MatchState
         /\ ClockState(t) # state =>
              /\ state \in {"ACTIVE", "REFEREE_STOP"}
              /\ ClockState(t) \in {"REFEREE_STOP", "FINISHED"}
         /\ InPlay(t) => /\ state = "ACTIVE"
                         /\ t - possessionStart <= PossessionDuration
                         /\ t - startTime < GameDuration
<1>1. /\ startTime \in Int /\ possessionStart \in Int /\ t \in Int
      /\ GameDuration \in Int /\ PossessionDuration \in Int
      /\ state \in MatchState
  BY RulesAssumption DEF RulesTypeOK, CallInstant, NotYet
<1>2. QED
  BY <1>1 DEF ClockState, InPlay, GameExpired, MatchState

\* What is noted in the tally keeps it one, and leaves its other entries alone.
LEMMA Notes ==
  ASSUME RulesTypeOK, NEW t \in 0..MaxCallTime
  PROVE  /\ [tally EXCEPT !.gained = t] \in PossessionTally
         /\ [tally EXCEPT !.crossed = t] \in PossessionTally
         /\ [tally EXCEPT !.baskets = Append(@, t)] \in PossessionTally
<1>1. tally \in PossessionTally /\ t \in CallInstant
  BY DEF RulesTypeOK, CallInstant
<1>2. Append(tally.baskets, t) \in Seq(0..MaxCallTime)
  BY <1>1 DEF PossessionTally
<1>3. QED
  BY <1>1, <1>2 DEF PossessionTally

LEMMA BeginTypes ==
  ASSUME RulesTypeOK, NEW team \in Team, NEW t \in 0..MaxCallTime, BeginPossession(team, t),
         startTime' \in 0..MaxCallTime, callTime' = callTime
  PROVE  RulesTypeOK'
<1>1. tally \in PossessionTally /\ t \in CallInstant /\ NotYet \in CallInstant /\ startTime' \in CallInstant
  BY DEF RulesTypeOK, CallInstant
<1>2. tally' \in PossessionTally
  BY <1>1 DEF BeginPossession, NewTally, PossessionTally
<1>3. startTime' # NotYet /\ t # NotYet
  BY DEF NotYet
<1>4. QED
  BY <1>1, <1>2, <1>3 DEF RulesTypeOK, BeginPossession, MatchState

LEMMA RulesTypeStep == ASSUME RulesTypeOK, [RulesNext]_rulesVars PROVE RulesTypeOK'
<1> USE DEF engineVars, flagVars, rulesVars
<1>1. ASSUME NEW t \in 0..MaxCallTime, Tick(t), callTime' = callTime PROVE RulesTypeOK'
  <2>1. state' \in MatchState /\ (state' # "WAITING_START" => state # "WAITING_START")
    BY <1>1, ClockMoves DEF Tick, MatchState
  <2>2. QED
    BY <1>1, <2>1 DEF Tick, RulesTypeOK
<1>2. ASSUME NEW team \in Team, StartGame(team) PROVE RulesTypeOK'
  <2>1. callTime \in 0..MaxCallTime
    BY DEF RulesTypeOK
  <2>2. QED
    BY <1>2, <2>1, BeginTypes DEF StartGame
<1>3. ASSUME NEW team \in Team, ResumePossession(team) PROVE RulesTypeOK'
  <2>1. callTime \in 0..MaxCallTime /\ startTime \in 0..MaxCallTime
    BY <1>3 DEF RulesTypeOK, ResumePossession, CallInstant
  <2>2. QED
    BY <1>3, <2>1, BeginTypes DEF ResumePossession
<1>4. CASE FinishGame
  BY <1>4 DEF FinishGame, RulesTypeOK, MatchState
<1>5. ASSUME NEW t \in 0..MaxCallTime, RecordDribble(t) \/ RecordPass(t) PROVE RulesTypeOK'
  <2>1. tally' \in PossessionTally
    BY <1>5, Notes DEF RecordDribble, RecordPass
  <2>2. QED
    BY <1>5, <2>1 DEF RecordDribble, RecordPass, RulesTypeOK
<1>6. ASSUME NEW t \in 0..MaxCallTime, EnterOffensiveSide(t) PROVE RulesTypeOK'
  <2>1. tally' \in PossessionTally
    BY <1>6, Notes DEF EnterOffensiveSide
  <2>2. QED
    BY <1>6, <2>1 DEF EnterOffensiveSide, RulesTypeOK
<1>7. ASSUME NEW t \in 0..MaxCallTime, NEW immediate \in BOOLEAN, NEW points \in Points,
             RecordGoal(t, immediate, points)
      PROVE  RulesTypeOK'
  <2>1. tally' \in PossessionTally
    BY <1>7, Notes DEF RecordGoal
  <2>2. score' \in [Team -> Nat]
    BY <1>7 DEF RecordGoal, AwardPoints, RulesTypeOK, Points
  <2>3. /\ state = "ACTIVE" /\ state' = "REFEREE_STOP" /\ control' = FALSE
        /\ UNCHANGED <<startTime, possessionStart, offensiveTeam, advanced, dribbled, passed, callTime>>
    BY <1>7 DEF RecordGoal, AwardPoints, InPlay
  <2>4. QED
    BY <2>1, <2>2, <2>3 DEF RulesTypeOK, MatchState
<1>8. CASE CallerWaits
  BY <1>8, RulesAssumption DEF CallerWaits, RulesTypeOK
<1>9. CASE UNCHANGED rulesVars
  BY <1>9 DEF RulesTypeOK
<1>10. callTime \in 0..MaxCallTime
  BY DEF RulesTypeOK
<1>11. QED
  BY <1>1, <1>2, <1>3, <1>4, <1>5, <1>6, <1>7, <1>8, <1>9, <1>10, SeenAtType
     DEF RulesNext, Referee, Evidence, Watch, Rejected

\* The engine keeps its types, and its assertions never fail: a started game has
\* a start, a possession and a team.
THEOREM RulesTypeCorrect == RulesSpec => []RulesTypeOK
<1>1. RulesInit => RulesTypeOK
  <2>1. /\ NewTally(0, NotYet) \in PossessionTally
        /\ 0 \in 0..MaxCallTime /\ NotYet \in CallInstant
    BY RulesAssumption DEF NewTally, PossessionTally, CallInstant
  <2>2. RulesInit => score \in [Team -> Nat]
    BY DEF RulesInit
  <2>3. RulesInit => advanced \in BOOLEAN /\ dribbled \in BOOLEAN /\ passed \in BOOLEAN /\ control \in BOOLEAN
    BY DEF RulesInit
  <2>4. RulesInit => /\ state = "WAITING_START" /\ startTime = NotYet /\ possessionStart = NotYet
                     /\ offensiveTeam = {} /\ callTime = 0 /\ tally = NewTally(0, NotYet)
    BY DEF RulesInit
  <2>5. QED
    BY <2>1, <2>2, <2>3, <2>4 DEF RulesTypeOK, MatchState
<1>2. QED
  BY <1>1, RulesTypeStep, PTL DEF RulesSpec

-----------------------------------------------------------------------------
(* Goals are earned *)

\* What is noted as seen was, and not longer before the possession than reports are late.
NotedInTime(t) == t # NotYet /\ tally.start - t <= Lateness

\* What the flags of the running possession stand for: the tally is of that possession,
\* which began in the past and has not scored, and each flag that is set was set in it.
FlagsAreOwn ==
  state = "ACTIVE" =>
    /\ tally.start = possessionStart
    /\ possessionStart <= callTime
    /\ tally.baskets = <<>>
    /\ dribbled \/ passed => NotedInTime(tally.gained)
    /\ advanced => /\ NotedInTime(tally.gained)
                   /\ NotedInTime(tally.crossed)
                   /\ tally.crossed - tally.start <= AdvanceDuration

EarnedInv ==
  /\ GoalsAreEarned
  /\ FlagsAreOwn
  /\ state = "WAITING_START" => tally.baskets = <<>>

\* What is reported of a running possession was seen in it, or at most Lateness before.
LEMMA ReportedInTime ==
  ASSUME RulesTypeOK, FlagsAreOwn, NEW t \in SeenAt, InPlay(t)
  PROVE  /\ t \in 0..MaxCallTime /\ state = "ACTIVE" /\ NotedInTime(t)
         /\ t - tally.start <= PossessionDuration /\ t - startTime < GameDuration
<1>1. t \in 0..MaxCallTime
  BY SeenAtType
<1>2. /\ state = "ACTIVE" /\ t - possessionStart <= PossessionDuration
      /\ t - startTime < GameDuration
  BY <1>1, ClockMoves
<1>3. tally.start = possessionStart /\ possessionStart <= callTime
  BY <1>2 DEF FlagsAreOwn
<1>4. callTime - t <= Lateness /\ callTime \in Int /\ Lateness \in Int /\ possessionStart \in Int
  BY RulesAssumption DEF SeenAt, RulesTypeOK, CallInstant, NotYet
<1>5. tally.start - t <= Lateness
  BY <1>1, <1>3, <1>4
<1>6. QED
  BY <1>1, <1>2, <1>3, <1>5 DEF NotedInTime, NotYet

LEMMA BeginEarned ==
  ASSUME RulesTypeOK, NEW team \in Team, BeginPossession(team, callTime), callTime' = callTime
  PROVE  EarnedInv'
<1>1. /\ tally' = NewTally(tally.nr + 1, callTime) /\ possessionStart' = callTime
      /\ state' = "ACTIVE" /\ ~advanced' /\ ~dribbled' /\ ~passed'
  BY DEF BeginPossession
<1>2. callTime \in Int
  BY DEF RulesTypeOK
<1>3. QED
  BY <1>1, <1>2 DEF EarnedInv, GoalsAreEarned, FlagsAreOwn, NewTally

LEMMA EarnedStep == ASSUME RulesTypeOK, EarnedInv, [RulesNext]_rulesVars PROVE EarnedInv'
<1> USE DEF engineVars, flagVars, rulesVars
<1>1. ASSUME UNCHANGED <<startTime, possessionStart, flagVars, tally>>, callTime' \in Int,
             callTime' >= callTime, state' = state \/ state' \in {"REFEREE_STOP", "FINISHED"}
      PROVE  EarnedInv'
  <2>1. possessionStart \in Int /\ callTime \in Int
    BY DEF RulesTypeOK, CallInstant, NotYet
  <2>2. QED
    BY <1>1, <2>1 DEF EarnedInv, GoalsAreEarned, FlagsAreOwn, NotedInTime
<1>2. ASSUME NEW t \in 0..MaxCallTime, Tick(t), callTime' = callTime PROVE EarnedInv'
  BY <1>1, <1>2, ClockMoves DEF Tick, RulesTypeOK
<1>3. ASSUME NEW team \in Team, StartGame(team) \/ ResumePossession(team) PROVE EarnedInv'
  BY <1>3, BeginEarned DEF StartGame, ResumePossession
<1>4. CASE FinishGame
  BY <1>1, <1>4 DEF FinishGame, RulesTypeOK
<1>5. tally \in PossessionTally
  BY DEF RulesTypeOK
<1>6. ASSUME NEW t \in SeenAt, RecordDribble(t) \/ RecordPass(t) PROVE EarnedInv'
  <2>1. /\ InPlay(t) /\ tally' = [tally EXCEPT !.gained = t]
        /\ UNCHANGED <<state, startTime, possessionStart, advanced, callTime>>
    BY <1>6 DEF RecordDribble, RecordPass
  <2>2. state = "ACTIVE" /\ NotedInTime(t)
    BY <2>1, ReportedInTime DEF EarnedInv
  <2>3. /\ tally'.gained = t /\ tally'.start = tally.start /\ tally'.crossed = tally.crossed
        /\ tally'.baskets = tally.baskets /\ tally.baskets = <<>>
    BY <1>5, <2>1, <2>2 DEF EarnedInv, FlagsAreOwn, PossessionTally
  <2>4. QED
    BY <2>1, <2>2, <2>3 DEF EarnedInv, GoalsAreEarned, FlagsAreOwn, NotedInTime
<1>7. ASSUME NEW t \in SeenAt, EnterOffensiveSide(t) PROVE EarnedInv'
  <2>1. /\ InPlay(t) /\ tally' = [tally EXCEPT !.crossed = t] /\ (dribbled \/ passed)
        /\ t - possessionStart <= AdvanceDuration
        /\ UNCHANGED <<state, startTime, possessionStart, dribbled, passed, callTime>>
    BY <1>7 DEF EnterOffensiveSide
  <2>2. state = "ACTIVE" /\ NotedInTime(t)
    BY <2>1, ReportedInTime DEF EarnedInv
  <2>3. /\ tally'.gained = tally.gained /\ tally'.start = tally.start /\ tally'.crossed = t
        /\ tally'.baskets = tally.baskets /\ tally.baskets = <<>>
    BY <1>5, <2>1, <2>2 DEF EarnedInv, FlagsAreOwn, PossessionTally
  <2>4. tally.start = possessionStart /\ NotedInTime(tally.gained)
    BY <2>1, <2>2 DEF EarnedInv, FlagsAreOwn
  <2>5. QED
    BY <2>1, <2>2, <2>3, <2>4 DEF EarnedInv, GoalsAreEarned, FlagsAreOwn, NotedInTime
<1>8. ASSUME NEW t \in SeenAt, NEW immediate \in BOOLEAN, NEW points \in Points,
             RecordGoal(t, immediate, points)
      PROVE  EarnedInv'
  <2>1. /\ InPlay(t) /\ advanced /\ tally' = [tally EXCEPT !.baskets = Append(@, t)]
        /\ state' = "REFEREE_STOP" /\ startTime' = startTime
    BY <1>8 DEF RecordGoal, AwardPoints
  <2>2. /\ state = "ACTIVE" /\ NotedInTime(t)
        /\ t - tally.start <= PossessionDuration /\ t - startTime < GameDuration
    BY <2>1, ReportedInTime DEF EarnedInv
  <2>3. /\ tally.baskets = <<>> /\ NotedInTime(tally.gained) /\ NotedInTime(tally.crossed)
        /\ tally.crossed - tally.start <= AdvanceDuration
    BY <2>1, <2>2 DEF EarnedInv, FlagsAreOwn
  <2>4. /\ tally'.gained = tally.gained /\ tally'.start = tally.start
        /\ tally'.crossed = tally.crossed /\ tally'.baskets = <<t>>
    <3>1. tally'.baskets = Append(tally.baskets, t)
      BY <1>5, <2>1 DEF PossessionTally
    <3>2. Append(<<>>, t) = <<t>>
      OBVIOUS
    <3>3. QED
      BY <1>5, <2>1, <2>3, <3>1, <3>2 DEF PossessionTally
  <2>5. Len(<<t>>) = 1 /\ <<t>>[1] = t
    OBVIOUS
  <2>6. GoalsAreEarned'
    BY <2>1, <2>2, <2>3, <2>4, <2>5 DEF GoalsAreEarned, NotedInTime
  <2>7. QED
    BY <2>1, <2>6 DEF EarnedInv, FlagsAreOwn
<1>9. CASE CallerWaits \/ UNCHANGED rulesVars
  BY <1>1, <1>9 DEF CallerWaits, RulesTypeOK
<1>10. callTime \in 0..MaxCallTime
  BY DEF RulesTypeOK
<1>11. QED
  BY <1>2, <1>3, <1>4, <1>6, <1>7, <1>8, <1>9, <1>10, SeenAtType
     DEF RulesNext, Referee, Evidence, Watch, Rejected

\* Every basket that was counted was earned by what was accepted in its own possession
\* and in time, and nothing that counted was seen longer before the possession than the
\* reports are late; for any durations and any number of possessions.
THEOREM GoalsEarned == RulesSpec => []GoalsAreEarned
<1>1. RulesInit => EarnedInv
  BY DEF RulesInit, EarnedInv, GoalsAreEarned, FlagsAreOwn, NewTally
<1>2. RulesTypeOK /\ EarnedInv /\ [RulesNext]_rulesVars => EarnedInv'
  BY EarnedStep
<1>3. EarnedInv => GoalsAreEarned
  BY DEF EarnedInv
<1>4. QED
  BY <1>1, <1>2, <1>3, RulesTypeCorrect, PTL DEF RulesSpec

-----------------------------------------------------------------------------
(* The scoreboard *)

\* One team attacks once the game has started.
OneAttacks == state # "WAITING_START" => \E team \in Team : offensiveTeam = {team}

LEMMA OneAttacksStep == ASSUME RulesTypeOK, OneAttacks, [RulesNext]_rulesVars PROVE OneAttacks'
<1> USE DEF OneAttacks, engineVars, flagVars, rulesVars
<1>1. ASSUME NEW t \in 0..MaxCallTime, Tick(t) PROVE OneAttacks'
  BY <1>1, ClockMoves DEF Tick
<1>2. ASSUME NEW team \in Team, StartGame(team) \/ ResumePossession(team) PROVE OneAttacks'
  BY <1>2 DEF StartGame, ResumePossession, BeginPossession
<1>3. CASE FinishGame \/ CallerWaits \/ UNCHANGED rulesVars
  BY <1>3 DEF FinishGame, CallerWaits
<1>4. ASSUME NEW t \in 0..MaxCallTime,
             RecordDribble(t) \/ RecordPass(t) \/ EnterOffensiveSide(t)
             \/ \E immediate \in BOOLEAN, points \in Points : RecordGoal(t, immediate, points)
      PROVE  OneAttacks'
  BY <1>4 DEF RecordDribble, RecordPass, EnterOffensiveSide, RecordGoal, InPlay
<1>5. callTime \in 0..MaxCallTime
  BY DEF RulesTypeOK
<1>6. QED
  BY <1>1, <1>2, <1>3, <1>4, <1>5, SeenAtType DEF RulesNext, Referee, Evidence, Watch, Rejected

\* A step that touches neither score nor team is a step of the scoreboard if the
\* state stays or play stops.
LEMMA PhaseStep ==
  ASSUME state \in MatchState, UNCHANGED <<score, offensiveTeam>>,
         \/ state' = state
         \/ state \in {"ACTIVE", "REFEREE_STOP"} /\ state' = "FINISHED"
         \/ state = "ACTIVE" /\ state' = "REFEREE_STOP"
         \/ state = "FINISHED" /\ state' = "FINISHED"
  PROVE  [Board!BoardNext]_(Board!boardVars)
<1>1. CASE state' = state
  BY <1>1 DEF Board!boardVars, Phase
<1>2. CASE state \in {"ACTIVE", "REFEREE_STOP"} /\ state' = "FINISHED"
  BY <1>2 DEF Board!BoardNext, Board!End, Phase
<1>3. CASE state = "ACTIVE" /\ state' = "REFEREE_STOP"
  BY <1>3 DEF Board!BoardNext, Board!Break, Phase
<1>4. QED
  BY <1>1, <1>2, <1>3

LEMMA BoardStep ==
  ASSUME RulesTypeOK, OneAttacks, [RulesNext]_rulesVars
  PROVE  [Board!BoardNext]_(Board!boardVars)
<1> USE DEF engineVars, flagVars, rulesVars
<1>0. state \in MatchState /\ callTime \in 0..MaxCallTime
  BY DEF RulesTypeOK
<1>1. ASSUME NEW t \in 0..MaxCallTime, Tick(t) PROVE [Board!BoardNext]_(Board!boardVars)
  <2>1. /\ state' = ClockState(t) /\ UNCHANGED <<score, offensiveTeam>>
        /\ state = "REFEREE_STOP" => ClockState(t) \in {"REFEREE_STOP", "FINISHED"}
    BY <1>1, ClockMoves DEF Tick
  <2>2. QED
    BY <1>0, <2>1, ClockMoves, PhaseStep
<1>2. ASSUME NEW team \in Team, StartGame(team) \/ ResumePossession(team)
      PROVE  [Board!BoardNext]_(Board!boardVars)
  <2>1. /\ state \in {"WAITING_START", "REFEREE_STOP"} /\ state' = "ACTIVE"
        /\ offensiveTeam' = {team} /\ score' = score
    BY <1>2 DEF StartGame, ResumePossession, BeginPossession
  <2>2. Board!Possession(team)
    BY <2>1 DEF Board!Possession, Phase
  <2>3. QED
    BY <2>2 DEF Board!BoardNext
<1>3. CASE FinishGame
  BY <1>0, <1>3, PhaseStep DEF FinishGame, MatchState
<1>4. CASE CallerWaits \/ UNCHANGED rulesVars
  BY <1>0, <1>4, PhaseStep DEF CallerWaits
<1>5. ASSUME NEW t \in 0..MaxCallTime, RecordDribble(t) \/ RecordPass(t) \/ EnterOffensiveSide(t)
      PROVE  [Board!BoardNext]_(Board!boardVars)
  BY <1>0, <1>5, PhaseStep DEF RecordDribble, RecordPass, EnterOffensiveSide
<1>6. ASSUME NEW t \in 0..MaxCallTime, NEW immediate \in BOOLEAN, NEW points \in Points,
             RecordGoal(t, immediate, points)
      PROVE  [Board!BoardNext]_(Board!boardVars)
  <2>1. /\ state = "ACTIVE" /\ state' = "REFEREE_STOP" /\ offensiveTeam' = offensiveTeam
        /\ score' = [u \in Team |-> score[u] + IF u \in offensiveTeam THEN points ELSE 0]
    BY <1>6 DEF RecordGoal, AwardPoints, InPlay
  <2>2. PICK team \in Team : offensiveTeam = {team}
    BY <2>1 DEF OneAttacks
  <2>3. score \in [Team -> Nat]
    BY DEF RulesTypeOK
  <2>4. score' = [score EXCEPT ![team] = @ + points]
    <3>1. \A u \in Team : score[u] + (IF u \in offensiveTeam THEN points ELSE 0)
                           = IF u = team THEN score[team] + points ELSE score[u]
      BY <2>2, <2>3 DEF Points
    <3>2. score' = [u \in Team |-> IF u = team THEN score[team] + points ELSE score[u]]
      BY <2>1, <3>1
    <3>3. QED
      BY <2>3, <3>2
  <2>5. Board!Basket(team, points)
    BY <2>1, <2>2, <2>4 DEF Board!Basket, Phase
  <2>6. QED
    BY <2>5 DEF Board!BoardNext
<1>7. QED
  BY <1>0, <1>1, <1>2, <1>3, <1>4, <1>5, <1>6, SeenAtType
     DEF RulesNext, Referee, Evidence, Watch, Rejected

\* The rule engine implements the scoreboard: every step is a step of it or
\* changes nothing it shows.
THEOREM EnginePlaysScoreboard == RulesSpec => PlaysScoreboard
<1>1. RulesInit => OneAttacks /\ Board!BoardInit
  BY DEF RulesInit, OneAttacks, Board!BoardInit, Phase
<1>2. RulesTypeOK /\ OneAttacks /\ [RulesNext]_rulesVars => OneAttacks'
  BY OneAttacksStep
<1>3. RulesTypeOK /\ OneAttacks /\ [RulesNext]_rulesVars => [Board!BoardNext]_(Board!boardVars)
  BY BoardStep
<1>4. QED
  BY <1>1, <1>2, <1>3, RulesTypeCorrect, PTL DEF RulesSpec, PlaysScoreboard, Board!BoardSpec
-----------------------------------------------------------------------------
(* The nodes together: every TRUE is recent *)

\* The clock of the guard, the bridge and the preflight goes on, whoever runs.
LEMMA NodesStep ==
  ASSUME [NodesNext]_nodesVars
  PROVE  /\ running' = running
         /\ running = "guard" => [GuardNext]_guardVars
         /\ running # "guard" => UNCHANGED guardOwn
         /\ running = "bridge" => [BridgeNext]_bridgeVars
         /\ running # "bridge" => UNCHANGED bridgeOwn
         /\ running = "preflight" => [PreflightNext]_preflightVars
         /\ running # "preflight" => UNCHANGED preflightOwn
         /\ [CommandNext]_commandVars
         /\ [TargetNext]_targetVars
<1> USE DEF gates, chain
<1>1. CASE running = "guard" /\ GuardNext /\ ButGuard
  BY <1>1 DEF ButGuard
<1>2. CASE running = "bridge" /\ BridgeNext /\ ButBridge
  BY <1>2 DEF ButBridge
<1>3. CASE running = "preflight" /\ PreflightNext /\ ButPreflight
  BY <1>3 DEF ButPreflight
<1>4. CASE running = "team" /\ TeamNext /\ ButTeam
  BY <1>4 DEF ButTeam
<1>5. CASE running = "rules" /\ RulesNext /\ ButRules
  BY <1>5 DEF ButRules
<1>6. CASE running = "mapper" /\ MapperNext /\ ButMapper
  BY <1>6 DEF ButMapper
<1>7. CASE running = "command" /\ CommandNext /\ ButCommand
  BY <1>7 DEF ButCommand
<1>8. CASE running = "target" /\ TargetNext /\ ButTarget
  BY <1>8 DEF ButTarget
<1>9. CASE UNCHANGED nodesVars
  BY <1>9 DEF nodesVars, guardVars, bridgeVars, preflightVars
<1>10. QED
  BY <1>1, <1>2, <1>3, <1>4, <1>5, <1>6, <1>7, <1>8, <1>9 DEF NodesNext

LEMMA TimeStep ==
  ASSUME [NodesNext]_nodesVars
  PROVE  now' = now \/ now' = now + 1
<1> USE DEF gates, chain, TimePasses, Reboot
<1>1. CASE running = "guard" /\ GuardNext
  BY <1>1 DEF GuardNext, LidarCallback, ImuCallback, TakePacket, StatusTimer, GuardRestart, GuardWaits
<1>2. CASE running = "bridge" /\ BridgeNext
  <2>1. ASSUME NEW p \in SourceOdometry, SourceOdomCallback(p) PROVE now' = now
    BY <2>1 DEF SourceOdomCallback, HardFailure, ForwardPose
  <2>2. CASE PoseTimer \/ BridgeRestart
    BY <2>2 DEF PoseTimer, BridgeRestart
  <2>3. CASE ReaderTakesOdom \/ ReaderTakesValid
    BY <2>3 DEF ReaderTakesOdom, ReaderTakesValid
  <2>4. CASE BridgeWaits
    BY <2>4 DEF BridgeWaits
  <2>5. QED
    BY <1>2, <2>1, <2>2, <2>3, <2>4 DEF BridgeNext
<1>3. CASE running = "preflight" /\ PreflightNext
  BY <1>3 DEF PreflightNext, FlagCallback, OdomHeardCallback, ReadyTicks, ReadyTimer,
              PreflightRestart, PreflightWaits
<1>4. CASE ButTeam \/ ButRules \/ ButMapper \/ ButCommand \/ ButTarget
  BY <1>4 DEF ButTeam, ButRules, ButMapper, ButCommand, ButTarget
<1>5. CASE UNCHANGED nodesVars
  BY <1>5 DEF nodesVars
<1>6. QED
  BY <1>1, <1>2, <1>3, <1>4, <1>5 DEF NodesNext

\* What runs keeps its invariant, and a preflight that does not run is not ready.
NodesInv ==
  /\ running = "guard" => GuardInv
  /\ running = "bridge" => BridgeInv
  /\ IF running = "preflight" THEN PreflightInv ELSE \A f \in Flag : ~flags[f].value

LEMMA NodesInvInit == ASSUME NodesInit PROVE NodesInv
<1>1. GuardInv /\ BridgeInv /\ PreflightInv
  BY GuardInvInit, BridgeInvInit, PreflightInvInit DEF NodesInit
<1>2. \A f \in Flag : ~flags[f].value
  BY DEF NodesInit, PreflightInit
<1>3. QED
  BY <1>1, <1>2 DEF NodesInv

LEMMA NodesInvStep == ASSUME NodesInv, [NodesNext]_nodesVars PROVE NodesInv'
<1>1. running' = running
  BY NodesStep
<1>2. running = "guard" => GuardInv'
  BY NodesStep, GuardInvStep DEF NodesInv
<1>3. running = "bridge" => BridgeInv'
  BY NodesStep, BridgeInvStep DEF NodesInv
<1>4. running = "preflight" => PreflightInv'
  BY NodesStep, PreflightInvStep DEF NodesInv
<1>5. running # "preflight" => flags' = flags
  BY NodesStep DEF preflightOwn
<1>6. QED
  BY <1>1, <1>2, <1>3, <1>4, <1>5 DEF NodesInv

LEMMA NodesPromises ==
  ASSUME NodesInv, NodesInv', [NodesNext]_nodesVars
  PROVE  /\ [Lidar!FlagNext]_(Lidar!flagVars) /\ [Imu!FlagNext]_(Imu!flagVars)
         /\ [Pose!FlagNext]_(Pose!flagVars)
<1>0. running' = running
  BY NodesStep
<1>1. CASE running = "guard"
  <2>1. [Lidar!FlagNext]_(Lidar!flagVars) /\ [Imu!FlagNext]_(Imu!flagVars)
    BY <1>0, <1>1, NodesStep, GuardPromiseStep DEF NodesInv
  <2>2. UNCHANGED bridgeOwn
    BY <1>1, NodesStep
  <2>3. QED
    BY <2>1, <2>2, TimeStep DEF bridgeOwn, Pose!FlagNext, Pose!TimeGoesOn, Pose!flagVars
<1>2. CASE running = "bridge"
  <2>1. [Pose!FlagNext]_(Pose!flagVars)
    BY <1>0, <1>2, NodesStep, BridgePromiseStep DEF NodesInv
  <2>2. UNCHANGED guardOwn
    BY <1>2, NodesStep
  <2>3. QED
    BY <2>1, <2>2, TimeStep
    DEF guardOwn, Lidar!FlagNext, Lidar!TimeGoesOn, Lidar!flagVars, Imu!FlagNext, Imu!TimeGoesOn, Imu!flagVars
<1>3. CASE running # "guard" /\ running # "bridge"
  <2>1. UNCHANGED guardOwn /\ UNCHANGED bridgeOwn
    BY <1>3, NodesStep
  <2>2. QED
    BY <2>1, TimeStep
    DEF guardOwn, Lidar!FlagNext, Lidar!TimeGoesOn, Lidar!flagVars, Imu!FlagNext, Imu!TimeGoesOn, Imu!flagVars,
        bridgeOwn, Pose!FlagNext, Pose!TimeGoesOn, Pose!flagVars
<1>4. QED
  BY <1>1, <1>2, <1>3

\* Every TRUE on the chain of flags, every command to the base and every shot that is
\* let through rests on recent evidence, in a behaviour of any of the nodes.
THEOREM NodesSayTrueOnRecent == ASSUME Delay < InFlight PROVE FairNodes => TrueIsRecent
<1> DEFINE Safe == NodesInit /\ [][NodesNext]_nodesVars
<1>1. NodesInit => /\ NodesInv /\ CommandInv /\ TargetInv
                   /\ Lidar!FlagInit /\ Imu!FlagInit /\ Pose!FlagInit
  <2>1. NodesInit => GuardInit /\ BridgeInit /\ CommandInit /\ TargetInit
    BY DEF NodesInit
  <2>2. GuardInit => Lidar!FlagInit /\ Imu!FlagInit
    BY DEF GuardInit, HostInit, Lidar!FlagInit, Imu!FlagInit, NoFlag, Never, Stream
  <2>3. BridgeInit => Pose!FlagInit
    BY DEF BridgeInit, HostInit, Pose!FlagInit, NoFlag, Never
  <2>4. QED
    BY <2>1, <2>2, <2>3, NodesInvInit, CommandInvInit, TargetInvInit
<1>2. NodesInv /\ [NodesNext]_nodesVars => NodesInv'
  BY NodesInvStep
<1>3. CommandInv /\ [NodesNext]_nodesVars => CommandInv'
  BY NodesStep, CommandInvStep
<1>4. TargetInv /\ [NodesNext]_nodesVars => TargetInv'
  BY NodesStep, TargetInvStep
<1>5. NodesInv /\ NodesInv' /\ [NodesNext]_nodesVars =>
        /\ [Lidar!FlagNext]_(Lidar!flagVars) /\ [Imu!FlagNext]_(Imu!flagVars)
        /\ [Pose!FlagNext]_(Pose!flagVars)
  BY NodesPromises
<1>6. NodesInv => ReadyIsRecent
  <2>1. CASE running = "preflight"
    BY <2>1, PreflightIsRecent DEF NodesInv
  <2>2. CASE running # "preflight"
    BY <2>2 DEF NodesInv, ReadyIsRecent, Ready, FlagOk, Required
  <2>3. QED
    BY <2>1, <2>2
<1>7. (CommandInv => CommandsAreBacked) /\ (TargetInv => ShotTargetIsRecent)
  BY CommandInvBacks, TargetIsRecent
<1>8. Safe => TrueIsRecent
  <2> HIDE DEF NodesInv, CommandInv, TargetInv
  <2>1. QED
    BY <1>1, <1>2, <1>3, <1>4, <1>5, <1>6, <1>7, PTL
    DEF Safe, TrueIsRecent, GuardKeepsPromise, BridgeKeepsPromise, Lidar!FlagSpec, Imu!FlagSpec, Pose!FlagSpec
<1>9. QED
  BY <1>8, PTL DEF FairNodes, Safe
=============================================================================
