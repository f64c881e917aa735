----------------------------- MODULE PoseBridge -----------------------------
(***************************************************************************)
(* Mid360PoseBridge (pose_bridge.py): turns the odometry of FAST-LIO into  *)
(* the local odometry of the base and says on a topic of its own,          *)
(* pose_valid, whether it may be used; and a reader of both topics, as the *)
(* map anchor is one, that takes them in an order of its own.              *)
(*                                                                         *)
(* A position is a number; the frame and quaternion checks of a message    *)
(* are one Boolean, framed, and the gates on speed, yaw rate and height    *)
(* another, calm.                                                          *)
(***************************************************************************)
EXTENDS Host, Sequences

CONSTANTS
  PoseSilence,      \* max_pose_silence_sec
  Position,         \* where FAST-LIO may see the base
  MaxPositionStep,  \* max_position_step_m, 0 switches the gate off
  Depth,            \* depth of both topics, the oldest message is dropped
  MaxReceived       \* bound: messages of FAST-LIO

ASSUME BridgeAssumption ==
  /\ PoseSilence \in Nat
  /\ Position \subseteq Int
  /\ MaxPositionStep \in Nat
  /\ Depth \in Nat \ {0}
  /\ MaxReceived \in Nat

VARIABLES
  poseArrival,   \* last_pose_arrival
  lastValid,     \* last_valid
  lastHard,      \* last_hard_failure
  lastPosition,  \* last_base_position, {} for None
  serial,        \* messages of FAST-LIO so far
  odomTopic,     \* local odometry on its way, with its serial and whether it was valid
  validTopic,    \* pose_valid on its way, with the serial it was published after
  heldOdom,      \* the odometry the reader took last
  heldValid,     \* the pose_valid the reader took last
  poseFlag,      \* history: the last message published on pose_valid
  goodPose       \* history: when a valid message arrived last

bridgeState == <<poseArrival, lastValid, lastHard, lastPosition, serial>>
bridgeOwn == <<bridgeState, odomTopic, validTopic, heldOdom, heldValid, poseFlag, goodPose>>
bridgeVars == <<now, reboots, bridgeOwn>>

BridgeInit ==
  /\ HostInit
  /\ poseArrival = Never
  /\ lastValid = FALSE
  /\ lastHard = TRUE
  /\ lastPosition = {}
  /\ serial = 0
  /\ odomTopic = <<>>
  /\ validTopic = <<>>
  /\ heldOdom = [serial |-> 0, valid |-> FALSE]
  /\ heldValid = [serial |-> 0, value |-> FALSE]
  /\ poseFlag = NoFlag
  /\ goodPose = Never

\* A message of FAST-LIO as it may arrive.
SourceOdometry == [framed : BOOLEAN, calm : BOOLEAN, position : Position]

Put(topic, m) ==
  IF Len(topic) < Depth THEN Append(topic, m) ELSE Append(Tail(topic), m)

-----------------------------------------------------------------------------
(* _publish_status *)

PoseValid == lastValid /\ ~lastHard /\ Recent(poseArrival, PoseSilence)

\* Mutant of PublishPoseStatus: the flag is judged without its age.
PublishPoseAgeless ==
  /\ validTopic' = Put(validTopic, [serial |-> serial', value |-> lastValid' /\ ~lastHard'])
  /\ poseFlag' = [value |-> lastValid' /\ ~lastHard', sent |-> now]

\* Of the state as the caller leaves it.
PublishPoseStatus ==
  /\ validTopic' = Put(validTopic, [serial |-> serial', value |-> PoseValid'])
  /\ poseFlag' = [value |-> PoseValid', sent |-> now]

-----------------------------------------------------------------------------
(* _odom_callback *)

StepTooLong(position) ==
  /\ MaxPositionStep > 0
  /\ \E last \in lastPosition : position - last > MaxPositionStep \/ last - position > MaxPositionStep

\* _quality_issues finds none
Quality(p) == p.calm /\ ~StepTooLong(p.position)

\* No odometry leaves the bridge, only the flag.
HardFailure(p) ==
  /\ ~p.framed
  /\ poseArrival' = now
  /\ lastValid' = FALSE
  /\ lastHard' = TRUE
  /\ serial' = serial + 1
  /\ UNCHANGED <<now, reboots, lastPosition, odomTopic, goodPose>>
  /\ PublishPoseStatus

\* Mutant of ForwardPose: the flag of a doubtful pose is left to the timer.
ForwardQuietly(p) ==
  /\ p.framed
  /\ poseArrival' = now
  /\ lastValid' = Quality(p)
  /\ lastHard' = FALSE
  /\ serial' = serial + 1
  /\ lastPosition' = IF Quality(p) THEN {p.position} ELSE lastPosition
  /\ goodPose' = IF Quality(p) THEN now ELSE goodPose
  /\ odomTopic' = Put(odomTopic, [serial |-> serial', valid |-> lastValid'])
  /\ UNCHANGED <<now, reboots>>
  /\ IF Quality(p) THEN PublishPoseStatus ELSE UNCHANGED <<validTopic, poseFlag>>

\* The odometry is published whether its quality is good or not, then the flag.
ForwardPose(p) ==
  /\ p.framed
  /\ poseArrival' = now
  /\ lastValid' = Quality(p)
  /\ lastHard' = FALSE
  /\ serial' = serial + 1
  /\ lastPosition' = IF Quality(p) THEN {p.position} ELSE lastPosition
  /\ goodPose' = IF Quality(p) THEN now ELSE goodPose
  /\ odomTopic' = Put(odomTopic, [serial |-> serial', valid |-> lastValid'])
  /\ UNCHANGED <<now, reboots>>
  /\ PublishPoseStatus

SourceOdomCallback(p) ==
  /\ serial < MaxReceived
  /\ HardFailure(p) \/ ForwardPose(p)
  /\ UNCHANGED <<heldOdom, heldValid>>

PoseTimer ==
  /\ UNCHANGED <<now, reboots, bridgeState, odomTopic, heldOdom, heldValid, goodPose>>
  /\ PublishPoseStatus

\* A new process; messages on their way and the reader are not touched.
BridgeRestart ==
  /\ Reboot
  /\ poseArrival' = Never
  /\ lastValid' = FALSE
  /\ lastHard' = TRUE
  /\ lastPosition' = {}
  /\ UNCHANGED <<serial, odomTopic, validTopic, heldOdom, heldValid, poseFlag, goodPose>>

-----------------------------------------------------------------------------
(* The reader *)

ReaderTakesOdom ==
  /\ odomTopic # <<>>
  /\ heldOdom' = Head(odomTopic)
  /\ odomTopic' = Tail(odomTopic)
  /\ UNCHANGED <<now, reboots, bridgeState, validTopic, heldValid, poseFlag, goodPose>>

ReaderTakesValid ==
  /\ validTopic # <<>>
  /\ heldValid' = Head(validTopic)
  /\ validTopic' = Tail(validTopic)
  /\ UNCHANGED <<now, reboots, bridgeState, odomTopic, heldOdom, poseFlag, goodPose>>

BridgeWaits == TimePasses /\ UNCHANGED bridgeOwn

BridgeNext ==
  \/ \E p \in SourceOdometry : SourceOdomCallback(p)
  \/ PoseTimer
  \/ BridgeRestart
  \/ ReaderTakesOdom
  \/ ReaderTakesValid
  \/ BridgeWaits

BridgeSpec == BridgeInit /\ [][BridgeNext]_bridgeVars

-----------------------------------------------------------------------------
(* Properties *)

OdomMessage == [serial : 0..MaxReceived, valid : BOOLEAN]
ValidMessage == [serial : 0..MaxReceived, value : BOOLEAN]

\* The values the bridge keeps and publishes; the topics stay within their depth.
BridgeTypeOK ==
  /\ HostTypeOK
  /\ poseArrival \in Moment
  /\ lastValid \in BOOLEAN
  /\ lastHard \in BOOLEAN
  /\ lastPosition \in SUBSET Position
  /\ serial \in 0..MaxReceived
  /\ odomTopic \in Seq(OdomMessage) /\ Len(odomTopic) <= Depth
  /\ validTopic \in Seq(ValidMessage) /\ Len(validTopic) <= Depth
  /\ heldOdom \in OdomMessage
  /\ heldValid \in ValidMessage
  /\ poseFlag \in FlagMessage
  /\ goodPose \in Moment

\* pose_valid is TRUE only on a valid message that arrived at most the pose
\* silence before, over doubtful poses, hard failures and restarts.
Pose == INSTANCE ValidityFlag WITH evidence <- goodPose, flag <- poseFlag, Silence <- PoseSilence
BridgeKeepsPromise == Pose!FlagSpec

\* A doubtful pose goes out before the flag that condemns it, on another topic.
\* A reader that has read every flag and reads TRUE has, or is about to get, just
\* the pose the flag speaks of as the newest, and it is valid: whatever order it
\* takes the topics in and whatever they drop.
NewestOdom == IF odomTopic = <<>> THEN heldOdom ELSE odomTopic[Len(odomTopic)]
TrueMeansNewest ==
  heldValid.value /\ validTopic = <<>> =>
    NewestOdom.valid /\ NewestOdom.serial = heldValid.serial

\* The odometry has fallen silent.
PoseSilent == ~Recent(poseArrival, PoseSilence)
=============================================================================
