----------------------------- MODULE PoseCommand -----------------------------
(***************************************************************************)
(* PoseCommandBridge (pose_command_bridge.py, core.py) behind the map      *)
(* anchor: the pose the anchor localizes, the lock and pose_valid reach it *)
(* over three topics, and while its gate is open it publishes a command to *)
(* the base at every tick.  The flags have no age there; the pose has one,  *)
(* from its arrival.  What pose_valid says is free at every tick.          *)
(*                                                                         *)
(* Ages stand for the clock and are counted up to one beyond their limit.  *)
(***************************************************************************)
EXTENDS MapAnchor, Sequences

CONSTANTS
  SilenceLimit,    \* max_odom_silence_sec of the anchor, in periods of its timer
  CorrectionLag,   \* a correction is of odometry at most this old when it arrives
  Delay,           \* how long a message is on its way
  MaxPoseAge,      \* max_pose_age_sec of the bridge
  InFlight         \* bound: messages of a topic on their way, oldest dropped first

ASSUME CommandAssumption ==
  /\ SilenceLimit \in Nat /\ CorrectionLag \in Nat
  /\ Delay \in Nat /\ MaxPoseAge \in Nat
  /\ InFlight \in Nat \ {0}

VARIABLES
  anchorUp,      \* the process of the anchor runs
  ticked,        \* its timer has fired in this period
  odomAge,       \* age of latest_odom
  poseWire,      \* localized odometry on its way: age of its odometry, age of the message
  lockWire,      \* map_locked on its way: value, age of the message
  pose,          \* age of its odometry, pose_received_at as an age
  bridgeLocked,  \* map_locked as the bridge has it
  doubtAge       \* history: how long the anchor was last confirmed, or came up, ago

wires == <<poseWire, lockWire>>
bridgeSide == <<pose, bridgeLocked>>
commandOwn == <<anchorUp, ticked, odomAge, wires, bridgeSide, doubtAge>>
commandVars == <<anchorVars, commandOwn>>

Longest(a, b) == IF a > b THEN a ELSE b
OdomAgeLimit == Longest(SilenceLimit, CorrectionLag)
\* How old what stands behind a command may be.
DoubtLimit == 1 + Delay + MaxPoseAge
HeardLimit == OdomAgeLimit + Delay + MaxPoseAge

Older(age, limit) == IF age > limit THEN age ELSE age + 1

\* pose is None: as closed to the gate as a pose too old.
NoPose == [heard |-> 0, at |-> MaxPoseAge + 1]

CommandInit ==
  /\ AnchorFresh
  /\ anchorUp = TRUE /\ ticked = FALSE
  /\ odomAge = OdomAgeLimit + 1
  /\ poseWire = <<>> /\ lockWire = <<>>
  /\ pose = NoPose
  /\ bridgeLocked = FALSE
  /\ doubtAge = 0

Confirmed == anchorUp /\ verified

Send(wire, message) ==
  LET all == Append(wire, message)
  IN  SubSeq(all, IF Len(all) > InFlight THEN 2 ELSE 1, Len(all))

\* _publish_localized_odometry: with the stamp and pose of latest_odom.
PublishLocalized(age) == poseWire' = Send(poseWire, [heard |-> age, sent |-> 0])

\* What no callback of the anchor touches.
AnchorActs ==
  /\ anchorUp
  /\ doubtAge' = IF verified' THEN 0 ELSE doubtAge
  /\ UNCHANGED <<anchorUp, bridgeSide>>

-----------------------------------------------------------------------------
(* The anchor *)

AnchorOdom ==
  /\ OdomCallback
  /\ odomAge' = 0
  /\ IF mapToOdom # 0 THEN PublishLocalized(0) ELSE UNCHANGED poseWire
  /\ AnchorActs /\ UNCHANGED <<ticked, lockWire>>

AnchorPoseValid(value) ==
  /\ PoseValidCallback(value)
  /\ AnchorActs /\ UNCHANGED <<ticked, odomAge, wires>>

AnchorRequest ==
  /\ RelocalizationRequestCallback
  /\ AnchorActs /\ UNCHANGED <<ticked, odomAge, wires>>

\* Refused, nothing changes; taken, the pose is published before it is confirmed.
AnchorInitialpose ==
  /\ ReadyForAnchor
  /\ InitialposeCallback([id |-> 1, rotation |-> "unit"])
  /\ PublishLocalized(odomAge)
  /\ AnchorActs /\ UNCHANGED <<ticked, odomAge, lockWire>>

\* The anchor does not ask how old latest_odom is.
AnchorCorrection ==
  /\ odomSeen # "none" => odomAge <= CorrectionLag
  /\ CorrectionCallback(1)
  /\ IF odomSeen # "none" THEN PublishLocalized(odomAge) ELSE UNCHANGED poseWire
  /\ AnchorActs /\ UNCHANGED <<ticked, odomAge, lockWire>>

AnchorTick ==
  /\ ~ticked /\ ticked' = TRUE
  /\ PublishAnchorStatus
  /\ lockWire' = Send(lockWire, [locked |-> lockTopic', sent |-> 0])
  /\ AnchorActs /\ UNCHANGED <<odomAge, poseWire>>

AnchorDies ==
  /\ anchorUp /\ anchorUp' = FALSE
  /\ UNCHANGED <<anchorVars, ticked, odomAge, wires, bridgeSide, doubtAge>>

AnchorStarts ==
  /\ ~anchorUp /\ anchorUp' = TRUE
  /\ trackingState' = "UNINITIALIZED" /\ verified' = FALSE /\ requested' = FALSE
  /\ mapToOdom' = 0 /\ anchorSource' = "none"
  /\ poseValid' = FALSE /\ odomSeen' = "none" /\ lockTopic' = FALSE
  /\ ticked' = FALSE /\ odomAge' = OdomAgeLimit + 1
  /\ doubtAge' = 0
  /\ UNCHANGED <<wires, bridgeSide>>

-----------------------------------------------------------------------------
(* The bridge *)

TakePose ==
  /\ poseWire # <<>>
  /\ pose' = [heard |-> Head(poseWire).heard, at |-> 0]
  /\ poseWire' = Tail(poseWire)
  /\ UNCHANGED <<anchorVars, anchorUp, ticked, odomAge, lockWire, bridgeLocked, doubtAge>>

TakeLock ==
  /\ lockWire # <<>>
  /\ bridgeLocked' = Head(lockWire).locked
  /\ lockWire' = Tail(lockWire)
  /\ UNCHANGED <<anchorVars, anchorUp, ticked, odomAge, poseWire, pose, doubtAge>>

BridgeStarts ==
  /\ pose' = NoPose /\ bridgeLocked' = FALSE
  /\ UNCHANGED <<anchorVars, anchorUp, ticked, odomAge, wires, doubtAge>>

\* pose_command_gate: while it holds, _publish_command tells the base where to go.
PoseGate(valid) == valid /\ bridgeLocked /\ pose.at <= MaxPoseAge

-----------------------------------------------------------------------------
OlderWire(wire) == [i \in DOMAIN wire |-> [wire[i] EXCEPT !.sent = @ + 1]]

\* A period of the anchor's timer ends: it fired, and what was sent has come in time.
PeriodPasses ==
  /\ anchorUp => ticked
  /\ \A i \in DOMAIN poseWire : poseWire[i].sent < Delay
  /\ \A i \in DOMAIN lockWire : lockWire[i].sent < Delay
  /\ ticked' = FALSE
  /\ odomAge' = Older(odomAge, OdomAgeLimit)
  /\ IF odomSeen = "fresh" /\ odomAge' > SilenceLimit THEN OdomSilence ELSE UNCHANGED anchorVars
  /\ poseWire' = [i \in DOMAIN poseWire |->
                    [heard |-> Older(poseWire[i].heard, HeardLimit), sent |-> poseWire[i].sent + 1]]
  /\ lockWire' = OlderWire(lockWire)
  /\ pose' = IF pose.at >= MaxPoseAge THEN NoPose
             ELSE [heard |-> Older(pose.heard, HeardLimit), at |-> pose.at + 1]
  /\ doubtAge' = IF Confirmed THEN 0 ELSE Older(doubtAge, DoubtLimit)
  /\ UNCHANGED <<anchorUp, bridgeLocked>>

CommandNext ==
  \/ AnchorOdom \/ AnchorRequest \/ AnchorInitialpose \/ AnchorCorrection
  \/ AnchorTick \/ AnchorDies \/ AnchorStarts
  \/ \E value \in BOOLEAN : AnchorPoseValid(value)
  \/ TakePose \/ TakeLock \/ BridgeStarts
  \/ PeriodPasses

CommandSpec == CommandInit /\ [][CommandNext]_commandVars
-----------------------------------------------------------------------------
(* Properties *)

\* The base is told where to go only on an anchor that was confirmed, or came up, at
\* most one tick, one delay and one age limit ago, and by a pose whose odometry is no
\* older than its limits add up to: although neither flag has an age at the bridge,
\* the anchor may die at any time, and the two topics are read in any order.
CommandsAreBacked ==
  \A valid \in BOOLEAN :
    PoseGate(valid) => doubtAge <= DoubtLimit /\ pose.heard <= HeardLimit
=============================================================================
