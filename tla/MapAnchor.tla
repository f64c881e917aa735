----------------------------- MODULE MapAnchor ------------------------------
(***************************************************************************)
(* Mid360MapOdomAnchor (map_odom_anchor.py) with its TrackingStateMachine  *)
(* (tracking.py): who the map -> odom transform comes from and whether the *)
(* map counts as locked.  One action per callback and timer of a           *)
(* single-threaded executor.                                               *)
(*                                                                         *)
(* A transform is abstracted to its origin, the initial pose it descends   *)
(* from (0: none): a correction moves an anchor by less than the jump gate *)
(* of the matcher and keeps its origin.  Messages with a foreign frame are *)
(* dropped without a change of state and are left out.                     *)
(***************************************************************************)
EXTENDS Integers

CONSTANT RequirePoseValid  \* parameter require_pose_valid

VARIABLES
  trackingState,  \* TrackingStateMachine.state
  verified,       \* .verified_anchor
  requested,      \* .relocalization_requested
  mapToOdom,      \* origin of map_to_odom; .anchor_exists is mapToOdom # 0
  anchorSource,   \* anchor_source
  poseValid,      \* pose_valid
  odomSeen,       \* latest_odom: "none", "fresh" within the silence limit, "stale"
  lockTopic       \* the last message on /mid360/map_locked

trackingVars == <<trackingState, verified, requested>>
anchorVars == <<trackingVars, mapToOdom, anchorSource, poseValid, odomSeen, lockTopic>>

TrackingState == {"UNINITIALIZED", "TRACKING", "RELOCALIZING", "LOST"}
AnchorSource == {"none", "initialpose", "external_correction"}

AnchorFresh ==
  /\ trackingState = "UNINITIALIZED"
  /\ verified = FALSE
  /\ requested = FALSE
  /\ mapToOdom = 0
  /\ anchorSource = "none"
  /\ poseValid = FALSE
  /\ odomSeen = "none"
  /\ lockTopic = FALSE

-----------------------------------------------------------------------------
(* tracking.py *)

\* Mutant of RequestRelocalization: the anchor stays verified and no request is
\* kept, so the next status tick restores the lock.
RequestOnlyMoves ==
  /\ trackingState' = "RELOCALIZING"
  /\ UNCHANGED <<verified, requested>>

RequestRelocalization ==
  /\ trackingState' = "RELOCALIZING"
  /\ verified' = FALSE
  /\ requested' = TRUE

SetProvisionalAnchor ==
  /\ trackingState' = "RELOCALIZING"
  /\ verified' = FALSE
  /\ requested' = TRUE

AcceptAnchor ==
  /\ trackingState' = "TRACKING"
  /\ verified' = TRUE
  /\ requested' = FALSE

\* Mutant of Update: an anchor once verified counts as tracked whatever the pose.
UpdateWithoutPose(poseOk, odomFresh) ==
  IF mapToOdom = 0 THEN "UNINITIALIZED"
  ELSE IF requested \/ ~verified THEN "RELOCALIZING"
  ELSE "TRACKING"

Update(poseOk, odomFresh) ==
  IF mapToOdom = 0 THEN "UNINITIALIZED"
  ELSE IF requested \/ ~verified THEN "RELOCALIZING"
  ELSE IF ~poseOk \/ ~odomFresh THEN "LOST"
  ELSE "TRACKING"

-----------------------------------------------------------------------------
(* Callbacks *)

OdomCallback ==
  /\ odomSeen' = "fresh"
  /\ UNCHANGED <<trackingVars, mapToOdom, anchorSource, poseValid, lockTopic>>

\* No odometry arrives for max_odom_silence_sec.
OdomSilence ==
  /\ odomSeen = "fresh"
  /\ odomSeen' = "stale"
  /\ UNCHANGED <<trackingVars, mapToOdom, anchorSource, poseValid, lockTopic>>

PoseValidCallback(value) ==
  /\ poseValid' = value
  /\ UNCHANGED <<trackingVars, mapToOdom, anchorSource, odomSeen, lockTopic>>

\* Only data = true does anything.
RelocalizationRequestCallback ==
  /\ RequestRelocalization
  /\ UNCHANGED <<mapToOdom, anchorSource, poseValid, odomSeen, lockTopic>>

ReadyForAnchor ==
  /\ odomSeen = "fresh"
  /\ RequirePoseValid => poseValid

\* normalize_quaternion refuses a zero rotation.
InitialposeCallback(pose) ==
  \/ /\ ReadyForAnchor
     /\ pose.rotation # "zero"
     /\ mapToOdom' = pose.id
     /\ anchorSource' = "initialpose"
     /\ SetProvisionalAnchor
     /\ UNCHANGED <<poseValid, odomSeen, lockTopic>>
  \/ /\ ~ReadyForAnchor \/ pose.rotation = "zero"
     /\ UNCHANGED anchorVars

\* Mutant of CorrectionCallback: a pose given by the operator is kept, and verified.
CorrectionKeepsPose(origin) ==
  /\ mapToOdom' = IF anchorSource = "initialpose" THEN mapToOdom ELSE origin
  /\ anchorSource' = "external_correction"
  /\ AcceptAnchor
  /\ UNCHANGED <<poseValid, odomSeen, lockTopic>>

CorrectionCallback(origin) ==
  /\ mapToOdom' = origin
  /\ anchorSource' = "external_correction"
  /\ AcceptAnchor
  /\ UNCHANGED <<poseValid, odomSeen, lockTopic>>

\* _publish_anchor_status: the state is recomputed and the lock published.
PublishAnchorStatus ==
  /\ trackingState' = Update(poseValid, odomSeen = "fresh")
  /\ lockTopic' = (trackingState' = "TRACKING")
  /\ UNCHANGED <<verified, requested, mapToOdom, anchorSource, poseValid, odomSeen>>
=============================================================================
