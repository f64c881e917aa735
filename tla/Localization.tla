---------------------------- MODULE Localization ----------------------------
(***************************************************************************)
(* The map anchor and the scan matcher joined by their topics.  Both hold  *)
(* a map -> odom anchor of their own and take /initialpose each from its   *)
(* own queue, under different conditions; the anchor alone hears of        *)
(* relocalization requests; the matcher's corrections reach it in order,   *)
(* late, or not at all when the queue overflows.                           *)
(*                                                                         *)
(* The scan matcher (mid360_scan_matcher_node.cpp) fits scans to the fixed *)
(* map around its own anchor.  It is spun by a single-threaded executor,   *)
(* so every callback is atomic and the mutex never contended.  The verdict *)
(* of ICP and its gates on a scan is nondeterministic; an accepted         *)
(* candidate passed the jump gate and keeps the origin of the anchor it    *)
(* was fitted around.                                                      *)
(***************************************************************************)
EXTENDS MapAnchor, Sequences

CONSTANTS
  MapLoaded,        \* map_loaded_: loadMap accepted the map file at start
  MaxPoses,         \* bound: initial poses the operator publishes
  MaxRestarts,      \* bound: restarts of either node
  CorrectionDepth   \* depth of the correction topic

ASSUME LocalizationAssumption ==
  /\ RequirePoseValid \in BOOLEAN
  /\ MapLoaded \in BOOLEAN
  /\ MaxPoses \in Nat
  /\ MaxRestarts \in Nat
  /\ CorrectionDepth \in Nat \ {0}

VARIABLES
  matcherOrigin, \* origin of map_to_odom_; anchor_set_ is matcherOrigin # 0
  pendingPose,   \* pending_initialpose_: the id of the pose, 0 for none
  matcherOdom,   \* latest_odom_: "none", "fresh" or "stale"
  posesSent,     \* how many initial poses were published
  poseToAnchor,  \* /initialpose on its way to the anchor, oldest first
  poseToMatcher, \* and to the matcher
  corrections,   \* /mid360/map_to_odom_correction: origins, oldest first
  restarts,      \* restarts so far
  unconfirmed,   \* history: the matcher has fitted no scan since it took its anchor
  doubted        \* history: the anchor was given a pose or asked to relocalize and
                 \* has taken no correction since

matcherVars == <<matcherOrigin, pendingPose, matcherOdom>>
topicVars == <<posesSent, poseToAnchor, poseToMatcher, corrections>>
localizationVars == <<anchorVars, matcherVars, topicVars, restarts, unconfirmed, doubted>>

-----------------------------------------------------------------------------
(* The scan matcher *)

MatcherFresh ==
  /\ matcherOrigin = 0
  /\ pendingPose = 0
  /\ matcherOdom = "none"

\* trySetAnchorLocked, with the pose and odometry the caller has just stored.
TrySetAnchor(pose, odom) ==
  IF pose # 0 /\ odom = "fresh"
  THEN matcherOrigin' = pose /\ pendingPose' = 0
  ELSE matcherOrigin' = matcherOrigin /\ pendingPose' = pose

MatcherOdomCallback ==
  /\ matcherOdom' = "fresh"
  /\ TrySetAnchor(pendingPose, "fresh")

MatcherOdomSilence ==
  /\ matcherOdom = "fresh"
  /\ matcherOdom' = "stale"
  /\ UNCHANGED <<matcherOrigin, pendingPose>>

\* The newest pose replaces one that is still pending.  Nothing asks whether the
\* local pose is valid, and poseToMatrix reads a zero rotation as none.
MatcherInitialposeCallback(pose) ==
  /\ TrySetAnchor(pose.id, matcherOdom)
  /\ UNCHANGED matcherOdom

\* A scan is matched at all only around a set anchor with fresh odometry.
MatchesScans ==
  /\ MapLoaded
  /\ matcherOrigin # 0
  /\ matcherOdom = "fresh"

\* scanCallback accepting a candidate: it becomes the anchor and is published.
ScanAccepted == MatchesScans /\ UNCHANGED matcherVars

-----------------------------------------------------------------------------
(* The two nodes and their topics *)

LocalizationInit ==
  /\ AnchorFresh
  /\ MatcherFresh
  /\ posesSent = 0
  /\ poseToAnchor = <<>>
  /\ poseToMatcher = <<>>
  /\ corrections = <<>>
  /\ restarts = 0
  /\ unconfirmed = TRUE
  /\ doubted = FALSE

\* An operator publishes an initial pose: one message, two subscribers.
OperatorPose(rotation) ==
  /\ posesSent < MaxPoses
  /\ LET pose == [id |-> posesSent + 1, rotation |-> rotation]
     IN  /\ poseToAnchor' = Append(poseToAnchor, pose)
         /\ poseToMatcher' = Append(poseToMatcher, pose)
  /\ posesSent' = posesSent + 1
  /\ UNCHANGED <<anchorVars, matcherVars, corrections, restarts, unconfirmed, doubted>>

AnchorTakesPose ==
  /\ poseToAnchor # <<>>
  /\ InitialposeCallback(Head(poseToAnchor))
  /\ poseToAnchor' = Tail(poseToAnchor)
  /\ doubted' = (doubted \/ mapToOdom' # mapToOdom)
  /\ UNCHANGED <<matcherVars, posesSent, poseToMatcher, corrections, restarts, unconfirmed>>

AnchorAskedToRelocalize ==
  /\ RelocalizationRequestCallback
  /\ doubted' = TRUE
  /\ UNCHANGED <<matcherVars, topicVars, restarts, unconfirmed>>

AnchorTakesCorrection ==
  /\ corrections # <<>>
  /\ CorrectionCallback(Head(corrections))
  /\ corrections' = Tail(corrections)
  /\ doubted' = FALSE
  /\ UNCHANGED <<matcherVars, posesSent, poseToAnchor, poseToMatcher, restarts, unconfirmed>>

AnchorLocalStep ==
  /\ \/ OdomCallback
     \/ OdomSilence
     \/ \E v \in BOOLEAN : PoseValidCallback(v)
  /\ UNCHANGED <<matcherVars, topicVars, restarts, unconfirmed, doubted>>

AnchorTimer ==
  /\ PublishAnchorStatus
  /\ UNCHANGED <<matcherVars, topicVars, restarts, unconfirmed, doubted>>

\* The matcher's own steps; taking an anchor makes it unconfirmed.
MatcherTakesPose ==
  /\ poseToMatcher # <<>>
  /\ MatcherInitialposeCallback(Head(poseToMatcher))
  /\ poseToMatcher' = Tail(poseToMatcher)
  /\ unconfirmed' = (unconfirmed \/ matcherOrigin' # matcherOrigin)
  /\ UNCHANGED <<anchorVars, posesSent, poseToAnchor, corrections, restarts, doubted>>

MatcherLocalStep ==
  /\ MatcherOdomCallback \/ MatcherOdomSilence
  /\ unconfirmed' = (unconfirmed \/ matcherOrigin' # matcherOrigin)
  /\ UNCHANGED <<anchorVars, topicVars, restarts, doubted>>

\* The history of the correction topic, KEEP_LAST: a full one drops its oldest.
KeepLast(queue, message) ==
  Append(IF Len(queue) < CorrectionDepth THEN queue ELSE Tail(queue), message)

MatcherCorrects ==
  /\ ScanAccepted
  /\ corrections' = KeepLast(corrections, matcherOrigin)
  /\ unconfirmed' = FALSE
  /\ UNCHANGED <<anchorVars, posesSent, poseToAnchor, poseToMatcher, restarts, doubted>>

-----------------------------------------------------------------------------
(* A node dies and comes back: it remembers nothing, and what was queued for *)
(* it is gone.  What others hold of it stays.                              *)

AnchorRestart ==
  /\ restarts < MaxRestarts
  /\ restarts' = restarts + 1
  /\ trackingState' = "UNINITIALIZED"
  /\ verified' = FALSE
  /\ requested' = FALSE
  /\ mapToOdom' = 0
  /\ anchorSource' = "none"
  /\ poseValid' = FALSE
  /\ odomSeen' = "none"
  /\ poseToAnchor' = <<>>
  /\ corrections' = <<>>
  /\ doubted' = FALSE
  /\ UNCHANGED <<lockTopic, matcherVars, posesSent, poseToMatcher, unconfirmed>>

MatcherRestart ==
  /\ restarts < MaxRestarts
  /\ restarts' = restarts + 1
  /\ matcherOrigin' = 0
  /\ pendingPose' = 0
  /\ matcherOdom' = "none"
  /\ poseToMatcher' = <<>>
  /\ unconfirmed' = TRUE
  /\ UNCHANGED <<anchorVars, posesSent, poseToAnchor, corrections, doubted>>

LocalizationNext ==
  \/ \E r \in {"unit", "zero"} : OperatorPose(r)
  \/ AnchorTakesPose
  \/ AnchorAskedToRelocalize
  \/ AnchorTakesCorrection
  \/ AnchorLocalStep
  \/ AnchorTimer
  \/ MatcherTakesPose
  \/ MatcherLocalStep
  \/ MatcherCorrects
  \/ AnchorRestart
  \/ MatcherRestart

LocalizationSpec == LocalizationInit /\ [][LocalizationNext]_localizationVars

\* The anchor's executor spins: its timer fires and what its queues hold is
\* taken.  Nothing is assumed of scans, odometry or the operator.
FairLocalizationSpec ==
  /\ LocalizationSpec
  /\ WF_localizationVars(AnchorTimer)
  /\ WF_localizationVars(AnchorTakesCorrection)

-----------------------------------------------------------------------------
(* Properties *)

PoseMessage == [id : 1..MaxPoses, rotation : {"unit", "zero"}]

\* The variables hold what the attributes of the two nodes hold.
LocalizationTypeOK ==
  /\ trackingState \in TrackingState
  /\ verified \in BOOLEAN
  /\ requested \in BOOLEAN
  /\ mapToOdom \in 0..MaxPoses
  /\ anchorSource \in AnchorSource
  /\ poseValid \in BOOLEAN
  /\ odomSeen \in {"none", "fresh", "stale"}
  /\ lockTopic \in BOOLEAN
  /\ matcherOrigin \in 0..MaxPoses
  /\ pendingPose \in 0..MaxPoses
  /\ matcherOdom \in {"none", "fresh", "stale"}
  /\ posesSent \in 0..MaxPoses
  /\ poseToAnchor \in Seq(PoseMessage)
  /\ poseToMatcher \in Seq(PoseMessage)
  /\ corrections \in Seq(1..MaxPoses)
  /\ Len(corrections) <= CorrectionDepth
  /\ restarts \in 0..MaxRestarts
  /\ unconfirmed \in BOOLEAN
  /\ doubted \in BOOLEAN

\* The map counts as locked only on an anchor that a scan-to-map correction
\* confirmed after the last reason to doubt it: an initial pose is provisional
\* and a relocalization request blocks the lock, whatever the local pose, the
\* timer and the order of messages do (test_tracking.py,
\* test_relocalization_request_blocks_map_lock).
LockIsConfirmed ==
  trackingState = "TRACKING" =>
    /\ ~doubted
    /\ mapToOdom # 0
    /\ anchorSource = "external_correction"

\* Two nodes, two anchors, one map: while the anchor claims to track on another
\* pose than the matcher fits scans to, either a correction that will tell is on
\* its way or the matcher has not fitted a scan to its anchor yet.  They never
\* part for good behind a published lock, although each takes or refuses poses,
\* restarts and loses corrections on its own.
DisagreementIsTransient ==
  trackingState = "TRACKING" /\ mapToOdom # matcherOrigin =>
    unconfirmed \/ corrections # <<>>

\* What reaches the anchor last is what the matcher holds: corrections that are
\* dropped or overtaken are older than the one that counts.
NewestCorrectionCounts ==
  corrections # <<>> /\ ~unconfirmed => corrections[Len(corrections)] = matcherOrigin

\* The lock does not outlive the local pose: when pose_valid turns false the
\* lock is withdrawn unless the pose comes back first.
LockFollowsPose == ~poseValid ~> (~lockTopic \/ poseValid)

\* A correction on its way ends a disagreement, unless the matcher takes a new
\* anchor or the map anchor dies first.
CorrectionsConverge ==
  corrections # <<>> ~> (mapToOdom \in {0, matcherOrigin} \/ unconfirmed)

\* "true enters RELOCALIZING; a valid /initialpose or verified correction clears
\* it" (INTERFACE_CONTRACT.md, /mid360/relocalization_request): an initial pose
\* the anchor accepts leaves no relocalization request behind.
InitialPoseClearsRequest ==
  [][mapToOdom' # mapToOdom /\ anchorSource' = "initialpose" => ~requested']_localizationVars
=============================================================================
