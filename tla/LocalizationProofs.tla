------------------------- MODULE LocalizationProofs -------------------------
(***************************************************************************)
(* Theorems about Localization, for any number of poses and restarts and   *)
(* any depth of the correction topic.                                      *)
(***************************************************************************)
EXTENDS Localization, TLAPS

-----------------------------------------------------------------------------
(* Queues *)

LEMMA TailOfSequence ==
  ASSUME NEW S, NEW q \in Seq(S), q # <<>>
  PROVE  /\ Head(q) \in S
         /\ Tail(q) \in Seq(S)
         /\ Len(Tail(q)) = Len(q) - 1
         /\ Tail(q) # <<>> => Tail(q)[Len(Tail(q))] = q[Len(q)]
         /\ Tail(q) = <<>> => Head(q) = q[Len(q)]
<1>1. Len(q) \in Nat /\ Len(q) # 0
  OBVIOUS
<1>2. /\ Tail(q) \in Seq(S) /\ Len(Tail(q)) = Len(q) - 1
      /\ Head(q) = q[1] /\ q[1] \in S
  BY <1>1
<1>3. ASSUME Tail(q) # <<>> PROVE Tail(q)[Len(Tail(q))] = q[Len(q)]
  <2>1. Len(Tail(q)) # 0
    BY <1>2, <1>3
  <2>2. Len(q) - 1 \in 1..Len(Tail(q))
    BY <1>1, <1>2, <2>1
  <2>3. Tail(q)[Len(q) - 1] = q[Len(q)]
    BY <1>1, <2>2
  <2>4. QED
    BY <1>2, <2>3
<1>4. ASSUME Tail(q) = <<>> PROVE Head(q) = q[Len(q)]
  <2>1. Len(q) = 1
    BY <1>1, <1>2, <1>4
  <2>2. QED
    BY <1>2, <2>1
<1>5. QED
  BY <1>2, <1>3, <1>4

\* The newest message is in the history, which stays within its depth.
LEMMA KeepLastKeeps ==
  ASSUME NEW S, NEW q \in Seq(S), NEW x \in S,
         CorrectionDepth \in Nat \ {0}, Len(q) <= CorrectionDepth
  PROVE  /\ KeepLast(q, x) \in Seq(S)
         /\ Len(KeepLast(q, x)) <= CorrectionDepth
         /\ KeepLast(q, x) # <<>>
         /\ KeepLast(q, x)[Len(KeepLast(q, x))] = x
<1>1. CASE Len(q) < CorrectionDepth
  BY <1>1 DEF KeepLast
<1>2. CASE ~(Len(q) < CorrectionDepth)
  <2>1. Tail(q) \in Seq(S) /\ Len(Tail(q)) = Len(q) - 1
    <3>1. q # <<>>
      BY <1>2
    <3>2. QED
      BY <3>1, TailOfSequence
  <2>2. QED
    BY <1>2, <2>1 DEF KeepLast
<1>3. QED
  BY <1>1, <1>2

\* The same for a correction sent.
LEMMA CorrectionKept ==
  ASSUME LocalizationTypeOK, matcherOrigin \in 1..MaxPoses
  PROVE  /\ KeepLast(corrections, matcherOrigin) \in Seq(1..MaxPoses)
         /\ Len(KeepLast(corrections, matcherOrigin)) <= CorrectionDepth
         /\ KeepLast(corrections, matcherOrigin) # <<>>
         /\ KeepLast(corrections, matcherOrigin)[Len(KeepLast(corrections, matcherOrigin))] = matcherOrigin
<1>1. /\ corrections \in Seq(1..MaxPoses) /\ Len(corrections) <= CorrectionDepth
      /\ CorrectionDepth \in Nat \ {0}
  BY LocalizationAssumption DEF LocalizationTypeOK
<1> DEFINE S == 1..MaxPoses
<1>2. corrections \in Seq(S) /\ matcherOrigin \in S
  BY <1>1
<1> HIDE DEF S
<1>3. /\ KeepLast(corrections, matcherOrigin) \in Seq(S)
      /\ Len(KeepLast(corrections, matcherOrigin)) <= CorrectionDepth
      /\ KeepLast(corrections, matcherOrigin) # <<>>
      /\ KeepLast(corrections, matcherOrigin)[Len(KeepLast(corrections, matcherOrigin))] = matcherOrigin
  BY <1>1, <1>2, KeepLastKeeps
<1>4. QED
  BY <1>3 DEF S

-----------------------------------------------------------------------------
(* Types *)

LEMMA EmptyQueue ==
  /\ <<>> \in Seq(PoseMessage) /\ <<>> \in Seq(1..MaxPoses)
  /\ Len(<<>>) <= CorrectionDepth
  /\ 0 \in 0..MaxPoses /\ 0 \in 0..MaxRestarts
  BY LocalizationAssumption

LEMMA LocalizationTypeInit == LocalizationInit => LocalizationTypeOK
  BY EmptyQueue
     DEF LocalizationInit, LocalizationTypeOK, AnchorFresh, MatcherFresh, TrackingState, AnchorSource

\* The steps of the anchor.
LEMMA AnchorTypeStep ==
  ASSUME LocalizationTypeOK,
         AnchorTakesPose \/ AnchorAskedToRelocalize \/ AnchorTakesCorrection
           \/ AnchorLocalStep \/ AnchorTimer \/ AnchorRestart
  PROVE  LocalizationTypeOK'
<1> USE DEF LocalizationTypeOK, TrackingState, AnchorSource, trackingVars, anchorVars,
            matcherVars, topicVars
<1>1. CASE AnchorTakesPose
  <2>1. /\ Head(poseToAnchor) \in PoseMessage
        /\ Tail(poseToAnchor) \in Seq(PoseMessage)
    BY <1>1, TailOfSequence DEF AnchorTakesPose
  <2>2. Head(poseToAnchor).id \in 0..MaxPoses
    BY <2>1, LocalizationAssumption DEF PoseMessage
  <2>3. QED
    BY <1>1, <2>1, <2>2 DEF AnchorTakesPose, InitialposeCallback, SetProvisionalAnchor
<1>2. CASE AnchorAskedToRelocalize
  BY <1>2 DEF AnchorAskedToRelocalize, RelocalizationRequestCallback, RequestRelocalization
<1>3. CASE AnchorTakesCorrection
  <2>1. /\ Head(corrections) \in 1..MaxPoses
        /\ Tail(corrections) \in Seq(1..MaxPoses)
        /\ Len(Tail(corrections)) = Len(corrections) - 1
    BY <1>3, TailOfSequence DEF AnchorTakesCorrection
  <2>2. Len(Tail(corrections)) <= CorrectionDepth
    BY <2>1, LocalizationAssumption
  <2>3. Head(corrections) \in 0..MaxPoses
    BY <2>1, LocalizationAssumption
  <2>4. QED
    BY <1>3, <2>1, <2>2, <2>3 DEF AnchorTakesCorrection, CorrectionCallback, AcceptAnchor
<1>4. CASE AnchorLocalStep
  BY <1>4 DEF AnchorLocalStep, OdomCallback, OdomSilence, PoseValidCallback
<1>5. CASE AnchorTimer
  BY <1>5 DEF AnchorTimer, PublishAnchorStatus, Update
<1>6. CASE AnchorRestart
  <2>1. restarts + 1 \in 0..MaxRestarts
    BY <1>6, LocalizationAssumption DEF AnchorRestart
  <2>2. QED
    BY <1>6, <2>1, EmptyQueue DEF AnchorRestart
<1>7. QED
  BY <1>1, <1>2, <1>3, <1>4, <1>5, <1>6

\* The steps of the matcher and of the operator.
LEMMA MatcherTypeStep ==
  ASSUME LocalizationTypeOK,
         \/ \E r \in {"unit", "zero"} : OperatorPose(r)
         \/ MatcherTakesPose \/ MatcherLocalStep \/ MatcherCorrects \/ MatcherRestart
  PROVE  LocalizationTypeOK'
<1> USE DEF LocalizationTypeOK, TrackingState, AnchorSource, trackingVars, anchorVars,
            matcherVars, topicVars
<1>1. ASSUME NEW r \in {"unit", "zero"}, OperatorPose(r) PROVE LocalizationTypeOK'
  <2>1. [id |-> posesSent + 1, rotation |-> r] \in PoseMessage /\ posesSent + 1 \in 0..MaxPoses
    BY <1>1, LocalizationAssumption DEF OperatorPose, PoseMessage
  <2>2. QED
    BY <1>1, <2>1 DEF OperatorPose
<1>2. CASE MatcherTakesPose
  <2>1. /\ Head(poseToMatcher) \in PoseMessage
        /\ Tail(poseToMatcher) \in Seq(PoseMessage)
    BY <1>2, TailOfSequence DEF MatcherTakesPose
  <2>2. Head(poseToMatcher).id \in 0..MaxPoses
    BY <2>1, LocalizationAssumption DEF PoseMessage
  <2>3. unconfirmed' \in BOOLEAN
    BY <1>2, Zenon DEF MatcherTakesPose
  <2>4. matcherOrigin' \in 0..MaxPoses /\ pendingPose' \in 0..MaxPoses
    BY <1>2, <2>2, EmptyQueue DEF MatcherTakesPose, MatcherInitialposeCallback, TrySetAnchor
  <2>5. QED
    BY <1>2, <2>1, <2>3, <2>4 DEF MatcherTakesPose, MatcherInitialposeCallback
<1>3. CASE MatcherLocalStep
  <2>1. unconfirmed' \in BOOLEAN
    BY <1>3, Zenon DEF MatcherLocalStep
  <2>2. matcherOrigin' \in 0..MaxPoses /\ pendingPose' \in 0..MaxPoses
    BY <1>3, EmptyQueue DEF MatcherLocalStep, MatcherOdomCallback, MatcherOdomSilence, TrySetAnchor
  <2>3. QED
    BY <1>3, <2>1, <2>2 DEF MatcherLocalStep, MatcherOdomCallback, MatcherOdomSilence
<1>4. CASE MatcherCorrects
  <2>1. matcherOrigin \in 1..MaxPoses
    BY <1>4, LocalizationAssumption DEF MatcherCorrects, ScanAccepted, MatchesScans
  <2>2. /\ KeepLast(corrections, matcherOrigin) \in Seq(1..MaxPoses)
        /\ Len(KeepLast(corrections, matcherOrigin)) <= CorrectionDepth
    BY <2>1, CorrectionKept
  <2>3. /\ corrections' = KeepLast(corrections, matcherOrigin) /\ unconfirmed' \in BOOLEAN
        /\ UNCHANGED <<anchorVars, matcherVars, posesSent, poseToAnchor, poseToMatcher, restarts, doubted>>
    BY <1>4 DEF MatcherCorrects, ScanAccepted
  <2>4. corrections' \in Seq(1..MaxPoses) /\ Len(corrections') <= CorrectionDepth
    BY <2>2, <2>3
  <2>5. QED
    BY <2>3, <2>4
<1>5. CASE MatcherRestart
  <2>1. restarts + 1 \in 0..MaxRestarts
    BY <1>5, LocalizationAssumption DEF MatcherRestart
  <2>2. QED
    BY <1>5, <2>1, EmptyQueue DEF MatcherRestart
<1>6. QED
  BY <1>1, <1>2, <1>3, <1>4, <1>5

\* The two nodes and their topics keep their types, and the correction topic its
\* depth, in every reachable state.
THEOREM LocalizationTypeCorrect == LocalizationSpec => []LocalizationTypeOK
<1>1. LocalizationInit => LocalizationTypeOK
  BY LocalizationTypeInit
<1>2. LocalizationTypeOK /\ [LocalizationNext]_localizationVars => LocalizationTypeOK'
  <2>1. ASSUME LocalizationTypeOK, UNCHANGED localizationVars PROVE LocalizationTypeOK'
    BY <2>1 DEF LocalizationTypeOK, localizationVars, anchorVars, trackingVars, matcherVars, topicVars
  <2>2. QED
    BY <2>1, AnchorTypeStep, MatcherTypeStep DEF LocalizationNext
<1>3. QED
  BY <1>1, <1>2, PTL DEF LocalizationSpec

-----------------------------------------------------------------------------
(* The lock *)

\* What TRACKING, now or after the next tick of the timer, rests on.
AnchorIsVerified == verified /\ ~requested

TrackingIsVerified == trackingState = "TRACKING" => AnchorIsVerified

VerifiedIsConfirmed ==
  AnchorIsVerified => ~doubted /\ mapToOdom # 0 /\ anchorSource = "external_correction"

\* DisagreementIsTransient, for an anchor that may be LOST for the moment.
VerifiedIsTransient ==
  AnchorIsVerified /\ mapToOdom # matcherOrigin => unconfirmed \/ corrections # <<>>

LockInv ==
  TrackingIsVerified /\ VerifiedIsConfirmed /\ VerifiedIsTransient /\ NewestCorrectionCounts

\* The steps of the anchor.
LEMMA AnchorLockStep ==
  ASSUME LocalizationTypeOK, LockInv,
         AnchorTakesPose \/ AnchorAskedToRelocalize \/ AnchorTakesCorrection
           \/ AnchorLocalStep \/ AnchorTimer \/ AnchorRestart
  PROVE  LockInv'
<1> USE DEF LockInv, TrackingIsVerified, VerifiedIsConfirmed, VerifiedIsTransient,
            NewestCorrectionCounts, AnchorIsVerified, anchorVars, trackingVars, matcherVars, topicVars
<1>1. CASE AnchorTakesPose
  <2>1. CASE UNCHANGED anchorVars
    <3>1. doubted => doubted'
      BY <1>1 DEF AnchorTakesPose
    <3>2. ~doubted => ~doubted'
      BY <1>1, <2>1, Zenon DEF AnchorTakesPose
    <3>3. QED
      BY <1>1, <2>1, <3>1, <3>2 DEF AnchorTakesPose
  <2>2. CASE SetProvisionalAnchor
    BY <1>1, <2>2 DEF AnchorTakesPose, SetProvisionalAnchor
  <2>3. QED
    BY <1>1, <2>1, <2>2 DEF AnchorTakesPose, InitialposeCallback
<1>2. CASE AnchorAskedToRelocalize
  BY <1>2 DEF AnchorAskedToRelocalize, RelocalizationRequestCallback, RequestRelocalization
<1>3. CASE AnchorTakesCorrection
  <2>1. /\ Head(corrections) \in 1..MaxPoses
        /\ Tail(corrections) # <<>> =>
             Tail(corrections)[Len(Tail(corrections))] = corrections[Len(corrections)]
        /\ Tail(corrections) = <<>> => Head(corrections) = corrections[Len(corrections)]
    BY <1>3, TailOfSequence DEF AnchorTakesCorrection, LocalizationTypeOK
  <2>2. /\ mapToOdom' = Head(corrections) /\ corrections' = Tail(corrections)
        /\ anchorSource' = "external_correction" /\ verified' /\ ~requested' /\ ~doubted'
        /\ corrections # <<>>
        /\ UNCHANGED <<matcherOrigin, unconfirmed>>
    BY <1>3 DEF AnchorTakesCorrection, CorrectionCallback, AcceptAnchor
  <2>3. Head(corrections) # 0
    BY <2>1, LocalizationAssumption
  <2>4. QED
    BY <2>1, <2>2, <2>3
<1>4. CASE AnchorLocalStep
  BY <1>4 DEF AnchorLocalStep, OdomCallback, OdomSilence, PoseValidCallback
<1>5. CASE AnchorTimer
  BY <1>5 DEF AnchorTimer, PublishAnchorStatus, Update
<1>6. CASE AnchorRestart
  BY <1>6 DEF AnchorRestart
<1>7. QED
  BY <1>1, <1>2, <1>3, <1>4, <1>5, <1>6

\* The steps of the matcher and of the operator: an anchor it takes is
\* unconfirmed, and a correction it sends is the newest.
LEMMA MatcherLockStep ==
  ASSUME LocalizationTypeOK, LockInv,
         \/ \E r \in {"unit", "zero"} : OperatorPose(r)
         \/ MatcherTakesPose \/ MatcherLocalStep \/ MatcherCorrects \/ MatcherRestart
  PROVE  LockInv'
<1> USE DEF LockInv, TrackingIsVerified, VerifiedIsConfirmed, VerifiedIsTransient,
            NewestCorrectionCounts, AnchorIsVerified, anchorVars, trackingVars, matcherVars, topicVars
<1>1. ASSUME NEW r \in {"unit", "zero"}, OperatorPose(r) PROVE LockInv'
  BY <1>1 DEF OperatorPose
<1>2. CASE MatcherTakesPose \/ MatcherLocalStep
  <2>1. /\ unconfirmed => unconfirmed'
        /\ matcherOrigin' # matcherOrigin => unconfirmed'
    BY <1>2 DEF MatcherTakesPose, MatcherLocalStep
  <2>2. UNCHANGED <<trackingState, verified, requested, mapToOdom, anchorSource, doubted, corrections>>
    BY <1>2 DEF MatcherTakesPose, MatcherLocalStep
  <2>3. QED
    BY <2>1, <2>2
<1>3. CASE MatcherCorrects
  <2>1. matcherOrigin \in 1..MaxPoses
    BY <1>3, LocalizationAssumption DEF MatcherCorrects, ScanAccepted, MatchesScans, LocalizationTypeOK
  <2>2. /\ KeepLast(corrections, matcherOrigin) # <<>>
        /\ KeepLast(corrections, matcherOrigin)[Len(KeepLast(corrections, matcherOrigin))] = matcherOrigin
    BY <2>1, CorrectionKept
  <2>3. QED
    BY <1>3, <2>2 DEF MatcherCorrects, ScanAccepted
<1>4. CASE MatcherRestart
  BY <1>4 DEF MatcherRestart
<1>5. QED
  BY <1>1, <1>2, <1>3, <1>4

LEMMA LockHolds == LocalizationSpec => []LockInv
<1> USE DEF LockInv, TrackingIsVerified, VerifiedIsConfirmed, VerifiedIsTransient,
            NewestCorrectionCounts, AnchorIsVerified
<1>1. LocalizationInit => LockInv
  BY DEF LocalizationInit, AnchorFresh
<1>2. LocalizationTypeOK /\ LockInv /\ [LocalizationNext]_localizationVars => LockInv'
  <2>1. ASSUME LockInv, UNCHANGED localizationVars PROVE LockInv'
    BY <2>1 DEF localizationVars, anchorVars, trackingVars, matcherVars, topicVars
  <2>2. QED
    BY <2>1, AnchorLockStep, MatcherLockStep DEF LocalizationNext
<1>3. QED
  BY <1>1, <1>2, LocalizationTypeCorrect, PTL DEF LocalizationSpec

\* The map counts as locked only on an anchor a correction confirmed after the
\* last reason to doubt it, in every interleaving and over restarts.
THEOREM LockIsAlwaysConfirmed == LocalizationSpec => []LockIsConfirmed
<1>1. LockInv => LockIsConfirmed
  BY DEF LockInv, TrackingIsVerified, VerifiedIsConfirmed, LockIsConfirmed
<1>2. QED
  BY <1>1, LockHolds, PTL

\* While the anchor tracks, the two nodes never disagree without a correction
\* on its way or the matcher still to fit its first scan.
THEOREM DisagreementNeverStays == LocalizationSpec => []DisagreementIsTransient
<1>1. LockInv => DisagreementIsTransient
  BY DEF LockInv, TrackingIsVerified, VerifiedIsTransient, DisagreementIsTransient
<1>2. QED
  BY <1>1, LockHolds, PTL

\* The correction that reaches the anchor last is the anchor of a matcher that
\* confirmed it, however many the topic dropped before.
THEOREM NewestAlwaysCounts == LocalizationSpec => []NewestCorrectionCounts
<1>1. LockInv => NewestCorrectionCounts
  BY DEF LockInv
<1>2. QED
  BY <1>1, LockHolds, PTL
=============================================================================
