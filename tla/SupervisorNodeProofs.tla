------------------------ MODULE SupervisorNodeProofs ------------------------
(***************************************************************************)
(* Theorems about SupervisorNode, for every choice of the constants.       *)
(***************************************************************************)
EXTENDS SupervisorNode, WellFoundedInduction, TLAPS

-----------------------------------------------------------------------------
(* The core: what its operators write *)

\* Every operator of the match core writes a supervisor state and a task state.
LEMMA CoreOperations ==
  ASSUME CoreTypeOK,
         \/ Preflight(preflightReady) \/ Start \/ Pause \/ Resume
         \/ EnterRecovery \/ Finish \/ EmergencyStop
         \/ SetReceiverReady \/ ArmPass \/ ConfirmPassExecuted \/ ConfirmReceipt
         \/ \E a \in ActionNames, r \in BOOLEAN : ApplyActionSuccess(a, r)
         \/ \E A \in SUBSET ActionNames : HandleActionFailures(A)
         \/ MonitorSafety(RuntimeHealthy)
         \/ UNCHANGED coreVars
  PROVE  CoreTypeOK'
<1> USE DEF CoreTypeOK, SupervisorState, RobotTaskState
<1>1. CASE \/ Preflight(preflightReady) \/ Start \/ Pause \/ Resume
           \/ EnterRecovery \/ Finish \/ EmergencyStop
  BY <1>1 DEF Preflight, Start, Pause, Resume, EnterRecovery, Finish, EmergencyStop
<1>2. CASE SetReceiverReady \/ ArmPass \/ ConfirmPassExecuted \/ ConfirmReceipt
  BY <1>2 DEF SetReceiverReady, ArmPass, ConfirmPassExecuted, ConfirmReceipt, Confirm
<1>3. ASSUME NEW a \in ActionNames, NEW r \in BOOLEAN, ApplyActionSuccess(a, r)
      PROVE  CoreTypeOK'
  BY <1>3 DEF ApplyActionSuccess, SetReceiverReady, ArmPass, ConfirmPassExecuted,
              ConfirmReceipt, Confirm, ShotConfirmed, AbortConfirmed, EmergencyStop, coreVars
<1>4. ASSUME NEW A \in SUBSET ActionNames, HandleActionFailures(A) PROVE CoreTypeOK'
  BY <1>4 DEF HandleActionFailures
<1>5. CASE MonitorSafety(RuntimeHealthy)
  BY <1>5 DEF MonitorSafety, EnterRecovery
<1>6. CASE UNCHANGED coreVars
  BY <1>6 DEF coreVars
<1>7. QED
  BY <1>1, <1>2, <1>3, <1>4, <1>5, <1>6

-----------------------------------------------------------------------------
(* The books: what publishing, resolving and expiring leave behind *)

\* A bounded non-empty set of numbers has a greatest element.
LEMMA GreatestExists ==
  ASSUME NEW n \in Nat, NEW S \in SUBSET (0..n), S # {}
  PROVE  \E m \in S : \A j \in S : j <= m
<1> DEFINE D == {n - i : i \in S}
<1>1. D \subseteq Nat
  <2>1. ASSUME NEW i \in S PROVE n - i \in Nat
    <3>1. i \in 0..n
      OBVIOUS
    <3>2. QED
      BY <3>1
  <2>2. QED
    BY <2>1
<1>2. PICK d \in D : \A k \in D : d <= k
  <2> DEFINE R == OpToRel(<, Nat)
  <2>1. D # {}
    OBVIOUS
  <2>2. IsWellFoundedOn(R, Nat)
    BY NatLessThanWellFounded
  <2>3. \E x \in D : \A y \in D : ~ (<<y, x>> \in R)
    <3> HIDE DEF D, R
    <3>1. QED
      BY <1>1, <2>1, <2>2, WFMin
  <2>4. ASSUME NEW x \in D, NEW y \in D, ~ (<<y, x>> \in R) PROVE x <= y
    <3>1. x \in Nat /\ y \in Nat
      BY <1>1
    <3>2. ~ (y < x)
      BY <2>4, <3>1 DEF OpToRel
    <3>3. QED
      BY <3>1, <3>2
  <2>5. QED
    BY <2>3, <2>4
<1>3. PICK m \in S : d = n - m
  OBVIOUS
<1>4. ASSUME NEW j \in S PROVE j <= m
  <2>1. j \in Nat /\ m \in Nat
    OBVIOUS
  <2>2. n - j \in D
    OBVIOUS
  <2>3. n - m <= n - j
    BY <1>2, <1>3, <2>2
  <2>4. QED
    <3> HIDE DEF D
    <3>1. QED
      BY <2>1, <2>3
<1>5. QED
  BY <1>4

LEMMA PublishBooks ==
  ASSUME BooksTypeOK, NEW a \in ActionNames, Len(requests) < MaxActions,
         PublishActionRequest(a)
  PROVE  BooksTypeOK'
<1> USE DEF BooksTypeOK, PublishActionRequest
<1> DEFINE r == [action |-> a, status |-> "published"]
<1>1. r \in RequestRecord
  BY DEF RequestRecord, Open
<1>2. requests' \in Seq(RequestRecord) /\ Len(requests') = Len(requests) + 1
  BY <1>1
<1>3. Len(requests) \in Nat /\ MaxActions \in Nat
  BY SupervisorAssumption DEF SupervisorAssumption
<1>4. 0..Len(requests) \subseteq 0..Len(requests')
  BY <1>2, <1>3
<1>5. elapsed' \in 0..Len(requests') /\ completed' \in [ActionNames -> 0..Len(requests')]
  BY <1>4
<1>6. pending' \subseteq 1..Len(requests')
  <2>1. 1..Len(requests) \subseteq 1..Len(requests')
    BY <1>2, <1>3
  <2>2. Len(requests) + 1 \in 1..Len(requests')
    BY <1>2, <1>3
  <2>3. QED
    BY <2>1, <2>2
<1>7. Len(requests') <= MaxActions
  BY <1>2, <1>3
<1>8. QED
  BY <1>2, <1>5, <1>6, <1>7

LEMMA ResolveBooks ==
  ASSUME BooksTypeOK, NEW id \in pending, NEW s \in Resolved, Resolve(id, s)
  PROVE  BooksTypeOK'
<1> USE DEF BooksTypeOK, Resolve
<1>1. Len(requests) \in Nat /\ id \in 1..Len(requests)
  OBVIOUS
<1>2. requests[id] \in RequestRecord
  BY <1>1
<1>3. [requests[id] EXCEPT !.status = s] \in RequestRecord
  BY <1>2 DEF RequestRecord
<1>4. requests' \in Seq(RequestRecord) /\ Len(requests') = Len(requests)
  BY <1>1, <1>3
<1>5. completed' \in [ActionNames -> 0..Len(requests)]
  BY <1>1, <1>2 DEF RequestRecord
<1>6. QED
  BY <1>4, <1>5

LEMMA ProgressBooks ==
  ASSUME BooksTypeOK, NEW fb, ActionProgress(fb)
  PROVE  BooksTypeOK'
<1> USE DEF BooksTypeOK, ActionProgress, MatchesPending
<1>1. Len(requests) \in Nat /\ fb.id \in 1..Len(requests)
  OBVIOUS
<1>2. requests[fb.id] \in RequestRecord
  BY <1>1
<1>3. [requests[fb.id] EXCEPT !.status = "working"] \in RequestRecord
  BY <1>2 DEF RequestRecord, Open
<1>4. requests' \in Seq(RequestRecord) /\ Len(requests') = Len(requests)
  BY <1>1, <1>3
<1>5. QED
  BY <1>4

LEMMA ExpireBooks ==
  ASSUME BooksTypeOK, ExpireActions
  PROVE  BooksTypeOK' /\ {requests[i].action : i \in Overdue} \in SUBSET ActionNames
<1> USE DEF BooksTypeOK, ExpireActions, Overdue
<1>1. Len(requests) \in Nat /\ DOMAIN requests = 1..Len(requests)
  OBVIOUS
<1>2. ASSUME NEW i \in DOMAIN requests PROVE requests[i] \in RequestRecord
  BY <1>1
<1>3. ASSUME NEW i \in DOMAIN requests
      PROVE  [requests[i] EXCEPT !.status = "expired"] \in RequestRecord
  <2>1. requests[i] \in RequestRecord
    BY <1>2
  <2>2. QED
    BY <2>1 DEF RequestRecord, Resolved
<1>4. requests' \in [1..Len(requests) -> RequestRecord]
  BY <1>1, <1>2, <1>3
<1>5. requests' \in Seq(RequestRecord) /\ Len(requests') = Len(requests)
  BY <1>1, <1>4
<1>6. Overdue \subseteq 1..Len(requests)
  OBVIOUS
<1>7. completed' \in [ActionNames -> 0..Len(requests)]
  <2> DEFINE mine(a) == {i \in Overdue : requests[i].action = a}
  <2>1. ASSUME NEW a \in ActionNames, mine(a) # {}
        PROVE  (CHOOSE i \in mine(a) : \A j \in mine(a) : j <= i) \in 0..Len(requests)
    <3>1. mine(a) \in SUBSET (0..Len(requests))
      BY <1>1, <1>6
    <3>2. \E m \in mine(a) : \A j \in mine(a) : j <= m
      BY <1>1, <2>1, <3>1, GreatestExists
    <3>3. (CHOOSE i \in mine(a) : \A j \in mine(a) : j <= i) \in mine(a)
      BY <3>2
    <3>4. QED
      BY <3>1, <3>3
  <2>2. QED
    BY <2>1
<1>8. ASSUME NEW i \in Overdue PROVE requests[i].action \in ActionNames
  <2>1. requests[i] \in RequestRecord
    BY <1>1, <1>2, <1>6
  <2>2. QED
    BY <2>1 DEF RequestRecord
<1>9. /\ Len(requests') <= MaxActions
      /\ pending' \subseteq 1..Len(requests')
      /\ elapsed' \in 0..Len(requests')
  BY <1>1, <1>5
<1>10. QED
  <2>1. BooksTypeOK'
    BY <1>5, <1>7, <1>9
  <2> HIDE DEF BooksTypeOK, ExpireActions, Overdue
  <2>2. QED
    BY <1>8, <2>1

-----------------------------------------------------------------------------
(* Type correctness *)

LEMMA NodeTypeInit == NodeInit => NodeTypeOK
<1> SUFFICES ASSUME NodeInit PROVE NodeTypeOK
  OBVIOUS
<1> USE DEF NodeInit, FreshInit
<1>1. CoreTypeOK
  BY DEF CoreInit, CoreTypeOK, SupervisorState, RobotTaskState
<1>2. SignalTypeOK
  BY DEF SignalTypeOK
<1>3. BooksTypeOK
  BY SupervisorAssumption DEF BooksTypeOK, SupervisorAssumption
<1>4. boots \in 0..MaxBoots
  BY SupervisorAssumption DEF SupervisorAssumption
<1>5. QED
  BY <1>1, <1>2, <1>3, <1>4 DEF NodeTypeOK

\* Whatever a step does to the core is one of its operators or nothing.
LEMMA SignalStepType == ASSUME NodeTypeOK, SignalStep PROVE NodeTypeOK'
<1>1. UNCHANGED <<coreVars, actionVars, boots>>
  BY DEF SignalStep, BoolCallback, PreflightReadyCallback, PoseDiagnosticCallback, Age
<1>2. CoreTypeOK' /\ BooksTypeOK' /\ boots' \in 0..MaxBoots
  BY <1>1 DEF NodeTypeOK, CoreTypeOK, BooksTypeOK, coreVars, actionVars
<1>3. SignalTypeOK'
  BY DEF NodeTypeOK, SignalTypeOK, SignalStep, BoolCallback, PreflightReadyCallback,
         PoseDiagnosticCallback, Age
<1>4. QED
  BY <1>2, <1>3 DEF NodeTypeOK

\* A callback that leaves the signals, the books and the process alone.
LEMMA CoreOnlyType ==
  ASSUME NodeTypeOK, CoreTypeOK', NodeUnchanged
  PROVE  NodeTypeOK'
  BY DEF NodeTypeOK, SignalTypeOK, BooksTypeOK, NodeUnchanged, signalVars, actionVars

LEMMA CommandActionType ==
  ASSUME NodeTypeOK, NEW a \in ActionNames, CommandAction(a)
  PROVE  NodeTypeOK'
<1>1. CoreTypeOK'
  <2>1. EmergencyStop \/ EnterRecovery \/ UNCHANGED coreVars
    BY DEF CommandAction
  <2>2. QED
    BY <2>1, CoreOperations DEF NodeTypeOK
<1>2. BooksTypeOK'
  BY PublishBooks DEF CommandAction, NodeTypeOK
<1>3. SignalTypeOK' /\ boots' \in 0..MaxBoots
  BY DEF CommandAction, NodeTypeOK, SignalTypeOK, signalVars
<1>4. QED
  BY <1>1, <1>2, <1>3 DEF NodeTypeOK

LEMMA FeedbackType ==
  ASSUME NodeTypeOK, NEW fb, fb.receipt \in BOOLEAN, ActionFeedbackCallback(fb)
  PROVE  NodeTypeOK'
<1>1. ASSUME MatchesPending(fb) PROVE fb.id \in pending /\ fb.action \in ActionNames
  <2>1. fb.id \in pending /\ fb.action = requests[fb.id].action
    BY <1>1 DEF MatchesPending
  <2>2. fb.id \in 1..Len(requests) /\ requests \in Seq(RequestRecord)
    BY <2>1 DEF NodeTypeOK, BooksTypeOK
  <2>3. requests[fb.id] \in RequestRecord
    BY <2>2
  <2>4. QED
    BY <2>1, <2>3 DEF RequestRecord
<1>2. CASE ActionProgress(fb)
  <2>1. BooksTypeOK'
    BY <1>2, ProgressBooks DEF NodeTypeOK
  <2>2. QED
    BY <1>2, <2>1 DEF ActionProgress, NodeTypeOK, CoreTypeOK, SignalTypeOK, coreVars, signalVars
<1>3. CASE ActionSucceeded(fb)
  <2>1. BooksTypeOK'
    BY <1>1, <1>3, ResolveBooks DEF ActionSucceeded, NodeTypeOK, Resolved
  <2>2. CoreTypeOK'
    BY <1>1, <1>3, CoreOperations DEF ActionSucceeded, NodeTypeOK
  <2>3. QED
    BY <1>3, <2>1, <2>2 DEF ActionSucceeded, NodeTypeOK, SignalTypeOK, signalVars
<1>4. CASE ActionFailed(fb)
  <2>1. BooksTypeOK'
    BY <1>1, <1>4, ResolveBooks DEF ActionFailed, NodeTypeOK, Resolved
  <2>2. {fb.action} \in SUBSET ActionNames
    BY <1>1, <1>4 DEF ActionFailed
  <2>3. CoreTypeOK'
    BY <1>4, <2>2, CoreOperations DEF ActionFailed, NodeTypeOK
  <2>4. QED
    BY <1>4, <2>1, <2>3 DEF ActionFailed, NodeTypeOK, SignalTypeOK, signalVars
<1>5. CASE FeedbackRejected(fb)
  BY <1>5 DEF FeedbackRejected, nodeVars, NodeTypeOK, CoreTypeOK, SignalTypeOK, BooksTypeOK,
              coreVars, signalVars, actionVars
<1>6. QED
  BY <1>2, <1>3, <1>4, <1>5 DEF ActionFeedbackCallback

LEMMA TimerType ==
  ASSUME NodeTypeOK, TimerStep \/ Elapse
  PROVE  NodeTypeOK'
<1>1. CASE ExpireActions
  <2> DEFINE A == {requests[i].action : i \in Overdue}
  <2>1. BooksTypeOK' /\ A \in SUBSET ActionNames
    BY <1>1, ExpireBooks DEF NodeTypeOK
  <2>2. HandleActionFailures(A)
    BY <1>1 DEF ExpireActions
  <2>3. CoreTypeOK'
    <3> HIDE DEF A
    <3>1. QED
      BY <2>1, <2>2, CoreOperations DEF NodeTypeOK
  <2>4. QED
    BY <1>1, <2>1, <2>3 DEF ExpireActions, NodeTypeOK, SignalTypeOK, signalVars
<1>2. CASE MonitorSafetyTimer
  <2>1. CoreTypeOK' /\ NodeUnchanged
    BY <1>2, CoreOperations DEF MonitorSafetyTimer, NodeTypeOK, NodeUnchanged
  <2>2. QED
    BY <2>1, CoreOnlyType
<1>3. CASE Elapse
  BY <1>3 DEF Elapse, NodeTypeOK, CoreTypeOK, SignalTypeOK, BooksTypeOK, coreVars, signalVars
<1>4. QED
  BY <1>1, <1>2, <1>3 DEF TimerStep

LEMMA RestartType == ASSUME NodeTypeOK, Restart PROVE NodeTypeOK'
<1> USE SupervisorAssumption DEF SupervisorAssumption
<1>1. CoreTypeOK' /\ SignalTypeOK'
  BY DEF Restart, CoreTypeOK, SupervisorState, RobotTaskState, SignalTypeOK
<1>2. BooksTypeOK'
  BY DEF Restart, BooksTypeOK
<1>3. boots' \in 0..MaxBoots
  BY DEF Restart, NodeTypeOK
<1>4. QED
  BY <1>1, <1>2, <1>3 DEF NodeTypeOK

LEMMA NodeTypeStep == ASSUME NodeTypeOK, [NodeNext]_nodeVars PROVE NodeTypeOK'
<1>1. CASE SignalStep
  BY <1>1, SignalStepType
<1>2. ASSUME NEW t \in PeerEvidence, TeamEvidence(t) PROVE NodeTypeOK'
  <2>1. CoreTypeOK' /\ NodeUnchanged
    BY <1>2, CoreOperations DEF TeamEvidence, NodeUnchanged, NodeTypeOK
  <2>2. QED
    BY <2>1, CoreOnlyType
<1>3. CASE \/ CommandPreflight \/ CommandStart \/ CommandPause \/ CommandResume
           \/ CommandRecover \/ CommandFinish \/ CommandEstop
  <2>1. CoreTypeOK' /\ NodeUnchanged
    BY <1>3, CoreOperations
       DEF CommandPreflight, CommandStart, CommandPause, CommandResume, CommandRecover,
           CommandFinish, CommandEstop, NodeTypeOK
  <2>2. QED
    BY <2>1, CoreOnlyType
<1>4. ASSUME NEW a \in Actions, CommandAction(a) PROVE NodeTypeOK'
  BY <1>4, CommandActionType, SupervisorAssumption DEF SupervisorAssumption
<1>5. CASE TimerStep \/ Elapse
  BY <1>5, TimerType
<1>6. CASE Restart
  BY <1>6, RestartType
<1>7. CASE SomeFeedback
  <2>1. PICK i \in DOMAIN requests, s \in {"working", "succeeded", "failed"}, r \in BOOLEAN :
          ActionFeedbackCallback([task |-> TaskId, id |-> i, action |-> requests[i].action,
                                  state |-> s, receipt |-> r])
    BY <1>7 DEF SomeFeedback
  <2>2. QED
    BY <2>1, FeedbackType
<1>8. CASE UNCHANGED nodeVars
  BY <1>8 DEF nodeVars, NodeTypeOK, CoreTypeOK, SignalTypeOK, BooksTypeOK,
              coreVars, signalVars, actionVars
<1>9. QED
  BY <1>1, <1>2, <1>3, <1>4, <1>5, <1>6, <1>7, <1>8 DEF NodeNext, LocalStep, OperatorStep

\* The node keeps its variables well formed: every request has a record, every
\* pending or completed entry names one, and the match core stays in its states.
THEOREM NodeTypeCorrect == NodeSpec => []NodeTypeOK
<1>1. QED
  BY NodeTypeInit, NodeTypeStep, PTL DEF NodeSpec

-----------------------------------------------------------------------------
(* The latched stop *)

\* The one operator that could leave ESTOP for another state does not.
LEMMA EstopSurvivesSuccess ==
  ASSUME state = "ESTOP", NEW a, NEW r, ApplyActionSuccess(a, r)
  PROVE  state' = "ESTOP"
  BY DEF ApplyActionSuccess, SetReceiverReady, ArmPass, ConfirmPassExecuted, ConfirmReceipt,
         Confirm, ShotConfirmed, AbortConfirmed, EmergencyStop, coreVars

LEMMA EstopSurvivesFailure ==
  ASSUME state = "ESTOP", NEW A, HandleActionFailures(A)
  PROVE  state' = "ESTOP"
  BY DEF HandleActionFailures

LEMMA EstopStep ==
  ASSUME state = "ESTOP", boots' = boots, boots \in Nat, [NodeNext]_nodeVars
  PROVE  state' = "ESTOP"
<1>1. CASE SignalStep \/ Elapse
  BY <1>1 DEF SignalStep, BoolCallback, PreflightReadyCallback, PoseDiagnosticCallback, Age,
              Elapse, coreVars
<1>2. ASSUME NEW t \in PeerEvidence, TeamEvidence(t) PROVE state' = "ESTOP"
  BY <1>2 DEF TeamEvidence, SetReceiverReady, ArmPass, ConfirmPassExecuted, ConfirmReceipt, Confirm
<1>3. CASE OperatorStep
  BY <1>3 DEF OperatorStep, CommandPreflight, Preflight, CommandStart, Start, CommandPause, Pause,
              CommandResume, Resume, CommandRecover, EnterRecovery, CommandFinish, Finish,
              CommandEstop, EmergencyStop, CommandAction, Require, coreVars
<1>4. CASE TimerStep
  <2>1. CASE ExpireActions
    BY <2>1, EstopSurvivesFailure DEF ExpireActions
  <2>2. QED
    BY <1>4, <2>1 DEF TimerStep, MonitorSafetyTimer, MonitorSafety
<1>5. CASE Restart
  BY <1>5 DEF Restart
<1>6. CASE SomeFeedback
  <2>1. PICK fb : ActionFeedbackCallback(fb)
    BY <1>6 DEF SomeFeedback
  <2>2. QED
    BY <2>1, EstopSurvivesSuccess, EstopSurvivesFailure
       DEF ActionFeedbackCallback, ActionProgress, ActionSucceeded, ActionFailed,
           FeedbackRejected, nodeVars, coreVars
<1>7. CASE UNCHANGED nodeVars
  BY <1>7 DEF nodeVars, coreVars
<1>8. QED
  BY <1>1, <1>2, <1>3, <1>4, <1>5, <1>6, <1>7 DEF NodeNext, LocalStep

\* A latched emergency stop outlives every message, timer and command, in every
\* order, until the process is restarted.
THEOREM EstopIsLatched == NodeSpec => EstopLatched
<1>1. ASSUME NodeTypeOK, [NodeNext]_nodeVars
      PROVE  [state = "ESTOP" /\ boots' = boots => state' = "ESTOP"]_nodeVars
  <2>1. boots \in Nat
    BY <1>1, SupervisorAssumption DEF NodeTypeOK, SupervisorAssumption
  <2>2. QED
    BY <1>1, <2>1, EstopStep
<1>2. QED
  BY <1>1, NodeTypeCorrect, PTL DEF NodeSpec, EstopLatched

-----------------------------------------------------------------------------
(* The books agree *)

\* BooksAgree, for one request and for one completed entry.
RequestAgrees(i) ==
  /\ i \in pending <=> requests[i].status \in Open
  /\ requests[i].status \in Resolved => completed[requests[i].action] # 0

EntryAgrees(a) ==
  completed[a] # 0 => /\ requests[completed[a]].action = a
                      /\ requests[completed[a]].status \in Resolved

LEMMA BooksByPart ==
  BooksAgree <=> (\A i \in DOMAIN requests : RequestAgrees(i)) /\ (\A a \in ActionNames : EntryAgrees(a))
  BY DEF BooksAgree, RequestAgrees, EntryAgrees

LEMMA StatusKinds == Open \cap Resolved = {}
  BY DEF Open, Resolved

LEMMA PublishAgrees ==
  ASSUME BooksTypeOK, BooksAgree, NEW a \in ActionNames, PublishActionRequest(a)
  PROVE  BooksAgree'
<1> DEFINE n == Len(requests)
<1>1. /\ n \in Nat
      /\ DOMAIN requests = 1..n
      /\ DOMAIN requests' = 1..(n + 1)
      /\ \A i \in 1..n : requests'[i] = requests[i]
      /\ requests'[n + 1] = [action |-> a, status |-> "published"]
      /\ completed' = completed
      /\ pending' = pending \cup {n + 1}
      /\ pending \subseteq 1..n
      /\ completed \in [ActionNames -> 0..n]
  BY DEF BooksTypeOK, PublishActionRequest
<1> HIDE DEF n
<1>2. ASSUME NEW i \in 1..n PROVE RequestAgrees(i)'
  BY <1>1, <1>2 DEF RequestAgrees, BooksAgree
<1>3. ASSUME NEW i, i = n + 1 PROVE RequestAgrees(i)'
  <2>1. i \in pending' /\ requests'[i].status = "published"
    BY <1>1, <1>3
  <2>2. QED
    BY <2>1 DEF RequestAgrees, Open, Resolved
<1>4. ASSUME NEW b \in ActionNames PROVE EntryAgrees(b)'
  BY <1>1, <1>4 DEF EntryAgrees, BooksAgree
<1>5. ASSUME NEW i \in DOMAIN requests' PROVE RequestAgrees(i)'
  <2>1. i \in 1..n \/ i = n + 1
    BY <1>1
  <2>2. QED
    BY <1>2, <1>3, <2>1
<1>6. QED
  BY <1>4, <1>5 DEF BooksAgree, RequestAgrees, EntryAgrees

\* Resolving request id with a terminal status; also each part of an expiry.
LEMMA ResolveAgrees ==
  ASSUME BooksTypeOK, BooksAgree, NEW id \in pending, NEW s \in Resolved, Resolve(id, s)
  PROVE  BooksAgree'
<1>1. /\ Len(requests) \in Nat
      /\ DOMAIN requests = 1..Len(requests)
      /\ DOMAIN requests' = DOMAIN requests
      /\ id \in DOMAIN requests
      /\ requests[id] \in RequestRecord
      /\ completed \in [ActionNames -> 0..Len(requests)]
      /\ requests' = [requests EXCEPT ![id].status = s]
      /\ pending' = pending \ {id}
      /\ completed' = [completed EXCEPT ![requests[id].action] = id]
  BY DEF BooksTypeOK, Resolve
<1>2. \A i \in DOMAIN requests :
        requests'[i] = IF i = id THEN [requests[i] EXCEPT !.status = s] ELSE requests[i]
  BY <1>1
<1>3. \A i \in DOMAIN requests : requests'[i].action = requests[i].action
  BY <1>1, <1>2 DEF RequestRecord
<1>4. requests'[id].status = s /\ id # 0 /\ requests[id].action \in ActionNames
  BY <1>1, <1>2 DEF RequestRecord
<1>5. ASSUME NEW i \in DOMAIN requests' PROVE RequestAgrees(i)'
  <2>1. CASE i = id
    BY <1>1, <1>3, <1>4, <2>1, StatusKinds DEF RequestAgrees
  <2>2. CASE i # id
    <3>1. requests'[i] = requests[i] /\ (i \in pending' <=> i \in pending)
      BY <1>1, <1>2, <2>2
    <3>2. RequestAgrees(i)
      BY <1>1, BooksByPart
    <3>3. requests[i].status \in Resolved => completed'[requests[i].action] # 0
      BY <1>1, <1>4, <3>2 DEF RequestAgrees
    <3>4. QED
      BY <3>1, <3>2, <3>3 DEF RequestAgrees
  <2>3. QED
    BY <2>1, <2>2
<1>6. ASSUME NEW a \in ActionNames PROVE EntryAgrees(a)'
  <2>1. CASE a = requests[id].action
    BY <1>1, <1>3, <1>4, <2>1 DEF EntryAgrees
  <2>2. CASE a # requests[id].action
    <3>1. completed'[a] = completed[a] /\ completed[a] \in 0..Len(requests)
      BY <1>1, <2>2
    <3>2. completed[a] # 0 => completed[a] # id /\ requests'[completed[a]] = requests[completed[a]]
      BY <1>1, <1>2, <2>2, <3>1, BooksByPart DEF EntryAgrees
    <3>3. QED
      BY <3>1, <3>2, BooksByPart DEF EntryAgrees
  <2>3. QED
    BY <2>1, <2>2
<1>7. QED
  BY <1>5, <1>6 DEF BooksAgree, RequestAgrees, EntryAgrees

LEMMA ProgressAgrees ==
  ASSUME BooksTypeOK, BooksAgree, NEW fb, ActionProgress(fb)
  PROVE  BooksAgree'
<1> DEFINE id == fb.id
<1>1. /\ DOMAIN requests = 1..Len(requests)
      /\ Len(requests) \in Nat
      /\ DOMAIN requests' = DOMAIN requests
      /\ fb.id \in pending
      /\ fb.id \in DOMAIN requests
      /\ requests[fb.id] \in RequestRecord
      /\ completed \in [ActionNames -> 0..Len(requests)]
      /\ requests' = [requests EXCEPT ![fb.id].status = "working"]
      /\ UNCHANGED <<pending, completed>>
  BY DEF BooksTypeOK, ActionProgress, MatchesPending
<1>2. \A i \in DOMAIN requests :
        requests'[i] = IF i = fb.id THEN [requests[i] EXCEPT !.status = "working"] ELSE requests[i]
  BY <1>1
<1>3. requests'[fb.id].status = "working" /\ requests[fb.id].status \in Open
  BY <1>1, <1>2, BooksByPart DEF RequestRecord, RequestAgrees
<1>4. ASSUME NEW i \in DOMAIN requests' PROVE RequestAgrees(i)'
  <2>1. CASE i = fb.id
    BY <1>1, <1>3, <2>1 DEF RequestAgrees, Open, Resolved
  <2>2. CASE i # fb.id
    BY <1>1, <1>2, <2>2, BooksByPart DEF RequestAgrees
  <2>3. QED
    BY <2>1, <2>2
<1>5. ASSUME NEW a \in ActionNames PROVE EntryAgrees(a)'
  <2>1. completed[a] \in 0..Len(requests)
    BY <1>1
  <2>2. completed[a] # 0 => completed[a] # fb.id /\ requests'[completed[a]] = requests[completed[a]]
    BY <1>1, <1>2, <1>3, <2>1, BooksByPart, StatusKinds DEF EntryAgrees
  <2>3. QED
    BY <1>1, <2>1, <2>2, BooksByPart DEF EntryAgrees
<1>6. QED
  BY <1>4, <1>5 DEF BooksAgree, RequestAgrees, EntryAgrees

LEMMA ExpireAgrees ==
  ASSUME BooksTypeOK, BooksAgree, ExpireActions
  PROVE  BooksAgree'
<1> DEFINE mine(a) == {i \in Overdue : requests[i].action = a}
<1>1. /\ Len(requests) \in Nat
      /\ DOMAIN requests = 1..Len(requests)
      /\ DOMAIN requests' = DOMAIN requests
      /\ Overdue \subseteq pending
      /\ pending \subseteq DOMAIN requests
      /\ \A i \in DOMAIN requests : requests[i] \in RequestRecord
      /\ completed \in [ActionNames -> 0..Len(requests)]
      /\ pending' = pending \ Overdue
  BY DEF BooksTypeOK, ExpireActions, Overdue
<1>2. \A i \in DOMAIN requests :
        requests'[i] = IF i \in Overdue THEN [requests[i] EXCEPT !.status = "expired"] ELSE requests[i]
  BY DEF ExpireActions
<1>3. \A i \in DOMAIN requests :
        /\ requests'[i].action = requests[i].action
        /\ i \in Overdue => requests'[i].status = "expired"
  BY <1>1, <1>2 DEF RequestRecord
<1>4. ASSUME NEW a \in ActionNames, mine(a) # {} PROVE completed'[a] \in mine(a)
  <2>1. mine(a) \in SUBSET (0..Len(requests))
    BY <1>1
  <2>2. \E m \in mine(a) : \A j \in mine(a) : j <= m
    BY <1>1, <1>4, <2>1, GreatestExists
  <2>3. completed'[a] = CHOOSE i \in mine(a) : \A j \in mine(a) : j <= i
    BY <1>4 DEF ExpireActions
  <2>4. QED
    BY <2>2, <2>3
<1>5. ASSUME NEW a \in ActionNames, mine(a) = {} PROVE completed'[a] = completed[a]
  BY <1>5 DEF ExpireActions
<1> HIDE DEF mine
<1>6. \A a \in ActionNames : \A i \in mine(a) : i \in Overdue /\ requests[i].action = a
  BY DEF mine
<1>7. \A i \in Overdue : i \in mine(requests[i].action)
  BY DEF mine
<1>8. ASSUME NEW i \in DOMAIN requests' PROVE RequestAgrees(i)'
  <2>1. CASE i \in Overdue
    <3>1. requests[i].action \in ActionNames
      BY <1>1, <2>1 DEF RequestRecord
    <3>2. completed'[requests[i].action] \in mine(requests[i].action)
      BY <1>4, <1>7, <2>1, <3>1
    <3>3. completed'[requests[i].action] # 0
      BY <1>1, <1>6, <3>1, <3>2
    <3>4. requests'[i].status = "expired" /\ requests'[i].action = requests[i].action /\ i \notin pending'
      BY <1>1, <1>3, <2>1
    <3>5. QED
      BY <3>3, <3>4 DEF RequestAgrees, Open, Resolved
  <2>2. CASE i \notin Overdue
    <3>1. requests'[i] = requests[i] /\ (i \in pending' <=> i \in pending)
      BY <1>1, <1>2, <2>2
    <3>2. RequestAgrees(i) /\ requests[i].action \in ActionNames
      BY <1>1, BooksByPart DEF RequestRecord
    <3>3. completed[requests[i].action] # 0 => completed'[requests[i].action] # 0
      BY <1>1, <1>4, <1>5, <1>6, <3>2
    <3>4. QED
      BY <3>1, <3>2, <3>3 DEF RequestAgrees
  <2>3. QED
    BY <2>1, <2>2
<1>9. ASSUME NEW a \in ActionNames PROVE EntryAgrees(a)'
  <2>1. CASE mine(a) # {}
    <3>1. completed'[a] \in Overdue /\ requests[completed'[a]].action = a
      BY <1>4, <1>6, <2>1
    <3>2. QED
      BY <1>1, <1>3, <3>1 DEF EntryAgrees, Resolved
  <2>2. CASE mine(a) = {}
    <3>1. completed'[a] = completed[a] /\ completed[a] \in 0..Len(requests)
      BY <1>1, <1>5, <2>2
    <3>2. completed[a] # 0 => completed[a] \notin pending /\ completed[a] \in DOMAIN requests
      BY <1>1, <3>1, BooksByPart, StatusKinds DEF EntryAgrees, RequestAgrees
    <3>3. QED
      BY <1>1, <1>2, <3>1, <3>2, BooksByPart DEF EntryAgrees
  <2>3. QED
    BY <2>1, <2>2
<1>10. QED
  BY <1>8, <1>9 DEF BooksAgree, RequestAgrees, EntryAgrees

\* Only these steps touch the books.
LEMMA BooksStep ==
  ASSUME NodeTypeOK, BooksAgree, [NodeNext]_nodeVars
  PROVE  BooksAgree'
<1> USE DEF NodeTypeOK
<1>1. CASE UNCHANGED <<requests, pending, completed>>
  BY <1>1 DEF BooksAgree
<1>2. CASE SignalStep \/ MonitorSafetyTimer \/ Elapse \/ UNCHANGED nodeVars
  BY <1>1, <1>2 DEF SignalStep, BoolCallback, PreflightReadyCallback, PoseDiagnosticCallback, Age,
                    MonitorSafetyTimer, Elapse, actionVars, nodeVars
<1>3. ASSUME NEW t \in PeerEvidence, TeamEvidence(t) PROVE BooksAgree'
  BY <1>1, <1>3 DEF TeamEvidence, actionVars
<1>4. CASE OperatorStep
  <2>1. ASSUME NEW a \in Actions, CommandAction(a) PROVE BooksAgree'
    BY <2>1, PublishAgrees, SupervisorAssumption DEF CommandAction, SupervisorAssumption
  <2>2. QED
    BY <1>1, <1>4, <2>1
       DEF OperatorStep, CommandPreflight, CommandStart, CommandPause, CommandResume,
           CommandRecover, CommandFinish, CommandEstop, NodeUnchanged, actionVars
<1>5. CASE ExpireActions
  BY <1>5, ExpireAgrees
<1>6. CASE Restart
  BY <1>6 DEF Restart, BooksAgree
<1>7. CASE SomeFeedback
  <2>1. PICK fb : ActionFeedbackCallback(fb)
    BY <1>7 DEF SomeFeedback
  <2>2. CASE ActionProgress(fb)
    BY <2>2, ProgressAgrees
  <2>3. CASE ActionSucceeded(fb)
    BY <2>3, ResolveAgrees DEF ActionSucceeded, MatchesPending, Resolved
  <2>4. CASE ActionFailed(fb)
    BY <2>4, ResolveAgrees DEF ActionFailed, MatchesPending, Resolved
  <2>5. QED
    BY <1>1, <2>1, <2>2, <2>3, <2>4 DEF ActionFeedbackCallback, FeedbackRejected, nodeVars, actionVars
<1>8. QED
  BY <1>2, <1>3, <1>4, <1>5, <1>6, <1>7 DEF NodeNext, LocalStep, TimerStep

\* The pending set, the status of every request and the last verdict per action
\* never disagree, however feedback, expiry and new requests interleave.
THEOREM BooksAlwaysAgree == NodeSpec => []BooksAgree
<1>1. NodeInit => BooksAgree
  BY DEF NodeInit, FreshInit, BooksAgree
<1>2. QED
  BY <1>1, BooksStep, NodeTypeCorrect, PTL DEF NodeSpec

-----------------------------------------------------------------------------
(* Interlocks at the adapter boundary *)

\* The steps other than a command leave the set of requests as it is, or empty.
LEMMA OnlyCommandsIssue ==
  ASSUME NodeTypeOK, [NodeNext]_nodeVars, ~ \E a \in Actions : CommandAction(a)
  PROVE  DOMAIN requests' \subseteq DOMAIN requests
<1> USE DEF NodeTypeOK
<1>1. CASE UNCHANGED requests
  BY <1>1
<1>2. CASE \/ SignalStep \/ OperatorStep \/ MonitorSafetyTimer \/ Elapse \/ UNCHANGED nodeVars
           \/ \E t \in PeerEvidence : TeamEvidence(t)
  BY <1>1, <1>2
     DEF SignalStep, BoolCallback, PreflightReadyCallback, PoseDiagnosticCallback, Age,
         OperatorStep, CommandPreflight, CommandStart, CommandPause, CommandResume,
         CommandRecover, CommandFinish, CommandEstop, NodeUnchanged, MonitorSafetyTimer,
         Elapse, TeamEvidence, actionVars, nodeVars
<1>3. CASE ExpireActions
  BY <1>3 DEF ExpireActions
<1>4. CASE Restart
  BY <1>4 DEF Restart
<1>5. CASE SomeFeedback
  <2>1. PICK fb : ActionFeedbackCallback(fb)
    BY <1>5 DEF SomeFeedback
  <2>2. QED
    BY <1>1, <2>1 DEF ActionFeedbackCallback, ActionProgress, ActionSucceeded, ActionFailed,
                      Resolve, FeedbackRejected, nodeVars, actionVars
<1>6. QED
  BY <1>2, <1>3, <1>4, <1>5 DEF NodeNext, LocalStep, TimerStep

\* No request that moves the robot, and no shot, is published outside its
\* interlocks, at any interleaving of signals, commands, feedback and timers.
THEOREM InterlocksHold == NodeSpec => IssuedUnderInterlock
<1> DEFINE Issued(i) ==
      LET a    == requests'[i].action
          lost == {s \in Signals : level[s] = "lost"}
      IN  /\ a \in LocalizationGatedActions =>
               state = "ACTIVE" /\ lost \cap {"pose_valid", "map_locked"} = {} /\ poseAge # "old"
          /\ a = "FireShot" =>
               /\ lost \subseteq (IF RequireHeartbeat THEN {} ELSE {"heartbeat"})
               /\ level["target_valid"] = "young"
<1>1. ASSUME NodeTypeOK, [NodeNext]_nodeVars, NEW i \in DOMAIN requests' \ DOMAIN requests
      PROVE  Issued(i)
  <2>1. PICK a \in Actions : CommandAction(a)
    BY <1>1, OnlyCommandsIssue
  <2>2. requests'[i].action = a
    BY <1>1, <2>1 DEF CommandAction, PublishActionRequest, NodeTypeOK, BooksTypeOK
  <2>3. CanIssueAction(a, LocalizationOk, FireShotOk)
    BY <2>1 DEF CommandAction
  <2>4. FireShotOk => LocalizationOk
    BY DEF FireShotOk
  <2>5. a \in LocalizationGatedActions => state = "ACTIVE" /\ LocalizationOk
    BY <2>3, <2>4 DEF CanIssueAction, LocalizationGatedActions
  <2>6. a = "FireShot" => FireShotOk
    BY <2>3 DEF CanIssueAction
  <2>7. LocalizationOk => level["pose_valid"] # "lost" /\ level["map_locked"] # "lost" /\ poseAge # "old"
    BY DEF LocalizationOk, FreshSignal, PoseRecent
  <2>8. FireShotOk => /\ level["target_valid"] = "young"
                      /\ \A s \in Signals \ {"heartbeat"} : level[s] # "lost"
                      /\ RequireHeartbeat => level["heartbeat"] # "lost"
    BY DEF FireShotOk, LocalizationOk, TeammateOk, FreshSignal, Signals
  <2>9. QED
    BY <2>2, <2>5, <2>6, <2>7, <2>8 DEF Signals
<1>2. ASSUME NodeTypeOK, [NodeNext]_nodeVars
      PROVE  [\A i \in DOMAIN requests' \ DOMAIN requests : Issued(i)]_nodeVars
  BY <1>1, <1>2
<1>3. QED
  BY <1>2, NodeTypeCorrect, PTL DEF NodeSpec, IssuedUnderInterlock

-----------------------------------------------------------------------------
(* The lifecycle *)

\* Every step that keeps the process alive moves the state like this.
StateMove ==
  \/ state' = state
  \/ state \in {"BOOT", "RECOVERY"} /\ state' \in {"WAIT_START", "FAULT"}
  \/ state = "WAIT_START" /\ state' = "ACTIVE"
  \/ state = "ACTIVE" /\ state' = "PAUSED"
  \/ state = "PAUSED" /\ state' = "ACTIVE"
  \/ state \in {"ACTIVE", "PAUSED"} /\ state' = "FINISHED"
  \/ state # "ESTOP" /\ state' = "RECOVERY"
  \/ state' = "ESTOP"

\* Seen as phases, these are moves of the abstract lifecycle.
LEMMA StateMoveIsLifecycleMove ==
  ASSUME state \in SupervisorState, boots' = boots, StateMove
  PROVE  [Lifecycle!LifecycleNext]_(Lifecycle!lifecycleVars)
<1> USE DEF Lifecycle!LifecycleNext, Lifecycle!lifecycleVars, Lifecycle!Move, Phase, SupervisorState
<1>1. CASE state' = state
  BY <1>1
<1>2. CASE state \in {"BOOT", "RECOVERY"} /\ state' \in {"WAIT_START", "FAULT"}
  BY <1>2 DEF Lifecycle!Clear
<1>3. CASE state = "WAIT_START" /\ state' = "ACTIVE"
  BY <1>3 DEF Lifecycle!Begin
<1>4. CASE state = "ACTIVE" /\ state' = "PAUSED"
  BY <1>4 DEF Lifecycle!Hold
<1>5. CASE state = "PAUSED" /\ state' = "ACTIVE"
  BY <1>5 DEF Lifecycle!Release
<1>6. CASE state \in {"ACTIVE", "PAUSED"} /\ state' = "FINISHED"
  BY <1>6 DEF Lifecycle!End
<1>7. CASE state # "ESTOP" /\ state' = "RECOVERY"
  BY <1>7 DEF Lifecycle!Withdraw
<1>8. CASE state' = "ESTOP"
  BY <1>8 DEF Lifecycle!Stop
<1>9. QED
  BY <1>1, <1>2, <1>3, <1>4, <1>5, <1>6, <1>7, <1>8 DEF StateMove

LEMMA NodeMoves ==
  ASSUME NodeTypeOK, [NodeNext]_nodeVars, ~Restart
  PROVE  boots' = boots /\ StateMove
<1> USE DEF StateMove
<1>1. CASE SignalStep \/ Elapse \/ UNCHANGED nodeVars
  BY <1>1 DEF SignalStep, BoolCallback, PreflightReadyCallback, PoseDiagnosticCallback, Age,
              Elapse, coreVars, nodeVars
<1>2. ASSUME NEW t \in PeerEvidence, TeamEvidence(t) PROVE boots' = boots /\ StateMove
  BY <1>2 DEF TeamEvidence, SetReceiverReady, ArmPass, ConfirmPassExecuted, ConfirmReceipt, Confirm
<1>3. CASE OperatorStep
  BY <1>3 DEF OperatorStep, CommandPreflight, Preflight, CommandStart, Start, CommandPause, Pause,
              CommandResume, Resume, CommandRecover, EnterRecovery, CommandFinish, Finish,
              CommandEstop, EmergencyStop, CommandAction, Require, NodeUnchanged, coreVars
<1>4. CASE TimerStep
  <2>1. CASE ExpireActions
    BY <2>1 DEF ExpireActions, HandleActionFailures
  <2>2. CASE MonitorSafetyTimer
    BY <2>2 DEF MonitorSafetyTimer, MonitorSafety, EnterRecovery, Require
  <2>3. QED
    BY <1>4, <2>1, <2>2 DEF TimerStep
<1>5. CASE SomeFeedback
  <2>1. PICK fb : ActionFeedbackCallback(fb)
    BY <1>5 DEF SomeFeedback
  <2>2. CASE ActionSucceeded(fb)
    BY <2>2 DEF ActionSucceeded, ApplyActionSuccess, SetReceiverReady, ArmPass,
                ConfirmPassExecuted, ConfirmReceipt, Confirm, ShotConfirmed, AbortConfirmed,
                EmergencyStop, coreVars
  <2>3. CASE ActionFailed(fb)
    BY <2>3 DEF ActionFailed, HandleActionFailures
  <2>4. CASE ActionProgress(fb) \/ FeedbackRejected(fb)
    BY <2>4 DEF ActionProgress, FeedbackRejected, nodeVars, coreVars
  <2>5. QED
    BY <2>1, <2>2, <2>3, <2>4 DEF ActionFeedbackCallback
<1>6. QED
  BY <1>1, <1>2, <1>3, <1>4, <1>5 DEF NodeNext, LocalStep

\* The node implements the match lifecycle: with Phase and boots for its
\* variables, it starts like it, and each of its steps is one of its steps.
THEOREM NodeImplementsLifecycle == NodeSpec => FollowsLifecycle
<1>1. NodeInit => Lifecycle!LifecycleInit
  BY DEF NodeInit, FreshInit, CoreInit, Phase, Lifecycle!LifecycleInit
<1>2. ASSUME NodeTypeOK, [NodeNext]_nodeVars
      PROVE  [Lifecycle!LifecycleNext]_(Lifecycle!lifecycleVars)
  <2>1. CASE Restart
    BY <2>1 DEF Restart, Phase, Lifecycle!LifecycleNext, Lifecycle!Reboot
  <2>2. CASE ~Restart
    BY <1>2, <2>2, NodeMoves, StateMoveIsLifecycleMove DEF NodeTypeOK, CoreTypeOK
  <2>3. QED
    BY <2>1, <2>2
<1>3. QED
  BY <1>1, <1>2, NodeTypeCorrect, PTL DEF NodeSpec, FollowsLifecycle, Lifecycle!LifecycleSpec

-----------------------------------------------------------------------------
(* One verdict per request *)

\* Overwriting the status of pending requests leaves resolved ones alone.
LEMMA ResolvedStep ==
  ASSUME NodeTypeOK, BooksAgree, [NodeNext]_nodeVars, boots' = boots,
         NEW i \in DOMAIN requests
  PROVE  i \in DOMAIN requests' /\ (requests[i].status \in Resolved => requests'[i] = requests[i])
<1> USE DEF NodeTypeOK, BooksTypeOK
<1>1. requests[i].status \in Resolved => i \notin pending
  BY BooksByPart, StatusKinds DEF RequestAgrees
<1>2. CASE \E a \in Actions : CommandAction(a)
  BY <1>2 DEF CommandAction, PublishActionRequest
<1>3. CASE ExpireActions
  BY <1>1, <1>3 DEF ExpireActions, Overdue
<1>4. CASE SomeFeedback
  <2>1. PICK fb : ActionFeedbackCallback(fb)
    BY <1>4 DEF SomeFeedback
  <2>2. CASE FeedbackRejected(fb)
    BY <2>2 DEF FeedbackRejected, nodeVars, actionVars
  <2>3. CASE ~FeedbackRejected(fb)
    BY <1>1, <2>1, <2>3 DEF ActionFeedbackCallback, ActionProgress, ActionSucceeded, ActionFailed,
                            Resolve, MatchesPending
  <2>4. QED
    BY <2>2, <2>3
<1>5. CASE UNCHANGED requests
  BY <1>5
<1>6. ASSUME NEW t \in PeerEvidence, TeamEvidence(t) PROVE UNCHANGED requests
  BY <1>6 DEF TeamEvidence, actionVars
<1>7. CASE SignalStep \/ MonitorSafetyTimer \/ Elapse \/ UNCHANGED nodeVars
  BY <1>5, <1>7 DEF SignalStep, BoolCallback, PreflightReadyCallback, PoseDiagnosticCallback, Age,
                    MonitorSafetyTimer, Elapse, actionVars, nodeVars
<1>8. CASE OperatorStep /\ ~ \E a \in Actions : CommandAction(a)
  BY <1>5, <1>8
     DEF OperatorStep, CommandPreflight, CommandStart, CommandPause, CommandResume,
         CommandRecover, CommandFinish, CommandEstop, NodeUnchanged, actionVars
<1>9. ~Restart
  BY SupervisorAssumption DEF Restart, SupervisorAssumption
<1>10. QED
  BY <1>2, <1>3, <1>4, <1>5, <1>6, <1>7, <1>8, <1>9 DEF NodeNext, LocalStep, TimerStep

\* The first verdict on a request is the last: a late or repeated answer, or an
\* expiry, does not change it while the process runs.
THEOREM VerdictIsFinal == NodeSpec => ResolvedOnce
<1>1. ASSUME NodeTypeOK, BooksAgree, [NodeNext]_nodeVars
      PROVE  [boots' = boots =>
                \A i \in DOMAIN requests :
                  /\ i \in DOMAIN requests'
                  /\ requests[i].status \in Resolved => requests'[i] = requests[i]]_nodeVars
  BY <1>1, ResolvedStep
<1>2. QED
  BY <1>1, NodeTypeCorrect, BooksAlwaysAgree, PTL DEF NodeSpec, ResolvedOnce

-----------------------------------------------------------------------------
(* Evidence keeps its order *)

\* A move of the task state along the chain, or into it from an ACTIVE match.
EvidenceMove ==
  \/ taskState' = taskState
  \/ <<taskState, taskState'>> \in
       {<<"receiver_ready", "pass_armed">>, <<"pass_armed", "pass_executed">>,
        <<"pass_executed", "receipt_confirmed">>}
  \/ taskState' \in {"receiver_ready", "shot_executed"} /\ state = "ACTIVE"

LEMMA EvidenceMovesInOrder ==
  ASSUME \/ SetReceiverReady \/ ArmPass \/ ConfirmPassExecuted \/ ConfirmReceipt
         \/ \E a, r : ApplyActionSuccess(a, r)
  PROVE  EvidenceMove
<1>1. CASE SetReceiverReady \/ ArmPass \/ ConfirmPassExecuted \/ ConfirmReceipt
  BY <1>1 DEF SetReceiverReady, ArmPass, ConfirmPassExecuted, ConfirmReceipt, Confirm, EvidenceMove
<1>2. ASSUME NEW a, NEW r, ApplyActionSuccess(a, r) PROVE EvidenceMove
  BY <1>2 DEF ApplyActionSuccess, SetReceiverReady, ArmPass, ConfirmPassExecuted, ConfirmReceipt,
              Confirm, ShotConfirmed, AbortConfirmed, EmergencyStop, coreVars, EvidenceMove
<1>3. QED
  BY <1>1, <1>2

LEMMA EvidenceStep ==
  ASSUME [NodeNext]_nodeVars, boots \in Nat, boots' = boots
  PROVE  EvidenceMove
<1>1. CASE SignalStep \/ Elapse \/ UNCHANGED nodeVars
  BY <1>1 DEF SignalStep, BoolCallback, PreflightReadyCallback, PoseDiagnosticCallback, Age,
              Elapse, nodeVars, coreVars, EvidenceMove
<1>2. ASSUME NEW t \in PeerEvidence, TeamEvidence(t) PROVE EvidenceMove
  BY <1>2, EvidenceMovesInOrder DEF TeamEvidence
<1>3. CASE OperatorStep
  BY <1>3 DEF OperatorStep, CommandPreflight, Preflight, CommandStart, Start, CommandPause, Pause,
              CommandResume, Resume, CommandRecover, EnterRecovery, CommandFinish, Finish,
              CommandEstop, EmergencyStop, CommandAction, coreVars, EvidenceMove
<1>4. CASE TimerStep
  BY <1>4 DEF TimerStep, ExpireActions, HandleActionFailures, MonitorSafetyTimer, MonitorSafety,
              EnterRecovery, EvidenceMove
<1>5. ~Restart
  BY DEF Restart
<1>6. CASE SomeFeedback
  <2>1. PICK fb : ActionFeedbackCallback(fb)
    BY <1>6 DEF SomeFeedback
  <2>2. CASE ActionSucceeded(fb)
    BY <2>2, EvidenceMovesInOrder DEF ActionSucceeded
  <2>3. QED
    BY <2>1, <2>2 DEF ActionFeedbackCallback, ActionProgress, ActionFailed, HandleActionFailures,
                      FeedbackRejected, nodeVars, coreVars, EvidenceMove
<1>7. QED
  BY <1>1, <1>2, <1>3, <1>4, <1>5, <1>6 DEF NodeNext, LocalStep

\* A step of the pass chain follows the step before it, and the chain is entered
\* in an ACTIVE match only, whoever reports the evidence and in whatever order.
THEOREM EvidenceKeepsOrder == NodeSpec => EvidenceOrdered
<1>1. ASSUME NodeTypeOK, [NodeNext]_nodeVars
      PROVE  [taskState' # taskState =>
                \/ boots' # boots
                \/ <<taskState, taskState'>> \in
                     {<<"receiver_ready", "pass_armed">>, <<"pass_armed", "pass_executed">>,
                      <<"pass_executed", "receipt_confirmed">>}
                \/ taskState' \in {"receiver_ready", "shot_executed"} /\ state = "ACTIVE"]_nodeVars
  <2>1. boots \in Nat
    BY <1>1, SupervisorAssumption DEF NodeTypeOK, SupervisorAssumption
  <2>2. QED
    BY <1>1, <2>1, EvidenceStep DEF EvidenceMove
<1>2. QED
  BY <1>1, NodeTypeCorrect, PTL DEF NodeSpec, EvidenceOrdered
=============================================================================
