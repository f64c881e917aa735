--------------------------- MODULE SupervisorNode ---------------------------
(***************************************************************************)
(* RoboconGameSupervisorNode (ros_node.py): the ROS node around the match  *)
(* core.  One action per callback or timer of its single-threaded          *)
(* executor.  Time enters as two kinds of environment steps: a signal ages *)
(* past its limits (Age) and a request outlives its TTL (Elapse).          *)
(*                                                                         *)
(* What other nodes send is an input of the handler: any Boolean on a      *)
(* signal topic, any team message the link accepted, any feedback for a    *)
(* request this or an earlier process published.                           *)
(***************************************************************************)
EXTENDS GameSupervisor, Integers, Sequences

CONSTANTS
  Actions,           \* the action names the operator console uses
  PeerEvidence,      \* the evidence message types the peer robot sends
  Steady,            \* signals whose publisher is up first and never silent
  RequireHeartbeat,  \* parameter require_teammate_heartbeat
  AutoRecovery,      \* parameter auto_recovery_on_signal_loss
  FixedTaskId,       \* the task_id parameter is configured, not "TBD"
  MaxActions,        \* bound: requests one process publishes
  MaxBoots           \* bound: restarts of the process

EvidenceTypes == {"receiver_ready", "pass_armed", "pass_executed", "receipt_confirmed"}

\* "heartbeat" is TeamLink.last_heartbeat_ns; the others are Bool topics.
Signals ==
  {"pose_valid", "map_locked", "target_valid", "ball_present",
   "mechanism_healthy", "teammate_safe", "heartbeat"}

ASSUME SupervisorAssumption ==
  /\ Actions \subseteq ActionNames
  /\ PeerEvidence \subseteq EvidenceTypes
  /\ Steady \subseteq Signals
  /\ RequireHeartbeat \in BOOLEAN
  /\ AutoRecovery \in BOOLEAN
  /\ FixedTaskId \in BOOLEAN
  /\ MaxActions \in Nat
  /\ MaxBoots \in Nat

VARIABLES
  preflightReady, \* value of _signals["preflight_ready"]: its time is never read
  level,          \* the other _signals: "young" within the 0.30 s age limits,
                  \* "aging" within the 0.50 s silence limit, else "lost"
  poseAge,        \* _pose_age_sec: "ok", "old" (over the limit) or "inf"
  requests,       \* every request of this process, at its sequence number:
                  \* its action and _action_status
  pending,        \* keys of _pending_actions, as sequence numbers
  elapsed,        \* requests 1..elapsed are past expires_at_ns (one TTL for all)
  completed,      \* _completed_actions: sequence number per action, 0 for none
  boots           \* how often the process was restarted

signalVars == <<preflightReady, level, poseAge>>
actionVars == <<requests, pending, elapsed, completed>>
nodeVars == <<coreVars, signalVars, actionVars, boots>>

\* With no task_id configured every process draws a new one.
TaskId == IF FixedTaskId THEN 0 ELSE boots

Open     == {"published", "working"}     \* "working": accepted or running
Resolved == {"succeeded", "failed", "expired"}  \* "failed": failed or cancelled

FreshInit ==
  /\ CoreInit
  /\ preflightReady = FALSE
  /\ level = [s \in Signals |-> IF s \in Steady THEN "young" ELSE "lost"]
  /\ poseAge = "inf"
  /\ requests = <<>>
  /\ pending = {}
  /\ elapsed = 0
  /\ completed = [a \in ActionNames |-> 0]

NodeInit == FreshInit /\ boots = 0

-----------------------------------------------------------------------------
(* _safety_snapshot *)

FreshSignal(s) == level[s] # "lost"

\* The reported age, or the age of the pose_valid message when none is finite.
PoseRecent ==
  \/ poseAge = "ok"
  \/ poseAge = "inf" /\ level["pose_valid"] = "young"

LocalizationOk == FreshSignal("pose_valid") /\ FreshSignal("map_locked") /\ PoseRecent

TeammateOk ==
  /\ FreshSignal("teammate_safe")
  /\ RequireHeartbeat => FreshSignal("heartbeat")

\* Mutant of FireShotOk: the teammate is not asked for.
FireShotOkWithoutTeammate ==
  /\ LocalizationOk
  /\ level["target_valid"] = "young"
  /\ FreshSignal("ball_present")
  /\ FreshSignal("mechanism_healthy")

FireShotOk ==
  /\ LocalizationOk
  /\ level["target_valid"] = "young"
  /\ FreshSignal("ball_present")
  /\ FreshSignal("mechanism_healthy")
  /\ TeammateOk

\* Mutant of RuntimeHealthy: the monitor trusts the pose and forgets the map.
RuntimeHealthyWithoutMap == FreshSignal("pose_valid") /\ PoseRecent /\ TeammateOk

RuntimeHealthy == LocalizationOk /\ (RequireHeartbeat => TeammateOk)

-----------------------------------------------------------------------------
(* Signal callbacks *)

BoolCallback(s, value) ==
  /\ level' = [level EXCEPT ![s] = IF value THEN "young" ELSE "lost"]
  /\ UNCHANGED <<coreVars, preflightReady, poseAge, actionVars, boots>>

PreflightReadyCallback(value) ==
  /\ preflightReady' = value
  /\ UNCHANGED <<coreVars, level, poseAge, actionVars, boots>>

PoseDiagnosticCallback(age) ==
  /\ poseAge' = age
  /\ UNCHANGED <<coreVars, preflightReady, level, actionVars, boots>>

\* Silence: only the pose and target ages are compared with the 0.30 s limits.
Age(s) ==
  /\ s \notin Steady
  /\ level[s] # "lost"
  /\ level' = [level EXCEPT ![s] =
                 IF @ = "young" /\ s \in {"pose_valid", "target_valid"}
                 THEN "aging" ELSE "lost"]
  /\ UNCHANGED <<coreVars, preflightReady, poseAge, actionVars, boots>>

\* An evidence message that TeamLink.receive accepted.
TeamEvidence(type) ==
  /\ \/ type = "receiver_ready"    /\ SetReceiverReady
     \/ type = "pass_armed"        /\ ArmPass
     \/ type = "pass_executed"     /\ ConfirmPassExecuted
     \/ type = "receipt_confirmed" /\ ConfirmReceipt
  /\ UNCHANGED <<signalVars, actionVars, boots>>

-----------------------------------------------------------------------------
(* _dispatch *)

NodeUnchanged == UNCHANGED <<signalVars, actionVars, boots>>

CommandPreflight == Preflight(preflightReady) /\ NodeUnchanged
CommandStart     == Start /\ NodeUnchanged
CommandPause     == Pause /\ NodeUnchanged
CommandResume    == Resume /\ NodeUnchanged
CommandRecover   == EnterRecovery /\ NodeUnchanged
CommandFinish    == Finish /\ NodeUnchanged
CommandEstop     == EmergencyStop /\ NodeUnchanged

PublishActionRequest(action) ==
  /\ requests' = Append(requests, [action |-> action, status |-> "published"])
  /\ pending' = pending \cup {Len(requests) + 1}
  /\ UNCHANGED <<elapsed, completed>>

\* Emergency stop latches, and a running match is left, before the request
\* is published.
CommandAction(action) ==
  /\ Len(requests) < MaxActions
  /\ CanIssueAction(action, LocalizationOk, FireShotOk)
  /\ \/ action = "EmergencyStop" /\ EmergencyStop
     \/ action = "AbortTask" /\ state \in {"ACTIVE", "PAUSED"} /\ EnterRecovery
     \/ /\ ~(action = "AbortTask" /\ state \in {"ACTIVE", "PAUSED"})
        /\ action # "EmergencyStop"
        /\ UNCHANGED coreVars
  /\ PublishActionRequest(action)
  /\ UNCHANGED <<signalVars, boots>>

-----------------------------------------------------------------------------
(* _action_feedback_callback *)

\* Mutants of MatchesPending: the answer to a request that is no longer pending
\* counts; the answer to a request of an earlier task counts.
MatchesAnyRequest(fb) ==
  /\ fb.task = TaskId
  /\ fb.id \in DOMAIN requests
  /\ fb.action = requests[fb.id].action

MatchesAnyTask(fb) ==
  /\ fb.id \in pending
  /\ fb.action = requests[fb.id].action

MatchesPending(fb) ==
  /\ fb.task = TaskId
  /\ fb.id \in pending
  /\ fb.action = requests[fb.id].action

Resolve(id, status) ==
  /\ requests' = [requests EXCEPT ![id].status = status]
  /\ pending' = pending \ {id}
  /\ completed' = [completed EXCEPT ![requests[id].action] = id]
  /\ UNCHANGED elapsed

ActionProgress(fb) ==
  /\ MatchesPending(fb)
  /\ fb.state = "working"
  /\ requests' = [requests EXCEPT ![fb.id].status = "working"]
  /\ UNCHANGED <<coreVars, signalVars, pending, elapsed, completed, boots>>

\* Mutant of ActionSucceeded: "accepted" is taken for success.
AcceptedIsSuccess(fb) ==
  /\ MatchesPending(fb)
  /\ fb.state \in {"working", "succeeded"}
  /\ Resolve(fb.id, "succeeded")
  /\ ApplyActionSuccess(fb.action, fb.receipt)
  /\ UNCHANGED <<signalVars, boots>>

ActionSucceeded(fb) ==
  /\ MatchesPending(fb)
  /\ fb.state = "succeeded"
  /\ Resolve(fb.id, "succeeded")
  /\ ApplyActionSuccess(fb.action, fb.receipt)
  /\ UNCHANGED <<signalVars, boots>>

ActionFailed(fb) ==
  /\ MatchesPending(fb)
  /\ fb.state = "failed"
  /\ Resolve(fb.id, "failed")
  /\ HandleActionFailures({fb.action})
  /\ UNCHANGED <<signalVars, boots>>

FeedbackRejected(fb) == ~MatchesPending(fb) /\ UNCHANGED nodeVars

ActionFeedbackCallback(fb) ==
  \/ ActionProgress(fb)
  \/ ActionSucceeded(fb)
  \/ ActionFailed(fb)
  \/ FeedbackRejected(fb)

-----------------------------------------------------------------------------
(* Timers *)

\* A request that is still open outlives its TTL; requests do so in order.
Elapse ==
  /\ elapsed < Len(requests)
  /\ elapsed' = elapsed + 1
  /\ UNCHANGED <<coreVars, signalVars, requests, pending, completed, boots>>

\* Mutant of Overdue: the request that elapsed last is never overdue.
OverdueButLast == {i \in pending : i < elapsed}

Overdue == {i \in pending : i <= elapsed}

\* _expire_actions: all overdue requests, in the order they were published,
\* so the newest of several with one action is the one that is retained.
ExpireActions ==
  /\ Overdue # {}
  /\ requests' = [i \in DOMAIN requests |->
                    IF i \in Overdue THEN [requests[i] EXCEPT !.status = "expired"]
                    ELSE requests[i]]
  /\ pending' = pending \ Overdue
  /\ completed' = [a \in ActionNames |->
       LET mine == {i \in Overdue : requests[i].action = a}
       IN  IF mine = {} THEN completed[a]
           ELSE CHOOSE i \in mine : \A j \in mine : j <= i]
  /\ HandleActionFailures({requests[i].action : i \in Overdue})
  /\ UNCHANGED <<signalVars, elapsed, boots>>

MonitorSafetyTimer ==
  /\ AutoRecovery
  /\ MonitorSafety(RuntimeHealthy)
  /\ UNCHANGED <<signalVars, actionVars, boots>>

-----------------------------------------------------------------------------

\* The process dies and is started again: nothing it keeps is persisted.
Restart ==
  /\ boots < MaxBoots
  /\ boots' = boots + 1
  /\ state' = "BOOT"
  /\ taskState' = "idle"
  /\ preflightReady' = FALSE
  /\ level' = [s \in Signals |-> IF s \in Steady THEN "young" ELSE "lost"]
  /\ poseAge' = "inf"
  /\ requests' = <<>>
  /\ pending' = {}
  /\ elapsed' = 0
  /\ completed' = [a \in ActionNames |-> 0]

\* What the rest of the system can hand this node.  The feedback is for a
\* request that exists; only a collected ball carries a receipt flag.
SomeFeedback ==
  \E i \in DOMAIN requests, s \in {"working", "succeeded", "failed"}, r \in BOOLEAN :
    /\ r \/ (requests[i].action = "CollectBall" /\ s = "succeeded")
    /\ ActionFeedbackCallback([task |-> TaskId, id |-> i, action |-> requests[i].action,
                               state |-> s, receipt |-> r])

SignalStep ==
  \/ \E s \in Signals \ Steady, v \in BOOLEAN : BoolCallback(s, v)
  \/ \E v \in BOOLEAN : PreflightReadyCallback(v)
  \/ \E a \in {"ok", "old", "inf"} : PoseDiagnosticCallback(a)
  \/ \E s \in Signals : Age(s)

OperatorStep ==
  \/ CommandPreflight
  \/ CommandStart
  \/ CommandPause
  \/ CommandResume
  \/ CommandRecover
  \/ CommandFinish
  \/ CommandEstop
  \/ \E a \in Actions : CommandAction(a)

TimerStep == ExpireActions \/ MonitorSafetyTimer

\* Every step of the node but those that take feedback from an executor.
LocalStep ==
  \/ SignalStep
  \/ \E t \in PeerEvidence : TeamEvidence(t)
  \/ OperatorStep
  \/ TimerStep
  \/ Elapse
  \/ Restart

NodeNext == LocalStep \/ SomeFeedback

NodeSpec == NodeInit /\ [][NodeNext]_nodeVars

\* The executor spins, so both timers keep firing, and time passes.  Nothing
\* is assumed of operators, peers, signal publishers or adapters.
NodeFairness ==
  /\ WF_nodeVars(ExpireActions)
  /\ WF_nodeVars(MonitorSafetyTimer)
  /\ WF_nodeVars(Elapse)

FairNodeSpec == NodeSpec /\ NodeFairness

-----------------------------------------------------------------------------
(* Properties *)

CoreTypeOK ==
  /\ state \in SupervisorState
  /\ taskState \in RobotTaskState

SignalTypeOK ==
  /\ preflightReady \in BOOLEAN
  /\ level \in [Signals -> {"young", "aging", "lost"}]
  /\ poseAge \in {"ok", "old", "inf"}

RequestRecord == [action : ActionNames, status : Open \cup Resolved]

BooksTypeOK ==
  /\ requests \in Seq(RequestRecord)
  /\ Len(requests) <= MaxActions
  /\ pending \subseteq 1..Len(requests)
  /\ elapsed \in 0..Len(requests)
  /\ completed \in [ActionNames -> 0..Len(requests)]

\* The variables hold what the attributes of the node hold, within the bounds.
NodeTypeOK ==
  /\ CoreTypeOK
  /\ SignalTypeOK
  /\ BooksTypeOK
  /\ boots \in 0..MaxBoots

\* The three books the node keeps about its requests agree: a request is in
\* _pending_actions exactly while its _action_status is not terminal, and
\* _completed_actions names, for an action, a request for that action that is
\* resolved, and names one as soon as one is.  Feedback, expiry and the
\* publication of new requests interleave freely (ros_node.py:184-204, 336-337,
\* 352-371).
BooksAgree ==
  /\ \A i \in DOMAIN requests : i \in pending <=> requests[i].status \in Open
  /\ \A i \in DOMAIN requests :
       requests[i].status \in Resolved => completed[requests[i].action] # 0
  /\ \A a \in ActionNames :
       completed[a] # 0 => /\ requests[completed[a]].action = a
                           /\ requests[completed[a]].status \in Resolved

\* One answer counts: once a request is succeeded, failed or expired, no later
\* feedback, repeated feedback or timer tick changes that verdict within the
\* life of the process (the late answer that races _expire_actions).
ResolvedOnce ==
  [][boots' = boots =>
       \A i \in DOMAIN requests :
         /\ i \in DOMAIN requests'
         /\ requests[i].status \in Resolved => requests'[i] = requests[i]]_nodeVars

\* Once the emergency stop is latched only a restart of the process leaves it:
\* not a late abort acknowledgement, not a failed or expired action, not the
\* safety monitor, not the operator (test_estop_is_terminal_until_external_reset).
EstopLatched ==
  [][state = "ESTOP" /\ boots' = boots => state' = "ESTOP"]_nodeVars

\* A request that moves the robot or releases a ball crosses the adapter
\* boundary only in an ACTIVE match whose localization is heard and not old,
\* "even before the periodic safety monitor enters RECOVERY"
\* (supervisor.py:59-61).  A shot goes out only while no signal is withdrawn or
\* silent, the target seen within its age limit: whichever signal went last, and
\* whether it was withdrawn, fell silent or never came after a restart.
IssuedUnderInterlock ==
  [][\A i \in DOMAIN requests' \ DOMAIN requests :
       LET a    == requests'[i].action
           lost == {s \in Signals : level[s] = "lost"}
       IN  /\ a \in LocalizationGatedActions =>
                state = "ACTIVE" /\ lost \cap {"pose_valid", "map_locked"} = {} /\ poseAge # "old"
           /\ a = "FireShot" =>
                /\ lost \subseteq (IF RequireHeartbeat THEN {} ELSE {"heartbeat"})
                /\ level["target_valid"] = "young"]_nodeVars

\* Evidence is ordered: a step of the pass chain follows the step before it, and
\* the two entries from outside the chain (a receiver reports ready, a shot is
\* confirmed) are taken in an ACTIVE match only, whoever reports them: the
\* executor, late or twice, or the peer (ros_node.py:219).
EvidenceOrdered ==
  [][taskState' # taskState =>
       \/ boots' # boots
       \/ <<taskState, taskState'>> \in
            {<<"receiver_ready", "pass_armed">>, <<"pass_armed", "pass_executed">>,
             <<"pass_executed", "receipt_confirmed">>}
       \/ taskState' \in {"receiver_ready", "shot_executed"} /\ state = "ACTIVE"]_nodeVars

\* The phase of the match behind the state of the supervisor.
Phase ==
  CASE state \in {"BOOT", "PREFLIGHT", "RECOVERY", "FAULT"} -> "standby"
    [] state = "WAIT_START" -> "cleared"
    [] state = "ACTIVE"     -> "live"
    [] state = "PAUSED"     -> "held"
    [] state = "FINISHED"   -> "over"
    [] state = "ESTOP"      -> "stopped"

Lifecycle == INSTANCE MatchLifecycle WITH phase <- Phase, epoch <- boots

\* Whatever arrives, in whatever order, the match moves only along the abstract
\* lifecycle: no message, expiry or timer takes a withdrawn, finished or stopped
\* match live again without a new preflight and a new start.
FollowsLifecycle == Lifecycle!LifecycleSpec

\* A match does not run on without localization: an ACTIVE match that has lost
\* it leaves ACTIVE unless localization comes back first, although nothing but
\* the node's own timer is sure to run.
LossLeavesActive ==
  (state = "ACTIVE" /\ ~LocalizationOk) ~> (state # "ACTIVE" \/ LocalizationOk)

\* No request stays pending for ever, even when the adapter never answers: the
\* TTL and the expiry timer resolve it.
PendingResolves ==
  \A i \in 1..MaxActions : i \in pending ~> i \notin pending

\* handle_action_failure promises to "contain failed or expired actuator work
\* before more tasks can be issued" (supervisor.py:246): after a failure the
\* match is not in a state that one operator command turns into an ACTIVE one.
FailureContained ==
  [][\A i \in DOMAIN requests :
       /\ boots' = boots
       /\ requests[i].status \in Open
       /\ requests'[i].status \in {"failed", "expired"}
       => state' \notin {"WAIT_START", "ACTIVE", "PAUSED"}]_nodeVars
=============================================================================
