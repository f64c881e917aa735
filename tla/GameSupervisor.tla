--------------------------- MODULE GameSupervisor ---------------------------
(***************************************************************************)
(* The deterministic match core of robocon_game_supervisor (supervisor.py, *)
(* class GameSupervisor): the competition state, the evidence state of the *)
(* pass-and-shoot task, and one operator per method that the ROS node      *)
(* calls.  The methods run inside single-threaded callbacks, so each is    *)
(* atomic; a method that raises RuntimeError in the code is an operator    *)
(* whose guard is false here.                                              *)
(*                                                                         *)
(* The safety snapshot a decision reads is built by the node: the          *)
(* operators take the verdict on it as a Boolean argument.                 *)
(***************************************************************************)

EXTENDS Integers

VARIABLES
  state,      \* self.state
  taskState   \* self.task_state[RobotRole.SHOOTER]; no method writes the other role

coreVars == <<state, taskState>>

\* The actions of the contract with the hardware adapters (actions.py).
ActionNames ==
  {"NavigateToPose", "PrepareReceive", "CollectBall", "PreparePass",
   "ExecutePass", "PrepareShot", "FireShot", "AbortTask", "EmergencyStop"}

\* PREFLIGHT is left in the callback that enters it and never seen at rest.
SupervisorState ==
  {"BOOT", "PREFLIGHT", "WAIT_START", "ACTIVE", "PAUSED", "RECOVERY",
   "FAULT", "ESTOP", "FINISHED"}

RobotTaskState ==
  {"idle", "receiver_ready", "pass_armed", "pass_executed",
   "receipt_confirmed", "shot_executed"}

\* Requests that move the robot or release a ball toward a field target.
LocalizationGatedActions ==
  {"NavigateToPose", "PreparePass", "ExecutePass", "PrepareShot", "FireShot"}

CoreInit ==
  /\ state = "BOOT"
  /\ taskState = "idle"

-----------------------------------------------------------------------------
(* Operator transitions *)

Require(allowed) == state \in allowed

\* enter_preflight followed by preflight_result, as the only caller does.
Preflight(ready) ==
  /\ Require({"BOOT", "RECOVERY"})
  /\ state' = IF ready THEN "WAIT_START" ELSE "FAULT"
  /\ UNCHANGED taskState

Start  == Require({"WAIT_START"}) /\ state' = "ACTIVE" /\ UNCHANGED taskState
Pause  == Require({"ACTIVE"})     /\ state' = "PAUSED" /\ UNCHANGED taskState
\* Mutant of Resume: a withdrawn match is resumed like a paused one.
ResumeWithdrawn == Require({"PAUSED", "RECOVERY"}) /\ state' = "ACTIVE" /\ UNCHANGED taskState

Resume == Require({"PAUSED"})     /\ state' = "ACTIVE" /\ UNCHANGED taskState

EnterRecovery ==
  /\ Require({"ACTIVE", "PAUSED", "FAULT"})
  /\ state' = "RECOVERY"
  /\ UNCHANGED taskState

Finish ==
  /\ Require({"ACTIVE", "PAUSED"})
  /\ state' = "FINISHED"
  /\ UNCHANGED taskState

EmergencyStop == state' = "ESTOP" /\ UNCHANGED taskState

-----------------------------------------------------------------------------
(* Evidence: a rejected decision leaves the task state alone *)

SetReceiverReady ==
  /\ taskState' = IF state = "ACTIVE" THEN "receiver_ready" ELSE taskState
  /\ UNCHANGED state

Confirm(from, to) ==
  /\ taskState' = IF taskState = from THEN to ELSE taskState
  /\ UNCHANGED state

ArmPass             == Confirm("receiver_ready", "pass_armed")
ConfirmPassExecuted == Confirm("pass_armed", "pass_executed")
ConfirmReceipt      == Confirm("pass_executed", "receipt_confirmed")

-----------------------------------------------------------------------------
(* Gates *)

\* monitor_safety: only an ACTIVE match is moved, and only by a failed check.
MonitorSafety(healthy) ==
  /\ state = "ACTIVE"
  /\ ~healthy
  /\ EnterRecovery

TaskPrerequisite(action) ==
  CASE action = "CollectBall" -> taskState = "pass_executed"
    [] action = "PreparePass" -> taskState = "receiver_ready"
    [] action = "ExecutePass" -> taskState = "pass_armed"
    [] OTHER                  -> TRUE

CanIssueAction(action, localizationOk, fireShotOk) ==
  \/ action = "EmergencyStop"
  \/ /\ action = "AbortTask"
     /\ state \in {"ACTIVE", "PAUSED", "RECOVERY", "FAULT"}
  \/ /\ action = "FireShot"
     /\ state = "ACTIVE"
     /\ fireShotOk
  \/ /\ action \in ActionNames \ {"EmergencyStop", "AbortTask", "FireShot"}
     /\ state = "ACTIVE"
     /\ TaskPrerequisite(action)
     /\ action \in LocalizationGatedActions => localizationOk

-----------------------------------------------------------------------------
(* Feedback from the hardware adapter *)

AbortConfirmed ==
  /\ state' = IF state = "ESTOP" THEN state ELSE "RECOVERY"
  /\ UNCHANGED taskState

ShotConfirmed ==
  /\ taskState' = IF state = "ACTIVE" THEN "shot_executed" ELSE taskState
  /\ UNCHANGED state

\* apply_action_success; receipt is evidence["receipt_confirmed"], TRUE when absent.
ApplyActionSuccess(action, receipt) ==
  \/ action = "PrepareReceive" /\ SetReceiverReady
  \/ action = "PreparePass"    /\ ArmPass
  \/ action = "ExecutePass"    /\ ConfirmPassExecuted
  \/ action = "CollectBall"    /\ receipt  /\ ConfirmReceipt
  \/ action = "CollectBall"    /\ ~receipt /\ UNCHANGED coreVars
  \/ action = "FireShot"       /\ ShotConfirmed
  \/ action \in {"NavigateToPose", "PrepareShot"} /\ UNCHANGED coreVars
  \/ action = "AbortTask"      /\ AbortConfirmed
  \/ action = "EmergencyStop"  /\ EmergencyStop

\* handle_action_failure, called once for each of the actions: an emergency
\* stop among them latches whatever the order of the calls.
HandleActionFailures(actions) ==
  /\ state' = IF "EmergencyStop" \in actions THEN "ESTOP"
              ELSE IF state \in {"ACTIVE", "PAUSED", "FAULT"} THEN "RECOVERY"
              ELSE state
  /\ UNCHANGED taskState
=============================================================================
