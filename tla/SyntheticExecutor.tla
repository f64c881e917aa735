------------------------- MODULE SyntheticExecutor --------------------------
(***************************************************************************)
(* RoboconActionSimulator (simulator.py): the action executor that stands  *)
(* for the hardware adapters, and the mechanism it drives.  A request is   *)
(* answered from the state of the mechanism, never from elapsed time.      *)
(*                                                                         *)
(* The flag healthy is left out: no code of the repository clears it.      *)
(***************************************************************************)
EXTENDS Integers

CONSTANT FailureAction  \* parameter failure_action: an action name or ""

VARIABLES
  plant,   \* SyntheticMechanismPlant
  latest,  \* ActionDeduplicator._latest, per task id
  inHand   \* the request _request_callback has accepted and not answered yet

executorVars == <<plant, latest, inHand>>

PlantFlags ==
  {"ball_present", "receiver_ready", "pass_armed", "pass_executed",
   "receipt_confirmed", "shot_ready", "shot_released", "estop_latched"}

ExecutorInit(tasks) ==
  /\ plant = [f \in PlantFlags |-> f = "ball_present"]
  /\ latest = [t \in tasks |-> 0]
  /\ inHand = {}

\* Mutants of DeduplicatorAccepts: the TTL is not checked; the comparison lets
\* the newest sequence in again.
AcceptsStale(newest, task, sequence, fresh) == newest[task] < sequence

AcceptsAgain(newest, task, sequence, fresh) == fresh /\ newest[task] <= sequence

\* ActionDeduplicator.accept, by which a request is carried out once.  newest maps
\* a task to the newest sequence accepted for it (0: none; the supervisor is the
\* only sender and counts from 1).  A request past its TTL is refused before it is
\* compared.
DeduplicatorAccepts(newest, task, sequence, fresh) ==
  /\ fresh
  /\ newest[task] < sequence

\* Mutant of RequiredFlags: a shot does not ask for the ball.
RequiredWithoutBall(action) ==
  CASE action = "PreparePass" -> {"receiver_ready", "ball_present"}
    [] action = "ExecutePass" -> {"pass_armed", "ball_present"}
    [] action = "CollectBall" -> {"pass_executed"}
    [] action = "PrepareShot" -> {"receipt_confirmed", "ball_present"}
    [] action = "FireShot"    -> {"shot_ready"}
    [] OTHER                  -> {}

\* What the sensors must show before an action is carried out.
RequiredFlags(action) ==
  CASE action = "PreparePass" -> {"receiver_ready", "ball_present"}
    [] action = "ExecutePass" -> {"pass_armed", "ball_present"}
    [] action = "CollectBall" -> {"pass_executed"}
    [] action = "PrepareShot" -> {"receipt_confirmed", "ball_present"}
    [] action = "FireShot"    -> {"shot_ready", "ball_present"}
    [] OTHER                  -> {}

RaisedFlags(action) ==
  CASE action = "PrepareReceive" -> {"receiver_ready"}
    [] action = "PreparePass"    -> {"pass_armed"}
    [] action = "ExecutePass"    -> {"pass_executed"}
    [] action = "CollectBall"    -> {"receipt_confirmed", "ball_present"}
    [] action = "PrepareShot"    -> {"shot_ready"}
    [] action = "FireShot"       -> {"shot_released"}
    [] action = "EmergencyStop"  -> {"estop_latched"}
    [] OTHER                     -> {}

ClearedFlags(action) ==
  CASE action \in {"ExecutePass", "FireShot"} -> {"ball_present"}
    [] action = "AbortTask"                   -> {"pass_armed", "shot_ready"}
    [] OTHER                                  -> {}

PlantAccepts(action) ==
  /\ plant["estop_latched"] => action = "EmergencyStop"
  /\ \A f \in RequiredFlags(action) : plant[f]

PlantApply(action) ==
  plant' = [f \in PlantFlags |->
              \/ f \in RaisedFlags(action)
              \/ plant[f] /\ f \notin ClearedFlags(action)]

\* _request_callback up to "accepted": fresh is request.is_fresh(now) as read at
\* its start.  The node spins one thread, so no other request is taken while one
\* is in hand; the rest of the system goes on.
TakesUp(m, task, fresh) ==
  /\ inHand = {}
  /\ \/ /\ DeduplicatorAccepts(latest, task, m.id, fresh)
        /\ latest' = [latest EXCEPT ![task] = m.id]
        /\ inHand' = {m}
     \/ /\ ~DeduplicatorAccepts(latest, task, m.id, fresh)
        /\ UNCHANGED <<latest, inHand>>
  /\ UNCHANGED plant

Succeeds(action) == action # FailureAction /\ PlantAccepts(action)

\* The rest of it: neither the expiry nor anything else is looked at again.
CarriesOut(m) ==
  /\ m \in inHand
  /\ inHand' = {}
  /\ \/ Succeeds(m.action) /\ PlantApply(m.action)
     \/ ~Succeeds(m.action) /\ UNCHANGED plant
  /\ UNCHANGED latest
=============================================================================
