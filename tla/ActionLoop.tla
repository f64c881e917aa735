----------------------------- MODULE ActionLoop -----------------------------
(***************************************************************************)
(* The supervisor node and the action executor joined by their two topics. *)
(*                                                                         *)
(* /robocon/action/request: a request, once published, may be delivered at *)
(* any later time, again, after a newer one, after its publisher was       *)
(* restarted, or never; the expiry and the deduplicator exist for this.    *)
(* /robocon/action/feedback: one writer, one ordered reliable topic, so    *)
(* feedback keeps its order, but a message the queue dropped is lost.      *)
(* /robocon/mechanism/ball_present is republished every 50 ms and lags     *)
(* behind the mechanism.                                                   *)
(***************************************************************************)
EXTENDS SupervisorNode, SyntheticExecutor, FiniteSets, Functions

CONSTANTS
  MaxFeedback,  \* bound: feedback messages in flight
  MaxDuplicates,\* bound: repeated deliveries
  MaxPending,   \* bound: requests pending at a time
  Plan          \* bound: the actions the operator may choose for each request

VARIABLES
  inFlight,     \* the request topic: delivered in any order or never
  duplicates,   \* how many deliveries left their message in flight
  feedback,     \* the feedback topic, oldest first; the field boot is history
  ballTopic,    \* what the next ball_present message the node takes says
  executed      \* history: the requests the mechanism carried out, in order

ASSUME LoopAssumption ==
  /\ MaxFeedback \in Nat
  /\ MaxPending \in Nat
  /\ MaxDuplicates \in Nat
  /\ Plan \in [1..MaxActions -> SUBSET Actions]
  /\ FailureAction \in ActionNames \cup {""}

wireVars == <<inFlight, duplicates>>
loopVars == <<nodeVars, executorVars, wireVars, feedback, ballTopic, executed>>

TaskOf(boot) == IF FixedTaskId THEN 0 ELSE boot

\* A request on the wire, as the executor sees it.
Message(i) == [boot |-> boots, id |-> i, action |-> requests[i].action]

LoopInit ==
  /\ NodeInit
  /\ ExecutorInit(0..MaxBoots)
  /\ inFlight = {}
  /\ duplicates = 0
  /\ feedback = <<>>
  /\ ballTopic = TRUE
  /\ executed = <<>>

-----------------------------------------------------------------------------

FeedsBack(m, answer) ==
  /\ Len(feedback) < MaxFeedback
  /\ feedback' = Append(feedback,
       [task |-> TaskOf(m.boot), id |-> m.id, action |-> m.action,
        state |-> answer, receipt |-> TRUE, boot |-> m.boot])

\* The executor takes a request and accepts or refuses it.  Both nodes read one wall
\* clock, so a request of the running process is fresh exactly until it has elapsed;
\* how old one of an earlier process is, is left open.
ExecutorReceives(m, fresh) ==
  /\ \/ inFlight' = inFlight \ {m} /\ UNCHANGED duplicates
     \/ /\ duplicates < MaxDuplicates
        /\ duplicates' = duplicates + 1
        /\ UNCHANGED inFlight
  /\ m.boot = boots => fresh = (m.id > elapsed)
  /\ TakesUp(m, TaskOf(m.boot), fresh)
  /\ FeedsBack(m, IF DeduplicatorAccepts(latest, TaskOf(m.boot), m.id, fresh)
                  THEN "working" ELSE "failed")
  /\ UNCHANGED <<nodeVars, ballTopic, executed>>

\* What was accepted is carried out, however much later: it may have expired, and
\* its supervisor may be another process, by then.
ExecutorCarriesOut(m) ==
  /\ CarriesOut(m)
  /\ FeedsBack(m, IF Succeeds(m.action) THEN "succeeded" ELSE "failed")
  /\ executed' = IF Succeeds(m.action) THEN Append(executed, m) ELSE executed
  /\ UNCHANGED <<nodeVars, wireVars, ballTopic>>

\* Messages published before the mechanism moved are taken, or dropped, first.
BallTopicCatchesUp ==
  /\ ballTopic # plant["ball_present"]
  /\ ballTopic' = plant["ball_present"]
  /\ UNCHANGED <<nodeVars, executorVars, wireVars, feedback, executed>>

BallPresentArrives ==
  /\ "ball_present" \notin Steady
  /\ BoolCallback("ball_present", ballTopic)
  /\ UNCHANGED <<executorVars, wireVars, feedback, ballTopic, executed>>

DeliverFeedback ==
  /\ feedback # <<>>
  /\ ActionFeedbackCallback(Head(feedback))
  /\ feedback' = Tail(feedback)
  /\ UNCHANGED <<executorVars, wireVars, ballTopic, executed>>

LoseFeedback ==
  /\ feedback # <<>>
  /\ feedback' = Tail(feedback)
  /\ UNCHANGED <<nodeVars, executorVars, wireVars, ballTopic, executed>>

\* The signals of other nodes; ball_present comes from the executor here, and
\* preflight passes (SupervisorNode alone meets every signal and command).
EnvironmentSignal ==
  \/ \E s \in Signals \ (Steady \cup {"ball_present"}), v \in BOOLEAN : BoolCallback(s, v)
  \/ \E s \in Signals : Age(s)
  \/ PreflightReadyCallback(TRUE)

LoopOperator ==
  \/ CommandPreflight
  \/ CommandStart
  \/ CommandRecover
  \/ CommandEstop

SupervisorStep ==
  /\ EnvironmentSignal \/ LoopOperator \/ TimerStep \/ Elapse \/ Restart
  /\ UNCHANGED <<executorVars, wireVars, feedback, ballTopic, executed>>

OperatorRequests(a) ==
  /\ Cardinality(pending) < MaxPending
  /\ Len(requests) < MaxActions
  /\ a \in Plan[Len(requests) + 1]
  /\ CommandAction(a)
  /\ inFlight' = inFlight \cup
       {[boot |-> boots, id |-> Len(requests'), action |-> a]}
  /\ UNCHANGED <<executorVars, duplicates, feedback, ballTopic, executed>>

LoopNext ==
  \/ \E m \in inFlight, fresh \in BOOLEAN : ExecutorReceives(m, fresh)
  \/ \E m \in inHand : ExecutorCarriesOut(m)
  \/ BallTopicCatchesUp
  \/ BallPresentArrives
  \/ DeliverFeedback
  \/ LoseFeedback
  \/ SupervisorStep
  \/ \E a \in Actions : OperatorRequests(a)

LoopSpec == LoopInit /\ [][LoopNext]_loopVars

-----------------------------------------------------------------------------
(* Properties *)

RequestMessage == [boot : 0..MaxBoots, id : 1..MaxActions, action : ActionNames]

LoopTypeOK ==
  /\ NodeTypeOK
  /\ plant \in [PlantFlags -> BOOLEAN]
  /\ latest \in [0..MaxBoots -> 0..MaxActions]
  /\ inHand \subseteq RequestMessage
  /\ inFlight \subseteq RequestMessage
  /\ duplicates \in 0..MaxDuplicates
  /\ Len(feedback) <= MaxFeedback
  /\ \A k \in DOMAIN feedback :
       /\ feedback[k].task \in 0..MaxBoots
       /\ feedback[k].id \in 1..MaxActions
       /\ feedback[k].state \in {"working", "succeeded", "failed"}
  /\ ballTopic \in BOOLEAN
  /\ \A k \in DOMAIN executed : executed[k] \in RequestMessage

\* What the supervisor believes of the task happened in the mechanism: with no
\* peer reporting evidence, every evidence state it can be in is backed by the
\* sensor that proves it, although the feedback it believes may be lost, late or
\* answer a request of an earlier process.  (pass_armed itself is not listed: an
\* abort disarms the mechanism and leaves taskState alone.)
EvidenceIsPhysical ==
  /\ taskState \in {"receiver_ready", "pass_armed"} => plant["receiver_ready"]
  /\ taskState \in {"pass_executed", "receipt_confirmed"} => plant["pass_executed"]
  /\ taskState = "receipt_confirmed" => plant["receipt_confirmed"]
  /\ taskState = "shot_executed" => plant["shot_released"]

\* A request the supervisor counts as succeeded was carried out, that very
\* request and not its namesake of an earlier process.
SuccessIsOwn ==
  \A i \in DOMAIN requests :
    requests[i].status = "succeeded" => \E k \in DOMAIN executed : executed[k] = Message(i)

\* The mechanism carries out each request at most once, and those of one task in
\* the order they were published, however often and in whatever order they are
\* delivered ("idempotent", actions.py:76, test_action_request_is_expiring_and_idempotent).
ExecutedOnceInOrder ==
  \A j, k \in DOMAIN executed :
    j < k /\ TaskOf(executed[j].boot) = TaskOf(executed[k].boot)
      => executed[j].id < executed[k].id

\* The timeout and the executor race.  A request the supervisor has given up may
\* still be carried out if the executor had accepted it by then (simulator.py:161
\* reads the clock once, :169 does not); one it had not accepted is never accepted
\* nor carried out any more while that supervisor runs, whatever is delivered again.
TakenUp == inHand \cup Range(executed)

ExpiredStaysUnexecuted ==
  [][\A i \in DOMAIN requests :
       /\ boots' = boots
       /\ requests[i].status = "expired"
       /\ Message(i) \notin TakenUp
       => Message(i) \notin TakenUp']_loopVars

\* A ball leaves the robot only if it has one: passes and shots never outnumber
\* the ball it starts with and the receipts, so a second FireShot that was
\* published on a late ball_present message releases nothing.
BallLeavesOnce ==
  LET times(actions) == Cardinality({k \in DOMAIN executed : executed[k].action \in actions})
  IN  times({"ExecutePass", "FireShot"}) <= 1 + times({"CollectBall"})

-----------------------------------------------------------------------------
(* Instances for TLC *)

\* The whole way from the receiver to the shot, one request at a time; the last
\* two may be two attempts at the shot, and an abort may end it in the middle.
WholeTask ==
  {"PrepareReceive", "PreparePass", "ExecutePass", "CollectBall", "PrepareShot", "FireShot",
   "AbortTask"}
TaskPlan ==
  <<{"PrepareReceive"}, {"PreparePass"}, {"ExecutePass", "AbortTask"}, {"CollectBall"},
    {"PrepareShot"}, {"FireShot"}, {"FireShot"}>>

\* Across a restart of the supervisor.
RestartActions == {"PrepareReceive", "NavigateToPose"}
RestartPlan == [i \in 1..2 |-> RestartActions]

AllButBall == Signals \ {"ball_present"}
AllSignals == Signals
NoEvidence == {}
=============================================================================
