-------------------------- MODULE ActionLoopProofs --------------------------
(***************************************************************************)
(* Theorems about ActionLoop, for any number of requests, restarts and     *)
(* deliveries, any plan of the operator and any action that is made to     *)
(* fail.                                                                   *)
(***************************************************************************)
EXTENDS ActionLoop, SupervisorNodeProofs, FiniteSetTheorems

-----------------------------------------------------------------------------
(* Type correctness *)

States == {"working", "succeeded", "failed"}

FeedbackMessage ==
  [task : 0..MaxBoots, id : 1..MaxActions, action : ActionNames, state : States,
   receipt : {TRUE}, boot : 0..MaxBoots]

\* LoopTypeOK, with the shape of the sequences in full.
LoopInv ==
  /\ NodeTypeOK
  /\ plant \in [PlantFlags -> BOOLEAN]
  /\ latest \in [0..MaxBoots -> 0..MaxActions]
  /\ inHand \subseteq RequestMessage
  /\ inFlight \subseteq RequestMessage
  /\ duplicates \in 0..MaxDuplicates
  /\ feedback \in Seq(FeedbackMessage)
  /\ Len(feedback) <= MaxFeedback
  /\ \A k \in DOMAIN feedback : feedback[k].task = TaskOf(feedback[k].boot)
  /\ ballTopic \in BOOLEAN
  /\ executed \in Seq(RequestMessage)

LEMMA TaskType == ASSUME NEW b \in 0..MaxBoots PROVE TaskOf(b) \in 0..MaxBoots
  BY SupervisorAssumption DEF TaskOf, SupervisorAssumption

LEMMA LoopInvInit == LoopInit => LoopInv
<1> SUFFICES ASSUME LoopInit PROVE LoopInv
  OBVIOUS
<1>1. NodeTypeOK
  BY NodeTypeInit DEF LoopInit
<1>2. plant \in [PlantFlags -> BOOLEAN] /\ latest \in [0..MaxBoots -> 0..MaxActions]
  BY SupervisorAssumption DEF LoopInit, ExecutorInit, SupervisorAssumption
<1>3. MaxDuplicates \in Nat /\ MaxFeedback \in Nat
  BY LoopAssumption DEF LoopAssumption
<1>4. /\ inFlight = {} /\ duplicates = 0 /\ ballTopic = TRUE
      /\ feedback = <<>> /\ executed = <<>> /\ inHand = {}
  BY DEF LoopInit, ExecutorInit
<1>5. duplicates \in 0..MaxDuplicates /\ Len(feedback) <= MaxFeedback
  BY <1>3, <1>4
<1>6. feedback \in Seq(FeedbackMessage) /\ executed \in Seq(RequestMessage)
  BY <1>4
<1>7. \A k \in DOMAIN feedback : feedback[k].task = TaskOf(feedback[k].boot)
  BY <1>4
<1>8. QED
  BY <1>1, <1>2, <1>4, <1>5, <1>6, <1>7 DEF LoopInv

\* An answer keeps the feedback topic well formed.
LEMMA FeedType ==
  ASSUME LoopInv, NEW m \in RequestMessage, NEW answer \in States, FeedsBack(m, answer)
  PROVE  /\ feedback' \in Seq(FeedbackMessage) /\ Len(feedback') <= MaxFeedback
         /\ \A k \in DOMAIN feedback' : feedback'[k].task = TaskOf(feedback'[k].boot)
<1> DEFINE fb == [task |-> TaskOf(m.boot), id |-> m.id, action |-> m.action,
                  state |-> answer, receipt |-> TRUE, boot |-> m.boot]
<1>1. /\ m.boot \in 0..MaxBoots /\ m.id \in 1..MaxActions /\ m.action \in ActionNames
  BY DEF RequestMessage
<1>2. fb \in FeedbackMessage
  BY <1>1, TaskType DEF FeedbackMessage
<1>3. fb.task = TaskOf(fb.boot)
  OBVIOUS
<1>4. feedback' = Append(feedback, fb) /\ Len(feedback) < MaxFeedback /\ MaxFeedback \in Nat
  BY LoopAssumption DEF FeedsBack, LoopAssumption
<1>5. feedback \in Seq(FeedbackMessage)
      /\ \A k \in DOMAIN feedback : feedback[k].task = TaskOf(feedback[k].boot)
  BY DEF LoopInv
<1> HIDE DEF fb
<1>6. /\ feedback' \in Seq(FeedbackMessage) /\ Len(feedback') = Len(feedback) + 1
      /\ \A k \in DOMAIN feedback' :
           (k \in DOMAIN feedback /\ feedback'[k] = feedback[k]) \/ feedback'[k] = fb
  BY <1>2, <1>4, <1>5
<1>7. Len(feedback') <= MaxFeedback
  BY <1>4, <1>5, <1>6
<1>8. ASSUME NEW k \in DOMAIN feedback' PROVE feedback'[k].task = TaskOf(feedback'[k].boot)
  BY <1>3, <1>5, <1>6
<1>9. QED
  BY <1>6, <1>7, <1>8

\* What the executor leaves behind when it takes m, and when it has carried m out.
LEMMA ReceivesType ==
  ASSUME LoopInv, NEW m \in inFlight, NEW fresh \in BOOLEAN, ExecutorReceives(m, fresh)
  PROVE  LoopInv'
<1>1. m \in RequestMessage /\ m.boot \in 0..MaxBoots /\ m.id \in 0..MaxActions
  BY SupervisorAssumption DEF LoopInv, RequestMessage, SupervisorAssumption
<1>2. NodeTypeOK' /\ ballTopic' \in BOOLEAN /\ executed' \in Seq(RequestMessage)
  BY DEF LoopInv, ExecutorReceives, NodeTypeOK, nodeVars, CoreTypeOK, SignalTypeOK, BooksTypeOK,
         coreVars, signalVars, actionVars
<1>3. plant' \in [PlantFlags -> BOOLEAN]
  BY DEF LoopInv, ExecutorReceives, TakesUp
<1>4. latest' \in [0..MaxBoots -> 0..MaxActions]
  <2>1. latest' = latest \/ latest' = [latest EXCEPT ![TaskOf(m.boot)] = m.id]
    BY DEF ExecutorReceives, TakesUp
  <2>2. QED
    BY <1>1, <2>1 DEF LoopInv
<1>5. inHand' \subseteq RequestMessage
  BY <1>1 DEF LoopInv, ExecutorReceives, TakesUp
<1>6. inFlight' \subseteq RequestMessage /\ duplicates' \in 0..MaxDuplicates
  <2>1. duplicates \in 0..MaxDuplicates /\ MaxDuplicates \in Nat
    BY LoopAssumption DEF LoopInv, LoopAssumption
  <2>2. \/ inFlight' = inFlight \ {m} /\ duplicates' = duplicates
        \/ duplicates < MaxDuplicates /\ duplicates' = duplicates + 1 /\ inFlight' = inFlight
    BY DEF ExecutorReceives
  <2>3. duplicates' \in 0..MaxDuplicates
    BY <2>1, <2>2
  <2>4. QED
    BY <2>2, <2>3 DEF LoopInv
<1>7. PICK answer \in States : FeedsBack(m, answer)
  BY DEF ExecutorReceives, States
<1>8. /\ feedback' \in Seq(FeedbackMessage) /\ Len(feedback') <= MaxFeedback
      /\ \A k \in DOMAIN feedback' : feedback'[k].task = TaskOf(feedback'[k].boot)
  BY <1>1, <1>7, FeedType
<1>9. QED
  BY <1>2, <1>3, <1>4, <1>5, <1>6, <1>8 DEF LoopInv, TaskOf

LEMMA CarriesType ==
  ASSUME LoopInv, NEW m \in inHand, ExecutorCarriesOut(m)
  PROVE  LoopInv'
<1>1. m \in RequestMessage
  BY DEF LoopInv
<1>2. /\ NodeTypeOK' /\ ballTopic' \in BOOLEAN /\ inFlight' \subseteq RequestMessage
      /\ duplicates' \in 0..MaxDuplicates
  BY DEF LoopInv, ExecutorCarriesOut, NodeTypeOK, nodeVars, CoreTypeOK, SignalTypeOK, BooksTypeOK,
         coreVars, signalVars, actionVars, wireVars
<1>3. /\ plant' \in [PlantFlags -> BOOLEAN] /\ latest' \in [0..MaxBoots -> 0..MaxActions]
      /\ inHand' \subseteq RequestMessage
  BY DEF LoopInv, ExecutorCarriesOut, CarriesOut, PlantApply
<1>4. executed' \in Seq(RequestMessage)
  BY <1>1 DEF LoopInv, ExecutorCarriesOut
<1>5. PICK answer \in States : FeedsBack(m, answer)
  BY DEF ExecutorCarriesOut, States
<1>6. /\ feedback' \in Seq(FeedbackMessage) /\ Len(feedback') <= MaxFeedback
      /\ \A k \in DOMAIN feedback' : feedback'[k].task = TaskOf(feedback'[k].boot)
  BY <1>1, <1>5, FeedType
<1>7. QED
  BY <1>2, <1>3, <1>4, <1>6 DEF LoopInv, TaskOf

LEMMA SupervisorType == ASSUME NodeTypeOK, SupervisorStep PROVE NodeTypeOK'
<1>1. CASE EnvironmentSignal
  <2>1. SignalStep
    BY <1>1 DEF EnvironmentSignal, SignalStep
  <2>2. QED
    BY <2>1, SignalStepType
<1>2. CASE LoopOperator
  <2>1. CoreTypeOK' /\ NodeUnchanged
    BY <1>2, CoreOperations
       DEF LoopOperator, CommandPreflight, CommandStart, CommandRecover, CommandEstop, NodeTypeOK
  <2>2. QED
    BY <2>1, CoreOnlyType
<1>3. QED
  BY <1>1, <1>2, TimerType, RestartType DEF SupervisorStep

LEMMA OperatorType ==
  ASSUME LoopInv, NEW a \in Actions, OperatorRequests(a)
  PROVE  LoopInv'
<1> USE DEF LoopInv
<1>1. a \in ActionNames
  BY SupervisorAssumption DEF SupervisorAssumption
<1>2. NodeTypeOK'
  BY <1>1, CommandActionType DEF OperatorRequests
<1>3. requests \in Seq(RequestRecord) /\ Len(requests) < MaxActions /\ boots \in 0..MaxBoots
  BY DEF OperatorRequests, NodeTypeOK, BooksTypeOK
<1>4. Len(requests') = Len(requests) + 1
  BY <1>3 DEF OperatorRequests, CommandAction, PublishActionRequest
<1>5. Len(requests') \in 1..MaxActions
  BY <1>3, <1>4, SupervisorAssumption DEF SupervisorAssumption
<1>6. inFlight' \subseteq RequestMessage
  BY <1>1, <1>3, <1>5 DEF OperatorRequests, RequestMessage
<1>7. QED
  BY <1>2, <1>6 DEF OperatorRequests, executorVars, TaskOf

\* A feedback is delivered or lost.
LEMMA TailType ==
  ASSUME LoopInv, feedback # <<>>, feedback' = Tail(feedback)
  PROVE  /\ feedback' \in Seq(FeedbackMessage) /\ Len(feedback') <= MaxFeedback
         /\ \A k \in DOMAIN feedback' : feedback'[k].task = TaskOf(feedback'[k].boot)
         /\ \A k \in DOMAIN feedback' : k + 1 \in DOMAIN feedback /\ feedback'[k] = feedback[k + 1]
         /\ 1 \in DOMAIN feedback /\ Head(feedback) = feedback[1]
<1>1. feedback \in Seq(FeedbackMessage) /\ Len(feedback) <= MaxFeedback /\ MaxFeedback \in Nat
  BY LoopAssumption DEF LoopInv, LoopAssumption
<1>2. /\ feedback' \in Seq(FeedbackMessage) /\ Len(feedback') <= MaxFeedback
      /\ 1 \in DOMAIN feedback /\ Head(feedback) = feedback[1]
  BY <1>1
<1>3. ASSUME NEW k \in DOMAIN feedback'
      PROVE  k + 1 \in DOMAIN feedback /\ feedback'[k] = feedback[k + 1]
  BY <1>1
<1>4. \A k \in DOMAIN feedback : feedback[k].task = TaskOf(feedback[k].boot)
  BY DEF LoopInv
<1>5. QED
  BY <1>2, <1>3, <1>4

LEMMA LoopInvStep == ASSUME LoopInv, [LoopNext]_loopVars PROVE LoopInv'
<1>1. ASSUME NEW m \in inFlight, NEW fresh \in BOOLEAN, ExecutorReceives(m, fresh)
      PROVE  LoopInv'
  BY <1>1, ReceivesType
<1>0. ASSUME NEW m \in inHand, ExecutorCarriesOut(m) PROVE LoopInv'
  BY <1>0, CarriesType
<1>2. CASE BallTopicCatchesUp
  <2>1. NodeTypeOK'
    BY <1>2 DEF BallTopicCatchesUp, LoopInv, NodeTypeOK, nodeVars, CoreTypeOK, SignalTypeOK,
                BooksTypeOK, coreVars, signalVars, actionVars
  <2>2. ballTopic' \in BOOLEAN
    BY <1>2 DEF BallTopicCatchesUp, LoopInv, PlantFlags
  <2>3. QED
    BY <1>2, <2>1, <2>2 DEF BallTopicCatchesUp, LoopInv, executorVars, wireVars
<1>3. CASE BallPresentArrives
  <2>1. SignalStep
    BY <1>3 DEF BallPresentArrives, SignalStep, LoopInv, Signals
  <2>2. NodeTypeOK'
    BY <2>1, SignalStepType DEF LoopInv
  <2>3. QED
    BY <1>3, <2>2 DEF BallPresentArrives, LoopInv, executorVars, wireVars
<1>4. CASE DeliverFeedback
  <2>1. Head(feedback) \in FeedbackMessage /\ ActionFeedbackCallback(Head(feedback))
    BY <1>4, TailType DEF DeliverFeedback, LoopInv
  <2>2. Head(feedback).receipt \in BOOLEAN
    BY <2>1 DEF FeedbackMessage
  <2> HIDE DEF FeedbackMessage
  <2>3. NodeTypeOK'
    BY <2>1, <2>2, FeedbackType DEF LoopInv
  <2>4. QED
    BY <1>4, <2>3, TailType DEF DeliverFeedback, LoopInv, executorVars, wireVars
<1>5. CASE LoseFeedback
  <2>1. NodeTypeOK'
    BY <1>5 DEF LoseFeedback, LoopInv, NodeTypeOK, nodeVars, CoreTypeOK, SignalTypeOK,
                BooksTypeOK, coreVars, signalVars, actionVars
  <2>2. QED
    BY <1>5, <2>1, TailType DEF LoseFeedback, LoopInv, executorVars, wireVars
<1>6. CASE SupervisorStep
  <2>1. NodeTypeOK'
    BY <1>6, SupervisorType DEF LoopInv
  <2>2. QED
    BY <1>6, <2>1 DEF SupervisorStep, LoopInv, executorVars, wireVars, TaskOf
<1>7. ASSUME NEW a \in Actions, OperatorRequests(a) PROVE LoopInv'
  BY <1>7, OperatorType
<1>8. CASE UNCHANGED loopVars
  BY <1>8 DEF loopVars, LoopInv, NodeTypeOK, nodeVars, CoreTypeOK, SignalTypeOK, BooksTypeOK,
              coreVars, signalVars, actionVars, executorVars, wireVars, TaskOf
<1>9. QED
  BY <1>0, <1>1, <1>2, <1>3, <1>4, <1>5, <1>6, <1>7, <1>8 DEF LoopNext

LEMMA LoopInvariant == LoopSpec => []LoopInv
<1>1. QED
  BY LoopInvInit, LoopInvStep, PTL DEF LoopSpec

\* Both nodes and the topics between them keep their variables well formed: what is
\* on the wire, in the feedback queue and on record is a request some process of
\* the supervisor published, or an answer to one.
THEOREM LoopTypeCorrect == LoopSpec => []LoopTypeOK
<1>1. ASSUME LoopInv PROVE LoopTypeOK
  <2>1. ASSUME NEW k \in DOMAIN feedback
        PROVE  /\ feedback[k].task \in 0..MaxBoots
               /\ feedback[k].id \in 1..MaxActions
               /\ feedback[k].state \in {"working", "succeeded", "failed"}
    <3>1. feedback[k] \in FeedbackMessage
      BY <1>1 DEF LoopInv
    <3>2. QED
      BY <3>1 DEF FeedbackMessage, States
  <2>2. \A k \in DOMAIN executed : executed[k] \in RequestMessage
    BY <1>1 DEF LoopInv
  <2>3. QED
    BY <1>1, <2>1, <2>2 DEF LoopInv, LoopTypeOK
<1>2. QED
  BY <1>1, LoopInvariant, PTL

-----------------------------------------------------------------------------
(* What a step does to the mechanism and to the feedback *)

\* A request is taken up when it is fresh and newer than the last of its task.
Accepts(m) ==
  /\ m \in RequestMessage /\ TaskOf(m.boot) \in 0..MaxBoots
  /\ m.boot = boots => m.id > elapsed
  /\ latest[TaskOf(m.boot)] < m.id
  /\ latest' = [latest EXCEPT ![TaskOf(m.boot)] = m.id]
  /\ inHand = {} /\ inHand' = {m}
  /\ UNCHANGED <<plant, executed>>

\* What the executor had in hand is answered; if it succeeded, it is on record.
Finishes(m) ==
  /\ m \in inHand /\ inHand' = {} /\ UNCHANGED latest
  /\ \/ UNCHANGED <<plant, executed>>
     \/ /\ PlantAccepts(m.action) /\ PlantApply(m.action)
        /\ executed' = Append(executed, m)

LEMMA ReceivesWhat ==
  ASSUME LoopInv, NEW m \in inFlight, NEW fresh \in BOOLEAN, ExecutorReceives(m, fresh)
  PROVE  \/ Accepts(m)
         \/ UNCHANGED <<plant, latest, inHand, executed>>
<1>1. m \in RequestMessage /\ m.boot \in 0..MaxBoots
  BY DEF LoopInv, RequestMessage
<1>2. TaskOf(m.boot) \in 0..MaxBoots
  BY <1>1, TaskType
<1>3. UNCHANGED <<plant, executed>> /\ (m.boot = boots => fresh = (m.id > elapsed))
  BY DEF ExecutorReceives, TakesUp
<1>4. CASE DeduplicatorAccepts(latest, TaskOf(m.boot), m.id, fresh)
  <2>1. fresh /\ latest[TaskOf(m.boot)] < m.id
    BY <1>4 DEF DeduplicatorAccepts
  <2>2. m.boot = boots => m.id > elapsed
    BY <1>3, <2>1, Zenon
  <2>3. /\ inHand = {} /\ inHand' = {m}
        /\ latest' = [latest EXCEPT ![TaskOf(m.boot)] = m.id]
    BY <1>4 DEF ExecutorReceives, TakesUp
  <2>4. QED
    BY <1>1, <1>2, <1>3, <2>1, <2>2, <2>3 DEF Accepts
<1>5. CASE ~DeduplicatorAccepts(latest, TaskOf(m.boot), m.id, fresh)
  BY <1>3, <1>5 DEF ExecutorReceives, TakesUp
<1>6. QED
  BY <1>4, <1>5

LEMMA CarriesWhat ==
  ASSUME LoopInv, NEW m \in inHand, ExecutorCarriesOut(m)
  PROVE  Finishes(m)
  BY DEF ExecutorCarriesOut, CarriesOut, Finishes, Succeeds

\* Where the answers in the feedback topic come from.
LEMMA FeedsWhat ==
  ASSUME LoopInv, NEW m, NEW answer, FeedsBack(m, answer), NEW k \in DOMAIN feedback'
  PROVE  \/ k \in DOMAIN feedback /\ feedback'[k] = feedback[k]
         \/ /\ feedback'[k].state = answer
            /\ feedback'[k].action = m.action
            /\ feedback'[k].boot = m.boot
            /\ feedback'[k].id = m.id
<1> DEFINE fb == [task |-> TaskOf(m.boot), id |-> m.id, action |-> m.action,
                  state |-> answer, receipt |-> TRUE, boot |-> m.boot]
<1>1. feedback \in Seq(FeedbackMessage) /\ feedback' = Append(feedback, fb)
  BY DEF LoopInv, FeedsBack
<1>2. fb.state = answer /\ fb.action = m.action /\ fb.boot = m.boot /\ fb.id = m.id
  OBVIOUS
<1> HIDE DEF fb
<1>3. (k \in DOMAIN feedback /\ feedback'[k] = feedback[k]) \/ feedback'[k] = fb
  BY <1>1
<1>4. QED
  BY <1>2, <1>3

\* Nobody else moves the mechanism or writes the feedback topic.
LEMMA OtherSteps ==
  ASSUME LoopInv, [LoopNext]_loopVars
  PROVE  \/ \E m \in inFlight, fresh \in BOOLEAN : ExecutorReceives(m, fresh)
         \/ \E m \in inHand : ExecutorCarriesOut(m)
         \/ /\ UNCHANGED <<plant, latest, inHand, executed>>
            /\ \/ UNCHANGED feedback
               \/ feedback # <<>> /\ feedback' = Tail(feedback)
<1>1. CASE BallTopicCatchesUp \/ BallPresentArrives \/ DeliverFeedback \/ LoseFeedback
           \/ SupervisorStep \/ \E a \in Actions : OperatorRequests(a)
  BY <1>1 DEF BallTopicCatchesUp, BallPresentArrives, DeliverFeedback, LoseFeedback,
              SupervisorStep, OperatorRequests, executorVars, wireVars
<1>2. CASE UNCHANGED loopVars
  BY <1>2 DEF loopVars, executorVars
<1>3. QED
  BY <1>1, <1>2 DEF LoopNext

\* A success in the feedback topic after a step was there before it, or was put
\* there for the request the step carried out.
LEMMA SuccessOrigin ==
  ASSUME LoopInv, [LoopNext]_loopVars,
         NEW k \in DOMAIN feedback', feedback'[k].state = "succeeded"
  PROVE  \/ \E j \in DOMAIN feedback : feedback'[k] = feedback[j]
         \/ \E m \in RequestMessage :
              /\ executed' = Append(executed, m)
              /\ PlantApply(m.action)
              /\ feedback'[k].action = m.action
              /\ feedback'[k].boot = m.boot
              /\ feedback'[k].id = m.id
<1>1. ASSUME NEW m \in inFlight, NEW fresh \in BOOLEAN, ExecutorReceives(m, fresh)
      PROVE  \E j \in DOMAIN feedback : feedback'[k] = feedback[j]
  <2>1. PICK answer \in {"working", "failed"} : FeedsBack(m, answer)
    BY <1>1 DEF ExecutorReceives
  <2>2. answer # "succeeded"
    BY <2>1
  <2>3. QED
    BY <2>1, <2>2, FeedsWhat
<1>2. ASSUME NEW m \in inHand, ExecutorCarriesOut(m)
      PROVE  \/ \E j \in DOMAIN feedback : feedback'[k] = feedback[j]
             \/ /\ m \in RequestMessage
                /\ executed' = Append(executed, m)
                /\ PlantApply(m.action)
                /\ feedback'[k].action = m.action
                /\ feedback'[k].boot = m.boot
                /\ feedback'[k].id = m.id
  <2>1. m \in RequestMessage
    BY DEF LoopInv
  <2>2. CASE Succeeds(m.action)
    <3>1. /\ FeedsBack(m, "succeeded") /\ executed' = Append(executed, m)
          /\ PlantApply(m.action)
      BY <1>2, <2>2 DEF ExecutorCarriesOut, CarriesOut
    <3>2. QED
      BY <2>1, <3>1, FeedsWhat
  <2>3. CASE ~Succeeds(m.action)
    <3>1. FeedsBack(m, "failed")
      BY <1>2, <2>3 DEF ExecutorCarriesOut
    <3>2. "failed" # "succeeded"
      OBVIOUS
    <3>3. QED
      BY <3>1, <3>2, FeedsWhat
  <2>4. QED
    BY <2>2, <2>3
<1>3. CASE UNCHANGED feedback
  BY <1>3
<1>4. CASE feedback # <<>> /\ feedback' = Tail(feedback)
  BY <1>4, TailType
<1>5. QED
  BY <1>1, <1>2, <1>3, <1>4, OtherSteps

\* How a step moves the executor.
LEMMA ExecutedStep ==
  ASSUME LoopInv, [LoopNext]_loopVars
  PROVE  \/ UNCHANGED <<plant, latest, inHand, executed>>
         \/ \E m \in RequestMessage : Accepts(m)
         \/ \E m \in RequestMessage : Finishes(m)
<1>1. \A m : Accepts(m) => m \in RequestMessage
  BY DEF Accepts
<1>2. \A m \in inHand : m \in RequestMessage
  BY DEF LoopInv
<1>3. QED
  BY <1>1, <1>2, ReceivesWhat, CarriesWhat, OtherSteps

LEMMA AppendExecuted ==
  ASSUME LoopInv, NEW m \in RequestMessage, executed' = Append(executed, m)
  PROVE  /\ Len(executed) \in Nat
         /\ DOMAIN executed = 1..Len(executed)
         /\ DOMAIN executed' = 1..(Len(executed) + 1)
         /\ \A k \in DOMAIN executed : executed'[k] = executed[k]
         /\ executed'[Len(executed) + 1] = m
  BY DEF LoopInv

-----------------------------------------------------------------------------
(* Executed once and in order *)

\* What was carried out for a task is not newer than the newest request accepted, and
\* older than the one in hand, which is that newest.
OrderInv ==
  /\ \A k \in DOMAIN executed : executed[k].id <= latest[TaskOf(executed[k].boot)]
  /\ \A m \in inHand :
       /\ m.id = latest[TaskOf(m.boot)]
       /\ \A k \in DOMAIN executed :
            TaskOf(executed[k].boot) = TaskOf(m.boot) => executed[k].id < m.id
  /\ ExecutedOnceInOrder

LEMMA OrderStep == ASSUME LoopInv, OrderInv, [LoopNext]_loopVars PROVE OrderInv'
<1>1. CASE UNCHANGED <<plant, latest, inHand, executed>>
  BY <1>1 DEF OrderInv, ExecutedOnceInOrder, TaskOf
<1>2. ASSUME NEW m \in RequestMessage, Accepts(m) PROVE OrderInv'
  <2>1. /\ TaskOf(m.boot) \in 0..MaxBoots /\ latest[TaskOf(m.boot)] < m.id /\ m.id \in Int
        /\ latest' = [latest EXCEPT ![TaskOf(m.boot)] = m.id]
        /\ executed' = executed /\ inHand' = {m}
    BY <1>2 DEF Accepts, RequestMessage
  <2>2. latest'[TaskOf(m.boot)] = m.id
    BY <2>1 DEF LoopInv
  <2>3. ASSUME NEW k \in DOMAIN executed
        PROVE  /\ executed[k].id <= latest'[TaskOf(executed[k].boot)]
               /\ TaskOf(executed[k].boot) = TaskOf(m.boot) => executed[k].id < m.id
    <3>1. executed[k] \in RequestMessage
      BY DEF LoopInv
    <3>2. TaskOf(executed[k].boot) \in 0..MaxBoots /\ executed[k].id \in Int
      BY <3>1, TaskType DEF RequestMessage
    <3>3. /\ latest[TaskOf(executed[k].boot)] \in Int
          /\ latest'[TaskOf(executed[k].boot)] =
               IF TaskOf(executed[k].boot) = TaskOf(m.boot) THEN m.id
               ELSE latest[TaskOf(executed[k].boot)]
      BY <2>1, <3>2 DEF LoopInv
    <3>4. executed[k].id <= latest[TaskOf(executed[k].boot)]
      BY DEF OrderInv
    <3>5. QED
      BY <2>1, <3>2, <3>3, <3>4
  <2>4. QED
    BY <2>1, <2>2, <2>3 DEF OrderInv, ExecutedOnceInOrder, TaskOf
<1>3. ASSUME NEW m \in RequestMessage, Finishes(m), UNCHANGED executed PROVE OrderInv'
  BY <1>3 DEF OrderInv, ExecutedOnceInOrder, TaskOf, Finishes
<1>4. ASSUME NEW m \in RequestMessage, Finishes(m), executed' = Append(executed, m)
      PROVE  OrderInv'
  <2>1. /\ Len(executed) \in Nat
        /\ DOMAIN executed = 1..Len(executed)
        /\ DOMAIN executed' = 1..(Len(executed) + 1)
        /\ \A k \in DOMAIN executed : executed'[k] = executed[k]
        /\ executed'[Len(executed) + 1] = m
    BY <1>4, AppendExecuted
  <2>2. /\ m.id = latest[TaskOf(m.boot)] /\ m.id \in Int /\ latest' = latest /\ inHand' = {}
        /\ \A k \in DOMAIN executed :
             TaskOf(executed[k].boot) = TaskOf(m.boot) => executed[k].id < m.id
    BY <1>4 DEF OrderInv, Finishes, RequestMessage
  <2>3. \A k \in DOMAIN executed' : executed'[k].id <= latest'[TaskOf(executed'[k].boot)]
    <3> TAKE k \in DOMAIN executed'
    <3>1. k \in DOMAIN executed \/ k = Len(executed) + 1
      BY <2>1
    <3>2. QED
      BY <2>1, <2>2, <3>1 DEF OrderInv
  <2>4. ASSUME NEW j \in DOMAIN executed', NEW k \in DOMAIN executed',
               j < k, TaskOf(executed'[j].boot) = TaskOf(executed'[k].boot)
        PROVE  executed'[j].id < executed'[k].id
    <3>1. j \in DOMAIN executed
      BY <2>1, <2>4
    <3>2. CASE k \in DOMAIN executed
      BY <2>1, <2>4, <3>1, <3>2 DEF OrderInv, ExecutedOnceInOrder
    <3>3. CASE k = Len(executed) + 1
      BY <2>1, <2>2, <2>4, <3>1, <3>3
    <3>4. QED
      BY <2>1, <3>2, <3>3
  <2>5. QED
    BY <2>2, <2>3, <2>4 DEF OrderInv, ExecutedOnceInOrder, TaskOf
<1>5. QED
  BY <1>1, <1>2, <1>3, <1>4, ExecutedStep DEF Finishes

\* The mechanism carries out each request at most once, and those of one task in the
\* order they were published, whatever the topic delivers again or late.
THEOREM RequestsAreExecutedOnce == LoopSpec => []ExecutedOnceInOrder
<1>1. LoopInit => OrderInv
  BY DEF LoopInit, ExecutorInit, OrderInv, ExecutedOnceInOrder
<1>2. LoopInv /\ OrderInv /\ [LoopNext]_loopVars => OrderInv'
  BY OrderStep
<1>3. OrderInv => ExecutedOnceInOrder
  BY DEF OrderInv
<1>4. QED
  BY <1>1, <1>2, <1>3, LoopInvariant, PTL DEF LoopSpec

-----------------------------------------------------------------------------
(* What a step does to the requests *)

\* How a request comes by its status: a resolved one keeps it, one that expires
\* has elapsed, and one that succeeds has its answer at the head of the topic.
LEMMA RequestOrigin ==
  ASSUME LoopInv, [LoopNext]_loopVars, NEW i \in DOMAIN requests'
  PROVE  \/ requests'[i].status \in {"published", "working", "failed"}
         \/ /\ UNCHANGED boots /\ elapsed' >= elapsed
            /\ i \in DOMAIN requests /\ requests'[i].action = requests[i].action
            /\ \/ requests'[i].status = requests[i].status
               \/ requests'[i].status = "expired" /\ i <= elapsed
               \/ /\ requests'[i].status = "succeeded"
                  /\ feedback # <<>> /\ Head(feedback).state = "succeeded"
                  /\ MatchesPending(Head(feedback)) /\ Head(feedback).id = i
<1>1. /\ requests \in Seq(RequestRecord) /\ elapsed \in Nat
      /\ pending \subseteq DOMAIN requests
  BY DEF LoopInv, NodeTypeOK, BooksTypeOK
<1>2. CASE UNCHANGED <<requests, boots>> /\ elapsed' >= elapsed
  BY <1>2
<1>3. CASE UNCHANGED <<actionVars, boots>>
  BY <1>1, <1>2, <1>3 DEF actionVars
<1>4. CASE Restart
  BY <1>4 DEF Restart
<1>5. CASE Elapse
  BY <1>1, <1>2, <1>5 DEF Elapse
<1>6. CASE ExpireActions
  <2>1. /\ DOMAIN requests' = DOMAIN requests /\ UNCHANGED <<boots, elapsed>>
        /\ requests'[i] = IF i \in Overdue THEN [requests[i] EXCEPT !.status = "expired"]
                          ELSE requests[i]
    BY <1>6 DEF ExpireActions
  <2>2. requests[i] \in RequestRecord
    BY <1>1, <2>1
  <2>3. CASE i \in Overdue
    BY <1>1, <2>1, <2>2, <2>3 DEF Overdue, RequestRecord
  <2>4. CASE i \notin Overdue
    BY <1>1, <2>1, <2>4
  <2>5. QED
    BY <2>3, <2>4
<1>7. ASSUME NEW a \in Actions, OperatorRequests(a)
      PROVE  \/ requests'[i].status = "published"
             \/ i \in DOMAIN requests /\ requests'[i] = requests[i]
  <2>1. requests' = Append(requests, [action |-> a, status |-> "published"])
    BY <1>7 DEF OperatorRequests, CommandAction, PublishActionRequest
  <2>2. QED
    BY <1>1, <2>1
<1>8. ASSUME NEW a \in Actions, OperatorRequests(a) PROVE UNCHANGED <<boots, elapsed>>
  BY <1>8 DEF OperatorRequests, CommandAction, PublishActionRequest
<1>9. CASE DeliverFeedback
  <2> DEFINE fb == Head(feedback)
  <2>1. feedback # <<>> /\ ActionFeedbackCallback(fb)
    BY <1>9 DEF DeliverFeedback
  <2> HIDE DEF fb
  <2>2. CASE FeedbackRejected(fb)
    BY <1>3, <2>2 DEF FeedbackRejected, nodeVars
  <2>3. ASSUME NEW s, MatchesPending(fb),
               requests' = [requests EXCEPT ![fb.id].status = s]
        PROVE  /\ i \in DOMAIN requests
               /\ requests'[i].action = requests[i].action
               /\ requests'[i].status = IF i = fb.id THEN s ELSE requests[i].status
    <3>1. i \in DOMAIN requests /\ requests[i] \in RequestRecord
      BY <1>1, <2>3
    <3>2. requests'[i] = IF i = fb.id THEN [requests[i] EXCEPT !.status = s] ELSE requests[i]
      BY <2>3, <3>1
    <3>3. QED
      BY <3>1, <3>2 DEF RequestRecord
  <2>4. CASE ActionProgress(fb)
    <3>1. /\ MatchesPending(fb) /\ UNCHANGED <<boots, elapsed>>
          /\ requests' = [requests EXCEPT ![fb.id].status = "working"]
      BY <2>4 DEF ActionProgress
    <3>2. QED
      BY <1>1, <2>3, <3>1
  <2>5. CASE ActionSucceeded(fb)
    <3>1. /\ MatchesPending(fb) /\ fb.state = "succeeded" /\ UNCHANGED <<boots, elapsed>>
          /\ requests' = [requests EXCEPT ![fb.id].status = "succeeded"]
      BY <2>5 DEF ActionSucceeded, Resolve
    <3>2. QED
      BY <1>1, <2>1, <2>3, <3>1 DEF fb
  <2>6. CASE ActionFailed(fb)
    <3>1. /\ MatchesPending(fb) /\ UNCHANGED <<boots, elapsed>>
          /\ requests' = [requests EXCEPT ![fb.id].status = "failed"]
      BY <2>6 DEF ActionFailed, Resolve
    <3>2. QED
      BY <1>1, <2>3, <3>1
  <2>7. QED
    BY <2>1, <2>2, <2>4, <2>5, <2>6 DEF ActionFeedbackCallback
<1>10. CASE MonitorSafetyTimer \/ EnvironmentSignal \/ LoopOperator
  <2>1. UNCHANGED <<actionVars, boots>>
    BY <1>10 DEF MonitorSafetyTimer, EnvironmentSignal, BoolCallback, Age,
       PreflightReadyCallback, LoopOperator, CommandPreflight, CommandStart, CommandRecover,
       CommandEstop, NodeUnchanged
  <2>2. QED
    BY <1>3, <2>1
<1>11. CASE BallTopicCatchesUp \/ BallPresentArrives \/ LoseFeedback \/ UNCHANGED loopVars
            \/ (\E m \in inFlight, fresh \in BOOLEAN : ExecutorReceives(m, fresh))
            \/ \E m \in inHand : ExecutorCarriesOut(m)
  <2>1. UNCHANGED <<actionVars, boots>>
    BY <1>11 DEF BallTopicCatchesUp, BallPresentArrives, LoseFeedback, loopVars, nodeVars,
                 ExecutorReceives, ExecutorCarriesOut, BoolCallback
  <2>2. QED
    BY <1>3, <2>1
<1>12. CASE SupervisorStep
  BY <1>4, <1>5, <1>6, <1>10, <1>12 DEF SupervisorStep, TimerStep
<1>13. CASE \E a \in Actions : OperatorRequests(a)
  BY <1>1, <1>7, <1>8, <1>13
<1>14. QED
  BY <1>9, <1>11, <1>12, <1>13 DEF LoopNext

-----------------------------------------------------------------------------
(* Success is the request's own *)

\* A success on the feedback topic answers a request that was carried out.
AnsweredInv ==
  \A k \in DOMAIN feedback :
    feedback[k].state = "succeeded" =>
      \E j \in DOMAIN executed :
        executed[j] = [boot |-> feedback[k].boot, id |-> feedback[k].id,
                       action |-> feedback[k].action]

\* What was carried out stays on record.
LEMMA RecordGrows ==
  ASSUME LoopInv, [LoopNext]_loopVars, NEW j \in DOMAIN executed
  PROVE  j \in DOMAIN executed' /\ executed'[j] = executed[j]
<1>1. CASE UNCHANGED executed
  BY <1>1
<1>2. ASSUME NEW m \in RequestMessage, executed' = Append(executed, m)
      PROVE  j \in DOMAIN executed' /\ executed'[j] = executed[j]
  BY <1>2, AppendExecuted
<1>3. QED
  BY <1>1, <1>2, ExecutedStep DEF Accepts, Finishes

LEMMA AnsweredStep == ASSUME LoopInv, AnsweredInv, [LoopNext]_loopVars PROVE AnsweredInv'
<1> SUFFICES ASSUME NEW k \in DOMAIN feedback', feedback'[k].state = "succeeded"
             PROVE  \E j \in DOMAIN executed' :
                      executed'[j] = [boot |-> feedback'[k].boot, id |-> feedback'[k].id,
                                      action |-> feedback'[k].action]
  BY DEF AnsweredInv
<1>1. ASSUME NEW l \in DOMAIN feedback, feedback'[k] = feedback[l]
      PROVE  \E j \in DOMAIN executed' :
               executed'[j] = [boot |-> feedback'[k].boot, id |-> feedback'[k].id,
                               action |-> feedback'[k].action]
  <2>1. PICK j \in DOMAIN executed :
          executed[j] = [boot |-> feedback[l].boot, id |-> feedback[l].id,
                         action |-> feedback[l].action]
    BY <1>1 DEF AnsweredInv
  <2>2. QED
    BY <1>1, <2>1, RecordGrows
<1>2. ASSUME NEW m \in RequestMessage, executed' = Append(executed, m),
             feedback'[k].action = m.action, feedback'[k].boot = m.boot, feedback'[k].id = m.id
      PROVE  \E j \in DOMAIN executed' :
               executed'[j] = [boot |-> feedback'[k].boot, id |-> feedback'[k].id,
                               action |-> feedback'[k].action]
  <2>1. executed'[Len(executed) + 1] = m /\ Len(executed) + 1 \in DOMAIN executed'
    BY <1>2, AppendExecuted
  <2>2. m = [boot |-> m.boot, id |-> m.id, action |-> m.action]
    BY DEF RequestMessage
  <2>3. QED
    BY <1>2, <2>1, <2>2
<1>3. QED
  BY <1>1, <1>2, SuccessOrigin

LEMMA OwnStep ==
  ASSUME ~FixedTaskId, LoopInv, AnsweredInv, SuccessIsOwn, [LoopNext]_loopVars
  PROVE  SuccessIsOwn'
<1> SUFFICES ASSUME NEW i \in DOMAIN requests', requests'[i].status = "succeeded"
             PROVE  \E k \in DOMAIN executed' : executed'[k] = Message(i)'
  BY DEF SuccessIsOwn
<1>1. /\ UNCHANGED boots /\ i \in DOMAIN requests
      /\ requests'[i].action = requests[i].action
      /\ \/ requests[i].status = "succeeded"
         \/ /\ feedback # <<>> /\ Head(feedback).state = "succeeded"
            /\ MatchesPending(Head(feedback)) /\ Head(feedback).id = i
  BY RequestOrigin
<1>2. Message(i)' = Message(i)
  BY <1>1 DEF Message
<1>3. CASE requests[i].status = "succeeded"
  BY <1>1, <1>2, <1>3, RecordGrows DEF SuccessIsOwn
<1>4. CASE /\ feedback # <<>> /\ Head(feedback).state = "succeeded"
           /\ MatchesPending(Head(feedback)) /\ Head(feedback).id = i
  <2>1. feedback \in Seq(FeedbackMessage)
    BY DEF LoopInv
  <2>2. 1 \in DOMAIN feedback /\ Head(feedback) = feedback[1]
    BY <1>4, <2>1
  <2>3. feedback[1].boot = boots
    BY <1>4, <2>2 DEF LoopInv, MatchesPending, TaskId, TaskOf
  <2>4. feedback[1].action = requests[i].action
    BY <1>4, <2>2 DEF MatchesPending
  <2>5. PICK j \in DOMAIN executed : executed[j] = Message(i)
    BY <1>4, <2>2, <2>3, <2>4 DEF AnsweredInv, Message
  <2>6. QED
    BY <1>2, <2>5, RecordGrows
<1>5. QED
  BY <1>1, <1>3, <1>4

\* A request the supervisor counts as succeeded was carried out, that very request,
\* provided every process draws its own task id (the default of ros_node.py): with
\* the parameter task_id fixed, the answer to an earlier process's request counts.
THEOREM SuccessesAreOwn == ~FixedTaskId => (LoopSpec => []SuccessIsOwn)
<1> SUFFICES ASSUME ~FixedTaskId PROVE LoopSpec => []SuccessIsOwn
  OBVIOUS
<1>1. LoopInit => AnsweredInv /\ SuccessIsOwn
  BY DEF LoopInit, NodeInit, FreshInit, AnsweredInv, SuccessIsOwn
<1>2. LoopInv /\ AnsweredInv /\ SuccessIsOwn /\ [LoopNext]_loopVars
        => AnsweredInv' /\ SuccessIsOwn'
  BY AnsweredStep, OwnStep
<1>3. QED
  BY <1>1, <1>2, LoopInvariant, PTL DEF LoopSpec

-----------------------------------------------------------------------------
(* Expired requests stay unexecuted *)

ElapsedInv == \A i \in DOMAIN requests : requests[i].status = "expired" => i <= elapsed

LEMMA ElapsedStep == ASSUME LoopInv, ElapsedInv, [LoopNext]_loopVars PROVE ElapsedInv'
<1> SUFFICES ASSUME NEW i \in DOMAIN requests', requests'[i].status = "expired"
             PROVE  i <= elapsed'
  BY DEF ElapsedInv
<1>1. /\ elapsed' >= elapsed /\ i \in DOMAIN requests
      /\ requests[i].status = "expired" \/ i <= elapsed
  BY RequestOrigin
<1>2. i <= elapsed
  BY <1>1 DEF ElapsedInv
<1>3. i \in Int /\ elapsed \in Int /\ elapsed' \in Int
  <2>1. DOMAIN requests = 1..Len(requests) /\ elapsed \in 0..Len(requests)
    BY DEF LoopInv, NodeTypeOK, BooksTypeOK
  <2>2. elapsed' \in 0..Len(requests')
    BY LoopInvStep DEF LoopInv, NodeTypeOK, BooksTypeOK
  <2>3. QED
    BY <1>1, <2>1, <2>2
<1>4. QED
  BY <1>1, <1>2, <1>3

LEMMA UnexecutedStep ==
  ASSUME LoopInv, ElapsedInv, [LoopNext]_loopVars,
         NEW i \in DOMAIN requests, boots' = boots, requests[i].status = "expired",
         Message(i) \notin TakenUp
  PROVE  Message(i) \notin TakenUp'
<1> USE DEF TakenUp, Range
<1>1. CASE UNCHANGED <<plant, latest, inHand, executed>>
  BY <1>1
<1>2. ASSUME NEW m \in RequestMessage, Accepts(m) PROVE Message(i) \notin TakenUp'
  <2>1. m # Message(i)
    <3>1. i <= elapsed /\ i \in Int /\ elapsed \in Int
      BY DEF ElapsedInv, LoopInv, NodeTypeOK, BooksTypeOK
    <3>2. Message(i).boot = boots /\ Message(i).id = i
      BY DEF Message
    <3>3. m.boot = boots => m.id > elapsed
      BY <1>2 DEF Accepts
    <3>4. QED
      BY <3>1, <3>2, <3>3
  <2>2. QED
    BY <1>2, <2>1 DEF Accepts
<1>3. ASSUME NEW m \in RequestMessage, Finishes(m) PROVE Message(i) \notin TakenUp'
  <2>1. m # Message(i) /\ inHand' = {}
    BY <1>3 DEF Finishes
  <2>2. CASE UNCHANGED executed
    BY <2>1, <2>2
  <2>3. CASE executed' = Append(executed, m)
    BY <2>1, <2>3, AppendExecuted
  <2>4. QED
    BY <1>3, <2>2, <2>3 DEF Finishes
<1>4. QED
  BY <1>1, <1>2, <1>3, ExecutedStep

\* A request that expired at the supervisor before the executor took it up is neither
\* taken up nor carried out afterwards while that supervisor runs, however many are
\* pending, lost or delivered again.  (One that was in hand when it expired may be.)
THEOREM ExpiredStayUnexecuted == LoopSpec => ExpiredStaysUnexecuted
<1>1. LoopInit => ElapsedInv
  BY DEF LoopInit, NodeInit, FreshInit, ElapsedInv
<1>2. LoopInv /\ ElapsedInv /\ [LoopNext]_loopVars
        => ElapsedInv'
           /\ [\A i \in DOMAIN requests :
                 /\ boots' = boots
                 /\ requests[i].status = "expired"
                 /\ Message(i) \notin TakenUp
                 => Message(i) \notin TakenUp']_loopVars
  BY ElapsedStep, UnexecutedStep
<1>3. QED
  BY <1>1, <1>2, LoopInvariant, PTL DEF LoopSpec, ExpiredStaysUnexecuted

-----------------------------------------------------------------------------
(* Evidence is physical *)

\* No action clears these flags of the mechanism.
Lasting == {"receiver_ready", "pass_executed", "receipt_confirmed", "shot_released"}

\* A success on the feedback topic is backed by the flags its action raises.
BackedInv ==
  \A k \in DOMAIN feedback :
    feedback[k].state = "succeeded" =>
      \A f \in Lasting \cap RaisedFlags(feedback[k].action) : plant[f]

LEMMA LastingStep ==
  ASSUME LoopInv, [LoopNext]_loopVars, NEW f \in Lasting, plant[f]
  PROVE  plant'[f]
<1>1. ASSUME NEW a, PlantApply(a) PROVE plant'[f]
  BY <1>1 DEF PlantApply, PlantFlags, Lasting, ClearedFlags
<1>2. QED
  BY <1>1, ExecutedStep DEF Accepts, Finishes

LEMMA BackedStep == ASSUME LoopInv, BackedInv, [LoopNext]_loopVars PROVE BackedInv'
<1> SUFFICES ASSUME NEW k \in DOMAIN feedback', feedback'[k].state = "succeeded",
                    NEW f \in Lasting \cap RaisedFlags(feedback'[k].action)
             PROVE  plant'[f]
  BY DEF BackedInv
<1>1. ASSUME NEW l \in DOMAIN feedback, feedback'[k] = feedback[l] PROVE plant'[f]
  <2>1. plant[f]
    BY <1>1 DEF BackedInv
  <2>2. QED
    BY <2>1, LastingStep
<1>2. ASSUME NEW m \in RequestMessage, PlantApply(m.action), feedback'[k].action = m.action
      PROVE  plant'[f]
  BY <1>2 DEF PlantApply, PlantFlags, Lasting
<1>3. QED
  BY <1>1, <1>2, SuccessOrigin

\* What a step may do to the task state: only a success on the topic moves it.
LEMMA TaskStateStep ==
  ASSUME LoopInv, [LoopNext]_loopVars
  PROVE  \/ UNCHANGED taskState
         \/ taskState' = "idle"
         \/ /\ feedback # <<>> /\ Head(feedback).state = "succeeded"
            /\ ApplyActionSuccess(Head(feedback).action, Head(feedback).receipt)
<1>1. CASE SupervisorStep
  <2>1. CASE EnvironmentSignal
    BY <2>1 DEF EnvironmentSignal, BoolCallback, Age, PreflightReadyCallback, coreVars
  <2>2. CASE LoopOperator
    BY <2>2 DEF LoopOperator, CommandPreflight, CommandStart, CommandRecover, CommandEstop,
                Preflight, Start, EnterRecovery, EmergencyStop
  <2>3. CASE TimerStep \/ Elapse \/ Restart
    BY <2>3 DEF TimerStep, ExpireActions, HandleActionFailures, MonitorSafetyTimer,
                MonitorSafety, EnterRecovery, Elapse, Restart, coreVars
  <2>4. QED
    BY <1>1, <2>1, <2>2, <2>3 DEF SupervisorStep
<1>2. CASE DeliverFeedback
  BY <1>2 DEF DeliverFeedback, ActionFeedbackCallback, ActionProgress, ActionSucceeded,
              ActionFailed, FeedbackRejected, HandleActionFailures, nodeVars, coreVars
<1>3. CASE \E a \in Actions : OperatorRequests(a)
  BY <1>3 DEF OperatorRequests, CommandAction, EmergencyStop, EnterRecovery, coreVars
<1>4. CASE BallTopicCatchesUp \/ BallPresentArrives \/ LoseFeedback \/ UNCHANGED loopVars
           \/ (\E m \in inFlight, fresh \in BOOLEAN : ExecutorReceives(m, fresh))
           \/ \E m \in inHand : ExecutorCarriesOut(m)
  BY <1>4 DEF BallTopicCatchesUp, BallPresentArrives, LoseFeedback, loopVars, nodeVars,
              coreVars, ExecutorReceives, ExecutorCarriesOut, BoolCallback
<1>5. QED
  BY <1>1, <1>2, <1>3, <1>4 DEF LoopNext

LEMMA PhysicalStep ==
  ASSUME LoopInv, BackedInv, EvidenceIsPhysical, [LoopNext]_loopVars
  PROVE  EvidenceIsPhysical'
<1>1. \A f \in Lasting : plant[f] => plant'[f]
  BY LastingStep
<1>2. CASE UNCHANGED taskState
  BY <1>1, <1>2 DEF EvidenceIsPhysical, Lasting
<1>3. CASE taskState' = "idle"
  BY <1>3 DEF EvidenceIsPhysical
<1>4. CASE /\ feedback # <<>> /\ Head(feedback).state = "succeeded"
           /\ ApplyActionSuccess(Head(feedback).action, Head(feedback).receipt)
  <2> DEFINE a == Head(feedback).action
             r == Head(feedback).receipt
  <2>1. \A f \in Lasting \cap RaisedFlags(a) : plant'[f]
    <3>1. feedback \in Seq(FeedbackMessage)
      BY DEF LoopInv
    <3>2. 1 \in DOMAIN feedback /\ Head(feedback) = feedback[1]
      BY <1>4, <3>1
    <3>3. QED
      BY <1>1, <1>4, <3>2 DEF BackedInv
  <2>2. ApplyActionSuccess(a, r)
    BY <1>4
  <2> HIDE DEF a, r
  <2>3. CASE a = "PrepareReceive" /\ SetReceiverReady
    <3>1. plant'["receiver_ready"]
      BY <2>1, <2>3 DEF Lasting, RaisedFlags
    <3>2. taskState' = "receiver_ready" \/ UNCHANGED taskState
      BY <2>3 DEF SetReceiverReady
    <3>3. QED
      BY <1>2, <3>1, <3>2 DEF EvidenceIsPhysical
  <2>4. CASE a = "PreparePass" /\ ArmPass
    <3>1. (taskState = "receiver_ready" /\ taskState' = "pass_armed") \/ UNCHANGED taskState
      BY <2>4 DEF ArmPass, Confirm
    <3>2. QED
      BY <1>1, <1>2, <3>1 DEF EvidenceIsPhysical, Lasting
  <2>5. CASE a = "ExecutePass" /\ ConfirmPassExecuted
    <3>1. plant'["pass_executed"]
      BY <2>1, <2>5 DEF Lasting, RaisedFlags
    <3>2. taskState' = "pass_executed" \/ UNCHANGED taskState
      BY <2>5 DEF ConfirmPassExecuted, Confirm
    <3>3. QED
      BY <1>2, <3>1, <3>2 DEF EvidenceIsPhysical
  <2>6. CASE a = "CollectBall" /\ ConfirmReceipt
    <3>1. plant'["receipt_confirmed"]
      BY <2>1, <2>6 DEF Lasting, RaisedFlags
    <3>2. (taskState = "pass_executed" /\ taskState' = "receipt_confirmed") \/ UNCHANGED taskState
      BY <2>6 DEF ConfirmReceipt, Confirm
    <3>3. QED
      BY <1>1, <1>2, <3>1, <3>2 DEF EvidenceIsPhysical, Lasting
  <2>7. CASE a = "FireShot" /\ ShotConfirmed
    <3>1. plant'["shot_released"]
      BY <2>1, <2>7 DEF Lasting, RaisedFlags
    <3>2. taskState' = "shot_executed" \/ UNCHANGED taskState
      BY <2>7 DEF ShotConfirmed
    <3>3. QED
      BY <1>2, <3>1, <3>2 DEF EvidenceIsPhysical
  <2>8. CASE AbortConfirmed \/ EmergencyStop \/ UNCHANGED coreVars
    BY <1>2, <2>8 DEF AbortConfirmed, EmergencyStop, coreVars
  <2>9. QED
    BY <2>2, <2>3, <2>4, <2>5, <2>6, <2>7, <2>8 DEF ApplyActionSuccess
<1>5. QED
  BY <1>2, <1>3, <1>4, TaskStateStep

\* What the supervisor believes of the task, with no peer reporting evidence, the
\* mechanism did: whichever feedback was lost, came late, or answers a request of an
\* earlier process, and whichever action is made to fail.
THEOREM EvidenceBacked == LoopSpec => []EvidenceIsPhysical
<1>1. LoopInit => BackedInv /\ EvidenceIsPhysical
  BY DEF LoopInit, NodeInit, FreshInit, CoreInit, BackedInv, EvidenceIsPhysical
<1>2. LoopInv /\ BackedInv /\ EvidenceIsPhysical /\ [LoopNext]_loopVars
        => BackedInv' /\ EvidenceIsPhysical'
  BY BackedStep, PhysicalStep
<1>3. QED
  BY <1>1, <1>2, LoopInvariant, PTL DEF LoopSpec

-----------------------------------------------------------------------------
(* The ball leaves once *)

Times(actions) == Cardinality({k \in DOMAIN executed : executed[k].action \in actions})

\* The balls released and the one that is held are never more than the ball the robot
\* starts with and those it collected.
BallInv ==
  Times({"ExecutePass", "FireShot"}) + (IF plant["ball_present"] THEN 1 ELSE 0)
    <= 1 + Times({"CollectBall"})

LEMMA TimesFinite ==
  ASSUME LoopInv, NEW A
  PROVE  /\ IsFiniteSet({k \in DOMAIN executed : executed[k].action \in A})
         /\ Times(A) \in Nat
<1>1. executed \in Seq(RequestMessage)
  BY DEF LoopInv
<1>2. DOMAIN executed = 1..Len(executed) /\ Len(executed) \in Int
  BY <1>1
<1>3. IsFiniteSet(DOMAIN executed)
  BY <1>2, FS_Interval
<1>4. IsFiniteSet({k \in DOMAIN executed : executed[k].action \in A})
  BY <1>3, FS_Subset
<1>5. QED
  BY <1>4, FS_CardinalityType DEF Times

LEMMA TimesAppend ==
  ASSUME LoopInv, NEW m \in RequestMessage, executed' = Append(executed, m), NEW A
  PROVE  Times(A)' = Times(A) + (IF m.action \in A THEN 1 ELSE 0)
<1> DEFINE S == {k \in DOMAIN executed : executed[k].action \in A}
           n == Len(executed) + 1
           T == {k \in DOMAIN executed' : executed'[k].action \in A}
<1>1. IsFiniteSet(S) /\ Times(A) = Cardinality(S) /\ Times(A)' = Cardinality(T)
      /\ Cardinality(S) \in Nat
  BY TimesFinite, FS_CardinalityType DEF Times
<1>2. /\ Len(executed) \in Nat
      /\ DOMAIN executed = 1..Len(executed)
      /\ DOMAIN executed' = 1..n
      /\ \A k \in DOMAIN executed : executed'[k] = executed[k]
      /\ executed'[n] = m
  BY AppendExecuted
<1>3. n \notin S /\ DOMAIN executed' = DOMAIN executed \cup {n}
  BY <1>2
<1>4. T = IF m.action \in A THEN S \cup {n} ELSE S
  <2> HIDE DEF n
  <2>1. QED
    BY <1>2, <1>3
<1> HIDE DEF S, T, n
<1>5. CASE m.action \in A
  BY <1>1, <1>3, <1>4, <1>5, FS_AddElement
<1>6. CASE m.action \notin A
  BY <1>1, <1>4, <1>6
<1>7. QED
  BY <1>5, <1>6

LEMMA BallStep == ASSUME LoopInv, BallInv, [LoopNext]_loopVars PROVE BallInv'
<1> DEFINE Out == {"ExecutePass", "FireShot"}
           In == {"CollectBall"}
<1>1. Times(Out) \in Nat /\ Times(In) \in Nat
  BY TimesFinite
<1>2. CASE UNCHANGED <<plant, executed>>
  BY <1>2 DEF BallInv, Times
<1>3. ASSUME NEW m \in RequestMessage, PlantAccepts(m.action), PlantApply(m.action),
             executed' = Append(executed, m)
      PROVE  BallInv'
  <2>1. /\ Times(Out)' = Times(Out) + (IF m.action \in Out THEN 1 ELSE 0)
        /\ Times(In)' = Times(In) + (IF m.action \in In THEN 1 ELSE 0)
    BY <1>3, TimesAppend
  <2>2. CASE m.action \in Out
    <3>1. plant["ball_present"] /\ ~plant'["ball_present"]
      BY <1>3, <2>2 DEF PlantAccepts, PlantApply, PlantFlags, RequiredFlags, RaisedFlags,
                        ClearedFlags
    <3>2. QED
      BY <1>1, <2>1, <2>2, <3>1 DEF BallInv
  <2>3. CASE m.action \in In
    BY <1>1, <2>1, <2>3 DEF BallInv
  <2>4. CASE m.action \notin Out \cup In
    <3>1. plant'["ball_present"] => plant["ball_present"]
      BY <1>3, <2>4 DEF PlantApply, PlantFlags, RaisedFlags
    <3>2. QED
      BY <1>1, <2>1, <2>4, <3>1 DEF BallInv
  <2>5. QED
    BY <2>2, <2>3, <2>4
<1>4. QED
  BY <1>2, <1>3, ExecutedStep DEF Accepts, Finishes

\* A ball leaves the robot only if it has one: passes and shots never outnumber the
\* ball it starts with and the receipts, whatever the ball_present topic says.
THEOREM BallLeaves == LoopSpec => []BallLeavesOnce
<1>1. LoopInit => BallInv
  <2> SUFFICES ASSUME LoopInit PROVE BallInv
    OBVIOUS
  <2>1. \A A : Times(A) = 0
    <3>1. ASSUME NEW A PROVE {k \in DOMAIN executed : executed[k].action \in A} = {}
      BY DEF LoopInit
    <3>2. QED
      BY <3>1, FS_EmptySet DEF Times
  <2>2. Times({"ExecutePass", "FireShot"}) = 0 /\ Times({"CollectBall"}) = 0
    BY <2>1
  <2>3. (IF plant["ball_present"] THEN 1 ELSE 0) \in 0..1
    OBVIOUS
  <2>4. QED
    BY <2>2, <2>3 DEF BallInv
<1>2. LoopInv /\ BallInv /\ [LoopNext]_loopVars => BallInv'
  BY BallStep
<1>3. LoopInv /\ BallInv => BallLeavesOnce
  <2> SUFFICES ASSUME LoopInv, BallInv PROVE BallLeavesOnce
    OBVIOUS
  <2>1. Times({"ExecutePass", "FireShot"}) \in Nat /\ Times({"CollectBall"}) \in Nat
    BY TimesFinite
  <2>2. Times({"ExecutePass", "FireShot"}) <= 1 + Times({"CollectBall"})
    BY <2>1 DEF BallInv
  <2>3. QED
    BY <2>2 DEF BallLeavesOnce, Times
<1>4. QED
  BY <1>1, <1>2, <1>3, LoopInvariant, PTL DEF LoopSpec
=============================================================================
