------------------------------- MODULE MCNodes -------------------------------
(***************************************************************************)
(* Instances for TLC of eight components that share nothing: the input     *)
(* guard, the pose bridge, the preflight, the link between the robots, the *)
(* rule engine, the cloud mapper, the pose command bridge with the map     *)
(* anchor, and the target gate.  A behaviour runs one of them, chosen at   *)
(* the start, while the others stay as they began.                         *)
(***************************************************************************)
EXTENDS InputGuard, PoseBridge, Preflight, TeamLink, MatchRules, CloudMapper,
        PoseCommand, TargetGate

VARIABLE running

nodesVars == <<now, reboots, guardOwn, bridgeOwn, preflightOwn, teamVars, rulesVars, mapperVars,
              commandVars, targetVars, running>>

\* What is left alone while one component runs.
gates == <<commandVars, targetVars>>
chain == <<now, reboots, guardOwn, bridgeOwn, preflightOwn>>
ButGuard == UNCHANGED <<bridgeOwn, preflightOwn, teamVars, rulesVars, mapperVars, gates, running>>
ButBridge == UNCHANGED <<guardOwn, preflightOwn, teamVars, rulesVars, mapperVars, gates, running>>
ButPreflight == UNCHANGED <<guardOwn, bridgeOwn, teamVars, rulesVars, mapperVars, gates, running>>
ButTeam == UNCHANGED <<chain, rulesVars, mapperVars, gates, running>>
ButRules == UNCHANGED <<chain, teamVars, mapperVars, gates, running>>
ButMapper == UNCHANGED <<chain, teamVars, rulesVars, gates, running>>
ButCommand == UNCHANGED <<chain, teamVars, rulesVars, mapperVars, targetVars, running>>
ButTarget == UNCHANGED <<chain, teamVars, rulesVars, mapperVars, commandVars, running>>

NodesInit ==
  /\ running \in {"guard", "bridge", "preflight", "team", "rules", "mapper", "command", "target"}
  /\ GuardInit
  /\ BridgeInit
  /\ PreflightInit
  /\ TeamInit
  /\ RulesInit
  /\ MapperInit
  /\ CommandInit
  /\ TargetInit
  /\ IF running = "team" THEN TRUE ELSE skew = 0 /\ clocked /\ peerTask

NodesNext ==
  \/ running = "guard" /\ GuardNext /\ ButGuard
  \/ running = "bridge" /\ BridgeNext /\ ButBridge
  \/ running = "preflight" /\ PreflightNext /\ ButPreflight
  \/ running = "team" /\ TeamNext /\ ButTeam
  \/ running = "rules" /\ RulesNext /\ ButRules
  \/ running = "mapper" /\ MapperNext /\ ButMapper
  \/ running = "command" /\ CommandNext /\ ButCommand
  \/ running = "target" /\ TargetNext /\ ButTarget

\* Timers fire, the reader takes what is in its queue, scans and poses with newer
\* stamps keep reaching the mapper, which stays up in the end.
FairNodes ==
  /\ NodesInit /\ [][NodesNext]_nodesVars
  /\ WF_nodesVars(running = "guard" /\ StatusTimer /\ ButGuard)
  /\ WF_nodesVars(running = "bridge" /\ PoseTimer /\ ButBridge)
  /\ WF_nodesVars(running = "bridge" /\ ReaderTakesValid /\ ButBridge)
  /\ WF_nodesVars(running = "preflight" /\ ReadyTicks /\ ButPreflight)
  /\ WF_nodesVars(running = "mapper" /\ MapperCloud /\ ButMapper)
  /\ WF_nodesVars(running = "mapper" /\ NewerOdom /\ ButMapper)
  /\ <>[][~(running = "mapper" /\ MapperRestart /\ ButMapper)]_nodesVars

\* Every TRUE on the chain of flags rests on recent evidence: the guard's and the
\* bridge's keep their promise, and the preflight's is as recent as theirs.  So does
\* what is done on a TRUE: a command to the base, a shot.
TrueIsRecent ==
  /\ GuardKeepsPromise /\ BridgeKeepsPromise
  /\ [](ReadyIsRecent /\ CommandsAreBacked /\ ShotTargetIsRecent)

\* What is lost, and what then must not say TRUE any more, where it is run.
Lost ==
  \/ running = "guard" /\ StreamSilent
  \/ running = "bridge" /\ PoseSilent
  \/ running = "preflight" /\ FlagLost

Withdrawn ==
  CASE running = "guard"  -> ~inputFlag.value
    [] running = "bridge" -> ~heldValid.value
    [] OTHER              -> ~readyFlag

\* Silence withdraws every flag, with no message obliged to come: a stream that is
\* silent for good withdraws input_valid, an odometry that is silent for good takes
\* pose_valid from its readers whatever is still on its way, a flag that is lost for
\* good takes back preflight_ready.  Timers alone see to it.
SilenceIsTold == <>[]Lost => <>[]Withdrawn

\* GateReopens of CloudMapper, where it is run.
MapperGateReopens == running = "mapper" => GateReopens

StreamSilence == [s \in Stream |-> IF s = "lidar" THEN 1 ELSE 2]
FlagPromises == [f \in Flag |-> IF f = "input_valid" THEN 1 ELSE 0]
TwoPlaces == {0, 2}

HeartbeatAndEvidence == {"heartbeat", "receiver_ready"}
OneTickOff == -1..1

BothTeams == {"red", "blue"}

ThreeVoxels == 1..3
FourScans ==
  {[v \in ThreeVoxels |-> 0],
   [v \in ThreeVoxels |-> IF v = 1 THEN 2 ELSE IF v = 2 THEN 1 ELSE 0],
   [v \in ThreeVoxels |-> IF v = 3 THEN 1 ELSE 0],
   [v \in ThreeVoxels |-> IF v = 2 THEN 2 ELSE 0]}
HereOrFar == {0, 2}
=============================================================================
