----------------------------- MODULE MatchRules -----------------------------
(***************************************************************************)
(* ABURobocon2025RuleEngine (rulebook_2025.py): the match clock, the       *)
(* possession clock and the evidence of one possession.  One action per    *)
(* public method.  Every record first runs the clock, which may stop the   *)
(* possession or the game; that is part of its action.                     *)
(*                                                                         *)
(* The caller passes the time.  The referee's calls carry the time of the  *)
(* call; evidence carries the time it was seen, which may be Lateness      *)
(* older.  Heights, distances and zones are abstracted to whether they     *)
(* satisfy the rule.                                                       *)
(***************************************************************************)
EXTENDS Integers, Sequences

CONSTANTS
  Team,
  GameDuration,        \* game_duration_sec
  PossessionDuration,  \* POSSESSION_DURATION_SEC
  AdvanceDuration,     \* ADVANCE_DURATION_SEC
  Lateness,            \* how old evidence may be when it is reported
  MaxCallTime,             \* bound: instants
  MaxPossessions       \* bound: possessions of a game

ASSUME RulesAssumption ==
  /\ GameDuration \in Nat /\ PossessionDuration \in Nat /\ AdvanceDuration \in Nat
  /\ Lateness \in Nat /\ MaxCallTime \in Nat /\ MaxPossessions \in Nat

MatchState == {"WAITING_START", "ACTIVE", "REFEREE_STOP", "FINISHED"}
Points == {2, 3, 7}
NotYet == -1

VARIABLES
  state,
  startTime,        \* start_time_sec, NotYet for None
  possessionStart,  \* possession_start_sec
  offensiveTeam,    \* {} for None, else the set of the one team
  score,
  advanced,         \* _advanced_to_offense
  dribbled,         \* _offensive_side_dribble
  passed,           \* _valid_pass_to_offense
  control,          \* _has_ball_control
  callTime,              \* the caller's clock
  tally             \* history: what was accepted in the possession that began last

flagVars == <<advanced, dribbled, passed, control>>
engineVars == <<state, startTime, possessionStart, offensiveTeam, score, flagVars>>
rulesVars == <<engineVars, callTime, tally>>

\* The nth possession: when it began, when its dribble or pass, its entry of the
\* offensive side and its baskets were seen.
NewTally(n, start) ==
  [nr |-> n, start |-> start, gained |-> NotYet, crossed |-> NotYet, baskets |-> <<>>]

RulesInit ==
  /\ state = "WAITING_START"
  /\ startTime = NotYet
  /\ possessionStart = NotYet
  /\ offensiveTeam = {}
  /\ score = [t \in Team |-> 0]
  /\ advanced = FALSE
  /\ dribbled = FALSE
  /\ passed = FALSE
  /\ control = FALSE
  /\ callTime = 0
  /\ tally = NewTally(0, NotYet)

\* When evidence that is reported now may have been seen.
SeenAt == {t \in 0..callTime : callTime - t <= Lateness}

-----------------------------------------------------------------------------
(* Clocks *)

GameExpired(t) == t - startTime >= GameDuration

\* The state tick leaves behind; finished and unstarted games are left alone.
ClockState(t) ==
  CASE state \in {"WAITING_START", "FINISHED"} -> state
    [] state \in {"ACTIVE", "REFEREE_STOP"} /\ GameExpired(t) -> "FINISHED"
    [] state = "ACTIVE" /\ ~GameExpired(t) /\ t - possessionStart > PossessionDuration -> "REFEREE_STOP"
    [] OTHER -> state

Tick(t) ==
  /\ state' = ClockState(t)
  /\ UNCHANGED <<startTime, possessionStart, offensiveTeam, score, flagVars, tally>>

\* _require_active_clock finds the possession running.
InPlay(t) == state = "ACTIVE" /\ ClockState(t) = "ACTIVE"

-----------------------------------------------------------------------------
(* Possessions *)

\* Mutant of BeginPossession: the advance of the possession before still counts.
BeginPossessionAdvanced(team, t) ==
  /\ offensiveTeam' = {team}
  /\ possessionStart' = t
  /\ state' = "ACTIVE"
  /\ dribbled' = FALSE
  /\ passed' = FALSE
  /\ control' = TRUE
  /\ tally' = NewTally(tally.nr + 1, t)
  /\ UNCHANGED <<score, advanced>>

BeginPossession(team, t) ==
  /\ offensiveTeam' = {team}
  /\ possessionStart' = t
  /\ state' = "ACTIVE"
  /\ advanced' = FALSE
  /\ dribbled' = FALSE
  /\ passed' = FALSE
  /\ control' = TRUE
  /\ tally' = NewTally(tally.nr + 1, t)
  /\ UNCHANGED score

StartGame(team) ==
  /\ state = "WAITING_START"
  /\ startTime' = callTime
  /\ BeginPossession(team, callTime)
  /\ UNCHANGED callTime

ResumePossession(team) ==
  /\ state = "REFEREE_STOP"
  /\ ~GameExpired(callTime)
  /\ BeginPossession(team, callTime)
  /\ UNCHANGED <<startTime, callTime>>

FinishGame ==
  /\ state # "WAITING_START"
  /\ state' = "FINISHED"
  /\ UNCHANGED <<startTime, possessionStart, offensiveTeam, score, flagVars, callTime, tally>>

-----------------------------------------------------------------------------
(* Evidence.  What does not satisfy the rule leaves only the clock's effect. *)

Rejected(t) == Tick(t) /\ UNCHANGED callTime

RecordDribble(t) ==
  /\ InPlay(t)
  /\ dribbled' = TRUE
  /\ control' = TRUE
  /\ tally' = [tally EXCEPT !.gained = t]
  /\ UNCHANGED <<state, startTime, possessionStart, offensiveTeam, score, advanced, passed, callTime>>

RecordPass(t) ==
  /\ InPlay(t)
  /\ passed' = TRUE
  /\ control' = TRUE
  /\ tally' = [tally EXCEPT !.gained = t]
  /\ UNCHANGED <<state, startTime, possessionStart, offensiveTeam, score, advanced, dribbled, callTime>>

EnterOffensiveSide(t) ==
  /\ InPlay(t)
  /\ t - possessionStart <= AdvanceDuration
  /\ dribbled \/ passed
  /\ advanced' = TRUE
  /\ tally' = [tally EXCEPT !.crossed = t]
  /\ UNCHANGED <<state, startTime, possessionStart, offensiveTeam, score,
                 dribbled, passed, control, callTime>>

\* Mutant of AwardPoints: the possession runs on after the goal.
AwardAndPlayOn(points) ==
  /\ score' = [t \in Team |-> score[t] + IF t \in offensiveTeam THEN points ELSE 0]
  /\ UNCHANGED <<control, state>>

\* _score
AwardPoints(points) ==
  /\ score' = [t \in Team |-> score[t] + IF t \in offensiveTeam THEN points ELSE 0]
  /\ control' = FALSE
  /\ state' = "REFEREE_STOP"

\* A shot from the offensive side that goes in; a legal miss changes nothing.
RecordGoal(t, immediate, points) ==
  /\ InPlay(t)
  /\ advanced
  /\ control
  /\ dribbled \/ immediate
  /\ AwardPoints(points)
  /\ tally' = [tally EXCEPT !.baskets = Append(@, t)]
  /\ UNCHANGED <<startTime, possessionStart, offensiveTeam, advanced, dribbled, passed, callTime>>

CallerWaits ==
  /\ callTime < MaxCallTime
  /\ callTime' = callTime + 1
  /\ UNCHANGED <<engineVars, tally>>

-----------------------------------------------------------------------------

Referee ==
  \/ /\ callTime + GameDuration <= MaxCallTime  \* bound: the game ends within MaxCallTime
     /\ \E team \in Team : StartGame(team)
  \/ /\ tally.nr < MaxPossessions
     /\ \E team \in Team : ResumePossession(team)
  \/ FinishGame

Evidence ==
  \E t \in SeenAt :
    \/ RecordDribble(t)
    \/ RecordPass(t)
    \/ EnterOffensiveSide(t)
    \/ \E immediate \in BOOLEAN, points \in Points : RecordGoal(t, immediate, points)
    \/ Rejected(t)

Watch == Tick(callTime) /\ UNCHANGED callTime

RulesNext == Referee \/ Evidence \/ Watch \/ CallerWaits

RulesSpec == RulesInit /\ [][RulesNext]_rulesVars

-----------------------------------------------------------------------------
(* Properties *)

CallInstant == 0..MaxCallTime \cup {NotYet}

PossessionTally ==
  [nr : Nat, start : CallInstant, gained : CallInstant, crossed : CallInstant,
   baskets : Seq(0..MaxCallTime)]

\* Types, and what the engine's assertions rely on (rulebook_2025.py:147,212,225):
\* a started game has a start and a possession with a team.
RulesTypeOK ==
  /\ state \in MatchState
  /\ startTime \in CallInstant
  /\ possessionStart \in CallInstant
  /\ offensiveTeam \in SUBSET Team
  /\ score \in [Team -> Nat]
  /\ advanced \in BOOLEAN /\ dribbled \in BOOLEAN /\ passed \in BOOLEAN /\ control \in BOOLEAN
  /\ callTime \in 0..MaxCallTime
  /\ tally \in PossessionTally
  /\ state # "WAITING_START" =>
       startTime # NotYet /\ possessionStart # NotYet /\ offensiveTeam # {}

\* A basket counts only on what was accepted in its own possession: a dribble or a
\* pass, then the entry of the offensive side in time, then the ball, in on both
\* clocks, once.  Nothing accepted before a referee's stop helps the possession after
\* it, and no call that comes late finds a clock that has run out running.  What was
\* seen before the stop and is reported after it does count (rulebook_2025.py:142
\* sets no lower bound), but it can be no older than the reports are late.
GoalsAreEarned ==
  tally.baskets # <<>> =>
    /\ Len(tally.baskets) = 1
    /\ \A seen \in {tally.gained, tally.crossed, tally.baskets[1]} :
         seen # NotYet /\ tally.start - seen <= Lateness
    /\ tally.crossed - tally.start <= AdvanceDuration
    /\ tally.baskets[1] - tally.start <= PossessionDuration
    /\ tally.baskets[1] - startTime < GameDuration

Phase ==
  CASE state = "WAITING_START" -> "before"
    [] state = "ACTIVE"        -> "play"
    [] state = "REFEREE_STOP"  -> "break"
    [] state = "FINISHED"      -> "after"

Board == INSTANCE Scoreboard WITH phase <- Phase, attack <- offensiveTeam

\* Seen from the stands the engine is a scoreboard: points go to the attacking
\* team, in play only, and end the play; nothing moves after the end.
PlaysScoreboard == Board!BoardSpec
=============================================================================
