----------------------------- MODULE TargetGate -----------------------------
(***************************************************************************)
(* TargetGate (target_gate.py) and what the supervisor makes of its flag:  *)
(* whether a shot may be fired at the target.  The gate judges an          *)
(* observation at every tick, by the wall clock and the stamp of the       *)
(* camera; the supervisor knows when the flag came, not what it is about.  *)
(*                                                                         *)
(* Ages stand for the clocks.  An observation that is malformed, too       *)
(* doubtful, out of range or unstable closes the gate as none does.        *)
(***************************************************************************)
EXTENDS Integers, Sequences

CONSTANTS
  MaxTargetAge,      \* max_age_sec of the gate
  WallSet,           \* by how much the wall clock may be set, once
  CameraLag,         \* how old an observation may be when it comes
  TargetDelay,       \* how long the flag is on its way
  SignalSilence,     \* signal_silence_limit_sec of the supervisor
  TargetAgeLimit,    \* target_age_limit_sec of the supervisor
  FlagsInFlight      \* bound: flags on their way, the oldest dropped first

ASSUME TargetAssumption ==
  /\ MaxTargetAge \in Nat \ {0}
  /\ WallSet \in Nat /\ CameraLag \in Nat /\ TargetDelay \in Nat
  /\ SignalSilence \in Nat /\ TargetAgeLimit \in Nat
  /\ FlagsInFlight \in Nat \ {0}

VARIABLES
  wallStep,    \* by how much the wall clock was set, 0: not yet
  latestTarget,      \* _latest: {} for None, else the age it has and the age the stamp shows
  targetWire,  \* target_valid on its way, the age of the target behind it, its own age
  target       \* _signals["target_valid"]: the value, how long it is there; and the target's age

targetVars == <<wallStep, latestTarget, targetWire, target>>

TargetLimit == MaxTargetAge + WallSet + TargetDelay + TargetAgeLimit

CountUp(age, limit) == IF age > limit THEN age ELSE age + 1

NoTarget == [valid |-> FALSE, age |-> 0, at |-> SignalSilence + 1]

TargetInit ==
  /\ wallStep = 0
  /\ latestTarget = {}
  /\ targetWire = <<>>
  /\ target = NoTarget

\* _observation_callback: sound is the verdict of parse_observation and of all of
\* validate_observation but the age.  The wall clock may have been set since.
ObservationCallback(age, set, sound) ==
  /\ latestTarget' = IF sound THEN {[age |-> age, judged |-> age + set]} ELSE {}
  /\ UNCHANGED <<wallStep, targetWire, target>>

\* Neither older than the limit nor from the future.
ValidateAge(observation) == observation.judged \in 0..MaxTargetAge

\* _publish_status
TargetTimer ==
  /\ LET valid == \E observation \in latestTarget : ValidateAge(observation)
         all == Append(targetWire,
                       [valid |-> valid, sent |-> 0,
                        age |-> IF valid THEN (CHOOSE o \in latestTarget : TRUE).age ELSE 0])
     IN  targetWire' = SubSeq(all, IF Len(all) > FlagsInFlight THEN 2 ELSE 1, Len(all))
  /\ UNCHANGED <<wallStep, latestTarget, target>>

\* A message without one of its fields, which parse_observation looks up unguarded,
\* ends the node; it comes back with nothing.
TargetGateStarts ==
  /\ latestTarget' = {}
  /\ UNCHANGED <<wallStep, targetWire, target>>

\* time.time_ns() runs on, or back, by by.
WallClockSet(by) ==
  /\ wallStep = 0
  /\ wallStep' = by
  /\ latestTarget' = {[o EXCEPT !.judged = @ + by] : o \in latestTarget}
  /\ UNCHANGED <<targetWire, target>>

\* The callback of the supervisor for this signal.
TargetSignal ==
  /\ targetWire # <<>>
  /\ LET flag == Head(targetWire)
     IN  target' = [valid |-> flag.valid, age |-> flag.age, at |-> 0]
  /\ targetWire' = Tail(targetWire)
  /\ UNCHANGED <<wallStep, latestTarget>>

\* What _safety_snapshot and _fire_shot_decision ask of the target.
TargetAllowsShot ==
  /\ target.valid /\ target.at <= SignalSilence
  /\ target.at <= TargetAgeLimit

\* A flag comes within its delay.
TargetAges ==
  /\ \A i \in DOMAIN targetWire : targetWire[i].sent < TargetDelay
  /\ latestTarget' = {[age |-> CountUp(o.age, TargetLimit), judged |-> CountUp(o.judged, TargetLimit)]
                  : o \in latestTarget}
  /\ targetWire' = [i \in DOMAIN targetWire |->
                      [targetWire[i] EXCEPT !.sent = @ + 1, !.age = CountUp(@, TargetLimit)]]
  /\ target' = IF target.at >= SignalSilence THEN NoTarget
               ELSE [target EXCEPT !.at = @ + 1, !.age = CountUp(@, TargetLimit)]
  /\ UNCHANGED wallStep

TargetNext ==
  \/ \E age \in 0..CameraLag, set \in {0, wallStep}, sound \in BOOLEAN :
       ObservationCallback(age, set, sound)
  \/ TargetTimer
  \/ TargetGateStarts
  \/ \E by \in {-WallSet, WallSet} \ {0} : WallClockSet(by)
  \/ TargetSignal
  \/ TargetAges

TargetSpec == TargetInit /\ [][TargetNext]_targetVars
-----------------------------------------------------------------------------
(* Properties *)

\* A shot is let through only at a target that was seen no longer ago than what the
\* gate allows, the wall clock flatters, the flag takes and the supervisor allows,
\* although the supervisor counts the target's age from the arrival of the flag.
ShotTargetIsRecent == TargetAllowsShot => target.age <= TargetLimit
=============================================================================
