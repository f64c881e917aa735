------------------------------ MODULE Preflight ------------------------------
(***************************************************************************)
(* Mid360Preflight (preflight.py): joins the validity flags and the local  *)
(* odometry into preflight_ready.  The publishers of the flags are known   *)
(* by their promise (ValidityFlag), their messages take at most Latency.   *)
(***************************************************************************)
EXTENDS Host

CONSTANTS
  FlagSilence,       \* what the publisher of each flag promises
  Latency,           \* how long a message is on its way
  MaxOdomSilence,    \* max_odom_silence_sec, the age limit of flags and odometry
  RequireMapLocked   \* require_map_locked

Flag == {"input_valid", "pose_valid", "map_locked"}

ASSUME PreflightAssumption ==
  /\ FlagSilence \in [Flag -> Nat]
  /\ Latency \in Nat
  /\ MaxOdomSilence \in Nat
  /\ RequireMapLocked \in BOOLEAN

VARIABLES
  flags,       \* flags: value and time of receipt
  odomHeard,   \* last_odom_arrival
  readyFlag,   \* what the last message on preflight_ready said
  backing      \* history: the evidence behind the last message of each flag

preflightOwn == <<flags, odomHeard, readyFlag, backing>>
preflightVars == <<now, reboots, preflightOwn>>

PreflightInit ==
  /\ HostInit
  /\ flags = [f \in Flag |-> [value |-> FALSE, at |-> Never]]
  /\ odomHeard = Never
  /\ readyFlag = FALSE
  /\ backing = [f \in Flag |-> Never]

\* What the publisher of f promises.
Publisher(f) ==
  INSTANCE ValidityFlag WITH evidence <- backing[f], flag <- NoFlag, Silence <- FlagSilence[f]

\* How old may be what stands behind a message that comes now; a FALSE needs nothing.
Behind(f, value) ==
  {e \in Moment :
     /\ value \/ e = Never
     /\ \E sent \in Instant : /\ e <= sent /\ sent <= now /\ now - sent <= Latency
                              /\ Publisher(f)!Keeps(value, sent, e)}

FlagCallback(f, value, e) ==
  /\ flags' = [flags EXCEPT ![f] = [value |-> value, at |-> now]]
  /\ backing' = [backing EXCEPT ![f] = e]
  /\ UNCHANGED <<now, reboots, odomHeard, readyFlag>>

OdomHeardCallback ==
  /\ odomHeard' = now
  /\ UNCHANGED <<now, reboots, flags, readyFlag, backing>>

\* _flag_state
FlagOk(f) == flags[f].value /\ Recent(flags[f].at, MaxOdomSilence)

Required == {f \in Flag : f = "map_locked" => RequireMapLocked}

Ready(typeOk) ==
  /\ typeOk
  /\ \A f \in Required : FlagOk(f)
  /\ Recent(odomHeard, MaxOdomSilence)

\* _publish_status; typeOk is what the ROS graph shows of the topics' types.
ReadyTimer(typeOk) ==
  /\ readyFlag' = Ready(typeOk)
  /\ UNCHANGED <<now, reboots, flags, odomHeard, backing>>

ReadyTicks == \E typeOk \in BOOLEAN : ReadyTimer(typeOk)

PreflightRestart ==
  /\ Reboot
  /\ flags' = [f \in Flag |-> [value |-> FALSE, at |-> Never]]
  /\ odomHeard' = Never
  /\ UNCHANGED <<readyFlag, backing>>

PreflightWaits == TimePasses /\ UNCHANGED preflightOwn

PreflightNext ==
  \/ \E f \in Flag, value \in BOOLEAN : \E e \in Behind(f, value) : FlagCallback(f, value, e)
  \/ OdomHeardCallback
  \/ ReadyTicks
  \/ PreflightRestart
  \/ PreflightWaits

PreflightSpec == PreflightInit /\ [][PreflightNext]_preflightVars

-----------------------------------------------------------------------------
(* Properties *)

\* The values preflight keeps; what is TRUE was received.
PreflightTypeOK ==
  /\ HostTypeOK
  /\ flags \in [Flag -> [value : BOOLEAN, at : Moment]]
  /\ odomHeard \in Moment
  /\ readyFlag \in BOOLEAN
  /\ backing \in [Flag -> Moment]
  /\ \A f \in Flag : flags[f].value => flags[f].at # Never

\* Whenever the timer would say ready, what the sensors last showed in order is, for
\* every required flag, at most as old as the silence its publisher allows, the time
\* on the wire and the age preflight allows together.
ReadyIsRecent ==
  (\E typeOk \in BOOLEAN : Ready(typeOk)) =>
    \A f \in Required :
      /\ backing[f] # Never
      /\ now - backing[f] <= FlagSilence[f] + Latency + MaxOdomSilence

\* A required flag is withdrawn or has fallen silent.
FlagLost == \E f \in Required : flags[f].value => ~Recent(flags[f].at, MaxOdomSilence)
=============================================================================
