----------------------------- MODULE InputGuard -----------------------------
(***************************************************************************)
(* Mid360InputGuard (input_guard.py): accepts or refuses the packets of    *)
(* the LiDAR and the IMU and publishes input_valid, at every change and    *)
(* from a timer.                                                           *)
(*                                                                         *)
(* Stamps and time bases are small numbers, 0 for an empty field.  The     *)
(* other checks of a packet (point count, finite values, order of          *)
(* offsets) are one Boolean, sound.  Counters and diagnostics are output.  *)
(***************************************************************************)
EXTENDS Host

CONSTANTS
  Silence,     \* max_lidar_silence_sec, max_imu_silence_sec
  MaxStamp     \* bound: stamps of a device

Stream == {"lidar", "imu"}

ASSUME GuardAssumption ==
  /\ Silence \in [Stream -> Nat]
  /\ MaxStamp \in Nat

VARIABLES
  arrival,    \* last_lidar_arrival, last_imu_arrival
  ok,         \* last_lidar_ok, last_imu_ok
  stamp,      \* last_lidar_stamp_ns, last_imu_stamp_ns, 0 for None
  timebase,   \* last_timebase, 0 for None
  signature,  \* _last_status_signature without its wording, {} for None
  inputFlag,  \* the last message on input_valid
  good        \* history: when a packet of the stream was last accepted

streamVars == <<arrival, ok, stamp, timebase>>
guardOwn == <<streamVars, signature, inputFlag, good>>
guardVars == <<now, reboots, guardOwn>>

GuardInit ==
  /\ HostInit
  /\ arrival = [s \in Stream |-> Never]
  /\ ok = [s \in Stream |-> FALSE]
  /\ stamp = [s \in Stream |-> 0]
  /\ timebase = 0
  /\ signature = {}
  /\ inputFlag = NoFlag
  /\ good = [s \in Stream |-> Never]

\* A packet of either stream as it may arrive; the IMU has no time base.
Packet == [stamp : 0..MaxStamp, timebase : 0..MaxStamp, sound : BOOLEAN]

-----------------------------------------------------------------------------
(* _publish_status *)

\* Mutant of IsFresh: a stream that was ever heard counts as alive.
WasHeard(s) == arrival[s] # Never

\* _stream_is_fresh
IsFresh(s) == Recent(arrival[s], Silence[s])

InputValid == \A s \in Stream : ok[s] /\ IsFresh(s)

Signature == {<<ok, [s \in Stream |-> IsFresh(s)]>>}

\* Of arrival and ok as the caller leaves them.
PublishStatus(force) ==
  \/ /\ force \/ Signature' # signature
     /\ signature' = Signature'
     /\ inputFlag' = [value |-> InputValid', sent |-> now]
  \/ /\ ~force /\ Signature' = signature
     /\ UNCHANGED <<signature, inputFlag>>

-----------------------------------------------------------------------------
(* Packets *)

\* The bookkeeping both callbacks share.  A rejection worded differently from
\* the one before it is published again.
TakePacket(s, accepted, p) ==
  /\ arrival' = [arrival EXCEPT ![s] = now]
  /\ ok' = [ok EXCEPT ![s] = accepted]
  /\ stamp' = [stamp EXCEPT ![s] = IF accepted THEN p.stamp ELSE @]
  /\ good' = [good EXCEPT ![s] = IF accepted THEN now ELSE @]
  /\ UNCHANGED <<now, reboots>>
  /\ \E reworded \in BOOLEAN :
       /\ reworded => ~accepted
       /\ PublishStatus(reworded)

LidarCallback(p) ==
  /\ timebase' = IF p.timebase > timebase THEN p.timebase ELSE timebase
  /\ TakePacket("lidar", p.sound /\ p.timebase > timebase /\ p.stamp > stamp["lidar"], p)

ImuCallback(p) ==
  /\ TakePacket("imu", p.sound /\ p.stamp > stamp["imu"], p)
  /\ UNCHANGED timebase

StatusTimer ==
  /\ UNCHANGED <<now, streamVars, reboots, good>>
  /\ PublishStatus(TRUE)

\* A new process: only what was published and what really happened remain.
GuardRestart ==
  /\ Reboot
  /\ arrival' = [s \in Stream |-> Never]
  /\ ok' = [s \in Stream |-> FALSE]
  /\ stamp' = [s \in Stream |-> 0]
  /\ timebase' = 0
  /\ signature' = {}
  /\ UNCHANGED <<inputFlag, good>>

GuardWaits == TimePasses /\ UNCHANGED guardOwn

GuardNext ==
  \/ \E p \in Packet : LidarCallback(p)
  \/ \E p \in Packet : p.timebase = 0 /\ ImuCallback(p)
  \/ StatusTimer
  \/ GuardRestart
  \/ GuardWaits

GuardSpec == GuardInit /\ [][GuardNext]_guardVars

-----------------------------------------------------------------------------
(* Properties *)

\* The values the guard keeps; a stream in order has a packet with a stamp to its name.
GuardTypeOK ==
  /\ HostTypeOK
  /\ arrival \in [Stream -> Moment]
  /\ ok \in [Stream -> BOOLEAN]
  /\ stamp \in [Stream -> 0..MaxStamp]
  /\ timebase \in 0..MaxStamp
  /\ signature \in {{}} \cup {{x} : x \in [Stream -> BOOLEAN] \X [Stream -> BOOLEAN]}
  /\ inputFlag \in FlagMessage
  /\ good \in [Stream -> Moment]
  /\ \A s \in Stream : ok[s] => stamp[s] # 0 /\ arrival[s] # Never

\* input_valid is TRUE only on a packet of each stream that was accepted at most
\* its silence before the flag was published, over any mixture of refused
\* packets, stamps that stand still and restarts of the guard.
Lidar == INSTANCE ValidityFlag WITH evidence <- good["lidar"], flag <- inputFlag, Silence <- Silence["lidar"]
Imu == INSTANCE ValidityFlag WITH evidence <- good["imu"], flag <- inputFlag, Silence <- Silence["imu"]
GuardKeepsPromise == Lidar!FlagSpec /\ Imu!FlagSpec

\* No TRUE is left standing once a packet of either stream was refused, although
\* steady streams do not publish at every packet: the signature that spares
\* publications never spares the one that withdraws the flag.
RefusalIsTold == (\E s \in Stream : arrival[s] # Never /\ ~ok[s]) => ~inputFlag.value

\* A stream has fallen silent.
StreamSilent == \E s \in Stream : ~Recent(arrival[s], Silence[s])
=============================================================================
