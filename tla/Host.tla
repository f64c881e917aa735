-------------------------------- MODULE Host --------------------------------
(***************************************************************************)
(* The machine the localization nodes run on: the monotonic clock they     *)
(* share and the restarts of their processes.                              *)
(***************************************************************************)
EXTENDS Integers

CONSTANTS
  MaxTime,    \* bound: last instant
  MaxReboots  \* bound: restarts of a process

ASSUME HostAssumption == MaxTime \in Nat /\ MaxReboots \in Nat

VARIABLES now, reboots

Never == -1
Instant == 0..MaxTime
Moment == Instant \cup {Never}

\* A Bool on a topic and when it was published.
FlagMessage == [value : BOOLEAN, sent : Moment]
NoFlag == [value |-> FALSE, sent |-> Never]

\* Something happened at t, at most limit ago.
Recent(t, limit) == t # Never /\ now - t <= limit

HostInit == now = 0 /\ reboots = 0

TimePasses == now < MaxTime /\ now' = now + 1 /\ UNCHANGED reboots

Reboot == reboots < MaxReboots /\ reboots' = reboots + 1 /\ UNCHANGED now

HostTypeOK == now \in Instant /\ reboots \in 0..MaxReboots
=============================================================================
