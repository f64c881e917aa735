---------------------------- MODULE ValidityFlag ----------------------------
(***************************************************************************)
(* What the publisher of a Bool such as input_valid or pose_valid          *)
(* promises: whenever it says TRUE, the evidence behind it is at most      *)
(* Silence old.  It may say FALSE at any time, and fall silent.            *)
(***************************************************************************)
EXTENDS Integers

CONSTANT Silence

VARIABLES
  now,
  evidence,  \* when what the flag vouches for was last seen in order, or -1
  flag       \* the last message: its value and when it was published

flagVars == <<now, evidence, flag>>

FlagInit ==
  /\ now = 0
  /\ evidence = -1
  /\ flag = [value |-> FALSE, sent |-> -1]

\* A publication at t that rests on evidence from e keeps the promise.
Keeps(value, t, e) == value => e # -1 /\ t - e <= Silence

TimeGoesOn == now' = now + 1 /\ UNCHANGED <<evidence, flag>>

\* Evidence arrives, or not, and something is published, or not.
Report ==
  /\ now' = now
  /\ evidence' \in {evidence, now}
  /\ \/ \E value \in BOOLEAN :
          /\ Keeps(value, now, evidence')
          /\ flag' = [value |-> value, sent |-> now]
     \/ flag' = flag

FlagNext == TimeGoesOn \/ Report

FlagSpec == FlagInit /\ [][FlagNext]_flagVars
=============================================================================
