--------------------------- MODULE MatchLifecycle ---------------------------
(***************************************************************************)
(* What the supervisor promises the people on the field, without signals,  *)
(* evidence or actions: in which phase a match is, and which phases may    *)
(* follow.  A match goes live only from a phase the operator was cleared   *)
(* for, a withdrawn match is cleared again before it goes on, and a        *)
(* stopped one stays stopped until the process is restarted.               *)
(***************************************************************************)
EXTENDS Integers

VARIABLES
  phase,  \* "standby", "cleared", "live", "held", "over" or "stopped"
  epoch   \* restarts of the process

lifecycleVars == <<phase, epoch>>

LifecycleInit == phase = "standby" /\ epoch = 0

Move(from, to) ==
  /\ phase \in from
  /\ phase' = to
  /\ UNCHANGED epoch

Clear    == Move({"standby"}, "cleared")
Begin    == Move({"cleared"}, "live")
Hold     == Move({"live"}, "held")
Release  == Move({"held"}, "live")
End      == Move({"live", "held"}, "over")
\* Also out of "cleared" and "over": an abort that is confirmed late.
Withdraw == Move({"live", "held", "cleared", "over"}, "standby")
Stop     == Move({"standby", "cleared", "live", "held", "over"}, "stopped")

Reboot ==
  /\ phase' = "standby"
  /\ epoch' = epoch + 1

LifecycleNext ==
  Clear \/ Begin \/ Hold \/ Release \/ End \/ Withdraw \/ Stop \/ Reboot

LifecycleSpec == LifecycleInit /\ [][LifecycleNext]_lifecycleVars
=============================================================================
