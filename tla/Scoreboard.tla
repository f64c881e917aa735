----------------------------- MODULE Scoreboard -----------------------------
(***************************************************************************)
(* What the rule engine promises: a scoreboard for a game that is played   *)
(* in possessions.  A basket counts for the team that has the possession   *)
(* and ends it; breaks and the end change no score; the end is final.      *)
(***************************************************************************)
EXTENDS Naturals

CONSTANTS Team, Points

VARIABLES
  phase,   \* "before", "play", "break", "after"
  attack,  \* the set of the team that has the possession, {} before the first
  score

boardVars == <<phase, attack, score>>

BoardInit ==
  /\ phase = "before"
  /\ attack = {}
  /\ score = [t \in Team |-> 0]

Possession(team) ==
  /\ phase \in {"before", "break"}
  /\ phase' = "play"
  /\ attack' = {team}
  /\ UNCHANGED score

Basket(team, points) ==
  /\ phase = "play"
  /\ attack = {team}
  /\ score' = [score EXCEPT ![team] = @ + points]
  /\ phase' = "break"
  /\ UNCHANGED attack

Break ==
  /\ phase = "play"
  /\ phase' = "break"
  /\ UNCHANGED <<attack, score>>

End ==
  /\ phase \in {"play", "break"}
  /\ phase' = "after"
  /\ UNCHANGED <<attack, score>>

BoardNext ==
  \/ \E team \in Team : Possession(team) \/ \E points \in Points : Basket(team, points)
  \/ Break
  \/ End

BoardSpec == BoardInit /\ [][BoardNext]_boardVars
=============================================================================
