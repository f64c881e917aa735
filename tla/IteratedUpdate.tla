--------------------------- MODULE IteratedUpdate ---------------------------
(***************************************************************************)
(* The iterated filter update of FAST-LIO2: esekf's                        *)
(* update_iterated_dyn_share_modified, and h_share_model, which it calls   *)
(* for the measurement.  The points of a scan are matched with the map     *)
(* only in some of the iterations; in the others the matches of before     *)
(* serve again, and those that no longer fit are given up.                 *)
(*                                                                         *)
(* The state x_ is the number of steps made since the prediction, P_ is    *)
(* "prior", or "carried" to a step's linearization, or "posterior".  Which *)
(* points fit, and whether a step is small, is up to the data.             *)
(***************************************************************************)
EXTENDS Integers

CONSTANTS Features,       \* points of the scan
          Iterations      \* values of maximum_iter

UpdateConstants == Iterations \subseteq Nat \ {0}

VARIABLES
    i, maximum_iter,
    converge, t,          \* dyn_share.converge, and how often it was met
    x_,
    P_,                   \* [kind, at]: at the step it is linearized at
    point_selected_surf,  \* the points that take part
    Nearest_Points,       \* x_ when they were last searched for
    returned,             \* left through the return in the loop
    lost                  \* history: the iterations without a point, and if they searched

vars == <<i, maximum_iter, converge, t, x_, P_, point_selected_surf, Nearest_Points,
          returned, lost>>

Init ==
    /\ maximum_iter \in Iterations
    /\ i = -1
    /\ converge = TRUE /\ t = 0
    /\ x_ = 0 /\ P_ = [kind |-> "prior", at |-> 0]
    /\ point_selected_surf \in SUBSET Features
    /\ Nearest_Points = -1
    /\ returned = FALSE /\ lost = {}

Over == returned \/ i = maximum_iter

\* After a search every point of the scan may take part; without one only those
\* that did.
h_share_model ==
    /\ point_selected_surf' \in SUBSET (IF converge THEN Features ELSE point_selected_surf)
    /\ Nearest_Points' = IF converge THEN x_ ELSE Nearest_Points

\* No Effective Points: the iteration is spent.
Skip ==
    /\ ~Over
    /\ h_share_model
    /\ point_selected_surf' = {}
    /\ i' = i + 1
    /\ lost' = lost \cup {[i |-> i, searched |-> converge]}
    /\ UNCHANGED <<maximum_iter, converge, t, x_, P_, returned>>

\* Mutant: the new search is asked for one iteration too late.
ConvergeAtLast(small) == small \/ (t = 0 /\ i = maximum_iter - 1)

\* In the last but one iteration a new search is asked for, when no step was small.
NextConverge(small) == small \/ (t = 0 /\ i = maximum_iter - 2)

Ends(count) == count > 1 \/ i = maximum_iter - 1

\* What the filter's algebra comes to: the gain's step is added to the state; the
\* covariance of the prediction is carried to where the step was linearized, and
\* reduced there.
Stepped == x_ + 1
Carried == [kind |-> "carried", at |-> x_]
Reduced == [Carried EXCEPT !.kind = "posterior"]

Step(small) ==
    LET count == IF small THEN t + 1 ELSE t
    IN  /\ ~Over
        /\ h_share_model
        /\ point_selected_surf' # {}
        /\ x_' = Stepped
        /\ converge' = NextConverge(small)
        /\ t' = count
        /\ returned' = Ends(count)
        /\ P_' = IF Ends(count) THEN Reduced ELSE Carried
        /\ i' = IF Ends(count) THEN i ELSE i + 1
        /\ UNCHANGED <<maximum_iter, lost>>

Next == Skip \/ \E small \in BOOLEAN : Step(small)

Spec == Init /\ [][Next]_vars
-----------------------------------------------------------------------------
(* Properties *)

\* When every iteration has a point that fits, the update ends with the covariance
\* of the last step, taken where that step was linearized, and that step was made
\* with matches searched for after an earlier step, whatever steps were small.
\* When all points are given up between two searches, none comes back: the update
\* runs to its end, the state keeps the steps made so far and the covariance is
\* never reduced.
UpdateCompletes ==
    /\ Over /\ lost = {} =>
           /\ P_ = [kind |-> "posterior", at |-> x_ - 1]
           /\ Nearest_Points >= 1
    /\ (\E gap \in lost : ~gap.searched) => P_.kind # "posterior"
    /\ P_.kind = "posterior" <=> returned
=============================================================================
