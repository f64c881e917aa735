-------------------------------- MODULE MCIkd --------------------------------
(***************************************************************************)
(* Instances of IkdTree and IkdRebuild for TLC; a behaviour runs one of    *)
(* them.  The tree: two by four points in the plane, cells of edge two,    *)
(* every subtree of more than three nodes subject to rebuilding.  The      *)
(* rebuild: two points, boxes over one and over both.                      *)
(***************************************************************************)
EXTENDS IkdRebuild

CONSTANTS here, there, Nil,
          Minimal_Unbalanced_Tree_Size, delete_criterion, balance_criterion,
          downsample_size, Infinity, MaxTreeSize, BuildSize, Radii, Ks

TwoPoints == {here, there}
OneOrBoth == {{here}, {here, there}}
FlatPoints == {<<0, 0, 0>>, <<1, 0, 0>>, <<2, 1, 0>>, <<3, 0, 0>>}
FlatBoxes == {[min |-> <<0, 0, 0>>, max |-> <<2, 2, 1>>],
              [min |-> <<1, 0, 0>>, max |-> <<3, 1, 1>>],
              [min |-> <<1, 0, 0>>, max |-> <<4, 2, 1>>]}

VARIABLES Root_Node, restoring, contents, running

Tree == INSTANCE IkdTree WITH Points <- FlatPoints, Boxes <- FlatBoxes

ikdVars == <<vars, Root_Node, restoring, contents, running>>

IkdInit ==
    /\ running \in {"tree", "rebuild"}
    /\ Init /\ (running = "tree" => atRoot)
    /\ Tree!Init /\ (running = "rebuild" => ~restoring)

IkdNext ==
    \/ running = "tree" /\ Tree!Next /\ UNCHANGED <<vars, running>>
    \/ running = "rebuild" /\ Next /\ UNCHANGED <<Root_Node, restoring, contents, running>>

IkdSpec == IkdInit /\ [][IkdNext]_ikdVars

\* Fairness of IkdRebuild, where it runs.
Rebuilding ==
    /\ running = "rebuild" /\ ~Over
    /\ UNCHANGED <<atRoot, Root_Node, restoring, contents, running>>

FairIkd ==
    /\ IkdSpec
    /\ SF_ikdVars(Rebuilding /\ RebuildThread)
    /\ SF_ikdVars(Rebuilding /\ Mapping)
    /\ \A s \in Searchers : SF_ikdVars(Rebuilding /\ Searcher(s))
    /\ []<>(rpc \notin {"replay", "relock"})

AnswersExact == Tree!AnswersExact
ImplementsPointMap == Tree!ImplementsPointMap
=============================================================================
