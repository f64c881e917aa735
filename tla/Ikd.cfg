SPECIFICATION FairIkd
CONSTANTS
    here = here
    there = there
    Points <- TwoPoints
    Boxes <- OneOrBoth
    Searchers = {s1}
    MaxRebuilds = 1
    MaxLogger = 1
    Nil = Nil
    Minimal_Unbalanced_Tree_Size = 3
    delete_criterion = 50
    balance_criterion = 70
    downsample_size = 2
    Infinity = 1000
    MaxTreeSize = 4
    BuildSize = 2
    Radii = {1}
    Ks = {2}
INVARIANTS AnswersExact ReadersAreSafe NothingIsLost
PROPERTIES ImplementsPointMap RebuildFinishes
CHECK_DEADLOCK FALSE
