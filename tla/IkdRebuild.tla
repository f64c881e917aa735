------------------------------ MODULE IkdRebuild ------------------------------
(***************************************************************************)
(* The threads around one subtree of the ikd-Tree: the mapping thread that *)
(* searches in parallel and then writes, the workers of its parallel       *)
(* nearest searches, and the rebuild thread, which copies the subtree,     *)
(* builds it anew, replays what was written meanwhile and swaps it in      *)
(* (ikd_Tree.cpp, multi_thread_rebuild).  Module IkdTree says what the     *)
(* operations do to a tree; here a tree is the set of its live points and  *)
(* an operation a change of that set.                                      *)
(*                                                                         *)
(* rebuild_logger_mutex_lock is only ever taken under working_flag_mutex   *)
(* and is left out.  search_mutex_counter is the pair inside, closed: -1   *)
(* when closed, the number of searchers inside otherwise.                  *)
(***************************************************************************)
EXTENDS Integers, Sequences

CONSTANTS Points,
          Searchers,     \* workers of a parallel search
          Boxes,         \* sets of points a box deletion covers
          MaxRebuilds,   \* bound: swaps
          MaxLogger      \* bound: operations that wait for replay

ASSUME RebuildAssumption ==
    /\ Boxes \subseteq SUBSET Points
    /\ MaxRebuilds \in Nat
    /\ MaxLogger \in Nat

VARIABLES
    atRoot,          \* is the subtree the whole tree?
    live,            \* points of the subtree that hangs in the tree
    label,           \* a deletion of the whole subtree waits at its father
    generation,      \* how often the subtree was swapped
    freed,           \* generations below this one are deleted
    requested,       \* Rebuild_Ptr points to the subtree
    rebuild_flag,
    Rebuild_Logger,
    new_root,        \* points of the tree under construction
    rebuild_ptr_mutex, working_flag_mutex, search_flag_mutex,   \* holders
    inside, closed,  \* search_mutex_counter
    termination_flag,
    rpc,             \* the rebuild thread
    mpc, op,         \* the mapping thread and its operation
    spc,             \* the searchers
    reads,           \* the generation a reader walks through
    want,            \* history: what the operations made of the subtree
    stale            \* history: a rebuild began with operations of an earlier one

tree == <<live, generation, freed>>
log == <<rebuild_flag, Rebuild_Logger, stale>>
gate == <<inside, closed>>
locks == <<rebuild_ptr_mutex, working_flag_mutex, search_flag_mutex>>
thread == <<rpc, new_root>>
readers == <<spc, reads>>
mapper == <<mpc, op, label, want, termination_flag>>
vars == <<atRoot, requested, tree, log, gate, locks, thread, readers, mapper>>

NoOne == "none"
Rebuilder == "rebuild"
Main == "main"

Add(p) == [kind |-> "ADD_POINT", points |-> {p}]
DeleteBox(S) == [kind |-> "DELETE_BOX", points |-> S]
PushDown == [kind |-> "PUSH_DOWN", points |-> {}]
Ops == [kind : {"ADD_POINT", "DELETE_BOX", "PUSH_DOWN"}, points : SUBSET Points]

\* run_operation, and what the same operation does to the old tree.
Apply(o, S) ==
    CASE o.kind = "ADD_POINT" -> S \cup o.points
      [] o.kind = "DELETE_BOX" -> S \ o.points
      [] OTHER -> {}

Init ==
    /\ atRoot \in BOOLEAN
    /\ live = Points
    /\ label = FALSE
    /\ generation = 0
    /\ freed = 0
    /\ requested = FALSE
    /\ rebuild_flag = FALSE
    /\ Rebuild_Logger = <<>>
    /\ new_root = {}
    /\ rebuild_ptr_mutex = NoOne
    /\ working_flag_mutex = NoOne
    /\ search_flag_mutex = NoOne
    /\ inside = {}
    /\ closed = FALSE
    /\ termination_flag = FALSE
    /\ rpc = "poll"
    /\ mpc = "idle"
    /\ op = PushDown
    /\ spc = [s \in Searchers |-> "off"]
    /\ reads = [t \in Searchers \cup {Main} |-> 0]
    /\ want = Points
    /\ stale = FALSE
-----------------------------------------------------------------------------
(* The rebuild thread: one action per critical section of                  *)
(* multi_thread_rebuild.  Where the code polls until the counter is zero   *)
(* the action waits.                                                       *)

Step(from, to) ==
    /\ rpc = from
    /\ rpc' = to
    /\ UNCHANGED <<readers, mapper>>

PollTermination ==
    /\ Step("poll", IF termination_flag THEN "done" ELSE "idle")
    /\ UNCHANGED <<requested, tree, log, gate, locks, new_root>>

LockRebuildPtr ==
    /\ Step("idle", "look")
    /\ rebuild_ptr_mutex = NoOne
    /\ rebuild_ptr_mutex' = Rebuilder
    /\ UNCHANGED <<requested, tree, log, gate, working_flag_mutex, search_flag_mutex, new_root>>

NothingAsked ==
    /\ Step("look", "poll")
    /\ working_flag_mutex = NoOne
    /\ ~requested
    /\ rebuild_ptr_mutex' = NoOne
    /\ UNCHANGED <<requested, tree, log, gate, working_flag_mutex, search_flag_mutex, new_root>>

StartRebuild ==
    /\ Step("look", "quiesce")
    /\ working_flag_mutex = NoOne
    /\ requested
    /\ working_flag_mutex' = Rebuilder
    /\ rebuild_flag' = TRUE
    /\ stale' = (stale \/ Rebuild_Logger # <<>>)
    /\ UNCHANGED <<requested, tree, Rebuild_Logger, gate, rebuild_ptr_mutex,
                   search_flag_mutex, new_root>>

CloseAtOnce(from, to) ==       \* does not wait for the searchers
    /\ Step(from, to)
    /\ search_flag_mutex = NoOne
    /\ closed' = TRUE
    /\ UNCHANGED <<requested, tree, log, inside, locks, new_root>>

CloseSearch(from, to) ==
    /\ Step(from, to)
    /\ search_flag_mutex = NoOne
    /\ inside = {} /\ ~closed
    /\ closed' = TRUE
    /\ UNCHANGED <<requested, tree, log, inside, locks, new_root>>

Flatten ==
    /\ Step("flatten", "open")
    /\ new_root' = live
    /\ UNCHANGED <<requested, tree, log, gate, locks>>

\* Searches go on, and nothing holds back the writers any more.
OpenSearch ==
    /\ Step("open", "build")
    /\ search_flag_mutex = NoOne
    /\ closed' = FALSE /\ inside' = {}
    /\ working_flag_mutex' = NoOne
    /\ UNCHANGED <<requested, tree, log, rebuild_ptr_mutex, search_flag_mutex, new_root>>

\* BuildTree takes its time.  Without a point there is no tree, no replay and
\* no lock.
Built ==
    /\ Step("build", IF new_root = {} THEN "quiesceAgain" ELSE "replay")
    /\ IF new_root = {}
       THEN UNCHANGED working_flag_mutex
       ELSE working_flag_mutex = NoOne /\ working_flag_mutex' = Rebuilder
    /\ UNCHANGED <<requested, tree, log, gate, rebuild_ptr_mutex, search_flag_mutex, new_root>>

\* The operation leaves the logger under the lock and is run without it.
PopOperation ==
    /\ Step("replay", "relock")
    /\ Rebuild_Logger # <<>>
    /\ new_root' = Apply(Head(Rebuild_Logger), new_root)
    /\ Rebuild_Logger' = Tail(Rebuild_Logger)
    /\ working_flag_mutex' = NoOne
    /\ UNCHANGED <<requested, tree, rebuild_flag, stale, gate, rebuild_ptr_mutex,
                   search_flag_mutex>>

Relock ==
    /\ Step("relock", "replay")
    /\ working_flag_mutex = NoOne
    /\ working_flag_mutex' = Rebuilder
    /\ UNCHANGED <<requested, tree, log, gate, rebuild_ptr_mutex, search_flag_mutex, new_root>>

ReplayedSome ==                \* swaps whatever the logger still holds
    /\ Step("replay", "quiesceAgain")
    /\ UNCHANGED <<requested, tree, log, gate, locks, new_root>>

Replayed ==
    /\ Step("replay", "quiesceAgain")
    /\ Rebuild_Logger = <<>>
    /\ UNCHANGED <<requested, tree, log, gate, locks, new_root>>

\* The new tree is dereferenced, and without a point it is a null pointer; the
\* working lock is held exactly when there was a tree to build.
Swap ==
    /\ Step("swap", IF working_flag_mutex = Rebuilder THEN "reopen" ELSE "crashed")
    /\ live' = new_root
    /\ generation' = generation + 1
    /\ UNCHANGED <<requested, freed, log, gate, locks, new_root>>

Reopen ==
    /\ Step("reopen", "finish")
    /\ search_flag_mutex = NoOne
    /\ closed' = FALSE /\ inside' = {}
    /\ UNCHANGED <<requested, tree, log, locks, new_root>>

WithdrawRequest ==
    /\ Step("finish", "clear")
    /\ requested' = FALSE
    /\ working_flag_mutex' = NoOne
    /\ UNCHANGED <<tree, log, gate, rebuild_ptr_mutex, search_flag_mutex, new_root>>

\* After the unlock, not before.
ClearFlag ==
    /\ Step("clear", "free")
    /\ rebuild_flag' = FALSE
    /\ UNCHANGED <<requested, tree, Rebuild_Logger, stale, gate, locks, new_root>>

DeleteOldTree ==
    /\ Step("free", "poll")
    /\ freed' = generation
    /\ rebuild_ptr_mutex' = NoOne
    /\ UNCHANGED <<requested, live, generation, log, gate, working_flag_mutex,
                   search_flag_mutex, new_root>>

RebuildThread ==
    \/ PollTermination \/ LockRebuildPtr \/ NothingAsked \/ StartRebuild
    \/ CloseSearch("quiesce", "flatten") \/ Flatten \/ OpenSearch
    \/ Built \/ PopOperation \/ Relock \/ Replayed
    \/ CloseSearch("quiesceAgain", "swap") \/ Swap \/ Reopen
    \/ WithdrawRequest \/ ClearFlag \/ DeleteOldTree
-----------------------------------------------------------------------------
(* The searchers: Nearest_Search and Search at the father of the subtree.  *)

EnterPlain(s) ==
    /\ spc[s] = "ready"
    /\ ~requested
    /\ spc' = [spc EXCEPT ![s] = "reading"]
    /\ reads' = [reads EXCEPT ![s] = generation]
    /\ UNCHANGED <<requested, tree, log, gate, locks, thread, mapper>>

EnterCounted(s) ==
    /\ spc[s] = "ready"
    /\ requested
    /\ search_flag_mutex = NoOne
    /\ ~closed
    /\ inside' = inside \cup {s}
    /\ spc' = [spc EXCEPT ![s] = "counted"]
    /\ reads' = [reads EXCEPT ![s] = generation]
    /\ UNCHANGED <<requested, tree, log, closed, locks, thread, mapper>>

LeavePlain(s) ==
    /\ spc[s] = "reading"
    /\ spc' = [spc EXCEPT ![s] = "off"]
    /\ UNCHANGED <<requested, tree, log, gate, locks, thread, reads, mapper>>

LeaveUncounted(s) ==           \* forgets to count itself out
    /\ spc[s] = "counted"
    /\ spc' = [spc EXCEPT ![s] = "off"]
    /\ UNCHANGED <<requested, tree, log, gate, locks, thread, reads, mapper>>

LeaveCounted(s) ==
    /\ spc[s] = "counted"
    /\ search_flag_mutex = NoOne
    /\ inside' = inside \ {s}
    /\ spc' = [spc EXCEPT ![s] = "off"]
    /\ UNCHANGED <<requested, tree, log, closed, locks, thread, reads, mapper>>

Searcher(s) == EnterPlain(s) \/ EnterCounted(s) \/ LeavePlain(s) \/ LeaveCounted(s)
-----------------------------------------------------------------------------
(* The mapping thread *)

Map(from, to) ==
    /\ mpc = from
    /\ mpc' = to
    /\ UNCHANGED <<generation, freed, rebuild_flag, stale, gate, rebuild_ptr_mutex,
                   working_flag_mutex, thread>>

\* The searches of one iteration, a parallel loop the mapping thread waits for.
StartSearches ==
    /\ Map("idle", "parallel")
    /\ spc' = [s \in Searchers |-> "ready"]
    /\ UNCHANGED <<requested, live, Rebuild_Logger, search_flag_mutex, reads, op, label,
                   want, termination_flag>>

EndSearches ==
    /\ Map("parallel", "idle")
    /\ \A s \in Searchers : spc[s] = "off"
    /\ UNCHANGED <<requested, live, Rebuild_Logger, search_flag_mutex, readers, op, label,
                   want, termination_flag>>

\* The range search before a downsampled insertion takes no lock at the root,
\* and the search lock below it when the subtree is under rebuild.
StartRangeSearch(p) ==
    LET locked == ~atRoot /\ requested
    IN  /\ Map("idle", IF locked THEN "rangingLocked" ELSE "ranging")
        /\ IF locked
           THEN search_flag_mutex = NoOne /\ search_flag_mutex' = Main
           ELSE UNCHANGED search_flag_mutex
        /\ op' = Add(p)
        /\ reads' = [reads EXCEPT ![Main] = generation]
        /\ UNCHANGED <<requested, live, Rebuild_Logger, spc, label, want, termination_flag>>

EndRangeSearch(from) ==
    /\ Map(from, "write")
    /\ search_flag_mutex' = IF from = "rangingLocked" THEN NoOne ELSE search_flag_mutex
    /\ UNCHANGED <<requested, live, Rebuild_Logger, readers, op, label, want,
                   termination_flag>>

StartDelete(S) ==
    /\ Map("idle", "write")
    /\ op' = DeleteBox(S)
    /\ UNCHANGED <<requested, live, Rebuild_Logger, search_flag_mutex, readers, label, want,
                   termination_flag>>

\* A box over more than the subtree leaves a label at its father, and no more.
DeleteAbove ==
    /\ Map("idle", "idle")
    /\ ~atRoot
    /\ label' = TRUE
    /\ want' = {}
    /\ UNCHANGED <<requested, live, Rebuild_Logger, search_flag_mutex, readers, op,
                   termination_flag>>

\* On its way down an operation first moves the label of the father.
Change == IF label THEN PushDown ELSE op

Written ==
    /\ live' = Apply(Change, live)
    /\ want' = IF label THEN want ELSE Apply(op, want)
    /\ label' = FALSE
    /\ UNCHANGED <<search_flag_mutex, readers, op, termination_flag>>

\* Nobody asked for a rebuild: the change takes no lock, and may leave a subtree
\* that asks for one, if the pointer is not in use at this moment.
WritePlain ==
    /\ Map("write", IF label THEN "write" ELSE "idle")
    /\ ~requested
    /\ Written
    /\ \/ UNCHANGED requested
       \/ /\ ~label
          /\ rebuild_ptr_mutex = NoOne
          /\ generation < MaxRebuilds
          /\ requested' = TRUE
    /\ UNCHANGED Rebuild_Logger

SeeRequest ==
    /\ Map("write", "wait")
    /\ requested
    /\ UNCHANGED <<requested, live, Rebuild_Logger, search_flag_mutex, readers, op, label,
                   want, termination_flag>>

WriteLocked ==
    /\ Map("wait", IF label THEN "write" ELSE "idle")
    /\ working_flag_mutex = NoOne
    /\ Len(Rebuild_Logger) < MaxLogger
    /\ Written
    /\ Rebuild_Logger' = IF rebuild_flag THEN Append(Rebuild_Logger, Change)
                                         ELSE Rebuild_Logger
    /\ UNCHANGED requested

\* The destructor.
StopThread ==
    /\ Map("idle", "join")
    /\ termination_flag' = TRUE
    /\ UNCHANGED <<requested, live, Rebuild_Logger, search_flag_mutex, readers, op, label,
                   want>>

Join ==
    /\ Map("join", "stopped")
    /\ rpc = "done"
    /\ UNCHANGED <<requested, live, Rebuild_Logger, search_flag_mutex, readers, op, label,
                   want, termination_flag>>

Mapping ==
    \/ EndSearches \/ EndRangeSearch("ranging") \/ EndRangeSearch("rangingLocked")
    \/ WritePlain \/ SeeRequest \/ WriteLocked \/ Join

\* What the odometry decides to do next.
Client ==
    \/ StartSearches \/ DeleteAbove \/ StopThread
    \/ \E p \in Points : StartRangeSearch(p)
    \/ \E S \in Boxes : StartDelete(S)

Over == mpc = "stopped" \/ rpc = "crashed"

Next ==
    \/ /\ ~Over
       /\ UNCHANGED atRoot
       /\ RebuildThread \/ Mapping \/ Client \/ \E s \in Searchers : Searcher(s)
    \/ Over /\ UNCHANGED vars

Spec == Init /\ [][Next]_vars
-----------------------------------------------------------------------------
(* Fairness: every thread goes on.  A lock or the counter may be taken and *)
(* given back many times while a thread waits for it; the waiter polls     *)
(* every microsecond and the other threads leave it alone for longer.      *)
(* The mapping thread pauses between scans for long enough that the replay *)
(* empties the logger: without that a writer could keep it going for ever. *)

Fairness ==
    /\ SF_vars(~Over /\ UNCHANGED atRoot /\ RebuildThread)
    /\ SF_vars(~Over /\ UNCHANGED atRoot /\ Mapping)
    /\ \A s \in Searchers : SF_vars(~Over /\ UNCHANGED atRoot /\ Searcher(s))
    /\ []<>(rpc \notin {"replay", "relock"})

FairSpec == Spec /\ Fairness
-----------------------------------------------------------------------------
(* Properties *)

TypeOK ==
    /\ atRoot \in BOOLEAN /\ requested \in BOOLEAN /\ label \in BOOLEAN
    /\ live \in SUBSET Points /\ new_root \in SUBSET Points /\ want \in SUBSET Points
    /\ generation \in Nat /\ freed \in Nat
    /\ rebuild_flag \in BOOLEAN /\ stale \in BOOLEAN /\ closed \in BOOLEAN
    /\ Rebuild_Logger \in Seq(Ops)
    /\ inside \in SUBSET Searchers
    /\ rebuild_ptr_mutex \in {NoOne, Rebuilder}
    /\ working_flag_mutex \in {NoOne, Rebuilder}
    /\ search_flag_mutex \in {NoOne, Main}
    /\ termination_flag \in BOOLEAN
    /\ rpc \in {"poll", "idle", "look", "quiesce", "flatten", "open", "build", "replay",
                "relock", "quiesceAgain", "swap", "reopen", "finish", "clear", "free",
                "done", "crashed"}
    /\ mpc \in {"idle", "parallel", "ranging", "rangingLocked", "write", "wait", "join",
                "stopped"}
    /\ op \in Ops
    /\ spc \in [Searchers -> {"off", "ready", "reading", "counted"}]
    /\ reads \in [Searchers \cup {Main} -> Nat]

\* No nearest search, and no range search below the root, walks through nodes
\* that the rebuild thread has deleted.
ReadersAreSafe ==
    /\ \A s \in Searchers : spc[s] \in {"reading", "counted"} => reads[s] >= freed
    /\ mpc = "rangingLocked" \/ (mpc = "ranging" /\ ~atRoot) => reads[Main] >= freed

\* Whatever was written while a rebuild went on is in the tree: between two
\* operations its points are the ones the operations ask for, unless a rebuild
\* began with operations that an earlier one had left behind.
NothingIsLost ==
    stale \/ rpc = "crashed" \/ (IF label THEN {} ELSE live) = want

\* A rebuild begins with an empty logger.
LoggerEmptyAtStart == ~stale

\* A rebuild asked for comes to its end, or to a tree without a point, unless
\* the destructor comes first.
RebuildFinishes == requested ~> (~requested \/ rpc = "crashed" \/ termination_flag)
=============================================================================
