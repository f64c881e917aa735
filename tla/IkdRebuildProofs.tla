--------------------------- MODULE IkdRebuildProofs ---------------------------
(***************************************************************************)
(* Theorems about IkdRebuild, for any number of searchers, any points and  *)
(* boxes: readers never meet deleted nodes, and a rebuild that begins with *)
(* an empty logger loses nothing of what is written while it goes on.      *)
(***************************************************************************)
EXTENDS IkdRebuild, TLAPS

\* An operation makes a set of points of a set of points.
LEMMA ApplyType ==
  ASSUME NEW o \in Ops, NEW S \in SUBSET Points
  PROVE  Apply(o, S) \in SUBSET Points
  BY DEF Apply, Ops

LEMMA AddType == \A p \in Points : Add(p) \in Ops
  BY DEF Add, Ops

LEMMA DeleteType == \A S \in Boxes : DeleteBox(S) \in Ops
  BY RebuildAssumption DEF DeleteBox, Ops

LEMMA PushDownType == PushDown \in Ops
  BY DEF PushDown, Ops

\* The attributes hold what they are declared to hold.
THEOREM TypeCorrect == Spec => []TypeOK
<1>1. Init => TypeOK
  <2> SUFFICES ASSUME Init PROVE TypeOK
    OBVIOUS
  <2>1. spc \in [Searchers -> {"off", "ready", "reading", "counted"}]
    BY DEF Init
  <2>2. reads \in [Searchers \cup {Main} -> Nat]
    BY DEF Init
  <2>3. Rebuild_Logger \in Seq(Ops)
    BY DEF Init
  <2>4. live \in SUBSET Points /\ new_root \in SUBSET Points /\ want \in SUBSET Points
        /\ inside \in SUBSET Searchers
    BY Zenon DEF Init
  <2> QED
    BY <2>1, <2>2, <2>3, <2>4, PushDownType DEF Init, TypeOK, NoOne, Rebuilder
<1>2. TypeOK /\ [Next]_vars => TypeOK'
  <2> SUFFICES ASSUME TypeOK, [Next]_vars PROVE TypeOK'
    OBVIOUS
  <2> USE DEF TypeOK
  <2>1. CASE UNCHANGED vars
    BY <2>1 DEF vars, tree, log, gate, locks, thread, readers, mapper
  <2>2. CASE ~Over /\ UNCHANGED atRoot /\ RebuildThread
    <3> USE <2>2 DEF Step, tree, log, gate, locks, readers, mapper, NoOne, Rebuilder
    <3>1. CASE PollTermination
      BY <3>1 DEF PollTermination
    <3>2. CASE LockRebuildPtr
      BY <3>2 DEF LockRebuildPtr
    <3>3. CASE NothingAsked
      BY <3>3 DEF NothingAsked
    <3>4. CASE StartRebuild
      <4>1. stale' \in BOOLEAN /\ rebuild_flag' \in BOOLEAN
        BY <3>4 DEF StartRebuild
      <4>2. working_flag_mutex' \in {NoOne, Rebuilder} /\ rpc' = "quiesce"
        BY <3>4 DEF StartRebuild
      <4>3. /\ UNCHANGED <<requested, live, generation, freed, Rebuild_Logger>>
            /\ UNCHANGED <<inside, closed, new_root, label, want, termination_flag>>
            /\ UNCHANGED <<mpc, op, spc, reads>>
            /\ UNCHANGED <<rebuild_ptr_mutex, search_flag_mutex>>
        BY <3>4 DEF StartRebuild
      <4>4. /\ spc' \in [Searchers -> {"off", "ready", "reading", "counted"}]
            /\ reads' \in [Searchers \cup {Main} -> Nat] /\ op' \in Ops
            /\ Rebuild_Logger' \in Seq(Ops)
        BY <4>3
      <4>5. /\ live' \in SUBSET Points /\ new_root' \in SUBSET Points /\ want' \in SUBSET Points
            /\ generation' \in Nat /\ freed' \in Nat /\ inside' \in SUBSET Searchers
        BY <4>3
      <4>6. /\ atRoot' \in BOOLEAN /\ requested' \in BOOLEAN /\ label' \in BOOLEAN
            /\ closed' \in BOOLEAN /\ termination_flag' \in BOOLEAN
            /\ rebuild_ptr_mutex' \in {NoOne, Rebuilder} /\ search_flag_mutex' \in {NoOne, Main}
            /\ mpc' \in {"idle", "parallel", "ranging", "rangingLocked", "write", "wait", "join",
                         "stopped"}
        BY <4>3
      <4> QED
        BY <4>1, <4>2, <4>4, <4>5, <4>6
    <3>5. CASE CloseSearch("quiesce", "flatten") \/ CloseSearch("quiesceAgain", "swap")
      <4>1. CASE CloseSearch("quiesce", "flatten")
        BY <4>1 DEF CloseSearch
      <4>2. CASE CloseSearch("quiesceAgain", "swap")
        BY <4>2 DEF CloseSearch
      <4>3. QED
        BY <3>5, <4>1, <4>2
    <3>6. CASE Flatten
      BY <3>6 DEF Flatten
    <3>7. CASE OpenSearch
      BY <3>7 DEF OpenSearch
    <3>8. CASE Built
      BY <3>8 DEF Built
    <3>9. CASE PopOperation
      <4>1. Rebuild_Logger # <<>>
        BY <3>9 DEF PopOperation
      <4>2. Head(Rebuild_Logger) \in Ops /\ Tail(Rebuild_Logger) \in Seq(Ops)
        BY <4>1
      <4>3. Apply(Head(Rebuild_Logger), new_root) \in SUBSET Points
        BY <4>2, ApplyType
      <4> QED
        BY <3>9, <4>2, <4>3 DEF PopOperation
    <3>10. CASE Relock
      BY <3>10 DEF Relock
    <3>11. CASE Replayed
      BY <3>11 DEF Replayed
    <3>12. CASE Swap
      BY <3>12 DEF Swap
    <3>13. CASE Reopen
      <4>1. closed' = FALSE /\ inside' = {} /\ rpc' = "finish"
        BY <3>13 DEF Reopen
      <4>2. /\ UNCHANGED <<requested, live, generation, freed, rebuild_flag, Rebuild_Logger, stale>>
            /\ UNCHANGED <<new_root, label, want, termination_flag, mpc, op, spc, reads>>
            /\ UNCHANGED <<rebuild_ptr_mutex, working_flag_mutex, search_flag_mutex>>
        BY <3>13 DEF Reopen
      <4>3. closed' \in BOOLEAN /\ inside' \in SUBSET Searchers
        BY <4>1
      <4>4. spc' \in [Searchers -> {"off", "ready", "reading", "counted"}]
            /\ reads' \in [Searchers \cup {Main} -> Nat] /\ op' \in Ops
            /\ Rebuild_Logger' \in Seq(Ops)
        BY <4>2
      <4> QED
        BY <4>1, <4>2, <4>3, <4>4
    <3>14. CASE WithdrawRequest
      <4>1. requested' = FALSE /\ working_flag_mutex' = NoOne /\ rpc' = "clear"
        BY <3>14 DEF WithdrawRequest
      <4>2. /\ UNCHANGED <<live, generation, freed, rebuild_flag, Rebuild_Logger, stale>>
            /\ UNCHANGED <<inside, closed, new_root, label, want, termination_flag>>
            /\ UNCHANGED <<mpc, op, spc, reads, rebuild_ptr_mutex, search_flag_mutex>>
        BY <3>14 DEF WithdrawRequest
      <4>3. requested' \in BOOLEAN /\ working_flag_mutex' \in {NoOne, Rebuilder}
        BY <4>1
      <4>4. spc' \in [Searchers -> {"off", "ready", "reading", "counted"}]
            /\ reads' \in [Searchers \cup {Main} -> Nat] /\ op' \in Ops
            /\ Rebuild_Logger' \in Seq(Ops)
        BY <4>2
      <4> QED
        BY <4>1, <4>2, <4>3, <4>4
    <3>15. CASE ClearFlag
      <4>1. rebuild_flag' = FALSE /\ rpc' = "free"
        BY <3>15 DEF ClearFlag
      <4>2. /\ UNCHANGED <<requested, live, generation, freed, Rebuild_Logger, stale>>
            /\ UNCHANGED <<inside, closed, new_root, label, want, termination_flag>>
            /\ UNCHANGED <<mpc, op, spc, reads>>
            /\ UNCHANGED <<rebuild_ptr_mutex, working_flag_mutex, search_flag_mutex>>
        BY <3>15 DEF ClearFlag
      <4>3. rebuild_flag' \in BOOLEAN /\ stale' \in BOOLEAN /\ Rebuild_Logger' \in Seq(Ops)
        BY <4>1, <4>2
      <4>4. spc' \in [Searchers -> {"off", "ready", "reading", "counted"}]
            /\ reads' \in [Searchers \cup {Main} -> Nat] /\ op' \in Ops
        BY <4>2
      <4> QED
        BY <4>1, <4>2, <4>3, <4>4
    <3>16. CASE DeleteOldTree
      BY <3>16 DEF DeleteOldTree
    <3> QED
      BY <3>1, <3>2, <3>3, <3>4, <3>5, <3>6, <3>7, <3>8, <3>9, <3>10, <3>11, <3>12,
         <3>13, <3>14, <3>15, <3>16 DEF RebuildThread
  <2>3. CASE ~Over /\ UNCHANGED atRoot /\ \E s \in Searchers : Searcher(s)
    <3> PICK s \in Searchers : Searcher(s)
      BY <2>3
    <3> USE <2>3 DEF tree, log, gate, locks, thread, mapper
    <3>1. CASE EnterPlain(s)
      BY <3>1 DEF EnterPlain
    <3>2. CASE EnterCounted(s)
      BY <3>2 DEF EnterCounted
    <3>3. CASE LeavePlain(s)
      BY <3>3 DEF LeavePlain
    <3>4. CASE LeaveCounted(s)
      BY <3>4 DEF LeaveCounted
    <3> QED
      BY <3>1, <3>2, <3>3, <3>4 DEF Searcher
  <2>4. CASE ~Over /\ UNCHANGED atRoot /\ (Mapping \/ Client)
    <3> USE <2>4 DEF Map, gate, thread, readers, NoOne, Main
    <3>0. Change \in Ops
      BY PushDownType DEF Change
    <3>1. CASE EndSearches
      BY <3>1 DEF EndSearches
    <3>2. CASE EndRangeSearch("ranging") \/ EndRangeSearch("rangingLocked")
      BY <3>2 DEF EndRangeSearch
    <3>3. CASE WritePlain
      <4>1. live' \in SUBSET Points /\ want' \in SUBSET Points
        BY <3>0, <3>3, ApplyType DEF WritePlain, Written
      <4>2. label' \in BOOLEAN /\ requested' \in BOOLEAN
        BY <3>3 DEF WritePlain, Written
      <4> QED
        BY <3>3, <4>1, <4>2 DEF WritePlain, Written
    <3>4. CASE SeeRequest
      BY <3>4 DEF SeeRequest
    <3>5. CASE WriteLocked
      <4>1. live' \in SUBSET Points /\ want' \in SUBSET Points
        BY <3>0, <3>5, ApplyType DEF WriteLocked, Written
      <4>2. Rebuild_Logger' \in Seq(Ops)
        BY <3>0, <3>5 DEF WriteLocked
      <4>3. label' \in BOOLEAN /\ mpc' \in {"write", "idle"} /\ UNCHANGED <<rebuild_flag, stale>>
        BY <3>5 DEF WriteLocked, Written
      <4> QED
        BY <3>5, <4>1, <4>2, <4>3 DEF WriteLocked, Written
    <3>6. CASE Join
      BY <3>6 DEF Join
    <3>7. CASE StartSearches
      BY <3>7 DEF StartSearches
    <3>8. CASE DeleteAbove
      BY <3>8 DEF DeleteAbove
    <3>9. CASE StopThread
      BY <3>9 DEF StopThread
    <3>10. CASE \E p \in Points : StartRangeSearch(p)
      BY <3>10, AddType DEF StartRangeSearch
    <3>11. CASE \E S \in Boxes : StartDelete(S)
      BY <3>11, DeleteType DEF StartDelete
    <3> QED
      BY <3>1, <3>2, <3>3, <3>4, <3>5, <3>6, <3>7, <3>8, <3>9, <3>10, <3>11
         DEF Mapping, Client
  <2> QED
    BY <2>1, <2>2, <2>3, <2>4 DEF Next
<1> QED
  BY <1>1, <1>2, PTL DEF Spec

-----------------------------------------------------------------------------
(* Readers.  The phases of a rebuild, from the request it takes up to its  *)
(* withdrawal.                                                             *)

Busy == {"quiesce", "flatten", "open", "build", "replay", "relock", "quiesceAgain",
         "swap", "reopen", "finish"}

\* A reader holds the generation that hangs in the tree, but for the range search
\* that holds the search lock over a swap: the thread cannot reopen before it is done.
ReaderInv ==
  /\ rpc \in Busy => requested
  /\ rpc \in {"flatten", "open", "swap", "reopen"} => closed
  /\ closed => inside = {}
  /\ freed <= generation
  /\ rpc \in {"reopen", "finish", "clear", "free", "crashed"} => freed < generation
  /\ \A s \in Searchers : spc[s] # "off" => mpc = "parallel"
  /\ \A s \in Searchers : spc[s] = "reading" => ~requested /\ reads[s] = generation
  /\ \A s \in Searchers : spc[s] = "counted" => s \in inside /\ reads[s] = generation
  /\ mpc = "ranging" /\ ~atRoot => ~requested /\ reads[Main] = generation
  /\ mpc = "rangingLocked" =>
       /\ search_flag_mutex = Main
       /\ \/ reads[Main] = generation
          \/ rpc \in {"reopen", "crashed"} /\ reads[Main] + 1 = generation

LEMMA ReaderInit == Init => ReaderInv
  BY DEF Init, ReaderInv, Busy

\* The rebuild thread waits for the searchers, and a swap finds none inside.
LEMMA ReaderRebuild ==
  ASSUME TypeOK, ReaderInv, UNCHANGED atRoot, RebuildThread
  PROVE  ReaderInv'
<1> USE DEF TypeOK, ReaderInv, Busy, Step, tree, log, gate, locks, readers, mapper, NoOne,
            Rebuilder, Main
<1>1. CASE PollTermination
  BY <1>1 DEF PollTermination
<1>2. CASE LockRebuildPtr
  BY <1>2 DEF LockRebuildPtr
<1>3. CASE NothingAsked
  BY <1>3 DEF NothingAsked
<1>4. CASE StartRebuild
  BY <1>4 DEF StartRebuild
<1>5. CASE CloseSearch("quiesce", "flatten") \/ CloseSearch("quiesceAgain", "swap")
  BY <1>5 DEF CloseSearch
<1>6. CASE Flatten
  BY <1>6 DEF Flatten
<1>7. CASE OpenSearch
  BY <1>7 DEF OpenSearch
<1>8. CASE Built
  BY <1>8 DEF Built
<1>9. CASE PopOperation
  BY <1>9 DEF PopOperation
<1>10. CASE Relock
  BY <1>10 DEF Relock
<1>11. CASE Replayed
  BY <1>11 DEF Replayed
<1>12. CASE Swap
  <2>1. requested /\ closed /\ inside = {}
    BY <1>12 DEF Swap
  <2>2. \A s \in Searchers : spc[s] \notin {"reading", "counted"}
    BY <2>1
  <2>3. mpc = "rangingLocked" => reads[Main] = generation
    BY <1>12 DEF Swap
  <2>4. mpc = "ranging" => atRoot
    BY <2>1
  <2> QED
    BY <1>12, <2>1, <2>2, <2>3, <2>4 DEF Swap
<1>13. CASE Reopen
  <2>1. mpc # "rangingLocked"
    BY <1>13 DEF Reopen
  <2> QED
    BY <1>13, <2>1 DEF Reopen
<1>14. CASE WithdrawRequest
  BY <1>14 DEF WithdrawRequest
<1>15. CASE ClearFlag
  BY <1>15 DEF ClearFlag
<1>16. CASE DeleteOldTree
  BY <1>16 DEF DeleteOldTree
<1> QED
  BY <1>1, <1>2, <1>3, <1>4, <1>5, <1>6, <1>7, <1>8, <1>9, <1>10, <1>11, <1>12,
     <1>13, <1>14, <1>15, <1>16 DEF RebuildThread

\* A searcher enters the generation that hangs in the tree.
LEMMA ReaderSearch ==
  ASSUME TypeOK, ReaderInv, UNCHANGED atRoot, NEW s \in Searchers, Searcher(s)
  PROVE  ReaderInv'
<1> USE DEF TypeOK, ReaderInv, tree, log, gate, locks, thread, mapper
<1>1. CASE EnterPlain(s)
  BY <1>1 DEF EnterPlain
<1>2. CASE EnterCounted(s)
  BY <1>2 DEF EnterCounted
<1>3. CASE LeavePlain(s)
  BY <1>3 DEF LeavePlain
<1>4. CASE LeaveCounted(s)
  BY <1>4 DEF LeaveCounted
<1> QED
  BY <1>1, <1>2, <1>3, <1>4 DEF Searcher

\* The mapping thread writes, and asks for a rebuild, only while nobody reads.
LEMMA ReaderMap ==
  ASSUME TypeOK, ReaderInv, UNCHANGED atRoot, Mapping \/ Client
  PROVE  ReaderInv'
<1> USE DEF TypeOK, ReaderInv, Busy, Map, gate, thread, readers, NoOne, Main
<1>1. CASE EndSearches
  BY <1>1 DEF EndSearches
<1>2. CASE EndRangeSearch("ranging") \/ EndRangeSearch("rangingLocked")
  BY <1>2 DEF EndRangeSearch
<1>3. CASE WritePlain
  BY <1>3 DEF WritePlain, Written
<1>4. CASE SeeRequest
  BY <1>4 DEF SeeRequest
<1>5. CASE WriteLocked
  BY <1>5 DEF WriteLocked, Written
<1>6. CASE Join
  BY <1>6 DEF Join
<1>7. CASE StartSearches
  BY <1>7 DEF StartSearches
<1>8. CASE DeleteAbove
  BY <1>8 DEF DeleteAbove
<1>9. CASE StopThread
  BY <1>9 DEF StopThread
<1>10. CASE \E p \in Points : StartRangeSearch(p)
  BY <1>10 DEF StartRangeSearch
<1>11. CASE \E S \in Boxes : StartDelete(S)
  BY <1>11 DEF StartDelete
<1> QED
  BY <1>1, <1>2, <1>3, <1>4, <1>5, <1>6, <1>7, <1>8, <1>9, <1>10, <1>11
     DEF Mapping, Client

\* No reader walks through nodes that the rebuild thread has deleted, however many
\* searchers there are and however often the subtree is rebuilt.
THEOREM ReadersSafe == Spec => []ReadersAreSafe
<1>1. TypeOK /\ ReaderInv /\ [Next]_vars => ReaderInv'
  <2> SUFFICES ASSUME TypeOK, ReaderInv, [Next]_vars PROVE ReaderInv'
    OBVIOUS
  <2>1. CASE UNCHANGED vars
    BY <2>1 DEF ReaderInv, vars, tree, log, gate, locks, thread, readers, mapper
  <2> QED
    BY <2>1, ReaderRebuild, ReaderSearch, ReaderMap DEF Next
<1>2. TypeOK /\ ReaderInv => ReadersAreSafe
  BY DEF TypeOK, ReaderInv, ReadersAreSafe
<1> QED
  BY <1>1, <1>2, TypeCorrect, ReaderInit, PTL DEF Spec

-----------------------------------------------------------------------------
(* The replay.  Operations lead from S to T when there are trees between   *)
(* them, one after each operation.                                         *)

LeadsTo(ops, S, T) ==
  \E f \in [0..Len(ops) -> SUBSET Points] :
    /\ f[0] = S
    /\ f[Len(ops)] = T
    /\ \A i \in 1..Len(ops) : f[i] = Apply(ops[i], f[i - 1])

LEMMA LeadsNowhere ==
  ASSUME NEW S \in SUBSET Points, NEW T \in SUBSET Points
  PROVE  LeadsTo(<<>>, S, T) <=> S = T
<1>1. ASSUME S = T PROVE LeadsTo(<<>>, S, T)
  <2> DEFINE f == [i \in 0..0 |-> S]
  <2>1. f \in [0..Len(<<>>) -> SUBSET Points] /\ f[0] = S /\ f[Len(<<>>)] = T
    BY <1>1
  <2>2. \A i \in 1..Len(<<>>) : f[i] = Apply(<<>>[i], f[i - 1])
    OBVIOUS
  <2> QED
    BY <2>1, <2>2 DEF LeadsTo
<1>2. ASSUME LeadsTo(<<>>, S, T) PROVE S = T
  BY <1>2 DEF LeadsTo
<1> QED
  BY <1>1, <1>2

\* One more operation at the end.
LEMMA LeadsFurther ==
  ASSUME NEW ops \in Seq(Ops), NEW o \in Ops,
         NEW S \in SUBSET Points, NEW T \in SUBSET Points, LeadsTo(ops, S, T)
  PROVE  LeadsTo(Append(ops, o), S, Apply(o, T))
<1> DEFINE n == Len(ops)
           more == Append(ops, o)
<1>1. PICK f \in [0..n -> SUBSET Points] :
        f[0] = S /\ f[n] = T /\ \A i \in 1..n : f[i] = Apply(ops[i], f[i - 1])
  BY DEF LeadsTo
<1> DEFINE g == [i \in 0..n + 1 |-> IF i = n + 1 THEN Apply(o, T) ELSE f[i]]
<1>2. n \in Nat /\ Len(more) = n + 1 /\ more[n + 1] = o
  OBVIOUS
<1>3. \A i \in 1..n : more[i] = ops[i]
  OBVIOUS
<1>4. g \in [0..n + 1 -> SUBSET Points]
  BY <1>2, ApplyType
<1>5. g[0] = S /\ g[n + 1] = Apply(o, T)
  BY <1>1, <1>2
<1>6. ASSUME NEW i \in 1..n + 1 PROVE g[i] = Apply(more[i], g[i - 1])
  <2>1. CASE i = n + 1
    BY <1>1, <1>2, <2>1
  <2>2. CASE i # n + 1
    <3>1. i \in 1..n /\ i - 1 \in 0..n /\ i - 1 # n + 1 /\ i \in 0..n
      BY <1>2, <2>2
    <3>2. g[i] = f[i] /\ g[i - 1] = f[i - 1]
      BY <1>2, <3>1, <2>2
    <3> QED
      BY <1>1, <1>3, <3>1, <3>2
  <2> QED
    BY <2>1, <2>2
<1> HIDE DEF g, more, n
<1> QED
  BY <1>2, <1>4, <1>5, <1>6 DEF LeadsTo, more

\* The first operation done.
LEMMA LeadsOn ==
  ASSUME NEW ops \in Seq(Ops), ops # <<>>,
         NEW S \in SUBSET Points, NEW T \in SUBSET Points, LeadsTo(ops, S, T)
  PROVE  LeadsTo(Tail(ops), Apply(Head(ops), S), T)
<1> DEFINE n == Len(ops)
           rest == Tail(ops)
<1>1. PICK f \in [0..n -> SUBSET Points] :
        f[0] = S /\ f[n] = T /\ \A i \in 1..n : f[i] = Apply(ops[i], f[i - 1])
  BY DEF LeadsTo
<1> DEFINE g == [i \in 0..n - 1 |-> f[i + 1]]
<1>2. n \in Nat /\ n # 0 /\ Len(rest) = n - 1 /\ Head(ops) = ops[1]
  OBVIOUS
<1>3. \A i \in 1..n - 1 : rest[i] = ops[i + 1]
  OBVIOUS
<1>4. g \in [0..n - 1 -> SUBSET Points]
  BY <1>2
<1>5. g[0] = Apply(Head(ops), S) /\ g[n - 1] = T
  <2>1. g[0] = f[1] /\ g[n - 1] = f[n]
    BY <1>2
  <2>2. 1 \in 1..n /\ f[1] = Apply(ops[1], f[1 - 1])
    BY <1>1, <1>2
  <2>3. 1 - 1 = 0
    OBVIOUS
  <2> QED
    BY <1>1, <1>2, <2>1, <2>2, <2>3
<1>6. ASSUME NEW i \in 1..n - 1 PROVE g[i] = Apply(rest[i], g[i - 1])
  <2>1. i \in 0..n - 1 /\ i - 1 \in 0..n - 1 /\ i + 1 \in 1..n /\ i + 1 - 1 = i - 1 + 1
    BY <1>2
  <2>2. g[i] = f[i + 1] /\ g[i - 1] = f[i - 1 + 1]
    BY <2>1
  <2>3. f[i + 1] = Apply(ops[i + 1], f[i + 1 - 1])
    BY <1>1, <2>1
  <2> QED
    BY <1>3, <2>1, <2>2, <2>3
<1> HIDE DEF g, rest, n
<1> QED
  BY <1>2, <1>4, <1>5, <1>6 DEF LeadsTo, rest

-----------------------------------------------------------------------------
(* What is written while a rebuild goes on *)

Hanging == IF label THEN {} ELSE live

\* The copy, once the logger is replayed on it, is the tree that hangs: from the
\* flattening, which no writer overlaps, to the end of the replay, whose last look
\* at the logger is under the lock that keeps writers out until the swap.
ReplayInv ==
  \/ stale
  \/ rpc = "crashed"
  \/ /\ Hanging = want
     /\ rpc \in Busy => requested /\ rebuild_flag
     /\ rpc \in {"quiesce", "flatten", "open", "replay"} => working_flag_mutex = Rebuilder
     /\ rpc = "build" => working_flag_mutex # Rebuilder
     /\ rpc \in {"quiesce", "flatten", "open"} => Rebuild_Logger = <<>>
     /\ rpc = "open" => new_root = live
     /\ rpc \in {"build", "replay", "relock"} => LeadsTo(Rebuild_Logger, new_root, live)
     /\ rpc \in {"quiesceAgain", "swap"} /\ working_flag_mutex = Rebuilder => new_root = live

LEMMA ReplayInit == Init => ReplayInv
  BY DEF Init, ReplayInv, Hanging, Busy

LEMMA ReplayRebuild ==
  ASSUME TypeOK, ReplayInv, RebuildThread
  PROVE  ReplayInv'
<1> SUFFICES ASSUME ~stale, ~stale', rpc # "crashed", rpc' # "crashed"
             PROVE  ReplayInv'
  <2>1. stale => stale'
    BY DEF RebuildThread, PollTermination, LockRebuildPtr, NothingAsked, StartRebuild, CloseSearch,
           Flatten, OpenSearch, Built, PopOperation, Relock, Replayed, Swap, Reopen,
           WithdrawRequest, ClearFlag, DeleteOldTree, log
  <2>2. rpc # "crashed"
    BY DEF RebuildThread, PollTermination, LockRebuildPtr, NothingAsked, StartRebuild, CloseSearch,
           Flatten, OpenSearch, Built, PopOperation, Relock, Replayed, Swap, Reopen,
           WithdrawRequest, ClearFlag, DeleteOldTree, Step
  <2> QED
    BY <2>1, <2>2 DEF ReplayInv
<1> USE DEF TypeOK, ReplayInv, Hanging, Busy, Step, tree, log, gate, locks, readers, mapper,
            NoOne, Rebuilder
<1>1. CASE PollTermination
  BY <1>1 DEF PollTermination
<1>2. CASE LockRebuildPtr
  BY <1>2 DEF LockRebuildPtr
<1>3. CASE NothingAsked
  BY <1>3 DEF NothingAsked
<1>4. CASE StartRebuild
  BY <1>4 DEF StartRebuild
<1>5. CASE CloseSearch("quiesce", "flatten") \/ CloseSearch("quiesceAgain", "swap")
  BY <1>5 DEF CloseSearch
<1>6. CASE Flatten
  BY <1>6 DEF Flatten
<1>7. CASE OpenSearch
  <2>1. LeadsTo(Rebuild_Logger, new_root, live)
    BY <1>7, LeadsNowhere DEF OpenSearch
  <2> QED
    BY <1>7, <2>1 DEF OpenSearch
<1>8. CASE Built
  BY <1>8 DEF Built
<1>9. CASE PopOperation
  <2>1. LeadsTo(Rebuild_Logger', new_root', live)
    BY <1>9, LeadsOn DEF PopOperation
  <2> QED
    BY <1>9, <2>1 DEF PopOperation
<1>10. CASE Relock
  BY <1>10 DEF Relock
<1>11. CASE Replayed
  <2>1. new_root = live
    BY <1>11, LeadsNowhere DEF Replayed
  <2> QED
    BY <1>11, <2>1 DEF Replayed
<1>12. CASE Swap
  BY <1>12 DEF Swap
<1>13. CASE Reopen
  BY <1>13 DEF Reopen
<1>14. CASE WithdrawRequest
  BY <1>14 DEF WithdrawRequest
<1>15. CASE ClearFlag
  BY <1>15 DEF ClearFlag
<1>16. CASE DeleteOldTree
  BY <1>16 DEF DeleteOldTree
<1> QED
  BY <1>1, <1>2, <1>3, <1>4, <1>5, <1>6, <1>7, <1>8, <1>9, <1>10, <1>11, <1>12,
     <1>13, <1>14, <1>15, <1>16 DEF RebuildThread

\* An operation does to the tree and to what is wanted the same, and is logged.
LEMMA ReplayMap ==
  ASSUME TypeOK, ReplayInv, Mapping \/ Client
  PROVE  ReplayInv'
<1> USE DEF Map, gate, thread, readers, NoOne, Rebuilder
<1>0. UNCHANGED <<rpc, new_root, stale, rebuild_flag, working_flag_mutex>>
  BY DEF Mapping, Client, EndSearches, EndRangeSearch, WritePlain, SeeRequest, WriteLocked, Join,
         StartSearches, DeleteAbove, StopThread, StartRangeSearch, StartDelete
<1> SUFFICES ASSUME ~stale, rpc # "crashed"
             PROVE  ReplayInv'
  BY <1>0 DEF ReplayInv
<1>1. CASE WritePlain
  <2>1. rpc \notin Busy
    BY <1>1 DEF WritePlain, ReplayInv
  <2>2. Hanging' = want'
    BY <1>1 DEF WritePlain, Written, ReplayInv, Hanging, Change, Apply, PushDown, TypeOK
  <2> QED
    BY <1>0, <2>1, <2>2 DEF ReplayInv, Busy
<1>2. CASE WriteLocked
  <2>0. Change \in Ops /\ live' = Apply(Change, live) /\ UNCHANGED requested
    BY <1>2, PushDownType DEF WriteLocked, Written, Change, TypeOK
  <2>1. Hanging' = want'
    BY <1>2 DEF WriteLocked, Written, ReplayInv, Hanging, Change, Apply, PushDown, TypeOK
  <2>2. rpc \notin {"quiesce", "flatten", "open", "replay"} /\ working_flag_mutex # Rebuilder
    BY <1>2 DEF WriteLocked, ReplayInv
  <2>3. ASSUME rpc \in {"build", "relock"}
        PROVE  LeadsTo(Rebuild_Logger', new_root, live')
    <3>1. Rebuild_Logger' = Append(Rebuild_Logger, Change)
      BY <1>2, <2>3 DEF WriteLocked, ReplayInv, Busy
    <3> QED
      BY <2>0, <2>3, <3>1, LeadsFurther DEF ReplayInv, TypeOK
  <2> QED
    BY <1>0, <2>0, <2>1, <2>2, <2>3 DEF ReplayInv
<1>3. CASE DeleteAbove
  BY <1>0, <1>3 DEF DeleteAbove, ReplayInv, Hanging
<1>4. ASSUME UNCHANGED <<requested, live, label, want, Rebuild_Logger>>
      PROVE  ReplayInv'
  BY <1>0, <1>4 DEF ReplayInv, Hanging
<1> QED
  BY <1>1, <1>2, <1>3, <1>4
     DEF Mapping, Client, EndSearches, EndRangeSearch, SeeRequest, Join,
         StartSearches, StopThread, StartRangeSearch, StartDelete

\* Whatever is written while a rebuild goes on is in the tree afterwards, for any
\* number of rebuilds and of operations that wait for the replay.
THEOREM NothingLost == Spec => []NothingIsLost
<1>1. TypeOK /\ ReplayInv /\ [Next]_vars => ReplayInv'
  <2> SUFFICES ASSUME TypeOK, ReplayInv, [Next]_vars PROVE ReplayInv'
    OBVIOUS
  <2>1. CASE UNCHANGED vars
    BY <2>1 DEF ReplayInv, Hanging, vars, tree, log, gate, locks, thread, readers, mapper
  <2>2. CASE \E s \in Searchers : Searcher(s)
    BY <2>2 DEF Searcher, EnterPlain, EnterCounted, LeavePlain, LeaveCounted, ReplayInv,
                Hanging, tree, log, locks, thread, mapper
  <2> QED
    BY <2>1, <2>2, ReplayRebuild, ReplayMap DEF Next
<1>2. ReplayInv => NothingIsLost
  BY DEF ReplayInv, NothingIsLost, Hanging
<1> QED
  BY <1>1, <1>2, TypeCorrect, ReplayInit, PTL DEF Spec
=============================================================================
