------------------------------ MODULE TeamLink ------------------------------
(***************************************************************************)
(* The link between the two robots (protocol.py: Deduplicator, TeamLink)   *)
(* as the supervisor node uses it, with the peer at its other end.         *)
(*                                                                         *)
(* A message that was published may be taken late, again, after a newer    *)
(* one, or never: sent only grows, and Receive takes any of it.  The peer  *)
(* stamps by a wall clock that is off by skew.  Counters of refusals and   *)
(* the acknowledgement are output that no handler reads.                   *)
(***************************************************************************)
EXTENDS Integers, Sequences

CONSTANTS
  MessageTypes,      \* types the peer sends, "heartbeat" among them
  Ttl,               \* expires_at_ns - created_at_ns of every message
  HeartbeatTimeout,  \* parameter teammate_heartbeat_timeout_sec
  Skews,             \* how far the peer's wall clock may be ahead
  SequencePeriod,    \* a clocked sequence steps once per period of the clock
  Epoch,             \* the time at the start
  MaxWallClock,           \* bound: last instant
  MaxSent,           \* bound: messages the peer sends
  MaxRestarts        \* bound: restarts of either end

VARIABLES
  wallClock,            \* wall clock of the supervisor
  skew,           \* the peer's clock shows wallClock + skew
  clocked,        \* the peer numbers by its clock, else it counts from 1
  peerTask,       \* is the peer's task_id the one this link expects?
  counter,        \* messages the peer process has numbered
  sent,           \* every message published so far
  latest,         \* Deduplicator._latest of the expected task, None if absent
  lastHeartbeat,  \* last_heartbeat_ns
  restarts,       \* restarts so far
  accepted        \* history: what this process accepted, in order

ASSUME TeamLinkAssumption ==
  /\ "heartbeat" \in MessageTypes
  /\ Ttl \in Nat \ {0}
  /\ HeartbeatTimeout \in Nat
  /\ Skews \subseteq Int
  /\ SequencePeriod \in Nat \ {0}
  /\ Epoch \in Nat
  /\ \A k \in Skews : Epoch + k >= 0
  /\ MaxWallClock \in Nat
  /\ MaxSent \in Nat
  /\ MaxRestarts \in Nat

linkVars == <<latest, lastHeartbeat, accepted>>
peerVars == <<clocked, peerTask, counter, sent>>
teamVars == <<wallClock, skew, peerVars, linkVars, restarts>>

None == -1

TeamInit ==
  /\ wallClock = Epoch
  /\ skew \in Skews
  /\ clocked \in BOOLEAN
  /\ peerTask \in BOOLEAN
  /\ counter = 0
  /\ sent = {}
  /\ latest = [t \in MessageTypes |-> None]
  /\ lastHeartbeat = None
  /\ restarts = 0
  /\ accepted = <<>>

-----------------------------------------------------------------------------
(* The peer *)

PeerClock == wallClock + skew

\* synthetic_inputs.py numbers by its clock in steps of 50 ms, so two messages may
\* share a number; fixed_map_interlock_integration.py counts, one counter for all
\* types.
NextSequence == IF clocked THEN PeerClock \div SequencePeriod ELSE counter + 1

PeerSends(type) ==
  /\ counter < MaxSent
  /\ sent' = sent \cup {[type |-> type, ours |-> peerTask,
                         sequence |-> NextSequence, created |-> PeerClock]}
  /\ counter' = counter + 1
  /\ UNCHANGED <<wallClock, skew, clocked, peerTask, linkVars, restarts>>

\* A new process counts from the start and may be given another task_id.
PeerRestart ==
  /\ restarts < MaxRestarts
  /\ restarts' = restarts + 1
  /\ counter' = 0
  /\ peerTask' \in BOOLEAN
  /\ UNCHANGED <<wallClock, skew, clocked, sent, linkVars>>

-----------------------------------------------------------------------------
(* The supervisor's end *)

\* Mutant of IsFreshMessage: the expiry is not looked at.
IsNotFromFuture(m) == m.created <= wallClock

IsFreshMessage(m) == m.created <= wallClock /\ wallClock <= m.created + Ttl

\* The task is compared first, then freshness, then the sequence.
Accepts(m) ==
  /\ m.ours
  /\ IsFreshMessage(m)
  /\ latest[m.type] = None \/ latest[m.type] < m.sequence

Receive(m) ==
  /\ IF Accepts(m)
     THEN /\ latest' = [latest EXCEPT ![m.type] = m.sequence]
          /\ lastHeartbeat' = IF m.type = "heartbeat" THEN wallClock ELSE lastHeartbeat
          /\ accepted' = Append(accepted, m)
     ELSE UNCHANGED linkVars
  /\ UNCHANGED <<wallClock, skew, peerVars, restarts>>

\* The heartbeat half of teammate_safe in _safety_snapshot.
PeerAlive == lastHeartbeat # None /\ wallClock - lastHeartbeat <= HeartbeatTimeout

\* The supervisor restarts under a configured task_id.
LinkRestart ==
  /\ restarts < MaxRestarts
  /\ restarts' = restarts + 1
  /\ latest' = [t \in MessageTypes |-> None]
  /\ lastHeartbeat' = None
  /\ accepted' = <<>>
  /\ UNCHANGED <<wallClock, skew, peerVars>>

WallTick ==
  /\ wallClock < MaxWallClock
  /\ wallClock' = wallClock + 1
  /\ UNCHANGED <<skew, peerVars, linkVars, restarts>>

TeamNext ==
  \/ \E t \in MessageTypes : PeerSends(t)
  \/ PeerRestart
  \/ \E m \in sent : Receive(m)
  \/ LinkRestart
  \/ WallTick

TeamSpec == TeamInit /\ [][TeamNext]_teamVars

-----------------------------------------------------------------------------
(* Properties *)

Message ==
  [type : MessageTypes, ours : BOOLEAN, sequence : Nat, created : Nat]

\* The variables hold what the attributes of the link hold, and no heartbeat is
\* stamped with a time that has not come.
TeamTypeOK ==
  /\ wallClock \in Nat /\ wallClock >= Epoch
  /\ skew \in Skews
  /\ clocked \in BOOLEAN
  /\ peerTask \in BOOLEAN
  /\ counter \in Nat
  /\ sent \subseteq Message
  /\ latest \in [MessageTypes -> Nat \cup {None}]
  /\ lastHeartbeat \in Nat \cup {None} /\ lastHeartbeat <= wallClock
  /\ restarts \in Nat
  /\ accepted \in Seq(Message)

\* One process accepts a message at most once, and the messages of one type in
\* the order of their sequences, however they are repeated and reordered, over
\* restarts of the peer too ("Accept each sender/task/message sequence once and
\* reject old sequences", protocol.py:37).
AcceptedInOrder ==
  \A j, k \in DOMAIN accepted :
    j < k /\ accepted[j].type = accepted[k].type => accepted[j].sequence < accepted[k].sequence

\* A dead teammate is noticed: the peer counts as alive only if a process on our
\* task sent a heartbeat within the timeout, the life of a message and the skew
\* of its clock together.  Old heartbeats that are delivered late, repeated or
\* after a restart of the supervisor never stretch that.
PeerDeathNoticed ==
  PeerAlive =>
    \E m \in sent :
      /\ m.ours
      /\ m.type = "heartbeat"
      /\ wallClock - (m.created - skew) <= HeartbeatTimeout + Ttl + skew

\* A fresh message that is newer than all accepted ones of its type, by a period
\* of the sequence, is never refused as old: not after the peer restarts, not
\* after it was moved to another task and back.  True of a peer that numbers by
\* its clock.
NewerIsAccepted ==
  \A m \in sent :
    /\ clocked
    /\ m.ours
    /\ IsFreshMessage(m)
    /\ \A k \in DOMAIN accepted : accepted[k].type = m.type =>
         accepted[k].created + SequencePeriod <= m.created
    => Accepts(m)
=============================================================================
