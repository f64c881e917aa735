# A verification project for the MID-360 autonomy stack

TLA+ modules of the robot software in this repository, TLC runs that check them
on small instances, and TLAPS proofs for every value of their constants.
`PROJECT.json` lists components, runs, hazards, theorems and, for every
definition, the source lines it stands for.  Paths below are relative to the
repository root (`src/…` in `PROJECT.json` is the checkout, so its ROS packages
are under `src/src/`).

## 1. The system

A ROS 2 stack for a two-robot ball-passing match.  A LiDAR (MID-360, or its
simulation) is read by the vendored Livox driver; vendored FAST-LIO2 makes a local
odometry and a map of it; guards judge both; the odometry is anchored to a fixed
map by scan matching; a supervisor decides, from signals of all the others, what
the robot may do; an executor (a simulator here, hardware adapters later) carries
it out; a radio link joins the two robots.

Every Python node and most C++ nodes are a process with a single-threaded executor
(`rclpy.spin`, `rclcpp::spin`): a callback is atomic within its node, and all
concurrency lies between nodes, in the topics that join them, in the clocks and in
restarts.  Two parts have threads of their own: the ikd-Tree rebuilds subtrees
beside the mapping thread, and the Livox driver has the SDK's threads, a process
thread and two poll threads.  Nothing is persisted except maps and logs.

| component | state it keeps | operations | what makes it correct |
|---|---|---|---|
| match core (`supervisor.py`) | competition state, evidence state of the task | operator transitions, evidence, action gates, success and failure | a stop is latched, evidence keeps its order, work that failed is contained |
| supervisor node (`ros_node.py`) | last value and time of every signal, pose age, pending, resolved and completed actions | callbacks for signals, diagnostics, commands, feedback, team messages; timers for expiry and safety | nothing is issued past an interlock; the books agree; a verdict is final; loss of localization leaves ACTIVE |
| action contract (`actions.py`) | newest sequence per sender and task | `ActionDeduplicator.accept` | a request is carried out at most once, in order, before it expires |
| action executor (`simulator.py`) | mechanism flags, deduplicator | request callback, plant state timer | answers come from the mechanism, not from time |
| team link (`protocol.py`) | newest sequence per sender, task and type; last heartbeat | `receive` | messages accepted once and in order; a dead peer is noticed |
| map anchor (`tracking.py`, `map_odom_anchor.py`) | tracking state, map→odom, its source, odometry, `pose_valid` | initial pose, correction, relocalization request, status timer | the map counts as locked only on a confirmed anchor |
| scan matcher (`mid360_scan_matcher_node.cpp`) | its own map→odom, pending pose, odometry | initial pose, odometry, scan | what it publishes converges with the anchor |
| input guard (`input_guard.py`) | verdict, age and stamp of each stream, time base, last published signature | LiDAR and IMU packets, status timer | `input_valid` rests on recent accepted packets and is withdrawn by refusal and by silence |
| pose bridge (`pose_bridge.py`) | verdict and age of the last pose, last valid position | FAST-LIO odometry, status timer | a reader of odometry and `pose_valid` is never left with a doubtful pose under TRUE |
| preflight (`preflight.py`) | last value and time of each flag, odometry age | flag and odometry callbacks, timer | ready rests on evidence of bounded age |
| target gate (`target_gate.py`) | latest observation | observation, status timer | a shot is let through only at a target seen recently |
| pose command bridge (`pose_command_bridge.py`, `core.py`) | pose, its age, two flags without an age | odometry and flag callbacks, timer | the base is told where to go only by a recent pose on a confirmed anchor |
| 2025 rulebook (`rulebook_2025.py`) | clocks, possession, score | ticks and records | what was accepted in one possession does not count in the next |
| registered cloud mapper (`fastlio_cloud_mapper_node.cpp`) | voxel map with hit counts, last accepted pose | cloud, odometry, publication, save | only reliable frames enter the map; the gate opens again after a jump |
| occupancy grid tool (`pointcloud_occupancy_grid_node.cpp`) | log odds, age of each cell | cloud, odometry | what has gone is forgotten; a ray does not erase its own end |
| simulated LiDAR (`livox_points_plugin.cpp`) | scan pattern, world clock | world update, reset | times of the points of a packet increase and packets do not overlap |
| FAST-LIO2 node (`laserMapping.cpp`, `IMU_Processing.hpp`) | buffers of scans, stamps and samples, filter, map cube | sensor callbacks, timer | a pose is of the scan it is stamped with, and no interval is left out |
| iterated filter (`esekfom.hpp`) | state, covariance, matches | `update_iterated_dyn_share_modified` | the covariance is that of the last step |
| preprocessing (`preprocess.cpp`) | point buffers | a handler per LiDAR type, `give_feature` | every point keeps the time it was measured at |
| ikd-Tree (`ikd_Tree.cpp`, `ikd_Tree.h`) | tree with lazy labels; rebuild thread, log, counter | build, search, add, delete, restore, rebuild | searches are exact; a rebuild loses nothing and is safe for readers |
| Livox driver (`src/vendor_livox_ros_driver2`) | device slots, packet queue, clouds, ring queues, semaphores | SDK callbacks, process thread, poll threads, stop | only configured lidars are published; every point once, in order; no thread sleeps with work to do |

How they interact: the supervisor reads `pose_valid`, `map_locked`,
`preflight_ready`, `target_valid`, `ball_present`, `mechanism_healthy` and
`teammate_safe` (Bool topics with an age each), the pose age from a diagnostic,
team messages through the link, and commands from an operator.  It publishes
requests with a TTL and takes feedback.  The anchor takes `/initialpose`,
corrections and relocalization requests; the matcher takes `/initialpose` too,
from a queue of its own.  The command bridge follows the anchor's pose and lock.
LiDAR packets go from driver or simulation to the guard and to FAST-LIO2, whose
odometry goes to the pose bridge and whose registered clouds go to the
mapper, the grid and the matcher.  The behaviours that are hard to test are
feedback that races expiry, a request delivered twice or after its publisher
restarted, two nodes that hold one fact each in their own copy, a flag that only a
timer can withdraw, ages that add up along a chain, buffers that are paired after a
loss, and threads that meet at a counter or a semaphore.  `hazards` in
`PROJECT.json` lists them by line, with the property that would catch each.

## 2. Modules

| module | models | composed of |
|---|---|---|
| `GameSupervisor` | `GameSupervisor` of `supervisor.py`, one operator per method; the action names | |
| `SupervisorNode` | `RoboconGameSupervisorNode`, one action per callback, command and timer | extends `GameSupervisor` |
| `MatchLifecycle` | abstract: which phases a match may go through | |
| `SyntheticExecutor` | `RoboconActionSimulator` with its deduplicator and mechanism | |
| `ActionLoop` | supervisor and executor joined by request, feedback and ball topics | extends `SupervisorNode`, `SyntheticExecutor` |
| `MapAnchor` | `TrackingStateMachine`, `Mid360MapOdomAnchor` | |
| `Localization` | `Mid360ScanMatcher`, and the anchor with it, joined by their topics, with restarts of either | extends `MapAnchor` |
| `PoseCommand` | `PoseCommandBridge` behind the anchor | extends `MapAnchor` |
| `TeamLink` | `Deduplicator`, `TeamLink.receive`, the peer that sends | |
| `MatchRules`, `Scoreboard` | `ABURobocon2025RuleEngine`; abstract: a game of possessions | |
| `Host` | the monotonic clock and the restarts of the signal nodes | |
| `ValidityFlag` | abstract: what the publisher of a validity flag promises | |
| `InputGuard`, `PoseBridge`, `Preflight` | the three signal nodes, one action per callback and timer | extend `Host`, use `ValidityFlag` |
| `TargetGate` | `TargetGate` and the supervisor's reading of its flag | |
| `CloudMapper`, `CloudFilters` | the mapper from the gate on; the filters before it | |
| `OccupancyGrid` | the grid tool | |
| `LidarSimulation` | the Gazebo plugin | |
| `FastLio` | the odometry node: buffers, pairing, initialization, poses | |
| `Preprocess`, `FeatureExtraction` | the five handlers; `give_feature` | |
| `Undistortion` | the backward pass of `UndistortPcl` | |
| `IteratedUpdate` | the control of the iterated update | |
| `LocalMap` | `lasermap_fov_segment` | |
| `PointMap` | abstract: what the k-d tree promises the odometry node | |
| `MapIncrement` | `map_incremental` on that promise | extends `PointMap` |
| `IkdTree` | the tree as one thread sees it | implements `PointMap` |
| `IkdRebuild` | the threads around a subtree that is rebuilt | |
| `LidarDevices`, `PubHandler`, `Lddc` | the Livox driver: devices, packets to frames, frames to topics and the stop | |
| `MCNodes`, `MCIkd`, `MCLivox`, `MCOdometry` | instances for TLC | |
| `SupervisorNodeProofs`, `ActionLoopProofs`, `LocalizationProofs`, `NodesProofs`, `OdometryProofs`, `ScanProofs`, `IkdRebuildProofs`, `LivoxProofs` | theorems | each extends what it is about, `NodesProofs`, `OdometryProofs` and `LivoxProofs` the `MC` module that brings it together; `ScanProofs` extends `OdometryProofs` |

The four `MC` modules put several components that share no state into one run: a
behaviour runs one of them, chosen at its start (`running`).  What one component
needs of another is in an abstract module that the other is shown to implement
(`ValidityFlag`, `PointMap`), or the two are composed.

### State and actions

*GameSupervisor, SupervisorNode.*  `state` and `taskState` are the attributes of
the core; the task state of the second role is never written by the code and left
out.  A signal's pair (value, time) becomes `level`: `"young"` (true, within the
0.30 s age limits), `"aging"` (true, within the 0.50 s silence limit) or `"lost"`
(false, silent or never received).  Only `pose_valid` and `target_valid` are
compared with both limits, so only these age in two steps; the step `Age` is time
passing without a message.  `requests[i]` is the request with sequence `i` and
its `_action_status`, `pending` the keys of `_pending_actions`, `completed`
`_completed_actions`.  All requests have one TTL, so they elapse in the order
they were published (`Elapse`).  A method that raises `RuntimeError` is an
operator whose guard is false, since the node catches the error and publishes a
rejection.  The request `EmergencyStop` latches before it is published, an
`AbortTask` leaves a running match before it is.

*SyntheticExecutor, ActionLoop.*  A request may be delivered at any later time,
twice, out of order, after its publisher restarted, or never; feedback comes in
order and may be lost; `ball_present` lags behind the mechanism.  The executor asks
for a request's age once, when it accepts it (`simulator.py:161`); the effect on the
mechanism and the answer (`:169`) are a step of their own (`ExecutorCarriesOut`), and
the request is `inHand` between the two, while time passes and the supervisor's timers
run.  `executed` is history.

*MapAnchor, Localization.*  A rigid transform is abstracted to its
*origin*, the initial pose it descends from: a correction is bounded by the jump
gate of the matcher and keeps its origin, which is what decides whether two nodes
talk about one place.  Both nodes read odometry against an age limit (`"none"`,
`"fresh"`, `"stale"`).  Whether a scan is accepted is left open, under the guards
of `scanCallback`.  `unconfirmed` and `doubted` are history.

*PoseCommand.*  The anchor of `MapAnchor` with ages in place of its clock, three
topics to the bridge and the timers of both ends.  `pose` and `map_locked` are
what the bridge holds; `doubtAge` (history) says how long ago the anchor was
last confirmed or came up, `heard` how old the odometry behind the pose is.  The anchor may die
and come back at any time.

*TargetGate.*  An observation has the age it has and the age its stamp shows by the
wall clock, which may be set once, forwards or back.  The supervisor's end ages by
its own arrival times, as the code does.

*TeamLink.*  Time is a number.  The peer's clock is off by a constant `skew`, its
sequences come from its clock in steps of a period (`synthetic_inputs.py:65`) or
from a counter (`fixed_map_interlock_integration.py:179`).  `sent` only grows and
any of it may be received at any time, again and again: loss, delay, repetition
and reordering are all in that.  `peerTask` says whether the peer runs under the
task id the link expects (with the default `TBD` it never does, since every
process draws a new id).

*MatchRules.*  `state`, `startTime`, `possessionStart`, `offensiveTeam`, `score` and
the four flags are the attributes of the engine.  Its callers pass the time: a
referee's call carries the present, evidence the instant it was seen, which may be
`Lateness` back.  Every record first runs the clock (`_require_active_clock`), so
one that arrives after the end of a possession stops it instead (`Rejected`).
Nothing in the repository calls `tick` by itself, so no fairness is assumed of it.
`tally` is history: when the possession that began last began, and when what was
accepted in it was seen.

*InputGuard, PoseBridge, Preflight.*  The ages are compared with the host's
monotonic clock, so time is a number here (`Host`).  What a packet or a pose is
checked for is a few Booleans (`sound`, `framed`, `calm`) beside the checks that
carry state over from one message to the next: stamp and time base in the guard,
the step gate in the bridge.  The guard publishes from its callbacks only when its
`signature` changed, the bridge at every message, both from a timer.  The bridge is
joined to a reader of its two topics as the map anchor is one
(`_odom_callback`, `_pose_valid_callback`), each topic with a bounded queue.
Preflight is checked behind publishers that are known only by `ValidityFlag`
(`Behind` gives the ages a flag's evidence may have under that promise): the
guard and the bridge are shown to keep it, and the anchor's lock is
TRUE only while its odometry is fresh (`map_odom_anchor.py:256-265`).  That a
message takes at most `Latency` is an assumption on the transport.

*CloudMapper, CloudFilters.*  The pose and its stamp are kept relative to those
last accepted, which is all the gate compares; a voxel has its points, its hits
and its age in accepted frames, for the window and the cap.  Publication, saving
and a kill in the middle of saving are actions.  `CloudFilters` has points as
integer vectors: extraction, the voxel grid with its cap, the radius filter.  The mean
of a voxel is accumulated point by point and divided; the order of a hash map is any
order.  A bound that is not positive switches its filter off, as in the code, except
the edge of the voxels, which is positive in every configuration.

*OccupancyGrid.*  Cells hold log odds and the number of clouds since they were last
touched; a cloud is a sequence of end cells, each of which lowers the cells of its
ray and raises those around its end, and then all decay.  The grid of the model is the
one after the last cloud; the node sends one every `publish_every_n_clouds`.

*LidarSimulation.*  Rows of the pattern file are the ticks of their samples, 0 for a
row that does not parse; a packet is a function from the rays that returned to their
offsets.  A world update may come any step later, and the world's time may start over.

*FastLio.*  Time is in ticks.  The three buffers are sequences, a scan is its number,
stamp, size and span; `Measures` is what `sync_packages` hands over, `odometry` the
last pose published, with the number of the scan it was stamped with (`number`) and
of the one its points came from (`measured`).  Lost messages, scans without points, and time
that runs back once are inputs.

*Preprocess, FeatureExtraction, Undistortion, IteratedUpdate, LocalMap,
MapIncrement* are what happens inside one step of the odometry node, each over all
its small inputs.  In `Preprocess` a point has a line, a time of measurement and
what the filters ask of it; what a handler keeps is a function from the indices of the
points to the time it gives them, computed as the handler does it, from the message or
from the azimuth with `time_last` of the line.  Times are kept in steps of the turn, so the
division by `omega_l` is left out (section 6).  `FeatureExtraction` has the
flags each pass sets; what the geometry says of a group is a free answer.
`Undistortion` records for each point by which segments it was moved.
`IteratedUpdate` has, of the state, the number of steps made, and of the covariance
whether it is the prior, carried to a linearization, or the posterior.  `LocalMap`
has the cube with integer sides and some points that are followed.  `MapIncrement`
decides about a whole scan from the neighbours found before any of it is added
(`map_incremental`), then adds its points one by one, first those that are thinned out
with their cell and then the others; the neighbours may be those of a place up to
`Drift` away, where the filter's iteration had put the point when they were searched.
`stored` (history) is what has been in the map, `seen` what was offered to it.

*IkdTree, PointMap.*  A node is a record that holds its sons, its labels, its range
and its counts, as in `ikd_Tree.h`; the refinement maps a tree to the bag of its
live points.  `AnswersExact` compares each search with its definition over that bag.

*IkdRebuild.*  A tree is the set of its live points.  Each lock, the counter, the log
and each shared pointer is touched in a step of its own: the mapping thread
searches in parallel, then writes; its workers take part in the counter; the
rebuild thread copies, builds, replays and swaps.

*LidarDevices, PubHandler, Lddc.*  The SDK answers each command with success, a
timeout or a failure, in any order, and may report a lidar twice.  A point is its
number and stamp, a frame ends by the lidar's time or the host's; a frame has a part
for each of its lidars, which is all that the driver does with it, so `published` keeps
the points per lidar.  The ring queue
has its two indexes with their width, the write and the move of an index are two
steps; the semaphore is read without its mutex where the code does so.

## 3. Runs

| run | question | bounds, and why they are enough |
|---|---|---|
| `SupervisorInterlock` | interlocks of a navigation and a shot | no signal is held: each comes, ages, is withdrawn, falls silent or is not received after a restart, independently of the others; 1 request (navigation, shot or abort) per process, since a guard looks at no other request, 1 restart |
| `SupervisorStop` | the abstract lifecycle with its latched stop; final verdicts; liveness of expiry and safety timers | 2 requests (a navigation, and a stop or an abort that is confirmed late) pending at once, which is what two answers, or an answer and an expiry, need to race; evidence from a peer, 1 restart; of the signals those of the map come and go, the rest are kept fresh |
| `SupervisorContainment` | expected violation, see Findings | 2 requests |
| `LoopTask` | the physical meaning of evidence over the whole task; the ball leaves once | the seven requests of a task, with an abort in the middle; 1 repeated delivery |
| `LoopRestart` | once, in order, never taken up after expiry, answered by its own task, across a restart of the supervisor | 2 requests per process, which may expire on the way, in the executor's hand or after it, 2 pending, 1 repeated delivery, 1 restart |
| `Localization` | the lock is confirmed and follows the local pose; corrections converge | 2 poses (an old and a new one), 1 restart of either node, a correction topic of depth 2 (overflow is reached; the code's depth is 5) |
| `LocalizationContract` | expected violation, see Findings | the same |
| `Nodes` | guard, bridge, preflight, team link, rules, mapper, command bridge with anchor, target gate: what rests on what, how old it may be, and what silence withdraws | 3 instants with age limits 1 (IMU 2), so that every age is passed; 2 stamps; queues of 2, which overflow; 1 restart. Team link: wall clock 4, TTL 1, timeout 1, period 2, skew −1..1: a message outlives all three. Rules: game 4, possession 2, advance 1: every clock runs out, in every order, evidence up to 1 late, also from before the possession it is reported in. Mapper: 3 voxels under a cap of 2, 4 scans, window 2, poses within and out of reach. Command bridge and target gate: every limit and delay 1, two messages in flight, the wall clock set once by ±1: both bounds are reached exactly |
| `Ikd` | the tree answers and changes as a bag of points does; the rebuild is safe, complete and comes to its end | trees of up to 4 of 4 points in the plane, 3 boxes, cells of edge 2; subtrees of more than 3 nodes are rebuilt, by imbalance and by deletion. Rebuild: 2 points, 1 worker beside the mapping thread, 1 rebuild, 1 logged operation |
| `IkdLogger` | expected violation, see Findings | the rebuild alone, 2 rebuilds |
| `Livox` | devices, packets to frames, storage and stop | 3 lidars for 2 slots, so one finds none; 2 settings, 3 files, 2 reports, 1 timeout. 2 lidars with packets of 2 points and frames of 2 ms, stamps that cross a boundary, 4 ticks. Ring queues of 2 whose indexes wrap at 4, with 4 frames, so queues fill and indexes wrap |
| `Odometry` | ten stages between the LiDAR and the maps, each over all its small inputs | 5 scans with 1 fault; 1–4 iterations over 2 features; a cube of 8 ranges moved on one and both axes; 3 points among 3 samples; scans of 2 points into cells of edge 2, with neighbours searched up to 1 away and a point that gives way to another of its scan; messages of 4 points over 2 lines that go round more than once; a line of 8 points, groups of 3; up to 4 of 15 points through the filters; 3×2 cells seen from within and without; patterns shorter than, as long as and longer than the window, 1 world reset |

Deadlock is checked in every run of the supervisor, the loop and localization.
It is not checked in the others, where clocks, messages or passes are bounded, or a
component comes to its end: the instance then stops.  For the threads of tree and
driver that nobody waits for ever is a property of its own (`RebuildFinishes`,
`NoLostWakeup`, `StopReturns`).

All bounds on counters are constants that appear in guards (`Max…`); the theorems
hold for every value of them.  Each property of a passing run comes with a mutant
of the code, an operator named and commented next to the definition it changes,
under which the run finds the property violated.

### Fairness

* `FairNodeSpec`: the supervisor's own timers fire (`WF` of `ExpireActions`,
  `MonitorSafetyTimer`: a spinning executor runs its timers, and a wall timer is
  not lost) and time passes (`Elapse`).
* `FairLocalizationSpec`: the anchor's status timer fires and it takes what is in
  its correction queue.
* `FairNodes`: the status timers of the three signal nodes fire and the reader takes
  what is in its queue of flags; for `MapperGateReopens` alone, scans and poses with
  newer stamps keep reaching the mapper, which is restarted only finitely often.
* `FairIkd`: each thread is scheduled, strongly, because locks and the counter are
  polled in loops and are free again and again; and the replay empties the log at some
  time (`[]<>(rpc \notin {"replay", "relock"})`): the mapping thread cannot log for
  ever faster than it is replayed, since it waits for sensor data between writes.
* `FairLivox`: poll threads, the process thread and the destructor are scheduled, a
  lidar that is there is connected and goes on sending, and the poll thread of the
  point clouds empties a queue at some time.  `StopReturns` needs the lidars to go on
  sending: the semaphore is waited for without a timeout, and a signal is all that
  wakes the thread.

Nothing is assumed of operators, peers, adapters or network elsewhere: no
message is *obliged* to arrive.

## 4. Proofs

TLAPS checks, for all constants that satisfy the modules' `ASSUME`:

* `SupervisorNodeProofs`.  Type correctness first.  `BooksAgree` is inductive
  together with it, proved for each writer of the books (publish, progress,
  resolve, expire); `ExpireActions` chooses the newest request of an action, so
  the proof needs that a finite non-empty set of numbers has a greatest element.
  `ResolvedOnce` follows from the books: a resolved request is not pending, and
  only pending ones are written.  `EstopIsLatched`, `InterlocksHold` and
  `EvidenceKeepsOrder` are action properties, proved action by action.
  `NodeImplementsLifecycle` maps the node to `MatchLifecycle`
  (`Phase` of the state, `boots` as the epoch): every step is a lifecycle step or
  a stutter.
* `ActionLoopProofs`.  Supervisor and executor hold one half of the truth each, so
  every property needs an invariant over both and the messages between them.
  `LoopInv` gives types and shapes of messages; `OrderInv` that what was
  executed is not newer than the newest sequence the executor remembers of its task, which is
  what makes `ExecutedOnceInOrder` inductive.  `AnsweredInv`: every success on the
  feedback topic is of an executed request; with a task id per process
  (`~FixedTaskId`) this gives `SuccessIsOwn`.  `ElapsedInv`: what expired has elapsed,
  hence `ExpiredStaysUnexecuted`: a request that expired before the executor took it up
  is never taken up.  One that expires in the executor's hand is carried out all the
  same, since the code reads its clock once; `ResolvedOnce` keeps its success from
  counting.  `BackedInv`: a success stands for a flag of the
  mechanism that nothing clears, hence `EvidenceIsPhysical`.  `BallInv` counts: balls released
  and the one still held are at most one more than those received.
* `LocalizationProofs`.  `LockIsConfirmed` is not inductive: a LOST anchor
  becomes TRACKING again by a tick of the timer, with no correction.  The
  invariant `LockInv` therefore speaks of a *verified* anchor without a request
  instead of a TRACKING one, and carries three parts together: an anchor is
  verified only undoubted, a verified anchor disagrees with the matcher only
  transiently, and the newest correction in the topic is the matcher's anchor.  The last
  is what the second needs when the anchor takes the final correction.
* `NodesProofs`.  The nodes of `MCNodes`, each by an invariant of its own.
  *Guard, bridge, preflight.*  `GuardKeepsPromise` needs that a stream whose last packet
  was in order was last heard when it was last good (`GuardInv`); `RefusalIsTold` that
  the stored signature is the verdict the flag was published under (`SignatureInv`);
  `TrueMeansNewest` that the last flag in the topic, or the one the reader holds
  when the topic is empty, speaks of the newest odometry (`FollowInv`);
  `ReadyIsRecent` that a flag that is TRUE was published on evidence its
  publisher's promise allows (`PreflightInv`).
  *Team link.*  `PeerDeathNoticed` needs that the heartbeat time on record is backed by a
  message that was alive at that time; `AcceptedInOrder` that `latest` bounds what was
  accepted (`OrderInv`); `NewerIsAccepted`, for a clocked peer, that `latest` *is* the
  number of an accepted message and that clocks a period apart are numbered apart
  (`ClockInv`).
  *Rules.*  `GoalsAreEarned` speaks of what was accepted and when it was seen, the engine
  keeps flags.  `EarnedInv` joins the two: the flags are what the tally of the present
  possession holds (`FlagsAreOwn`), and nothing in the tally was seen longer before the
  possession began than evidence is late.  That is all the lower bound there is: the
  engine has none, so what is seen before a referee's stop and reported after the resume
  counts for the possession after it.  With it the engine implements `Scoreboard`.
  *Target gate.*  `ShotTargetIsRecent` needs how far the stamp of an observation may
  flatter it: not at all before the wall clock was set, by `WallSet` after; from there on
  each flag carries its bound along (`TargetInv`).
  *Command bridge.*  The lock has no age at the bridge, so what bounds it is a message
  that takes it back: an anchor in doubt is about to say so, has said so, or is dead and
  its poses get old (`DoubtIsTold`), and no such message is pushed out of its topic
  before it arrives (`Telling` counts the messages behind it).  Hence the hypothesis
  `Delay < InFlight`, that a topic has room for what is sent within its delay; with a
  delay of 2 and 2 places TLC finds `CommandsAreBacked` violated.  The code's topics are
  10 deep (`pose_command_bridge.py:50-52`, `map_odom_anchor.py:76-81`), so a delay of
  nine timer periods is what it allows.
  `NodesSayTrueOnRecent` is the conjunction of all these bounds (`TrueIsRecent`) over the
  specification the run checks.
* `OdometryProofs`.  The stages of `MCOdometry` in the odometry node and the grid tool.
  `UpdatesComplete`: a step was small, or the last is near, only when a search after a
  step was made or is asked for, and once all points are given up none is asked for
  (`UpdateInv`).
  `MapStaysInCube`: on every axis the sensor is at least `DET_RANGE` inside and the map
  in the half open cube (`CubeInv`); it needs `CubeFits`, that three ranges are less
  than the cube.  The stack's configurations have 100 in 1000, the vendored `avia.yaml`
  (450 in 1000) and the defaults of the code (300 in 200) do not satisfy it.
  `PointsMoveByTheirSegment`: the pass has moved the points after `it_pcl` once, each by
  the last segment begun before it, and only the first point may have been moved before
  (`MotionInv`); sequences of times are sorted, which adjacent elements give by induction.
  `GridsForget`: the log odds of a cell lie below a line that starts at the last mark and
  falls with every cloud (`CellInv`: `Highest`, `Lowest`), so a cell past the threshold
  was marked within `stale_after_clouds`.  It needs that fading wins within that time
  (`GridConstants`): `mapping_tools.yaml` satisfies it (thresholds 45 and −12,
  increments 12 and 4, decay 1, stale after 120); the launch for dual mapping in Gazebo
  turns fading off, where cells are meant to stay.
  `PointsStayRepresented`: whatever has been in the map has a point in its cell at least
  as near to the cell's centre, since cells share no point (`OneCell`) and an insertion
  with downsampling leaves in its cell the point nearest to the centre; and a point that
  was offered found one at least as near to the centre of its cell.  No more can be
  said: the neighbour for which a point is refused may be of the next cell, and a
  point of the same scan may replace that neighbour before the scan is through, so
  a scan can end with nothing as near left.  The invariant has the
  two parts by name (`StoredCovered`, `SeenFound`).
  `PosesAreOfTheirScan`, `PosesKeepTheirTime`: the buffers of scans and of stamps
  run in step and samples are in order (`StampsKept`, `PointsOfScan`, `SamplesInOrder`),
  and the filter and the end of the last scan move together (`FilterKeepsTime`), until
  time runs back (`loops`) or a scan finds no sample (`starved`), see section 6.
* `ScanProofs`.  The other three stages, and all ten together.
  `ScansStayFaithful`: without times in the message the handlers reckon them from the
  azimuth, with one turn more when a time would run back.  By induction over the points,
  `time_last` of a line is the time since its first point (`TimesAfterNext`): a line
  fires more than once a turn, so a point is less than a turn after the last of its
  line, and its offset in the turn, or that and one turn, is the only time in reach
  (`OffsetIsSince`).  Hence every handler keeps the times, whatever it leaves out
  (`HandlersKeepTime`, `ConvertInv`).  For the planes, `Divided` says how the points before
  `index` are divided among the groups that are closed, the group that is open and
  nothing else (`PlaneInv`); a point closes the open group or goes on with it
  (`GroupCloses`, `GroupGoesOn`).
  `PacketsStayApart`: the rays of a packet take distinct samples of a window no longer
  than the pattern (`RaysShare`), and the ticks elapsed from the first of them grow with
  the sample, also across the end of the pattern and over the one row that may be missing
  (`ElapsedGrows`), and stay within the period (`ElapsedBounds`); so the times are those
  ticks (`OffsetIsElapsed`), and a packet has ended when a period has gone by (`SimInv`).
  `FiltersAreExact`: points within the radius are in neighbouring voxels of that edge
  (`NeighborsAdjacent`); the mean of a voxel lies in it (`MeanKeepsKey`), so no two means
  coincide; and a stride of the quotient rounded up keeps at most the cap and at least
  half of it (`CapIsKept`).
  `EveryStageRuns`: a behaviour of the composition is one of each stage, whose variables
  the step of another leaves alone.  `EveryStageHolds` is then every invariant and action
  property of the run, of the specification that the run checks.
* `IkdRebuildProofs`.  `ReadersAreSafe`, for any number of workers: who counts itself
  in after the counter was opened reads nodes that are not freed, and nobody is
  inside when it is closed (`ReaderInv`).  `NothingIsLost`: at every step of the rebuild
  thread, the copy with the rest of the log replayed on it leads to what was asked
  for (`ReplayInv`, by a relation `LeadsTo` between a set of points and a log).  It
  ends where the code's own assertion ends, at a rebuild that began with a log of
  the one before (`stale`, see Findings), and where a subtree without a point stops the
  thread (`"crashed"`).
* `LivoxProofs`.  `SamplingAfterSettings`, for any lidars, slots and files: no two lidars
  share a slot, and every setting that the slot of a lidar asks for has been accepted or
  still has its bit, as soon as a command for it is out (`DeviceInv`).  That the slots of
  a file are apart is an induction over its entries (`FillSlots`).
  `PointsComeOnce`: the packets of a lidar stand in the queue in their order, and the
  points in messages and in the cloud are those before the first of them (`HandlerInv`),
  in either timing mode and across changes between the two.
  `NoWakeupLost`, for any number of lidars and any queue size: whenever data is
  offered, its reader is on its way, or the count is positive, or the writer has yet
  to signal (`WakeupInv`).  The check of the count without its mutex makes the cases.
  `FramesStayInOrder`: the two indexes of a ring queue are the frames in and the frames out,
  modulo their width, no more than `queue_size` apart, and the slots between them hold the
  frames between (`RingInv`); the reader holds the next frame while it moves its index
  (`PopInv`).  It needs that the width is at least two laps of the queue
  (`LddcAssumption`): the code's sizes are powers of two far below the 32 bits of an index.
  `LivoxKeepsAll` states the four for the specification the run checks.

Assumptions are the `ASSUME`s of the modules, and in `MCOdometry` and `MCLivox` the
requirements that the instantiated modules state (`…Constants`, `CubeFits`); TLC
evaluates them for the values of the runs.  The one that says something of the data is
`SimulationConstants`: the pattern has a sample at every tick, but for at most one row
that does not parse; with two such rows a packet may run past its period.  The one hypothesis beside them is the
`Delay < InFlight` of the command bridge.

What a recursive function computes is proved by induction over a set of naturals:
`WFMin` of the library gives the least counterexample (`LeastOf`, `InductionUpTo`), and
a recursive function that a `LET` defines unfolds when one exists (`RecursionExists`).
No module with theorems uses recursive operators.  What a fold of the library would
compute is written as such a function where a proof needs it (`Total`, `TimeLast`), and
a selection as a function on what is selected.

Only model-checked:

* all liveness, and with it all that fairness gives: `LossLeavesActive`,
  `PendingResolves`, `LockFollowsPose`, `CorrectionsConverge`, `SilenceIsTold`,
  `MapperGateReopens`, `RebuildFinishes`, `StopReturns`;
* `AnswersExact` and `ImplementsPointMap`: the tree is built by recursive operators, and
  what a search returns is an induction over trees.

## 5. Findings

* `SupervisorContainment`: `handle_action_failure` says it contains "failed or
  expired actuator work before more tasks can be issued".  A request that outlives
  the recovery of its match fails in WAIT_START, where nothing is contained; the
  next start goes ACTIVE.
* `LocalizationContract`: the interface contract says a valid `/initialpose`
  clears a relocalization request.  `set_provisional_anchor` sets it.
* `IkdLogger`: the rebuild thread clears `rebuild_flag` after it has released the
  lock under which it saw the log empty (`ikd_Tree.cpp:351-352`).  An operation in
  between is logged and replayed by nobody; the next rebuild finds the log non-empty at
  its start, which its own check reports as an error.

## 6. What is not modelled

Left out: ICP, linear algebra and residuals of the filter (`use-ikfom`, the manifold
toolkit, three more update variants that nothing calls), layouts of messages and
packets, quaternion algebra, the plotting wrapper, Gazebo worlds and robot descriptions,
the static frames, the camera's YOLO adapter (a wrapper of a detector process),
synthetic inputs, fault matrix and run manifest (scripts whose inputs are among the
free ones here), tools and site.

Left out of the modelled components: diagnostics, acknowledgements and logs, which no
handler reads; malformed messages, which are rejected before any state is touched
(except where one ends a node: `TargetGateStarts`); `GameSupervisor.request_fire_shot`
and `fault`, which the node never calls.  The interface contract lists the supervisor
among the consumers of `input_valid`
(`src/mid360_localization_contract/INTERFACE_CONTRACT.md:28`); the node takes no such
topic, so the flag reaches it through preflight only, and the model follows the node.

Hazards seen in the code that no property here covers:

* supervisor: the command `estop` publishes no request, so work on its way goes on
  (`ros_node.py:280`); `preflight_ready` is taken however old (`ros_node.py:256`);
* executor: a request accepted within its deadline may be carried out after it
  (`simulator.py:161`, `:169`); evidence that the mechanism is armed outlives an abort
  (`supervisor.py:239`);
* anchor: a correction computed before the last reason for doubt confirms the lock, until
  the next correction (`map_odom_anchor.py:204`); the age of the last correction is never
  asked for (`tracking.py:49`);
* guard: a packet with a time base far ahead has every later one refused
  (`input_guard.py:112`); rulebook: evidence seen before a referee's stop and reported
  after the resume counts for the new possession (`rulebook_2025.py:97`), where
  `GoalsAreEarned` only bounds how old it is;
* FAST-LIO2: when time runs back the scans are dropped but not `time_buffer`
  (`laserMapping.cpp:290`, excluded in `OdometryIsOfItsScan` by `loops`); with no sample
  for a scan the points before it are published again (`IMU_Processing.hpp:344`, excluded by
  `starved`); the first point of a scan is moved by every segment before its own
  (`IMU_Processing.hpp:334`, stated in `MovedByItsSegment`); the plot and publication
  buffers have no bound or a fixed one (`laserMapping.cpp:374`, `:622`); `types[]` may be
  written one past a line (`preprocess.cpp:602`); with features on, an Ouster line without
  points makes a loop run out of its array (`preprocess.cpp:242-259`), where the model has
  the program end (`RunsOut`), and a point of a MID-360 message, or without features
  of a Velodyne one, on a line not below `N_SCANS` is written beyond the buffers (`:522-525`), where the model has no such
  points come; times reckoned from the azimuth are 0.3 % short, since `omega_l` is 0.361
  for 0.36 (`:310`, `:490`);
* ikd-Tree: `Add_Points` searches without the counter (`ikd_Tree.cpp:501`), and a rebuilt
  subtree without a point is dereferenced (`:332`, the state `"crashed"`);
* Livox: the interval of points is divided by a count nobody checks (`pub_handler.cpp:142`) and the raw queue
  has no bound (`:149`); a lidar that reboots while it samples is not followed;
* simulation: after a reset of the world the LiDAR is silent until the old time is reached
  again, and the nanoseconds of a stamp may round up to a whole
  second (`livox_points_plugin.cpp:278`);
* mapper: a saved map replaces the former one in place, so a kill in the middle leaves
  neither (`fastlio_cloud_mapper_node.cpp:610`, the kill is an action of the model).

Four things are coarser than the code.  The pose bridge publishes a pose and its flag in
one step; its reader takes them in any order.  The grid is compared after every cloud,
not only when it is sent (`pointcloud_occupancy_grid_node.cpp:359-365`).  With trees of
four points only the root is rebuilt in `IkdTree`; `IkdRebuild` has any subtree.  For
the AVIA the handler copies a field of the message, so that `ScansAreFaithful` says
little of it.

What would come next: `TeamLink` and `Preflight` composed with `SupervisorNode` (the age
of all evidence behind an issued action, end to end), and the liveness of the command
gate: that it opens again after a relocalization.  Every safety invariant and action
property of a run is proved but those of the tree itself (`IkdTree`), which would need
its operations as functions on trees of a bounded height.
