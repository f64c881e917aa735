-------------------------------- MODULE Lddc --------------------------------
(***************************************************************************)
(* From the frames of the Livox driver to its topics, and its shutdown     *)
(* (lds.cpp, ldq.cpp, semaphore.cpp, lddc.cpp, driver_node.cpp): the       *)
(* process thread stores each frame in the ring queue of its lidar, the    *)
(* SDK thread stores IMU samples in a list, and each signals a semaphore   *)
(* when nobody has.  One poll thread per stream waits for its semaphore    *)
(* and empties the queues of all lidars that are Sampling.  The ring queue *)
(* has no lock: one thread writes wr_idx, another rd_idx.                  *)
(***************************************************************************)
EXTENDS Integers, Sequences

CONSTANTS lidar_count_,   \* slots of lidars_
          queue_size,     \* of a ring queue, a power of two
          IndexBits,      \* width of rd_idx and wr_idx
          MaxFrames(_)    \* bound: numbered frames of a lidar

Modulus == 2 ^ IndexBits

\* The queue rounds its size up to a power of two, so that the indexes start over
\* only when the queue does.
ASSUME LddcAssumption ==
    /\ lidar_count_ \in Nat \ {0}
    /\ {queue_size, IndexBits} \subseteq Nat \ {0}
    /\ \E k \in 0..(IndexBits - 1) : queue_size = 2 ^ k
    /\ \E laps \in 2..Modulus : Modulus = laps * queue_size

VARIABLES
    transfer_format_,
    present, sending,      \* the lidars there are, and the streams they send
    numbered,              \* are frames numbered, and their number bounded?
    connect_state,         \* "None": the lidar has no slot yet
    storage_packet, rd_idx, wr_idx,
    imu_data,              \* samples in the list
    count_,                \* of the semaphores
    request_exit_, exit_signal_,
    upc, frame,            \* the process thread, and the parts it has still to store
    ipc,                   \* the thread of the SDK
    tpc, lidar_id, pkg,    \* the poll threads
    dpc,                   \* who runs the destructor of the node
    stored, published,     \* history: frames stored and published of each lidar
    offered                \* history: what was offered while the lidar was Sampling

ring == <<storage_packet, rd_idx, wr_idx>>
exit == <<request_exit_, exit_signal_, dpc>>
writers == <<upc, frame, ipc>>
polls == <<tpc, lidar_id, pkg>>
fixed == <<transfer_format_, present, sending, numbered>>
history == <<stored, published>>
vars == <<fixed, connect_state, ring, imu_data, count_, exit, writers, polls, history,
          offered>>

NoFrame == 0              \* and every frame, when they are not numbered
Streams == {"pcd", "imu"}
Lidars == 0..(lidar_count_ - 1)
NoLidar == -1
Slot(i) == i % queue_size

QueueIsEmpty(l) == rd_idx[l] = wr_idx[l]
FullBeyond(l) == (wr_idx[l] - rd_idx[l]) % Modulus > queue_size   \* off by one
QueueIsFull(l) == (wr_idx[l] - rd_idx[l]) % Modulus > queue_size - 1

Init ==
    /\ transfer_format_ \in {"PointCloud2", "Pcl"}   \* "Custom" is handled like the first
    /\ sending \in {{"pcd"}, {"imu"}, Streams}
    /\ numbered = (sending # Streams)
    /\ present = IF numbered THEN Lidars ELSE {0}
    /\ connect_state = [l \in Lidars |-> "None"]
    /\ storage_packet = [l \in Lidars |-> [i \in 0..(queue_size - 1) |-> NoFrame]]
    /\ rd_idx = [l \in Lidars |-> 0]
    /\ wr_idx = [l \in Lidars |-> 0]
    /\ imu_data = [l \in Lidars |-> 0]
    /\ count_ = [st \in Streams |-> 0]
    /\ request_exit_ = FALSE /\ exit_signal_ = FALSE
    /\ upc = "idle" /\ frame = <<>>
    /\ ipc = NoLidar
    /\ tpc = [st \in Streams |-> "begin"]
    /\ lidar_id = [st \in Streams |-> 0]
    /\ pkg = NoFrame
    /\ dpc = "running"
    /\ stored = [l \in Lidars |-> 0]
    /\ published = [l \in Lidars |-> <<>>]
    /\ offered = [st \in Streams |-> {}]

\* LidarDevices gives the lidar a slot, and lets its data through.
Connect(l) ==
    /\ connect_state' = [connect_state EXCEPT ![l] =
                             IF @ = "None" THEN "Off" ELSE "Sampling"]
    /\ connect_state[l] # "Sampling"
    /\ UNCHANGED <<fixed, ring, imu_data, count_, exit, writers, polls, history, offered>>

\* GetCount is read without the lock; nobody else signals this semaphore.
SignalWaiting(st) ==           \* signals only a thread that already waits
    count_' = [count_ EXCEPT ![st] = IF tpc[st] = "wait" THEN 1 ELSE @]

Signal(st) ==
    count_' = [count_ EXCEPT ![st] = IF @ <= 0 THEN @ + 1 ELSE @]

Offer(st, l) ==
    offered' = IF numbered /\ connect_state[l] = "Sampling"
               THEN [offered EXCEPT ![st] = @ \cup {l}] ELSE offered
-----------------------------------------------------------------------------
(* The process thread: StoragePointData *)

Process(from) ==
    /\ upc = from
    /\ UNCHANGED <<fixed, connect_state, imu_data, exit, ipc, polls, published>>

\* A frame holds a part of each of some lidars, in their order.
StoragePointData(parts) ==
    /\ Process("idle")
    /\ "pcd" \in sending
    /\ frame' = parts
    /\ upc' = "push"
    /\ UNCHANGED <<ring, count_, stored, offered>>

NextPart ==
    /\ frame' = Tail(frame)
    /\ upc' = IF Tail(frame) = <<>> THEN "idle" ELSE "push"

Unindexed ==
    /\ Process("push")
    /\ connect_state[Head(frame)] = "None"
    /\ NextPart
    /\ UNCHANGED <<ring, count_, stored, offered>>

\* A full queue drops the frame, and still wakes the reader.
PushFull ==
    LET l == Head(frame)
    IN  /\ Process("push")
        /\ connect_state[l] # "None"
        /\ QueueIsFull(l)
        /\ Signal("pcd")
        /\ Offer("pcd", l)
        /\ NextPart
        /\ UNCHANGED <<ring, stored>>

PushSlot ==
    LET l == Head(frame)
        number == IF numbered THEN stored[l] + 1 ELSE NoFrame
    IN  /\ Process("push")
        /\ connect_state[l] # "None"
        /\ ~QueueIsFull(l)
        /\ numbered => stored[l] < MaxFrames(l)
        /\ storage_packet' = [storage_packet EXCEPT ![l][Slot(wr_idx[l])] = number]
        /\ stored' = [stored EXCEPT ![l] = number]
        /\ upc' = "index"
        /\ UNCHANGED <<rd_idx, wr_idx, count_, frame, offered>>

PushIndex ==
    /\ Process("index")
    /\ wr_idx' = [wr_idx EXCEPT ![Head(frame)] = (@ + 1) % Modulus]
    /\ upc' = "signal"
    /\ UNCHANGED <<storage_packet, rd_idx, count_, frame, stored, offered>>

PushSignal ==
    /\ Process("signal")
    /\ IF QueueIsEmpty(Head(frame)) THEN UNCHANGED count_ ELSE Signal("pcd")
    /\ Offer("pcd", Head(frame))
    /\ NextPart
    /\ UNCHANGED <<ring, stored>>

PushLidarData == PushFull \/ PushSlot \/ PushIndex \/ PushSignal
-----------------------------------------------------------------------------
(* The thread of the SDK: StorageImuData.  The list has no limit; here it  *)
(* keeps one sample, and others that come before it is taken are signalled *)
(* and not kept.                                                           *)

Sdk == UNCHANGED <<fixed, connect_state, ring, exit, upc, frame, polls, history>>

StorageImuData(l) ==
    /\ ipc = NoLidar
    /\ "imu" \in sending
    /\ connect_state[l] # "None"
    /\ imu_data' = [imu_data EXCEPT ![l] = 1]
    /\ ipc' = l
    /\ UNCHANGED <<count_, offered>>
    /\ Sdk

ImuSignal ==
    /\ ipc # NoLidar
    /\ IF imu_data[ipc] = 0 THEN UNCHANGED count_ ELSE Signal("imu")
    /\ Offer("imu", ipc)
    /\ ipc' = NoLidar
    /\ UNCHANGED imu_data
    /\ Sdk
-----------------------------------------------------------------------------
(* The poll threads *)

Poll(st, from) ==
    /\ tpc[st] = from
    /\ UNCHANGED <<fixed, connect_state, storage_packet, wr_idx, exit, writers, stored>>

Goto(st, to) == tpc' = [tpc EXCEPT ![st] = to]

Quiet == UNCHANGED <<rd_idx, imu_data, pkg, published>>

\* DistributePointCloudData, DistributeImuData
Begin(st) ==
    /\ Poll(st, "begin")
    /\ Goto(st, IF request_exit_ THEN "status" ELSE "wait")
    /\ UNCHANGED <<count_, lidar_id, offered>> /\ Quiet

Wait(st) ==
    /\ Poll(st, "wait")
    /\ count_[st] > 0
    /\ count_' = [count_ EXCEPT ![st] = @ - 1]
    /\ lidar_id' = [lidar_id EXCEPT ![st] = 0]
    /\ Goto(st, "scan")
    /\ UNCHANGED offered /\ Quiet

NextLidar(st) ==
    IF lidar_id[st] = lidar_count_ - 1
    THEN Goto(st, "status") /\ UNCHANGED lidar_id
    ELSE Goto(st, "scan") /\ lidar_id' = [lidar_id EXCEPT ![st] = @ + 1]

Scan(st) ==
    /\ Poll(st, "scan")
    /\ IF connect_state[lidar_id[st]] = "Sampling"
       THEN Goto(st, "poll") /\ UNCHANGED lidar_id
       ELSE NextLidar(st)
    /\ UNCHANGED <<count_, offered>> /\ Quiet

Empty(st) ==
    IF st = "pcd" THEN QueueIsEmpty(lidar_id[st]) ELSE imu_data[lidar_id[st]] = 0

PollUntilEmpty(st) ==          \* does not look at the exit request
    /\ Poll(st, "poll")
    /\ Empty(st)
    /\ NextLidar(st)
    /\ UNCHANGED <<count_, offered>> /\ Quiet

PollingDone(st) ==
    /\ Poll(st, "poll")
    /\ request_exit_ \/ Empty(st)
    /\ NextLidar(st)
    /\ UNCHANGED <<count_, offered>> /\ Quiet

PollingImu ==
    /\ Poll("imu", "poll")
    /\ ~request_exit_ /\ ~Empty("imu")
    /\ imu_data' = [imu_data EXCEPT ![lidar_id["imu"]] = @ - 1]
    /\ UNCHANGED <<tpc, count_, lidar_id, offered, rd_idx, pkg, published>>

\* PublishPclMsg does nothing in this build, and is called again.
PollingPoints ==
    /\ Poll("pcd", "poll")
    /\ ~request_exit_ /\ ~Empty("pcd")
    /\ IF transfer_format_ = "Pcl" THEN UNCHANGED tpc ELSE Goto("pcd", "pop")
    /\ UNCHANGED <<count_, lidar_id, offered>> /\ Quiet

\* The loop of PublishPointcloud2 and PublishCustomPointcloud does not look at the
\* exit request.
QueuePrePop ==
    LET l == lidar_id["pcd"]
    IN  /\ Poll("pcd", "pop")
        /\ ~QueueIsEmpty(l)
        /\ pkg' = storage_packet[l][Slot(rd_idx[l])]
        /\ Goto("pcd", "update")
        /\ UNCHANGED <<count_, lidar_id, offered, rd_idx, imu_data, published>>

\* PublishCustomPointcloud differs in the message it makes.
PublishPointcloud2(l) ==
    published' = IF numbered THEN [published EXCEPT ![l] = Append(@, pkg)] ELSE published

QueuePopUpdate ==
    LET l == lidar_id["pcd"]
    IN  /\ Poll("pcd", "update")
        /\ rd_idx' = [rd_idx EXCEPT ![l] = (@ + 1) % Modulus]
        /\ PublishPointcloud2(l)
        /\ pkg' = NoFrame
        /\ Goto("pcd", "pop")
        /\ UNCHANGED <<count_, lidar_id, offered, imu_data>>

QueueDrained ==
    /\ Poll("pcd", "pop")
    /\ QueueIsEmpty(lidar_id["pcd"])
    /\ Goto("pcd", "poll")
    /\ UNCHANGED <<count_, lidar_id, offered>> /\ Quiet

\* PointCloudDataPollThread, ImuDataPollThread
Status(st) ==
    /\ Poll(st, "status")
    /\ Goto(st, IF exit_signal_ THEN "gone" ELSE "begin")
    /\ UNCHANGED <<count_, lidar_id, offered>> /\ Quiet

PollThread(st) ==
    \/ Begin(st) \/ Wait(st) \/ Scan(st) \/ PollingDone(st) \/ Status(st)
    \/ st = "imu" /\ PollingImu
    \/ st = "pcd" /\ (PollingPoints \/ QueuePrePop \/ QueuePopUpdate \/ QueueDrained)
-----------------------------------------------------------------------------
(* The destructor of the node *)

Destructor(from, to) ==
    /\ dpc = from
    /\ dpc' = to
    /\ UNCHANGED <<fixed, connect_state, ring, imu_data, count_, writers, polls, history,
                   offered>>

RequestExit ==
    /\ Destructor("running", "requested")
    /\ request_exit_' = TRUE
    /\ UNCHANGED exit_signal_

SetExitSignal ==
    /\ Destructor("requested", "join")
    /\ exit_signal_' = TRUE
    /\ UNCHANGED request_exit_

Join ==
    /\ Destructor("join", "over")
    /\ \A st \in Streams : tpc[st] = "gone"
    /\ UNCHANGED <<request_exit_, exit_signal_>>
-----------------------------------------------------------------------------
\* The frame with parts of the lidars of S, in their order.
FramesOf(S) ==
    {parts \in UNION {[1..n -> S] : n \in 1..lidar_count_} :
        /\ S \subseteq {parts[i] : i \in DOMAIN parts}
        /\ \A i, j \in DOMAIN parts : i < j => parts[i] < parts[j]}

Next ==
    \/ \E l \in present : Connect(l) \/ StorageImuData(l)
    \/ \E S \in SUBSET present : \E parts \in FramesOf(S) : StoragePointData(parts)
    \/ Unindexed \/ PushLidarData \/ ImuSignal
    \/ \E st \in Streams : PollThread(st)
    \/ RequestExit \/ SetExitSignal \/ Join

Spec == Init /\ [][Next]_vars

\* Every thread goes on.  Every lidar is found, keeps sending frames and samples,
\* at a rate that leaves the reader time to empty the queue.
Fairness ==
    /\ \A st \in Streams : WF_vars(PollThread(st))
    /\ \A st \in Streams : SF_vars(PollingDone(st))
    /\ []<>(tpc["pcd"] \notin {"pop", "update"})
    /\ WF_vars(Unindexed \/ PushLidarData) /\ WF_vars(ImuSignal)
    /\ WF_vars(SetExitSignal) /\ WF_vars(Join)
    /\ \A l \in Lidars : WF_vars(l \in present /\ connect_state[l] = "None" /\ Connect(l))
    /\ WF_vars(\E parts \in FramesOf(present) : StoragePointData(parts))
    /\ SF_vars(\E l \in present : StorageImuData(l))

FairSpec == Spec /\ Fairness
-----------------------------------------------------------------------------
(* Properties *)

\* The frames of a lidar come out once each and in order, whole, and what is missing
\* at the end is in the ring queue: the reader never meets a slot that is being
\* written, also when the indexes wrap around.
FramesInOrder ==
    numbered =>
        \A l \in Lidars :
            LET waiting == (wr_idx[l] - rd_idx[l]) % Modulus
                open == IF upc = "index" /\ Head(frame) = l THEN 1 ELSE 0
                popping == pkg # NoFrame /\ lidar_id["pcd"] = l
            IN  /\ published[l] = [i \in DOMAIN published[l] |-> i]
                /\ Len(published[l]) + waiting + open = stored[l]
                /\ popping => pkg = Len(published[l]) + 1

\* A poll thread that sleeps with no signal on its way has nothing to do: all that
\* was offered by lidars that were Sampling is published.
NoLostWakeup ==
    /\ tpc["pcd"] = "wait" /\ count_["pcd"] = 0 /\ upc = "idle"
          => \A l \in offered["pcd"] : QueueIsEmpty(l)
    /\ tpc["imu"] = "wait" /\ count_["imu"] = 0 /\ ipc = NoLidar
          => \A l \in offered["imu"] : imu_data[l] = 0

\* The destructor returns, as long as the lidars go on sending.
StopReturns == ~numbered /\ dpc = "join" ~> dpc = "over"
=============================================================================
