---------------------------- MODULE LidarDevices ----------------------------
(***************************************************************************)
(* How the Livox driver brings a lidar to the point where its data is      *)
(* published: the configuration file fills slots, the SDK reports a lidar, *)
(* the driver sends it its settings, and every answer of the SDK clears    *)
(* one bit of set_bits; with the last bit the lidar is Sampling            *)
(* (lds_lidar.cpp, livox_lidar_callback.cpp, cache_index.cpp).  The SDK is *)
(* external: it answers each command with success, a timeout or a failure. *)
(***************************************************************************)
EXTENDS Integers, Sequences

CONSTANTS Handles,          \* lidars, by their address
          Settings,         \* pcl_data_type, pattern_mode, blind_spot_set, dual_emit_en
          Files,            \* configuration files: entries [has_ip, handle, keys]
          kMaxSourceLidar,
          NoIndex,          \* none of the slots
          MaxReports,       \* bound: how often the SDK reports a lidar
          MaxTimeouts       \* bound: timeouts in a row before another answer

Slots == 0..(kMaxSourceLidar - 1)

DevicesConstants ==
    /\ kMaxSourceLidar \in Nat \ {0}
    /\ NoIndex \notin Slots
    /\ Settings \cap {"attitude", "work_mode", "imu"} = {}
    /\ \A file \in Files :
         Len(file) \in Nat /\ \A n \in 1..Len(file) : file[n].handle \in Handles

VARIABLES
    map_index_, index_cache_,     \* CacheIndex
    livox_config, set_bits, connect_state,    \* lidars_[index]
    initialized,                  \* InitLdsLidar: "no", "failed", "yes"
    commands,                     \* commands the SDK has not answered, with their number
    reports, timeouts,            \* bounds
    accepted, refused             \* history: settings a lidar has accepted or refused

slots == <<livox_config, set_bits, connect_state>>
index == <<map_index_, index_cache_>>
answers == <<accepted, refused>>
vars == <<index, slots, initialized, commands, reports, timeouts, answers>>

Commands == Settings \cup {"attitude", "work_mode", "imu"}

\* The slots are static storage: a setting the file does not touch is 0, and only
\* -1 means leave it alone.
Init ==
    /\ map_index_ = [h \in Handles |-> NoIndex]
    /\ index_cache_ = {}
    /\ livox_config = [i \in Slots |-> Settings]
    /\ set_bits = [i \in Slots |-> {}]
    /\ connect_state = [i \in Slots |-> "Off"]
    /\ initialized = "no"
    /\ commands = [h \in Handles |-> [c \in Commands |-> 0]]
    /\ reports = 0
    /\ timeouts = 0
    /\ accepted = [h \in Handles |-> {}]
    /\ refused = [h \in Handles |-> {}]
-----------------------------------------------------------------------------
(* Slots *)

Known(h) == map_index_[h] # NoIndex

\* The slot GetFreeIndex returns, NoIndex when all are taken.
FreeIndex(m, used, h) ==
    LET free == Slots \ used
    IN  IF m[h] # NoIndex THEN m[h]
        ELSE IF free = {} THEN NoIndex
        ELSE CHOOSE i \in free : \A j \in free : i <= j

\* A setting the entry does not name is left alone.  The extrinsic parameters are
\* left out.
ParseUserConfigs(entry) == entry.keys \cap Settings

\* Parse skips an entry without an address, InitLivoxLidar one without a free slot;
\* a second entry for the same lidar replaces the first.
FillSlot(was, entry) ==
    LET h == entry.handle
        i == IF entry.has_ip THEN FreeIndex(was.map, was.used, h) ELSE NoIndex
    IN  IF i = NoIndex THEN was
        ELSE [map |-> [was.map EXCEPT ![h] = i],
              used |-> was.used \cup {i},
              config |-> [was.config EXCEPT ![i] = ParseUserConfigs(entry)]]

\* The entries of the file, in their order.
FillSlots(file) ==
    LET Fill[n \in 0..Len(file)] ==
          IF n = 0
          THEN [map |-> map_index_, used |-> index_cache_, config |-> livox_config]
          ELSE FillSlot(Fill[n - 1], file[n])
    IN  Fill[Len(file)]

\* ParseSummaryInfo and the start of the SDK may fail, and then no callback is
\* registered.  A file without lidar_configs is no failure.
InitLdsLidar(file) ==
    /\ initialized = "no"
    /\ initialized' = "yes"
    /\ LET filled == FillSlots(file)
       IN  /\ map_index_' = filled.map
           /\ index_cache_' = filled.used
           /\ livox_config' = filled.config
    /\ UNCHANGED <<set_bits, connect_state, commands, reports, timeouts, answers>>

InitFails ==
    /\ initialized = "no"
    /\ initialized' = "failed"
    /\ UNCHANGED <<index, slots, commands, reports, timeouts, answers>>
-----------------------------------------------------------------------------
(* What the SDK calls *)

Send(h, S) ==
    commands' = [commands EXCEPT ![h] =
        [c \in Commands |-> IF c \in S THEN @[c] + 1 ELSE @[c]]]

Report(h) ==
    /\ initialized = "yes"
    /\ reports < MaxReports
    /\ reports' = reports + 1
    /\ UNCHANGED <<initialized, timeouts, answers>>

\* A lidar with a slot gets its settings; the bits are set under config_mutex_,
\* which the answers take as well.
ReportConfigured(h) ==
    LET i == map_index_[h]
    IN  /\ Report(h)
        /\ Known(h)
        /\ set_bits' = [set_bits EXCEPT ![i] = @ \cup livox_config[i]]
        /\ Send(h, livox_config[i] \cup {"attitude", "work_mode", "imu"})
        /\ UNCHANGED <<index, livox_config, connect_state>>

\* A lidar the file does not name gets a slot, if there is one.
ReportUnknown(h) ==
    LET i == FreeIndex(map_index_, index_cache_, h)
    IN  /\ Report(h)
        /\ ~Known(h)
        /\ IF i = NoIndex THEN UNCHANGED <<index, commands>>
           ELSE /\ map_index_' = [map_index_ EXCEPT ![h] = i]
                /\ index_cache_' = index_cache_ \cup {i}
                /\ Send(h, {"work_mode", "imu"})
        /\ UNCHANGED slots

LidarInfoChangeCallback(h) == ReportConfigured(h) \/ ReportUnknown(h)

Answer(h, c) ==
    /\ commands[h][c] > 0
    /\ UNCHANGED <<index, livox_config, initialized, reports>>

Answered(h, c) == commands' = [commands EXCEPT ![h][c] = @ - 1]

SetSucceededAtOnce(h, c) ==    \* one answer is taken for all
    LET i == map_index_[h]
    IN  /\ Answer(h, c)
        /\ c \in Settings
        /\ Answered(h, c)
        /\ set_bits' = [set_bits EXCEPT ![i] = {}]
        /\ connect_state' = [connect_state EXCEPT ![i] = "Sampling"]
        /\ timeouts' = 0
        /\ accepted' = [accepted EXCEPT ![h] = @ \cup {c}]
        /\ UNCHANGED refused

\* SetDataTypeCallback, SetPatternModeCallback, SetBlindSpotCallback and
\* SetDualEmitCallback differ in the bit they clear.
SetSucceeded(h, c) ==
    LET i == map_index_[h]
    IN  /\ Answer(h, c)
        /\ c \in Settings
        /\ Answered(h, c)
        /\ set_bits' = [set_bits EXCEPT ![i] = @ \ {c}]
        /\ connect_state' = [connect_state EXCEPT ![i] =
                                 IF set_bits'[i] = {} THEN "Sampling" ELSE @]
        /\ timeouts' = 0
        /\ accepted' = [accepted EXCEPT ![h] = @ \cup {c}]
        /\ UNCHANGED refused

\* SetAttitudeCallback, EnableLivoxLidarImuDataCallback, WorkModeChangedCallback.
OtherSucceeded(h, c) ==
    /\ Answer(h, c)
    /\ c \notin Settings
    /\ Answered(h, c)
    /\ timeouts' = 0
    /\ UNCHANGED <<set_bits, connect_state, answers>>

\* The command is sent again.
TimedOut(h, c) ==
    /\ Answer(h, c)
    /\ timeouts < MaxTimeouts
    /\ timeouts' = timeouts + 1
    /\ UNCHANGED <<commands, set_bits, connect_state, answers>>

\* Any other status, or no response for the IMU: only the work mode is asked for
\* again.
Refused(h, c) ==
    /\ Answer(h, c)
    /\ c # "work_mode"
    /\ Answered(h, c)
    /\ timeouts' = 0
    /\ refused' = [refused EXCEPT ![h] = @ \cup {c}]
    /\ UNCHANGED <<set_bits, connect_state, accepted>>

Sdk(h) ==
    \/ LidarInfoChangeCallback(h)
    \/ \E c \in Commands :
         SetSucceeded(h, c) \/ OtherSucceeded(h, c) \/ TimedOut(h, c) \/ Refused(h, c)

Next ==
    \/ InitFails
    \/ \E file \in Files : InitLdsLidar(file)
    \/ \E h \in Handles : Sdk(h)

Spec == Init /\ [][Next]_vars

-----------------------------------------------------------------------------
(* Properties *)

Sampling(h) == Known(h) /\ connect_state[map_index_[h]] = "Sampling"

\* The data of a lidar is let through only when it has accepted every setting its
\* slot asks for, also when it is reported again half way.
SamplingIsConfigured ==
    \A h \in Handles : Sampling(h) => livox_config[map_index_[h]] \subseteq accepted[h]
=============================================================================
