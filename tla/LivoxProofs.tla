----------------------------- MODULE LivoxProofs -----------------------------
(***************************************************************************)
(* Theorems about the three parts of the Livox driver, each a              *)
(* specification of its own, for any lidars, files, packets and sizes that *)
(* meet the requirements their modules state.  LidarDevices: a lidar is    *)
(* let through only when it is configured.  PubHandler: every point        *)
(* reaches a message once.  Lddc: no poll thread sleeps over data that a   *)
(* Sampling lidar offered, and the frames of a lidar leave its ring queue  *)
(* once each and in order.                                                 *)
(***************************************************************************)
EXTENDS MCLivox, WellFoundedInduction, TLAPS

-----------------------------------------------------------------------------
(* Induction over the naturals, and recursive functions *)

LEMMA LeastOf ==
  ASSUME NEW S, S \subseteq Nat, S # {}
  PROVE  \E least \in S : \A n \in S : least <= n
<1>1. PICK least \in S : \A y \in S : ~(<<y, least>> \in OpToRel(<, Nat))
  BY NatLessThanWellFounded, WFMin
<1>2. ASSUME NEW n \in S PROVE least <= n
  <2>1. <<n, least>> \in OpToRel(<, Nat) <=> n < least
    BY DEF OpToRel
  <2>2. n \in Nat /\ least \in Nat
    OBVIOUS
  <2>3. ~(n < least)
    BY <1>1, <2>1
  <2>4. QED
    BY <2>2, <2>3
<1>3. QED
  BY <1>2

LEMMA InductionUpTo ==
  ASSUME NEW len \in Nat, NEW Good, 0 \in Good,
         \A n \in 0..(len - 1) : n \in Good => n + 1 \in Good
  PROVE  0..len \subseteq Good
<1> DEFINE Bad == (0..len) \ Good
<1>1. SUFFICES ASSUME Bad # {} PROVE FALSE
  OBVIOUS
<1>2. PICK least \in Bad : \A n \in Bad : least <= n
  <2>1. Bad \subseteq Nat
    OBVIOUS
  <2> HIDE DEF Bad
  <2>2. QED
    BY <1>1, <2>1, LeastOf
<1>3. least \in 1..len /\ least - 1 \in 0..(len - 1) /\ (least - 1) + 1 = least
  OBVIOUS
<1>4. least - 1 \in Good
  BY <1>2, <1>3
<1>5. QED
  BY <1>3, <1>4

\* What a function defined by recursion on 0..len computes exists.
Unfolded(g, start, F, m) ==
  /\ DOMAIN g = 0..m
  /\ g[0] = start
  /\ \A n \in 1..m : g[n] = F[<<n, g[n - 1]>>]

LEMMA RecursionExists ==
  ASSUME NEW V, NEW start \in V, NEW len \in Nat, NEW F \in [(1..len) \X V -> V]
  PROVE  \E g \in [0..len -> V] : Unfolded(g, start, F, len)
<1> DEFINE Solved(m) == \E g \in [0..m -> V] : Unfolded(g, start, F, m)
           Bad == {m \in 0..len : ~Solved(m)}
<1>1. SUFFICES ASSUME Bad # {} PROVE FALSE
  OBVIOUS
<1>2. Bad \subseteq Nat
  OBVIOUS
<1> HIDE DEF Bad
<1>3. PICK m \in Bad : \A n \in Bad : m <= n
  BY <1>1, <1>2, LeastOf
<1>4. m \in 0..len /\ ~Solved(m)
  BY DEF Bad
<1>5. m = 0 => Solved(m)
  <2>1. Unfolded([n \in 0..0 |-> start], start, F, 0)
    BY DEF Unfolded
  <2>2. QED
    BY <2>1
<1>6. m # 0 => Solved(m)
  <2> SUFFICES ASSUME m # 0 PROVE Solved(m)
    OBVIOUS
  <2>1. m - 1 \in 0..len /\ m - 1 \notin Bad
    BY <1>3, <1>4
  <2>2. Solved(m - 1)
    BY <2>1 DEF Bad
  <2>3. PICK g \in [0..(m - 1) -> V] : Unfolded(g, start, F, m - 1)
    BY <2>2
  <2> DEFINE last == F[<<m, g[m - 1]>>]
             h == [n \in 0..m |-> IF n = m THEN last ELSE g[n]]
  <2>4. g[m - 1] \in V /\ <<m, g[m - 1]>> \in (1..len) \X V
    BY <1>4, <2>3
  <2>5. last \in V
    BY <2>4
  <2>6. last = F[<<m, g[m - 1]>>]
    OBVIOUS
  <2> HIDE DEF last
  <2>7. h \in [0..m -> V] /\ DOMAIN h = 0..m
    BY <1>4, <2>5
  <2>8. h[0] = start
    BY <1>4, <2>3 DEF Unfolded
  <2>9. ASSUME NEW n \in 1..m PROVE h[n] = F[<<n, h[n - 1]>>]
    <3>1. n - 1 \in 0..m /\ n - 1 # m /\ h[n - 1] = g[n - 1]
      BY <1>4
    <3>2. CASE n = m
      BY <1>4, <2>6, <3>1, <3>2
    <3>3. CASE n # m
      <4>1. n \in 1..(m - 1) /\ h[n] = g[n]
        BY <1>4, <3>3
      <4>2. QED
        BY <2>3, <3>1, <4>1 DEF Unfolded
    <3>4. QED
      BY <3>2, <3>3
  <2> HIDE DEF h
  <2>10. Unfolded(h, start, F, m)
    BY <2>7, <2>8, <2>9 DEF Unfolded
  <2>11. QED
    BY <2>7, <2>10
<1>7. QED
  BY <1>4, <1>5, <1>6

-----------------------------------------------------------------------------
(* LidarDevices *)

DeviceTypeOK ==
  /\ map_index_ \in [Handles -> Devices!Slots \cup {NoIndex}]
  /\ index_cache_ \subseteq Devices!Slots
  /\ livox_config \in [Devices!Slots -> SUBSET Settings]
  /\ set_bits \in [Devices!Slots -> SUBSET Settings]
  /\ device_state \in [Devices!Slots -> {"Off", "Sampling"}]
  /\ commands \in [Handles -> [Devices!Commands -> Nat]]
  /\ accepted \in [Handles -> SUBSET Settings]

\* No two lidars share a slot, and every slot of a lidar is taken.
SlotsApart(m, used) ==
  /\ \A h \in Handles : m[h] # NoIndex => m[h] \in used
  /\ \A h, g \in Handles : m[h] # NoIndex /\ m[h] = m[g] => h = g

\* Every setting the slot asks for is accepted or has its bit.
AskedFor(h) == livox_config[map_index_[h]] \subseteq accepted[h] \cup set_bits[map_index_[h]]

\* Lidars are Sampling only in a slot that is taken, after the file is read; a setting is
\* sent only to a lidar that was asked for all of them.
DeviceInv ==
  /\ DeviceTypeOK
  /\ SlotsApart(map_index_, index_cache_)
  /\ \A i \in Devices!Slots \ index_cache_ : device_state[i] = "Off"
  /\ initialized = "no" => /\ \A i \in Devices!Slots : device_state[i] = "Off"
                           /\ \A h \in Handles, c \in Devices!Commands : commands[h][c] = 0
  /\ \A h \in Handles, c \in Settings : commands[h][c] > 0 => Devices!Known(h) /\ AskedFor(h)
  /\ SamplingIsConfigured

\* FreeIndex keeps the slot a lidar has, or returns one nobody has.
LEMMA FreeIndexIs ==
  ASSUME NEW m \in [Handles -> Devices!Slots \cup {NoIndex}], NEW used \in SUBSET Devices!Slots,
         NEW h \in Handles
  PROVE  LET i == Devices!FreeIndex(m, used, h)
         IN  i # NoIndex => /\ i \in Devices!Slots
                            /\ m[h] # NoIndex => i = m[h]
                            /\ m[h] = NoIndex => i \notin used
<1> DEFINE free == Devices!Slots \ used
<1>1. CASE m[h] # NoIndex
  BY <1>1 DEF Devices!FreeIndex
<1>2. CASE m[h] = NoIndex /\ free = {}
  BY <1>2 DEF Devices!FreeIndex
<1>3. CASE m[h] = NoIndex /\ free # {}
  <2>1. free \subseteq Nat
    BY LivoxAssumption DEF Devices!DevicesConstants, Devices!Slots
  <2>2. \E i \in free : \A j \in free : i <= j
    <3> HIDE DEF free
    <3>1. QED
      BY <1>3, <2>1, LeastOf
  <2>3. Devices!FreeIndex(m, used, h) = CHOOSE i \in free : \A j \in free : i <= j
    BY <1>3 DEF Devices!FreeIndex
  <2>4. Devices!FreeIndex(m, used, h) \in free
    <3> HIDE DEF free
    <3>1. QED
      BY <2>2, <2>3, Zenon
  <2>5. QED
    BY <1>3, <2>4
<1>4. QED
  BY <1>1, <1>2, <1>3

\* The tables InitLivoxLidar may make.
SlotTables ==
  {t \in [map : [Handles -> Devices!Slots \cup {NoIndex}], used : SUBSET Devices!Slots,
          config : [Devices!Slots -> SUBSET Settings]] : SlotsApart(t.map, t.used)}

LEMMA FillSlotKeeps ==
  ASSUME NEW was \in SlotTables, NEW entry, entry.handle \in Handles
  PROVE  Devices!FillSlot(was, entry) \in SlotTables
<1>1. PICK h \in Handles : h = entry.handle
  OBVIOUS
<1>2. PICK i : i = IF entry.has_ip THEN Devices!FreeIndex(was.map, was.used, h) ELSE NoIndex
  OBVIOUS
<1>3. PICK m, used, config : m = was.map /\ used = was.used /\ config = was.config
  OBVIOUS
<1>4. /\ m \in [Handles -> Devices!Slots \cup {NoIndex}] /\ used \in SUBSET Devices!Slots
      /\ config \in [Devices!Slots -> SUBSET Settings] /\ SlotsApart(m, used)
  BY <1>3 DEF SlotTables
<1>5. CASE i = NoIndex
  BY <1>1, <1>2, <1>5 DEF Devices!FillSlot
<1>6. CASE i # NoIndex
  <2>1. i \in Devices!Slots /\ (m[h] # NoIndex => i = m[h]) /\ (m[h] = NoIndex => i \notin used)
    <3>1. i = Devices!FreeIndex(m, used, h)
      BY <1>2, <1>3, <1>6
    <3>2. QED
      BY <1>4, <1>6, <3>1, FreeIndexIs
  <2>2. PICK settings \in SUBSET Settings : settings = Devices!ParseUserConfigs(entry)
    BY DEF Devices!ParseUserConfigs
  <2>3. Devices!FillSlot(was, entry) =
          [map |-> [m EXCEPT ![h] = i], used |-> used \cup {i},
           config |-> [config EXCEPT ![i] = settings]]
    BY <1>1, <1>2, <1>3, <1>6, <2>2 DEF Devices!FillSlot
  <2>4. SlotsApart([m EXCEPT ![h] = i], used \cup {i})
    BY <1>4, <1>6, <2>1 DEF SlotsApart
  <2>5. /\ [m EXCEPT ![h] = i] \in [Handles -> Devices!Slots \cup {NoIndex}]
        /\ used \cup {i} \in SUBSET Devices!Slots
        /\ [config EXCEPT ![i] = settings] \in [Devices!Slots -> SUBSET Settings]
    BY <1>4, <2>1
  <2>6. PICK m2, used2, config2 :
          m2 = [m EXCEPT ![h] = i] /\ used2 = used \cup {i} /\ config2 = [config EXCEPT ![i] = settings]
    OBVIOUS
  <2>7. [map |-> m2, used |-> used2, config |-> config2] \in SlotTables
    BY <2>4, <2>5, <2>6 DEF SlotTables
  <2>8. QED
    BY <2>3, <2>6, <2>7
<1>7. QED
  BY <1>5, <1>6

\* The entries of a file fill slots one after the other.
LEMMA FillSlotsKeeps ==
  ASSUME NEW file \in Files,
         [map |-> map_index_, used |-> index_cache_, config |-> livox_config] \in SlotTables
  PROVE  Devices!FillSlots(file) \in SlotTables
<1>1. PICK start \in SlotTables :
        start = [map |-> map_index_, used |-> index_cache_, config |-> livox_config]
  OBVIOUS
<1>2. PICK len \in Nat : len = Len(file) /\ \A n \in 1..len : file[n].handle \in Handles
  BY LivoxAssumption DEF Devices!DevicesConstants
<1> DEFINE Body(g) == [n \in 0..len |-> IF n = 0 THEN start ELSE Devices!FillSlot(g[n - 1], file[n])]
           fill == CHOOSE g : g = Body(g)
           F == [x \in (1..len) \X SlotTables |-> Devices!FillSlot(x[2], file[x[1]])]
<1>3. Devices!FillSlots(file) = fill[len]
  BY <1>1, <1>2 DEF Devices!FillSlots
<1>4. F \in [(1..len) \X SlotTables -> SlotTables]
  <2>1. ASSUME NEW x \in (1..len) \X SlotTables
        PROVE  Devices!FillSlot(x[2], file[x[1]]) \in SlotTables
    BY <1>2, FillSlotKeeps
  <2>2. QED
    BY <2>1
<1>5. \A n \in 1..len, t \in SlotTables : F[<<n, t>>] = Devices!FillSlot(t, file[n])
  OBVIOUS
<1>6. PICK g \in [0..len -> SlotTables] : Unfolded(g, start, F, len)
  <2> HIDE DEF F
  <2>1. QED
    BY <1>4, RecursionExists
<1>7. g = Body(g)
  <2>1. ASSUME NEW n \in 0..len
        PROVE  g[n] = IF n = 0 THEN start ELSE Devices!FillSlot(g[n - 1], file[n])
    <3>1. CASE n = 0
      BY <1>6, <3>1 DEF Unfolded
    <3>2. CASE n # 0
      <4>1. n \in 1..len /\ n - 1 \in 0..len
        BY <3>2
      <4>2. g[n] = F[<<n, g[n - 1]>>] /\ g[n - 1] \in SlotTables
        BY <1>6, <4>1 DEF Unfolded
      <4> HIDE DEF F
      <4>3. QED
        BY <1>5, <3>2, <4>1, <4>2
    <3>3. QED
      BY <3>1, <3>2
  <2>2. QED
    BY <2>1
<1> HIDE DEF F
<1>8. fill = Body(fill)
  <2>1. \E f : f = Body(f)
    BY <1>7
  <2> HIDE DEF Body
  <2>2. QED
    BY <2>1, Zenon
<1>9. 0..len \subseteq {n \in 0..len : fill[n] \in SlotTables}
  <2> HIDE DEF fill
  <2>1. 0 \in {n \in 0..len : fill[n] \in SlotTables}
    BY <1>8
  <2>2. ASSUME NEW n \in 0..(len - 1), n \in {k \in 0..len : fill[k] \in SlotTables}
        PROVE  n + 1 \in {k \in 0..len : fill[k] \in SlotTables}
    <3>1. n + 1 \in 1..len /\ n + 1 # 0 /\ (n + 1) - 1 = n /\ n + 1 \in 0..len
      OBVIOUS
    <3>2. fill[n + 1] = Devices!FillSlot(fill[n], file[n + 1])
      BY <1>8, <3>1
    <3>3. Devices!FillSlot(fill[n], file[n + 1]) \in SlotTables
      BY <1>2, <2>2, <3>1, FillSlotKeeps
    <3>4. QED
      BY <3>1, <3>2, <3>3
  <2>3. PICK Good : Good = {n \in 0..len : fill[n] \in SlotTables}
    OBVIOUS
  <2>4. QED
    BY <2>1, <2>2, <2>3, InductionUpTo
<1>10. QED
  BY <1>3, <1>9

LEMMA DeviceInvInit == Devices!Init => DeviceInv
<1> SUFFICES ASSUME Devices!Init PROVE DeviceInv
  OBVIOUS
<1>1. DeviceTypeOK
  BY DEF Devices!Init, DeviceTypeOK
<1>2. \A h \in Handles : map_index_[h] = NoIndex
  BY DEF Devices!Init
<1>3. SlotsApart(map_index_, index_cache_)
  BY <1>2 DEF SlotsApart
<1>4. /\ \A i \in Devices!Slots : device_state[i] = "Off"
      /\ \A h \in Handles, c \in Devices!Commands : commands[h][c] = 0
  BY DEF Devices!Init
<1>5. \A h \in Handles, c \in Settings : commands[h][c] = 0
  BY <1>4 DEF Devices!Commands
<1>6. SamplingIsConfigured
  BY <1>2 DEF SamplingIsConfigured, Devices!SamplingIsConfigured, Devices!Sampling, Devices!Known
<1>7. QED
  BY <1>1, <1>3, <1>4, <1>5, <1>6 DEF DeviceInv

\* The file is read before any lidar is reported.
LEMMA DeviceInvFile ==
  ASSUME DeviceInv, NEW file \in Files, Devices!InitLdsLidar(file)
  PROVE  DeviceInv'
<1>1. PICK filled \in SlotTables : filled = Devices!FillSlots(file)
  <2>1. [map |-> map_index_, used |-> index_cache_, config |-> livox_config] \in SlotTables
    BY DEF DeviceInv, DeviceTypeOK, SlotTables
  <2>2. QED
    BY <2>1, FillSlotsKeeps
<1>2. /\ initialized = "no" /\ initialized' = "yes"
      /\ map_index_' = filled.map /\ index_cache_' = filled.used /\ livox_config' = filled.config
      /\ UNCHANGED <<set_bits, device_state, commands, accepted>>
  BY <1>1 DEF Devices!InitLdsLidar, Devices!answers
<1>3. DeviceTypeOK' /\ SlotsApart(map_index_', index_cache_')
  BY <1>1, <1>2 DEF DeviceInv, DeviceTypeOK, SlotTables
<1>4. /\ \A i \in Devices!Slots : device_state'[i] = "Off"
      /\ \A h \in Handles, c \in Devices!Commands : commands'[h][c] = 0
  BY <1>2 DEF DeviceInv
<1>5. \A h \in Handles, c \in Settings : ~(commands'[h][c] > 0)
  BY <1>4 DEF Devices!Commands
<1>6. SamplingIsConfigured'
  <2> SUFFICES ASSUME NEW h \in Handles, map_index_'[h] # NoIndex, device_state'[map_index_'[h]] = "Sampling"
               PROVE  FALSE
    BY DEF SamplingIsConfigured, Devices!SamplingIsConfigured, Devices!Sampling, Devices!Known
  <2>1. map_index_'[h] \in Devices!Slots
    BY <1>3 DEF DeviceTypeOK
  <2>2. QED
    BY <1>4, <2>1
<1>7. QED
  BY <1>2, <1>3, <1>4, <1>5, <1>6 DEF DeviceInv

\* Send counts the commands up.
LEMMA SendCounts ==
  ASSUME DeviceTypeOK, NEW h \in Handles, NEW S, Devices!Send(h, S)
  PROVE  /\ commands' \in [Handles -> [Devices!Commands -> Nat]]
         /\ \A g \in Handles, c \in Devices!Commands :
              commands'[g][c] > 0 => commands[g][c] > 0 \/ (g = h /\ c \in S)
<1>1. commands' = [commands EXCEPT ![h] =
          [c \in Devices!Commands |-> IF c \in S THEN commands[h][c] + 1 ELSE commands[h][c]]]
  BY DEF Devices!Send, DeviceTypeOK
<1>2. \A c \in Devices!Commands : commands[h][c] \in Nat
  BY DEF DeviceTypeOK
<1>3. [c \in Devices!Commands |-> IF c \in S THEN commands[h][c] + 1 ELSE commands[h][c]]
        \in [Devices!Commands -> Nat]
  BY <1>2
<1>4. QED
  BY <1>1, <1>3 DEF DeviceTypeOK

\* A lidar with a slot is asked for all settings.
LEMMA DeviceInvConfigured ==
  ASSUME DeviceInv, NEW h \in Handles, Devices!ReportConfigured(h)
  PROVE  DeviceInv'
<1>1. PICK i \in Devices!Slots : i = map_index_[h] /\ Devices!Known(h)
  BY DEF DeviceInv, DeviceTypeOK, Devices!ReportConfigured, Devices!Known
<1>2. /\ initialized = "yes" /\ initialized' = "yes"
      /\ set_bits' = [set_bits EXCEPT ![i] = @ \cup livox_config[i]]
      /\ Devices!Send(h, livox_config[i] \cup {"attitude", "work_mode", "imu"})
      /\ UNCHANGED <<map_index_, index_cache_, livox_config, device_state, accepted>>
  BY <1>1 DEF Devices!ReportConfigured, Devices!Report, Devices!answers, Devices!index
<1>3. /\ set_bits' \in [Devices!Slots -> SUBSET Settings]
      /\ livox_config[i] \subseteq set_bits'[i]
      /\ \A j \in Devices!Slots : set_bits[j] \subseteq set_bits'[j]
  BY <1>1, <1>2 DEF DeviceInv, DeviceTypeOK
<1>4. DeviceTypeOK'
  BY <1>2, <1>3, SendCounts DEF DeviceInv, DeviceTypeOK
<1>5. ASSUME NEW g \in Handles, NEW c \in Settings, commands'[g][c] > 0
      PROVE  Devices!Known(g)' /\ AskedFor(g)'
  <2>1. c \in Devices!Commands
    BY DEF Devices!Commands
  <2>2. commands[g][c] > 0 \/ g = h
    BY <1>2, <1>5, <2>1, SendCounts DEF DeviceInv
  <2>3. CASE g = h
    BY <1>1, <1>2, <1>3, <2>3 DEF AskedFor, Devices!Known
  <2>4. CASE commands[g][c] > 0
    <3>1. Devices!Known(g) /\ AskedFor(g)
      BY <2>4 DEF DeviceInv
    <3>2. map_index_[g] \in Devices!Slots
      BY <3>1 DEF Devices!Known, DeviceInv, DeviceTypeOK
    <3>3. QED
      BY <1>2, <1>3, <3>1, <3>2 DEF AskedFor, Devices!Known
  <2>5. QED
    BY <2>2, <2>3, <2>4
<1>6. SamplingIsConfigured'
  BY <1>2 DEF DeviceInv, SamplingIsConfigured, Devices!SamplingIsConfigured, Devices!Sampling, Devices!Known
<1>7. QED
  BY <1>2, <1>4, <1>5, <1>6 DEF DeviceInv

\* A lidar the file does not name gets a slot nobody has, and is not Sampling in it.
LEMMA DeviceInvUnknown ==
  ASSUME DeviceInv, NEW h \in Handles, Devices!ReportUnknown(h)
  PROVE  DeviceInv'
<1>1. PICK i : i = Devices!FreeIndex(map_index_, index_cache_, h)
  OBVIOUS
<1>2. /\ initialized = "yes" /\ initialized' = "yes" /\ map_index_[h] = NoIndex
      /\ IF i = NoIndex THEN UNCHANGED <<map_index_, index_cache_, commands>>
         ELSE /\ map_index_' = [map_index_ EXCEPT ![h] = i]
              /\ index_cache_' = index_cache_ \cup {i}
              /\ Devices!Send(h, {"work_mode", "imu"})
      /\ UNCHANGED <<livox_config, set_bits, device_state, accepted>>
  BY <1>1 DEF Devices!ReportUnknown, Devices!Report, Devices!Known, Devices!answers, Devices!slots,
              Devices!index
<1>3. CASE i = NoIndex
  BY <1>2, <1>3 DEF DeviceInv, DeviceTypeOK, AskedFor, SamplingIsConfigured, Devices!SamplingIsConfigured,
                    Devices!Sampling, Devices!Known
<1>4. CASE i # NoIndex
  <2>1. i \in Devices!Slots /\ i \notin index_cache_
    BY <1>1, <1>2, <1>4, FreeIndexIs DEF DeviceInv, DeviceTypeOK
  <2>2. /\ map_index_' = [map_index_ EXCEPT ![h] = i]
        /\ index_cache_' = index_cache_ \cup {i}
        /\ Devices!Send(h, {"work_mode", "imu"})
    BY <1>2, <1>4
  <2>3. DeviceTypeOK'
    BY <1>2, <2>1, <2>2, SendCounts DEF DeviceInv, DeviceTypeOK
  <2>4. SlotsApart(map_index_', index_cache_')
    BY <1>4, <2>1, <2>2 DEF DeviceInv, DeviceTypeOK, SlotsApart
  <2>5. \A g \in Handles : g # h => map_index_'[g] = map_index_[g]
    BY <2>2 DEF DeviceInv, DeviceTypeOK
  <2>6. map_index_'[h] = i /\ device_state[i] = "Off"
    BY <2>1, <2>2 DEF DeviceInv, DeviceTypeOK
  <2>7. ASSUME NEW g \in Handles, NEW c \in Settings, commands'[g][c] > 0
        PROVE  Devices!Known(g)' /\ AskedFor(g)'
    <3>1. c \in Devices!Commands
      BY DEF Devices!Commands
    <3>2. commands[g][c] > 0 \/ (g = h /\ c \in {"work_mode", "imu"})
      BY <2>2, <2>7, <3>1, SendCounts DEF DeviceInv
    <3>3. c \notin {"work_mode", "imu"}
      BY LivoxAssumption DEF Devices!DevicesConstants
    <3>4. Devices!Known(g) /\ AskedFor(g) /\ g # h
      BY <1>2, <3>2, <3>3 DEF DeviceInv, Devices!Known
    <3>5. QED
      BY <1>2, <2>5, <3>4 DEF AskedFor, Devices!Known
  <2>8. SamplingIsConfigured'
    <3> SUFFICES ASSUME NEW g \in Handles, map_index_'[g] # NoIndex, device_state[map_index_'[g]] = "Sampling"
                 PROVE  livox_config[map_index_'[g]] \subseteq accepted[g]
      BY <1>2 DEF SamplingIsConfigured, Devices!SamplingIsConfigured, Devices!Sampling, Devices!Known
    <3>1. g # h
      BY <2>6
    <3>2. QED
      BY <2>5, <3>1 DEF DeviceInv, SamplingIsConfigured, Devices!SamplingIsConfigured, Devices!Sampling,
                        Devices!Known
  <2>9. QED
    BY <1>2, <2>2, <2>3, <2>4, <2>7, <2>8 DEF DeviceInv
<1>5. QED
  BY <1>3, <1>4

\* Nothing but the number of a command changes, downwards.
LEMMA DeviceInvSame ==
  ASSUME DeviceInv, commands' \in [Handles -> [Devices!Commands -> Nat]],
         initialized' # "no" \/ UNCHANGED <<initialized, commands>>,
         \A h \in Handles, c \in Devices!Commands : commands'[h][c] > 0 => commands[h][c] > 0,
         UNCHANGED <<map_index_, index_cache_, livox_config, set_bits, device_state, accepted>>
  PROVE  DeviceInv'
<1>1. DeviceTypeOK'
  BY DEF DeviceInv, DeviceTypeOK
<1>2. \A h \in Handles, c \in Settings : commands'[h][c] > 0 => Devices!Known(h)' /\ AskedFor(h)'
  BY DEF DeviceInv, AskedFor, Devices!Known, Devices!Commands
<1>3. SamplingIsConfigured'
  BY DEF DeviceInv, SamplingIsConfigured, Devices!SamplingIsConfigured, Devices!Sampling, Devices!Known
<1>4. QED
  BY <1>1, <1>2, <1>3 DEF DeviceInv

\* What taking an answer does to the counts.
LEMMA AnswerCounts ==
  ASSUME DeviceInv, NEW h \in Handles, NEW c \in Devices!Commands, Devices!Answer(h, c),
         Devices!Answered(h, c)
  PROVE  /\ commands' \in [Handles -> [Devices!Commands -> Nat]]
         /\ \A g \in Handles, d \in Devices!Commands : commands'[g][d] > 0 => commands[g][d] > 0
         /\ initialized # "no" /\ initialized' = initialized
<1>1. commands' = [commands EXCEPT ![h][c] = @ - 1] /\ commands[h][c] > 0 /\ initialized' = initialized
  BY DEF Devices!Answer, Devices!Answered
<1>2. commands[h][c] \in Nat
  BY DEF DeviceInv, DeviceTypeOK
<1>3. commands[h][c] - 1 \in Nat
  BY <1>1, <1>2
<1>4. initialized # "no"
  BY <1>1 DEF DeviceInv
<1>5. QED
  BY <1>1, <1>2, <1>3, <1>4 DEF DeviceInv, DeviceTypeOK

\* With its last bit a lidar is Sampling: every setting is accepted then.
LEMMA DeviceInvSet ==
  ASSUME DeviceInv, NEW h \in Handles, NEW c \in Devices!Commands, Devices!SetSucceeded(h, c)
  PROVE  DeviceInv'
<1>1. Devices!Answer(h, c) /\ Devices!Answered(h, c) /\ c \in Settings /\ commands[h][c] > 0
  BY DEF Devices!SetSucceeded, Devices!Answer
<1>2. /\ commands' \in [Handles -> [Devices!Commands -> Nat]]
      /\ \A g \in Handles, d \in Devices!Commands : commands'[g][d] > 0 => commands[g][d] > 0
      /\ initialized # "no" /\ initialized' = initialized
  BY <1>1, AnswerCounts
<1>3. Devices!Known(h) /\ AskedFor(h)
  BY <1>1 DEF DeviceInv
<1>4. PICK i \in Devices!Slots : i = map_index_[h]
  BY <1>3 DEF Devices!Known, DeviceInv, DeviceTypeOK
<1>5. /\ set_bits' = [set_bits EXCEPT ![i] = @ \ {c}]
      /\ device_state' = [device_state EXCEPT ![i] = IF set_bits'[i] = {} THEN "Sampling" ELSE @]
      /\ accepted' = [accepted EXCEPT ![h] = @ \cup {c}]
      /\ UNCHANGED <<map_index_, index_cache_, livox_config>>
  BY <1>4 DEF Devices!SetSucceeded, Devices!Answer, Devices!index
<1>6. DeviceTypeOK'
  BY <1>1, <1>2, <1>4, <1>5 DEF DeviceInv, DeviceTypeOK
<1>7. /\ set_bits'[i] = set_bits[i] \ {c} /\ accepted'[h] = accepted[h] \cup {c}
      /\ \A j \in Devices!Slots : j # i => set_bits'[j] = set_bits[j] /\ device_state'[j] = device_state[j]
      /\ \A g \in Handles : g # h => accepted'[g] = accepted[g]
      /\ device_state'[i] = "Sampling" => set_bits'[i] = {} \/ device_state[i] = "Sampling"
  BY <1>4, <1>5 DEF DeviceInv, DeviceTypeOK
<1>8. i \in index_cache_ /\ \A g \in Handles : g # h => map_index_[g] # i
  BY <1>3, <1>4 DEF DeviceInv, SlotsApart, Devices!Known
<1>9. \A j \in Devices!Slots \ index_cache_' : device_state'[j] = "Off"
  BY <1>5, <1>7, <1>8 DEF DeviceInv
<1>10. livox_config[i] \subseteq accepted'[h] \cup set_bits'[i]
  BY <1>3, <1>4, <1>7 DEF AskedFor
<1>11. ASSUME NEW g \in Handles, NEW d \in Settings, commands'[g][d] > 0
       PROVE  Devices!Known(g)' /\ AskedFor(g)'
  <2>1. commands[g][d] > 0
    BY <1>2, <1>11 DEF Devices!Commands
  <2>2. Devices!Known(g) /\ AskedFor(g) /\ map_index_[g] \in Devices!Slots
    BY <2>1 DEF DeviceInv, Devices!Known, DeviceTypeOK
  <2>3. CASE g = h
    BY <1>3, <1>4, <1>5, <1>10, <2>3 DEF AskedFor, Devices!Known
  <2>4. CASE g # h
    BY <1>5, <1>7, <1>8, <2>2, <2>4 DEF AskedFor, Devices!Known
  <2>5. QED
    BY <2>3, <2>4
<1>12. SamplingIsConfigured'
  <2> SUFFICES ASSUME NEW g \in Handles, map_index_[g] # NoIndex, device_state'[map_index_[g]] = "Sampling"
               PROVE  livox_config[map_index_[g]] \subseteq accepted'[g]
    BY <1>5 DEF SamplingIsConfigured, Devices!SamplingIsConfigured, Devices!Sampling, Devices!Known
  <2>1. map_index_[g] \in Devices!Slots
    BY DEF DeviceInv, DeviceTypeOK
  <2>2. device_state[map_index_[g]] = "Sampling" => livox_config[map_index_[g]] \subseteq accepted[g]
    BY DEF DeviceInv, SamplingIsConfigured, Devices!SamplingIsConfigured, Devices!Sampling, Devices!Known
  <2>3. CASE g = h
    BY <1>4, <1>7, <1>10, <2>2, <2>3
  <2>4. CASE g # h
    BY <1>7, <1>8, <2>1, <2>2, <2>4
  <2>5. QED
    BY <2>3, <2>4
<1>13. QED
  BY <1>2, <1>5, <1>6, <1>9, <1>11, <1>12 DEF DeviceInv

\* A lidar is Sampling only after it accepted every setting of its slot, for any number of
\* lidars and slots, any configuration files and any reports, timeouts and refusals.
THEOREM SamplingAfterSettings == Devices!Spec => []SamplingIsConfigured
<1>1. DeviceInv /\ [Devices!Next]_Devices!vars => DeviceInv'
  <2> SUFFICES ASSUME DeviceInv, [Devices!Next]_Devices!vars PROVE DeviceInv'
    OBVIOUS
  <2>0. commands \in [Handles -> [Devices!Commands -> Nat]]
    BY DEF DeviceInv, DeviceTypeOK
  <2>1. CASE UNCHANGED Devices!vars
    BY <2>0, <2>1, DeviceInvSame DEF Devices!vars, Devices!index, Devices!slots, Devices!answers
  <2>2. CASE Devices!InitFails
    BY <2>0, <2>2, DeviceInvSame DEF Devices!InitFails, Devices!index, Devices!slots, Devices!answers
  <2>3. CASE \E file \in Files : Devices!InitLdsLidar(file)
    BY <2>3, DeviceInvFile
  <2>4. ASSUME NEW h \in Handles, Devices!LidarInfoChangeCallback(h) PROVE DeviceInv'
    BY <2>4, DeviceInvConfigured, DeviceInvUnknown DEF Devices!LidarInfoChangeCallback
  <2>5. ASSUME NEW h \in Handles, NEW c \in Devices!Commands,
               Devices!OtherSucceeded(h, c) \/ Devices!TimedOut(h, c) \/ Devices!Refused(h, c)
        PROVE  DeviceInv'
    <3>1. CASE Devices!TimedOut(h, c)
      BY <2>0, <3>1, DeviceInvSame DEF Devices!TimedOut, Devices!Answer, Devices!index, Devices!answers
    <3>2. CASE Devices!OtherSucceeded(h, c) \/ Devices!Refused(h, c)
      <4>1. /\ Devices!Answer(h, c) /\ Devices!Answered(h, c)
            /\ UNCHANGED <<map_index_, index_cache_, livox_config, set_bits, device_state, accepted>>
        BY <3>2 DEF Devices!OtherSucceeded, Devices!Refused, Devices!Answer, Devices!index, Devices!answers
      <4>2. /\ commands' \in [Handles -> [Devices!Commands -> Nat]]
            /\ \A g \in Handles, d \in Devices!Commands : commands'[g][d] > 0 => commands[g][d] > 0
            /\ initialized # "no" /\ initialized' = initialized
        BY <4>1, AnswerCounts
      <4>3. QED
        BY <4>1, <4>2, DeviceInvSame
    <3>3. QED
      BY <2>5, <3>1, <3>2
  <2>6. QED
    BY <2>1, <2>2, <2>3, <2>4, <2>5, DeviceInvSet DEF Devices!Next, Devices!Sdk
<1>2. DeviceInv => SamplingIsConfigured
  BY DEF DeviceInv
<1>3. QED
  BY <1>1, <1>2, DeviceInvInit, PTL DEF Devices!Spec

-----------------------------------------------------------------------------
(* PubHandler *)

Point == [number : Nat, offset_time : Nat]
Packet == [handle : HandlerLidars, first : Nat \ {0}, known_type : BOOLEAN, time_stamp : Nat]

\* The packets with points of lidar l in queue q, and how many points came before them
\* when rec points of the lidar came in all.
Packets(q, l) == {i \in DOMAIN q : q[i].handle = l /\ q[i].known_type}
TakenBefore(q, l, rec) ==
  IF Packets(q, l) = {} THEN rec ELSE q[Handler!Min(Packets(q, l))].first - 1

\* Each begins where the one before it ends, and the last ends with the last point.
InLine(q, l, rec) ==
  /\ \A i \in Packets(q, l) :
       (\A j \in Packets(q, l) : j <= i) => q[i].first + PointNum = rec + 1
  /\ \A i, j \in Packets(q, l) :
       i < j /\ (\A k \in Packets(q, l) : k <= i \/ j <= k) => q[j].first = q[i].first + PointNum

LEMMA PointNumIs == PointNum \in Nat \ {0}
  BY LivoxAssumption DEF Handler!HandlerConstants

LEMMA PacketsIn ==
  ASSUME NEW q \in Seq(Packet), NEW l \in HandlerLidars
  PROVE  /\ Packets(q, l) \subseteq Nat /\ DOMAIN q = 1..Len(q) /\ Len(q) \in Nat
         /\ \A i \in DOMAIN q : q[i] \in Packet /\ q[i].first \in Nat \ {0}
<1>1. DOMAIN q = 1..Len(q) /\ Len(q) \in Nat
  OBVIOUS
<1>2. Packets(q, l) \subseteq Nat
  BY <1>1 DEF Packets
<1>3. \A i \in DOMAIN q : q[i] \in Packet
  OBVIOUS
<1>4. \A p \in Packet : p.first \in Nat \ {0}
  BY DEF Packet
<1>5. QED
  BY <1>1, <1>2, <1>3, <1>4

LEMMA TakenIs ==
  ASSUME NEW q \in Seq(Packet), NEW l \in HandlerLidars, NEW rec,
         NEW m \in Packets(q, l), \A j \in Packets(q, l) : m <= j
  PROVE  TakenBefore(q, l, rec) = q[m].first - 1
<1>1. PICK S : S = Packets(q, l) /\ S \subseteq Nat
  BY PacketsIn
<1>2. \A n \in S : (\A j \in S : n <= j) => n = m
  BY <1>1
<1>3. Handler!Min(S) = m
  BY <1>1, <1>2 DEF Handler!Min
<1>4. QED
  BY <1>1, <1>3 DEF TakenBefore

LEMMA FirstPacket ==
  ASSUME NEW q \in Seq(Packet), NEW l \in HandlerLidars, Packets(q, l) # {}
  PROVE  \E m \in Packets(q, l) : \A j \in Packets(q, l) : m <= j
<1>1. PICK S : S = Packets(q, l) /\ S \subseteq Nat
  BY PacketsIn
<1>2. QED
  BY <1>1, LeastOf

\* A packet is queued.
LEMMA PacketsAppend ==
  ASSUME NEW q \in Seq(Packet), NEW l \in HandlerLidars, NEW p \in Packet
  PROVE  /\ Append(q, p) \in Seq(Packet)
         /\ \A i \in DOMAIN q : Append(q, p)[i] = q[i]
         /\ Append(q, p)[Len(q) + 1] = p
         /\ p.handle = l /\ p.known_type =>
              Packets(Append(q, p), l) = Packets(q, l) \cup {Len(q) + 1}
         /\ ~(p.handle = l /\ p.known_type) => Packets(Append(q, p), l) = Packets(q, l)
<1>1. PICK r : r = Append(q, p)
  OBVIOUS
<1>2. /\ r \in Seq(Packet) /\ DOMAIN r = DOMAIN q \cup {Len(q) + 1} /\ r[Len(q) + 1] = p
      /\ \A i \in DOMAIN q : r[i] = q[i]
  BY <1>1
<1>3. QED
  BY <1>1, <1>2 DEF Packets

LEMMA LineAppend ==
  ASSUME NEW q \in Seq(Packet), NEW l \in HandlerLidars, NEW rec \in Nat, NEW p \in Packet,
         InLine(q, l, rec)
  PROVE  /\ p.handle = l /\ p.known_type /\ p.first = rec + 1 =>
              /\ InLine(Append(q, p), l, rec + PointNum)
              /\ TakenBefore(Append(q, p), l, rec + PointNum) = TakenBefore(q, l, rec)
         /\ ~(p.handle = l /\ p.known_type) =>
              /\ InLine(Append(q, p), l, rec)
              /\ TakenBefore(Append(q, p), l, rec) = TakenBefore(q, l, rec)
<1>1. PICK r \in Seq(Packet) : r = Append(q, p)
  BY PacketsAppend
<1>2. PICK S, T, n : S = Packets(q, l) /\ T = Packets(r, l) /\ n = Len(q) + 1
  OBVIOUS
<1>3. /\ S \subseteq Nat /\ S \subseteq DOMAIN q /\ n \in Nat /\ \A i \in DOMAIN q : i < n /\ i \in Nat
      /\ \A i \in S : q[i].first \in Nat \ {0}
  BY <1>2, PacketsIn DEF Packets
<1>4. /\ \A i \in S : r[i] = q[i]
      /\ r[n] = p
  BY <1>1, <1>2, <1>3, PacketsAppend
<1>5. CASE p.handle = l /\ p.known_type /\ p.first = rec + 1
  <2>1. T = S \cup {n}
    BY <1>1, <1>2, <1>5, PacketsAppend
  <2>2. InLine(r, l, rec + PointNum)
    <3>1. ASSUME NEW i \in T, \A j \in T : j <= i
          PROVE  r[i].first + PointNum = (rec + PointNum) + 1
      <4>1. i = n
        BY <1>3, <2>1, <3>1
      <4>2. QED
        BY <1>4, <1>5, <4>1, PointNumIs
    <3>2. ASSUME NEW i \in T, NEW j \in T, i < j, \A k \in T : k <= i \/ j <= k
          PROVE  r[j].first = r[i].first + PointNum
      <4>1. i \in S /\ r[i] = q[i]
        BY <1>3, <1>4, <2>1, <3>2
      <4>2. CASE j = n
        <5>1. \A k \in S : k <= i
          BY <1>3, <2>1, <3>2, <4>2
        <5>2. q[i].first + PointNum = rec + 1
          BY <1>2, <4>1, <5>1 DEF InLine
        <5>3. QED
          BY <1>4, <1>5, <4>1, <4>2, <5>2
      <4>3. CASE j \in S
        BY <1>2, <1>4, <2>1, <3>2, <4>1, <4>3 DEF InLine
      <4>4. QED
        BY <2>1, <4>2, <4>3
    <3>3. QED
      BY <1>2, <3>1, <3>2 DEF InLine
  <2>3. TakenBefore(r, l, rec + PointNum) = TakenBefore(q, l, rec)
    <3>1. CASE S = {}
      <4>1. n \in Packets(r, l) /\ \A j \in Packets(r, l) : n <= j
        BY <1>2, <1>3, <2>1, <3>1
      <4>2. TakenBefore(r, l, rec + PointNum) = r[n].first - 1
        BY <4>1, TakenIs
      <4>3. TakenBefore(q, l, rec) = rec
        BY <1>2, <3>1 DEF TakenBefore
      <4>4. QED
        BY <1>4, <1>5, <4>2, <4>3
    <3>2. CASE S # {}
      <4>1. PICK m \in Packets(q, l) : \A j \in Packets(q, l) : m <= j
        BY <1>2, <3>2, FirstPacket
      <4>2. TakenBefore(q, l, rec) = q[m].first - 1
        BY <4>1, TakenIs
      <4>3. m \in Packets(r, l) /\ \A j \in Packets(r, l) : m <= j
        BY <1>2, <1>3, <2>1, <4>1
      <4>4. TakenBefore(r, l, rec + PointNum) = r[m].first - 1
        BY <4>3, TakenIs
      <4>5. QED
        BY <1>2, <1>4, <4>1, <4>2, <4>4
    <3>3. QED
      BY <3>1, <3>2
  <2>4. QED
    BY <1>1, <1>5, <2>2, <2>3
<1>6. CASE ~(p.handle = l /\ p.known_type)
  <2>1. T = S
    BY <1>1, <1>2, <1>6, PacketsAppend
  <2>2. InLine(r, l, rec)
    BY <1>2, <1>4, <2>1 DEF InLine
  <2>3. TakenBefore(r, l, rec) = TakenBefore(q, l, rec)
    <3>1. CASE S = {}
      BY <1>2, <2>1, <3>1 DEF TakenBefore
    <3>2. CASE S # {}
      <4>1. PICK m \in Packets(q, l) : \A j \in Packets(q, l) : m <= j
        BY <1>2, <3>2, FirstPacket
      <4>2. TakenBefore(q, l, rec) = q[m].first - 1
        BY <4>1, TakenIs
      <4>3. TakenBefore(r, l, rec) = r[m].first - 1
        BY <1>2, <2>1, <4>1, TakenIs
      <4>4. QED
        BY <1>2, <1>4, <4>1, <4>2, <4>3
    <3>3. QED
      BY <3>1, <3>2
  <2>4. QED
    BY <1>1, <1>6, <2>2, <2>3
<1>7. QED
  BY <1>5, <1>6

\* The first packet is taken.
LEMMA PacketsTail ==
  ASSUME NEW q \in Seq(Packet), NEW l \in HandlerLidars, q # <<>>
  PROVE  /\ Tail(q) \in Seq(Packet) /\ Head(q) = q[1] /\ q[1] \in Packet /\ 1 \in DOMAIN q
         /\ \A i \in DOMAIN Tail(q) : Tail(q)[i] = q[i + 1] /\ i + 1 \in DOMAIN q /\ i \in Nat \ {0}
         /\ \A i \in Packets(Tail(q), l) : i + 1 \in Packets(q, l)
         /\ \A i \in Packets(q, l) : i # 1 => i - 1 \in Packets(Tail(q), l) /\ i \in Nat /\ i > 1
         /\ 1 \in Packets(q, l) <=> q[1].handle = l /\ q[1].known_type
<1>1. PICK r : r = Tail(q)
  OBVIOUS
<1>2. Len(q) \in Nat /\ Len(q) > 0 /\ DOMAIN q = 1..Len(q)
  OBVIOUS
<1>3. r \in Seq(Packet) /\ DOMAIN r = 1..(Len(q) - 1) /\ \A i \in 1..(Len(q) - 1) : r[i] = q[i + 1]
  BY <1>1
<1>4. Head(q) = q[1] /\ q[1] \in Packet /\ 1 \in DOMAIN q
  BY <1>2
<1>5. \A i \in DOMAIN r : r[i] = q[i + 1] /\ i + 1 \in DOMAIN q /\ i \in Nat \ {0}
  BY <1>2, <1>3
<1>6. \A i \in Packets(r, l) : i + 1 \in Packets(q, l)
  BY <1>5 DEF Packets
<1>7. ASSUME NEW i \in Packets(q, l), i # 1 PROVE i - 1 \in Packets(r, l) /\ i \in Nat /\ i > 1
  <2>1. i \in 1..Len(q) /\ i \in Nat /\ i > 1 /\ i - 1 \in 1..(Len(q) - 1) /\ (i - 1) + 1 = i
    BY <1>2, <1>7 DEF Packets
  <2>2. r[i - 1] = q[i]
    BY <1>3, <2>1
  <2>3. QED
    BY <1>3, <2>1, <2>2 DEF Packets
<1>8. 1 \in Packets(q, l) <=> q[1].handle = l /\ q[1].known_type
  BY <1>4 DEF Packets
<1>9. QED
  BY <1>1, <1>3, <1>4, <1>5, <1>6, <1>7, <1>8

LEMMA LineTail ==
  ASSUME NEW q \in Seq(Packet), NEW l \in HandlerLidars, NEW rec \in Nat, q # <<>>,
         InLine(q, l, rec)
  PROVE  /\ InLine(Tail(q), l, rec)
         /\ q[1].handle = l /\ q[1].known_type =>
              /\ TakenBefore(q, l, rec) = q[1].first - 1
              /\ TakenBefore(Tail(q), l, rec) = (q[1].first - 1) + PointNum
         /\ ~(q[1].handle = l /\ q[1].known_type) =>
              TakenBefore(Tail(q), l, rec) = TakenBefore(q, l, rec)
<1>1. PICK r \in Seq(Packet) : r = Tail(q)
  BY PacketsTail
<1>2. PICK S, T : S = Packets(q, l) /\ T = Packets(r, l)
  OBVIOUS
<1>3. /\ S \subseteq Nat /\ T \subseteq Nat /\ T \subseteq DOMAIN r
      /\ \A i \in T : r[i] = q[i + 1] /\ i + 1 \in S
      /\ \A i \in S : i # 1 => i - 1 \in T /\ i > 1
      /\ 1 \in S <=> q[1].handle = l /\ q[1].known_type
      /\ \A i \in S : i >= 1 /\ q[i].first \in Nat \ {0}
  <2>1. /\ S \subseteq Nat /\ T \subseteq Nat
        /\ \A i \in S : i >= 1 /\ q[i].first \in Nat \ {0}
    BY <1>2, PacketsIn DEF Packets
  <2>2. T \subseteq DOMAIN r
    BY <1>2 DEF Packets
  <2>3. /\ \A i \in T : r[i] = q[i + 1] /\ i + 1 \in S
        /\ \A i \in S : i # 1 => i - 1 \in T /\ i > 1
        /\ 1 \in S <=> q[1].handle = l /\ q[1].known_type
    BY <1>1, <1>2, <2>2, PacketsTail
  <2>4. QED
    BY <2>1, <2>2, <2>3
<1>4. /\ \A i \in S : (\A j \in S : j <= i) => q[i].first + PointNum = rec + 1
      /\ \A i, j \in S :
           i < j /\ (\A k \in S : k <= i \/ j <= k) => q[j].first = q[i].first + PointNum
  BY <1>2 DEF InLine
<1>5. InLine(r, l, rec)
  <2>1. ASSUME NEW i \in T, \A j \in T : j <= i PROVE r[i].first + PointNum = rec + 1
    <3>1. PICK n \in S : n = i + 1
      BY <1>3
    <3>2. ASSUME NEW j \in S PROVE j <= n
      <4>1. CASE j = 1
        BY <1>3, <3>1, <4>1
      <4>2. CASE j # 1
        <5>1. j - 1 <= i /\ j \in Nat /\ i \in Nat
          BY <1>3, <2>1, <4>2
        <5>2. QED
          BY <3>1, <5>1
      <4>3. QED
        BY <4>1, <4>2
    <3>3. QED
      BY <1>3, <1>4, <3>1, <3>2
  <2>2. ASSUME NEW i \in T, NEW j \in T, i < j, \A k \in T : k <= i \/ j <= k
        PROVE  r[j].first = r[i].first + PointNum
    <3>1. PICK n \in S, o \in S : n = i + 1 /\ o = j + 1
      BY <1>3
    <3>2. ASSUME NEW k \in S PROVE k <= n \/ o <= k
      <4>1. CASE k = 1
        BY <1>3, <3>1, <4>1
      <4>2. CASE k # 1
        <5>1. (k - 1 <= i \/ j <= k - 1) /\ k \in Nat /\ i \in Nat /\ j \in Nat
          BY <1>3, <2>2, <4>2
        <5>2. QED
          BY <3>1, <5>1
      <4>3. QED
        BY <4>1, <4>2
    <3>3. n < o
      BY <1>3, <2>2, <3>1
    <3>4. q[o].first = q[n].first + PointNum
      BY <1>4, <3>2, <3>3
    <3>5. QED
      BY <1>3, <3>1, <3>4
  <2>3. QED
    BY <1>2, <2>1, <2>2 DEF InLine
<1>6. ASSUME NEW m \in T, \A j \in T : m <= j
      PROVE  TakenBefore(r, l, rec) = q[m + 1].first - 1 /\ m + 1 \in S /\ m \in Nat
             /\ \A j \in S : j = 1 \/ m + 1 <= j
  <2>1. TakenBefore(r, l, rec) = r[m].first - 1
    BY <1>2, <1>6, TakenIs
  <2>2. ASSUME NEW j \in S, j # 1 PROVE m + 1 <= j
    <3>1. m <= j - 1 /\ j \in Nat /\ m \in Nat
      BY <1>3, <1>6, <2>2
    <3>2. QED
      BY <3>1
  <2>3. QED
    BY <1>3, <2>1, <2>2
<1>7. CASE q[1].handle = l /\ q[1].known_type
  <2>1. 1 \in S /\ \A j \in S : 1 <= j
    BY <1>3, <1>7
  <2>2. TakenBefore(q, l, rec) = q[1].first - 1
    BY <1>2, <2>1, TakenIs
  <2>3. TakenBefore(r, l, rec) = (q[1].first - 1) + PointNum
    <3>1. CASE T = {}
      <4>1. \A j \in S : j <= 1
        BY <1>3, <3>1
      <4>2. q[1].first + PointNum = rec + 1
        BY <1>4, <2>1, <4>1
      <4>3. TakenBefore(r, l, rec) = rec
        BY <1>2, <3>1 DEF TakenBefore
      <4>4. q[1].first \in Nat
        BY <1>3, <2>1
      <4>5. QED
        BY <4>2, <4>3, <4>4, PointNumIs
    <3>2. CASE T # {}
      <4>1. PICK m \in T : \A j \in T : m <= j
        BY <1>2, <3>2, FirstPacket
      <4>2. /\ TakenBefore(r, l, rec) = q[m + 1].first - 1 /\ m + 1 \in S /\ m \in Nat
            /\ \A j \in S : j = 1 \/ m + 1 <= j
        BY <1>6, <4>1
      <4>3. 1 < m + 1
        <5>1. m + 1 # 1
          BY <1>3, <4>1, PacketsTail, <1>1 DEF Packets
        <5>2. QED
          BY <4>2, <5>1
      <4>4. \A k \in S : k <= 1 \/ m + 1 <= k
        BY <4>2
      <4>5. q[m + 1].first = q[1].first + PointNum
        BY <1>4, <2>1, <4>2, <4>3, <4>4
      <4>6. q[1].first \in Nat
        BY <1>3, <2>1
      <4>7. QED
        BY <4>2, <4>5, <4>6, PointNumIs
    <3>3. QED
      BY <3>1, <3>2
  <2>4. QED
    BY <1>1, <1>5, <1>7, <2>2, <2>3
<1>8. CASE ~(q[1].handle = l /\ q[1].known_type)
  <2>1. 1 \notin S
    BY <1>3, <1>8
  <2>2. TakenBefore(r, l, rec) = TakenBefore(q, l, rec)
    <3>1. CASE T = {}
      <4>1. S = {}
        BY <1>3, <2>1, <3>1
      <4>2. QED
        BY <1>2, <3>1, <4>1 DEF TakenBefore
    <3>2. CASE T # {}
      <4>1. PICK m \in T : \A j \in T : m <= j
        BY <1>2, <3>2, FirstPacket
      <4>2. /\ TakenBefore(r, l, rec) = q[m + 1].first - 1 /\ m + 1 \in S
            /\ \A j \in S : j = 1 \/ m + 1 <= j
        BY <1>6, <4>1
      <4>3. TakenBefore(q, l, rec) = q[m + 1].first - 1
        BY <1>2, <2>1, <4>2, TakenIs
      <4>4. QED
        BY <4>2, <4>3
    <3>3. QED
      BY <3>1, <3>2
  <2>3. QED
    BY <1>1, <1>5, <1>8, <2>2
<1>9. QED
  BY <1>7, <1>8

\* The points of two sequences, one after the other, are the first that the lidar sent.
Numbered(sent, cloud, taken) ==
  /\ Len(sent) + Len(cloud) = taken
  /\ \A i \in 1..Len(sent) : sent[i].number = i
  /\ \A i \in 1..Len(cloud) : cloud[i].number = Len(sent) + i

\* The points that follow the first `taken` of the lidar.
Follow(more, taken) == \A i \in 1..Len(more) : more[i].number = taken + i

HandlerTypeOK ==
  /\ now \in Nat
  /\ raw_packet_queue_ \in Seq(Packet)
  /\ points_clouds_ \in [HandlerLidars -> Seq(Point)]
  /\ frames \in [HandlerLidars -> Seq(Point)]
  /\ received \in [HandlerLidars -> Nat]

HandlerInv ==
  /\ HandlerTypeOK
  /\ \A l \in HandlerLidars :
       /\ InLine(raw_packet_queue_, l, received[l])
       /\ Numbered(frames[l], points_clouds_[l], TakenBefore(raw_packet_queue_, l, received[l]))

LEMMA HandlerInit == Handler!Init => HandlerInv
<1> SUFFICES ASSUME Handler!Init PROVE HandlerInv
  OBVIOUS
<1>1. HandlerTypeOK
  BY DEF Handler!Init, HandlerTypeOK
<1>2. \A l \in HandlerLidars : Packets(raw_packet_queue_, l) = {}
  BY DEF Handler!Init, Packets
<1>3. \A l \in HandlerLidars : frames[l] = <<>> /\ points_clouds_[l] = <<>> /\ received[l] = 0
  BY DEF Handler!Init
<1>4. QED
  <2>1. ASSUME NEW l \in HandlerLidars
        PROVE  /\ InLine(raw_packet_queue_, l, received[l])
               /\ Numbered(frames[l], points_clouds_[l], TakenBefore(raw_packet_queue_, l, received[l]))
    <3>1. InLine(raw_packet_queue_, l, received[l])
      BY <1>2 DEF InLine
    <3>2. TakenBefore(raw_packet_queue_, l, received[l]) = 0
      BY <1>2, <1>3 DEF TakenBefore
    <3>3. Numbered(<<>>, <<>>, 0)
      BY DEF Numbered
    <3>4. QED
      BY <1>3, <3>1, <3>2, <3>3
  <2>2. QED
    BY <1>1, <2>1 DEF HandlerInv

\* The points of a packet follow those taken before.
LEMMA PacketPoints ==
  ASSUME NEW p \in Packet
  PROVE  /\ Handler!PointCloudProcess(p) \in Seq(Point)
         /\ ~p.known_type => Handler!PointCloudProcess(p) = <<>>
         /\ p.known_type =>
              /\ Len(Handler!PointCloudProcess(p)) = PointNum
              /\ \A i \in 1..PointNum : Handler!PointCloudProcess(p)[i].number = p.first + i - 1
<1>1. p.first \in Nat \ {0} /\ p.time_stamp \in Nat
  BY DEF Packet
<1>2. CASE ~p.known_type
  BY <1>2 DEF Handler!PointCloudProcess
<1>3. CASE p.known_type
  <2>1. Handler!PointCloudProcess(p) =
          [i \in 1..PointNum |-> [number |-> p.first + i - 1,
                                  offset_time |-> p.time_stamp + (i - 1) * PointInterval]]
    BY <1>3 DEF Handler!PointCloudProcess
  <2>2. ASSUME NEW i \in 1..PointNum
        PROVE  p.first + i - 1 \in Nat /\ p.time_stamp + (i - 1) * PointInterval \in Nat
    <3>1. i - 1 \in Nat /\ PointInterval \in Nat
      BY LivoxAssumption DEF Handler!HandlerConstants
    <3>2. \A a, b \in Nat : a * b \in Nat
      OBVIOUS
    <3>3. (i - 1) * PointInterval \in Nat
      BY <3>1, <3>2
    <3>4. QED
      BY <1>1, <3>3
  <2>3. PICK points : points = Handler!PointCloudProcess(p)
    OBVIOUS
  <2>4. /\ points \in [1..PointNum -> Point]
        /\ \A i \in 1..PointNum : points[i].number = p.first + i - 1
    BY <2>1, <2>2, <2>3 DEF Point
  <2>5. points \in Seq(Point) /\ Len(points) = PointNum
    BY <2>4, PointNumIs
  <2>6. QED
    BY <1>3, <2>3, <2>4, <2>5
<1>4. QED
  BY <1>2, <1>3

\* A message holds the points of its part.
LEMMA MessagePoints ==
  ASSUME NEW cloud \in Seq(Point)
  PROVE  LET message == Handler!CustomMsg(Handler!PartOf(cloud))
         IN  /\ message \in Seq(Point) /\ Len(message) = Len(cloud)
             /\ \A i \in 1..Len(cloud) : message[i].number = cloud[i].number
<1>1. PICK base \in Nat : base = Handler!BaseTime(cloud)
  <2>1. CASE cloud = <<>>
    BY <2>1 DEF Handler!BaseTime
  <2>2. CASE cloud # <<>>
    <3>1. Head(cloud) \in Point
      BY <2>2
    <3>2. QED
      BY <2>2, <3>1 DEF Handler!BaseTime, Point
  <2>3. QED
    BY <2>1, <2>2
<1>2. PICK m \in Nat \ {0} : m = 2 ^ OffsetBits
  BY LivoxAssumption DEF Handler!HandlerConstants
<1>3. PICK message : message = Handler!CustomMsg(Handler!PartOf(cloud))
  OBVIOUS
<1>4. message = [i \in DOMAIN cloud |-> [number |-> cloud[i].number,
                                         offset_time |-> (cloud[i].offset_time - base) % m]]
  BY <1>1, <1>2, <1>3 DEF Handler!CustomMsg, Handler!PartOf
<1>5. ASSUME NEW i \in DOMAIN cloud
      PROVE  cloud[i].number \in Nat /\ (cloud[i].offset_time - base) % m \in Nat
  <2>1. cloud[i] \in Point
    OBVIOUS
  <2>2. cloud[i].number \in Nat /\ cloud[i].offset_time - base \in Int
    BY <2>1 DEF Point
  <2>3. PICK n \in Int : n = cloud[i].offset_time - base
    BY <2>2
  <2>4. n % m \in Nat
    OBVIOUS
  <2>5. QED
    BY <2>2, <2>3, <2>4
<1>6. DOMAIN cloud = 1..Len(cloud) /\ Len(cloud) \in Nat
  OBVIOUS
<1>7. message \in [1..Len(cloud) -> Point] /\ \A i \in 1..Len(cloud) : message[i].number = cloud[i].number
  BY <1>4, <1>5, <1>6 DEF Point
<1>8. message \in Seq(Point) /\ Len(message) = Len(cloud)
  BY <1>6, <1>7
<1>9. QED
  BY <1>3, <1>7, <1>8

LEMMA NumberedAppend ==
  ASSUME NEW sent \in Seq(Point), NEW cloud \in Seq(Point), NEW more \in Seq(Point), NEW taken \in Int,
         Numbered(sent, cloud, taken), Follow(more, taken)
  PROVE  cloud \o more \in Seq(Point) /\ Numbered(sent, cloud \o more, taken + Len(more))
<1>1. PICK a \in Nat, b \in Nat, c \in Nat : a = Len(sent) /\ b = Len(cloud) /\ c = Len(more)
  OBVIOUS
<1>2. /\ taken = a + b /\ \A i \in 1..a : sent[i].number = i
      /\ \A i \in 1..b : cloud[i].number = a + i
  BY <1>1 DEF Numbered
<1>3. PICK both : both = cloud \o more
  OBVIOUS
<1>4. both \in Seq(Point) /\ Len(both) = b + c
  BY <1>1, <1>3
<1>5. \A i \in 1..(b + c) : both[i] = IF i <= b THEN cloud[i] ELSE more[i - b]
  BY <1>1, <1>3
<1>6. ASSUME NEW i \in 1..(b + c) PROVE both[i].number = a + i
  <2>1. CASE i <= b
    BY <1>2, <1>5, <2>1
  <2>2. CASE i > b
    <3>1. PICK k \in 1..c : k = i - b
      BY <2>2
    <3>2. more[k].number = taken + k
      BY <1>1 DEF Follow
    <3>3. both[i] = more[k]
      BY <1>5, <2>2, <3>1
    <3>4. QED
      BY <1>2, <3>1, <3>2, <3>3
  <2>3. QED
    BY <2>1, <2>2
<1>7. Numbered(sent, both, taken + c)
  BY <1>1, <1>2, <1>4, <1>6 DEF Numbered
<1>8. QED
  BY <1>1, <1>3, <1>4, <1>7

LEMMA NumberedSent ==
  ASSUME NEW sent \in Seq(Point), NEW cloud \in Seq(Point), NEW message \in Seq(Point), NEW taken \in Int,
         Numbered(sent, cloud, taken), Len(message) = Len(cloud),
         \A i \in 1..Len(cloud) : message[i].number = cloud[i].number
  PROVE  sent \o message \in Seq(Point) /\ Numbered(sent \o message, <<>>, taken)
<1>1. PICK a \in Nat, b \in Nat : a = Len(sent) /\ b = Len(cloud) /\ b = Len(message)
  OBVIOUS
<1>2. /\ taken = a + b /\ \A i \in 1..a : sent[i].number = i
      /\ \A i \in 1..b : cloud[i].number = a + i
  BY <1>1 DEF Numbered
<1>3. PICK both : both = sent \o message
  OBVIOUS
<1>4. both \in Seq(Point) /\ Len(both) = a + b
  <2>1. \A s, t \in Seq(Point) : s \o t \in Seq(Point) /\ Len(s \o t) = Len(s) + Len(t)
    OBVIOUS
  <2>2. both \in Seq(Point) /\ Len(both) = Len(sent) + Len(message)
    BY <1>3, <2>1
  <2>3. QED
    BY <1>1, <2>2
<1>5. \A i \in 1..(a + b) : both[i] = IF i <= a THEN sent[i] ELSE message[i - a]
  BY <1>1, <1>3
<1>6. ASSUME NEW i \in 1..(a + b) PROVE both[i].number = i
  <2>1. CASE i <= a
    BY <1>2, <1>5, <2>1
  <2>2. CASE i > a
    <3>1. PICK k \in 1..b : k = i - a
      BY <2>2
    <3>2. message[k].number = a + k
      BY <1>1, <1>2
    <3>3. both[i] = message[k]
      BY <1>5, <2>2, <3>1
    <3>4. QED
      BY <3>1, <3>2, <3>3
  <2>3. QED
    BY <2>1, <2>2
<1>7. Len(<<>>) = 0 /\ 1..0 = {}
  OBVIOUS
<1>8. Numbered(both, <<>>, taken)
  BY <1>2, <1>4, <1>6, <1>7 DEF Numbered
<1>9. QED
  BY <1>3, <1>4, <1>8

\* A packet comes in.
LEMMA HandlerPacket ==
  ASSUME HandlerInv, NEW h \in HandlerLidars, NEW synchronized \in BOOLEAN, NEW known \in BOOLEAN,
         NEW stamp \in Stamps, Handler!OnLivoxLidarPointCloudCallback(h, synchronized, stamp, known)
  PROVE  HandlerInv'
<1>1. PICK p : p = [handle |-> h, first |-> received[h] + 1, known_type |-> known,
                    time_stamp |-> Handler!GetEthPacketTimestamp(synchronized, stamp)]
  OBVIOUS
<1>2. p \in Packet /\ p.handle = h /\ p.known_type = known /\ p.first = received[h] + 1
  <2>1. Handler!GetEthPacketTimestamp(synchronized, stamp) \in Nat
    BY LivoxAssumption DEF Handler!HandlerConstants, Handler!GetEthPacketTimestamp, HandlerInv, HandlerTypeOK
  <2>2. received[h] + 1 \in Nat \ {0}
    BY DEF HandlerInv, HandlerTypeOK
  <2>3. QED
    BY <1>1, <2>1, <2>2 DEF Packet
<1>3. /\ raw_packet_queue_' = Append(raw_packet_queue_, p)
      /\ received' = IF known THEN [received EXCEPT ![h] = @ + PointNum] ELSE received
      /\ UNCHANGED <<now, points_clouds_, frames>>
  BY <1>1 DEF Handler!OnLivoxLidarPointCloudCallback, Handler!handler
<1>4. HandlerTypeOK'
  <2>1. raw_packet_queue_' \in Seq(Packet)
    BY <1>2, <1>3 DEF HandlerInv, HandlerTypeOK
  <2>2. received' \in [HandlerLidars -> Nat]
    BY <1>3, PointNumIs DEF HandlerInv, HandlerTypeOK
  <2>3. QED
    BY <1>3, <2>1, <2>2 DEF HandlerInv, HandlerTypeOK
<1>5. ASSUME NEW l \in HandlerLidars
      PROVE  /\ InLine(raw_packet_queue_', l, received'[l])
             /\ TakenBefore(raw_packet_queue_', l, received'[l]) = TakenBefore(raw_packet_queue_, l, received[l])
  <2>1. PICK rec \in Nat : rec = received[l]
    BY DEF HandlerInv, HandlerTypeOK
  <2>2. raw_packet_queue_ \in Seq(Packet) /\ InLine(raw_packet_queue_, l, rec)
    BY <2>1 DEF HandlerInv, HandlerTypeOK
  <2>3. CASE l = h /\ known
    <3>1. received'[l] = rec + PointNum
      BY <1>3, <2>1, <2>3 DEF HandlerInv, HandlerTypeOK
    <3>2. p.handle = l /\ p.known_type /\ p.first = rec + 1
      BY <1>2, <2>1, <2>3
    <3>3. /\ InLine(Append(raw_packet_queue_, p), l, rec + PointNum)
          /\ TakenBefore(Append(raw_packet_queue_, p), l, rec + PointNum) = TakenBefore(raw_packet_queue_, l, rec)
      BY <1>2, <2>2, <3>2, LineAppend
    <3>4. QED
      BY <1>3, <2>1, <3>1, <3>3
  <2>4. CASE ~(l = h /\ known)
    <3>1. received'[l] = rec
      BY <1>3, <2>1, <2>4 DEF HandlerInv, HandlerTypeOK
    <3>2. ~(p.handle = l /\ p.known_type)
      BY <1>2, <2>4
    <3>3. /\ InLine(Append(raw_packet_queue_, p), l, rec)
          /\ TakenBefore(Append(raw_packet_queue_, p), l, rec) = TakenBefore(raw_packet_queue_, l, rec)
      BY <1>2, <2>2, <3>2, LineAppend
    <3>4. QED
      BY <1>3, <2>1, <3>1, <3>3
  <2>5. QED
    BY <2>3, <2>4
<1>6. QED
  BY <1>3, <1>4, <1>5 DEF HandlerInv

\* What CheckTimer does with the clouds: those it publishes it empties.
LEMMA CloudsGo ==
  ASSUME HandlerTypeOK, NEW h \in HandlerLidars, NEW clouds \in [HandlerLidars -> Seq(Point)],
         Handler!CheckTimerSynced(h, clouds) \/ Handler!CheckTimerHost(clouds),
         NEW l \in HandlerLidars
  PROVE  \/ frames'[l] = frames[l] /\ points_clouds_'[l] = clouds[l]
         \/ /\ frames'[l] = frames[l] \o Handler!CustomMsg(Handler!PartOf(clouds[l]))
            /\ points_clouds_'[l] = <<>>
<1>1. ASSUME NEW S \in SUBSET HandlerLidars, Handler!PublishPointCloud(Handler!FrameOf(S, clouds))
      PROVE  /\ frames' = [k \in HandlerLidars |->
                             IF k \in S /\ clouds[k] # <<>>
                             THEN frames[k] \o Handler!CustomMsg(Handler!PartOf(clouds[k])) ELSE frames[k]]
  BY <1>1 DEF Handler!PublishPointCloud, Handler!FrameOf
<1>2. CASE Handler!CheckTimerSynced(h, clouds)
  <2>1. CASE Handler!SyncedFrameDue(clouds[h])
    <3>1. /\ Handler!PublishPointCloud(Handler!FrameOf({h}, clouds))
          /\ points_clouds_' = [clouds EXCEPT ![h] = <<>>]
      BY <1>2, <2>1 DEF Handler!CheckTimerSynced
    <3>2. QED
      BY <1>1, <3>1
  <2>2. CASE ~Handler!SyncedFrameDue(clouds[h])
    BY <1>2, <2>2 DEF Handler!CheckTimerSynced
  <2>3. QED
    BY <2>1, <2>2
<1>3. CASE Handler!CheckTimerHost(clouds)
  <2>1. CASE Handler!HostFrameDue
    <3>1. /\ Handler!PublishPointCloud(Handler!FrameOf(HandlerLidars, clouds))
          /\ points_clouds_' = [k \in HandlerLidars |-> <<>>]
      BY <1>3, <2>1 DEF Handler!CheckTimerHost
    <3>2. QED
      BY <1>1, <3>1
  <2>2. CASE ~Handler!HostFrameDue
    BY <1>3, <2>2 DEF Handler!CheckTimerHost
  <2>3. QED
    BY <2>1, <2>2
<1>4. QED
  BY <1>2, <1>3

\* The process thread takes a packet.
LEMMA HandlerProcess == ASSUME HandlerInv, Handler!RawDataProcess PROVE HandlerInv'
<1>1. PICK q \in Seq(Packet) : q = raw_packet_queue_ /\ q # <<>>
  BY DEF HandlerInv, HandlerTypeOK, Handler!RawDataProcess
<1>2. PICK p \in Packet : p = q[1] /\ p = Head(q)
  BY <1>1, PacketsTail
<1>3. PICK h \in HandlerLidars : h = p.handle
  BY DEF Packet
<1>a. PICK more : more = Handler!PointCloudProcess(p)
  OBVIOUS
<1>4. PICK clouds : clouds = [points_clouds_ EXCEPT ![h] = @ \o more]
  OBVIOUS
<1>5. /\ raw_packet_queue_' = Tail(q)
      /\ Handler!CheckTimerSynced(h, clouds) \/ Handler!CheckTimerHost(clouds)
      /\ UNCHANGED <<now, received>>
  BY <1>1, <1>2, <1>3, <1>a, <1>4 DEF Handler!RawDataProcess
<1>6. /\ more \in Seq(Point)
      /\ ~p.known_type => more = <<>>
      /\ p.known_type => /\ Len(more) = PointNum
                         /\ \A i \in 1..PointNum : more[i].number = p.first + i - 1
  BY <1>a, PacketPoints
<1>7. clouds \in [HandlerLidars -> Seq(Point)]
  <2>1. points_clouds_[h] \o more \in Seq(Point)
    BY <1>6 DEF HandlerInv, HandlerTypeOK
  <2>2. QED
    BY <1>4, <2>1 DEF HandlerInv, HandlerTypeOK
<1>8. ASSUME NEW l \in HandlerLidars
      PROVE  /\ InLine(Tail(q), l, received[l])
             /\ TakenBefore(Tail(q), l, received[l]) \in Int
             /\ Numbered(frames[l], clouds[l], TakenBefore(Tail(q), l, received[l]))
  <2>1. PICK rec \in Nat : rec = received[l]
    BY DEF HandlerInv, HandlerTypeOK
  <2>2. InLine(q, l, rec) /\ Numbered(frames[l], points_clouds_[l], TakenBefore(q, l, rec))
    BY <1>1, <2>1 DEF HandlerInv
  <2>3. InLine(Tail(q), l, rec)
    BY <1>1, <2>2, LineTail
  <2>4. frames[l] \in Seq(Point) /\ points_clouds_[l] \in Seq(Point)
    BY DEF HandlerInv, HandlerTypeOK
  <2>5. PICK taken \in Nat : taken = TakenBefore(q, l, rec)
    <3>1. PICK a \in Nat, b \in Nat : a = Len(frames[l]) /\ b = Len(points_clouds_[l])
      BY <2>4
    <3>2. TakenBefore(q, l, rec) = a + b
      BY <2>2, <3>1 DEF Numbered
    <3>3. QED
      BY <3>2
  <2>6. CASE h = l /\ p.known_type
    <3>1. TakenBefore(q, l, rec) = p.first - 1 /\ TakenBefore(Tail(q), l, rec) = (p.first - 1) + PointNum
      BY <1>1, <1>2, <1>3, <2>2, <2>6, LineTail
    <3>2. p.first \in Nat
      BY DEF Packet
    <3>a. Len(more) = PointNum /\ PointNum \in Nat
      BY <1>6, <2>6, PointNumIs
    <3>3. Follow(more, taken)
      <4>1. taken = p.first - 1
        BY <2>5, <3>1
      <4>2. \A i \in 1..PointNum : more[i].number = p.first + i - 1
        BY <1>6, <2>6
      <4>3. PICK first \in Nat : first = p.first
        BY <3>2
      <4>4. ASSUME NEW i \in 1..PointNum
            PROVE  more[i].number = taken + i
        <5>1. more[i].number = first + i - 1
          BY <4>2, <4>3
        <5>2. taken = first - 1
          BY <4>1, <4>3
        <5>3. first + i - 1 = taken + i
          BY <5>2
        <5>4. QED
          BY <5>1, <5>3
      <4>5. QED
        BY <3>a, <4>4 DEF Follow
    <3>4. Numbered(frames[l], points_clouds_[l] \o more, taken + Len(more))
      <4>1. more \in Seq(Point)
        BY <1>6
      <4>2. Numbered(frames[l], points_clouds_[l], taken)
        BY <2>2, <2>5
      <4>3. QED
        <5>1. taken \in Int
          OBVIOUS
        <5>2. QED
          BY <2>4, <3>3, <4>1, <4>2, <5>1, NumberedAppend
    <3>5. clouds[l] = points_clouds_[l] \o more
      BY <1>4, <2>6 DEF HandlerInv, HandlerTypeOK
    <3>6. TakenBefore(Tail(q), l, rec) = taken + Len(more) /\ taken + Len(more) \in Int
      <4>1. taken = p.first - 1
        BY <2>5, <3>1
      <4>2. TakenBefore(Tail(q), l, rec) = (p.first - 1) + PointNum
        BY <3>1
      <4>3. TakenBefore(Tail(q), l, rec) = taken + PointNum
        BY <4>1, <4>2
      <4>4. QED
        BY <3>a, <4>3
    <3>7. QED
      BY <2>1, <2>3, <3>4, <3>5, <3>6
  <2>7. CASE ~(h = l /\ p.known_type)
    <3>1. TakenBefore(Tail(q), l, rec) = TakenBefore(q, l, rec)
      BY <1>1, <1>2, <1>3, <2>2, <2>7, LineTail
    <3>2. clouds[l] = points_clouds_[l]
      <4>1. CASE h # l
        BY <1>4, <4>1 DEF HandlerInv, HandlerTypeOK
      <4>2. CASE h = l
        <5>1. more = <<>>
          BY <1>6, <2>7, <4>2
        <5>2. points_clouds_[l] \o more = points_clouds_[l]
          BY <2>4, <5>1
        <5>3. QED
          BY <1>4, <4>2, <5>2 DEF HandlerInv, HandlerTypeOK
      <4>3. QED
        BY <4>1, <4>2
    <3>3. QED
      BY <2>1, <2>2, <2>3, <2>5, <3>1, <3>2
  <2>8. QED
    BY <2>6, <2>7
<1>9. ASSUME NEW l \in HandlerLidars
      PROVE  /\ frames'[l] \in Seq(Point) /\ points_clouds_'[l] \in Seq(Point)
             /\ Numbered(frames'[l], points_clouds_'[l], TakenBefore(Tail(q), l, received[l]))
  <2>1. frames[l] \in Seq(Point) /\ clouds[l] \in Seq(Point)
    BY <1>7 DEF HandlerInv, HandlerTypeOK
  <2>2. CASE frames'[l] = frames[l] /\ points_clouds_'[l] = clouds[l]
    BY <1>8, <2>1, <2>2
  <2>3. CASE /\ frames'[l] = frames[l] \o Handler!CustomMsg(Handler!PartOf(clouds[l]))
             /\ points_clouds_'[l] = <<>>
    <3>1. PICK message \in Seq(Point) :
            /\ message = Handler!CustomMsg(Handler!PartOf(clouds[l])) /\ Len(message) = Len(clouds[l])
            /\ \A i \in 1..Len(clouds[l]) : message[i].number = clouds[l][i].number
      BY <2>1, MessagePoints
    <3>2. /\ frames[l] \o message \in Seq(Point)
          /\ Numbered(frames[l] \o message, <<>>, TakenBefore(Tail(q), l, received[l]))
      BY <1>8, <2>1, <3>1, NumberedSent
    <3>3. QED
      BY <2>3, <3>1, <3>2
  <2>4. QED
    BY <1>5, <1>7, <2>2, <2>3, CloudsGo DEF HandlerInv
<1>10. /\ DOMAIN frames' = HandlerLidars /\ DOMAIN points_clouds_' = HandlerLidars
       /\ frames' = [k \in HandlerLidars |-> frames'[k]]
       /\ points_clouds_' = [k \in HandlerLidars |-> points_clouds_'[k]]
  BY <1>5, <1>7 DEF Handler!CheckTimerSynced, Handler!CheckTimerHost, Handler!PublishPointCloud, HandlerInv,
                    HandlerTypeOK
<1>11. HandlerTypeOK'
  <2>1. frames' \in [HandlerLidars -> Seq(Point)] /\ points_clouds_' \in [HandlerLidars -> Seq(Point)]
    BY <1>9, <1>10
  <2>2. Tail(q) \in Seq(Packet)
    BY <1>1
  <2>3. QED
    BY <1>5, <2>1, <2>2 DEF HandlerInv, HandlerTypeOK
<1>12. QED
  BY <1>5, <1>8, <1>9, <1>11 DEF HandlerInv

\* No point of a lidar is lost, repeated or out of order between the packets and the
\* messages, for any lidars, packet sizes, stamps and clocks, and however often the driver
\* goes from the clock of the lidars to its own and back.
THEOREM PointsComeOnce == Handler!Spec => []EveryPointOnce
<1>1. HandlerInv /\ [Handler!Next]_Handler!vars => HandlerInv'
  <2> SUFFICES ASSUME HandlerInv, [Handler!Next]_Handler!vars PROVE HandlerInv'
    OBVIOUS
  <2>1. CASE UNCHANGED Handler!vars
    BY <2>1 DEF HandlerInv, HandlerTypeOK, Handler!vars, Handler!handler
  <2>2. CASE Handler!Tick
    BY <2>2 DEF HandlerInv, HandlerTypeOK, Handler!Tick, Handler!handler
  <2>3. CASE \E synchronized \in BOOLEAN : Handler!ImuPacket(synchronized)
    BY <2>3 DEF HandlerInv, HandlerTypeOK, Handler!ImuPacket, Handler!handler
  <2>4. QED
    BY <2>1, <2>2, <2>3, HandlerPacket, HandlerProcess DEF Handler!Next
<1>2. HandlerInv => EveryPointOnce
  <2> SUFFICES ASSUME HandlerInv, NEW l \in HandlerLidars
               PROVE  Handler!NumbersOf(frames[l] \o points_clouds_[l]) =
                        [i \in 1..TakenBefore(raw_packet_queue_, l, received[l]) |-> i]
    BY DEF EveryPointOnce, Handler!EveryPointOnce, TakenBefore, Packets, Handler!Queued
  <2>1. PICK sent \in Seq(Point), cloud \in Seq(Point) : sent = frames[l] /\ cloud = points_clouds_[l]
    BY DEF HandlerInv, HandlerTypeOK
  <2>2. PICK taken : taken = TakenBefore(raw_packet_queue_, l, received[l])
    OBVIOUS
  <2>3. Numbered(sent, cloud, taken)
    BY <2>1, <2>2 DEF HandlerInv
  <2>4. PICK both : both = sent \o cloud
    OBVIOUS
  <2>5. PICK a \in Nat, b \in Nat : a = Len(sent) /\ b = Len(cloud)
    OBVIOUS
  <2>a. /\ taken = a + b /\ \A i \in 1..a : sent[i].number = i
        /\ \A i \in 1..b : cloud[i].number = a + i
    BY <2>3, <2>5 DEF Numbered
  <2>b. DOMAIN both = 1..(a + b) /\ \A i \in 1..(a + b) : both[i] = IF i <= a THEN sent[i] ELSE cloud[i - a]
    BY <2>4, <2>5
  <2>6. ASSUME NEW i \in 1..(a + b) PROVE both[i].number = i
    <3>1. CASE i <= a
      BY <2>a, <2>b, <3>1
    <3>2. CASE i > a
      <4>1. PICK k \in 1..b : k = i - a
        BY <3>2
      <4>2. both[i] = cloud[k]
        BY <2>b, <3>2, <4>1
      <4>3. QED
        BY <2>a, <4>1, <4>2
    <3>3. QED
      BY <3>1, <3>2
  <2>7. Handler!NumbersOf(both) = [i \in 1..taken |-> i]
    BY <2>a, <2>b, <2>6 DEF Handler!NumbersOf
  <2>8. QED
    BY <2>1, <2>2, <2>4, <2>7
<1>3. QED
  BY <1>1, <1>2, HandlerInit, PTL DEF Handler!Spec

-----------------------------------------------------------------------------
(* Lddc: sleeping and waking *)

\* What the argument needs to know of the values.
WakeupType ==
  /\ count_ \in [Streams -> Nat]
  /\ tpc \in [Streams -> {"begin", "wait", "scan", "poll", "pop", "update", "status", "gone"}]
  /\ lidar_id \in [Streams -> Lidars]
  /\ imu_data \in [Lidars -> 0..1]
  /\ ipc \in Lidars \cup {NoLidar}
  /\ connect_state \in [Lidars -> {"None", "Off", "Sampling"}]
  /\ request_exit_ \in BOOLEAN
  /\ present \subseteq Lidars
  /\ DOMAIN rd_idx = Lidars /\ DOMAIN wr_idx = Lidars
  /\ frame \in Seq(Lidars)
  /\ upc \in {"idle", "push", "index", "signal"}
  /\ upc # "idle" => frame # <<>>
  /\ offered \in [Streams -> SUBSET Lidars]
  /\ \A st \in Streams : \A l \in offered[st] : connect_state[l] = "Sampling"

\* The reader of a stream is on its way to lidar l, or will not sleep again.
Coming(st, l) ==
  \/ count_[st] > 0
  \/ tpc[st] \in {"scan", "poll", "pop", "update"} /\ lidar_id[st] <= l
  \/ request_exit_ /\ tpc[st] # "wait"

\* What waits in a queue has its reader coming, or is about to be signalled.
PointsInv ==
  \A l \in offered["pcd"] :
    QueueIsEmpty(l) \/ Coming("pcd", l) \/ (upc = "signal" /\ Head(frame) = l)

SamplesInv ==
  \A l \in offered["imu"] :
    imu_data[l] = 0 \/ Coming("imu", l) \/ ipc = l

WakeupInv == WakeupType /\ PointsInv /\ SamplesInv

\* The slots of lidars_ are numbered from 0.
LEMMA LidarsFrom0 ==
  /\ 0 \in Lidars
  /\ \A l \in Lidars : l \in Nat /\ l <= lidar_count_ - 1
  /\ \A l \in Lidars : l # lidar_count_ - 1 => l + 1 \in Lidars
  /\ NoLidar \notin Lidars
  BY LddcAssumption DEF Lidars, NoLidar

LEMMA WakeupInit == Init => WakeupInv
<1> SUFFICES ASSUME Init PROVE WakeupInv
  OBVIOUS
<1>1. present \subseteq Lidars
  BY LidarsFrom0 DEF Init
<1>2. offered = [st \in Streams |-> {}]
  BY DEF Init
<1>3. count_ \in [Streams -> Nat] /\ lidar_id \in [Streams -> Lidars]
  BY LidarsFrom0 DEF Init
<1>4. tpc \in [Streams -> {"begin", "wait", "scan", "poll", "pop", "update", "status", "gone"}]
  BY DEF Init
<1>5. imu_data \in [Lidars -> 0..1] /\ connect_state \in [Lidars -> {"None", "Off", "Sampling"}]
  BY DEF Init
<1>6. WakeupType
  <2>1. offered \in [Streams -> SUBSET Lidars] /\ \A st \in Streams : offered[st] = {}
    BY <1>2
  <2>2. frame \in Seq(Lidars) /\ upc = "idle" /\ ipc = NoLidar /\ request_exit_ = FALSE
    BY DEF Init
  <2>3. DOMAIN rd_idx = Lidars /\ DOMAIN wr_idx = Lidars
    BY DEF Init
  <2> QED
    BY <1>1, <1>3, <1>4, <1>5, <2>1, <2>2, <2>3 DEF WakeupType
<1>7. PointsInv /\ SamplesInv
  BY <1>2 DEF PointsInv, SamplesInv, Streams
<1> QED
  BY <1>6, <1>7 DEF WakeupInv

-----------------------------------------------------------------------------
(* The writers.  A writer leaves data behind only with its signal given.   *)

\* After Signal somebody is called.
LEMMA Signalled ==
  ASSUME WakeupType, NEW st \in Streams, Signal(st)
  PROVE  /\ count_' \in [Streams -> Nat]
         /\ count_'[st] > 0
         /\ \A other \in Streams : count_'[other] >= count_[other]
  BY DEF WakeupType, Signal

LEMMA FramesType ==
  ASSUME NEW S \in SUBSET Lidars, NEW parts \in FramesOf(S)
  PROVE  parts \in Seq(Lidars) /\ parts # <<>>
<1>1. PICK n \in 1..lidar_count_ : parts \in [1..n -> S]
  BY DEF FramesOf
<1>2. n \in Nat /\ n > 0
  BY LddcAssumption
<1>3. parts \in Seq(S) /\ Len(parts) = n
  BY <1>1, <1>2
<1> QED
  BY <1>2, <1>3

\* Offering adds the lidar to what its own stream offered, if it is Sampling.
LEMMA Offered ==
  ASSUME WakeupType, NEW st \in Streams, NEW l \in Lidars, Offer(st, l)
  PROVE  /\ offered' \in [Streams -> SUBSET Lidars]
         /\ offered'[st] \subseteq offered[st] \cup {l}
         /\ \A other \in Streams \ {st} : offered'[other] = offered[other]
         /\ \A k \in offered'[st] : connect_state[k] = "Sampling"
  BY DEF WakeupType, Offer

\* A frame comes in, or a part of it is skipped; no queue and no offer changes.
LEMMA WakeupFrame ==
  ASSUME WakeupInv,
         (\E S \in SUBSET present : \E parts \in FramesOf(S) : StoragePointData(parts)) \/ Unindexed
  PROVE  WakeupInv'
<1> USE DEF WakeupInv, WakeupType, Process, polls, ring, exit, fixed
<1>1. CASE Unindexed
  <2>1. upc = "push" /\ frame' = Tail(frame) /\ upc' = IF Tail(frame) = <<>> THEN "idle" ELSE "push"
    BY <1>1 DEF Unindexed, NextPart
  <2>2. frame' \in Seq(Lidars) /\ upc' \in {"idle", "push"} /\ (upc' # "idle" => frame' # <<>>)
    BY <2>1
  <2>3. UNCHANGED <<count_, offered, connect_state, imu_data, ipc, polls, ring, request_exit_, present>>
    BY <1>1 DEF Unindexed
  <2> QED
    BY <2>1, <2>2, <2>3 DEF PointsInv, SamplesInv, Coming, QueueIsEmpty
<1>2. CASE \E S \in SUBSET present : \E parts \in FramesOf(S) : StoragePointData(parts)
  <2>0. PICK S \in SUBSET present : \E parts \in FramesOf(S) : StoragePointData(parts)
    BY <1>2
  <2>1. PICK parts \in FramesOf(S) : StoragePointData(parts)
    BY <2>0
  <2>2. parts \in Seq(Lidars) /\ parts # <<>>
    BY FramesType
  <2>3. UNCHANGED <<count_, offered, connect_state, imu_data, ipc, polls, ring, request_exit_, present>>
    BY <2>1 DEF StoragePointData
  <2>4. upc = "idle" /\ upc' = "push" /\ frame' = parts
    BY <2>1 DEF StoragePointData
  <2> QED
    BY <2>2, <2>3, <2>4 DEF PointsInv, SamplesInv, Coming, QueueIsEmpty
<1> QED
  BY <1>1, <1>2

\* The process thread stores a part and signals.
LEMMA WakeupPush ==
  ASSUME WakeupInv, PushLidarData
  PROVE  WakeupInv'
<1> DEFINE l == Head(frame)
<1> USE DEF Process, polls, ring, exit, fixed
<1>1. l \in Lidars /\ Tail(frame) \in Seq(Lidars)
  BY DEF PushLidarData, PushFull, PushSlot, PushIndex, PushSignal, WakeupInv, WakeupType
<1>2. UNCHANGED <<connect_state, imu_data, ipc, tpc, lidar_id, request_exit_, present, rd_idx>>
  BY DEF PushLidarData, PushFull, PushSlot, PushIndex, PushSignal
<1> HIDE DEF l
<1>3. CASE PushSlot \/ PushIndex
  <2>1. UNCHANGED <<count_, offered, frame>>
    BY <1>3 DEF PushSlot, PushIndex
  <2>2. WakeupType'
    BY <1>2, <1>3, <2>1 DEF PushSlot, PushIndex, WakeupInv, WakeupType
  <2>3. ASSUME PushSlot, NEW k \in offered["pcd"]
        PROVE  QueueIsEmpty(k)' \/ Coming("pcd", k)'
    <3>1. UNCHANGED wr_idx /\ upc = "push"
      BY <2>3 DEF PushSlot
    <3> QED
      BY <1>2, <2>1, <2>3, <3>1 DEF WakeupInv, PointsInv, Coming, QueueIsEmpty
  <2>4. ASSUME PushIndex, NEW k \in offered["pcd"]
        PROVE  QueueIsEmpty(k)' \/ Coming("pcd", k)' \/ (upc' = "signal" /\ Head(frame') = k)
    <3>1. upc = "index" /\ upc' = "signal" /\ frame' = frame
      BY <2>4, <2>1 DEF PushIndex
    <3>2. CASE Head(frame) = k
      BY <3>1, <3>2
    <3>3. CASE Head(frame) # k
      <4>1. k \in Lidars
        BY DEF WakeupInv, WakeupType, Streams
      <4>2. wr_idx'[k] = wr_idx[k]
        BY <2>4, <3>3, <4>1 DEF PushIndex, WakeupInv, WakeupType
      <4> QED
        BY <1>2, <2>1, <3>1, <4>2 DEF WakeupInv, PointsInv, Coming, QueueIsEmpty
    <3> QED
      BY <3>2, <3>3
  <2>6. PointsInv'
    BY <1>3, <2>1, <2>3, <2>4 DEF PointsInv
  <2>5. SamplesInv'
    BY <1>2, <2>1 DEF WakeupInv, SamplesInv, Coming
  <2> QED
    BY <2>2, <2>5, <2>6 DEF WakeupInv
<1>4. CASE PushFull \/ PushSignal
  <2>1. Offer("pcd", l) /\ UNCHANGED <<wr_idx, rd_idx>>
    BY <1>4 DEF PushFull, PushSignal, l
  <2>2. (QueueIsEmpty(l) /\ UNCHANGED count_) \/ Signal("pcd")
    BY <1>4 DEF PushFull, PushSignal, l
  <2>3. /\ count_' \in [Streams -> Nat]
        /\ \A other \in Streams : count_'[other] >= count_[other]
        /\ QueueIsEmpty(l) \/ count_'["pcd"] > 0
    BY <2>2, Signalled DEF WakeupInv, WakeupType, Streams
  <2>4. /\ offered' \in [Streams -> SUBSET Lidars]
        /\ offered'["pcd"] \subseteq offered["pcd"] \cup {l}
        /\ offered'["imu"] = offered["imu"]
        /\ \A k \in offered'["pcd"] : connect_state[k] = "Sampling"
    BY <1>1, <2>1, Offered DEF WakeupInv, Streams
  <2>5. /\ frame' = Tail(frame)
        /\ upc' \in {"idle", "push"} /\ (upc' # "idle" => frame' # <<>>)
    BY <1>4 DEF PushFull, PushSignal, NextPart
  <2>6. WakeupType'
    BY <1>1, <1>2, <2>1, <2>3, <2>4, <2>5 DEF WakeupInv, WakeupType, Streams
  <2>7. PointsInv'
    BY <1>1, <1>2, <1>4, <2>1, <2>3, <2>4
       DEF WakeupInv, WakeupType, PointsInv, Coming, QueueIsEmpty, PushFull, PushSignal, Streams, l
  <2>8. SamplesInv'
    BY <1>2, <2>3, <2>4 DEF WakeupInv, WakeupType, SamplesInv, Coming, Streams
  <2> QED
    BY <2>6, <2>7, <2>8 DEF WakeupInv
<1> QED
  BY <1>3, <1>4 DEF PushLidarData

\* The thread of the SDK stores a sample, then signals.
LEMMA WakeupSdk ==
  ASSUME WakeupInv, (\E k \in present : StorageImuData(k)) \/ ImuSignal
  PROVE  WakeupInv'
<1> USE DEF Sdk, polls, ring, exit, fixed
<1>1. CASE \E k \in present : StorageImuData(k)
  <2>1. PICK k \in present : StorageImuData(k)
    BY <1>1
  <2>2. k \in Lidars /\ imu_data' = [imu_data EXCEPT ![k] = 1] /\ ipc = NoLidar /\ ipc' = k
    BY <2>1 DEF StorageImuData, WakeupInv, WakeupType
  <2>3. UNCHANGED <<connect_state, count_, tpc, lidar_id, request_exit_, present, offered,
                    upc, frame, rd_idx, wr_idx>>
    BY <2>1 DEF StorageImuData
  <2>4. WakeupType'
    BY <2>2, <2>3 DEF WakeupInv, WakeupType
  <2>5. PointsInv'
    BY <2>3 DEF WakeupInv, PointsInv, Coming, QueueIsEmpty
  <2>6. SamplesInv'
    BY <2>2, <2>3, LidarsFrom0 DEF WakeupInv, WakeupType, SamplesInv, Coming, Streams
  <2> QED
    BY <2>4, <2>5, <2>6 DEF WakeupInv
<1>2. CASE ImuSignal
  <2>1. ipc \in Lidars /\ Offer("imu", ipc) /\ ipc' = NoLidar
    BY <1>2 DEF ImuSignal, WakeupInv, WakeupType
  <2>2. (imu_data[ipc] = 0 /\ UNCHANGED count_) \/ Signal("imu")
    BY <1>2 DEF ImuSignal
  <2>3. /\ count_' \in [Streams -> Nat]
        /\ \A other \in Streams : count_'[other] >= count_[other]
        /\ imu_data[ipc] = 0 \/ count_'["imu"] > 0
    BY <2>2, Signalled DEF WakeupInv, WakeupType, Streams
  <2>4. /\ offered' \in [Streams -> SUBSET Lidars]
        /\ offered'["imu"] \subseteq offered["imu"] \cup {ipc}
        /\ offered'["pcd"] = offered["pcd"]
        /\ \A k \in offered'["imu"] : connect_state[k] = "Sampling"
    BY <2>1, Offered DEF WakeupInv, Streams
  <2>5. UNCHANGED <<connect_state, imu_data, tpc, lidar_id, request_exit_, present,
                    upc, frame, rd_idx, wr_idx>>
    BY <1>2 DEF ImuSignal
  <2>6. WakeupType'
    BY <2>1, <2>3, <2>4, <2>5 DEF WakeupInv, WakeupType, Streams
  <2>7. PointsInv'
    BY <2>3, <2>4, <2>5 DEF WakeupInv, WakeupType, PointsInv, Coming, QueueIsEmpty, Streams
  <2>8. SamplesInv'
    BY <2>1, <2>3, <2>4, <2>5 DEF WakeupInv, WakeupType, SamplesInv, Coming, Streams
  <2> QED
    BY <2>6, <2>7, <2>8 DEF WakeupInv
<1> QED
  BY <1>1, <1>2

-----------------------------------------------------------------------------
(* The poll threads.  A thread passes a lidar only when its queue is empty *)
(* or it will not sleep again.                                             *)

\* What a step of the thread of a stream leaves alone.
LEMMA OnlyPolls ==
  ASSUME NEW st \in Streams, PollThread(st)
  PROVE  UNCHANGED <<present, connect_state, storage_packet, wr_idx, request_exit_, ipc, upc,
                     frame, offered>>
  BY DEF PollThread, Poll, Begin, Wait, Scan, PollingDone, Status, PollingImu, PollingPoints,
         QueuePrePop, QueuePopUpdate, QueueDrained, Quiet, fixed, exit, writers

LEMMA PollType ==
  ASSUME WakeupType, NEW st \in Streams, PollThread(st)
  PROVE  WakeupType'
<1> USE DEF WakeupType, Poll, Goto, Quiet, Streams
<1>0. UNCHANGED <<present, connect_state, request_exit_, ipc, upc, frame, offered>>
  BY OnlyPolls
<1>1. count_' \in [Streams -> Nat]
  BY DEF PollThread, Begin, Wait, Scan, PollingDone, Status, PollingImu, PollingPoints,
         QueuePrePop, QueuePopUpdate, QueueDrained
<1>2. tpc' \in [Streams -> {"begin", "wait", "scan", "poll", "pop", "update", "status", "gone"}]
  BY DEF PollThread, Begin, Wait, Scan, PollingDone, Status, PollingImu, PollingPoints,
         QueuePrePop, QueuePopUpdate, QueueDrained, NextLidar
<1>3. lidar_id' \in [Streams -> Lidars]
  BY LidarsFrom0
     DEF PollThread, Begin, Wait, Scan, PollingDone, Status, PollingImu, PollingPoints,
         QueuePrePop, QueuePopUpdate, QueueDrained, NextLidar
<1>4. imu_data' \in [Lidars -> 0..1]
  BY DEF PollThread, Begin, Wait, Scan, PollingDone, Status, PollingImu, PollingPoints,
         QueuePrePop, QueuePopUpdate, QueueDrained, Empty
<1>5. DOMAIN rd_idx' = Lidars /\ DOMAIN wr_idx' = Lidars
  <2>1. UNCHANGED wr_idx
    BY OnlyPolls
  <2>2. DOMAIN rd_idx' = Lidars
    BY DEF PollThread, Begin, Wait, Scan, PollingDone, Status, PollingImu, PollingPoints,
           QueuePrePop, QueuePopUpdate, QueueDrained
  <2> QED
    BY <2>1, <2>2
<1> QED
  BY <1>0, <1>1, <1>2, <1>3, <1>4, <1>5

\* Coming survives for every lidar but one the thread passes.
LEMMA StillComing ==
  ASSUME WakeupType, NEW st \in Streams, PollThread(st),
         NEW l \in Lidars, connect_state[l] = "Sampling", Coming(st, l)
  PROVE  Coming(st, l)' \/ (lidar_id[st] = l /\ tpc[st] = "poll" /\ Empty(st) /\ Quiet)
<1> USE LidarsFrom0 DEF WakeupType, Poll, Goto, Quiet, Coming
<1>0. UNCHANGED request_exit_
  BY OnlyPolls
<1>1. CASE Begin(st)
  BY <1>0, <1>1 DEF Begin
<1>2. CASE Wait(st)
  BY <1>0, <1>2 DEF Wait
<1>3. CASE Scan(st)
  BY <1>0, <1>3 DEF Scan, NextLidar
<1>4. CASE PollingDone(st)
  BY <1>0, <1>4 DEF PollingDone, NextLidar
<1>5. CASE Status(st)
  BY <1>0, <1>5 DEF Status
<1>6. CASE st = "imu" /\ PollingImu
  BY <1>0, <1>6 DEF PollingImu
<1>7. CASE st = "pcd" /\ (PollingPoints \/ QueuePrePop \/ QueuePopUpdate \/ QueueDrained)
  BY <1>0, <1>7 DEF PollingPoints, QueuePrePop, QueuePopUpdate, QueueDrained
<1> QED
  BY <1>1, <1>2, <1>3, <1>4, <1>5, <1>6, <1>7 DEF PollThread

\* The other stream is not touched.
LEMMA OtherStream ==
  ASSUME WakeupType, NEW st \in Streams, PollThread(st), NEW other \in Streams \ {st}
  PROVE  /\ \A l \in Lidars : Coming(other, l) => Coming(other, l)'
         /\ other = "pcd" => UNCHANGED rd_idx
         /\ other = "imu" => UNCHANGED imu_data
<1> USE DEF WakeupType, Poll, Goto, Quiet, Streams
<1>1. count_'[other] = count_[other]
  BY DEF PollThread, Begin, Wait, Scan, PollingDone, Status, PollingImu, PollingPoints,
         QueuePrePop, QueuePopUpdate, QueueDrained
<1>2. tpc'[other] = tpc[other] /\ lidar_id'[other] = lidar_id[other]
  BY DEF PollThread, Begin, Wait, Scan, PollingDone, Status, PollingImu, PollingPoints,
         QueuePrePop, QueuePopUpdate, QueueDrained, NextLidar
<1>3. UNCHANGED request_exit_
  BY OnlyPolls
<1>4. (other = "pcd" => UNCHANGED rd_idx) /\ (other = "imu" => UNCHANGED imu_data)
  BY DEF PollThread, Begin, Wait, Scan, PollingDone, Status, PollingImu, PollingPoints,
         QueuePrePop, QueuePopUpdate, QueueDrained
<1> QED
  BY <1>1, <1>2, <1>3, <1>4 DEF Coming

LEMMA WakeupPoll ==
  ASSUME WakeupInv, NEW st \in Streams, PollThread(st)
  PROVE  WakeupInv'
<1>0. WakeupType' /\ UNCHANGED <<connect_state, wr_idx, ipc, upc, frame, offered>>
  BY PollType, OnlyPolls DEF WakeupInv
<1>1. PointsInv'
  <2> SUFFICES ASSUME NEW l \in offered["pcd"], ~(upc = "signal" /\ Head(frame) = l)
               PROVE  QueueIsEmpty(l)' \/ Coming("pcd", l)'
    BY <1>0 DEF PointsInv
  <2>1. l \in Lidars /\ connect_state[l] = "Sampling"
    BY DEF WakeupInv, WakeupType, Streams
  <2>2. QueueIsEmpty(l) \/ Coming("pcd", l)
    BY DEF WakeupInv, PointsInv
  <2>3. CASE st = "imu"
    BY <1>0, <2>1, <2>2, <2>3, OtherStream DEF WakeupInv, Streams, QueueIsEmpty
  <2>4. CASE st = "pcd" /\ Coming("pcd", l)
    BY <1>0, <2>1, <2>4, StillComing DEF WakeupInv, Empty, QueueIsEmpty, Quiet
  <2>5. CASE st = "pcd" /\ QueueIsEmpty(l) /\ QueuePopUpdate
    BY <2>1, <2>5 DEF QueuePopUpdate, Poll, Goto, PublishPointcloud2, Coming, QueueIsEmpty, WakeupInv, WakeupType
  <2>6. CASE st = "pcd" /\ QueueIsEmpty(l) /\ ~QueuePopUpdate
    <3>1. UNCHANGED rd_idx
      BY <2>6 DEF PollThread, Begin, Wait, Scan, PollingDone, Status, PollingPoints, QueuePrePop,
                  QueueDrained, Quiet
    <3> QED
      BY <1>0, <2>6, <3>1 DEF QueueIsEmpty
  <2> QED
    BY <2>2, <2>3, <2>4, <2>5, <2>6 DEF Streams
<1>2. SamplesInv'
  <2> SUFFICES ASSUME NEW l \in offered["imu"], ipc # l
               PROVE  imu_data'[l] = 0 \/ Coming("imu", l)'
    BY <1>0 DEF SamplesInv
  <2>1. l \in Lidars /\ connect_state[l] = "Sampling"
    BY DEF WakeupInv, WakeupType, Streams
  <2>2. imu_data[l] = 0 \/ Coming("imu", l)
    BY DEF WakeupInv, SamplesInv
  <2>3. CASE st = "pcd"
    BY <2>1, <2>2, <2>3, OtherStream DEF WakeupInv, Streams
  <2>4. CASE st = "imu" /\ Coming("imu", l)
    BY <2>1, <2>4, StillComing DEF WakeupInv, Empty, Quiet
  <2>5. CASE st = "imu" /\ imu_data[l] = 0 /\ PollingImu
    BY <2>1, <2>5 DEF PollingImu, Poll, Empty, WakeupInv, WakeupType
  <2>6. CASE st = "imu" /\ imu_data[l] = 0 /\ ~PollingImu
    <3>1. UNCHANGED imu_data
      BY <2>6 DEF PollThread, Begin, Wait, Scan, PollingDone, Status, Quiet
    <3> QED
      BY <2>6, <3>1
  <2> QED
    BY <2>2, <2>3, <2>4, <2>5, <2>6 DEF Streams
<1> QED
  BY <1>0, <1>1, <1>2 DEF WakeupInv

LEMMA WakeupStep == WakeupInv /\ [Next]_vars => WakeupInv'
<1> SUFFICES ASSUME WakeupInv, [Next]_vars PROVE WakeupInv'
  OBVIOUS
<1>1. CASE UNCHANGED vars
  BY <1>1 DEF WakeupInv, WakeupType, PointsInv, SamplesInv, Coming, QueueIsEmpty, vars, fixed,
              ring, exit, writers, polls
<1>2. CASE \E l \in present : Connect(l)
  BY <1>2 DEF Connect, WakeupInv, WakeupType, PointsInv, SamplesInv, Coming, QueueIsEmpty,
              fixed, ring, exit, writers, polls
<1>3. CASE RequestExit \/ SetExitSignal \/ Join
  BY <1>3 DEF RequestExit, SetExitSignal, Join, Destructor, WakeupInv, WakeupType, PointsInv,
              SamplesInv, Coming, QueueIsEmpty, fixed, ring, writers, polls
<1> QED
  BY <1>1, <1>2, <1>3, WakeupFrame, WakeupPush, WakeupSdk, WakeupPoll DEF Next

\* A poll thread never sleeps over what a Sampling lidar offered, for any number of
\* lidars and any size of the queues, also while lidars connect and the node stops.
THEOREM NoWakeupLost == Spec => []NoLostWakeup
<1>1. WakeupInv => NoLostWakeup
  <2> SUFFICES ASSUME WakeupInv PROVE NoLostWakeup
    OBVIOUS
  <2>1. ASSUME tpc["pcd"] = "wait", count_["pcd"] = 0, upc = "idle", NEW l \in offered["pcd"]
        PROVE  QueueIsEmpty(l)
    BY <2>1 DEF WakeupInv, PointsInv, Coming
  <2>2. ASSUME tpc["imu"] = "wait", count_["imu"] = 0, ipc = NoLidar, NEW l \in offered["imu"]
        PROVE  imu_data[l] = 0
    <3>1. l \in Lidars
      BY DEF WakeupInv, WakeupType, Streams
    <3> QED
      BY <2>2, <3>1, LidarsFrom0 DEF WakeupInv, SamplesInv, Coming
  <2> QED
    BY <2>1, <2>2 DEF NoLostWakeup
<1> QED
  BY <1>1, WakeupInit, WakeupStep, PTL DEF Spec

-----------------------------------------------------------------------------
(* Remainders *)

\* a is m times its quotient and the remainder, in one way.
LEMMA ModIs ==
  ASSUME NEW m \in Nat \ {0}, NEW a \in Nat, NEW k \in Int, NEW r \in 0..(m - 1), a = m * k + r
  PROVE  a % m = r
<1>1. PICK j, s : j = a \div m /\ s = a % m
  OBVIOUS
<1>2. j \in Int /\ s \in 0..(m - 1) /\ a = m * j + s
  BY <1>1
<1>3. \A x, y \in Int : x < y => m * x + m <= m * y
  OBVIOUS
<1>4. ~(j < k) /\ ~(k < j)
  <2>1. m * j \in Int /\ m * k \in Int
    BY <1>2
  <2>2. QED
    BY <1>2, <1>3, <2>1
<1>5. QED
  BY <1>1, <1>2, <1>4

LEMMA ModParts ==
  ASSUME NEW m \in Nat \ {0}, NEW a \in Nat
  PROVE  \E k \in Nat : a = m * k + (a % m) /\ a % m \in 0..(m - 1) /\ m * k \in Nat
<1>1. PICK r \in 0..(m - 1) : r = a % m
  OBVIOUS
<1>2. PICK k \in Int : a = m * k + r
  <2>1. a \div m \in Int /\ a = m * (a \div m) + (a % m)
    OBVIOUS
  <2>2. QED
    BY <1>1, <2>1
<1>3. k \in Nat
  <2>1. ASSUME k < 0 PROVE FALSE
    <3>1. \A x, y \in Int : x < y => m * x + m <= m * y
      OBVIOUS
    <3>2. m * k + m <= m * 0 /\ m * k \in Int /\ m * 0 = 0
      BY <2>1, <3>1
    <3>3. QED
      BY <1>1, <1>2, <3>2
  <2>2. QED
    BY <2>1
<1>4. m * k \in Nat
  <2>1. \A x \in Nat : m * x \in Nat
    OBVIOUS
  <2>2. QED
    BY <1>3, <2>1
<1>5. QED
  BY <1>1, <1>2, <1>3, <1>4

LEMMA ModNext ==
  ASSUME NEW m \in Nat \ {0}, NEW a \in Nat
  PROVE  ((a % m) + 1) % m = (a + 1) % m
<1>1. PICK k \in Nat : a = m * k + (a % m) /\ a % m \in 0..(m - 1) /\ m * k \in Nat
  BY ModParts
<1>2. PICK r \in 0..(m - 1) : r = a % m
  BY <1>1
<1>3. CASE r + 1 < m
  <2>0. PICK t \in 0..(m - 1), n \in Nat : t = r + 1 /\ n = a + 1
    BY <1>3
  <2>1. n = m * k + t /\ t = m * 0 + t
    BY <1>1, <1>2, <2>0
  <2>2. n % m = t
    BY <2>1, ModIs
  <2>3. t % m = t
    BY <2>1, ModIs
  <2>4. QED
    BY <1>2, <2>0, <2>2, <2>3
<1>4. CASE r + 1 = m
  <2>1. 0 \in 0..(m - 1) /\ m * (k + 1) = m * k + m /\ m = m * 1 + 0
    OBVIOUS
  <2>0. PICK n \in Nat, next \in Nat : n = a + 1 /\ next = k + 1
    OBVIOUS
  <2>2. n = m * next + 0
    BY <1>1, <1>2, <1>4, <2>0, <2>1
  <2>3. n % m = 0
    BY <2>1, <2>2, ModIs
  <2>4. m % m = 0
    BY <2>1, ModIs
  <2>5. QED
    BY <1>2, <1>4, <2>0, <2>3, <2>4
<1>5. QED
  BY <1>2, <1>3, <1>4

\* The difference of two indexes is the difference of what they count.
LEMMA ModApart ==
  ASSUME NEW m \in Nat \ {0}, NEW a \in Nat, NEW b \in Nat, a <= b, b - a < m
  PROVE  ((b % m) - (a % m)) % m = b - a
<1>1. PICK j \in Nat : a = m * j + (a % m) /\ a % m \in 0..(m - 1) /\ m * j \in Nat
  BY ModParts
<1>2. PICK k \in Nat : b = m * k + (b % m) /\ b % m \in 0..(m - 1) /\ m * k \in Nat
  BY ModParts
<1>3. PICK r \in 0..(m - 1), s \in 0..(m - 1) : r = a % m /\ s = b % m
  BY <1>1, <1>2
<1>4. s - r = (b - a) + (m * j - m * k)
  BY <1>1, <1>2, <1>3
<1>5. CASE s >= r
  <2>1. s - r \in 0..(m - 1) /\ s - r = m * 0 + (s - r)
    BY <1>5
  <2>2. (s - r) % m = s - r
    BY <2>1, ModIs
  <2>3. m * k + s = m * j + (r + (b - a)) /\ j = k
    <3>1. \A x, y \in Int : x < y => m * x + m <= m * y
      OBVIOUS
    <3>2. ~(j < k) /\ ~(k < j)
      BY <1>1, <1>2, <1>3, <1>4, <1>5, <3>1
    <3>3. QED
      BY <1>1, <1>2, <1>3, <3>2
  <2>4. QED
    BY <1>1, <1>2, <1>3, <1>4, <2>2, <2>3
<1>6. CASE s < r
  <2>1. k = j + 1
    <3>1. \A x, y \in Int : x < y => m * x + m <= m * y
      OBVIOUS
    <3>2. ~(k < j + 1) /\ ~(j + 1 < k)
      <4>1. m * (j + 1) = m * j + m
        OBVIOUS
      <4>2. k <= j => m * k <= m * j
        BY <3>1
      <4>3. j + 1 < k => m * (j + 1) + m <= m * k
        BY <3>1
      <4>4. QED
        BY <1>1, <1>2, <1>3, <1>4, <1>6, <4>1, <4>2, <4>3
    <3>3. QED
      BY <3>2
  <2>2. m * k = m * j + m
    BY <2>1
  <2>3. b - a = (s - r) + m
    BY <1>1, <1>2, <1>4, <2>2
  <2>4. (s - r) % m = b - a
    BY <1>6, <2>3
  <2>5. QED
    BY <1>3, <2>4
<1>7. QED
  BY <1>3, <1>5, <1>6

LEMMA ModOfMod ==
  ASSUME NEW q \in Nat \ {0}, NEW c \in Nat \ {0}, NEW m, m = c * q, NEW a \in Nat
  PROVE  (a % m) % q = a % q
<1>1. m \in Nat \ {0}
  OBVIOUS
<1>2. PICK k \in Nat : a = m * k + (a % m) /\ a % m \in 0..(m - 1)
  BY <1>1, ModParts
<1>3. PICK r \in Nat : r = a % m
  <2>1. \A n \in 0..(m - 1) : n \in Nat
    OBVIOUS
  <2>2. QED
    BY <1>2, <2>1
<1>4. PICK j \in Nat : r = q * j + (r % q) /\ r % q \in 0..(q - 1) /\ q * j \in Nat
  BY ModParts
<1>5. m * k = q * (c * k) /\ c * k \in Nat
  OBVIOUS
<1>6. q * (c * k) + q * j = q * (c * k + j) /\ c * k + j \in Nat
  BY <1>5
<1>7. a = q * (c * k + j) + (r % q)
  BY <1>2, <1>3, <1>4, <1>5, <1>6
<1>8. a % q = r % q
  <2>1. PICK n \in Nat, t \in 0..(q - 1) : n = c * k + j /\ t = r % q
    BY <1>4, <1>6
  <2>2. a = q * n + t
    BY <1>7, <2>1
  <2>3. a % q = t
    BY <2>2, ModIs
  <2>4. QED
    BY <2>1, <2>3
<1>9. QED
  BY <1>3, <1>8

\* Fewer than q apart, two numbers have different remainders.
LEMMA ModDiffer ==
  ASSUME NEW q \in Nat \ {0}, NEW a \in Nat, NEW b \in Nat, a < b, b - a < q
  PROVE  a % q # b % q
<1>1. PICK j \in Nat : a = q * j + (a % q) /\ a % q \in 0..(q - 1) /\ q * j \in Nat
  BY ModParts
<1>2. PICK k \in Nat : b = q * k + (b % q) /\ b % q \in 0..(q - 1) /\ q * k \in Nat
  BY ModParts
<1>3. ASSUME a % q = b % q PROVE FALSE
  <2>1. b - a = q * k - q * j
    BY <1>1, <1>2, <1>3
  <2>2. \A x, y \in Int : x < y => q * x + q <= q * y
    OBVIOUS
  <2>3. j < k => q * j + q <= q * k
    BY <2>2
  <2>4. k <= j => q * k <= q * j
    BY <2>2
  <2>5. QED
    BY <1>1, <1>2, <2>1, <2>3, <2>4
<1>4. QED
  BY <1>3

-----------------------------------------------------------------------------
(* The ring queue, when frames are numbered *)

\* Stored and not indexed yet.
Open(l) == IF upc = "index" /\ Head(frame) = l THEN 1 ELSE 0

\* Frames 1 to Out(l) of the lidar have left its queue, 1 to Given(l) have entered it.
Out(l) == Len(published[l])
Given(l) == stored[l] - Open(l)

RingType ==
  /\ storage_packet \in [Lidars -> [0..(queue_size - 1) -> Nat]]
  /\ rd_idx \in [Lidars -> 0..(Modulus - 1)] /\ wr_idx \in [Lidars -> 0..(Modulus - 1)]
  /\ stored \in [Lidars -> Nat]
  /\ published \in [Lidars -> Seq(Nat)]
  /\ pkg \in Nat

\* The indexes count what went through the queue, and the slots between them hold it.
RingInv(l) ==
  /\ \A i \in 1..Out(l) : published[l][i] = i
  /\ Out(l) <= Given(l) /\ stored[l] - Out(l) <= queue_size
  /\ rd_idx[l] = (Out(l) % Modulus) /\ wr_idx[l] = (Given(l) % Modulus)
  /\ \A n \in (Out(l) + 1)..stored[l] : storage_packet[l][Slot(n - 1)] = n

\* The reader holds the next frame of its lidar while it updates the index.
PopInv ==
  LET l == lidar_id["pcd"]
  IN  IF tpc["pcd"] = "update" THEN pkg = Out(l) + 1 /\ pkg <= Given(l) ELSE pkg = NoFrame

OrderInv == numbered => RingType /\ (\A l \in Lidars : RingInv(l)) /\ PopInv

LEMMA RingSizes ==
  /\ queue_size \in Nat \ {0} /\ Modulus \in Nat \ {0}
  /\ queue_size < Modulus
  /\ \E laps \in Nat \ {0} : Modulus = laps * queue_size
<1>1. PICK laps \in 2..Modulus : Modulus = laps * queue_size
  BY LddcAssumption
<1>2. queue_size \in Nat \ {0} /\ IndexBits \in Nat
  BY LddcAssumption
<1>3. Modulus \in Nat
  BY <1>2 DEF Modulus
<1>4. laps \in Nat /\ laps >= 2 /\ 2 <= Modulus
  BY <1>1, <1>3
<1>5. \A n, q \in Nat : n >= 2 /\ q > 0 => q < n * q
  OBVIOUS
<1>6. QED
  BY <1>1, <1>2, <1>3, <1>4, <1>5

\* The slot of an index is the slot of what it counts.
LEMMA SlotOf ==
  ASSUME NEW n \in Nat
  PROVE  Slot(n % Modulus) = (n % queue_size)
<1>1. PICK laps \in Nat \ {0} : Modulus = laps * queue_size
  BY RingSizes
<1>2. PICK m : m = Modulus
  OBVIOUS
<1>3. PICK q \in Nat \ {0} : q = queue_size
  BY RingSizes
<1>4. m = laps * q
  BY <1>1, <1>2, <1>3
<1>5. (n % m) % q = (n % q)
  BY <1>4, ModOfMod
<1>6. QED
  BY <1>2, <1>3, <1>5 DEF Slot

\* What waits, as the indexes tell it.
LEMMA WaitingIs ==
  ASSUME NEW a \in Nat, NEW b \in Nat, a <= b, b - a <= queue_size
  PROVE  ((b % Modulus) - (a % Modulus)) % Modulus = b - a
<1>1. PICK m \in Nat \ {0} : m = Modulus
  BY RingSizes
<1>2. b - a < m
  BY <1>1, RingSizes
<1>3. ((b % m) - (a % m)) % m = b - a
  BY <1>2, ModApart
<1>4. QED
  BY <1>1, <1>3

\* The next index.
LEMMA NextIndex ==
  ASSUME NEW n \in Nat
  PROVE  /\ ((n % Modulus) + 1) % Modulus = ((n + 1) % Modulus)
         /\ (n % Modulus) \in 0..(Modulus - 1)
<1>1. PICK m \in Nat \ {0} : m = Modulus
  BY RingSizes
<1>2. ((n % m) + 1) % m = (n + 1) % m
  BY ModNext
<1>3. (n % m) \in 0..(m - 1)
  OBVIOUS
<1>4. QED
  BY <1>1, <1>2, <1>3

LEMMA OrderInit == Init => OrderInv
<1> SUFFICES ASSUME Init, numbered PROVE RingType /\ (\A l \in Lidars : RingInv(l)) /\ PopInv
  BY DEF OrderInv
<1>1. 0 \in 0..(Modulus - 1) /\ 0 \in 0..(queue_size - 1)
  BY RingSizes
<1>2. RingType
  BY <1>1 DEF Init, RingType, NoFrame
<1>3. ASSUME NEW l \in Lidars PROVE RingInv(l)
  <2>1. stored[l] = 0 /\ published[l] = <<>> /\ rd_idx[l] = 0 /\ wr_idx[l] = 0 /\ upc = "idle"
    BY DEF Init
  <2>2. Out(l) = 0 /\ Given(l) = 0
    BY <2>1 DEF Out, Given, Open
  <2>3. 0 % Modulus = 0
    <3>1. PICK m \in Nat \ {0} : m = Modulus
      BY RingSizes
    <3>2. 0 % m = 0
      OBVIOUS
    <3>3. QED
      BY <3>1, <3>2
  <2>4. QED
    BY <2>1, <2>2, <2>3, RingSizes DEF RingInv
<1>4. PopInv
  BY DEF Init, PopInv, Streams
<1>5. QED
  BY <1>2, <1>3, <1>4

-----------------------------------------------------------------------------
(* The steps of the two threads *)

\* Steps that move no frame.
LEMMA OrderStill ==
  ASSUME WakeupType, OrderInv,
         UNCHANGED <<numbered, storage_packet, rd_idx, wr_idx, stored, published, pkg>>,
         (upc # "index" /\ upc' # "index") \/ UNCHANGED <<upc, frame>>,
         tpc["pcd"] = "update" \/ tpc'["pcd"] = "update" =>
             tpc'["pcd"] = tpc["pcd"] /\ lidar_id'["pcd"] = lidar_id["pcd"]
  PROVE  OrderInv'
<1> SUFFICES ASSUME numbered
             PROVE  RingType' /\ (\A l \in Lidars : RingInv(l)') /\ PopInv'
  BY DEF OrderInv
<1>1. RingType /\ (\A l \in Lidars : RingInv(l)) /\ PopInv
  BY DEF OrderInv
<1>2. \A l : Open(l)' = Open(l)
  BY DEF Open
<1>3. \A l : Out(l)' = Out(l) /\ Given(l)' = Given(l)
  BY <1>2 DEF Out, Given
<1>4. RingType'
  BY <1>1 DEF RingType
<1>5. \A l \in Lidars : RingInv(l)'
  BY <1>1, <1>3 DEF RingInv
<1>6. PopInv'
  BY <1>1, <1>3 DEF PopInv
<1>7. QED
  BY <1>4, <1>5, <1>6

\* The frame fills a slot none of the frames that wait is in.
LEMMA OrderSlot ==
  ASSUME WakeupType, OrderInv, PushSlot
  PROVE  OrderInv'
<1> SUFFICES ASSUME numbered
             PROVE  RingType' /\ (\A l \in Lidars : RingInv(l)') /\ PopInv'
  BY DEF OrderInv, PushSlot, Process, fixed
<1>1. RingType /\ (\A l \in Lidars : RingInv(l)) /\ PopInv
  BY DEF OrderInv
<1>2. PICK h \in Lidars : h = Head(frame)
  BY DEF WakeupType, PushSlot, Process
<1>3. PICK next \in Nat : next = stored[h] + 1
  BY <1>1 DEF RingType
<1>4. PICK slot : slot = Slot(wr_idx[h])
  OBVIOUS
<1>5. /\ upc = "push" /\ upc' = "index" /\ ~QueueIsFull(h)
      /\ storage_packet' = [storage_packet EXCEPT ![h][slot] = next]
      /\ stored' = [stored EXCEPT ![h] = next]
      /\ UNCHANGED <<rd_idx, wr_idx, frame, published, tpc, lidar_id, pkg>>
  BY <1>2, <1>3, <1>4 DEF PushSlot, Process, polls
<1>6. PICK out \in Nat, given \in Nat : out = Out(h) /\ given = stored[h]
  BY <1>1 DEF RingType, Out
<1>7. Given(h) = given /\ next = given + 1
  BY <1>1, <1>3, <1>5, <1>6 DEF Given, Open, RingType
<1>8. /\ out <= given /\ given - out <= queue_size
      /\ rd_idx[h] = (out % Modulus) /\ wr_idx[h] = (given % Modulus)
  BY <1>1, <1>6, <1>7 DEF RingInv
<1>9. given - out <= queue_size - 1
  <2>1. ((given % Modulus) - (out % Modulus)) % Modulus = given - out
    BY <1>8, WaitingIs
  <2>2. ~(given - out > queue_size - 1)
    BY <1>5, <1>8, <2>1 DEF QueueIsFull
  <2>3. QED
    BY <2>2, RingSizes
<1>10. slot = given % queue_size /\ slot \in 0..(queue_size - 1)
  <2>1. slot = given % queue_size
    BY <1>4, <1>8, SlotOf
  <2>2. \A m \in Nat \ {0} : (given % m) \in 0..(m - 1)
    OBVIOUS
  <2>3. QED
    BY <2>1, <2>2, RingSizes
<1>11. RingType'
  <2>1. storage_packet' \in [Lidars -> [0..(queue_size - 1) -> Nat]]
    BY <1>1, <1>5, <1>10 DEF RingType
  <2>2. stored' \in [Lidars -> Nat]
    BY <1>1, <1>5 DEF RingType
  <2>3. QED
    BY <1>1, <1>5, <2>1, <2>2 DEF RingType
<1>12. \A l \in Lidars : Out(l)' = Out(l) /\ Given(l)' = Given(l)
  <2> SUFFICES ASSUME NEW l \in Lidars PROVE Out(l)' = Out(l) /\ Given(l)' = Given(l)
    OBVIOUS
  <2>1. Out(l)' = Out(l)
    BY <1>5 DEF Out
  <2>2. CASE l = h
    <3>1. stored'[h] = given + 1 /\ Head(frame') = h /\ upc' = "index"
      BY <1>1, <1>2, <1>5, <1>7 DEF RingType
    <3>2. Open(h)' = 1
      BY <3>1 DEF Open
    <3>3. Given(h)' = given
      BY <3>1, <3>2 DEF Given
    <3>4. QED
      BY <1>7, <2>1, <2>2, <3>3
  <2>3. CASE l # h
    <3>1. stored'[l] = stored[l] /\ Head(frame') = h
      BY <1>1, <1>2, <1>5, <2>3 DEF RingType
    <3>2. Open(l)' = 0 /\ Open(l) = 0
      BY <1>5, <2>3, <3>1 DEF Open
    <3>3. QED
      BY <2>1, <3>1, <3>2 DEF Given
  <2>4. QED
    BY <2>1, <2>2, <2>3
<1>13. ASSUME NEW l \in Lidars PROVE RingInv(l)'
  <2>1. CASE l = h
    <3>1. stored'[h] = next /\ \A i \in 0..(queue_size - 1) :
              storage_packet'[h][i] = IF i = slot THEN next ELSE storage_packet[h][i]
      BY <1>1, <1>5 DEF RingType
    <3>2. next - out <= queue_size
      BY <1>7, <1>9, RingSizes
    <3>3. ASSUME NEW n \in (out + 1)..next PROVE storage_packet'[h][Slot(n - 1)] = n
      <4>1. n - 1 \in Nat /\ Slot(n - 1) \in 0..(queue_size - 1)
        <5>1. n - 1 \in Nat
          OBVIOUS
        <5>2. \A m \in Nat \ {0} : ((n - 1) % m) \in 0..(m - 1)
          BY <5>1
        <5>3. QED
          BY <5>1, <5>2, RingSizes DEF Slot
      <4>2. CASE n = next
        BY <1>7, <1>10, <3>1, <4>1, <4>2 DEF Slot
      <4>3. CASE n # next
        <5>1. n \in (out + 1)..given /\ n - 1 < given /\ given - (n - 1) < queue_size
          BY <1>7, <1>9, <4>3, RingSizes
        <5>2. Slot(n - 1) # slot
          <6>1. PICK a \in Nat : a = n - 1
            BY <4>1
          <6>2. a % queue_size # given % queue_size
            BY <5>1, <6>1, ModDiffer, RingSizes
          <6>3. QED
            BY <1>10, <6>1, <6>2 DEF Slot
        <5>3. storage_packet[h][Slot(n - 1)] = n
          BY <1>1, <1>6, <5>1 DEF RingInv
        <5>4. QED
          BY <3>1, <4>1, <5>2, <5>3
      <4>4. QED
        BY <4>2, <4>3
    <3>4. QED
      BY <1>1, <1>5, <1>6, <1>12, <2>1, <3>1, <3>2, <3>3 DEF RingInv
  <2>2. CASE l # h
    <3>1. stored'[l] = stored[l] /\ storage_packet'[l] = storage_packet[l]
      BY <1>1, <1>5, <2>2 DEF RingType
    <3>2. QED
      BY <1>1, <1>5, <1>12, <3>1 DEF RingInv
  <2>3. QED
    BY <2>1, <2>2
<1>14. PopInv'
  <2>1. lidar_id["pcd"] \in Lidars
    BY DEF WakeupType, Streams
  <2>2. QED
    BY <1>1, <1>5, <1>12, <2>1 DEF PopInv
<1>15. QED
  BY <1>11, <1>13, <1>14

\* The index moves on: the frame has entered the queue.
LEMMA OrderIndex ==
  ASSUME WakeupType, OrderInv, PushIndex
  PROVE  OrderInv'
<1> SUFFICES ASSUME numbered
             PROVE  RingType' /\ (\A l \in Lidars : RingInv(l)') /\ PopInv'
  BY DEF OrderInv, PushIndex, Process, fixed
<1>1. RingType /\ (\A l \in Lidars : RingInv(l)) /\ PopInv
  BY DEF OrderInv
<1>2. PICK h \in Lidars : h = Head(frame)
  BY DEF WakeupType, PushIndex, Process
<1>3. /\ upc = "index" /\ upc' = "signal"
      /\ wr_idx' = [wr_idx EXCEPT ![h] = (@ + 1) % Modulus]
      /\ UNCHANGED <<storage_packet, rd_idx, stored, frame, published, tpc, lidar_id, pkg>>
  BY <1>2 DEF PushIndex, Process, polls
<1>4. PICK given \in Nat : given = Given(h)
  <2>1. Out(h) \in Nat /\ Given(h) \in Int /\ Out(h) <= Given(h)
    BY <1>1 DEF RingType, RingInv, Out, Given, Open
  <2>2. QED
    BY <2>1
<1>5. stored[h] = given + 1 /\ wr_idx[h] = (given % Modulus) /\ Given(h)' = given + 1
  BY <1>1, <1>2, <1>3, <1>4 DEF Given, Open, RingInv, RingType
<1>6. wr_idx'[h] = ((given + 1) % Modulus) /\ wr_idx'[h] \in 0..(Modulus - 1)
  <2>1. wr_idx'[h] = ((given % Modulus) + 1) % Modulus
    BY <1>1, <1>3, <1>5 DEF RingType
  <2>2. ((given % Modulus) + 1) % Modulus = ((given + 1) % Modulus)
    BY NextIndex
  <2>3. ((given + 1) % Modulus) \in 0..(Modulus - 1)
    BY NextIndex
  <2>4. QED
    BY <2>1, <2>2, <2>3
<1>7. RingType'
  BY <1>1, <1>3, <1>6 DEF RingType
<1>8. \A l \in Lidars : Out(l)' = Out(l) /\ Given(l)' >= Given(l)
  <2> SUFFICES ASSUME NEW l \in Lidars PROVE Out(l)' = Out(l) /\ Given(l)' >= Given(l)
    OBVIOUS
  <2>1. Out(l)' = Out(l)
    BY <1>3 DEF Out
  <2>2. Given(l)' >= Given(l)
    BY <1>1, <1>3 DEF Given, Open, RingType
  <2>3. QED
    BY <2>1, <2>2
<1>9. ASSUME NEW l \in Lidars PROVE RingInv(l)'
  <2>1. CASE l = h
    <3>1. Out(h) <= given /\ Out(h) \in Nat
      BY <1>1, <1>4 DEF RingInv, RingType, Out
    <3>2. Out(h) <= given + 1
      BY <3>1
    <3>3. QED
      BY <1>1, <1>3, <1>5, <1>6, <1>8, <2>1, <3>2 DEF RingInv
  <2>2. CASE l # h
    <3>1. Given(l)' = Given(l)
      BY <1>2, <1>3, <2>2 DEF Given, Open
    <3>2. wr_idx'[l] = wr_idx[l]
      BY <1>1, <1>3, <2>2 DEF RingType
    <3>3. QED
      BY <1>1, <1>3, <1>8, <3>1, <3>2 DEF RingInv
  <2>3. QED
    BY <2>1, <2>2
<1>10. PopInv'
  <2>1. PICK l \in Lidars : l = lidar_id["pcd"]
    BY DEF WakeupType, Streams
  <2>2. Out(l) \in Nat /\ Given(l) \in Int /\ Given(l)' \in Int /\ Given(l)' >= Given(l)
    BY <1>1, <1>7, <1>8 DEF RingType, Out, Given, Open
  <2>3. pkg \in Nat
    BY <1>1 DEF RingType
  <2>4. QED
    BY <1>1, <1>3, <1>8, <2>1, <2>2, <2>3 DEF PopInv
<1>11. QED
  BY <1>7, <1>9, <1>10

\* The reader takes the oldest frame that waits.
LEMMA OrderPop ==
  ASSUME WakeupType, OrderInv, QueuePrePop
  PROVE  OrderInv'
<1> SUFFICES ASSUME numbered
             PROVE  RingType' /\ (\A l \in Lidars : RingInv(l)') /\ PopInv'
  BY DEF OrderInv, QueuePrePop, Poll, fixed
<1>1. RingType /\ (\A l \in Lidars : RingInv(l)) /\ PopInv
  BY DEF OrderInv
<1>2. PICK h \in Lidars : h = lidar_id["pcd"]
  BY DEF WakeupType, Streams
<1>3. /\ ~QueueIsEmpty(h)
      /\ pkg' = storage_packet[h][Slot(rd_idx[h])]
      /\ tpc'["pcd"] = "update"
      /\ UNCHANGED <<storage_packet, rd_idx, wr_idx, stored, upc, frame, published, lidar_id>>
  BY <1>2 DEF QueuePrePop, Poll, Goto, writers, Streams, WakeupType
<1>4. PICK out \in Nat, given \in Nat : out = Out(h) /\ given = Given(h)
  <2>1. Out(h) \in Nat /\ Given(h) \in Int /\ Out(h) <= Given(h)
    BY <1>1 DEF RingType, RingInv, Out, Given, Open
  <2>2. QED
    BY <2>1
<1>5. out <= given /\ rd_idx[h] = (out % Modulus) /\ wr_idx[h] = (given % Modulus)
  BY <1>1, <1>4 DEF RingInv
<1>6. out + 1 <= given /\ given <= stored[h]
  <2>1. out # given
    BY <1>3, <1>5 DEF QueueIsEmpty
  <2>2. given <= stored[h]
    BY <1>1, <1>4 DEF RingType, Given, Open
  <2>3. QED
    BY <1>5, <2>1, <2>2
<1>7. pkg' = out + 1
  <2>1. Slot(rd_idx[h]) = Slot(out)
    BY <1>5, SlotOf DEF Slot
  <2>2. PICK n \in Nat : n = out + 1
    OBVIOUS
  <2>3. n - 1 = out /\ n \in (out + 1)..stored[h]
    BY <1>1, <1>6, <2>2 DEF RingType
  <2>4. storage_packet[h][Slot(n - 1)] = n
    BY <1>1, <1>4, <2>3 DEF RingInv
  <2>5. QED
    BY <1>3, <2>1, <2>2, <2>3, <2>4
<1>8. \A l : Out(l)' = Out(l) /\ Given(l)' = Given(l)
  BY <1>3 DEF Out, Given, Open
<1>9. RingType'
  BY <1>1, <1>3, <1>7 DEF RingType
<1>10. \A l \in Lidars : RingInv(l)'
  BY <1>1, <1>3, <1>8 DEF RingInv
<1>11. PopInv'
  BY <1>2, <1>3, <1>4, <1>6, <1>7, <1>8 DEF PopInv
<1>12. QED
  BY <1>9, <1>10, <1>11

\* The reader publishes the frame it holds and moves its index on.
LEMMA OrderUpdate ==
  ASSUME WakeupType, OrderInv, QueuePopUpdate
  PROVE  OrderInv'
<1> SUFFICES ASSUME numbered
             PROVE  RingType' /\ (\A l \in Lidars : RingInv(l)') /\ PopInv'
  BY DEF OrderInv, QueuePopUpdate, Poll, fixed
<1>1. RingType /\ (\A l \in Lidars : RingInv(l)) /\ PopInv
  BY DEF OrderInv
<1>2. PICK h \in Lidars : h = lidar_id["pcd"]
  BY DEF WakeupType, Streams
<1>3. /\ tpc["pcd"] = "update" /\ tpc'["pcd"] = "pop"
      /\ rd_idx' = [rd_idx EXCEPT ![h] = (@ + 1) % Modulus]
      /\ published' = [published EXCEPT ![h] = Append(@, pkg)]
      /\ pkg' = NoFrame
      /\ UNCHANGED <<storage_packet, wr_idx, stored, upc, frame, lidar_id>>
  BY <1>2 DEF QueuePopUpdate, Poll, Goto, writers, Streams, WakeupType, PublishPointcloud2
<1>4. PICK out \in Nat : out = Out(h)
  BY <1>1 DEF RingType, Out
<1>5. pkg = out + 1 /\ pkg <= Given(h)
  BY <1>1, <1>2, <1>3, <1>4 DEF PopInv
<1>6. /\ published'[h] = Append(published[h], pkg)
      /\ published'[h] \in Seq(Nat) /\ published[h] \in Seq(Nat) /\ Len(published[h]) = out
  BY <1>1, <1>3, <1>4 DEF RingType, Out
<1>7. Out(h)' = out + 1 /\ \A i \in 1..(out + 1) : published'[h][i] = i
  <2>1. Out(h)' = out + 1
    BY <1>6 DEF Out
  <2>2. \A i \in 1..out : published[h][i] = i
    BY <1>1, <1>4 DEF RingInv
  <2>3. \A i \in 1..(out + 1) : published'[h][i] = i
    BY <1>5, <1>6, <2>2
  <2>4. QED
    BY <2>1, <2>3
<1>8. rd_idx'[h] = ((out + 1) % Modulus) /\ rd_idx'[h] \in 0..(Modulus - 1)
  <2>1. rd_idx'[h] = ((out % Modulus) + 1) % Modulus
    BY <1>1, <1>3, <1>4 DEF RingType, RingInv
  <2>2. ((out % Modulus) + 1) % Modulus = ((out + 1) % Modulus)
    BY NextIndex
  <2>3. ((out + 1) % Modulus) \in 0..(Modulus - 1)
    BY NextIndex
  <2>4. QED
    BY <2>1, <2>2, <2>3
<1>9. RingType'
  <2>1. published' \in [Lidars -> Seq(Nat)]
    BY <1>1, <1>3, <1>6 DEF RingType
  <2>2. QED
    BY <1>1, <1>3, <1>8, <2>1 DEF RingType, NoFrame
<1>10. \A l : Given(l)' = Given(l)
  BY <1>3 DEF Given, Open
<1>11. ASSUME NEW l \in Lidars PROVE RingInv(l)'
  <2>1. CASE l = h
    <3>1. stored[h] \in Nat /\ stored[h] - out <= queue_size
      BY <1>1, <1>4 DEF RingType, RingInv
    <3>2. stored[h] - (out + 1) <= queue_size /\ \A n \in ((out + 1) + 1)..stored[h] : n \in (out + 1)..stored[h]
      BY <3>1, RingSizes
    <3>3. \A n \in (out + 1)..stored[h] : storage_packet[h][Slot(n - 1)] = n
      BY <1>1, <1>4 DEF RingInv
    <3>4. wr_idx[h] = (Given(h) % Modulus)
      BY <1>1 DEF RingInv
    <3>5. QED
      BY <1>3, <1>5, <1>7, <1>8, <1>10, <2>1, <3>2, <3>3, <3>4 DEF RingInv
  <2>2. CASE l # h
    <3>1. published'[l] = published[l] /\ rd_idx'[l] = rd_idx[l]
      BY <1>1, <1>3, <2>2 DEF RingType
    <3>2. Out(l)' = Out(l)
      BY <3>1 DEF Out
    <3>3. QED
      BY <1>1, <1>3, <1>10, <3>1, <3>2 DEF RingInv
  <2>3. QED
    BY <2>1, <2>2
<1>12. PopInv'
  BY <1>3 DEF PopInv
<1>13. QED
  BY <1>9, <1>11, <1>12

LEMMA OrderPoll ==
  ASSUME WakeupType, OrderInv, NEW st \in Streams, PollThread(st)
  PROVE  OrderInv'
<1>1. CASE st = "pcd" /\ QueuePrePop
  BY <1>1, OrderPop
<1>2. CASE st = "pcd" /\ QueuePopUpdate
  BY <1>2, OrderUpdate
<1>3. CASE ~(st = "pcd" /\ (QueuePrePop \/ QueuePopUpdate))
  <2>1. UNCHANGED <<numbered, storage_packet, wr_idx, stored, upc, frame>>
    BY DEF PollThread, Poll, Begin, Wait, Scan, PollingDone, Status, PollingImu, PollingPoints,
           QueuePrePop, QueuePopUpdate, QueueDrained, fixed, writers
  <2>2. UNCHANGED <<rd_idx, published, pkg>>
    BY <1>3 DEF PollThread, Begin, Wait, Scan, PollingDone, Status, PollingImu, PollingPoints,
           QueueDrained, Quiet
  <2>3. CASE st = "imu"
    <3>1. tpc'["pcd"] = tpc["pcd"] /\ lidar_id'["pcd"] = lidar_id["pcd"]
      BY <2>3 DEF PollThread, Begin, Wait, Scan, PollingDone, Status, PollingImu, NextLidar, Goto,
                  Streams, WakeupType
    <3>2. QED
      BY <2>1, <2>2, <3>1, OrderStill
  <2>4. CASE st = "pcd"
    <3>1. tpc["pcd"] # "update" /\ tpc'["pcd"] # "update"
      BY <1>3, <2>4 DEF PollThread, Begin, Wait, Scan, PollingDone, Status, PollingPoints,
                  QueueDrained, Poll, NextLidar, Goto, Streams, WakeupType
    <3>2. QED
      BY <2>1, <2>2, <3>1, OrderStill
  <2>5. QED
    BY <2>3, <2>4 DEF Streams
<1>4. QED
  BY <1>1, <1>2, <1>3

\* The frames of every lidar leave the driver once each and in order, and what is missing
\* is in its queue, for any number of lidars and any size of the queues, as long as the
\* indexes have room for two laps of the queue: neither thread ever reads or fills a slot
\* the other is at, also when the indexes wrap around.
THEOREM FramesStayInOrder == Spec => []FramesInOrder
<1>1. WakeupInv /\ OrderInv /\ [Next]_vars => OrderInv'
  <2> SUFFICES ASSUME WakeupInv, OrderInv, [Next]_vars PROVE OrderInv'
    OBVIOUS
  <2>0. WakeupType
    BY DEF WakeupInv
  <2>1. CASE UNCHANGED vars
    BY <2>0, <2>1, OrderStill DEF vars, fixed, ring, writers, polls, history
  <2>2. CASE \E l \in present : Connect(l) \/ StorageImuData(l)
    BY <2>0, <2>2, OrderStill
       DEF Connect, StorageImuData, Sdk, fixed, ring, writers, polls, history
  <2>3. CASE \E S \in SUBSET present : \E parts \in FramesOf(S) : StoragePointData(parts)
    BY <2>0, <2>3, OrderStill DEF StoragePointData, Process, fixed, ring, polls
  <2>4. CASE Unindexed \/ PushFull \/ PushSignal
    BY <2>0, <2>4, OrderStill
       DEF Unindexed, PushFull, PushSignal, NextPart, Process, fixed, ring, polls
  <2>5. CASE ImuSignal
    BY <2>0, <2>5, OrderStill DEF ImuSignal, Sdk, fixed, ring, polls, history
  <2>6. CASE RequestExit \/ SetExitSignal \/ Join
    BY <2>0, <2>6, OrderStill
       DEF RequestExit, SetExitSignal, Join, Destructor, fixed, ring, writers, polls, history
  <2>7. QED
    BY <2>0, <2>1, <2>2, <2>3, <2>4, <2>5, <2>6, OrderSlot, OrderIndex, OrderPoll
       DEF Next, PushLidarData
<1>2. WakeupInv /\ OrderInv => FramesInOrder
  <2> SUFFICES ASSUME WakeupInv, OrderInv, numbered, NEW l \in Lidars
               PROVE  /\ published[l] = [i \in DOMAIN published[l] |-> i]
                      /\ Out(l) + ((wr_idx[l] - rd_idx[l]) % Modulus) + Open(l) = stored[l]
                      /\ pkg # NoFrame /\ lidar_id["pcd"] = l => pkg = Out(l) + 1
    BY DEF FramesInOrder, Out, Open
  <2>1. RingType /\ RingInv(l) /\ PopInv
    BY DEF OrderInv
  <2>2. published[l] = [i \in DOMAIN published[l] |-> i]
    <3>1. published[l] \in Seq(Nat) /\ \A i \in 1..Len(published[l]) : published[l][i] = i
      BY <2>1 DEF RingType, RingInv, Out
    <3>2. QED
      BY <3>1
  <2>3. PICK out \in Nat, given \in Nat : out = Out(l) /\ given = Given(l)
    <3>1. Out(l) \in Nat /\ Given(l) \in Int /\ Out(l) <= Given(l)
      BY <2>1 DEF RingType, RingInv, Out, Given, Open
    <3>2. QED
      BY <3>1
  <2>4. out <= given /\ given - out <= queue_size /\ stored[l] = given + Open(l)
    <3>1. stored[l] \in Nat /\ Open(l) \in 0..1
      BY <2>1 DEF RingType, Open
    <3>2. given = stored[l] - Open(l)
      BY <2>3 DEF Given
    <3>3. out <= given /\ stored[l] - out <= queue_size /\ queue_size \in Nat
      BY <2>1, <2>3, RingSizes DEF RingInv
    <3>4. QED
      BY <3>1, <3>2, <3>3
  <2>5. ((given % Modulus) - (out % Modulus)) % Modulus = given - out
    BY <2>4, WaitingIs
  <2>6. Out(l) + ((wr_idx[l] - rd_idx[l]) % Modulus) + Open(l) = stored[l]
    <3>1. (wr_idx[l] - rd_idx[l]) % Modulus = given - out
      BY <2>1, <2>3, <2>5 DEF RingInv
    <3>2. Open(l) \in Nat
      BY DEF Open
    <3>3. QED
      BY <2>3, <2>4, <3>1, <3>2
  <2>7. pkg # NoFrame /\ lidar_id["pcd"] = l => pkg = Out(l) + 1
    BY <2>1 DEF PopInv
  <2>8. QED
    BY <2>2, <2>6, <2>7
<1>3. QED
  BY <1>1, <1>2, WakeupInit, WakeupStep, OrderInit, PTL DEF Spec

-----------------------------------------------------------------------------
(* The three parts as MCLivox brings them together *)

\* One after the other or interleaved, the parts keep what each promises: what MCLivox
\* runs has the four invariants for all values of its constants.
THEOREM LivoxKeepsAll ==
  LivoxSpec => [](SamplingIsConfigured /\ EveryPointOnce /\ FramesInOrder /\ NoLostWakeup)
<1>1. LivoxInit => Devices!Init /\ Handler!Init /\ Init
  BY DEF LivoxInit
<1>2. [LivoxNext]_livoxVars => [Devices!Next]_Devices!vars
  BY DEF LivoxNext, livoxVars, deviceVars, Devices!vars, Devices!index, Devices!slots, Devices!answers
<1>3. [LivoxNext]_livoxVars => [Handler!Next]_Handler!vars
  BY DEF LivoxNext, livoxVars, handlerVars, Handler!vars, Handler!handler
<1>4. [LivoxNext]_livoxVars => [Next]_vars
  BY DEF LivoxNext, livoxVars
<1>5. QED
  BY <1>1, <1>2, <1>3, <1>4, SamplingAfterSettings, PointsComeOnce, FramesStayInOrder, NoWakeupLost, PTL
     DEF LivoxSpec, Spec, Devices!Spec, Handler!Spec
=============================================================================
