-------------------------- MODULE PollCycleProofs --------------------------
(***************************************************************************)
(* Proofs about PollCycle, for any device list, any cycles, any number of  *)
(* ticks and any size of a packet.                                         *)
(***************************************************************************)
EXTENDS PollCycle, TLAPS

PollInv == TypeOK /\ CountCoversBatch /\ PacketBounded

-----------------------------------------------------------------------------
LEMMA PollInit == Init => PollInv
<1> SUFFICES ASSUME Init PROVE PollInv
  OBVIOUS
<1> USE PollCycleAssumption
<1>1. PICK n \in 0 .. MaxDevices : ICTDevInfo \in [1 .. n -> Row]
  BY DEF Init
<1>2. ICTDevInfo \in Seq(Row) /\ Len(ICTDevInfo) = n /\ n \in Nat /\ Device = 1 .. n
  BY <1>1 DEF Device
<1>3. curcycle \in [Device -> Nat]
  <2>1. \A d \in Device : ICTDevInfo[d].cycle \in Nat
    BY <1>1, <1>2
  <2> QED
    BY <2>1 DEF Init
<1>4. ICTDEVICE_COUNT \in 0 .. Len(ICTDevInfo)
  BY <1>2 DEF Init
<1>5. TypeOK
  BY <1>2, <1>3, <1>4 DEF Init, TypeOK
<1>6. CountCoversBatch /\ PacketBounded
  BY DEF Init, CountCoversBatch, PacketBounded
<1> QED
  BY <1>5, <1>6 DEF PollInv

\* Appending a packet that is not too large keeps every packet within the bound.
LEMMA AppendBounded ==
  ASSUME TypeOK, PacketBounded, NEW p \in Seq(Device), Len(p) <= BatchMax + 1
  PROVE  /\ Append(sent, p) \in Seq(Seq(Device))
         /\ \A k \in 1 .. Len(Append(sent, p)) : Len(Append(sent, p)[k]) <= BatchMax + 1
<1>1. sent \in Seq(Seq(Device))
  BY DEF TypeOK
<1> DEFINE s == Append(sent, p)
<1>2. s \in Seq(Seq(Device)) /\ Len(s) = Len(sent) + 1 /\ s[Len(sent) + 1] = p
  BY <1>1
<1>3. \A k \in 1 .. Len(sent) : s[k] = sent[k]
  BY <1>1
<1>4. ASSUME NEW k \in 1 .. Len(s) PROVE Len(s[k]) <= BatchMax + 1
  <2>1. CASE k = Len(sent) + 1
    BY <1>2, <2>1
  <2>2. CASE k \in 1 .. Len(sent)
    BY <1>3, <2>2 DEF PacketBounded
  <2> QED
    BY <1>1, <1>2, <2>1, <2>2
<1> QED
  BY <1>2, <1>4

\* The device a step visits, and what it leaves alone.
LEMMA Visited ==
  ASSUME TypeOK, Visiting, NextDevice
  PROVE  /\ tick.c \in Device
         /\ tick' \in [pc : {"idle", "loop"}, c : 1 .. Len(ICTDevInfo) + 1]
<1>1. tick \in [pc : {"idle", "loop"}, c : 1 .. Len(ICTDevInfo) + 1] /\ Len(ICTDevInfo) \in Nat
  BY DEF TypeOK
<1>2. tick.c \in 1 .. Len(ICTDevInfo)
  BY <1>1 DEF TypeOK, Visiting
<1> QED
  BY <1>1, <1>2 DEF NextDevice, Device

\* A device that comes due keeps the countdowns and the histories typed.
LEMMA ComesDueTyped ==
  ASSUME TypeOK, NEW d \in Device, ComesDue(d)
  PROVE  curcycle' \in [Device -> Nat] /\ due' \subseteq Device /\ stored' \subseteq Device
<1>1. ICTDevInfo[d] \in Row
  BY DEF TypeOK, Device
<1>2. ICTDevInfo[d].cycle \in Nat
  BY <1>1, PollCycleAssumption
<1> QED
  BY <1>2 DEF TypeOK, ComesDue

-----------------------------------------------------------------------------
(* Each step preserves the invariant.                                      *)

LEMMA TickKeeps ==
  ASSUME PollInv, Tick
  PROVE  PollInv'
<1> USE PollCycleAssumption
<1>1. /\ arrayobj' = <<>> /\ devCount' = 0 /\ sent' = <<>> /\ stored' = {} /\ due' = {}
      /\ time' = time + 1 /\ ICTDevInfo' = ICTDevInfo /\ commanded' = commanded
      /\ curcycle' = curcycle /\ ICTDEVICE_COUNT' = ICTDEVICE_COUNT
      /\ tick'  = [pc |-> IF Device = {} THEN "idle" ELSE "loop", c |-> 1]
  BY DEF Tick, rows
<1>2. Device' = Device
  BY <1>1 DEF Device
<1>3. tick' \in [pc : {"idle", "loop"}, c : 1 .. Len(ICTDevInfo) + 1]
  BY <1>1 DEF PollInv, TypeOK
<1>4. TypeOK'
  BY <1>1, <1>2, <1>3 DEF PollInv, TypeOK
<1>5. CountCoversBatch' /\ PacketBounded'
  BY <1>1 DEF CountCoversBatch, PacketBounded
<1> QED
  BY <1>4, <1>5 DEF PollInv

LEMMA WaitKeeps ==
  ASSUME PollInv, Wait
  PROVE  PollInv'
<1>1. TypeOK
  BY DEF PollInv
<1>2. /\ ICTDevInfo' = ICTDevInfo /\ commanded' = commanded /\ ICTDEVICE_COUNT' = ICTDEVICE_COUNT
      /\ arrayobj' = arrayobj /\ devCount' = devCount /\ time' = time
      /\ sent' = sent /\ stored' = stored /\ due' = due
  BY DEF Wait, rows, tickHist
<1>3. Device' = Device
  BY <1>2 DEF Device
<1>4. tick.c \in Device /\ tick' \in [pc : {"idle", "loop"}, c : 1 .. Len(ICTDevInfo) + 1]
  BY <1>1, Visited DEF Wait
<1>5. curcycle' \in [Device -> Nat]
  BY <1>1, <1>4 DEF Wait, TypeOK
<1>6. TypeOK'
  BY <1>1, <1>2, <1>3, <1>4, <1>5 DEF TypeOK
<1>7. CountCoversBatch' /\ PacketBounded'
  BY <1>2 DEF PollInv, CountCoversBatch, PacketBounded
<1> QED
  BY <1>6, <1>7 DEF PollInv

\* A feeder's packet holds at most what has been counted, and the feeder.
LEMMA AskFeederKeeps ==
  ASSUME PollInv, AskFeeder
  PROVE  PollInv'
<1> USE PollCycleAssumption
<1> DEFINE p == IF Asked(tick.c) THEN Append(arrayobj, tick.c) ELSE arrayobj
<1>1. TypeOK /\ PacketBounded /\ CountCoversBatch
  BY DEF PollInv
<1>2. /\ ICTDevInfo' = ICTDevInfo /\ commanded' = commanded /\ ICTDEVICE_COUNT' = ICTDEVICE_COUNT
      /\ arrayobj' = <<>> /\ devCount' = devCount /\ time' = time /\ sent' = Append(sent, p)
      /\ ComesDue(tick.c)
  BY DEF AskFeeder, rows
<1>3. Device' = Device
  BY <1>2 DEF Device
<1>4. tick.c \in Device /\ tick' \in [pc : {"idle", "loop"}, c : 1 .. Len(ICTDevInfo) + 1]
  BY <1>1, Visited DEF AskFeeder
<1>5. curcycle' \in [Device -> Nat] /\ due' \subseteq Device /\ stored' \subseteq Device
  BY <1>1, <1>2, <1>4, ComesDueTyped
<1>6. arrayobj \in Seq(Device) /\ Len(arrayobj) <= BatchMax
  BY <1>1 DEF TypeOK, CountCoversBatch
<1>7. p \in Seq(Device) /\ Len(p) <= BatchMax + 1
  BY <1>4, <1>6
<1> HIDE DEF p
<1>8. /\ sent' \in Seq(Seq(Device))
      /\ \A k \in 1 .. Len(sent') : Len(sent'[k]) <= BatchMax + 1
  BY <1>1, <1>2, <1>7, AppendBounded
<1>9. TypeOK'
  BY <1>1, <1>2, <1>3, <1>4, <1>5, <1>8 DEF TypeOK
<1>10. CountCoversBatch'
  BY <1>1, <1>2 DEF CountCoversBatch, TypeOK
<1>11. PacketBounded'
  BY <1>8 DEF PacketBounded
<1> QED
  BY <1>9, <1>10, <1>11 DEF PollInv

LEMMA AskKeepsInv ==
  ASSUME PollInv, Ask
  PROVE  PollInv'
<1> USE PollCycleAssumption
<1> DEFINE p == Append(arrayobj, tick.c)
<1>1. TypeOK /\ PacketBounded /\ CountCoversBatch
  BY DEF PollInv
<1>2. /\ ICTDevInfo' = ICTDevInfo /\ commanded' = commanded /\ ICTDEVICE_COUNT' = ICTDEVICE_COUNT
      /\ time' = time /\ ComesDue(tick.c)
  BY DEF Ask, rows
<1>3. Device' = Device
  BY <1>2 DEF Device
<1>4. tick.c \in Device /\ tick' \in [pc : {"idle", "loop"}, c : 1 .. Len(ICTDevInfo) + 1]
  BY <1>1, Visited DEF Ask
<1>5. curcycle' \in [Device -> Nat] /\ due' \subseteq Device /\ stored' \subseteq Device
  BY <1>1, <1>2, <1>4, ComesDueTyped
<1>6. /\ arrayobj \in Seq(Device) /\ Len(arrayobj) <= devCount /\ devCount \in Nat
      /\ devCount <= BatchMax
  BY <1>1 DEF TypeOK, CountCoversBatch
<1>7. p \in Seq(Device) /\ Len(p) = Len(arrayobj) + 1 /\ Len(p) <= BatchMax + 1
  BY <1>4, <1>6
<1> HIDE DEF p
<1>8. CASE ~Asked(tick.c)
  <2>1. arrayobj' = arrayobj /\ devCount' = devCount /\ sent' = sent
    BY <1>8 DEF Ask
  <2>2. TypeOK'
    BY <1>1, <1>2, <1>3, <1>4, <1>5, <2>1 DEF TypeOK
  <2> QED
    BY <1>1, <2>1, <2>2 DEF PollInv, CountCoversBatch, PacketBounded
<1>9. CASE Asked(tick.c) /\ devCount + 1 > BatchMax
  <2>1. arrayobj' = <<>> /\ devCount' = 0 /\ sent' = Append(sent, p)
    BY <1>9 DEF Ask, p
  <2>2. /\ sent' \in Seq(Seq(Device))
        /\ \A k \in 1 .. Len(sent') : Len(sent'[k]) <= BatchMax + 1
    BY <1>1, <1>7, <2>1, AppendBounded
  <2>3. TypeOK'
    BY <1>1, <1>2, <1>3, <1>4, <1>5, <2>1, <2>2 DEF TypeOK
  <2>4. CountCoversBatch' /\ PacketBounded'
    BY <2>1, <2>2 DEF CountCoversBatch, PacketBounded
  <2> QED
    BY <2>3, <2>4 DEF PollInv
<1>10. CASE Asked(tick.c) /\ ~(devCount + 1 > BatchMax)
  <2>1. arrayobj' = p /\ devCount' = devCount + 1 /\ sent' = sent
    BY <1>10 DEF Ask, p
  <2>2. devCount' \in 0 .. BatchMax
    BY <1>6, <1>10, <2>1
  <2>3. TypeOK'
    BY <1>1, <1>2, <1>3, <1>4, <1>5, <1>7, <2>1, <2>2 DEF TypeOK
  <2>4. CountCoversBatch'
    BY <1>6, <1>7, <2>1 DEF CountCoversBatch
  <2>5. PacketBounded'
    BY <1>1, <2>1 DEF PacketBounded
  <2> QED
    BY <2>3, <2>4, <2>5 DEF PollInv
<1> QED
  BY <1>8, <1>9, <1>10

LEMMA EndTickKeeps ==
  ASSUME PollInv, EndTick
  PROVE  PollInv'
<1> USE PollCycleAssumption
<1>1. TypeOK /\ PacketBounded /\ CountCoversBatch
  BY DEF PollInv
<1>2. /\ ICTDevInfo' = ICTDevInfo /\ commanded' = commanded /\ curcycle' = curcycle
      /\ stored' = stored /\ due' = due /\ time' = time /\ arrayobj' = <<>> /\ devCount' = 0
      /\ tick' = [pc |-> "idle", c |-> 1]
      /\ sent' = IF devCount > 0 THEN Append(sent, arrayobj) ELSE sent
      /\ ICTDEVICE_COUNT' = IF ICTDEVICE_COUNT < Len(ICTDevInfo)
                            THEN ICTDEVICE_COUNT + 1 ELSE ICTDEVICE_COUNT
  BY DEF EndTick, rows
<1>3. Device' = Device
  BY <1>2 DEF Device
<1>4. ICTDEVICE_COUNT' \in 0 .. Len(ICTDevInfo) /\ Len(ICTDevInfo) \in Nat
  BY <1>1, <1>2 DEF TypeOK
<1>5. arrayobj \in Seq(Device) /\ Len(arrayobj) <= BatchMax + 1
  BY <1>1 DEF TypeOK, CountCoversBatch
<1>6. /\ sent' \in Seq(Seq(Device))
      /\ \A k \in 1 .. Len(sent') : Len(sent'[k]) <= BatchMax + 1
  <2>1. CASE devCount > 0
    BY <1>1, <1>2, <1>5, <2>1, AppendBounded
  <2>2. CASE ~(devCount > 0)
    BY <1>1, <1>2, <2>2 DEF TypeOK, PacketBounded
  <2> QED
    BY <2>1, <2>2
<1>7. tick' \in [pc : {"idle", "loop"}, c : 1 .. Len(ICTDevInfo) + 1]
  BY <1>2, <1>4
<1>8. TypeOK'
  BY <1>1, <1>2, <1>3, <1>4, <1>6, <1>7 DEF TypeOK
<1>9. CountCoversBatch' /\ PacketBounded'
  BY <1>2, <1>6 DEF CountCoversBatch, PacketBounded
<1> QED
  BY <1>8, <1>9 DEF PollInv

-----------------------------------------------------------------------------
(* The theorems.                                                           *)

\* The inductive invariant: the code's count of devices, which decides when a
\* packet is sent, is never below what the packet holds.
THEOREM PollInvariant == Spec => []PollInv
<1>1. Init => PollInv
  BY PollInit
<1>2. PollInv /\ [Next]_vars => PollInv'
  <2> SUFFICES ASSUME PollInv, [Next]_vars PROVE PollInv'
    OBVIOUS
  <2>1. CASE Tick
    BY <2>1, TickKeeps
  <2>2. CASE Wait
    BY <2>2, WaitKeeps
  <2>3. CASE AskFeeder
    BY <2>3, AskFeederKeeps
  <2>4. CASE Ask
    BY <2>4, AskKeepsInv
  <2>5. CASE EndTick
    BY <2>5, EndTickKeeps
  <2>6. CASE UNCHANGED vars
    BY <2>6 DEF vars, rows, tickHist, PollInv, TypeOK, Device, CountCoversBatch, PacketBounded
  <2> QED
    BY <2>1, <2>2, <2>3, <2>4, <2>5, <2>6 DEF Next, Handler
<1> QED
  BY <1>1, <1>2, PTL DEF Spec

\* No packet asks more than BatchMax + 1 devices, for any list and any cycles.
THEOREM Bounded == Spec => []PacketBounded
<1>1. PollInv => PacketBounded
  BY DEF PollInv
<1> QED
  BY <1>1, PollInvariant, PTL

\* The handler never visits a device outside the list.
THEOREM Typed == Spec => []TypeOK
<1>1. PollInv => TypeOK
  BY DEF PollInv
<1> QED
  BY <1>1, PollInvariant, PTL

-----------------------------------------------------------------------------
(* The schedule: how often each device has been visited decides its        *)
(* countdown and whether it came due in this tick.                         *)

Least(a, b) == IF a <= b THEN a ELSE b
Enabled(d) == ICTDevInfo[d].enable
Cycle(d) == ICTDevInfo[d].cycle

\* Device d has been visited in this tick; how often it has been visited since the start.
Reached(d) == time >= d /\ (tick.pc = "loop" => d < tick.c)
Visits(d) == IF time < d THEN 0 ELSE IF Reached(d) THEN time - d + 1 ELSE time - d

\* One device has been started at each tick, until all are.
Started ==
  /\ ICTDEVICE_COUNT = IF tick.pc = "loop" THEN Least(time, Len(ICTDevInfo))
                                           ELSE Least(time + 1, Len(ICTDevInfo))
  /\ tick.pc = "loop" => time > 0 /\ tick.c <= ICTDEVICE_COUNT + 1

Countdown ==
  \A d \in Device : curcycle[d] = IF Enabled(d) THEN Cycle(d) - (Visits(d) % Cycle(d)) ELSE 0

DueNow ==
  \A d \in Device : d \in due <=> Reached(d) /\ Enabled(d) /\ Visits(d) % Cycle(d) = 0

ScheduleInv == Started /\ Countdown /\ DueNow

\* Counting on modulo a cycle.
LEMMA ModSucc ==
  ASSUME NEW v \in Nat, NEW k \in Nat \ {0}
  PROVE  /\ v % k \in 0 .. k - 1
         /\ 0 % k = 0
         /\ (v + 1) % k = IF v % k = k - 1 THEN 0 ELSE (v % k) + 1
<1> DEFINE q == v \div k
           r == v % k
<1>1. q \in Nat /\ r \in 0 .. k - 1 /\ v = k * q + r
  OBVIOUS
<1> HIDE DEF q, r
<1>2. CASE r + 1 < k
  <2>1. v + 1 = k * q + (r + 1) /\ r + 1 \in Nat
    BY <1>1
  <2>2. (k * q + (r + 1)) % k = r + 1
    BY <1>1, <1>2, <2>1
  <2> QED
    BY <1>1, <1>2, <2>1, <2>2 DEF r
<1>3. CASE r + 1 = k
  <2>1. v + 1 = k * (q + 1) + 0 /\ q + 1 \in Nat
    BY <1>1, <1>3
  <2>2. (k * (q + 1) + 0) % k = 0
    BY <2>1
  <2> QED
    BY <1>1, <1>3, <2>1, <2>2 DEF r
<1> QED
  BY <1>1, <1>2, <1>3

\* What the schedule speaks of has its type.
LEMMA ScheduleTypes ==
  ASSUME TypeOK
  PROVE  /\ Len(ICTDevInfo) \in Nat
         /\ time \in Nat
         /\ tick.pc \in {"idle", "loop"} /\ tick.c \in Nat \ {0}
         /\ ICTDEVICE_COUNT \in Nat /\ ICTDEVICE_COUNT <= Len(ICTDevInfo)
         /\ \A d \in Device : /\ d \in Nat \ {0} /\ d <= Len(ICTDevInfo)
                              /\ Cycle(d) \in Nat \ {0}
                              /\ Visits(d) \in Nat
         /\ curcycle \in [Device -> Nat]
<1>1. Len(ICTDevInfo) \in Nat /\ time \in Nat /\ curcycle \in [Device -> Nat]
  BY DEF TypeOK
<1>2. tick.pc \in {"idle", "loop"} /\ tick.c \in Nat \ {0}
  BY <1>1 DEF TypeOK
<1>3. ICTDEVICE_COUNT \in Nat /\ ICTDEVICE_COUNT <= Len(ICTDevInfo)
  BY <1>1 DEF TypeOK
<1>4. ASSUME NEW d \in Device
      PROVE  d \in Nat \ {0} /\ d <= Len(ICTDevInfo) /\ Cycle(d) \in Nat \ {0} /\ Visits(d) \in Nat
  <2>1. d \in Nat \ {0} /\ d <= Len(ICTDevInfo)
    BY <1>1 DEF Device
  <2>2. ICTDevInfo[d] \in Row
    BY DEF TypeOK, Device
  <2> QED
    BY <1>1, <2>1, <2>2, PollCycleAssumption DEF Cycle, Visits
<1> QED
  BY <1>1, <1>2, <1>3, <1>4

LEMMA ScheduleInit == Init => ScheduleInv
<1> SUFFICES ASSUME Init PROVE ScheduleInv
  OBVIOUS
<1>1. TypeOK
  BY PollInit DEF PollInv
<1>2. tick.pc = "idle" /\ time = 0 /\ due = {}
  BY DEF Init
<1>3. \A d \in Device : ~Reached(d) /\ Visits(d) = 0
  BY <1>1, <1>2, ScheduleTypes DEF Reached, Visits
<1>4. Started
  <2>1. ICTDEVICE_COUNT = IF Device = {} THEN 0 ELSE 1
    BY DEF Init
  <2> QED
    BY <1>1, <1>2, <2>1, ScheduleTypes DEF Started, Least, Device
<1>5. Countdown
  <2>1. \A d \in Device : curcycle[d] = IF Enabled(d) THEN Cycle(d) ELSE 0
    BY DEF Init, Enabled, Cycle
  <2>2. ASSUME NEW d \in Device PROVE Cycle(d) - (0 % Cycle(d)) = Cycle(d)
    <3>1. Cycle(d) \in Nat \ {0}
      BY <1>1, ScheduleTypes
    <3>2. 0 % Cycle(d) = 0
      BY <3>1, ModSucc
    <3> QED
      BY <3>1, <3>2
  <2> QED
    BY <1>3, <2>1, <2>2 DEF Countdown
<1>6. DueNow
  BY <1>2, <1>3 DEF DueNow
<1> QED
  BY <1>4, <1>5, <1>6 DEF ScheduleInv

LEMMA TickSchedules ==
  ASSUME TypeOK, ScheduleInv, Tick
  PROVE  ScheduleInv'
<1>1. /\ tick.pc = "idle" /\ time' = time + 1 /\ due' = {}
      /\ tick' = [pc |-> IF Device = {} THEN "idle" ELSE "loop", c |-> 1]
      /\ UNCHANGED <<ICTDevInfo, curcycle, ICTDEVICE_COUNT>>
  BY DEF Tick, rows
<1>2. /\ Device' = Device
      /\ \A d \in Device : Enabled(d)' = Enabled(d) /\ Cycle(d)' = Cycle(d)
  BY <1>1 DEF Device, Enabled, Cycle
<1>3. tick'.c = 1 /\ tick'.pc = IF Device = {} THEN "idle" ELSE "loop"
  BY <1>1
<1>4. \A d \in Device : ~Reached(d)' /\ Visits(d)' = Visits(d)
  BY <1>1, <1>2, <1>3, ScheduleTypes DEF Reached, Visits
<1>5. Started'
  <2>1. Device = {} => Len(ICTDevInfo) = 0
    BY ScheduleTypes DEF Device
  <2>2. Device # {} => Len(ICTDevInfo) > 0
    BY ScheduleTypes DEF Device
  <2>3. /\ Len(ICTDevInfo) \in Nat /\ time \in Nat
        /\ ICTDEVICE_COUNT = Least(time + 1, Len(ICTDevInfo))
    BY <1>1, ScheduleTypes DEF ScheduleInv, Started
  <2>4. CASE Device = {}
    BY <1>1, <1>3, <2>1, <2>3, <2>4 DEF Started, Least
  <2>5. CASE Device # {}
    BY <1>1, <1>3, <2>2, <2>3, <2>5 DEF Started, Least
  <2> QED
    BY <2>4, <2>5
<1>6. Countdown' /\ DueNow'
  BY <1>1, <1>2, <1>4 DEF ScheduleInv, Countdown, DueNow
<1> QED
  BY <1>5, <1>6 DEF ScheduleInv

\* Visiting a device counts one visit of it and none of another.
LEMMA VisitCounts ==
  ASSUME TypeOK, Started, Visiting, NextDevice, UNCHANGED <<ICTDevInfo, ICTDEVICE_COUNT, time>>,
         NEW c, c = tick.c
  PROVE  /\ Started'
         /\ c \in Device
         /\ Visits(c)' = Visits(c) + 1
         /\ ~Reached(c) /\ Reached(c)'
         /\ \A d \in Device : d # c => /\ Visits(d)' = Visits(d)
                                            /\ Reached(d)' = Reached(d)
<1>1. tick.pc = "loop" /\ tick.c <= ICTDEVICE_COUNT /\ tick' = [tick EXCEPT !.c = tick.c + 1]
  BY DEF Visiting, NextDevice
<1>2. tick'.pc = "loop" /\ tick'.c = tick.c + 1
  BY <1>1 DEF TypeOK
<1>3. ICTDEVICE_COUNT = Least(time, Len(ICTDevInfo)) /\ time > 0
  BY <1>1 DEF Started
<1>4. tick.c \in Device /\ tick.c <= time
  BY <1>1, <1>3, ScheduleTypes DEF Least, Device
<1>5. Started'
  BY <1>1, <1>2, <1>3, ScheduleTypes DEF Started, Least
<1>6. ~Reached(c) /\ Reached(c)' /\ Visits(c)' = Visits(c) + 1
  <2>1. ~Reached(c) /\ Visits(c) = time - tick.c
    BY <1>1, <1>4, ScheduleTypes DEF Reached, Visits
  <2>2. c \in Nat /\ c <= time /\ time' = time /\ tick'.pc = "loop" /\ tick'.c = c + 1
    BY <1>2, <1>4, ScheduleTypes
  <2>3. time' >= c /\ c < tick'.c
    BY <2>2, ScheduleTypes
  <2> QED
    BY <1>2, <2>1, <2>2, <2>3, ScheduleTypes DEF Reached, Visits
<1>7. ASSUME NEW d \in Device, d # c
      PROVE  Visits(d)' = Visits(d) /\ Reached(d)' = Reached(d)
  <2>1. d < tick'.c <=> d < tick.c
    BY <1>2, <1>7, ScheduleTypes
  <2> QED
    BY <1>1, <1>2, <2>1 DEF Reached, Visits
<1> QED
  BY <1>4, <1>5, <1>6, <1>7

\* The countdown that has one tick left belongs to an enabled device whose next
\* visit completes a cycle; any other goes one down.
LEMMA CountdownStep ==
  ASSUME TypeOK, Countdown, NEW c \in Device
  PROVE  /\ Due(c) => Enabled(c) /\ (Visits(c) + 1) % Cycle(c) = 0
         /\ ~Due(c) /\ Enabled(c) =>
              /\ (Visits(c) + 1) % Cycle(c) # 0
              /\ curcycle[c] > 0
              /\ curcycle[c] - 1 = Cycle(c) - ((Visits(c) + 1) % Cycle(c))
         /\ ~Enabled(c) => curcycle[c] = 0
<1> DEFINE v == Visits(c)
           k == Cycle(c)
<1>1. v \in Nat /\ k \in Nat \ {0}
  BY ScheduleTypes
<1>2. curcycle[c] = IF Enabled(c) THEN k - (v % k) ELSE 0
  BY DEF Countdown
<1> HIDE DEF v, k
<1>3. /\ v % k \in 0 .. k - 1
      /\ (v + 1) % k = IF v % k = k - 1 THEN 0 ELSE (v % k) + 1
  BY <1>1, ModSucc
<1>4. CASE Enabled(c)
  <2>1. curcycle[c] = k - (v % k)
    BY <1>2, <1>4
  <2>2. curcycle[c] = 1 => (v + 1) % k = 0
    BY <1>1, <1>3, <2>1
  <2>3. curcycle[c] # 1 => /\ (v + 1) % k # 0
                           /\ curcycle[c] > 0
                           /\ curcycle[c] - 1 = k - ((v + 1) % k)
    BY <1>1, <1>3, <2>1
  <2> QED
    BY <1>4, <2>2, <2>3 DEF Due, v, k
<1>5. CASE ~Enabled(c)
  BY <1>2, <1>5 DEF Due
<1> QED
  BY <1>4, <1>5

LEMMA WaitSchedules ==
  ASSUME TypeOK, ScheduleInv, Wait
  PROVE  ScheduleInv'
<1>1. PICK c : c = tick.c
  OBVIOUS
<1>2. /\ ~Due(c)
      /\ curcycle' = [curcycle EXCEPT ![c] = IF @ > 0 THEN @ - 1 ELSE @]
      /\ UNCHANGED <<ICTDevInfo, ICTDEVICE_COUNT, time, due>>
  BY <1>1 DEF Wait, rows, tickHist
<1>3. /\ Started' /\ c \in Device
      /\ Visits(c)' = Visits(c) + 1 /\ Reached(c)'
      /\ \A d \in Device : d # c => Visits(d)' = Visits(d) /\ Reached(d)' = Reached(d)
  BY <1>1, <1>2, VisitCounts DEF Wait, ScheduleInv
<1>4. /\ Device' = Device
      /\ \A d \in Device : Enabled(d)' = Enabled(d) /\ Cycle(d)' = Cycle(d)
  BY <1>2 DEF Device, Enabled, Cycle
<1>5. /\ curcycle'[c] = IF curcycle[c] > 0 THEN curcycle[c] - 1 ELSE curcycle[c]
      /\ \A d \in Device : d # c => curcycle'[d] = curcycle[d]
  BY <1>2, <1>3, ScheduleTypes
<1>6. curcycle'[c] = IF Enabled(c) THEN Cycle(c) - ((Visits(c) + 1) % Cycle(c)) ELSE 0
  BY <1>2, <1>3, <1>5, CountdownStep DEF ScheduleInv
<1>7. Countdown'
  <2> SUFFICES ASSUME NEW d \in Device
               PROVE  (curcycle[d] = IF Enabled(d) THEN Cycle(d) - (Visits(d) % Cycle(d)) ELSE 0)'
    BY <1>4 DEF Countdown
  <2>1. CASE d = c
    BY <1>3, <1>4, <1>6, <2>1
  <2>2. CASE d # c
    BY <1>3, <1>4, <1>5, <2>2 DEF ScheduleInv, Countdown
  <2> QED
    BY <2>1, <2>2
<1>8. DueNow'
  <2> SUFFICES ASSUME NEW d \in Device
               PROVE  (d \in due <=> Reached(d) /\ Enabled(d) /\ Visits(d) % Cycle(d) = 0)'
    BY <1>4 DEF DueNow
  <2>1. CASE d = c
    <3>1. ~Reached(c)
      BY <1>1, <1>2, VisitCounts DEF Wait, ScheduleInv
    <3>2. c \notin due'
      BY <1>2, <1>3, <3>1 DEF ScheduleInv, DueNow
    <3>3. Enabled(c) => (Visits(c) + 1) % Cycle(c) # 0
      BY <1>2, <1>3, CountdownStep DEF ScheduleInv
    <3> QED
      BY <1>3, <1>4, <2>1, <3>2, <3>3
  <2>2. CASE d # c
    BY <1>2, <1>3, <1>4, <2>2 DEF ScheduleInv, DueNow
  <2> QED
    BY <2>1, <2>2
<1> QED
  BY <1>3, <1>7, <1>8 DEF ScheduleInv

\* Asking: the device came due, its countdown is reloaded.
LEMMA AskSchedules ==
  ASSUME TypeOK, ScheduleInv, AskFeeder \/ Ask
  PROVE  ScheduleInv'
<1>1. PICK c : c = tick.c
  OBVIOUS
<1>2. /\ Visiting /\ NextDevice /\ Due(c)
      /\ curcycle' = [curcycle EXCEPT ![c] = Cycle(c)]
      /\ due' = due \union {c}
      /\ UNCHANGED <<ICTDevInfo, ICTDEVICE_COUNT, time>>
  BY <1>1 DEF AskFeeder, Ask, ComesDue, rows, Cycle
<1>3. /\ Started' /\ c \in Device
      /\ Visits(c)' = Visits(c) + 1 /\ Reached(c)'
      /\ \A d \in Device : d # c => Visits(d)' = Visits(d) /\ Reached(d)' = Reached(d)
  BY <1>1, <1>2, VisitCounts DEF ScheduleInv
<1>4. /\ Device' = Device
      /\ \A d \in Device : Enabled(d)' = Enabled(d) /\ Cycle(d)' = Cycle(d)
  BY <1>2 DEF Device, Enabled, Cycle
<1>5. /\ curcycle'[c] = Cycle(c)
      /\ \A d \in Device : d # c => curcycle'[d] = curcycle[d]
  BY <1>2, <1>3, ScheduleTypes
<1>6. Enabled(c) /\ (Visits(c) + 1) % Cycle(c) = 0 /\ Cycle(c) \in Nat
  BY <1>2, <1>3, CountdownStep, ScheduleTypes DEF ScheduleInv
<1>7. Countdown'
  <2> SUFFICES ASSUME NEW d \in Device
               PROVE  (curcycle[d] = IF Enabled(d) THEN Cycle(d) - (Visits(d) % Cycle(d)) ELSE 0)'
    BY <1>4 DEF Countdown
  <2>1. CASE d = c
    BY <1>3, <1>4, <1>5, <1>6, <2>1
  <2>2. CASE d # c
    BY <1>3, <1>4, <1>5, <2>2 DEF ScheduleInv, Countdown
  <2> QED
    BY <2>1, <2>2
<1>8. DueNow'
  <2> SUFFICES ASSUME NEW d \in Device
               PROVE  (d \in due <=> Reached(d) /\ Enabled(d) /\ Visits(d) % Cycle(d) = 0)'
    BY <1>4 DEF DueNow
  <2>1. CASE d = c
    BY <1>2, <1>3, <1>4, <1>6, <2>1
  <2>2. CASE d # c
    BY <1>2, <1>3, <1>4, <2>2 DEF ScheduleInv, DueNow
  <2> QED
    BY <2>1, <2>2
<1> QED
  BY <1>3, <1>7, <1>8 DEF ScheduleInv

\* The tick has visited every started device, and no other has begun to count.
LEMMA EndTickSchedules ==
  ASSUME TypeOK, ScheduleInv, EndTick
  PROVE  ScheduleInv'
<1>1. /\ tick.pc = "loop" /\ tick.c > ICTDEVICE_COUNT
      /\ tick' = [pc |-> "idle", c |-> 1]
      /\ ICTDEVICE_COUNT' = IF ICTDEVICE_COUNT < Len(ICTDevInfo)
                            THEN ICTDEVICE_COUNT + 1 ELSE ICTDEVICE_COUNT
      /\ UNCHANGED <<ICTDevInfo, curcycle, due, time>>
  BY DEF EndTick, rows
<1>2. /\ Device' = Device
      /\ \A d \in Device : Enabled(d)' = Enabled(d) /\ Cycle(d)' = Cycle(d)
  BY <1>1 DEF Device, Enabled, Cycle
<1>3. ICTDEVICE_COUNT = Least(time, Len(ICTDevInfo)) /\ tick.c = ICTDEVICE_COUNT + 1 /\ time > 0
  BY <1>1, ScheduleTypes DEF ScheduleInv, Started
<1>4. tick'.pc = "idle"
  BY <1>1
<1>5. Started'
  BY <1>1, <1>3, <1>4, ScheduleTypes DEF Started, Least
<1>6. ASSUME NEW d \in Device
      PROVE  Reached(d)' = Reached(d) /\ Visits(d)' = Visits(d)
  <2>1. time >= d <=> d < tick.c
    BY <1>3, ScheduleTypes DEF Least
  <2> QED
    BY <1>1, <1>4, <2>1, ScheduleTypes DEF Reached, Visits
<1>7. Countdown' /\ DueNow'
  BY <1>1, <1>2, <1>6 DEF ScheduleInv, Countdown, DueNow
<1> QED
  BY <1>5, <1>7 DEF ScheduleInv

\* Where each countdown stands, at every visit of every tick.
THEOREM ScheduleInvariant == Spec => []ScheduleInv
<1>1. Init => ScheduleInv
  BY ScheduleInit
<1>2. TypeOK /\ ScheduleInv /\ [Next]_vars => ScheduleInv'
  <2> SUFFICES ASSUME TypeOK, ScheduleInv, [Next]_vars PROVE ScheduleInv'
    OBVIOUS
  <2>1. CASE UNCHANGED vars
    BY <2>1 DEF vars, rows, tickHist, ScheduleInv, Started, Countdown, DueNow, Device,
       Enabled, Cycle, Visits, Reached
  <2> QED
    BY <2>1, TickSchedules, WaitSchedules, AskSchedules, EndTickSchedules DEF Next, Handler
<1> QED
  BY <1>1, <1>2, Typed, PTL DEF Spec

\* Device d is started at tick d and then comes due every cycle ticks, for any
\* list of devices, any cycles and any number of ticks.
THEOREM Schedule == Spec => []ScheduleIsExact
<1>1. TypeOK /\ ScheduleInv => ScheduleIsExact
  <2> SUFFICES ASSUME TypeOK, ScheduleInv, tick.pc = "idle"
               PROVE  due = {d \in Device : /\ ICTDevInfo[d].enable
                                            /\ time >= d
                                            /\ (time - d + 1) % ICTDevInfo[d].cycle = 0}
    BY DEF ScheduleIsExact, AtRest
  <2>1. \A d \in Device : /\ Reached(d) <=> time >= d
                          /\ Reached(d) => Visits(d) = time - d + 1
    BY ScheduleTypes DEF Reached, Visits
  <2>2. due \subseteq Device
    BY DEF TypeOK
  <2> QED
    BY <2>1, <2>2 DEF ScheduleInv, DueNow, Enabled, Cycle
<1> QED
  BY <1>1, ScheduleInvariant, Typed, PTL

-----------------------------------------------------------------------------
(* Who has been asked.                                                     *)

\* Device d is asked in one of the packets of s.
AskedIn(s, d) == \E k \in 1 .. Len(s) : d \in ToSet(s[k])
\* No device is asked twice.
Once(s) ==
  /\ \A k \in 1 .. Len(s) : IsInjective(s[k])
  /\ \A k, l \in 1 .. Len(s) : ToSet(s[k]) \intersect ToSet(s[l]) # {} => k = l

\* In this tick every device that came due and has commands is in a packet sent
\* or in the one being built, once in all; none still to be visited is.
AskInv ==
  /\ \A d \in Device : d \in due /\ Asked(d) <=> AskedIn(sent, d) \/ d \in ToSet(arrayobj)
  /\ Once(sent)
  /\ IsInjective(arrayobj)
  /\ \A d \in Device : ~(AskedIn(sent, d) /\ d \in ToSet(arrayobj))
  /\ tick.pc = "idle" => arrayobj = <<>>
  /\ tick.pc = "loop" => \A d \in due : d < tick.c

LEMMA AppendDevice ==
  ASSUME NEW p \in Seq(Device), NEW c \in Device
  PROVE  /\ ToSet(Append(p, c)) = ToSet(p) \union {c}
         /\ IsInjective(p) /\ c \notin ToSet(p) => IsInjective(Append(p, c))
<1> DEFINE q == Append(p, c)
<1>1. /\ DOMAIN p = 1 .. Len(p) /\ Len(p) \in Nat
      /\ DOMAIN q = 1 .. Len(p) + 1
      /\ q[Len(p) + 1] = c /\ \A k \in 1 .. Len(p) : q[k] = p[k]
  OBVIOUS
<1> HIDE DEF q
<1>2. DOMAIN q = DOMAIN p \union {Len(p) + 1} /\ Len(p) + 1 \notin DOMAIN p
  BY <1>1
<1>3. ToSet(q) = ToSet(p) \union {c}
  BY <1>1, <1>2 DEF ToSet
<1>4. IsInjective(p) /\ c \notin ToSet(p) => IsInjective(q)
  BY <1>1, <1>2 DEF ToSet, IsInjective
<1> QED
  BY <1>3, <1>4 DEF q

LEMMA AppendPacket ==
  ASSUME NEW s \in Seq(Seq(Device)), NEW p \in Seq(Device)
  PROVE  /\ \A d : AskedIn(Append(s, p), d) <=> AskedIn(s, d) \/ d \in ToSet(p)
         /\ Once(s) /\ IsInjective(p) /\ (\A d \in ToSet(p) : ~AskedIn(s, d)) =>
              Once(Append(s, p))
<1> DEFINE q == Append(s, p)
           n == Len(s)
<1>1. /\ n \in Nat /\ Len(q) = n + 1
      /\ q[n + 1] = p /\ \A k \in 1 .. n : q[k] = s[k]
  OBVIOUS
<1> HIDE DEF q, n
<1>2. 1 .. Len(q) = (1 .. n) \union {n + 1} /\ n + 1 \notin 1 .. n
  BY <1>1
<1>3. \A d : AskedIn(q, d) <=> AskedIn(s, d) \/ d \in ToSet(p)
  BY <1>1, <1>2 DEF AskedIn, n
<1>4. ASSUME Once(s), IsInjective(p), \A d \in ToSet(p) : ~AskedIn(s, d)
      PROVE  Once(q)
  <2>1. \A k \in 1 .. Len(q) : IsInjective(q[k])
    BY <1>1, <1>2, <1>4 DEF Once, n
  <2>2. ASSUME NEW k \in 1 .. Len(q), NEW l \in 1 .. Len(q),
               NEW d \in ToSet(q[k]) \intersect ToSet(q[l])
        PROVE  k = l
    <3>1. CASE k \in 1 .. n /\ l \in 1 .. n
      BY <1>1, <1>4, <2>2, <3>1 DEF Once, n
    <3>2. CASE k = n + 1 /\ l \in 1 .. n
      BY <1>1, <1>4, <2>2, <3>2 DEF AskedIn, n
    <3>3. CASE k \in 1 .. n /\ l = n + 1
      BY <1>1, <1>4, <2>2, <3>3 DEF AskedIn, n
    <3> QED
      BY <1>2, <3>1, <3>2, <3>3
  <2> QED
    BY <2>1, <2>2 DEF Once
<1> QED
  BY <1>3, <1>4 DEF q

LEMMA Nothing == /\ ToSet(<<>>) = {} /\ IsInjective(<<>>)
                 /\ Once(<<>>) /\ \A d : ~AskedIn(<<>>, d)
BY DEF ToSet, IsInjective, Once, AskedIn

\* The device of a visit has not been asked in this tick.
LEMMA NotYet ==
  ASSUME TypeOK, AskInv, NEW c \in Device, c = tick.c, tick.pc = "loop"
  PROVE  c \notin due /\ ~AskedIn(sent, c) /\ c \notin ToSet(arrayobj)
BY ScheduleTypes DEF AskInv

LEMMA AskInvKept ==
  ASSUME TypeOK, CountCoversBatch, AskInv, [Next]_vars
  PROVE  AskInv'
<1>1. /\ arrayobj \in Seq(Device) /\ sent \in Seq(Seq(Device)) /\ due \subseteq Device
      /\ tick.c \in Nat
  BY ScheduleTypes DEF TypeOK
<1>2. CASE Tick
  <2>1. arrayobj' = <<>> /\ sent' = <<>> /\ due' = {}
    BY <1>2 DEF Tick
  <2> QED
    BY <2>1, Nothing DEF AskInv
<1>3. CASE Wait
  <2>1. /\ tick.pc = "loop" /\ tick' = [tick EXCEPT !.c = tick.c + 1]
        /\ UNCHANGED <<ICTDevInfo, commanded, sent, due, arrayobj>>
    BY <1>3 DEF Wait, Visiting, NextDevice, rows, tickHist
  <2>2. tick'.pc = "loop" /\ tick'.c = tick.c + 1
    BY <2>1 DEF TypeOK
  <2>3. \A d \in due : d < tick'.c
    BY <1>1, <2>1, <2>2, ScheduleTypes DEF AskInv
  <2> QED
    BY <2>1, <2>2, <2>3 DEF AskInv, Device, Asked
<1>4. CASE AskFeeder \/ Ask
  <2>1. PICK c : c = tick.c
    OBVIOUS
  <2>2. /\ Visiting /\ NextDevice /\ due' = due \union {c}
        /\ UNCHANGED <<ICTDevInfo, commanded>>
    BY <1>4, <2>1 DEF AskFeeder, Ask, ComesDue, rows
  <2>3. c \in Device /\ tick.pc = "loop" /\ tick'.pc = "loop" /\ tick'.c = c + 1
    BY <2>1, <2>2, Visited DEF Visiting, NextDevice, TypeOK
  <2>4. c \notin due /\ ~AskedIn(sent, c) /\ c \notin ToSet(arrayobj)
    BY <2>1, <2>3, NotYet
  <2> DEFINE p == IF Asked(c) THEN Append(arrayobj, c) ELSE arrayobj
  <2>5. \/ sent' = Append(sent, p) /\ arrayobj' = <<>>
        \/ sent' = sent /\ arrayobj' = p
    BY <1>4, <2>1 DEF AskFeeder, Ask
  <2>6. /\ p \in Seq(Device) /\ IsInjective(p)
        /\ ToSet(p) = IF Asked(c) THEN ToSet(arrayobj) \union {c} ELSE ToSet(arrayobj)
    <3>1. /\ Append(arrayobj, c) \in Seq(Device) /\ IsInjective(Append(arrayobj, c))
          /\ ToSet(Append(arrayobj, c)) = ToSet(arrayobj) \union {c}
      BY <1>1, <2>3, <2>4, AppendDevice DEF AskInv
    <3>2. IsInjective(arrayobj)
      BY DEF AskInv
    <3> QED
      BY <1>1, <3>1, <3>2
  <2> HIDE DEF p
  <2>7. \A d \in due' : d < tick'.c
    BY <1>1, <2>1, <2>2, <2>3, ScheduleTypes DEF AskInv
  <2>8. \A d \in Device : /\ d \in due' /\ Asked(d) <=> AskedIn(sent, d) \/ d \in ToSet(p)
                          /\ ~(AskedIn(sent, d) /\ d \in ToSet(p))
    BY <2>2, <2>4, <2>6 DEF AskInv
  <2>9. ToSet(p) \subseteq Device
    BY <2>6 DEF ToSet
  <2>10. \A d : Asked(d)' = Asked(d)
    BY <2>2 DEF Asked
  <2>11. CASE sent' = Append(sent, p) /\ arrayobj' = <<>>
    <3>1. /\ \A d : AskedIn(sent', d) <=> AskedIn(sent, d) \/ d \in ToSet(p)
          /\ Once(sent')
      BY <1>1, <2>6, <2>8, <2>9, <2>11, AppendPacket DEF AskInv
    <3> QED
      BY <2>2, <2>3, <2>7, <2>8, <2>10, <2>11, <3>1, Nothing DEF AskInv, Device
  <2>12. CASE sent' = sent /\ arrayobj' = p
    BY <2>2, <2>3, <2>6, <2>7, <2>8, <2>10, <2>12 DEF AskInv, Device
  <2> QED
    BY <2>5, <2>11, <2>12
<1>5. CASE EndTick
  <2>1. /\ sent' = IF devCount > 0 THEN Append(sent, arrayobj) ELSE sent
        /\ arrayobj' = <<>> /\ tick'.pc = "idle"
        /\ UNCHANGED <<ICTDevInfo, commanded, due>>
    BY <1>5 DEF EndTick, rows
  <2>2. devCount = 0 => arrayobj = <<>>
    BY <1>1, PollCycleAssumption DEF CountCoversBatch
  <2>3. devCount \in Nat
    BY PollCycleAssumption DEF TypeOK
  <2>4. ToSet(arrayobj) \subseteq Device
    BY <1>1 DEF ToSet
  <2>5. /\ \A d : AskedIn(sent', d) <=> AskedIn(sent, d) \/ d \in ToSet(arrayobj)
        /\ Once(sent')
    <3>1. CASE devCount > 0
      BY <1>1, <2>1, <2>4, <3>1, AppendPacket DEF AskInv
    <3>2. CASE devCount = 0
      BY <2>1, <2>2, <3>2, Nothing DEF AskInv
    <3> QED
      BY <2>3, <3>1, <3>2
  <2> QED
    BY <2>1, <2>5, Nothing DEF AskInv, Device, Asked
<1>6. CASE UNCHANGED vars
  BY <1>6 DEF vars, rows, tickHist, AskInv, Device, Asked
<1> QED
  BY <1>2, <1>3, <1>4, <1>5, <1>6 DEF Next, Handler

\* At the end of a tick every device that came due and has commands has been
\* asked, in exactly one packet and once in it, and no other device has.
THEOREM AskedOnce == Spec => []DueAskedOnce
<1>1. Init => AskInv
  BY Nothing DEF Init, AskInv
<1>2. TypeOK /\ CountCoversBatch /\ AskInv /\ [Next]_vars => AskInv'
  BY AskInvKept
<1>3. AskInv => DueAskedOnce
  BY Nothing DEF AskInv, DueAskedOnce, AtRest, AskedIn, Once
<1>4. PollInv => TypeOK /\ CountCoversBatch
  BY DEF PollInv
<1> QED
  BY <1>1, <1>2, <1>3, <1>4, PollInvariant, PTL DEF Spec
=============================================================================
