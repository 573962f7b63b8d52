----------------------------- MODULE PollCycle -----------------------------
(***************************************************************************)
(* The polling cycle of jsonode (tcpsql.cpp): every 60 s the timer signal  *)
(* runs cycletimer.  MakeJPacketICTdeviceAll counts every started device   *)
(* down; the devices that come due are asked for their values in packets   *)
(* that send_msg broadcasts, and the temperatures of due controllers are   *)
(* read over modbus and stored.  One more device is started at each tick.  *)
(*                                                                         *)
(* One step visits one device.  The wording of a packet is left out: a     *)
(* packet is the sequence of the devices it asks.                          *)
(***************************************************************************)
EXTENDS Integers, SequencesExt

CONSTANTS
  Row,         (* rows of TE_DEVICE_LIST: [type, cycle, enable]            *)
  Commands,    (* device types that may have read commands, the possible  *)
               (* contents of TE_DEVICE_CMD                               *)
  MaxDevices,  (* bound: rows the query returns                           *)
  BatchMax,    (* 9: a packet with more devices is sent at once           *)
  MaxTicks     (* bound: ticks of the timer                               *)

CONTROLLER == "C"   \* temperature controllers, polled over modbus
FEEDER == "E"       \* feeders, whose answers are long

ASSUME PollCycleAssumption ==
  /\ Row \subseteq [type : STRING, cycle : Nat \ {0}, enable : BOOLEAN]
  /\ Commands \subseteq SUBSET STRING
  /\ MaxDevices \in Nat
  /\ BatchMax \in Nat
  /\ MaxTicks \in Nat

VARIABLES
  ICTDevInfo,  (* the device list read at start                           *)
  commanded,   (* the device types with read commands                     *)
  curcycle,    (* ticks left of each device                               *)
  ICTDEVICE_COUNT, (* devices started                                     *)
  tick,        (* the handler: [pc, c]                                    *)
  arrayobj,    (* the devices of the packet being built                   *)
  devCount,    (* what the code counts of them                            *)
  sent,        (* history: packets of this tick                           *)
  stored,      (* history: controllers whose readings were stored in it   *)
  due,         (* history: devices that came due in it                    *)
  time         (* history: ticks begun                                    *)

tickHist == <<sent, stored, due>>
rows == <<ICTDevInfo, commanded>>
vars == <<rows, curcycle, ICTDEVICE_COUNT, tick, arrayobj, devCount, tickHist, time>>

Device == 1 .. Len(ICTDevInfo)

\* main: GetICTDeviceInfo, the first count, and the first countdowns.
Init ==
  /\ ICTDevInfo \in UNION {[1 .. n -> Row] : n \in 0 .. MaxDevices}
  /\ commanded \in Commands
  /\ curcycle = [d \in Device |-> IF ICTDevInfo[d].enable THEN ICTDevInfo[d].cycle ELSE 0]
  /\ ICTDEVICE_COUNT = IF Device = {} THEN 0 ELSE 1
  /\ tick = [pc |-> "idle", c |-> 1]
  /\ arrayobj = <<>>
  /\ devCount = 0
  /\ sent = <<>>
  /\ stored = {}
  /\ due = {}
  /\ time = 0

-----------------------------------------------------------------------------
\* The timer expires: MakeJPacketICTdeviceAll begins, unless there is no device.
Tick ==
  /\ tick.pc = "idle"
  /\ time < MaxTicks
  /\ time' = time + 1
  /\ tick' = [pc |-> IF Device = {} THEN "idle" ELSE "loop", c |-> 1]
  /\ arrayobj' = <<>>
  /\ devCount' = 0
  /\ sent' = <<>>
  /\ stored' = {}
  /\ due' = {}
  /\ UNCHANGED <<rows, curcycle, ICTDEVICE_COUNT>>

Visiting == tick.pc = "loop" /\ tick.c <= ICTDEVICE_COUNT
Due(d) == curcycle[d] = 1
Asked(d) == ICTDevInfo[d].type \in commanded
NextDevice == tick' = [tick EXCEPT !.c = @ + 1]

\* A device that is not due counts down; one at zero stays there.
Wait ==
  /\ Visiting
  /\ ~Due(tick.c)
  /\ curcycle' = [curcycle EXCEPT ![tick.c] = IF @ > 0 THEN @ - 1 ELSE @]
  /\ NextDevice
  /\ UNCHANGED <<rows, ICTDEVICE_COUNT, arrayobj, devCount, tickHist, time>>

\* Mistake: the countdown is not reloaded.
ComesDueForEver(d) ==
  /\ Due(d)
  /\ due' = due \union {d}
  /\ stored' = IF ICTDevInfo[d].type = CONTROLLER THEN stored \union {d} ELSE stored
  /\ UNCHANGED curcycle
\* A due device starts its next cycle; a controller is read and stored.
ComesDue(d) ==
  /\ Due(d)
  /\ curcycle' = [curcycle EXCEPT ![d] = ICTDevInfo[d].cycle]
  /\ due' = due \union {d}
  /\ stored' = IF ICTDevInfo[d].type = CONTROLLER THEN stored \union {d} ELSE stored

\* Mistake: the packet is sent and not begun anew.
AskFeederAgain ==
  /\ Visiting
  /\ ComesDue(tick.c)
  /\ ICTDevInfo[tick.c].type = FEEDER
  /\ sent' = Append(sent, IF Asked(tick.c) THEN Append(arrayobj, tick.c) ELSE arrayobj)
  /\ arrayobj' = IF Asked(tick.c) THEN Append(arrayobj, tick.c) ELSE arrayobj
  /\ NextDevice
  /\ UNCHANGED <<rows, ICTDEVICE_COUNT, devCount, time>>

\* A feeder is added to the packet and the packet sent, whatever it holds.
AskFeeder ==
  /\ Visiting
  /\ ComesDue(tick.c)
  /\ ICTDevInfo[tick.c].type = FEEDER
  /\ sent' = Append(sent, IF Asked(tick.c) THEN Append(arrayobj, tick.c) ELSE arrayobj)
  /\ arrayobj' = <<>>
  /\ NextDevice
  /\ UNCHANGED <<rows, ICTDEVICE_COUNT, devCount, time>>

\* Mistake: the full packet is sent but its devices stay for the next one.
AskKeeps ==
  /\ Visiting
  /\ ComesDue(tick.c)
  /\ ICTDevInfo[tick.c].type # FEEDER
  /\ IF ~Asked(tick.c)
     THEN UNCHANGED <<arrayobj, devCount, sent>>
     ELSE /\ arrayobj' = Append(arrayobj, tick.c)
          /\ devCount' = IF devCount + 1 > BatchMax THEN 0 ELSE devCount + 1
          /\ sent' = IF devCount + 1 > BatchMax
                     THEN Append(sent, Append(arrayobj, tick.c)) ELSE sent
  /\ NextDevice
  /\ UNCHANGED <<rows, ICTDEVICE_COUNT, time>>

\* Any other device is added to the packet, which is sent when it is full.
Ask ==
  /\ Visiting
  /\ ComesDue(tick.c)
  /\ ICTDevInfo[tick.c].type # FEEDER
  /\ IF ~Asked(tick.c)
     THEN UNCHANGED <<arrayobj, devCount, sent>>
     ELSE IF devCount + 1 > BatchMax
          THEN /\ sent' = Append(sent, Append(arrayobj, tick.c))
               /\ arrayobj' = <<>>
               /\ devCount' = 0
          ELSE /\ arrayobj' = Append(arrayobj, tick.c)
               /\ devCount' = devCount + 1
               /\ UNCHANGED sent
  /\ NextDevice
  /\ UNCHANGED <<rows, ICTDEVICE_COUNT, time>>

\* The last packet, when the code counts a device in it; then cycletimer starts one more device.
EndTick ==
  /\ tick.pc = "loop"
  /\ tick.c > ICTDEVICE_COUNT
  /\ sent' = IF devCount > 0 THEN Append(sent, arrayobj) ELSE sent
  /\ arrayobj' = <<>>
  /\ devCount' = 0
  /\ ICTDEVICE_COUNT' = IF ICTDEVICE_COUNT < Len(ICTDevInfo) THEN ICTDEVICE_COUNT + 1 ELSE ICTDEVICE_COUNT
  /\ tick' = [pc |-> "idle", c |-> 1]
  /\ UNCHANGED <<rows, curcycle, stored, due, time>>

-----------------------------------------------------------------------------
Handler == Wait \/ AskFeeder \/ Ask \/ EndTick
Next == Tick \/ Handler

Spec == Init /\ [][Next]_vars

-----------------------------------------------------------------------------
\* The variables have their types; the count stays within the device list.
TypeOK ==
  /\ ICTDevInfo \in Seq(Row)
  /\ commanded \in Commands
  /\ curcycle \in [Device -> Nat]
  /\ ICTDEVICE_COUNT \in 0 .. Len(ICTDevInfo)
  /\ tick \in [pc : {"idle", "loop"}, c : 1 .. Len(ICTDevInfo) + 1]
  /\ arrayobj \in Seq(Device)
  /\ devCount \in 0 .. BatchMax
  /\ sent \in Seq(Seq(Device))
  /\ stored \subseteq Device
  /\ due \subseteq Device
  /\ time \in Nat

AtRest == tick.pc = "idle" /\ time > 0

\* Device d is started at tick d and then comes due every cycle ticks: the
\* staggered start and the countdowns never skip, double or shift a poll.
ScheduleIsExact ==
  AtRest =>
    due = {d \in Device : /\ ICTDevInfo[d].enable
                          /\ time >= d
                          /\ (time - d + 1) % ICTDevInfo[d].cycle = 0}

\* At the end of a tick every device that came due and has commands has been
\* asked, in exactly one packet and once in it, and no other device has; the early
\* sends and the counter that decides the last one leave nothing behind.
DueAskedOnce ==
  AtRest =>
    /\ \A d \in Device :
         (\E k \in 1 .. Len(sent) : d \in ToSet(sent[k])) <=> d \in due /\ Asked(d)
    /\ \A k \in 1 .. Len(sent) : IsInjective(sent[k])
    /\ \A k, l \in 1 .. Len(sent) :
         ToSet(sent[k]) \intersect ToSet(sent[l]) # {} => k = l

\* No packet asks more devices than the limit, plus the feeder that flushes it:
\* the count is never below what the packet holds.
PacketBounded == \A k \in 1 .. Len(sent) : Len(sent[k]) <= BatchMax + 1
CountCoversBatch == Len(arrayobj) <= devCount

\* "The response of a feeder is long, so it is requested separately".
FeederAskedApart ==
  \A k \in 1 .. Len(sent) : \A d \in ToSet(sent[k]) :
    ICTDevInfo[d].type = FEEDER => Len(sent[k]) = 1
=============================================================================
