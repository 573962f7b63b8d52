--------------------------- MODULE EarlierDaemons ---------------------------
(***************************************************************************)
(* TTA12daemon2 and TTA12daemon4, the two earlier builds of the daemon     *)
(* that the repository keeps.  They count down and report with the same    *)
(* code as NodeTimers, of which this module takes the steps, and differ    *)
(* from TTA12daemon and from each other in what surrounds it: which thread *)
(* polls the boards and how long it sleeps, so how long a tick of the      *)
(* timers is; which node a value is stored for; and when an actuator that  *)
(* stays on is reported first.                                             *)
(*                                                                         *)
(* Time is counted in slots.  A step of a thread that does not sleep takes *)
(* none; the main loop may be late.  How frames come through the serial    *)
(* ring is in SensorBoards: here an answer waits in line and is stored.    *)
(***************************************************************************)
EXTENDS BoardRequests

CONSTANTS
  ANodes, SNodes, Channels, Always, OnInterval, TransMax, Value, UnitTicks, Number,
  MaxPayload, MaxRequests, \* those of NodeTimers
  Configs,     \* contents of SENSOR_MAP: [type, canid] of the board of each sensor node
  Pause,       \* by build, slots slept after a request to a board: half a second and a tenth
  StartFrames, StartRounds, \* values read before the main loop, and rounds of requests it waits for them, 5 and 30
  FramesMax, RoundsMax,     \* where those counts start again, 20 and 60
  MaxAnswers   \* bound: answers of boards

Actuator == 0 .. ANodes * Channels - 1
\* A CAN id is [data |-> the kind of data, kind |-> the kind of board, num |-> its number].
ASSUME EarlierDaemonsAssumption ==
  /\ Configs \subseteq Seq([type : 0 .. 3, canid : [data : STRING, kind : STRING, num : 0 .. 15]])
  /\ \A c \in Configs : Len(c) = SNodes
  /\ OnInterval \in Nat /\ Always \in Nat /\ Value \subseteq 0 .. Always
  /\ Second \in Nat \ {0}
  /\ Pause \in [{"daemon2", "daemon4"} -> Nat \ {0}]
  /\ FramesMax \in Nat /\ RoundsMax \in Nat /\ StartFrames \in 0 .. FramesMax - 1 /\ StartRounds \in 0 .. RoundsMax /\ MaxAnswers \in Nat

VARIABLES
  value, aState, aCount, relay, TransActuatorDataCount, mode, time, sState, sCount, sInterval,
  TransSensorDataCount, main, timer, link, requests, asked, elapsed, since, wanted, believes, lost, \* those of NodeTimers
  build,    \* the program that runs
  boards,   \* SENSOR_MAP[n*8]
  nap,      \* slots that Timer_handler and SNode_handler still sleep
  next,     \* the request to the boards that comes next, 0 before a tick of daemon4
  line,     \* answers on their way, the CAN ids of
  si,       \* by node and kind of data, the board whose value it shows
  reads,    \* SensorReadCount, RS2323ReadCount
  startup,  \* what main does before its loop
  answers,
  ran,      \* history: slots since the last ON request, while its time runs
  told      \* history: ticks since an actuator that is on was switched on or its report came due

T == INSTANCE NodeTimers

sensors == <<mode, time, sState, sCount, sInterval, TransSensorDataCount, since, wanted>>
timers == <<value, aState, aCount, relay, TransActuatorDataCount, sensors, main, timer, link, requests, asked,
            elapsed, believes, lost>>
bus == <<line, si, reads, answers>>
clock == <<nap, next, startup>>
history == <<ran, told>>
fixed == <<build, boards>>
vars == <<timers, fixed, bus, clock, history>>

AllRequests == RequestsOf(boards)
None == "no value"

Init ==
  /\ T!Init
  /\ build \in {"daemon2", "daemon4"} /\ boards \in Configs
  /\ nap = [timer |-> 0, snode |-> 0] /\ next = (IF build = "daemon2" THEN 1 ELSE 0)
  /\ line = <<>> /\ answers = 0
  /\ si = [n \in 0..15 |-> [k \in {"adclo", "adchi", "iso", "counter"} |-> None]]
  /\ reads = [sensor |-> 0, round |-> 0] /\ startup = "relays"
  /\ ran = [i \in Actuator |-> 0] /\ told = [i \in Actuator |-> 0]

----------------------------------------------------------------------------
(* The timers *)

\* A tick, which is NodeTimers', and what it makes due.
Count ==
  /\ T!CountDown
  /\ told' = [i \in Actuator |-> IF i \in T!OnDue THEN 0 ELSE IF T!Left(i) > 0 THEN told[i] + 1 ELSE told[i]]
  /\ UNCHANGED <<fixed, bus, ran, startup>>

\* daemon2: a thread that does nothing but count, report and sleep a second.
Tick2 ==
  /\ build = "daemon2" /\ nap.timer = 0
  /\ Count /\ UNCHANGED <<nap, next>>
SendActuators2 ==
  /\ build = "daemon2" /\ T!SendActuators
  /\ nap' = [nap EXCEPT !.timer = Second]
  /\ UNCHANGED <<fixed, bus, next, startup, history>>

\* daemon4: the same thread goes on to poll the boards.
Tick4 ==
  /\ build = "daemon4" /\ nap.timer = 0 /\ next = 0
  /\ Count /\ next' = 1 /\ UNCHANGED nap
SendActuators4 ==
  /\ build = "daemon4" /\ T!SendActuators
  /\ UNCHANGED <<fixed, bus, clock, history>>
SendSensors == T!SendSensors /\ UNCHANGED <<fixed, bus, clock, history>>

----------------------------------------------------------------------------
(* Polling the boards *)

\* A request to a board, which may answer.
Ask ==
  /\ next \in DOMAIN AllRequests
  /\ next' = next + 1
  /\ \/ answers < MaxAnswers /\ answers' = answers + 1 /\ line' = Append(line, AllRequests[next])
     \/ UNCHANGED <<answers, line>>
  /\ UNCHANGED <<timers, fixed, si, reads, startup, history>>
\* The last board has been asked.
Asked(first) ==
  /\ next = Len(AllRequests) + 1
  /\ next' = first
  /\ reads' = [reads EXCEPT !.round = IF @ < RoundsMax THEN @ + 1 ELSE 0]
  /\ UNCHANGED <<timers, fixed, line, si, answers, startup, history>>

\* daemon2: SNode_handler, half a second after each request and each round.
Poll2 ==
  /\ build = "daemon2" /\ nap.snode = 0
  /\ Ask \/ Asked(1)
  /\ nap' = [nap EXCEPT !.snode = Pause["daemon2"]]

\* Mistake: a round ends without the pause of a second.
Poll4Hurried ==
  /\ build = "daemon4" /\ timer = "sleep" /\ nap.timer = 0
  /\ \/ Ask /\ nap' = [nap EXCEPT !.timer = Pause["daemon4"]]
     \/ Asked(0) /\ UNCHANGED nap
\* daemon4: Timer_handler behind its tick, without cmd_mutex; then it sleeps a second.
Poll4 ==
  /\ build = "daemon4" /\ timer = "sleep" /\ nap.timer = 0
  /\ \/ Ask /\ nap' = [nap EXCEPT !.timer = Pause["daemon4"]]
     \/ Asked(0) /\ nap' = [nap EXCEPT !.timer = Second]

\* Everyone sleeps.
Slot ==
  /\ nap.timer > 0 /\ (build = "daemon2" => nap.snode > 0)
  /\ nap' = [t \in DOMAIN nap |-> IF nap[t] > 0 THEN nap[t] - 1 ELSE 0]
  /\ ran' = [i \in Actuator |-> IF T!Runs(i) THEN ran[i] + 1 ELSE ran[i]]
  /\ UNCHANGED <<timers, fixed, bus, next, startup, told>>

----------------------------------------------------------------------------
(* The values of the boards *)

\* daemon2: a base board has its place by the kind of data, the others by the last four bits of
\* their id, but for counters.
NodeID2(id) ==
  CASE id.kind = "base" -> (CASE id.data \in {"adclo", "adchi"} -> 0 [] id.data = "iso" -> 1 [] id.data = "counter" -> 2)
    [] id.kind = "counter" -> 2
    [] OTHER -> id.num

\* Mistake: daemon2's number instead of the search.
NodeID4Number(id) == id.num
\* daemon4: the first board of that low byte, or else the last one.
NodeID4(id) ==
  LET known == {n \in DOMAIN boards : boards[n].canid.kind = id.kind /\ boards[n].canid.num = id.num}
  IN (IF known = {} THEN Len(boards) ELSE CHOOSE n \in known : \A m \in known : n <= m) - 1

\* Which kinds of data a kind of board may send.
Accepted(id) ==
  \/ id.kind = "base"
  \/ id.kind = "adc" /\ id.data \in {"adclo", "adchi"}
  \/ id.kind \in {"iso", "counter"} /\ id.data = id.kind

\* SensorValueReadToNode for the frame that comes first.
Stored(node) ==
  LET id == Head(line)
  IN /\ si' = IF Accepted(id) THEN [si EXCEPT ![node][id.data] = <<id.kind, id.num>>] ELSE si
     /\ line' = Tail(line)
     /\ reads' = [reads EXCEPT !.sensor = IF @ < FramesMax THEN @ + 1 ELSE 0]
     /\ startup # "relays"
     /\ UNCHANGED <<timers, fixed, answers, clock, history>>
Store2 == build = "daemon2" /\ line # <<>> /\ Stored(NodeID2(Head(line)))
Store4 == build = "daemon4" /\ line # <<>> /\ Stored(NodeID4(Head(line)))

----------------------------------------------------------------------------
(* main *)

\* The relays are switched off while Timer_handler runs already.
InitializeActuatorOffAtStartup ==
  /\ startup = "relays" /\ startup' = "values"
  /\ relay' = [i \in Actuator |-> FALSE]
  /\ UNCHANGED <<value, aState, aCount, TransActuatorDataCount, sensors, main, timer, link, requests, asked,
                 elapsed, believes, lost, fixed, bus, nap, next, history>>
\* Enough values, or enough rounds, and then the first report.
ValuesRead ==
  /\ startup = "values" /\ (reads.round >= StartRounds \/ reads.sensor > StartFrames)
  /\ startup' = "done"
  /\ T!Startup /\ UNCHANGED <<fixed, bus, nap, next, history>>

\* Mistake: the first report comes when the time is up, as in the present daemon.
ActuatorSetLater(i, v) ==
  /\ T!Request
  /\ T!RunFor(i, v)
  /\ IF v > 0
     THEN aCount' = [aCount EXCEPT ![i] = v] /\ UNCHANGED <<aState, TransActuatorDataCount>>
     ELSE /\ aState' = [aState EXCEPT ![i] = TRUE]
          /\ TransActuatorDataCount' = T!Counted(TransActuatorDataCount, 1)
          /\ UNCHANGED aCount
  /\ ran' = [ran EXCEPT ![i] = 0] /\ told' = [told EXCEPT ![i] = 0]
  /\ UNCHANGED <<sensors, main, timer, link, fixed, bus, clock>>
\* REQCMD_ACTUATOR_SET: the report of an actuator that stays on is due every OnInterval ticks from the start.
ActuatorSet(i, v) ==
  /\ T!Request
  /\ T!RunFor(i, v)
  /\ IF v > 0
     THEN aCount' = [aCount EXCEPT ![i] = OnInterval] /\ UNCHANGED <<aState, TransActuatorDataCount>>
     ELSE /\ aState' = [aState EXCEPT ![i] = TRUE]
          /\ TransActuatorDataCount' = T!Counted(TransActuatorDataCount, 1)
          /\ UNCHANGED aCount
  /\ ran' = [ran EXCEPT ![i] = 0] /\ told' = [told EXCEPT ![i] = 0]
  /\ UNCHANGED <<sensors, main, timer, link, fixed, bus, clock>>

\* The other requests are those of NodeTimers.
NodeInit == \E node \in 0 .. ANodes - 1 : T!NodeInit(node)
PassiveMode == \E p \in T!Payload, node \in 0 .. SNodes - 1 : T!PassiveMode(node, p)
ActiveMode == \E p \in T!Payload : T!ActiveMode(p)
EventMode == \E p \in T!Payload : T!EventMode(p)
OtherRequest ==
  /\ NodeInit \/ PassiveMode \/ ActiveMode \/ EventMode
  /\ UNCHANGED <<fixed, bus, clock, history>>
Connection ==
  /\ T!PeerCloses \/ T!ConnectionEnds \/ T!Reconnect
  /\ UNCHANGED <<fixed, bus, clock, history>>

----------------------------------------------------------------------------
Next ==
  \/ Tick2 \/ SendSensors \/ SendActuators2 \/ Tick4 \/ SendActuators4
  \/ Poll2 \/ Poll4 \/ Slot \/ Store2 \/ Store4
  \/ InitializeActuatorOffAtStartup \/ ValuesRead
  \/ \E i \in Actuator, v \in Value : ActuatorSet(i, v)
  \/ OtherRequest \/ Connection
Spec == Init /\ [][Next]_vars

----------------------------------------------------------------------------
(* Properties *)

\* The slots between two ticks: a second in daemon2, whose boards are polled by a thread of their
\* own, and a pause more for every request to a board in daemon4.
Round == IF build = "daemon2" THEN Second ELSE Second + Len(AllRequests) * Pause["daemon4"]

\* An actuator requested on for n seconds is on for no more than n rounds, and if nothing else is
\* requested for more than n - 1, however requests, ticks and polls fall: daemon2 keeps the seconds
\* it was asked for, daemon4 stretches them by its polls and by no more.
OnForItsRounds ==
  \A i \in Actuator : asked[i] \in 1 .. Always - 1 =>
    /\ ran[i] <= asked[i] * Round
    /\ value[i] = 0 => ran[i] >= (asked[i] - 1) * Round

\* While an actuator is on its report comes due every OnInterval ticks, the first time so many ticks
\* after it was switched on, also if it was on before or stays on for ever.
ReportedWhileOn ==
  \A i \in Actuator : value[i] > 0 /\ OnInterval > 0 => aCount[i] + told[i] = OnInterval

\* The numbering of the boards that each build needs.
Numbered ==
  IF build = "daemon2"
  THEN \A n \in DOMAIN boards : \A id \in ToSet(Requests(boards[n])) : NodeID2(id) = n - 1
  ELSE \A m, n \in DOMAIN boards :
         boards[m].canid.kind = boards[n].canid.kind /\ boards[m].canid.num = boards[n].canid.num => m = n
\* With boards so numbered the values of a node are those of its own board.
ValuesOfItsNode ==
  Numbered => \A n \in DOMAIN si : \A k \in DOMAIN si[n] :
    si[n][k] # None => n + 1 \in DOMAIN boards /\ si[n][k] = <<boards[n + 1].canid.kind, boards[n + 1].canid.num>>
=============================================================================
