----------------------------- MODULE NodeTimers -----------------------------
(***************************************************************************)
(* The timers of the greenhouse node daemon (TTA12daemon): the gateway     *)
(* (GCG) switches actuators on for a time and asks sensors for periodic    *)
(* values; Timer_handler counts both down once a second, switches relays   *)
(* off and sends what has come due; the main loop executes the gateway's   *)
(* requests.  Both hold cmd_mutex, so a request never interleaves with a   *)
(* tick; the connection may change at any moment.                          *)
(*                                                                         *)
(* Requests name devices by their place in the configuration (the index    *)
(* that GetSensorConfigIndex and GetActuatorConfigIndex find); channel i   *)
(* of node n has place n * Channels + i and, for sensors, that identifier. *)
(* Values measured are left out.  So are the gateway's DATA and RESPONSE   *)
(* packets: ParsingData and ParsingResponse copy what they carry over      *)
(* entries of AI and SI (TTA12_packet.cpp 817-820, 963-977), and with them *)
(* over times to run and modes, without any of the steps modelled here;    *)
(* what they change is in GatewayLink.  The properties are about a gateway *)
(* that sends requests only.                                               *)
(***************************************************************************)
EXTENDS Integers, Sequences, FiniteSets

CONSTANTS
  ANodes, SNodes, (* InstalledActuatorNodeCount, InstalledSensorNodeCount *)
  Channels,   (* 8, channels of a node                                    *)
  Always,     (* 255, the value of an actuator that stays on              *)
  OnInterval, (* ActuatorInterval, ticks between reports of one that is on *)
  TransMax,   (* 63, where the counts of pending reports stop             *)
  Value,      (* the ON times requested                                   *)
  UnitTicks,  (* ticks of each unit of an interval (PERSEC, PERMIN, ...)  *)
  Number,     (* the numbers of units requested                           *)
  MaxPayload, (* bound: sensors named by a request                        *)
  MaxRequests (* bound: requests                                          *)

Actuator == 0 .. ANodes * Channels - 1
Sensor == 0 .. SNodes * Channels - 1
Unit == DOMAIN UnitTicks

ASSUME NodeTimersAssumption ==
  /\ ANodes \in Nat /\ SNodes \in Nat
  /\ Channels \in Nat \ {0}
  /\ Always \in Nat \ {0}
  /\ OnInterval \in Nat
  /\ TransMax \in Nat \ {0}
  /\ Value \subseteq 0 .. Always
  /\ UnitTicks \in [Unit -> Nat \ {0}]
  /\ "sec" \in Unit
  /\ Number \subseteq Nat
  /\ MaxPayload \in 0 .. SNodes * Channels
  /\ MaxRequests \in Nat

VARIABLES
  value, aState, aCount, (* AI[i].data.value, AI[i].state = 4, and        *)
                         (* ACTUATOR_MAP[i].COUNT                         *)
  relay,                 (* the relays of the actuator boards             *)
  TransActuatorDataCount,
  mode, time, sState,    (* SI[s].mode, SI[s].time, SI[s].state = 4       *)
  sCount, sInterval,     (* SENSOR_MAP[s].COUNT and SET_INTERVAL          *)
  TransSensorDataCount,
  main,       (* "starting" until InitializeActuatorOffAtStartup          *)
  timer,      (* Timer_handler: "sleep", or what it does next             *)
  link,       (* "up"; "dead": closed by the peer, still counted; "down"  *)
  requests,   (* requests executed                                        *)
  asked,      (* history: the ON time last requested of each actuator     *)
  elapsed,    (* history: ticks since, while it runs                      *)
  since,      (* history: ticks since a sensor's interval last began      *)
  wanted,     (* history: the interval requested of each active sensor    *)
  believes,   (* history: what the gateway was last told of each actuator *)
  lost        (* history: a response or an actuator report did not arrive *)

actuators == <<value, aState, aCount, relay, TransActuatorDataCount, asked, elapsed>>
sensors == <<mode, time, sState, sCount, sInterval, TransSensorDataCount, since, wanted>>
gateway == <<believes, lost>>
vars == <<actuators, sensors, main, timer, link, requests, gateway>>

\* PacketVariable_init; the relays are as an earlier run of the daemon left them.
Init ==
  /\ value = [i \in Actuator |-> 0]
  /\ aState = [i \in Actuator |-> FALSE]
  /\ aCount = [i \in Actuator |-> 0]
  /\ relay \in [Actuator -> BOOLEAN]
  /\ TransActuatorDataCount = 0
  /\ mode = [s \in Sensor |-> "PASSIVE"]
  /\ time = [s \in Sensor |-> [unit |-> "sec", n |-> 0]]
  /\ sState = [s \in Sensor |-> FALSE]
  /\ sCount = [s \in Sensor |-> 0]
  /\ sInterval = [s \in Sensor |-> 0]
  /\ TransSensorDataCount = 0
  /\ main = "starting"
  /\ timer = "sleep"
  /\ link = "down"
  /\ requests = 0
  /\ asked = [i \in Actuator |-> 0]
  /\ elapsed = [i \in Actuator |-> 0]
  /\ since = [s \in Sensor |-> 0]
  /\ wanted = [s \in Sensor |-> 0]
  /\ believes = [i \in Actuator |-> FALSE]
  /\ lost = FALSE

-----------------------------------------------------------------------------
(* The connection to the gateway.                                          *)

PeerCloses ==
  /\ link = "up"
  /\ link' = "dead"
  /\ UNCHANGED <<actuators, sensors, main, timer, requests, gateway>>

\* Read_Thread notices and takes the connection out of the table.
ConnectionEnds ==
  /\ link = "dead"
  /\ link' = "down"
  /\ UNCHANGED <<actuators, sensors, main, timer, requests, gateway>>

\* main: ClientConnect succeeds.
Reconnect ==
  /\ link = "down"
  /\ link' = "up"
  /\ UNCHANGED <<actuators, sensors, main, timer, requests, gateway>>

\* Mistake: relays are left as they were.
StartupLeaves ==
  /\ main = "starting"
  /\ main' = "running"
  /\ TransSensorDataCount' = 0
  /\ UNCHANGED <<actuators, mode, time, sState, sCount, sInterval, since, wanted,
                 timer, link, requests, gateway>>

\* main, before its loop: every relay off, and the first sensor values.
Startup ==
  /\ main = "starting"
  /\ main' = "running"
  /\ relay' = [i \in Actuator |-> FALSE]
  /\ TransSensorDataCount' = 0
  /\ UNCHANGED <<value, aState, aCount, TransActuatorDataCount, asked, elapsed,
                 mode, time, sState, sCount, sInterval, since, wanted,
                 timer, link, requests, gateway>>

-----------------------------------------------------------------------------
(* The requests of the gateway: ParsingRequest, then                       *)
(* HardwareControlForTTA12Packet, then the response.                       *)

Request ==
  /\ main = "running"
  /\ timer = "sleep"
  /\ requests < MaxRequests
  /\ requests' = requests + 1
  /\ lost' = (lost \/ link # "up")

\* n more reports are pending, in a count that stops at TransMax.
Counted(count, n) == IF count + n < TransMax THEN count + n ELSE TransMax

RunFor(i, v) ==
  /\ value' = [value EXCEPT ![i] = v]
  /\ relay' = [relay EXCEPT ![i] = (v > 0)]
  /\ asked' = [asked EXCEPT ![i] = v]
  /\ elapsed' = [elapsed EXCEPT ![i] = 0]
  /\ believes' = IF link = "up" THEN [believes EXCEPT ![i] = (v > 0)] ELSE believes

\* Mistake: the report of switching off is not counted.
ActuatorSetUncounted(i, v) ==
  /\ Request
  /\ RunFor(i, v)
  /\ IF v > 0
     THEN aCount' = [aCount EXCEPT ![i] = v] /\ UNCHANGED aState
     ELSE aState' = [aState EXCEPT ![i] = TRUE] /\ UNCHANGED aCount
  /\ UNCHANGED <<TransActuatorDataCount, sensors, main, timer, link>>

\* REQCMD_ACTUATOR_SET of one actuator; a request of several is several of these.
ActuatorSet(i, v) ==
  /\ Request
  /\ RunFor(i, v)
  /\ IF v > 0
     THEN /\ aCount' = [aCount EXCEPT ![i] = v]
          /\ UNCHANGED <<aState, TransActuatorDataCount>>
     ELSE /\ aState' = [aState EXCEPT ![i] = TRUE]
          /\ TransActuatorDataCount' = Counted(TransActuatorDataCount, 1)
          /\ UNCHANGED aCount
  /\ UNCHANGED <<sensors, main, timer, link>>

\* REQCMD_INIT: the relays of the node are reset, the sensors no longer counted.
NodeInit(node) ==
  /\ Request
  /\ relay' = [i \in Actuator |-> IF i \div Channels = node THEN FALSE ELSE relay[i]]
  /\ believes' = IF link = "up"
                 THEN [i \in Actuator |-> IF i \div Channels = node THEN FALSE ELSE believes[i]]
                 ELSE believes
  /\ sCount' = [s \in Sensor |-> 0]
  /\ wanted' = [s \in Sensor |-> 0]
  /\ UNCHANGED <<value, aState, aCount, TransActuatorDataCount, asked, elapsed,
                 mode, time, sState, sInterval, TransSensorDataCount, since,
                 main, timer, link>>

\* What a sensor request says of its sensors, in order: [s, unit, n].
Payload == UNION {[1 .. k -> [s : Sensor, unit : Unit, n : Number]] : k \in 1 .. MaxPayload}

Named(p) == {p[k].s : k \in DOMAIN p}
LastOf(p, s) == CHOOSE k \in DOMAIN p :
                  p[k].s = s /\ \A j \in DOMAIN p : p[j].s = s => j <= k

\* SensorModeSet.
ModeSet(m, p) ==
  /\ mode' = [s \in Sensor |-> IF s \in Named(p) THEN m ELSE mode[s]]
  /\ time' = [s \in Sensor |-> IF s \in Named(p)
                               THEN LET e == p[LastOf(p, s)] IN [unit |-> e.unit, n |-> e.n]
                               ELSE time[s]]

\* The interval of sensor s: the number is its own, the unit that of the sensor
\* whose place is s's position in the request.
Interval(p, s) == time'[s].n * UnitTicks[time'[LastOf(p, s) - 1].unit]

ActiveMode(p) ==
  /\ Request
  /\ ModeSet("ACTIVE", p)
  /\ sCount' = [s \in Sensor |-> IF s \in Named(p) THEN Interval(p, s) ELSE sCount[s]]
  /\ sInterval' = [s \in Sensor |-> IF s \in Named(p) THEN Interval(p, s) ELSE sInterval[s]]
  /\ since' = [s \in Sensor |-> IF s \in Named(p) THEN 0 ELSE since[s]]
  /\ wanted' = [s \in Sensor |-> IF s \in Named(p)
                                 THEN time'[s].n * UnitTicks[time'[s].unit] ELSE wanted[s]]
  /\ UNCHANGED <<sState, TransSensorDataCount, actuators, main, timer, link, believes>>

\* TransPassiveModeSensorData sends the values, and clears the interval of the
\* sensor whose identifier is the position in the request, in the request's node.
Cleared(node, p) == {node * Channels + k - 1 : k \in DOMAIN p}

PassiveMode(node, p) ==
  /\ Request
  /\ ModeSet("PASSIVE", p)
  /\ sInterval' = [s \in Sensor |-> IF s \in Cleared(node, p) THEN 0 ELSE sInterval[s]]
  /\ wanted' = [s \in Sensor |-> IF s \in Named(p) THEN 0 ELSE wanted[s]]
  /\ UNCHANGED <<sState, sCount, TransSensorDataCount, since, actuators, main, timer, link,
                 believes>>

EventMode(p) ==
  /\ Request
  /\ ModeSet("EVENT", p)
  /\ wanted' = [s \in Sensor |-> IF s \in Named(p) THEN 0 ELSE wanted[s]]
  /\ UNCHANGED <<sState, sCount, sInterval, TransSensorDataCount, since, actuators, main,
                 timer, link, believes>>

-----------------------------------------------------------------------------
(* Timer_handler, once a second, with cmd_mutex held from the first count  *)
(* to the last packet.                                                     *)

Runs(i) == value[i] > 0 /\ value[i] # Always
Expired == {i \in Actuator : value[i] = 1 /\ 1 # Always}
\* Mistake: the value that means for ever is counted down.
LeftAlways(i) == IF value[i] > 0 THEN value[i] - 1 ELSE value[i]

Left(i) == IF Runs(i) THEN value[i] - 1 ELSE value[i]

\* The actuators that stay on and whose report is due.
OnDue == {i \in Actuator : Left(i) > 0 /\ aCount[i] = 1}
Reporting(s) == mode[s] = "ACTIVE" /\ sCount[s] > 0
SensorDue == {s \in Sensor : Reporting(s) /\ sCount[s] = 1}

CountActuators ==
  /\ value' = [i \in Actuator |-> Left(i)]
  /\ aCount' = [i \in Actuator |->
                 IF i \in OnDue THEN OnInterval
                 ELSE IF Left(i) > 0 /\ aCount[i] > 0 THEN aCount[i] - 1 ELSE aCount[i]]
  /\ aState' = [i \in Actuator |-> aState[i] \/ i \in Expired \union OnDue]
  /\ TransActuatorDataCount' =
       Counted(TransActuatorDataCount, Cardinality(Expired) + Cardinality(OnDue))
  /\ relay' = [i \in Actuator |-> relay[i] /\ i \notin Expired]
  /\ elapsed' = [i \in Actuator |-> IF Runs(i) THEN elapsed[i] + 1 ELSE elapsed[i]]
  /\ UNCHANGED asked

\* Mistake: the next interval is one tick short.
CountSensorsShort ==
  /\ sCount' = [s \in Sensor |->
                 IF s \in SensorDue THEN sInterval[s] - 1
                 ELSE IF Reporting(s) THEN sCount[s] - 1 ELSE sCount[s]]
  /\ sState' = [s \in Sensor |-> sState[s] \/ s \in SensorDue]
  /\ TransSensorDataCount' = Counted(TransSensorDataCount, Cardinality(SensorDue))
  /\ since' = [s \in Sensor |->
                IF s \in SensorDue THEN 0 ELSE IF Reporting(s) THEN since[s] + 1 ELSE since[s]]
  /\ UNCHANGED <<mode, time, sInterval, wanted>>

CountSensors ==
  /\ sCount' = [s \in Sensor |->
                 IF s \in SensorDue THEN sInterval[s]
                 ELSE IF Reporting(s) THEN sCount[s] - 1 ELSE sCount[s]]
  /\ sState' = [s \in Sensor |-> sState[s] \/ s \in SensorDue]
  /\ TransSensorDataCount' = Counted(TransSensorDataCount, Cardinality(SensorDue))
  /\ since' = [s \in Sensor |->
                IF s \in SensorDue THEN 0 ELSE IF Reporting(s) THEN since[s] + 1 ELSE since[s]]
  /\ UNCHANGED <<mode, time, sInterval, wanted>>

CountDown ==
  /\ timer = "sleep"
  /\ timer' = "sensors"
  /\ CountActuators
  /\ CountSensors
  /\ UNCHANGED <<main, link, requests, gateway>>

\* TransActiveModeSensorData(0x04).
SendSensors ==
  /\ timer = "sensors"
  /\ timer' = "actuators"
  /\ IF TransSensorDataCount > 0 /\ link # "down"
     THEN /\ sState' = [s \in Sensor |-> FALSE]
          /\ TransSensorDataCount' = 0
     ELSE UNCHANGED <<sState, TransSensorDataCount>>
  /\ UNCHANGED <<mode, time, sCount, sInterval, since, wanted, actuators, main, link,
                 requests, gateway>>

\* Mistakes: the connection is not looked at; only one report is sent, and the
\* count is cleared.
SendActuatorsAnyway ==
  /\ timer = "actuators"
  /\ timer' = "sleep"
  /\ aState' = [i \in Actuator |-> FALSE]
  /\ TransActuatorDataCount' = 0
  /\ believes' = [i \in Actuator |->
                   IF aState[i] /\ link = "up" THEN value[i] > 0 ELSE believes[i]]
  /\ UNCHANGED <<value, aCount, relay, asked, elapsed, sensors, main, link, requests, lost>>
SendActuatorsOne ==
  /\ timer = "actuators"
  /\ timer' = "sleep"
  /\ IF TransActuatorDataCount > 0 /\ link # "down"
     THEN /\ aState' = [aState EXCEPT ![CHOOSE i \in Actuator : aState[i]] = FALSE]
          /\ TransActuatorDataCount' = 0
     ELSE UNCHANGED <<aState, TransActuatorDataCount>>
  /\ UNCHANGED <<value, aCount, relay, asked, elapsed, sensors, main, link, requests, gateway>>

\* TransOnStatusActuatorData(0x04).
SendActuators ==
  /\ timer = "actuators"
  /\ timer' = "sleep"
  /\ IF TransActuatorDataCount > 0 /\ link # "down"
     THEN /\ aState' = [i \in Actuator |-> FALSE]
          /\ TransActuatorDataCount' = 0
          /\ believes' = [i \in Actuator |->
                           IF aState[i] /\ link = "up" THEN value[i] > 0 ELSE believes[i]]
          /\ lost' = (lost \/ link = "dead")
     ELSE UNCHANGED <<aState, TransActuatorDataCount, gateway>>
  /\ UNCHANGED <<value, aCount, relay, asked, elapsed, sensors, main, link, requests>>

-----------------------------------------------------------------------------
\* The requests of the gateway; its DATA and RESPONSE packets are left out.
GatewayRequest ==
  \/ \E i \in Actuator, v \in Value : ActuatorSet(i, v)
  \/ \E node \in 0 .. ANodes - 1 : NodeInit(node)
  \/ \E p \in Payload : ActiveMode(p) \/ EventMode(p)
  \/ \E p \in Payload, node \in 0 .. SNodes - 1 : PassiveMode(node, p)

TimerHandler == CountDown \/ SendSensors \/ SendActuators

Next == PeerCloses \/ ConnectionEnds \/ Reconnect \/ Startup \/ GatewayRequest \/ TimerHandler

Spec == Init /\ [][Next]_vars

\* The timer thread keeps running.
FairSpec == Spec /\ WF_vars(TimerHandler)

-----------------------------------------------------------------------------
\* The variables have their types; the counts of pending reports stop at TransMax.
TypeOK ==
  /\ value \in [Actuator -> 0 .. Always]
  /\ aState \in [Actuator -> BOOLEAN]
  /\ aCount \in [Actuator -> Nat]
  /\ relay \in [Actuator -> BOOLEAN]
  /\ TransActuatorDataCount \in 0 .. TransMax
  /\ mode \in [Sensor -> {"PASSIVE", "ACTIVE", "EVENT"}]
  /\ time \in [Sensor -> [unit : Unit, n : Nat]]
  /\ sState \in [Sensor -> BOOLEAN]
  /\ sCount \in [Sensor -> Nat]
  /\ sInterval \in [Sensor -> Nat]
  /\ TransSensorDataCount \in 0 .. TransMax
  /\ main \in {"starting", "running"}
  /\ timer \in {"sleep", "sensors", "actuators"}
  /\ link \in {"up", "dead", "down"}
  /\ requests \in 0 .. MaxRequests
  /\ asked \in [Actuator -> 0 .. Always]
  /\ elapsed \in [Actuator -> Nat]
  /\ since \in [Sensor -> Nat]
  /\ wanted \in [Sensor -> Nat]
  /\ believes \in [Actuator -> BOOLEAN]
  /\ lost \in BOOLEAN

\* Once the daemon has started, no relay is on without a running timer: whatever
\* an earlier run left on, every actuator that is on will be switched off.
OnOnlyWhileTimed ==
  main = "running" => \A i \in Actuator : relay[i] => value[i] > 0

\* A timed actuator runs for the ticks requested last, no fewer and no more, and
\* one that is on for ever is never counted.
RunsForItsTime ==
  \A i \in Actuator :
    /\ Runs(i) => value[i] + elapsed[i] = asked[i]
    /\ value[i] = Always => asked[i] = Always /\ elapsed[i] = 0
    /\ value[i] = 0 => elapsed[i] = asked[i]

\* A report that is due is counted, so that the next tick with a connection sends it.
DueIsCounted ==
  /\ (\E i \in Actuator : aState[i]) => TransActuatorDataCount > 0
  /\ (\E s \in Sensor : sState[s]) => TransSensorDataCount > 0

\* A counting sensor reports every sInterval ticks without drift, however late its
\* packets are sent.
ReportsOnSchedule ==
  \A s \in Sensor : Reporting(s) /\ sInterval[s] > 0 => sCount[s] + since[s] = sInterval[s]

\* Between two ticks, and if nothing was lost on the way, the gateway knows which
\* relays are on, but for those that REQCMD_INIT reset under a running timer and
\* those whose report is pending.
ResetWhileRunning(i) == value[i] > 0 /\ ~relay[i]
GatewayKnows ==
  main = "running" /\ timer = "sleep" /\ ~lost =>
    \A i \in Actuator : believes[i] = relay[i] \/ aState[i] \/ ResetWhileRunning(i)

\* If the connection comes back for good, the reports that are due are sent: again
\* and again no report is pending.
EveryReportSent ==
  <>[](link = "up") =>
    []<>((\A i \in Actuator : ~aState[i]) /\ (\A s \in Sensor : ~sState[s]))

\* An active sensor is "set to be acquired at the specified interval".
IntervalAsRequested ==
  \A s \in Sensor : mode[s] = "ACTIVE" /\ wanted[s] > 0 => sInterval[s] = wanted[s]
=============================================================================
