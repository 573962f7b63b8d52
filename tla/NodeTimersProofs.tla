-------------------------- MODULE NodeTimersProofs --------------------------
(***************************************************************************)
(* Proofs about NodeTimers: for any number of nodes and channels and any   *)
(* requests, actuators run exactly as long as they were asked to, no       *)
(* report that is due is forgotten, sensors report on their schedule and   *)
(* the gateway knows the relays unless something was lost.                 *)
(***************************************************************************)
EXTENDS NodeTimers, FiniteSetTheorems, WellFoundedInduction, TLAPS

\* The types of what the invariant speaks of.
Types ==
  /\ value \in [Actuator -> 0 .. Always]
  /\ aState \in [Actuator -> BOOLEAN]
  /\ aCount \in [Actuator -> Nat]
  /\ relay \in [Actuator -> BOOLEAN]
  /\ asked \in [Actuator -> 0 .. Always]
  /\ elapsed \in [Actuator -> Nat]
  /\ sState \in [Sensor -> BOOLEAN]
  /\ TransActuatorDataCount \in Nat
  /\ TransSensorDataCount \in Nat

\* No sensor reports before the daemon has started, when its count is cleared.
StartsPassive ==
  main = "starting" => \A s \in Sensor : mode[s] = "PASSIVE" /\ ~sState[s]

TimersInv == Types /\ StartsPassive /\ OnOnlyWhileTimed /\ RunsForItsTime /\ DueIsCounted

-----------------------------------------------------------------------------
LEMMA TimersInit == Init => TimersInv
<1> SUFFICES ASSUME Init PROVE TimersInv
  OBVIOUS
<1>1. Types
  BY NodeTimersAssumption DEF Init, Types
<1>2. RunsForItsTime
  BY NodeTimersAssumption DEF Init, RunsForItsTime, Runs
<1>3. StartsPassive /\ OnOnlyWhileTimed /\ DueIsCounted
  BY DEF Init, StartsPassive, OnOnlyWhileTimed, DueIsCounted
<1> QED
  BY <1>1, <1>2, <1>3 DEF TimersInv

\* A set of devices has a cardinality, which is positive when it is not empty.
LEMMA CountPositive ==
  ASSUME NEW S \in (SUBSET Actuator) \union (SUBSET Sensor)
  PROVE  Cardinality(S) \in Nat /\ (S # {} => Cardinality(S) > 0)
<1>1. IsFiniteSet(Actuator) /\ IsFiniteSet(Sensor)
  <2> DEFINE a == ANodes * Channels - 1
             s == SNodes * Channels - 1
  <2>1. a \in Int /\ s \in Int
    BY NodeTimersAssumption
  <2> HIDE DEF a, s
  <2>2. IsFiniteSet(0 .. a) /\ IsFiniteSet(0 .. s)
    BY <2>1, FS_Interval
  <2> QED
    BY <2>2 DEF Actuator, Sensor, a, s
<1>2. IsFiniteSet(S)
  <2>1. CASE S \in SUBSET Actuator
    BY <1>1, <2>1, FS_Subset
  <2>2. CASE S \in SUBSET Sensor
    BY <1>1, <2>2, FS_Subset
  <2> QED
    BY <2>1, <2>2
<1>3. Cardinality(S) \in Nat
  BY <1>2, FS_CardinalityType
<1>4. S # {} => Cardinality(S) # 0
  BY <1>2, FS_EmptySet
<1> QED
  BY <1>3, <1>4

\* Counting n more pending reports leaves the count positive when it or n is.
LEMMA CountedPositive ==
  ASSUME NEW c \in Nat, NEW n \in Nat
  PROVE  Counted(c, n) \in Nat /\ (c > 0 \/ n > 0 => Counted(c, n) > 0)
BY NodeTimersAssumption DEF Counted

-----------------------------------------------------------------------------
(* Each step preserves the invariant.                                      *)

\* Steps that touch neither the timers nor the counts of reports.
LEMMA OthersKeep ==
  ASSUME TimersInv, UNCHANGED <<actuators, sState, TransSensorDataCount, main>>,
         main = "running" \/ UNCHANGED mode
  PROVE  TimersInv'
<1>1. Types'
  BY DEF TimersInv, Types, actuators
<1>2. RunsForItsTime'
  BY DEF TimersInv, RunsForItsTime, Runs, actuators
<1>3. StartsPassive' /\ OnOnlyWhileTimed' /\ DueIsCounted'
  BY DEF TimersInv, StartsPassive, OnOnlyWhileTimed, DueIsCounted, actuators
<1> QED
  BY <1>1, <1>2, <1>3 DEF TimersInv

LEMMA StartupKeeps ==
  ASSUME TimersInv, Startup
  PROVE  TimersInv'
<1>1. Types'
  BY DEF TimersInv, Types, Startup
<1>2. RunsForItsTime'
  BY DEF TimersInv, RunsForItsTime, Runs, Startup
<1>3. StartsPassive' /\ OnOnlyWhileTimed'
  BY DEF StartsPassive, OnOnlyWhileTimed, Startup
<1>4. DueIsCounted'
  BY DEF TimersInv, StartsPassive, DueIsCounted, Startup
<1> QED
  BY <1>1, <1>2, <1>3, <1>4 DEF TimersInv

LEMMA ActuatorSetKeeps ==
  ASSUME TimersInv, NEW i \in Actuator, NEW v \in Value, ActuatorSet(i, v)
  PROVE  TimersInv'
<1>1. v \in 0 .. Always
  BY NodeTimersAssumption
<1>2. /\ value' = [value EXCEPT ![i] = v]
      /\ relay' = [relay EXCEPT ![i] = (v > 0)]
      /\ asked' = [asked EXCEPT ![i] = v]
      /\ elapsed' = [elapsed EXCEPT ![i] = 0]
  BY DEF ActuatorSet, RunFor
<1>3. /\ UNCHANGED <<sState, TransSensorDataCount, main>>
      /\ main = "running"
  BY DEF ActuatorSet, Request, sensors
<1>6. RunsForItsTime'
  BY <1>1, <1>2, NodeTimersAssumption DEF TimersInv, Types, RunsForItsTime, Runs
<1>7. StartsPassive' /\ OnOnlyWhileTimed'
  BY <1>1, <1>2, <1>3 DEF TimersInv, Types, StartsPassive, OnOnlyWhileTimed
<1>4. CASE v > 0
  <2>1. aCount' = [aCount EXCEPT ![i] = v] /\ UNCHANGED <<aState, TransActuatorDataCount>>
    BY <1>4 DEF ActuatorSet
  <2>2. Types'
    BY <1>1, <1>2, <1>3, <2>1 DEF TimersInv, Types
  <2>3. DueIsCounted'
    BY <1>3, <2>1 DEF TimersInv, DueIsCounted
  <2> QED
    BY <1>6, <1>7, <2>2, <2>3 DEF TimersInv
<1>5. CASE ~(v > 0)
  <2>1. /\ aState' = [aState EXCEPT ![i] = TRUE]
        /\ TransActuatorDataCount' = Counted(TransActuatorDataCount, 1)
        /\ UNCHANGED aCount
    BY <1>5 DEF ActuatorSet
  <2>2. TransActuatorDataCount' \in Nat /\ TransActuatorDataCount' > 0
    BY <2>1, CountedPositive DEF TimersInv, Types
  <2>3. Types'
    BY <1>1, <1>2, <1>3, <2>1, <2>2 DEF TimersInv, Types
  <2>4. DueIsCounted'
    BY <1>3, <2>2 DEF TimersInv, DueIsCounted
  <2> QED
    BY <1>6, <1>7, <2>3, <2>4 DEF TimersInv
<1> QED
  BY <1>4, <1>5

LEMMA NodeInitKeeps ==
  ASSUME TimersInv, NEW node, NodeInit(node)
  PROVE  TimersInv'
<1>1. Types'
  BY DEF TimersInv, Types, NodeInit
<1>2. RunsForItsTime'
  BY DEF TimersInv, RunsForItsTime, Runs, NodeInit
<1>3. OnOnlyWhileTimed'
  BY DEF TimersInv, Types, OnOnlyWhileTimed, NodeInit
<1>4. StartsPassive' /\ DueIsCounted'
  BY DEF TimersInv, StartsPassive, DueIsCounted, NodeInit
<1> QED
  BY <1>1, <1>2, <1>3, <1>4 DEF TimersInv

\* A tick: a timer that ends takes its relay with it, and whatever comes due is
\* counted.
LEMMA CountDownKeeps ==
  ASSUME TimersInv, CountDown
  PROVE  TimersInv'
<1>1. Types
  BY DEF TimersInv
<1>2. \A i \in Actuator : /\ Left(i) \in 0 .. Always
                          /\ value'[i] = Left(i)
                          /\ Left(i) = Always <=> value[i] = Always
                          /\ Left(i) = 0 <=> value[i] = 0 \/ i \in Expired
  <2> SUFFICES ASSUME NEW i \in Actuator
               PROVE  /\ Left(i) \in 0 .. Always
                      /\ value'[i] = Left(i)
                      /\ Left(i) = Always <=> value[i] = Always
                      /\ Left(i) = 0 <=> value[i] = 0 \/ i \in Expired
    OBVIOUS
  <2>1. value'[i] = Left(i)
    BY DEF CountDown, CountActuators
  <2>2. value[i] \in 0 .. Always /\ Always \in Nat \ {0}
    BY <1>1, NodeTimersAssumption DEF Types
  <2>3. i \in Expired <=> value[i] = 1 /\ 1 # Always
    BY DEF Expired
  <2>4. Left(i) = IF value[i] > 0 /\ value[i] # Always THEN value[i] - 1 ELSE value[i]
    BY DEF Left, Runs
  <2> QED
    BY <2>1, <2>2, <2>3, <2>4
<1>3. Expired \subseteq Actuator /\ OnDue \subseteq Actuator /\ SensorDue \subseteq Sensor
  BY DEF Expired, OnDue, SensorDue
<1>4. /\ Cardinality(Expired) \in Nat /\ (Expired # {} => Cardinality(Expired) > 0)
      /\ Cardinality(OnDue) \in Nat /\ (OnDue # {} => Cardinality(OnDue) > 0)
      /\ Cardinality(SensorDue) \in Nat /\ (SensorDue # {} => Cardinality(SensorDue) > 0)
  <2>1. /\ Expired \in (SUBSET Actuator) \union (SUBSET Sensor)
        /\ OnDue \in (SUBSET Actuator) \union (SUBSET Sensor)
        /\ SensorDue \in (SUBSET Actuator) \union (SUBSET Sensor)
    BY <1>3
  <2> DEFINE Sized(S) == Cardinality(S) \in Nat /\ (S # {} => Cardinality(S) > 0)
  <2>2. \A S \in (SUBSET Actuator) \union (SUBSET Sensor) : Sized(S)
    BY CountPositive
  <2> HIDE DEF Sized
  <2>3. Sized(Expired) /\ Sized(OnDue) /\ Sized(SensorDue)
    BY <2>1, <2>2
  <2> QED
    BY <2>3 DEF Sized
<1>5. /\ Cardinality(Expired) + Cardinality(OnDue) \in Nat
      /\ Expired \union OnDue # {} => Cardinality(Expired) + Cardinality(OnDue) > 0
  BY <1>4
<1>6. /\ TransActuatorDataCount' \in Nat
      /\ TransActuatorDataCount > 0 \/ Expired \union OnDue # {} => TransActuatorDataCount' > 0
  BY <1>1, <1>5, CountedPositive DEF Types, CountDown, CountActuators
<1>7. /\ TransSensorDataCount' \in Nat
      /\ TransSensorDataCount > 0 \/ SensorDue # {} => TransSensorDataCount' > 0
  BY <1>1, <1>4, CountedPositive DEF Types, CountDown, CountSensors
<1>8. /\ aState' = [i \in Actuator |-> aState[i] \/ i \in Expired \union OnDue]
      /\ sState' = [s \in Sensor |-> sState[s] \/ s \in SensorDue]
      /\ relay' = [i \in Actuator |-> relay[i] /\ i \notin Expired]
      /\ elapsed' = [i \in Actuator |-> IF Runs(i) THEN elapsed[i] + 1 ELSE elapsed[i]]
      /\ UNCHANGED <<asked, main, mode>>
  BY DEF CountDown, CountActuators, CountSensors
<1>9. Types'
  <2>1. value' \in [Actuator -> 0 .. Always]
    BY <1>2 DEF CountDown, CountActuators
  <2>2. aCount' \in [Actuator -> Nat]
    BY <1>1, NodeTimersAssumption DEF Types, CountDown, CountActuators
  <2>3. elapsed' \in [Actuator -> Nat]
    BY <1>1, <1>8 DEF Types
  <2>4. relay' \in [Actuator -> BOOLEAN] /\ aState' \in [Actuator -> BOOLEAN]
        /\ sState' \in [Sensor -> BOOLEAN]
    BY <1>8
  <2> QED
    BY <1>1, <1>6, <1>7, <1>8, <2>1, <2>2, <2>3, <2>4 DEF Types
<1>10. StartsPassive'
  BY <1>8 DEF TimersInv, StartsPassive, SensorDue, Reporting
<1>11. OnOnlyWhileTimed'
  <2> SUFFICES ASSUME main = "running", NEW i \in Actuator, relay'[i]
               PROVE  value'[i] > 0
    BY <1>8 DEF OnOnlyWhileTimed
  <2>1. relay[i] /\ i \notin Expired
    BY <1>8
  <2>2. value[i] > 0
    BY <2>1 DEF TimersInv, OnOnlyWhileTimed
  <2> QED
    BY <1>1, <1>2, <2>1, <2>2 DEF Types
<1>12. RunsForItsTime'
  <2> SUFFICES ASSUME NEW i \in Actuator
               PROVE  /\ value'[i] > 0 /\ value'[i] # Always
                         => value'[i] + elapsed'[i] = asked'[i]
                      /\ value'[i] = Always => asked'[i] = Always /\ elapsed'[i] = 0
                      /\ value'[i] = 0 => elapsed'[i] = asked'[i]
    BY DEF RunsForItsTime, Runs
  <2>1. CASE Runs(i)
    <3>1. value'[i] = value[i] - 1 /\ elapsed'[i] = elapsed[i] + 1 /\ asked'[i] = asked[i]
      BY <1>2, <1>8, <2>1 DEF Left
    <3>2. value[i] + elapsed[i] = asked[i]
      BY <2>1 DEF TimersInv, RunsForItsTime
    <3> QED
      BY <1>1, <2>1, <3>1, <3>2, NodeTimersAssumption DEF Types, Runs
  <2>2. CASE ~Runs(i)
    <3>1. value'[i] = value[i] /\ elapsed'[i] = elapsed[i] /\ asked'[i] = asked[i]
      BY <1>2, <1>8, <2>2 DEF Left
    <3> QED
      BY <3>1 DEF TimersInv, RunsForItsTime, Runs
  <2> QED
    BY <2>1, <2>2
<1>13. DueIsCounted'
  BY <1>6, <1>7, <1>8 DEF TimersInv, DueIsCounted
<1> QED
  BY <1>9, <1>10, <1>11, <1>12, <1>13 DEF TimersInv

LEMMA SendSensorsKeeps ==
  ASSUME TimersInv, SendSensors
  PROVE  TimersInv'
<1>1. UNCHANGED <<value, aState, aCount, relay, TransActuatorDataCount, asked, elapsed,
                  main, mode>>
  BY DEF SendSensors, actuators
<1>2. CASE TransSensorDataCount > 0 /\ link # "down"
  <2>1. sState' = [s \in Sensor |-> FALSE] /\ TransSensorDataCount' = 0
    BY <1>2 DEF SendSensors
  <2> QED
    BY <1>1, <2>1
    DEF TimersInv, Types, StartsPassive, OnOnlyWhileTimed, RunsForItsTime, Runs, DueIsCounted
<1>3. CASE ~(TransSensorDataCount > 0 /\ link # "down")
  BY <1>1, <1>3, OthersKeep DEF SendSensors, actuators
<1> QED
  BY <1>2, <1>3

LEMMA SendActuatorsKeeps ==
  ASSUME TimersInv, SendActuators
  PROVE  TimersInv'
<1>1. UNCHANGED <<value, aCount, relay, asked, elapsed, sState, TransSensorDataCount,
                  main, mode>>
  BY DEF SendActuators, sensors
<1>2. CASE TransActuatorDataCount > 0 /\ link # "down"
  <2>1. aState' = [i \in Actuator |-> FALSE] /\ TransActuatorDataCount' = 0
    BY <1>2 DEF SendActuators
  <2> QED
    BY <1>1, <2>1
    DEF TimersInv, Types, StartsPassive, OnOnlyWhileTimed, RunsForItsTime, Runs, DueIsCounted
<1>3. CASE ~(TransActuatorDataCount > 0 /\ link # "down")
  BY <1>1, <1>3, OthersKeep DEF SendActuators, actuators
<1> QED
  BY <1>2, <1>3

-----------------------------------------------------------------------------
(* The theorems.                                                           *)

\* The inductive invariant of the timers and of the counts of pending reports.
THEOREM TimersInvariant == Spec => []TimersInv
<1>1. Init => TimersInv
  BY TimersInit
<1>2. TimersInv /\ [Next]_vars => TimersInv'
  <2> SUFFICES ASSUME TimersInv, [Next]_vars PROVE TimersInv'
    OBVIOUS
  <2>1. CASE PeerCloses \/ ConnectionEnds \/ Reconnect
    BY <2>1, OthersKeep DEF PeerCloses, ConnectionEnds, Reconnect, sensors
  <2>2. CASE Startup
    BY <2>2, StartupKeeps
  <2>3. CASE \E i \in Actuator, v \in Value : ActuatorSet(i, v)
    BY <2>3, ActuatorSetKeeps
  <2>4. CASE \E node \in 0 .. ANodes - 1 : NodeInit(node)
    BY <2>4, NodeInitKeeps
  <2>5. CASE \E p \in Payload : ActiveMode(p) \/ EventMode(p)
    BY <2>5, OthersKeep DEF ActiveMode, EventMode, Request
  <2>6. CASE \E p \in Payload, node \in 0 .. SNodes - 1 : PassiveMode(node, p)
    BY <2>6, OthersKeep DEF PassiveMode, Request
  <2>7. CASE TimerHandler
    BY <2>7, CountDownKeeps, SendSensorsKeeps, SendActuatorsKeeps DEF TimerHandler
  <2>8. CASE UNCHANGED vars
    BY <2>8, OthersKeep DEF vars, sensors
  <2> QED
    BY <2>1, <2>2, <2>3, <2>4, <2>5, <2>6, <2>7, <2>8 DEF Next, GatewayRequest
<1> QED
  BY <1>1, <1>2, PTL DEF Spec

\* Once the daemon has started, every relay that is on has a running timer that
\* will switch it off, whatever an earlier run left on.
THEOREM OnWhileTimed == Spec => []OnOnlyWhileTimed
<1>1. TimersInv => OnOnlyWhileTimed
  BY DEF TimersInv
<1> QED
  BY <1>1, TimersInvariant, PTL

\* An actuator runs for exactly the ticks requested last.
THEOREM ForItsTime == Spec => []RunsForItsTime
<1>1. TimersInv => RunsForItsTime
  BY DEF TimersInv
<1> QED
  BY <1>1, TimersInvariant, PTL

\* No report that is due is left uncounted, although the counts stop at TransMax.
THEOREM Counts == Spec => []DueIsCounted
<1>1. TimersInv => DueIsCounted
  BY DEF TimersInv
<1> QED
  BY <1>1, TimersInvariant, PTL
-----------------------------------------------------------------------------
(* The schedule of the sensors' reports.                                   *)

Schedules ==
  /\ sCount \in [Sensor -> Int]
  /\ sInterval \in [Sensor -> Int]
  /\ since \in [Sensor -> Int]
  /\ time \in [Sensor -> [unit : Unit, n : Nat]]

ScheduleInv == Schedules /\ ReportsOnSchedule

\* A set of naturals that is not empty has a least member.
LEMMA LeastNatural ==
  ASSUME NEW S \in SUBSET Nat, S # {}
  PROVE  \E b \in S : \A c \in S : b <= c
<1> DEFINE R == OpToRel(<, Nat)
<1>1. IsWellFoundedOn(R, Nat)
  BY NatLessThanWellFounded
<1>2. \A b, c \in Nat : c < b => <<c, b>> \in R
  BY DEF OpToRel
<1> HIDE DEF R
<1>3. PICK b \in S : \A c \in S : <<c, b>> \notin R
  BY <1>1, WFMin
<1>4. ASSUME NEW c \in S PROVE b <= c
  <2>1. b \in Nat /\ c \in Nat
    OBVIOUS
  <2>2. ~(c < b)
    BY <1>2, <1>3, <2>1
  <2> QED
    BY <2>1, <2>2
<1> QED
  BY <1>4

\* Of the places of a request that name a sensor one is the last, and as a position
\* it is the place of a sensor too: this is the one whose unit the code takes.
LEMMA LastIsAPlace ==
  ASSUME NEW p \in Payload, NEW s \in Named(p)
  PROVE  /\ LastOf(p, s) \in DOMAIN p
         /\ LastOf(p, s) - 1 \in Sensor
<1>1. PICK k \in 1 .. MaxPayload : p \in [1 .. k -> [s : Sensor, unit : Unit, n : Number]]
  BY DEF Payload
<1>2. DOMAIN p = 1 .. k
  BY <1>1
<1>3. k \in Nat
  BY NodeTimersAssumption
<1> DEFINE places == {j \in 1 .. k : p[j].s = s}
           behind == {k - j : j \in places}
<1>4. places # {}
  BY <1>2 DEF Named
<1>5. behind # {} /\ behind \in SUBSET Nat
  BY <1>3, <1>4
<1>6. PICK b \in behind : \A c \in behind : b <= c
  <2> HIDE DEF behind
  <2> QED
    BY <1>5, LeastNatural
<1>7. PICK l \in places : b = k - l
  BY <1>6
<1>8. \A j \in places : j <= l
  BY <1>3, <1>6, <1>7
<1>9. l \in DOMAIN p /\ p[l].s = s /\ \A j \in DOMAIN p : p[j].s = s => j <= l
  BY <1>2, <1>7, <1>8
<1>10. LastOf(p, s) \in DOMAIN p
  <2> DEFINE Last(m) == p[m].s = s /\ \A j \in DOMAIN p : p[j].s = s => j <= m
  <2>1. \E m \in DOMAIN p : Last(m)
    BY <1>9
  <2>2. LastOf(p, s) = CHOOSE m \in DOMAIN p : Last(m)
    BY DEF LastOf
  <2> HIDE DEF Last
  <2> QED
    BY <2>1, <2>2
<1>11. LastOf(p, s) - 1 \in Sensor
  <2> DEFINE n == SNodes * Channels
  <2>1. n \in Int
    BY NodeTimersAssumption
  <2>2. MaxPayload \in 0 .. n
    BY NodeTimersAssumption
  <2> HIDE DEF n
  <2>3. LastOf(p, s) - 1 \in 0 .. n - 1
    BY <1>2, <1>10, <2>1, <2>2
  <2> QED
    BY <2>3 DEF Sensor, n
<1> QED
  BY <1>10, <1>11

\* What a request names has the type of an interval.
LEMMA ModeSetTypes ==
  ASSUME Schedules, NEW p \in Payload, NEW m, ModeSet(m, p)
  PROVE  time' \in [Sensor -> [unit : Unit, n : Nat]]
<1> SUFFICES ASSUME NEW s \in Sensor, s \in Named(p)
             PROVE  [unit |-> p[LastOf(p, s)].unit, n |-> p[LastOf(p, s)].n]
                      \in [unit : Unit, n : Nat]
  BY DEF Schedules, ModeSet
<1>1. PICK k \in 1 .. MaxPayload : p \in [1 .. k -> [s : Sensor, unit : Unit, n : Number]]
  BY DEF Payload
<1>2. p[LastOf(p, s)] \in [s : Sensor, unit : Unit, n : Number]
  BY <1>1, LastIsAPlace
<1> QED
  BY <1>2, NodeTimersAssumption

LEMMA ActiveModeSchedules ==
  ASSUME ScheduleInv, NEW p \in Payload, ActiveMode(p)
  PROVE  ScheduleInv'
<1>1. time' \in [Sensor -> [unit : Unit, n : Nat]]
  BY ModeSetTypes DEF ScheduleInv, ActiveMode
<1>2. \A s \in Named(p) : Interval(p, s) \in Int
  <2> SUFFICES ASSUME NEW s \in Named(p) PROVE Interval(p, s) \in Int
    OBVIOUS
  <2>1. s \in Sensor /\ LastOf(p, s) - 1 \in Sensor
    <3>1. PICK k \in 1 .. MaxPayload : p \in [1 .. k -> [s : Sensor, unit : Unit, n : Number]]
      BY DEF Payload
    <3> QED
      BY <3>1, LastIsAPlace DEF Named
  <2>2. time'[s].n \in Nat /\ time'[LastOf(p, s) - 1].unit \in Unit
    BY <1>1, <2>1
  <2>3. UnitTicks[time'[LastOf(p, s) - 1].unit] \in Nat
    BY <2>2, NodeTimersAssumption
  <2> QED
    BY <2>2, <2>3 DEF Interval
<1> DEFINE ticks(s) == Interval(p, s)
<1>3. /\ sCount' = [s \in Sensor |-> IF s \in Named(p) THEN ticks(s) ELSE sCount[s]]
      /\ sInterval' = [s \in Sensor |-> IF s \in Named(p) THEN ticks(s) ELSE sInterval[s]]
      /\ since' = [s \in Sensor |-> IF s \in Named(p) THEN 0 ELSE since[s]]
      /\ mode' = [s \in Sensor |-> IF s \in Named(p) THEN "ACTIVE" ELSE mode[s]]
  BY DEF ActiveMode, ModeSet
<1>4. \A s \in Named(p) : ticks(s) \in Int
  BY <1>2
<1> HIDE DEF ticks
<1>5. Schedules'
  BY <1>1, <1>3, <1>4 DEF ScheduleInv, Schedules
<1>6. ReportsOnSchedule'
  BY <1>3, <1>4 DEF ScheduleInv, Schedules, ReportsOnSchedule, Reporting
<1> QED
  BY <1>5, <1>6 DEF ScheduleInv

LEMMA OtherModesSchedules ==
  ASSUME ScheduleInv, NEW p \in Payload,
         EventMode(p) \/ \E node \in 0 .. SNodes - 1 : PassiveMode(node, p)
  PROVE  ScheduleInv'
<1>1. PICK m \in {"EVENT", "PASSIVE"} : ModeSet(m, p)
  BY DEF EventMode, PassiveMode
<1>2. time' \in [Sensor -> [unit : Unit, n : Nat]]
  BY <1>1, ModeSetTypes DEF ScheduleInv
<1>3. /\ sInterval' \in [Sensor -> Int]
      /\ \A s \in Sensor : sInterval'[s] \in {sInterval[s], 0}
  <2>1. CASE EventMode(p)
    BY <2>1 DEF ScheduleInv, Schedules, EventMode
  <2>2. CASE \E node \in 0 .. SNodes - 1 : PassiveMode(node, p)
    BY <2>2 DEF ScheduleInv, Schedules, PassiveMode
  <2> QED
    BY <2>1, <2>2
<1>4. UNCHANGED <<sCount, since>>
  BY DEF EventMode, PassiveMode
<1>5. \A s \in Sensor : mode'[s] = "ACTIVE" => mode[s] = "ACTIVE"
  BY <1>1 DEF ModeSet
<1>6. Schedules'
  BY <1>2, <1>3, <1>4 DEF ScheduleInv, Schedules
<1>7. ReportsOnSchedule'
  BY <1>3, <1>4, <1>5 DEF ScheduleInv, Schedules, ReportsOnSchedule, Reporting
<1> QED
  BY <1>6, <1>7 DEF ScheduleInv

\* A tick starts an interval where it ends one, and moves what is left of the others
\* to what has passed.
LEMMA CountDownSchedules ==
  ASSUME ScheduleInv, CountDown
  PROVE  ScheduleInv'
<1>1. /\ sCount' = [s \in Sensor |->
                     IF s \in SensorDue THEN sInterval[s]
                     ELSE IF Reporting(s) THEN sCount[s] - 1 ELSE sCount[s]]
      /\ since' = [s \in Sensor |->
                    IF s \in SensorDue THEN 0
                    ELSE IF Reporting(s) THEN since[s] + 1 ELSE since[s]]
      /\ UNCHANGED <<mode, time, sInterval>>
  BY DEF CountDown, CountSensors
<1>2. Schedules'
  BY <1>1 DEF ScheduleInv, Schedules
<1>3. ReportsOnSchedule'
  <2> SUFFICES ASSUME NEW s \in Sensor, mode[s] = "ACTIVE", sCount'[s] > 0, sInterval[s] > 0
               PROVE  sCount'[s] + since'[s] = sInterval[s]
    BY <1>1 DEF ReportsOnSchedule, Reporting
  <2>1. sCount[s] \in Int /\ since[s] \in Int /\ sInterval[s] \in Int
    BY DEF ScheduleInv, Schedules
  <2>2. CASE s \in SensorDue
    BY <1>1, <2>1, <2>2
  <2>3. CASE s \notin SensorDue
    <3>1. Reporting(s)
      BY <1>1, <2>3 DEF Reporting
    <3>2. sCount'[s] = sCount[s] - 1 /\ since'[s] = since[s] + 1
      BY <1>1, <2>3, <3>1
    <3>3. sCount[s] + since[s] = sInterval[s]
      BY <3>1 DEF ScheduleInv, ReportsOnSchedule
    <3> QED
      BY <2>1, <3>2, <3>3
  <2> QED
    BY <2>2, <2>3
<1> QED
  BY <1>2, <1>3 DEF ScheduleInv

\* An active sensor's reports are an interval apart, whatever is requested of other
\* sensors and however late the packets are sent.
THEOREM OnSchedule == Spec => []ReportsOnSchedule
<1>1. Init => ScheduleInv
  BY NodeTimersAssumption DEF Init, ScheduleInv, Schedules, ReportsOnSchedule, Reporting
<1>2. ScheduleInv /\ [Next]_vars => ScheduleInv'
  <2> SUFFICES ASSUME ScheduleInv, [Next]_vars PROVE ScheduleInv'
    OBVIOUS
  <2>1. ASSUME UNCHANGED <<mode, time, sCount, sInterval, since>> PROVE ScheduleInv'
    BY <2>1 DEF ScheduleInv, Schedules, ReportsOnSchedule, Reporting
  <2>2. CASE PeerCloses \/ ConnectionEnds \/ Reconnect \/ Startup \/ SendSensors \/ SendActuators
    BY <2>1, <2>2 DEF PeerCloses, ConnectionEnds, Reconnect, Startup, SendSensors,
                      SendActuators, sensors
  <2>3. CASE \E i \in Actuator, v \in Value : ActuatorSet(i, v)
    BY <2>1, <2>3 DEF ActuatorSet, sensors
  <2>4. CASE \E node \in 0 .. ANodes - 1 : NodeInit(node)
    BY <2>4 DEF NodeInit, ScheduleInv, Schedules, ReportsOnSchedule, Reporting
  <2>5. CASE \E p \in Payload : ActiveMode(p)
    BY <2>5, ActiveModeSchedules
  <2>6. CASE \E p \in Payload : EventMode(p) \/ \E node \in 0 .. SNodes - 1 : PassiveMode(node, p)
    BY <2>6, OtherModesSchedules
  <2>7. CASE CountDown
    BY <2>7, CountDownSchedules
  <2>8. CASE UNCHANGED vars
    BY <2>1, <2>8 DEF vars, sensors
  <2> QED
    BY <2>2, <2>3, <2>4, <2>5, <2>6, <2>7, <2>8 DEF Next, GatewayRequest, TimerHandler
<1>3. ScheduleInv => ReportsOnSchedule
  BY DEF ScheduleInv
<1> QED
  BY <1>1, <1>2, <1>3, PTL DEF Spec

-----------------------------------------------------------------------------
(* What the gateway knows.                                                 *)

\* What it was told is true, pending or undone by REQCMD_INIT, also during a tick;
\* before startup there is nothing to tell.
KnowsAlways ==
  main = "running" /\ ~lost =>
    \A i \in Actuator : believes[i] = relay[i] \/ aState[i] \/ ResetWhileRunning(i)

StartsOff ==
  main = "starting" => \A i \in Actuator : value[i] = 0 /\ ~aState[i] /\ ~believes[i]

KnowledgeInv ==
  /\ link \in {"up", "dead", "down"}
  /\ believes \in [Actuator -> BOOLEAN]
  /\ KnowsAlways
  /\ StartsOff

LEMMA CountDownTells ==
  ASSUME TimersInv, KnowledgeInv, CountDown
  PROVE  KnowledgeInv'
<1>1. /\ \A i \in Actuator : value'[i] = Left(i)
      /\ aState' = [i \in Actuator |-> aState[i] \/ i \in Expired \union OnDue]
      /\ relay' = [i \in Actuator |-> relay[i] /\ i \notin Expired]
      /\ UNCHANGED <<main, believes, lost>>
  BY DEF CountDown, CountActuators, gateway
<1>2. \A i \in Actuator : value[i] \in Nat
  BY NodeTimersAssumption DEF TimersInv, Types
<1>3. \A i \in Actuator : value[i] > 0 /\ i \notin Expired => value'[i] > 0
  BY <1>1, <1>2 DEF Left, Runs, Expired
<1>4. \A i \in Actuator : value[i] = 0 => value'[i] = 0 /\ i \notin Expired \union OnDue
  BY <1>1 DEF Left, Runs, Expired, OnDue
<1>5. KnowsAlways'
  <2> SUFFICES ASSUME main = "running", ~lost, NEW i \in Actuator, i \notin Expired, ~aState'[i]
               PROVE  believes[i] = relay[i] \/ (value'[i] > 0 /\ ~relay[i])
    <3>1. \A i \in Actuator : /\ i \in Expired => aState'[i]
                              /\ i \notin Expired => relay'[i] = relay[i]
      <4>1. \A i \in Actuator : relay[i] \in BOOLEAN
        BY DEF TimersInv, Types
      <4> QED
        BY <1>1, <4>1
    <3> QED
      BY <1>1, <3>1 DEF KnowsAlways, ResetWhileRunning
  <2>1. ~aState[i]
    BY <1>1
  <2> QED
    BY <1>3, <2>1 DEF KnowledgeInv, KnowsAlways, ResetWhileRunning
<1>6. StartsOff'
  BY <1>1, <1>4 DEF KnowledgeInv, StartsOff
<1> QED
  BY <1>1, <1>5, <1>6 DEF KnowledgeInv, CountDown

LEMMA SendActuatorsTells ==
  ASSUME TimersInv, KnowledgeInv, SendActuators
  PROVE  KnowledgeInv'
<1>1. UNCHANGED <<value, relay, main>>
  BY DEF SendActuators
<1>4. link' \in {"up", "dead", "down"}
  BY DEF SendActuators, KnowledgeInv
<1>2. CASE TransActuatorDataCount > 0 /\ link # "down"
  <2>1. /\ aState' = [i \in Actuator |-> FALSE]
        /\ believes' = [i \in Actuator |->
                         IF aState[i] /\ link = "up" THEN value[i] > 0 ELSE believes[i]]
        /\ lost' = (lost \/ link = "dead")
    BY <1>2 DEF SendActuators
  <2>2. believes' \in [Actuator -> BOOLEAN]
    <3>1. \A i \in Actuator : believes[i] \in BOOLEAN
      BY DEF KnowledgeInv
    <3> DEFINE told(i) == IF aState[i] /\ link = "up" THEN value[i] > 0 ELSE believes[i]
    <3>2. ASSUME NEW i \in Actuator PROVE told(i) \in BOOLEAN
      <4>1. CASE aState[i] /\ link = "up"
        BY <4>1
      <4>2. CASE ~(aState[i] /\ link = "up")
        BY <3>1, <4>2
      <4> QED
        BY <4>1, <4>2
    <3>3. believes' = [i \in Actuator |-> told(i)]
      BY <2>1
    <3> HIDE DEF told
    <3> QED
      BY <3>2, <3>3
  <2>3. KnowsAlways'
    <3> SUFFICES ASSUME main = "running", ~lost, link # "dead", NEW i \in Actuator
                 PROVE  believes'[i] = relay[i] \/ ResetWhileRunning(i)
      BY <1>1, <2>1 DEF KnowsAlways, ResetWhileRunning
    <3>1. CASE aState[i] /\ link = "up"
      <4>1. believes'[i] = (value[i] > 0)
        BY <2>1, <3>1
      <4>2. relay[i] => value[i] > 0
        BY DEF TimersInv, OnOnlyWhileTimed
      <4>3. relay[i] \in BOOLEAN
        BY DEF TimersInv, Types
      <4>4. CASE relay[i]
        <5>1. relay[i] = TRUE /\ (value[i] > 0) = TRUE
          BY <4>2, <4>3, <4>4
        <5> QED
          BY <4>1, <5>1
      <4>5. CASE ~relay[i]
        <5>1. CASE value[i] > 0
          BY <4>5, <5>1 DEF ResetWhileRunning
        <5>2. CASE ~(value[i] > 0)
          <6>1. relay[i] = FALSE /\ (value[i] > 0) = FALSE
            BY <4>3, <4>5, <5>2
          <6> QED
            BY <4>1, <6>1
        <5> QED
          BY <5>1, <5>2
      <4> QED
        BY <4>4, <4>5
    <3>2. CASE ~(aState[i] /\ link = "up")
      <4>1. believes'[i] = believes[i]
        BY <2>1, <3>2
      <4>2. ~aState[i]
        BY <1>2, <3>2 DEF KnowledgeInv
      <4> QED
        BY <4>1, <4>2 DEF KnowledgeInv, KnowsAlways, ResetWhileRunning
    <3> QED
      BY <3>1, <3>2
  <2>4. StartsOff'
    BY <1>1, <2>1 DEF KnowledgeInv, StartsOff
  <2> QED
    BY <1>4, <2>2, <2>3, <2>4 DEF KnowledgeInv
<1>3. CASE ~(TransActuatorDataCount > 0 /\ link # "down")
  <2>1. UNCHANGED <<aState, believes, lost>>
    BY <1>3 DEF SendActuators, gateway
  <2> QED
    BY <1>1, <1>4, <2>1 DEF KnowledgeInv, KnowsAlways, StartsOff, ResetWhileRunning
<1> QED
  BY <1>2, <1>3

LEMMA RequestTells ==
  ASSUME TimersInv, KnowledgeInv, GatewayRequest
  PROVE  KnowledgeInv'
<1>1. main = "running" /\ main' = main /\ link' = link
  BY DEF GatewayRequest, ActuatorSet, NodeInit, ActiveMode, PassiveMode, EventMode, Request
<1>2. ~lost' => ~lost /\ link = "up"
  BY DEF GatewayRequest, ActuatorSet, NodeInit, ActiveMode, PassiveMode, EventMode, Request
<1>3. CASE \E i \in Actuator, v \in Value : ActuatorSet(i, v)
  <2> PICK j \in Actuator, v \in Value : ActuatorSet(j, v)
    BY <1>3
  <2>1. /\ value' = [value EXCEPT ![j] = v]
        /\ relay' = [relay EXCEPT ![j] = (v > 0)]
        /\ believes' = IF link = "up" THEN [believes EXCEPT ![j] = (v > 0)] ELSE believes
    BY DEF ActuatorSet, RunFor
  <2>2. \A i \in Actuator : i # j => aState'[i] = aState[i]
    BY DEF ActuatorSet, TimersInv, Types
  <2>3. believes' \in [Actuator -> BOOLEAN]
    BY <2>1 DEF KnowledgeInv
  <2>4. KnowsAlways'
    <3> SUFFICES ASSUME ~lost, link = "up", NEW i \in Actuator
                 PROVE  \/ believes'[i] = relay'[i]
                        \/ aState'[i]
                        \/ value'[i] > 0 /\ ~relay'[i]
      BY <1>2 DEF KnowsAlways, ResetWhileRunning
    <3>1. CASE i = j
      <4>1. believes'[i] = (v > 0) /\ relay'[i] = (v > 0)
        BY <2>1, <3>1 DEF KnowledgeInv, TimersInv, Types
      <4> QED
        BY <4>1
    <3>2. CASE i # j
      <4>1. /\ believes'[i] = believes[i] /\ relay'[i] = relay[i]
            /\ aState'[i] = aState[i] /\ value'[i] = value[i]
        BY <2>1, <2>2, <3>2 DEF KnowledgeInv, TimersInv, Types
      <4> QED
        BY <1>1, <4>1 DEF KnowledgeInv, KnowsAlways, ResetWhileRunning
    <3> QED
      BY <3>1, <3>2
  <2> QED
    BY <1>1, <2>3, <2>4 DEF KnowledgeInv, StartsOff
<1>4. CASE \E node \in 0 .. ANodes - 1 : NodeInit(node)
  <2> PICK node \in 0 .. ANodes - 1 : NodeInit(node)
    BY <1>4
  <2> DEFINE reset(i) == i \div Channels = node
  <2>1. /\ UNCHANGED <<value, aState>>
        /\ relay' = [i \in Actuator |-> IF reset(i) THEN FALSE ELSE relay[i]]
        /\ believes' = IF link = "up"
                       THEN [i \in Actuator |-> IF reset(i) THEN FALSE ELSE believes[i]]
                       ELSE believes
    BY DEF NodeInit
  <2> HIDE DEF reset
  <2>2. believes' \in [Actuator -> BOOLEAN]
    <3>1. \A i \in Actuator : believes[i] \in BOOLEAN
      BY DEF KnowledgeInv
    <3> QED
      BY <2>1, <3>1 DEF KnowledgeInv
  <2>3. KnowsAlways'
    <3> SUFFICES ASSUME ~lost, link = "up", NEW i \in Actuator
                 PROVE  \/ believes'[i] = relay'[i]
                        \/ aState'[i]
                        \/ value'[i] > 0 /\ ~relay'[i]
      BY <1>2 DEF KnowsAlways, ResetWhileRunning
    <3> QED
      BY <1>1, <2>1 DEF KnowledgeInv, KnowsAlways, ResetWhileRunning
  <2> QED
    BY <1>1, <2>2, <2>3 DEF KnowledgeInv, StartsOff
<1>5. CASE UNCHANGED <<value, aState, relay, believes>>
  BY <1>1, <1>2, <1>5 DEF KnowledgeInv, KnowsAlways, StartsOff, ResetWhileRunning
<1> QED
  BY <1>3, <1>4, <1>5
  DEF GatewayRequest, ActiveMode, PassiveMode, EventMode, actuators

\* While nothing was lost on the way the gateway knows between two ticks which relays
\* are on, for any number of actuators, but for those reset under a running timer and
\* those whose report is pending.
THEOREM Knows == Spec => []GatewayKnows
<1>1. Init => KnowledgeInv
  BY DEF Init, KnowledgeInv, KnowsAlways, StartsOff
<1>2. TimersInv /\ KnowledgeInv /\ [Next]_vars => KnowledgeInv'
  <2> SUFFICES ASSUME TimersInv, KnowledgeInv, [Next]_vars PROVE KnowledgeInv'
    OBVIOUS
  <2>1. ASSUME UNCHANGED <<value, aState, relay, main, believes, lost>>,
               link' \in {"up", "dead", "down"}
        PROVE  KnowledgeInv'
    BY <2>1 DEF KnowledgeInv, KnowsAlways, StartsOff, ResetWhileRunning
  <2>2. CASE PeerCloses \/ ConnectionEnds \/ Reconnect \/ SendSensors
    BY <2>1, <2>2 DEF PeerCloses, ConnectionEnds, Reconnect, SendSensors, KnowledgeInv,
                      actuators, gateway
  <2>3. CASE Startup
    BY <2>3 DEF Startup, KnowledgeInv, KnowsAlways, StartsOff, gateway
  <2>4. CASE GatewayRequest
    BY <2>4, RequestTells
  <2>5. CASE CountDown
    BY <2>5, CountDownTells
  <2>6. CASE SendActuators
    BY <2>6, SendActuatorsTells
  <2>7. CASE UNCHANGED vars
    BY <2>1, <2>7 DEF vars, actuators, gateway, KnowledgeInv
  <2> QED
    BY <2>2, <2>3, <2>4, <2>5, <2>6, <2>7 DEF Next, TimerHandler
<1>3. KnowledgeInv => GatewayKnows
  BY DEF KnowledgeInv, KnowsAlways, GatewayKnows
<1> QED
  BY <1>1, <1>2, <1>3, TimersInvariant, PTL DEF Spec
=============================================================================
