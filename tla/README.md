# Swine: a TLA+ model of the farm hub and the greenhouse node daemon

The repository holds two programs.

* **jsonode** (`Makefile`; `tcpsql.cpp`, `tcpman.cpp`, `cf_db_mysql.c`, `rs232.c`,
  `hwctrl.c`, `Packet.cpp`, `TTA12_packet.cpp`, `util.cpp`) is a hub. Farm devices and a
  web api connect to its TCP port 5100 and exchange JSON objects; the hub keeps the
  devices' values in MySQL, drives temperature controllers over modbus, and asks every
  device for its values once per cycle.
* **TTA12daemon** (`makedaemon.sh`; `TTA12daemon.cpp` with the libraries `libutil`,
  `libhwctrl`, `libttap12`) controls the nodes of a greenhouse: it connects to a gateway
  (GCG), executes its requests, switches relays over a serial line, and reports sensor and
  actuator states.

## Inventory

| component | state | operations | met by |
|---|---|---|---|
| client table, `tcpman.cpp` | `clnt_socks`, `clnt_type`, `clnt_cnt` under `tcp_mutex`; the member `clnt_sock` | `Wait_Connect`, `Read_Thread`'s start and end, `SortSockBuff`, `send_msg` | accept thread, one thread per client, main loop, timer handler |
| command buffers, `tcpman.cpp`, `common.h` | `TCPPDATAQue` (and `TCPDATAQue`), pushes under `cmd_mutex` | `TCPP_RxQuePush`, `TCPP_RxQuePop` | client threads push, main loop pops |
| framing, `Read_Thread` | `TCPStreamingBuffer`, `ocnt`, `ccnt`, `dicnt` of each thread | the scan of a read | peers, TCP |
| polling cycle, `tcpsql.cpp` | `ICTDevInfo`, `ICTDEVICE_COUNT`, `GLB_postbuf` | `cycletimer`, `MakeJPacketICTdeviceAll` | timer signal, MySQL, modbus, `send_msg` |
| JSON commands, `tcpsql.cpp` | `ICTretval`, rows of MySQL | `paketParsing`, `JsonPaketParsing`, `JsonPaketParsingDevice`, `updateCMD...` | main loop, timer handler (shares the state) |
| modbus master, `tcpsql.cpp` | global `ctx` | `modbus_read`, `modbus_write`, `modbus_writeread` | main loop, timer handler |
| node timers, `TTA12daemon.cpp` | `AI`, `SI`, `ACTUATOR_MAP`, `SENSOR_MAP`, counts of pending reports, under `cmd_mutex` | `Timer_handler`, `HardwareControlForTTA12Packet`, `Trans...Data` | timer thread, main loop |
| TTA packets, `TTA12_packet.cpp` | parser state, return packet | `ParsingPacket`, builders | main loop |
| sensor boards, `rs232.c`, `Packet.cpp`, `TTA12daemon.cpp` | UART queues, `COMMPACKET` streams, `SI[].data.value` | `USARTn_RxQuePush/Pop`, `UARTnPacketStreaming`, `SensorValueReadToNode` | serial thread, main loop |
| software timers, `util.cpp` | `m_TmInfoArr`, `m_TimerNum` | `create_timer`, `set_timer`, `delete_timer` | nothing: no program calls them at this commit |
| earlier daemons, `TTA12daemon2.cpp`, `TTA12daemon4.cpp` | as TTA12daemon | as TTA12daemon; `SNode_handler` of daemon2 polls the boards | timer thread, polling thread, main loop |

What is hard in this code:

* **Threads that share without a lock.** The broadcast and the type lookup read the client
  table without `tcp_mutex`; the reader of the command buffers takes no lock; a new
  `Read_Thread` reads its descriptor through a pointer to a member that the next accept
  overwrites.
* **A signal handler that does everything**: SQL, modbus, JSON, TCP, half-second sleeps.
* **A byte stream cut at will** by TCP, scanned one read at a time.
* **Counters that must stay in step**: braces, devices of a packet, ticks of a cycle, pending
  reports and the flags they count.
* **A connection that dies silently**: closed by the peer, but still in the table.
* **A restart** with relays on, or between the two statements of an update.
* **Packets without a length**: the end of a TTA packet is where its parser stopped reading.
* **Rings of 256 bytes** that overflow while the main loop waits for the gateway, and a packet ring whose
  indexes run far behind its array.
* **Numbers taken from texts and places**: units from `atoi`, animals from a count that starts over, a set point
  whose last character is lost.

`PROJECT.json` lists every component, also those not modelled, and every hazard with its
line and the properties that would catch it.

## Modules

Each component has one module with its state as variables, one action per step that another
thread may observe, and its properties; an `MC` module gives TLC an instance; a `Proofs`
module holds the theorems. Names are the source's.

### ClientTable (`tcpman.cpp` 16-31, 104-137, 286-356, 363, 429, 520-563)

Threads: the accept thread (`Accept`, `Register`, `EndPause`), one `Read_Thread` per
connection (`ReadArgument`, `Lookup`, then blocked in `read` until `SortLock`, `SortShift`,
`SortDrop`), and the sender (`SendStart`, `SendOne`, `SendEnd`). The kernel's table of
descriptors (`fds`) hands out the lowest free number, so numbers are reused. `Register`
is a single step because all of it holds `tcp_mutex` and the unlocked readers can see only
its effect on `clnt_cnt`; `SortSockBuff` is three steps, because `send_msg` and the type
lookup can see the table half shifted.

`PromptStart` states the timing the code relies on: `Wait_Connect` sleeps 1 ms after
`pthread_create`, and the new thread is expected to have read `*(int*)arg` and its type by
then. Nothing makes it so: with `PromptStart = FALSE` the pause may end first.
`Interrupted` lets the 60 s timer signal end a `read` (the handler is installed without
`SA_RESTART`), which the loop takes for the end of the connection.

* `TableMatchesReaders`: table, threads and descriptors in step.
* `OnlyDisconnectedRemoved`: a client that is connected stays in the table. It fails for two reasons, one
  per constant: a late thread (`ClientHandOver`, two threads serve one descriptor and the second to end removes the last
  entry) and an interrupted read (`ClientInterrupted`). With neither it is proved.
* `ClosedByItsOwnThread` (action property).
* `QuietBroadcastReachesAll`: a broadcast not overlapped by a removal reaches everyone once; `SendToAll`, without the
  exception, is violated.
* `AcceptedIsServed`, `ClosedIsReclaimed` (liveness).

The type lookup of a new thread reads the table without the lock. Under `PromptStart` it ends before anything can
shift the table; with a late start threads already share descriptors. So no property speaks of the type it finds.

Fairness: threads run (`WF`), and a thread that keeps asking for `tcp_mutex` gets it
(`SF` on `Register` and `SortLock`: a pthread mutex whose holder always leaves).

### PacketFifo and PacketQueue (`tcpman.cpp` 38-86, `common.h` 77-91, `rs232.c` 582-604, 684-692, `tcpsql.cpp` 2630-2656)

`PacketFifo` is what the rings promise: a bounded FIFO. `PacketQueue` is a ring at the granularity of the memory
accesses of the ARM builds in the repository, as a member of `Rings`: the `modulus` of its indexes, the number of elements of its
array (`buffer`), and the order of the push's stores (`indexFirst`). The pop stores its index
incremented but **not wrapped**, copies the element, and stores the wrapped index. The push of `tcpman.o` (-O2) copies
the packet and then stores the wrapped index; that of `rs232.o`, built without optimisation, stores the incremented index
first (`Advance`). The UART rings have modulus and array of 256; the packet ring has a modulus of 20480 over an array of 256.

Three things can go wrong, and each ends the behaviour with its name in `broken`, because what follows is undefined or means
nothing: the overflow test passes for a full ring, the emptiness test passes for an empty one, an element is written behind
the array.

* `DeliveredInOrder`: until then nothing is lost, doubled, reordered or read before it is written, with no lock at the
  reader and any number of pushes during a pop.
* `WrongOnlyInBetween`: the tests are answered wrong in two windows only.
* `ArrayLeft`: the packet ring is left by the element after as many as it has, counted since the start and however few of them
  wait (in the code, the 257th packet); a ring that wraps at its dimension never is.
* `ImplementsFifo`: the ring refines `PacketFifo` with the two histories; while a pop is under way the slot it reads counts too.
* `EveryPacketDelivered` (liveness), unless the behaviour ends. Fairness: the main loop pops, a push runs to its end.

Stores of one thread are taken to become visible in program order; the code has no barrier, so on a
multicore ARM this is an assumption.

### Framing (`tcpman.cpp` 336-424)

One connection: the peer sends objects and junk, TCP cuts the stream into reads of any
length, `Scan` takes one byte of the current read per step (the actions are the branches of
the loop body). The bytes are abstracted to `{`, `}`, a blank and any other. The assignments
of `break` are as in the code: the rest of the read is dropped after an object is queued, after a
'not push' and after a 'packet error'.

The history variable `clean` says that no `break` has dropped anything but blanks so far and
that no stray bytes were sent that the scan would keep in front of an object: while it holds,
the objects are queued completely and in order, and the scanner is ready for the next one
(`QueuedInOrder`, `ResynchronisedAtRest`, `EveryObjectQueued`). `PushedAreObjects` holds
whatever was sent or dropped. `Coalesced` shows that `clean` is
needed: two objects in one read lose the second. `MaxUnread` bounds the bytes under way when
junk is sent.

### PollCycle (`tcpsql.cpp` 237-315, 1414-1473, 1475-1775, 2578-2592)

A tick visits the started devices one per step. `ComesDue` is the countdown and the modbus
read of controllers, `AskFeeder` and `Ask` the two ways of putting a device into a packet and of
flushing it, `EndTick` the last flush and the start of one more device. `devCount` is kept
apart from the array it counts, because the code does not reset it after a feeder's flush.

* `ScheduleIsExact`: device `d` comes due exactly at the multiples of its cycle, counted from
  tick `d`, at which it is started: no poll is skipped, doubled or shifted.
* `DueAskedOnce`: every device due with commands is in exactly one packet of the tick.
* `PacketBounded`: a packet asks no more devices than it has room for, although `devCount` is
  not reset.

Ticks do not overlap in the model (a tick of the program sleeps 0.5 s per packet, so it ends within 60 s for fewer than some hundred
packets).

### NodeTimers (`TTA12daemon.cpp` 55-211, 216-349, 366-466, 602-799, 1179-1329; `TTA12_packet.cpp` 572-696; `util.cpp` 27-124)

`Timer_handler` in three steps (`CountDown`, `SendSensors`, `SendActuators`) and the gateway's
requests in one each: both hold `cmd_mutex`, so requests happen only between ticks, but the
connection may change at every step. `link` has a third value, `"dead"`: closed by the peer
but still counted by `getConnectionCount`, when packets are written and lost. The relays start
in any state (`Init`), as a killed daemon leaves them.

Left out: the gateway's DATA and RESPONSE packets. `ParsingData` and `ParsingResponse` copy what they carry over entries of
`AI` and `SI` (`TTA12_packet.cpp` 817-820, 963-977), and with them over times to run and modes, whatever the timers are at. GatewayLink
has what they change in its own copy of the tables; the properties here are about a gateway that sends requests only.

History variables say what the properties are about: the time requested last and the ticks since
(`asked`, `elapsed`), the interval requested (`wanted`), and what the gateway was last told
(`believes`, `lost`).

* `OnOnlyWhileTimed`, `RunsForItsTime`: actuators.
* `DueIsCounted`, `EveryReportSent`: pending reports, whose flags and counts are separate.
* `ReportsOnSchedule`: no drift of sensor intervals.
* `GatewayKnows`: the gateway's picture of the relays is right unless something was lost,
  with the two exceptions the code has, named in the invariant.

Fairness: the timer thread runs (`WF`).

### CommandHub (`tcpsql.cpp` 76-281, 1025-1169, 1586-1690, 1996-2519, 2578-2592; `cf_db_mysql.c` 79-91, 185-253)

The main loop takes a packet (`Dispatch`: who sent it, which types are taken, forwarding of a SET,
reset) and walks its elements and their fields (`Element`, `NextElement`, `Select`, `Exec`,
in `DeviceElements` and `ServerElements`). `updateCMD` is its two statements, `Select` and
`Exec`, because a tick may come between them. `OpenBus`, `Transfer` and `CloseBus` are
`modbus_writeread` over the global context. A tick (`Tick`, `PollStore`, `PollSearch`) visits every
device, reads controllers and stores what it reads. It runs on the main thread, so the main
loop stands still until it ends (`MainRuns`). `Abort` is a failing statement and `Reboot`
`system("reboot")`: the program starts again over the same table and controllers. The table is a
sequence of rows, because nothing in the repository keeps a key unique.

* `AnimalsApart`: an element of a feeder is stored under the count of the feeder's elements since the last other number. Two
  animals of a packet share a number only across such an element, where the code counts from 0 again (E1, W2, E1).
* `SecondRowOnlyByRace`: a key gets a second row by one race only, the tick inside `updateCMD`.
* `SetPointByServer`: only a packet of the server changes a set point, setting or request, with a number that reads as the
  controller's or as none; and what it is changed to, for texts with and without a point.
* `SettempSettles` (liveness): whatever failed before, the table ends up with the set points.

`Interrupts = FALSE` says that no tick falls into an exchange on the modbus. With `TRUE` the tick
frees the context in use and `OwnContext` fails; what follows is then undefined. Texts of values are
pairs of digits and scale, as far as `ToRegister` tells them apart. `Unit` is `atoi` of an element's number, given by the
instance: `"1"` and `"01"` are one unit, and what is no number is 0, modbus's broadcast, which every unit obeys (`Addressed`). Fairness: `WF` of the main loop's
steps, of the timer and of the handler; none of `Dispatch`, `Abort`.

### TTAPacket and GatewayLink (`TTA12_packet.cpp`, `TTA12daemon.cpp` 1236-1333, `util.cpp` 27-124)

`TTAPacket` holds the builders and parsers of `TTA12_packet.cpp` as operators on sequences of
bytes; `Consumed` is the place behind the last byte the parser asked for, from which the loop goes on.
`GatewayLink` is the main loop over `TCP_CMD_BUF`: `Take` an entry, one `Parsing...` action per
type of packet with everything it changes and answers, `Done` with the reset of `HEAD` and
`TAIL`. The receiving thread (`Receive`: reads hold several packets or end inside one) belongs
to a library of which the repository has the binary only; it is taken to append under
`cmd_mutex`, which the main loop holds from the parsing to the reset.

* `HandledAsSent`: the bytes taken for packets are the packets that arrived, in order. It needs reads
  that end between packets (`whole`); `CutPoints` lets them end elsewhere, and the property claims
  nothing then. It is stated in `PacketStream`, over the packets that came and those that were handled alone, because
  it is what the daemon owes the gateway, whatever its buffer looks like.
* `EveryPacketHandled` (liveness): the loop catches up again and again, also when connections end meanwhile. The
  gateway of the run rests after `MaxSent` packets; one that never does could keep the loop behind.
* `ReplyTellsStatus`: what `MakeResponse` builds, `GetSTATE1` reads back, but for the fields the code
  loses. It is stated in `StatusReply`, over the tables alone, for every state of them: the daemon may be asked at any time.

Where the parser would write outside its arrays (`~Defined`) the model stops. Fairness: `WF` of the main loop, with
ENABLED written out (`Stopped`: the loop can always go on but at and behind such a packet), because TLC would build every
answer once more at each step to find it.

### SensorBoards (`TTA12daemon.cpp` 483-560, 801-1053, 1210-1261; `rs232.c` 582-592, 684-720, 806-826)

Time goes in slots of 50 ms. `Poll` is one request of `Timer_handler` and its slot of sleep, `EndRound` the rest of the
second, computed with unsigned numbers as at line 537. `Move` is `RS232_Thread`, from the driver to the ring.
`Iterate` is an iteration of the main loop: `UARTnPacketStreaming` shifts bytes through the window
until a frame is complete, `SensorValueReadToNode` stores it; while the gateway is away the
iteration takes a second and more. Boards may be dead, answers missing or torn.

* `ValuesOfItsBoard`: whatever is lost or torn, the values of a node are those of its own board, where the boards' ids differ
  (`ToldApart`).
* `FreshAfterReconnection`: when the gateway is back and no answer was lost for `Settled` slots, no value is older than its
  board's last answer, but for the answers to the last two requests.
* `StartupEnds` (liveness).

What a board is asked for is in `BoardRequests`, which all three builds share.
`KeepsUp` is what `FreshAfterReconnection` needs: the ring has room for more than two frames, the main loop reads more than one frame in
the slot in which at most one comes, and `Settled` slots are enough to work off a full ring and to ask every board once more. With the
code's numbers, 256 bytes, frames of 14, iterations of 20 ms and a round of 20 slots, it holds with `Settled` = 21. With more than 20
requests the round is over an hour long, because `Sleep` is unsigned as at line 537, and so must `Settled` be.

Assumed: in each slot `RS232_Thread` runs once and the main loop `Rate` times, from the sleeps of
50 and 20 ms in their loops; a checksum that holds over bytes of two frames is left out. A push to the ring and a pop are one
step each here: their interleavings, and the windows in which they go wrong, are in `PacketQueue`. Fairness: `WF` of each thread.

### EarlierDaemons (`TTA12daemon2.cpp`, `TTA12daemon4.cpp`)

Counting, reports and requests of the two earlier builds are line for line those of TTA12daemon but for the
first report of an actuator, so the module takes the steps of NodeTimers (`T == INSTANCE NodeTimers`)
and adds what differs: daemon4 polls the boards in `Timer_handler`, a tenth of a second each,
before it sleeps its second (`Poll4`, `Tick4`); daemon2 polls in a thread of its own (`Poll2`, `Tick2`); a
request sets the count to the report's interval (`ActuatorSet`); values are stored for the node that
`NodeID2` or `NodeID4` finds.

* `OnForItsRounds`: how long an actuator is on, in the ticks of either build.
* `ReportedWhileOn`: what stays on is reported every `OnInterval` ticks, however requests fall.
* `ValuesOfItsNode`, for boards numbered as the build needs (`Numbered`).

## Runs

| run | expected | instance and bounds |
|---|---|---|
| ClientTable | pass | 3 connections (1 web api), 2 descriptors so that numbers are reused, table of 2, one broadcast. Three clients are the fewest with one before, at and behind a removed entry over a lifetime; a fourth adds no new order of two overlapping operations |
| ClientHandOver | violation of `OnlyDisconnectedRemoved` | 3 descriptors, a new thread that may run late |
| Broadcast | violation of `SendToAll` | a removal during `send_msg` |
| PacketQueue | pass | 2 threads, 2 elements, 7 pushes; a ring of 3 that wraps at 3 and stores its index first: it wraps twice, is full and empty in every position, and both windows are met; a ring of 4 that wraps at 6: it is left by the fifth element |
| Framing | pass | objects of 3 to 5 bytes (flat, blanks, nested), buffer of 5 so that one object does not fit, junk of every kind, all cuts into reads |
| PollCycle | pass | all lists of at most 4 of 6 kinds of devices, 3 per packet, 9 ticks (three periods of the longest cycle) |
| NodeTimers | pass | 2 actuators, 2 sensors, ON times 0, 1, 2 and for ever, 3 requests, counts that stop at 2, unbounded ticks |
| IntervalUnit | violation of `IntervalAsRequested` | requests naming two sensors in any order |
| CommandHub | pass | a controller and a meter; any 2 of 6 packets (settings with the numbers `"01"`, `"9"` and one that is none, with and without a decimal, a request, two answers, one with a meter between the animals, a reset); one modbus failure, one abort: every pair of packets with a tick anywhere between |
| GatewayLink | pass | 2 nodes of 2; any 2 of 11 packets, one of each type and device; one read cut at 7 or 10 bytes, one connection lost. Two packets are the fewest in which the end of one matters |
| SensorBoards | pass | 2 boards with 3 requests, rounds of 4 slots, `Settled` = 5, a ring of two frames and two bytes, 11 requests (three rounds), 2 faults: the ring overflows and is worked off within the run |
| EarlierDaemons | pass | both builds, 1 actuator, 2 sensor nodes numbered in two ways, ON times 0, 2 and for ever, 2 requests, seconds of 2 slots |

`CHECK_DEADLOCK FALSE` where bounded peers, ticks or timers really stop in the models. CommandHub
ticks for ever and is checked for deadlock.
Every property of a passing run has a mutant in `PROJECT.json`, an operator beside the one
it replaces, marked `Mistake`: a plausible slip in that code that violates the property.

The violations are disagreements between the code and its own comments; they and those that no
run is needed for are under `findings`. Four more configurations reproduce some of the latter with
TLC, by hand (`tlc -config X.cfg MCModule`):

| configuration | module | violates |
|---|---|---|
| ClientInterrupted | MCClientTable | `OnlyDisconnectedRemoved`, by a read that a signal ends |
| Coalesced | MCFraming | `AllObjectsQueued`: two objects sent at once |
| FeederApart | MCPollCycle | `FeederAskedApart`: a feeder behind another device |
| Request | MCCommandHub | `RequestSetsNothing`: a request of the server writes a set point |

## Proofs

tlapm checks all of them. They assume the modules' `ASSUME`s and what a theorem names in its
`ASSUME ... PROVE`: `PromptStart` for the client table (and `~Interrupted` for `OnlyTheDisconnected`), `KeepsUp` for `CurrentAgain`,
`ObjectsOnly` for the stream of a peer, and packets as the daemon's own builders build them (`Built`) for the gateway.

* **PacketQueueProofs**, for any rings, threads and number of pushes during a pop: `RingInv` is inductive. It relates the ring
  to the histories: the indexes are as far apart as elements wait (`PopAgrees`, `PushAgrees`), one slot stays free but for the one
  that a pop is reading (`RoomLeft`), the slots from the oldest on hold what was accepted and not delivered (`SlotsHoldWaiting`),
  indexes that wrap behind the array have not wrapped yet (`Unwrapped`), and the lock is held exactly while a push is under way.
  `CheckFindsRoom` is the heart of it: a push that passes its test has room, unless the test was wrong, which it is only against the
  un-wrapped index of a pop of the last slot (`WrongWindows`). The fifth conjunct gives `LeavesArray`, the fourth `InOrder`, and
  `Refinement` is each step of the ring as a step of `PacketFifo` or a stutter.
* **ClientTableProofs**, assuming `PromptStart`: `TableInv` is about every step, also while `SortSockBuff` has the
  table half shifted. One thread at most has the lock (`Locking`); every open descriptor is in the hands of one
  thread (`Holding`); away from the `Hole`, the entry that is being overwritten, the table lists every
  registered descriptor once and with its type (`Listing`); a lookup that has passed its entry has the type (`Typed`). That
  a registration finds room needs the pigeonhole: entries are told apart by their descriptors, so that a free
  descriptor leaves a free entry. `Sending` says of each client that is owed a broadcast on which side of `snd.i` its entry is;
  it needs that nothing was removed (`quiet`). The safety properties of the run follow, and with `~Interrupted`
  `OnlyTheDisconnected`: only what has ended is ever removed. Neither assumption can be
  dropped: `ClientHandOver` and `ClientInterrupted` are the counterexamples.
* **FramingProofs**: `FramingInv` joins the types, `OpenObjectUnfinished` (an object whose
  braces are closed never stays in the buffer), `FramedByBraces` and `BufferCounted`: until the buffer is
  full, `ocnt` and `ccnt` are the numbers of its braces, counted as the size of a set of places, and no shorter beginning of it is balanced.
  They need each other: a packet queued ends with a brace because the counts
  can only meet at a closing brace, and they can only meet there because a buffer between
  steps never holds a finished object that starts with a brace. `PacketsAreObjects` is what follows for packets.
  `StreamInv` is about the whole stream, as long as nothing of a chunk was dropped: the objects not queued lie one
  behind the other in what was not scanned (`Lies`, at places `st`, negative for one that was begun), none is scanned to its last
  brace (`Awaited`), and the buffer and its counts hold what was scanned of the next one (`Tracked`, `Holds`).
  `ObjectsQueuedInOrder` and `AtRestNothingIsLeft` follow. It assumes `ObjectsOnly`, that what a peer means as an object is
  one and that no brace stands in what is between them; `MCFraming` assumes it too, so that TLC evaluates it.
* **PollCycleProofs**: `PollInv` says that the array is never longer than what `devCount`
  counts (`CountCoversBatch`) and that the tick stays within the list; `Bounded` follows
  for any device list and any number of ticks. `ScheduleInv` gives each countdown in closed form, the cycle less
  the visits modulo the cycle (`Countdown`), where the devices behind the current one in the list have been visited once
  less; `Schedule` is that and `ModSucc`. `AskInv` says that a device that came due in this tick is in one packet sent
  or in the one being built, and behind the place the tick has reached in none.
* **NodeTimersProofs**: `TimersInv` adds that before startup no sensor is active, without
  which clearing `TransSensorDataCount` at startup would break `DueIsCounted`. Cardinalities of
  expired timers need the finiteness of the sets of actuators and sensors, from the library.
  `ScheduleInv` adds types to `ReportsOnSchedule`, which is inductive otherwise; that an
  interval is a number at all rests on `LastIsAPlace`, the existence of the last place at
  which a request names a sensor (the naturals are well-founded, from the library).
  `KnowledgeInv` extends `GatewayKnows` to every step of a tick and to the time before startup, and uses
  `OnOnlyWhileTimed` where a report tells the gateway of an actuator.
* **CommandHubProofs**: `MainInv` is about the packet the main loop is at. `Counting`: at an element `count` is how many
  elements of the feeder `back` came before, since the last other number (`Run`); with `LaterCounted`, that two elements of one run
  are counted apart, this gives `Apart`. `OnTheBus`: an exchange is for
  an element of a controller in a packet of the server; with `Transfer` the only step that writes registers,
  `ByServer`, of every register the exchange addresses (`TransferSets`). `OnlyByRace` needs of the table only that it is a sequence: updates keep the number of a key's rows, an insert
  raises it by one, and what the tick inserts had none.
* **EarlierDaemonsProofs**: `ReportsInv` adds to `ReportedWhileOn` that the count of an actuator that is
  on is never zero: a tick leaves a zero where it is, and the report would never come due again.
  `RunsInv` measures the slots since the last tick (`Phase`) from the sleeps of the handlers and, in daemon4, the request it
  is at; an actuator has been on for a round per second counted, but for the first, which may have been short, and the phase
  (`RanFor`). Products of rounds are not linear and have lemmas (`Multiples`, `Shorter`).
  `Stores` says that answers under way come from boards there are; that the requests
  of all boards, one behind the other, are requests of some board (`FlattenType`) is shown by a least counterexample
  in place of induction.
  The last part is about GatewayLink. `BuiltTellsItsEnd` shows of every builder that the parser stops behind the last byte of what it
  builds, whatever follows: the bits of the header come back, each value takes four bytes and each sensor of a status eight (again by
  a least counterexample). A length must fit in its byte, and a status must be that of one node with at most 29 sensors, because the
  parser computes where the error counts of more would be with a byte. `LinkInv` cuts the packets that arrived into the
  entries that wait (`Grouped`: entry `k` begins behind packet `ends[k]`) and says what the main loop has left of its
  entry (`AtPacket`); `PacketsHandledAsSent` is what follows. `StatusTold` is about what goes the other way. Where each byte
  of a status lies (`StatusPlaces`) and what the parser makes of it (`StatusRead`) give it back whenever the tables hold
  no more than their bytes can carry: values of two bytes, a mode of four bits, at most 29 sensors. That is `TablesInv`,
  inductive together with the bytes of the entries being bytes: all that is ever written to the tables was read from such bytes.
  It assumes the sizes of the daemon's arrays (`Sizes`) and that the gateway sends bytes, any bytes: no packet needs to be well formed.
* **SensorBoardsProofs**: `BoardsInv` follows the bytes of an answer from the line through ring and
  window and gives `OfItsBoard`. `CurrentAgain` assumes `KeepsUp`. `Line` joins window, ring and driver into one line of bytes, which
  reading moves and answering makes longer; answers stand on it in the order of their requests (`Ordered`). `WorkedOff` bounds what waits in the ring
  by how many calm slots there were (`Spare`: a frame less in each) and by what the main loop has done in this one (`Backlog`). An answer
  made in a calm slot finds room, so it is shown or still on the line whole (`Safe`); `Asking` says so of every request made since the calm began, by its `Age`.
  After `Settled` slots every request is one of these (`AllAsked`), and what is still on the line belongs to the last two
  (`ComingIsNew`). That the requests of a board are among those of all is again shown by least counterexamples in place of induction.
Only model-checked:

* all liveness (`AcceptedIsServed`, `ClosedIsReclaimed`, `EveryPacketDelivered`, `EveryObjectQueued`,
  `EveryReportSent`, `SettempSettles`, `EveryPacketHandled`, `StartupEnds`): the provers have no fairness or ENABLED;

## Not modelled

* Write errors and SIGPIPE of `send_msg`; more than `MAX_CLNT` clients.
* The library that receives the gateway's packets for the daemon: the repository has only its
  binary; the model uses what `main` reads.
* The texts of JSON packets and SQL; the values measured and their conversion.
* The software timers: no program of this commit calls `TimerMgr` (`util.cpp`; the calls at `TTA12daemon4.cpp` 1022-1028 are
  commented out), and the `timer_set` macros of `hwctrl` keep no state.
* The type that a late thread finds for its client in `ClientTable`, and the gateway's DATA and RESPONSE packets in `NodeTimers`
  (see there).
* What follows once a ring's test was answered wrong or its array was left.
* The second to fourth UART: sensors on them are off, `INSTALL_COMM_SENSOR_COUNT` is 0
  (`util.cpp:23`) and assigned nowhere.
* A packet that `Timer_handler` builds while the main loop writes the values in it.
* Code of `tcpsql.cpp` that nothing calls or whose calls are commented out:
  `MakeJPacketICTdevice`, `GetICTDeviceCMD`, `ErrorJsonSend`, `GetSendPacket`, `receivePacket`,
  `checkLoginTable`, `recordDB`, `updateCMDLIST`, `updateCMDvalue`, and `PostJSON`, which
  only talks to libcurl.
* Vendored code (iniparser, dictionary, SQLite) and tests: `TTA12test.cpp` is a daemon's text commented
  out behind a `main` that tries regular expressions; `myserver.cpp` and `modbus_rtu_test.c` try out hardware.

## What could follow

Every component with logic of its own that a program uses has its module, and every module its proofs. What is left:

1. CommandHub under PollCycle's choice of devices instead of all of them.
2. NodeTimers together with GatewayLink's packets, so that DATA and RESPONSE meet running timers.
