---------------------------- MODULE SensorBoards ----------------------------
(***************************************************************************)
(* The values of the sensors in TTA12daemon.  Timer_handler polls the      *)
(* boards on the serial bus, one request every 50 ms; RS232_Thread moves   *)
(* what they answer from the driver to a ring of 256 bytes; the main loop  *)
(* takes one frame per iteration out of the ring and stores its values in  *)
(* SI.  While the gateway is not connected an iteration takes a second and *)
(* more (the reconnection), so frames wait and bytes are dropped.          *)
(*                                                                         *)
(* Time is counted in slots of 50 ms.  Assumed of the threads, which sleep *)
(* 50 ms, 50 ms and 20 ms in their loops: in each slot RS232_Thread runs   *)
(* once and the main loop Rate times unless it is reconnecting.  A frame   *)
(* is FrameSize bytes, and a byte is the number of the request it answers  *)
(* and its place: that a checksum holds for bytes of two frames is left    *)
(* out.  The ring as two threads see it is in PacketQueue, of which it is  *)
(* a copy.                                                                 *)
(***************************************************************************)
EXTENDS BoardRequests, FiniteSets

CONSTANTS
  Boards,     \* SENSOR_MAP[n*8] of the sensor nodes: [type, canid]
  Settled,    \* slots without a fault after which the values are current
  FrameSize,  \* COMMPACKET_SIZE, 14 in the code
  RingSize,   \* UART_DATAQUE_SIZE, 256 in the code
  Rate,       \* iterations of the main loop in a slot
  StartFrames, StartRounds, \* the values read before the main loop, 5 in the code, and the seconds it waits for them, 30
  MaxPolls,   \* bound: requests sent
  MaxFaults   \* bound: answers missing or torn, connections lost

\* A CAN id is [data |-> the kind of data, low |-> <<kind of board, number>>].
BoardsAndTimes ==
  /\ Boards \in Seq([type : 0..3, canid : [data : STRING, low : STRING \X (0..15)]])
  /\ FrameSize \in Nat \ {0, 1} /\ RingSize \in Nat /\ RingSize > FrameSize
  /\ Second \in Nat \ {0} /\ Rate \in Nat \ {0} /\ StartFrames \in Nat /\ StartRounds \in Nat /\ Settled \in Nat /\ MaxPolls \in Nat /\ MaxFaults \in Nat
ASSUME SensorBoardsAssumption == BoardsAndTimes

VARIABLES
  dead,     \* the boards that never answer
  timer,    \* Timer_handler: the board it is at, the slots it still sleeps, nodeDelay
  polled,   \* requests sent, and by CAN id the last one that was answered
  shown,    \* SI: by node and kind of data, the request whose answer it shows
  calm,     \* slots since the main loop runs connected and no answer was lost, up to Settled
  driver,   \* bytes received and not read
  ring,     \* USART1RxDataQue
  window,   \* USART1StreamingBuffer
  reads,    \* SensorReadCount, RS2323ReadCount
  main,     \* the main loop: [pc, busy, did], busy the slots until the reconnection has slept
  conn,
  moved,    \* RS232_Thread has run in this slot
  faults
vars == <<dead, timer, polled, driver, ring, window, shown, reads, main, conn, moved, calm, faults>>


Kinds == {"adclo", "adchi", "iso", "counter"}
Ids == UNION {ToSet(Requests(Boards[b])) : b \in DOMAIN Boards}
AllRequests == RequestsOf(Boards)
\* The CAN id of the n-th request, which the answer repeats.
IdOf(n) == AllRequests[((n - 1) % Len(AllRequests)) + 1]
Dead(id) == \E b \in dead : id \in ToSet(Requests(Boards[b]))

Init ==
  /\ dead \in SUBSET DOMAIN Boards
  /\ timer = [next |-> 1, sleep |-> 0, delay |-> 0]
  /\ polled = [n |-> 0, answered |-> [id \in Ids |-> 0]]
  /\ driver = <<>> /\ ring = <<>> /\ window = <<>>
  /\ shown = [n \in DOMAIN Boards |-> [k \in Kinds |-> 0]]
  /\ reads = [sensor |-> 0, round |-> 0]
  /\ main = [pc |-> "startup", busy |-> 0, did |-> 0]
  /\ conn = TRUE /\ moved = FALSE /\ calm = 0 /\ faults = 0

----------------------------------------------------------------------------
(* The bus *)
Frame(n) == [i \in 1..FrameSize |-> <<n, i>>]

\* What a poll leads to on the line: the answer, none, or one that lacks a byte.
Answered(n, answer) ==
  CASE answer = "whole" -> driver \o Frame(n)
    [] answer = "none" -> driver
    [] answer = "torn" -> driver \o Tail(Frame(n))

\* Every thread has had its turn: the slot is over.
SlotOver == moved /\ (main.busy > 0 \/ main.pc = "startup" \/ main.did >= Rate)
NextSlot(quiet) ==
  /\ moved' = FALSE
  /\ main' = [main EXCEPT !.busy = IF @ > 0 THEN @ - 1 ELSE 0, !.did = 0]
  /\ calm' = IF quiet /\ conn /\ main.busy = 0 /\ main.pc = "loop" THEN Min({calm + 1, Settled}) ELSE 0

Poll ==
  /\ SlotOver /\ timer.sleep = 0 /\ timer.next <= Len(AllRequests) /\ polled.n < MaxPolls
  /\ LET id == AllRequests[timer.next]
         n == polled.n + 1
     IN \E answer \in IF Dead(id) THEN {"none"} ELSE {"whole", "none", "torn"} :
          /\ faults' = IF Dead(id) \/ answer = "whole" THEN faults ELSE faults + 1
          /\ faults' <= MaxFaults
          /\ driver' = Answered(n, answer)
          /\ polled' = [n |-> n, answered |-> IF answer = "whole" THEN [polled.answered EXCEPT ![id] = n] ELSE polled.answered]
  /\ timer' = [timer EXCEPT !.next = @ + 1, !.delay = @ + 1]
  /\ NextSlot(faults' = faults) /\ UNCHANGED <<ring, window, shown, reads, conn, dead>>

\* The slots left of the second.  The subtraction is unsigned: with more than twenty requests in a
\* second it wraps, 2^32 us being 85899 slots; with two hundred it is left out.
Sleep(delay) == IF delay >= 200 THEN 0 ELSE IF delay <= Second THEN Second - delay ELSE 85899 - delay + Second
\* The slots of a round.
RoundLength == Len(AllRequests) + Sleep(Len(AllRequests))
\* The ring holds two frames, the main loop reads two for one that comes, and Settled slots are enough
\* to work off a full ring, a frame more coming in every slot, and to ask every board after that.
KeepsUp ==
  /\ RingSize > 2 * FrameSize /\ Rate > 1
  /\ FrameSize * Settled >= RingSize /\ Settled > RoundLength
ASSUME SensorBoardsSettle == KeepsUp

\* The handler's work of a second is done at once before it polls; the round that begins is counted.
EndRound ==
  /\ timer.sleep = 0 /\ timer.next > Len(AllRequests)
  /\ timer' = [next |-> 1, sleep |-> Sleep(timer.delay), delay |-> 0]
  /\ reads' = [reads EXCEPT !.round = IF @ < 60 THEN @ + 1 ELSE 0]
  /\ UNCHANGED <<polled, driver, ring, window, shown, main, conn, moved, calm, faults, dead>>
SleepSlot ==
  /\ SlotOver /\ timer.sleep > 0
  /\ timer' = [timer EXCEPT !.sleep = @ - 1]
  /\ NextSlot(TRUE) /\ UNCHANGED <<polled, driver, ring, window, shown, reads, conn, faults, dead>>

----------------------------------------------------------------------------
(* RS232_Thread: a byte that finds the ring full is dropped. *)
Room == RingSize - 1 - Len(ring)
Move ==
  /\ ~moved /\ moved' = TRUE
  /\ ring' = ring \o SubSeq(driver, 1, Min({Len(driver), Room}))
  /\ driver' = <<>>
  /\ UNCHANGED <<timer, polled, window, shown, reads, main, conn, calm, faults, dead>>

----------------------------------------------------------------------------
(* The main loop *)

\* The window after n bytes of the ring have been shifted in.
Shifted(n) == LET s == window \o SubSeq(ring, 1, n) IN SubSeq(s, Max({1, Len(s) - FrameSize + 1}), Len(s))
IsFrame(w) == Len(w) = FrameSize /\ w = Frame(w[1][1])
\* UART1PacketStreaming stops at the first frame.
Complete == {n \in 1..Len(ring) : IsFrame(Shifted(n))}
\* Mistake: a byte in an iteration.
StreamedByte == Min({1, Len(ring)})
Streamed == IF Complete = {} THEN Len(ring) ELSE Min(Complete)

\* Mistake: the low four bits, as in the line left as a comment, tell the boards apart.
SearchIndexSensorNodeNumber(low) == CHOOSE n \in DOMAIN Boards : Boards[n].canid.low[2] = low[2]
\* The first board of that low byte, or else the last board.
SearchIndexSensorNode(low) ==
  LET known == {n \in DOMAIN Boards : Boards[n].canid.low = low} IN IF known = {} THEN Len(Boards) ELSE Min(known)

\* Which kinds of data a kind of board may send; the base board has them all.
MaySend(id) ==
  \/ id.low[1] = "base" /\ id.data \in Kinds
  \/ id.low[1] = "adc" /\ id.data \in {"adclo", "adchi"}
  \/ id.low[1] = "iso" /\ id.data = "iso"
  \/ id.low[1] = "counter" /\ id.data = "counter"
SensorValueReadToNode(n) ==
  LET id == IdOf(n) IN IF MaySend(id) THEN [shown EXCEPT ![SearchIndexSensorNode(id.low)][id.data] = n] ELSE shown

Streaming ==
  \E n \in {Streamed} :
    /\ window' = Shifted(n)
    /\ ring' = SubSeq(ring, n + 1, Len(ring))
    /\ IF n > 0 /\ IsFrame(window')
       THEN /\ shown' = SensorValueReadToNode(window'[1][1])
            /\ reads' = [reads EXCEPT !.sensor = IF @ < 20 THEN @ + 1 ELSE 0]
       ELSE UNCHANGED <<shown, reads>>

\* Before the main loop the values are read without a pause, until enough frames came or the time is over.
\* Mistake: both.
StartupOverLate == reads.round >= StartRounds /\ reads.sensor > StartFrames
StartupOver == reads.round >= StartRounds \/ reads.sensor > StartFrames
Startup ==
  /\ main.pc = "startup" /\ moved
  /\ IF StartupOver THEN main' = [main EXCEPT !.pc = "loop"] /\ UNCHANGED <<window, ring, shown, reads>>
     ELSE ring # <<>> /\ Streaming /\ UNCHANGED main
  /\ UNCHANGED <<timer, polled, driver, conn, moved, calm, faults, dead>>

\* An iteration; without a connection it connects again, successfully or not, and sleeps a second.
Iterate ==
  /\ main.pc = "loop" /\ main.busy = 0 /\ main.did < Rate
  /\ Streaming
  /\ IF conn THEN main' = [main EXCEPT !.did = @ + 1] /\ UNCHANGED conn
     ELSE main' = [main EXCEPT !.busy = Second] /\ conn' \in BOOLEAN
  /\ UNCHANGED <<timer, polled, driver, moved, calm, faults, dead>>

\* The gateway closes the connection.
ConnectionEnds ==
  /\ conn /\ main.pc = "loop" /\ faults < MaxFaults
  /\ conn' = FALSE /\ faults' = faults + 1 /\ calm' = 0
  /\ UNCHANGED <<timer, polled, driver, ring, window, shown, reads, main, moved, dead>>

Timer == Poll \/ EndRound \/ SleepSlot
Next == Poll \/ EndRound \/ SleepSlot \/ Move \/ Startup \/ Iterate \/ ConnectionEnds
Spec == Init /\ [][Next]_vars
Fairness == WF_vars(Timer) /\ WF_vars(Move) /\ WF_vars(Startup) /\ WF_vars(Iterate)
FairSpec == Spec /\ Fairness

----------------------------------------------------------------------------
(* Properties *)

\* The boards are told apart by the low byte of their CAN ids alone.
ToldApart == \A a, b \in DOMAIN Boards : Boards[a].canid.low = Boards[b].canid.low => a = b
\* Where the boards' ids differ, the values of a node are those of its own board, whatever bytes were
\* lost and whatever the other boards answer.
ValuesOfItsBoard ==
  ToldApart => \A n \in DOMAIN Boards : \A k \in DOMAIN shown[n] :
    shown[n][k] > 0 => IdOf(shown[n][k]).low = Boards[n].canid.low

\* However long the gateway was away and whatever was dropped meanwhile, soon after it is back no value
\* is older than the last answer of its board, but for the answers to the last two requests.
FreshAfterReconnection ==
  calm = Settled /\ ToldApart
    => \A n \in DOMAIN Boards : \A id \in ToSet(Requests(Boards[n])) :
         MaySend(id) => shown[n][id.data] >= polled.answered[id] \/ polled.answered[id] >= polled.n - 1

\* No board needs to answer for the main loop to begin.
StartupEnds == main.pc = "startup" ~> main.pc = "loop"
=============================================================================
