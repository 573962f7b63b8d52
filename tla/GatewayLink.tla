---------------------------- MODULE GatewayLink ----------------------------
(***************************************************************************)
(* TTA12daemon between the gateway and its own tables: a thread of the     *)
(* linked library puts what it reads from the connection into TCP_CMD_BUF, *)
(* and the main loop parses each entry packet by packet, changes the       *)
(* sensors, actuators and node states they are about and answers.          *)
(*                                                                         *)
(* TCP keeps no boundaries: a read holds any number of packets and may end *)
(* inside one.  What a request does to the timers is in NodeTimers.  Where *)
(* the code writes outside its arrays the model stops and claims nothing.  *)
(***************************************************************************)
EXTENDS StatusReply, PacketStream

CONSTANTS
  SensorMap,   \* SENSOR_MAP: the id of each sensor
  ActuatorMap, \* ACTUATOR_MAP: [id, arg] of each actuator
  Outgoing,    \* packets the gateway may send
  MaxSent,     \* bound: packets sent
  CutPoints,   \* bound: after how many bytes of a packet a read may end
  MaxCuts,     \* bound: reads that end inside a packet
  MaxCloses    \* bound: connections that end

ASSUME GatewayLinkAssumption ==
  /\ Nodes \in 1..8 /\ Stride \in 1..8
  /\ DOMAIN SensorMap = Places /\ DOMAIN ActuatorMap = Places
  /\ MaxSent \in 0..255 /\ MaxCuts \in Nat /\ MaxCloses \in Nat

VARIABLES
  conn,       \* tcpman counts a connection
  wire,       \* packets on their way
  buf,        \* TCP_CMD_BUF
  head, tail, \* TCP_CMD_HEAD, TCP_CMD_TAIL
  main,       \* the main loop, idx and the parser's packet
  seq,        \* SequenceCount
  error,      \* SensorNodeErrorCode, AcutuatorNodeErrorCode
  control,    \* ControllerStatus
  answers,    \* what send_msg was given
  sends, cuts, closes
tables == <<SI, AI, status, error, control>>
link == <<conn, wire, whole, arrived, sends, cuts, closes>>
vars == <<link, tables, buf, head, tail, main, seq, answers, handled>>

Place(n) == [node |-> n \div Stride, data |-> [id |-> n, type |-> 0, value |-> 0],
             state |-> 0, isinit |-> 1, mode |-> 0, time |-> 0]
InitStatus(n) == [sw |-> 1, profile |-> 1, control |-> 0, node |-> n, isinit |-> 0, mode |-> 0, time |-> 2,
                  num |-> Stride, comm |-> 0, service |-> 0]
Init ==
  /\ conn = TRUE /\ wire = <<>> /\ whole = TRUE /\ arrived = <<>> /\ sends = 0 /\ cuts = 0 /\ closes = 0
  /\ SI = [n \in Places |-> [Place(n) EXCEPT !.data.value = n, !.mode = PASSIVE_MODE, !.time = 60]]
  /\ AI = [n \in Places |-> Place(n)]
  /\ status = [d \in {FCF_SENSOR, FCF_ACTUATOR} |-> [n \in 0..(Nodes - 1) |-> InitStatus(n)]]
  /\ error = [d \in {FCF_SENSOR, FCF_ACTUATOR} |-> [n \in 0..(Nodes - 1) |-> 0]]
  /\ control = [sw |-> 0, profile |-> 0, control |-> 0, node |-> 0, senact |-> 0, error |-> 0, busy |-> 0, comm |-> 0]
  /\ buf = <<>> /\ head = 0 /\ tail = 0
  /\ main = [pc |-> "top", idx |-> 0, packet |-> <<>>] /\ seq = 0 /\ answers = <<>> /\ handled = <<>>

----------------------------------------------------------------------------
(* The gateway and the receiving thread.  Both are outside the repository. *)
Send ==
  /\ conn /\ sends < MaxSent
  /\ \E p \in Outgoing : wire' = Append(wire, p)
  /\ sends' = sends + 1
  /\ UNCHANGED <<tables, conn, whole, arrived, cuts, closes, buf, head, tail, main, seq, answers, handled>>

\* The main loop holds cmd_mutex while it parses; the thread is taken to hold it as well.
Locked == main.pc \in {"parse", "done"}
Store(bytes) ==
  /\ buf' = [i \in 0..tail |-> IF i = tail THEN bytes ELSE buf[i]]
  /\ tail' = tail + 1
Receive ==
  /\ conn /\ wire # <<>> /\ ~Locked
  /\ \E k \in 0..Len(wire) :
       \/ /\ k > 0 /\ Store(FlattenSeq(SubSeq(wire, 1, k)))
          /\ wire' = SubSeq(wire, k + 1, Len(wire)) /\ UNCHANGED <<cuts, whole>>
          /\ arrived' = arrived \o SubSeq(wire, 1, k)
       \/ /\ k < Len(wire) /\ cuts < MaxCuts /\ cuts' = cuts + 1 /\ whole' = FALSE
          /\ \E n \in CutPoints \intersect 1..(Len(wire[k + 1]) - 1) :
               /\ Store(FlattenSeq(SubSeq(wire, 1, k)) \o SubSeq(wire[k + 1], 1, n))
               /\ wire' = <<SubSeq(wire[k + 1], n + 1, Len(wire[k + 1]))>> \o SubSeq(wire, k + 2, Len(wire))
          /\ arrived' = arrived \o SubSeq(wire, 1, k)
  /\ UNCHANGED <<tables, conn, sends, closes, head, main, seq, answers, handled>>

ConnectionEnds ==
  /\ conn /\ closes < MaxCloses
  /\ conn' = FALSE /\ wire' = <<>> /\ closes' = closes + 1
  /\ UNCHANGED <<tables, whole, arrived, sends, cuts, buf, head, tail, main, seq, answers, handled>>

----------------------------------------------------------------------------
(* Reading a packet *)
SensorIndex(id) == {n \in Places : SensorMap[n] = id}
ActuatorIndex(v) == {n \in Places : ActuatorMap[n] = [id |-> v.id, arg |-> Hi(v.value)]}
FirstOf(S) == CHOOSE n \in S : \A k \in S : n <= k
Answer(h, type, n, body) == Header(h.dev, type, h.sec, h.ack, n, h.control, h.node) \o body

Installed(node) == node \in 0..(Nodes - 1)
\* What the parser does with p stays inside the arrays.
Defined(p) ==
  LET h == ParsingPacket(p)
      cmd == RequestCommand(p)
  IN CASE h.type = REQUEST ->
            /\ Installed(h.node) \/ (h.node = NODE_ALL /\ cmd \notin {INIT} \union ModeSet)
            /\ cmd \in {ACTUATOR_SET} \union ModeSet => h.len <= Stride
            /\ cmd = ACTUATOR_SET => \A i \in 1..h.len : ActuatorIndex(Values(p, 10)[i]) # {}
            /\ cmd \in ModeSet => \A i \in 1..h.len : SensorIndex(Values(p, 10)[i].id) # {}
       [] h.type = RESPONSE -> h.len > 0 => Installed(h.node) /\ Installed(GetSTATE1(p).st.node) /\ GetSTATE1(p).st.num <= Stride
       [] h.type = NOTIFY -> h.len > 0 => Installed(h.node)
       [] h.type = DATA -> h.len <= Stride
       [] OTHER -> TRUE

Message == buf[head]
Content == main.packet
Loop(idx) == [pc |-> IF Len(Message) > idx THEN "parse" ELSE "done", idx |-> idx,
              packet |-> SubSeq(Message, idx + 1, Len(Message))]
Top == [pc |-> "top", idx |-> 0, packet |-> <<>>]
H == ParsingPacket(Content)
Parsing(type) == main.pc = "parse" /\ ~TooSmall(Content) /\ H.type = type /\ Defined(Content)

\* The do-while goes on behind the last byte read, as long as the entry has more.
Advance ==
  /\ main' = Loop(main.idx + Consumed(Content))
  /\ handled' = Append(handled, SubSeq(Content, 1, Min({Consumed(Content), Len(Content)})))
  /\ UNCHANGED <<link, buf, head, tail>>

\* The last of several values for the same place counts.
LastFor(vs, n, In(_)) == {i \in DOMAIN vs : In(vs[i]) /\ \A j \in DOMAIN vs : In(vs[j]) => j <= i}
SetActuators(vs) ==
  [n \in Places |->
     LET last == LastFor(vs, n, LAMBDA v : ActuatorIndex(v) # {} /\ FirstOf(ActuatorIndex(v)) = n)
     IN IF last = {} THEN AI[n] ELSE [AI[n] EXCEPT !.data = LET v == vs[FirstOf(last)] IN [v EXCEPT !.value = Lo(@)]]]
\* The lowest eight bits of a | b.
LowOr(a, b) ==
  LET bit(w) == IF (a \div w) % 2 = 1 \/ (b \div w) % 2 = 1 THEN w ELSE 0
  IN bit(1) + bit(2) + bit(4) + bit(8) + bit(16) + bit(32) + bit(64) + bit(128)
SetModes(vs, cmd, node) ==
  [n \in Places |->
     LET last == LastFor(vs, n, LAMBDA v : FirstOf(SensorIndex(v.id)) = n)
     IN IF last = {} THEN SI[n]
        ELSE LET v == vs[FirstOf(last)]
             IN [SI[n] EXCEPT !.node = node, !.data.id = v.id, !.mode = cmd, !.time = LowOr(v.value, v.type)]]
SetSensors(vs) ==
  [n \in Places |->
     LET last == LastFor(vs, n, LAMBDA v : SensorIndex(v.id) # {} /\ FirstOf(SensorIndex(v.id)) = n)
     IN IF last = {} THEN SI[n] ELSE [SI[n] EXCEPT !.data = vs[FirstOf(last)]]]

\* ParsingRequest, and the values a passive request has sent at once (TransPassiveModeSensorData).
ParsingRequest ==
  /\ Parsing(REQUEST)
  /\ LET cmd == RequestCommand(Content)
         vs == Values(Content, 10)
         known == cmd \in {INIT, INIT_NODE, INIT_ACT, NODE_INFO, ACTUATOR_SET} \union ModeSet
         passive == IF cmd # PASSIVE_MODE THEN <<>>
                    ELSE <<Header(FCF_SENSOR, DATA, 1, 1, H.seq + 2, 0, H.node)
                           \o MakeData([i \in DOMAIN vs |-> SI'[FirstOf(SensorIndex(vs[i].id))].data])>>
     IN /\ AI' = IF cmd = ACTUATOR_SET THEN SetActuators(vs) ELSE AI
        /\ SI' = IF cmd \in ModeSet THEN SetModes(vs, cmd, H.node) ELSE SI
        /\ seq' = IF cmd = PASSIVE_MODE THEN H.seq + 2 ELSE IF known THEN H.seq + 1 ELSE H.seq
        /\ answers' = answers \o passive
             \o (IF known THEN <<Answer(H, RESPONSE, H.seq + 1, Response(H.dev, H.node, SI', AI'))>> ELSE <<>>)
  /\ Advance /\ UNCHANGED <<status, error, control>>

ReturnAck == IF H.ack = 1 THEN <<Answer(H, ACK, H.seq + 1, MakeAck)>> ELSE <<>>
\* The node of what a status lists is not copied.
AtNode0(x) == [node |-> 0, data |-> x.data, state |-> x.state, isinit |-> x.isinit, mode |-> x.mode, time |-> x.time]
ParsingResponse ==
  /\ Parsing(RESPONSE)
  /\ IF H.len = 0 THEN UNCHANGED <<SI, AI, status>>
     ELSE LET s == GetSTATE1(Content)
              read(tab) == [n \in Places |-> IF n \in (H.node * Stride)..(H.node * Stride + s.st.num - 1)
                                            THEN AtNode0(s.slots[n - H.node * Stride + 1]) ELSE tab[n]]
          IN /\ status' = [status EXCEPT ![H.dev][s.st.node] = s.st]
             /\ IF H.dev = FCF_SENSOR THEN SI' = read(SI) /\ UNCHANGED AI ELSE AI' = read(AI) /\ UNCHANGED SI
  /\ seq' = H.seq + H.ack /\ answers' = answers \o ReturnAck
  /\ Advance /\ UNCHANGED <<error, control>>

\* The ACK of a CONFIRM is built and not sent: the main loop answers everything but a CONFIRM.
ParsingConfirm ==
  /\ Parsing(CONFIRM)
  /\ control' = IF H.len > 0 THEN GetSTATE2(Content) ELSE control
  /\ seq' = H.seq + H.ack /\ UNCHANGED answers
  /\ Advance /\ UNCHANGED <<SI, AI, status, error>>

ParsingNotify ==
  /\ Parsing(NOTIFY)
  /\ error' = IF H.len > 0 THEN [error EXCEPT ![H.dev][H.node] = GetSTATE3(Content)] ELSE error
  /\ seq' = H.seq + H.ack
  /\ answers' = IF H.ack = 1 THEN Append(answers, Answer(H, CONFIRM, H.seq + 1, MakeConfirm(control))) ELSE answers
  /\ Advance /\ UNCHANGED <<SI, AI, status, control>>

ParsingData ==
  /\ Parsing(DATA)
  /\ LET vs == Values(Content, 9)
     IN IF H.dev = FCF_SENSOR THEN SI' = SetSensors(vs) /\ UNCHANGED AI ELSE AI' = SetActuators(vs) /\ UNCHANGED SI
  /\ seq' = H.seq
  /\ Advance /\ UNCHANGED <<status, error, control, answers>>

\* Acknowledgements, the types nobody uses and what is too small to be a packet.
ParsingOther ==
  /\ main.pc = "parse"
  /\ TooSmall(Content) \/ H.type > DATA
  /\ seq' = IF TooSmall(Content) THEN seq ELSE H.seq
  /\ Advance /\ UNCHANGED <<tables, answers>>
ParsingUndefined ==
  /\ main.pc = "parse" /\ ~TooSmall(Content) /\ ~Defined(Content)
  /\ main' = [main EXCEPT !.pc = "undefined"]
  /\ UNCHANGED <<link, tables, buf, head, tail, seq, answers, handled>>

----------------------------------------------------------------------------
(* The main loop *)
Reconnect ==
  /\ main.pc = "top"
  /\ \/ conn /\ main' = [main EXCEPT !.pc = "check"] /\ UNCHANGED conn
     \/ ~conn /\ conn' = TRUE /\ UNCHANGED main
     \/ ~conn /\ main' = [main EXCEPT !.pc = "check"] /\ UNCHANGED conn
  /\ UNCHANGED <<tables, wire, whole, arrived, sends, cuts, closes, buf, head, tail, seq, answers, handled>>

Rest == seq' = IF seq > 65530 THEN 0 ELSE seq
\* Nobody stores an empty entry: the reading thread takes a read of no bytes for the end.
Take ==
  /\ main.pc = "check"
  /\ IF head < tail THEN main' = Loop(0) /\ UNCHANGED seq
     ELSE main' = Top /\ Rest
  /\ UNCHANGED <<link, tables, buf, head, tail, answers, handled>>

\* Mistake: the indexes are reset whether or not the buffer is empty.
DoneReset ==
  /\ main.pc = "done" /\ main' = Top
  /\ head' = 0 /\ tail' = 0
  /\ Rest /\ UNCHANGED <<link, tables, buf, answers, handled>>
Done ==
  /\ main.pc = "done" /\ main' = Top
  /\ IF head + 1 = tail THEN head' = 0 /\ tail' = 0 ELSE head' = head + 1 /\ UNCHANGED tail
  /\ Rest /\ UNCHANGED <<link, tables, buf, answers, handled>>

Parse == ParsingRequest \/ ParsingResponse \/ ParsingConfirm \/ ParsingNotify \/ ParsingData \/ ParsingOther
MainLoop == Reconnect \/ Take \/ Parse \/ Done
Next == Send \/ Receive \/ ConnectionEnds \/ Reconnect \/ Take \/ Done \/ ParsingUndefined
        \/ ParsingRequest \/ ParsingResponse \/ ParsingConfirm \/ ParsingNotify \/ ParsingData \/ ParsingOther
Spec == Init /\ [][Next]_vars

\* The main loop can always go on but before a packet that would have it write outside its arrays, and
\* after it.  Fairness is WF_vars(MainLoop) with that in the place of ENABLED, which TLC would find
\* by building every answer once more at each step.
Stopped == main.pc = "undefined" \/ (main.pc = "parse" /\ ~TooSmall(Content) /\ ~Defined(Content))
Fairness == []<>Stopped \/ []<><<MainLoop>>_vars
FairSpec == Spec /\ Fairness

----------------------------------------------------------------------------
(* Properties *)

\* HandledAsSent, which PacketStream states, and ReplyTellsStatus, which StatusReply does.

\* The main loop catches up with the connection again and again, so that every packet that arrived
\* is handled in the end, also when connections end while it waits in the buffer.  The gateway of
\* the run stops at MaxSent; one that never rests could keep the loop behind.
EveryPacketHandled == []<>(Len(handled) >= Len(arrived) \/ ~whole)
============================================================================
