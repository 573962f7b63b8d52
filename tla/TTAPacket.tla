----------------------------- MODULE TTAPacket -----------------------------
(***************************************************************************)
(* The packets of TTA12_packet.cpp, byte by byte: what TTA12Packet builds  *)
(* and what TTA12PacketParsing reads.  A header of seven bytes, payload    *)
(* type and length, the payload.  The length is no count of bytes but of   *)
(* values, so a reader finds the end of a packet only by parsing it: the   *)
(* main loop goes on behind the last byte the parser asked for (Consumed). *)
(***************************************************************************)
EXTENDS Integers, Sequences, SequencesExt

FCF_SENSOR == 0
FCF_ACTUATOR == 1
REQUEST == 0
RESPONSE == 1
CONFIRM == 2
NOTIFY == 3
DATA == 4
ACK == 5
PLTYPE_NODEINIT == 0
PLTYPE_NODEINFO == 1
PLTYPE_VALUE == 2
INIT == 0
INIT_NODE == 1
INIT_ACT == 2
NODE_INFO == 3
ACTUATOR_SET == 4
PASSIVE_MODE == 10
ACTIVE_MODE == 11
EVENT_MODE == 12
NODE_ALL == 255
ModeSet == {PASSIVE_MODE, ACTIVE_MODE, EVENT_MODE}

Lo(w) == w % 256
Hi(w) == (w \div 256) % 256

----------------------------------------------------------------------------
(* Building *)
\* The bits of FrameControlField, the lowest first: reserved 2, ack_confirm, security, type 3, device.
Header(dev, type, sec, ack, seq, control, node) ==
  <<4 * ack + 8 * sec + 16 * type + 128 * dev,
    Lo(seq), Hi(seq), Lo(control), Hi(control), Lo(node), Hi(node)>>

Payload(v) == <<v.id, v.type, Lo(v.value), Hi(v.value)>>
Payloads(vs) == FlattenSeq([i \in DOMAIN vs |-> Payload(vs[i])])

\* A sensor or actuator of a node, as a status lists it.
SenAct(s) == Payload(s.data) \o <<s.state, s.isinit, s.mode, s.time>>
\* What such a list tells of it: all but the node, which the list is of.
AsListed(s) == [data |-> s.data, state |-> s.state, isinit |-> s.isinit, mode |-> s.mode, time |-> s.time]
NodeStatus(st, slots) ==
  <<st.sw, st.profile, Lo(st.control), Hi(st.control), Lo(st.node), Hi(st.node),
    st.isinit, st.mode, Lo(st.time), Hi(st.time), st.num>>
  \o FlattenSeq([i \in DOMAIN slots |-> SenAct(slots[i])])
  \o <<Lo(st.comm), Hi(st.comm), Lo(st.service), Hi(st.service)>>

\* lens: the SENACT_NUM of the nodes listed; the four bytes of error counts are not counted.
MakeResponse(lens, bodies) ==
  LET counted[i \in 0..Len(lens)] == IF i = 0 THEN 0 ELSE counted[i - 1] + 11 + 8 * lens[i]
  IN <<PLTYPE_NODEINFO, counted[Len(lens)] % 256>> \o FlattenSeq(bodies)
MakeConfirm(c) ==
  <<PLTYPE_NODEINFO, 10, c.sw, c.profile, Lo(c.control), Hi(c.control), c.node, c.senact, c.error, c.busy, c.comm>>
MakeNotify(code) == <<PLTYPE_NODEINFO, 1, code>>
MakeAck == <<PLTYPE_NODEINFO, 0>>
MakeRequest(cmd) == <<IF cmd = NODE_INFO THEN PLTYPE_NODEINFO ELSE PLTYPE_NODEINIT, 1, cmd>>
\* MakeSensorData and MakeActuatorData; a request names its command before the values.
MakeData(values) == <<PLTYPE_VALUE, Len(values)>> \o Payloads(values)
MakeSetting(cmd, values) == <<PLTYPE_VALUE, Len(values), cmd>> \o Payloads(values)

----------------------------------------------------------------------------
(* Reading.  A place behind the end reads 0: Clear zeroes the buffer. *)
GetData(p, i) == IF i + 1 \in DOMAIN p THEN p[i + 1] ELSE 0
Word(p, i) == GetData(p, i) + 256 * GetData(p, i + 1)

TooSmall(p) == Len(p) < 8
ParsingPacket(p) ==
  LET f == GetData(p, 0)
  IN [ack |-> (f \div 4) % 2, sec |-> (f \div 8) % 2, type |-> (f \div 16) % 8, dev |-> f \div 128,
      seq |-> Word(p, 1), control |-> Word(p, 3), node |-> Word(p, 5),
      pl |-> GetData(p, 7), len |-> GetData(p, 8)]
RequestCommand(p) == GetData(p, 9)

ValueAt(p, i) == [id |-> GetData(p, i), type |-> GetData(p, i + 1), value |-> Word(p, i + 2)]
Values(p, first) == [i \in 1..ParsingPacket(p).len |-> ValueAt(p, first + 4 * (i - 1))]

\* Mistake: the sensors start where the error counts would if there were none.
GetSTATE1Late(p) ==
  LET n == GetData(p, 19)
      e == (20 + 8 * n) % 256
  IN [st |-> [sw |-> GetData(p, 9), profile |-> GetData(p, 10), control |-> Word(p, 11), node |-> Word(p, 13),
              isinit |-> GetData(p, 16) \div 16, mode |-> GetData(p, 16) % 16, time |-> GetData(p, 17),
              num |-> n, comm |-> Word(p, e), service |-> Word(p, e + 2)],
      slots |-> [i \in 1..n |-> LET b == 24 + 8 * (i - 1)
                                IN [data |-> ValueAt(p, b), state |-> GetData(p, b + 4), isinit |-> GetData(p, b + 5),
                                    mode |-> GetData(p, b + 6), time |-> GetData(p, b + 7)]]]
\* ISINIT_NODE is read into the variable that MONITOR_MODE is read into next, and taken from its
\* upper half; MONITOR_TIME goes through a BYTE, so only its low byte is left.
GetSTATE1(p) ==
  LET n == GetData(p, 19)
      e == (20 + 8 * n) % 256
  IN [st |-> [sw |-> GetData(p, 9), profile |-> GetData(p, 10), control |-> Word(p, 11), node |-> Word(p, 13),
              isinit |-> GetData(p, 16) \div 16, mode |-> GetData(p, 16) % 16, time |-> GetData(p, 17),
              num |-> n, comm |-> Word(p, e), service |-> Word(p, e + 2)],
      slots |-> [i \in 1..n |-> LET b == 20 + 8 * (i - 1)
                                IN [data |-> ValueAt(p, b), state |-> GetData(p, b + 4), isinit |-> GetData(p, b + 5),
                                    mode |-> GetData(p, b + 6), time |-> GetData(p, b + 7)]]]
GetSTATE2(p) ==
  [sw |-> GetData(p, 9), profile |-> GetData(p, 10), control |-> Word(p, 11), node |-> GetData(p, 13),
   senact |-> GetData(p, 14), error |-> GetData(p, 15), busy |-> GetData(p, 16), comm |-> GetData(p, 17)]
GetSTATE3(p) == GetData(p, 9)

\* GetReadIndex + 1: the bytes the parser went through.  A request has its command also when it
\* names no values; what is too small is skipped byte by byte.
ReadIndex(p) ==
  LET h == ParsingPacket(p)
      filled == h.len > 0
  IN CASE h.type = REQUEST /\ RequestCommand(p) \in {ACTUATOR_SET} \union ModeSet -> 9 + 4 * h.len
       [] h.type = REQUEST /\ RequestCommand(p) \notin {ACTUATOR_SET} \union ModeSet -> 9
       [] h.type = RESPONSE /\ filled -> IF GetData(p, 19) > 29 THEN 19 + 8 * GetData(p, 19) ELSE 23 + 8 * GetData(p, 19)
       [] h.type = CONFIRM /\ filled -> 17
       [] h.type = NOTIFY /\ filled -> 9
       [] h.type = DATA -> 8 + 4 * h.len
       [] OTHER -> 8
\* Mistake: the loop goes on at the last byte that was read.
ConsumedShort(p) == IF TooSmall(p) THEN 1 ELSE ReadIndex(p)
Consumed(p) == IF TooSmall(p) THEN 1 ELSE ReadIndex(p) + 1
============================================================================
