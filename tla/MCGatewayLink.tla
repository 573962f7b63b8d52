--------------------------- MODULE MCGatewayLink ---------------------------
\* Two nodes of two; packets of every kind, some with values, some asking for an ACK.
EXTENDS GatewayLink
MCSensorMap == [n \in 0..3 |-> n + 1]
MCActuatorMap == [n \in 0..3 |-> [id |-> n \div 2, arg |-> n % 2]]
V(id, type, value) == [id |-> id, type |-> type, value |-> value]
St(node) == [sw |-> 1, profile |-> 1, control |-> 3, node |-> node, isinit |-> 1, mode |-> 2, time |-> 5,
             num |-> 2, comm |-> 258, service |-> 3]
Sl(id, value) == [data |-> V(id, 2, value), state |-> 4, isinit |-> 1, mode |-> 11, time |-> 66]
MCOutgoing == {
  Header(FCF_ACTUATOR, REQUEST, 1, 0, 1, 3, NODE_ALL) \o MakeRequest(NODE_INFO),
  Header(FCF_ACTUATOR, REQUEST, 1, 0, 1, 3, 0) \o MakeSetting(ACTUATOR_SET, <<V(1, 1, 260), V(0, 1, 0)>>),
  Header(FCF_SENSOR, REQUEST, 1, 0, 1, 3, 1) \o MakeSetting(PASSIVE_MODE, <<V(4, 3, 258)>>),
  Header(FCF_SENSOR, RESPONSE, 1, 1, 65535, 3, 0) \o MakeResponse(<<2>>, <<NodeStatus(St(0), <<Sl(1, 300), Sl(2, 9)>>)>>),
  Header(FCF_SENSOR, CONFIRM, 1, 1, 1, 3, 0) \o MakeConfirm([sw |-> 2, profile |-> 1, control |-> 3, node |-> 1, senact |-> 1,
                                                            error |-> 0, busy |-> 1, comm |-> 0]),
  Header(FCF_ACTUATOR, NOTIFY, 1, 1, 1, 3, 1) \o MakeNotify(6),
  Header(FCF_SENSOR, DATA, 1, 0, 1, 3, 1) \o MakeData(<<V(3, 2, 700), V(9, 2, 1)>>),
  Header(FCF_ACTUATOR, DATA, 1, 0, 1, 3, 1) \o MakeData(<<V(1, 1, 5)>>),
  Header(FCF_ACTUATOR, RESPONSE, 1, 0, 1, 3, 1) \o MakeResponse(<<1>>, <<NodeStatus([St(1) EXCEPT !.num = 1], <<Sl(1, 1)>>)>>),
  Header(FCF_SENSOR, RESPONSE, 1, 0, 65534, 3, 1) \o MakeAck,
  Header(FCF_SENSOR, ACK, 1, 0, 1, 3, 1) \o MakeAck}
\* Too few bytes for a packet, and the head of a request without its values.
MCCutPoints == {7, 10}
============================================================================
