---------------------------- MODULE StatusReply ----------------------------
(***************************************************************************)
(* What TTA12daemon tells the gateway of a node, a status built from the   *)
(* tables of its sensors and actuators, and the promise about it.          *)
(***************************************************************************)
EXTENDS TTAPacket

CONSTANTS
  Nodes,  \* nodes of sensors and of actuators
  Stride  \* sensors or actuators of a node, and values a packet may hold; 8 in the code

VARIABLES
  SI, AI,  \* the sensors and the actuators
  status   \* SensorNodeStatus, AcutuatorNodeStatus

Places == 0..(Nodes * Stride - 1)
\* The sensors or actuators of a node in their order.
ByNode(tab, node) ==
  LET upto[n \in 0..(Nodes * Stride)] ==
        IF n = 0 THEN <<>> ELSE IF tab[n - 1].node = node THEN Append(upto[n - 1], tab[n - 1]) ELSE upto[n - 1]
  IN upto[Nodes * Stride]

\* MakeReponse for one node or for all; its length is taken from the sensor nodes in both cases.
Response(dev, node, sensors, actuators) ==
  LET listed == IF node = NODE_ALL THEN [i \in 1..Nodes |-> i - 1] ELSE <<node>>
      tab == IF dev = FCF_SENSOR THEN sensors ELSE actuators
  IN MakeResponse([i \in DOMAIN listed |-> status[FCF_SENSOR][listed[i]].num],
                  [i \in DOMAIN listed |-> NodeStatus(status[dev][listed[i]], ByNode(tab, listed[i]))])

\* The status of a node that the daemon sends, read by the parser of this very file, gives the
\* node and its sensors back, unless a mode request moved a sensor to another node or a status
\* with more than the parser keeps was read.
ReplyTellsStatus ==
  \A d \in {FCF_SENSOR, FCF_ACTUATOR}, node \in 0..(Nodes - 1) :
    LET own == ByNode(IF d = FCF_SENSOR THEN SI ELSE AI, node)
        s == GetSTATE1(Header(d, RESPONSE, 1, 0, 1, 0, node) \o Response(d, node, SI, AI))
    IN Len(own) = status[d][node].num
         => /\ s.slots = [i \in DOMAIN own |-> AsListed(own[i])]
            /\ \A f \in {"num", "node", "control", "mode", "comm", "service"} : s.st[f] = status[d][node][f]
=============================================================================
