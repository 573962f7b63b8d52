--------------------------- MODULE MCCommandHub ---------------------------
\* A heating controller and a water meter are polled; the server sets the controller (with one decimal,
\* as "01"), one that is not there and, without a decimal, one whose number is none; it asks for values
\* and reboots the machine, and a feeder, with a meter between its animals, and the controller answer.
EXTENDS CommandHub
MCDevices == <<[type |-> "C", no |-> "1"], [type |-> "W", no |-> "1"]>>
MCCommands == [C |-> <<"settemp">>, W |-> <<"water">>]
E(type, no, fields) == [type |-> type, no |-> no, fields |-> fields]
F(col, digits, scale) == [col |-> col, val |-> [digits |-> digits, scale |-> scale]]
P(from, type, elems) == [from |-> from, type |-> type, form |-> "array", elems |-> elems]
MCPackets == {
  P("server", "set", <<E("C", "01", <<F("settemp", 271, 1)>>), E("C", "9", <<F("settemp", 280, 1)>>)>>),
  P("server", "set", <<E("C", "x", <<F("settemp", 26, 0)>>)>>),
  P("server", "req", <<E("C", "1", <<F("settemp", 0, 0)>>), E("W", "1", <<F("water", 0, 0)>>)>>),
  P("device", "res", <<E("E", "1", <<F("kg", 1, 0)>>), E("", "", <<>>), E("E", "1", <<F("kg", 2, 0)>>),
                       E("W", "2", <<F("water", 5, 0)>>), E("E", "1", <<F("kg", 3, 0)>>)>>),
  P("device", "res", <<E("C", "1", <<F("settemp", 300, 1)>>)>>),
  [from |-> "server", type |-> "reset", form |-> "absent", elems |-> <<>>]}
MCUnit(t) == CASE t \in {"1", "01"} -> 1 [] t = "9" -> 9 [] OTHER -> 0
MCReadings == {220}
MCSetPoints == {250}
============================================================================
