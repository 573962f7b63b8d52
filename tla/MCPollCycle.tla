---------------------------- MODULE MCPollCycle ----------------------------
(***************************************************************************)
(* Instances of PollCycle for TLC: every list of at most four devices of   *)
(* six kinds, packets of three at most.                                    *)
(***************************************************************************)
EXTENDS PollCycle

Kind(t, c, e) == [type |-> t, cycle |-> c, enable |-> e]

MCRow == {Kind("C", 1, TRUE), Kind("C", 2, TRUE), Kind("C", 3, FALSE),
          Kind("E", 1, TRUE), Kind("E", 3, TRUE), Kind("U", 2, TRUE)}
MCCommands == {{"C", "E"}, {"C"}, {"E"}}
BothCommanded == {{"C", "E"}}
=============================================================================
