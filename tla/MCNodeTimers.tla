---------------------------- MODULE MCNodeTimers ----------------------------
(***************************************************************************)
(* Instances of NodeTimers for TLC: one actuator node and one sensor node  *)
(* of two channels, ON times of one and two ticks and for ever, intervals  *)
(* in seconds and in minutes of two ticks.                                 *)
(***************************************************************************)
EXTENDS NodeTimers

MCUnitTicks == [sec |-> 1, min |-> 2]
MCValue == {0, 1, 2, Always}
=============================================================================
