--------------------------- MODULE MCPacketQueue ---------------------------
(***************************************************************************)
(* The two rings of the code for TLC: a UART's, which wraps at its         *)
(* dimension, and the packet ring, which wraps behind it.                  *)
(***************************************************************************)
EXTENDS PacketQueue, TLC

MCRings == {[modulus |-> 3, buffer |-> 3, indexFirst |-> TRUE],
            [modulus |-> 6, buffer |-> 4, indexFirst |-> FALSE]}
=============================================================================
