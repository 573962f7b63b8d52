---------------------------- MODULE PacketStream ----------------------------
(***************************************************************************)
(* What TTA12daemon owes the gateway, whatever stands between the two: the *)
(* packets that came out of the connection, what the main loop took for    *)
(* packets, and the promise about them.                                    *)
(***************************************************************************)
EXTENDS SequencesExt

VARIABLES
  arrived, handled,  \* packets read from the connection, and the bytes taken for packets
  whole              \* no read has ended inside a packet

\* However many packets a read holds, the bytes the main loop takes for packets are the packets that
\* arrived, in their order, none skipped, torn or done twice, as long as no read ended inside one.
\* It depends on the parser asking for the last byte of each kind of packet, and on HEAD and TAIL.
HandledAsSent == whole => IsPrefix(handled, arrived)
=============================================================================
