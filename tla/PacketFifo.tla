----------------------------- MODULE PacketFifo -----------------------------
(***************************************************************************)
(* What a ring between a receiving thread and the main loop promises: a    *)
(* bounded first-in-first-out buffer.  The buffer is what has been         *)
(* accepted and not yet delivered.                                         *)
(***************************************************************************)
EXTENDS Integers, Sequences

CONSTANT Packet

VARIABLES capacity, accepted, delivered
vars == <<capacity, accepted, delivered>>

Waiting == Len(accepted) - Len(delivered)

Init == accepted = <<>> /\ delivered = <<>>

Put(d) ==
  /\ Waiting < capacity
  /\ accepted' = Append(accepted, d)
  /\ UNCHANGED <<capacity, delivered>>

Get ==
  /\ Waiting > 0
  /\ delivered' = Append(delivered, accepted[Len(delivered) + 1])
  /\ UNCHANGED <<capacity, accepted>>

Next == Get \/ \E d \in Packet : Put(d)

Spec == Init /\ [][Next]_vars
=============================================================================
