---------------------------- MODULE PacketQueue ----------------------------
(***************************************************************************)
(* The rings between a thread that receives and the main loop, which takes *)
(* no lock: jsonode's ring of packets (TCPP_RxQuePush, TCPP_RxQuePop in    *)
(* tcpman.cpp), filled by Read_Threads under cmd_mutex, and the rings of   *)
(* bytes of a UART (USART1_RxQuePush, UARTFifoPop in rs232.c), filled by   *)
(* RS232_Thread under mutex_rsbuf1.  It is the same code on other sizes:   *)
(* the packet ring has 256 elements but indexes that wrap at 20480.        *)
(*                                                                         *)
(* The two sides race.  The steps are the memory accesses of the builds in *)
(* the repository: both store the pop index incremented but not wrapped,   *)
(* copy the element and store the index again; tcpman.o (-O2) copies the   *)
(* element pushed and then stores the wrapped push index, while rs232.o    *)
(* (no optimisation) stores the incremented push index first.              *)
(*                                                                         *)
(* A wrong answer of one of the two tests, and a write outside the array,  *)
(* end the behaviour: nothing is said of what follows.                     *)
(***************************************************************************)
EXTENDS Integers, Sequences

CONSTANTS
  Rings,     (* the rings: [modulus, buffer, indexFirst]                  *)
  Thread,    (* the threads that push                                     *)
  Packet,    (* what they push                                            *)
  MaxPush,   (* bound: elements accepted                                  *)
  NoPacket, Free

ASSUME PacketQueueAssumption ==
  /\ \A r \in Rings : r.modulus \in Nat /\ r.modulus >= 2 /\ r.buffer \in Nat
  /\ MaxPush \in Nat
  /\ NoPacket \notin Packet
  /\ Free \notin Thread

VARIABLES
  ring,       (* which ring it is: never changed                          *)
  nBuffer, nPushIndex, nPopIndex,
  mutex,      (* Free, or the thread that pushes                          *)
  push,       (* the push under way: [pc, at, data]                       *)
  pop,        (* the pop under way: [pc, from, data]                      *)
  broken,     (* "no", or what ended the behaviour                        *)
  accepted,   (* history: elements stored and under the push index        *)
  delivered   (* history: elements whose pop returned                     *)

hist == <<accepted, delivered>>
vars == <<ring, nBuffer, nPushIndex, nPopIndex, mutex, push, pop, broken, hist>>

Modulus == ring.modulus
Slot == 0 .. Modulus - 1
Element == 0 .. ring.buffer - 1

\* i % Modulus for the indexes that occur, 0 .. Modulus.
Wrap(i) == IF i = Modulus THEN 0 ELSE i

\* What is in the ring: stored and not yet delivered.
Waiting == Len(accepted) - Len(delivered)

Init ==
  /\ ring \in Rings
  /\ nBuffer = [i \in Element |-> NoPacket]
  /\ nPushIndex = 0
  /\ nPopIndex = 0
  /\ mutex = Free
  /\ push = [pc |-> "idle", at |-> 0, data |-> NoPacket]
  /\ pop = [pc |-> "idle", from |-> 0, data |-> NoPacket]
  /\ broken = "no"
  /\ accepted = <<>>
  /\ delivered = <<>>

-----------------------------------------------------------------------------
(* A push: the test for overflow, then the stores.                         *)

\* Mistake: the overflow test forgets the modulus.
IsFullUnwrapped == nPushIndex + 1 = nPopIndex

IsFull == Wrap(nPushIndex + 1) = nPopIndex

\* A thread with the lock tests for overflow; an element refused is dropped.
\* The test is wrong when every slot holds an element that is not delivered.
Check(t, d) ==
  /\ broken = "no"
  /\ mutex = Free
  /\ Len(accepted) < MaxPush
  /\ ~IsFull
  /\ mutex' = t
  /\ push' = [pc |-> IF ring.indexFirst THEN "advance" ELSE "copy",
              at |-> nPushIndex, data |-> d]
  /\ broken' = IF Waiting = Modulus THEN "overflow test" ELSE "no"
  /\ UNCHANGED <<ring, nBuffer, nPushIndex, nPopIndex, pop, hist>>

\* rs232.o stores the incremented index before the element.
Advance ==
  /\ broken = "no"
  /\ push.pc = "advance"
  /\ nPushIndex' = push.at + 1
  /\ push' = [push EXCEPT !.pc = "copy"]
  /\ UNCHANGED <<ring, nBuffer, nPopIndex, mutex, pop, broken, hist>>

Copy ==
  /\ broken = "no"
  /\ push.pc = "copy"
  /\ push' = [push EXCEPT !.pc = "publish"]
  /\ IF push.at \in Element
     THEN /\ nBuffer' = [nBuffer EXCEPT ![push.at] = push.data]
          /\ accepted' = IF ring.indexFirst THEN Append(accepted, push.data) ELSE accepted
          /\ UNCHANGED broken
     ELSE broken' = "array" /\ UNCHANGED <<nBuffer, accepted>>
  /\ UNCHANGED <<ring, nPushIndex, nPopIndex, mutex, pop, delivered>>

\* The wrapped index is stored, and the lock given back.
PublishAs(i) ==
  /\ broken = "no"
  /\ push.pc = "publish"
  /\ nPushIndex' = i
  /\ accepted' = IF ring.indexFirst THEN accepted ELSE Append(accepted, push.data)
  /\ push' = [pc |-> "idle", at |-> 0, data |-> NoPacket]
  /\ mutex' = Free
  /\ UNCHANGED <<ring, nBuffer, nPopIndex, pop, broken, delivered>>

\* Mistake: the push index is stored without its modulus.
PublishUnwrapped == PublishAs(push.at + 1)

Publish == PublishAs(Wrap(push.at + 1))

-----------------------------------------------------------------------------
(* A pop, called by the main loop.                                         *)

\* The test for an empty ring passes, with answer yes.  It is wrong when
\* nothing is in the ring.
PopTestIf(yes) ==
  /\ broken = "no"
  /\ pop.pc = "idle"
  /\ yes
  /\ broken' = IF Waiting = 0 THEN "emptiness test" ELSE "no"
  /\ pop' = [pc |-> "begin", from |-> nPopIndex, data |-> NoPacket]
  /\ UNCHANGED <<ring, nBuffer, nPushIndex, nPopIndex, mutex, push, hist>>

\* Mistake: a test that forgets the wrapped ring.
PopTestUnlessWrapped == PopTestIf(nPushIndex > nPopIndex)

PopTest == PopTestIf(nPushIndex # nPopIndex)

PopBegin ==
  /\ broken = "no"
  /\ pop.pc = "begin"
  /\ nPopIndex' = pop.from + 1
  /\ pop' = [pop EXCEPT !.pc = "copy"]
  /\ UNCHANGED <<ring, nBuffer, nPushIndex, mutex, push, broken, hist>>

PopCopyFrom(i) ==
  /\ broken = "no"
  /\ pop.pc = "copy"
  /\ pop' = [pop EXCEPT !.pc = "wrap", !.data = nBuffer[i]]
  /\ UNCHANGED <<ring, nBuffer, nPushIndex, nPopIndex, mutex, push, broken, hist>>

\* Mistake: the element is read behind the incremented index.
PopCopyNext == PopCopyFrom(Wrap(nPopIndex) % ring.buffer)

PopCopy == PopCopyFrom(pop.from)

PopEndAt(i) ==
  /\ broken = "no"
  /\ pop.pc = "wrap"
  /\ nPopIndex' = i
  /\ delivered' = Append(delivered, pop.data)
  /\ pop' = [pc |-> "idle", from |-> 0, data |-> NoPacket]
  /\ UNCHANGED <<ring, nBuffer, nPushIndex, mutex, push, broken, accepted>>

\* Mistake: the index is stored as it was.
PopEndStays == PopEndAt(pop.from)

PopEnd == PopEndAt(Wrap(nPopIndex))

-----------------------------------------------------------------------------
Push == Advance \/ Copy \/ Publish
Pop == PopTest \/ PopBegin \/ PopCopy \/ PopEnd

Next == (\E t \in Thread, d \in Packet : Check(t, d)) \/ Push \/ Pop

Spec == Init /\ [][Next]_vars

\* The main loop pops for ever; a push runs to its end.
FairSpec == Spec /\ WF_vars(Push) /\ WF_vars(Pop)

-----------------------------------------------------------------------------
\* The variables have their types; an un-wrapped index is at most Modulus.
TypeOK ==
  /\ ring \in Rings
  /\ nBuffer \in [Element -> Packet \union {NoPacket}]
  /\ nPushIndex \in 0 .. Modulus
  /\ nPopIndex \in 0 .. Modulus
  /\ mutex \in Thread \union {Free}
  /\ push \in [pc : {"idle", "advance", "copy", "publish"}, at : Slot,
               data : Packet \union {NoPacket}]
  /\ pop \in [pc : {"idle", "begin", "copy", "wrap"}, from : Slot,
              data : Packet \union {NoPacket}]
  /\ broken \in {"no", "overflow test", "emptiness test", "array"}
  /\ accepted \in Seq(Packet)
  /\ delivered \in Seq(Packet \union {NoPacket})

\* What the main loop has received is a prefix of what the threads have queued,
\* until a test is answered wrong or the array is left: nothing is lost, doubled,
\* reordered or read before it is written, although the main loop takes no lock.
DeliveredInOrder ==
  /\ Len(delivered) <= Len(accepted)
  /\ \A k \in 1 .. Len(delivered) : delivered[k] = accepted[k]

\* The tests lie in two windows only: the overflow test while the un-wrapped pop
\* index of a pop of the last slot is stored, and the emptiness test while a push
\* of rs232.o has stored its index and not finished.
WrongOnlyInBetween ==
  /\ broken = "overflow test" => pop.pc \in {"copy", "wrap"} /\ nPopIndex = Modulus
  /\ broken = "emptiness test" =>
       /\ ring.indexFirst
       /\ \/ push.pc = "copy"
          \/ push.pc = "publish" /\ nPushIndex = Modulus

\* The packet ring, whose indexes wrap behind its array: no test is ever wrong
\* and it is left by the first packet after as many as it has elements, counted
\* since the start, however few of them wait ("overflow" is never returned).
\* The rings that wrap at their dimension never are.
ArrayLeft ==
  /\ broken = "array" => ring.buffer < Modulus /\ Len(accepted) = ring.buffer
  /\ ring.buffer < Modulus /\ ~ring.indexFirst => broken \in {"no", "array"}

\* The ring implements the bounded buffer; while a pop is under way the slot it
\* is reading counts, so the buffer holds Modulus elements at most.
Fifo == INSTANCE PacketFifo WITH capacity <- Modulus
ImplementsFifo == Fifo!Spec

\* An element that has been queued is delivered, unless the behaviour ends.
EveryPacketDelivered ==
  \A k \in 1 .. MaxPush :
    Len(accepted) >= k ~> (Len(delivered) >= k \/ broken # "no")
=============================================================================
