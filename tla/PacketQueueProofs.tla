------------------------- MODULE PacketQueueProofs -------------------------
(***************************************************************************)
(* Proofs about PacketQueue, for any rings, threads and elements and any   *)
(* number of pushes during a pop.                                          *)
(***************************************************************************)
EXTENDS PacketQueue, TLAPS

-----------------------------------------------------------------------------
(* The inductive invariant of the proofs.                                  *)

\* Where the elements waiting lie: the oldest in slot Oldest, the following ones
\* in the slots after it.
Oldest == IF pop.pc = "idle" THEN nPopIndex ELSE pop.from
At(j) == IF Oldest + j < Modulus THEN Oldest + j ELSE Oldest + j - Modulus
Reading == pop.pc \in {"copy", "wrap"}

\* A push has passed its test and its element is not counted yet.
Pending ==
  \/ push.pc \in {"advance", "copy"}
  \/ push.pc = "publish" /\ ~ring.indexFirst

PopAgrees ==
  /\ Oldest \in Slot
  /\ ~Reading => nPopIndex = Oldest
  /\ Reading => nPopIndex = pop.from + 1
  /\ pop.pc # "idle" => Waiting >= 1

\* The push index is one past the last element waiting, or about to be.
PushAgrees ==
  /\ push.pc = "idle" => nPushIndex = At(Waiting)
  /\ push.pc # "idle" => push.data \in Packet
  /\ Pending => push.at = At(Waiting)
  /\ push.pc = "advance" => ring.indexFirst /\ nPushIndex = push.at
  /\ push.pc \in {"copy", "publish"} =>
       nPushIndex = IF ring.indexFirst THEN push.at + 1 ELSE push.at
  /\ push.pc = "publish" /\ ring.indexFirst => Wrap(push.at + 1) = At(Waiting)

\* One slot stays free, but for the one that a pop is reading.
RoomLeft ==
  /\ Waiting >= 0
  /\ Waiting + (IF Pending THEN 1 ELSE 0) <= Modulus - 1 + (IF Reading THEN 1 ELSE 0)

\* The slots from the oldest on hold the elements accepted and not delivered.
SlotsHoldWaiting ==
  /\ \A j \in 0 .. Waiting - 1 :
       At(j) \in Element /\ nBuffer[At(j)] = accepted[Len(delivered) + 1 + j]
  /\ pop.pc = "wrap" => pop.data = accepted[Len(delivered) + 1]
  /\ push.pc = "publish" => push.at \in Element
  /\ push.pc = "publish" /\ Pending => nBuffer[push.at] = push.data

\* Indexes that wrap behind the array have not wrapped yet.
Unwrapped ==
  ring.buffer < Modulus =>
    /\ push.pc = "idle" => nPushIndex = Len(accepted) /\ Len(accepted) <= ring.buffer
    /\ Pending => push.at = Len(accepted) /\ Len(accepted) <= ring.buffer
    /\ push.pc = "publish" /\ ring.indexFirst => push.at + 1 = Len(accepted)

\* The lock is held exactly during a push.
LockCoversPush == mutex = Free <=> push.pc = "idle"

\* Until the behaviour ends the ring and its indexes agree with what has been
\* pushed and popped, at every step of the race.
RingInv ==
  /\ TypeOK
  /\ DeliveredInOrder
  /\ WrongOnlyInBetween
  /\ ArrayLeft
  /\ LockCoversPush
  /\ broken = "no" => PopAgrees /\ PushAgrees /\ RoomLeft /\ SlotsHoldWaiting /\ Unwrapped

\* The initial ring is empty and every index agrees with it.
LEMMA RingInit == Init => RingInv
<1> SUFFICES ASSUME Init PROVE RingInv
  OBVIOUS
<1> USE PacketQueueAssumption
<1>1. /\ Len(accepted) = 0 /\ Len(delivered) = 0 /\ Waiting = 0
      /\ ring \in Rings /\ Modulus \in Nat /\ Modulus >= 2 /\ ring.buffer \in Nat
  BY DEF Init, Waiting, Modulus
<1>2. TypeOK
  BY <1>1 DEF Init, TypeOK, Slot
<1>3. ~Pending /\ ~Reading /\ Oldest = 0 /\ At(0) = 0
  BY <1>1 DEF Init, Pending, Reading, Oldest, At
<1>4. PopAgrees /\ PushAgrees
  BY <1>1, <1>3 DEF Init, PopAgrees, PushAgrees, Slot
<1>5. RoomLeft
  BY <1>1, <1>3 DEF RoomLeft
<1>6. SlotsHoldWaiting
  BY <1>1 DEF Init, SlotsHoldWaiting
<1>7. Unwrapped
  BY <1>1, <1>3 DEF Init, Unwrapped
<1>8. DeliveredInOrder /\ WrongOnlyInBetween /\ ArrayLeft /\ LockCoversPush
  BY <1>1 DEF Init, DeliveredInOrder, WrongOnlyInBetween, ArrayLeft, LockCoversPush
<1> QED
  BY <1>2, <1>4, <1>5, <1>6, <1>7, <1>8 DEF RingInv

-----------------------------------------------------------------------------
(* The slots a ring of Modulus gives to consecutive elements.              *)

\* The numbers of a state of the invariant.
LEMMA Numbers ==
  ASSUME RingInv
  PROVE  /\ ring \in Rings
         /\ Modulus \in Nat /\ Modulus >= 2 /\ ring.buffer \in Nat
         /\ Len(accepted) \in Nat /\ Len(delivered) \in Nat
         /\ Waiting = Len(accepted) - Len(delivered) /\ Waiting \in Int
         /\ nPushIndex \in Int /\ nPopIndex \in Int
         /\ push.at \in Slot /\ pop.from \in Slot
         /\ Waiting >= 0
         /\ broken = "no" => Oldest \in Slot
<1>1. TypeOK /\ DeliveredInOrder
  BY DEF RingInv
<1>2. /\ ring \in Rings /\ Modulus \in Nat /\ Modulus >= 2 /\ ring.buffer \in Nat
      /\ Len(accepted) \in Nat /\ Len(delivered) \in Nat
  <2>1. ring \in Rings /\ accepted \in Seq(Packet) /\ delivered \in Seq(Packet \union {NoPacket})
    BY <1>1 DEF TypeOK
  <2>2. Modulus \in Nat /\ Modulus >= 2 /\ ring.buffer \in Nat
    BY <2>1, PacketQueueAssumption DEF Modulus
  <2> QED
    BY <2>1, <2>2
<1>3. nPushIndex \in Int /\ nPopIndex \in Int /\ push.at \in Slot /\ pop.from \in Slot
  <2>1. nPushIndex \in 0 .. Modulus /\ nPopIndex \in 0 .. Modulus
    BY <1>1 DEF TypeOK
  <2>2. push.at \in Slot /\ pop.from \in Slot
    BY <1>1 DEF TypeOK
  <2> QED
    BY <1>2, <2>1, <2>2
<1>4. Waiting \in Int /\ Waiting >= 0
  BY <1>1, <1>2 DEF Waiting, DeliveredInOrder
<1>5. broken = "no" => Oldest \in Slot
  BY DEF RingInv, PopAgrees
<1> QED
  BY <1>2, <1>3, <1>4, <1>5 DEF Waiting

\* Different distances from the oldest element are different slots.
LEMMA AtInjective ==
  ASSUME RingInv, broken = "no",
         NEW i \in 0 .. Modulus - 1, NEW j \in 0 .. Modulus - 1, At(i) = At(j)
  PROVE  i = j
BY Numbers DEF At, Slot

\* The slot after the one at distance j is the one at distance j + 1.
LEMMA AtNext ==
  ASSUME RingInv, broken = "no", NEW j \in 0 .. Modulus - 1
  PROVE  At(j) \in Slot /\ At(j + 1) = Wrap(At(j) + 1) /\ At(j + 1) \in Slot
<1>1. /\ Oldest \in Nat /\ Oldest < Modulus /\ Modulus \in Nat
      /\ j \in Nat /\ j < Modulus
  BY Numbers DEF Slot
<1>2. CASE Oldest + j < Modulus
  BY <1>1, <1>2 DEF At, Wrap, Slot
<1>3. CASE Oldest + j >= Modulus
  BY <1>1, <1>3 DEF At, Wrap, Slot
<1> QED
  BY <1>1, <1>2, <1>3

\* The slot of the oldest element, and the slot behind a full ring.
LEMMA AtEnds ==
  ASSUME RingInv, broken = "no"
  PROVE  At(0) = Oldest /\ At(Modulus) = Oldest
BY Numbers DEF At, Slot

\* What does not move the pop index leaves every slot at its distance.
LEMMA AtStays ==
  ASSUME ring' = ring, Oldest' = Oldest
  PROVE  Modulus' = Modulus /\ Slot' = Slot /\ Element' = Element /\ \A j : At(j)' = At(j)
BY DEF Modulus, Slot, Element, At

-----------------------------------------------------------------------------
(* The steps of a push.                                                    *)

\* A push that passes the overflow test finds room, unless the test was wrong,
\* which it is only against the un-wrapped index of a pop of the last slot.
LEMMA CheckFindsRoom ==
  ASSUME RingInv, broken = "no", push.pc = "idle", ~IsFull
  PROVE  /\ Waiting # Modulus =>
              Waiting + 1 <= Modulus - 1 + (IF Reading THEN 1 ELSE 0)
         /\ Waiting = Modulus => Reading /\ nPopIndex = Modulus
<1>1. PopAgrees /\ PushAgrees /\ RoomLeft /\ ~Pending
  BY DEF RingInv, Pending
<1>2. nPushIndex = At(Waiting) /\ Waiting <= Modulus - 1 + (IF Reading THEN 1 ELSE 0)
  BY <1>1, Numbers DEF PushAgrees, RoomLeft
<1>3. ASSUME ~Reading PROVE Waiting + 1 <= Modulus - 1
  <2>1. nPopIndex = Oldest /\ Waiting \in 0 .. Modulus - 1
    BY <1>1, <1>2, <1>3, Numbers DEF PopAgrees
  <2>2. At(Waiting + 1) # Oldest
    BY <1>2, <2>1, AtNext DEF IsFull
  <2>3. Waiting # Modulus - 1
    BY <2>2, AtEnds, Numbers
  <2> QED
    BY <2>1, <2>3, Numbers
<1>4. ASSUME Waiting = Modulus PROVE Reading /\ nPopIndex = Modulus
  <2>1. Reading
    BY <1>2, <1>4, Numbers
  <2>2. nPopIndex = pop.from + 1 /\ Oldest = pop.from
    BY <1>1, <2>1 DEF PopAgrees, Reading, Oldest
  <2>3. Wrap(Oldest + 1) # Oldest + 1
    BY <1>2, <1>4, <2>2, AtEnds DEF IsFull
  <2> QED
    BY <2>1, <2>2, <2>3, Numbers DEF Wrap
<1> QED
  BY <1>2, <1>3, <1>4, Numbers

\* A push that passes its test, or is answered wrong.
LEMMA CheckKeeps ==
  ASSUME RingInv, NEW t \in Thread, NEW d \in Packet, Check(t, d)
  PROVE  RingInv'
<1>1. push.pc = "idle"
  BY DEF Check, RingInv, LockCoversPush
<1>2. /\ broken = "no" /\ ~IsFull
      /\ mutex' = t
      /\ push' = [pc |-> IF ring.indexFirst THEN "advance" ELSE "copy",
                  at |-> nPushIndex, data |-> d]
      /\ broken' = IF Waiting = Modulus THEN "overflow test" ELSE "no"
      /\ UNCHANGED <<ring, nBuffer, nPushIndex, nPopIndex, pop, accepted, delivered>>
  BY DEF Check, hist
<1>3. /\ TypeOK /\ DeliveredInOrder
      /\ PopAgrees /\ PushAgrees /\ RoomLeft /\ SlotsHoldWaiting /\ Unwrapped
      /\ LockCoversPush
  BY <1>2 DEF RingInv
<1>4. Waiting' = Waiting /\ Oldest' = Oldest /\ Reading' = Reading
  BY <1>2 DEF Waiting, Oldest, Reading
<1>5. Modulus' = Modulus /\ Slot' = Slot /\ Element' = Element /\ \A j : At(j)' = At(j)
  BY <1>2, <1>4, AtStays
<1>6. nPushIndex = At(Waiting) /\ ~Pending /\ Pending'
  BY <1>1, <1>2, <1>3 DEF PushAgrees, Pending
<1>7. nPushIndex \in Slot
  <2>1. CASE Waiting < Modulus
    <3>1. Waiting \in 0 .. Modulus - 1
      BY <2>1, Numbers
    <3> QED
      BY <1>2, <1>6, <3>1, AtNext
  <2>2. CASE Waiting >= Modulus
    <3>1. Waiting = Modulus
      BY <1>3, <1>6, <2>2, Numbers DEF RoomLeft
    <3> QED
      BY <1>2, <1>6, <3>1, AtEnds, Numbers
  <2> QED
    BY <2>1, <2>2, Numbers
<1>8. TypeOK'
  <2>1. push' \in [pc : {"idle", "advance", "copy", "publish"}, at : Slot,
                   data : Packet \union {NoPacket}]
    BY <1>2, <1>7
  <2> QED
    BY <1>2, <1>3, <1>5, <2>1 DEF TypeOK
<1>9. DeliveredInOrder'
  BY <1>2, <1>3 DEF DeliveredInOrder
<1>10. WrongOnlyInBetween'
  BY <1>1, <1>2, <1>5, CheckFindsRoom DEF WrongOnlyInBetween, Reading
<1>11. ArrayLeft'
  <2>1. ASSUME ring.buffer < Modulus PROVE Waiting # Modulus
    BY <1>1, <1>3, <2>1, Numbers DEF Unwrapped
  <2> QED
    BY <1>2, <1>5, <2>1 DEF ArrayLeft
<1>12. ASSUME broken' = "no" PROVE (PopAgrees /\ PushAgrees /\ RoomLeft)'
  <2>1. PopAgrees'
    BY <1>2, <1>3, <1>4, <1>5 DEF PopAgrees
  <2>2. PushAgrees'
    BY <1>2, <1>4, <1>5, <1>6 DEF PushAgrees
  <2>3. RoomLeft'
    BY <1>1, <1>2, <1>4, <1>5, <1>6, <1>12, CheckFindsRoom, Numbers DEF RoomLeft
  <2> QED
    BY <2>1, <2>2, <2>3
<1>13. SlotsHoldWaiting' /\ Unwrapped'
  BY <1>1, <1>2, <1>3, <1>4, <1>5, <1>6 DEF SlotsHoldWaiting, Unwrapped, Pending
<1>14. LockCoversPush'
  BY <1>2, PacketQueueAssumption DEF LockCoversPush
<1> QED
  BY <1>8, <1>9, <1>10, <1>11, <1>12, <1>13, <1>14 DEF RingInv

\* The index is stored before the element.
LEMMA AdvanceKeeps ==
  ASSUME RingInv, Advance
  PROVE  RingInv'
<1>1. /\ broken = "no" /\ push.pc = "advance"
      /\ nPushIndex' = push.at + 1
      /\ push' = [push EXCEPT !.pc = "copy"]
      /\ UNCHANGED <<ring, nBuffer, nPopIndex, mutex, pop, broken, accepted, delivered>>
  BY DEF Advance, hist
<1>2. /\ TypeOK /\ DeliveredInOrder /\ WrongOnlyInBetween /\ ArrayLeft
      /\ PopAgrees /\ PushAgrees /\ RoomLeft /\ SlotsHoldWaiting /\ Unwrapped
      /\ LockCoversPush
  BY <1>1 DEF RingInv
<1>3. Waiting' = Waiting /\ Oldest' = Oldest /\ Reading' = Reading
  BY <1>1 DEF Waiting, Oldest, Reading
<1>4. Modulus' = Modulus /\ Slot' = Slot /\ Element' = Element /\ \A j : At(j)' = At(j)
  BY <1>1, <1>3, AtStays
<1>5. push'.pc = "copy" /\ push'.at = push.at /\ push'.data = push.data
  BY <1>1, <1>2 DEF TypeOK
<1>6. Pending /\ Pending' /\ ring.indexFirst
  BY <1>1, <1>2, <1>5 DEF Pending, PushAgrees
<1>7. TypeOK'
  <2>1. nPushIndex' \in 0 .. Modulus
    BY <1>1, Numbers DEF Slot
  <2> QED
    BY <1>1, <1>2, <1>4, <2>1 DEF TypeOK
<1>8. DeliveredInOrder' /\ WrongOnlyInBetween' /\ ArrayLeft' /\ LockCoversPush'
  BY <1>1, <1>2, <1>4, <1>5 DEF DeliveredInOrder, WrongOnlyInBetween, ArrayLeft, LockCoversPush
<1>9. PopAgrees' /\ RoomLeft'
  BY <1>1, <1>2, <1>3, <1>4, <1>6 DEF PopAgrees, RoomLeft
<1>10. PushAgrees'
  BY <1>1, <1>2, <1>3, <1>4, <1>5, <1>6 DEF PushAgrees
<1>11. SlotsHoldWaiting'
  BY <1>1, <1>2, <1>3, <1>4, <1>5 DEF SlotsHoldWaiting
<1>12. Unwrapped'
  BY <1>1, <1>2, <1>4, <1>5, <1>6 DEF Unwrapped
<1> QED
  BY <1>7, <1>8, <1>9, <1>10, <1>11, <1>12 DEF RingInv

\* The slot a push writes is none of those waiting.
LEMMA PushAside ==
  ASSUME RingInv, broken = "no", Pending
  PROVE  /\ Waiting \in 0 .. Modulus - 1 /\ push.at = At(Waiting)
         /\ \A j \in 0 .. Waiting - 1 : At(j) # push.at
<1>1. Waiting \in 0 .. Modulus - 1 /\ push.at = At(Waiting)
  BY Numbers DEF RingInv, RoomLeft, PushAgrees
<1>2. ASSUME NEW j \in 0 .. Waiting - 1 PROVE At(j) # push.at
  <2>1. j \in 0 .. Modulus - 1 /\ j # Waiting
    BY <1>1, Numbers
  <2> QED
    BY <1>1, <2>1, AtInjective
<1> QED
  BY <1>1, <1>2

\* Appending what was pushed keeps what was delivered a prefix.
LEMMA AcceptedGrows ==
  ASSUME RingInv, NEW d \in Packet, accepted' = Append(accepted, d), delivered' = delivered
  PROVE  /\ accepted' \in Seq(Packet) /\ Len(accepted') = Len(accepted) + 1
         /\ \A k \in 1 .. Len(accepted) : accepted'[k] = accepted[k]
         /\ accepted'[Len(accepted) + 1] = d
         /\ Waiting' = Waiting + 1
         /\ DeliveredInOrder'
<1>1. accepted \in Seq(Packet) /\ DeliveredInOrder
  BY DEF RingInv, TypeOK
<1>2. /\ accepted' \in Seq(Packet) /\ Len(accepted') = Len(accepted) + 1
      /\ \A k \in 1 .. Len(accepted) : accepted'[k] = accepted[k]
      /\ accepted'[Len(accepted) + 1] = d
  BY <1>1
<1>3. Waiting' = Waiting + 1
  BY <1>2, Numbers DEF Waiting
<1>4. DeliveredInOrder'
  BY <1>1, <1>2, Numbers DEF DeliveredInOrder
<1> QED
  BY <1>2, <1>3, <1>4

\* The element is stored, or the array is left.
LEMMA CopyKeeps ==
  ASSUME RingInv, Copy
  PROVE  /\ RingInv'
         /\ accepted' # accepted => Waiting < Modulus
<1>1. /\ broken = "no" /\ push.pc = "copy"
      /\ push' = [push EXCEPT !.pc = "publish"]
      /\ UNCHANGED <<ring, nPushIndex, nPopIndex, mutex, pop, delivered>>
  BY DEF Copy
<1>2. /\ TypeOK /\ DeliveredInOrder /\ WrongOnlyInBetween /\ ArrayLeft
      /\ PopAgrees /\ PushAgrees /\ RoomLeft /\ SlotsHoldWaiting /\ Unwrapped
      /\ LockCoversPush
  BY <1>1 DEF RingInv
<1>3. Oldest' = Oldest /\ Reading' = Reading
  BY <1>1 DEF Oldest, Reading
<1>4. Modulus' = Modulus /\ Slot' = Slot /\ Element' = Element /\ \A j : At(j)' = At(j)
  BY <1>1, <1>3, AtStays
<1>5. push'.pc = "publish" /\ push'.at = push.at /\ push'.data = push.data
  BY <1>1, <1>2 DEF TypeOK
<1>6. Pending /\ push.data \in Packet
  BY <1>1, <1>2 DEF Pending, PushAgrees
<1>7. /\ Waiting \in 0 .. Modulus - 1 /\ push.at = At(Waiting)
      /\ \A j \in 0 .. Waiting - 1 : At(j) # push.at
  BY <1>1, <1>6, PushAside
<1>8. LockCoversPush'
  BY <1>1, <1>2, <1>5 DEF LockCoversPush
<1>9. CASE push.at \notin Element
  <2>1. broken' = "array" /\ nBuffer' = nBuffer /\ accepted' = accepted
    BY <1>9 DEF Copy
  <2>2. TypeOK'
    BY <1>1, <1>2, <1>4, <1>5, <2>1 DEF TypeOK
  <2>3. DeliveredInOrder' /\ WrongOnlyInBetween'
    BY <1>1, <1>2, <2>1 DEF DeliveredInOrder, WrongOnlyInBetween
  <2>4. ring.buffer < Modulus
    BY <1>9, Numbers DEF Element, Slot
  <2>5. Len(accepted) = ring.buffer
    BY <1>2, <1>6, <1>9, <2>4, Numbers DEF Unwrapped, Element
  <2>6. ArrayLeft'
    BY <1>1, <1>4, <2>1, <2>4, <2>5 DEF ArrayLeft
  <2> QED
    BY <1>8, <2>1, <2>2, <2>3, <2>6 DEF RingInv
<1>10. CASE push.at \in Element
  <2>1. /\ broken' = "no"
        /\ nBuffer' = [nBuffer EXCEPT ![push.at] = push.data]
        /\ accepted' = IF ring.indexFirst THEN Append(accepted, push.data) ELSE accepted
    BY <1>1, <1>10 DEF Copy
  <2>2. /\ nBuffer' \in [Element -> Packet \union {NoPacket}]
        /\ nBuffer'[push.at] = push.data
        /\ \A i \in Element : i # push.at => nBuffer'[i] = nBuffer[i]
    BY <1>2, <1>6, <1>10, <2>1 DEF TypeOK
  <2>3. ArrayLeft' /\ WrongOnlyInBetween'
    BY <1>1, <1>4, <2>1 DEF ArrayLeft, WrongOnlyInBetween
  <2>4. PopAgrees' /\ RoomLeft' /\ DeliveredInOrder' /\ PushAgrees' /\ SlotsHoldWaiting'
        /\ Unwrapped' /\ accepted' \in Seq(Packet)
    <3>1. CASE ~ring.indexFirst
      <4>1. accepted' = accepted /\ Waiting' = Waiting /\ Pending'
        BY <1>1, <1>5, <2>1, <3>1 DEF Waiting, Pending
      <4>2. PopAgrees' /\ RoomLeft' /\ DeliveredInOrder'
        BY <1>1, <1>2, <1>3, <1>4, <1>6, <4>1 DEF PopAgrees, RoomLeft, DeliveredInOrder
      <4>3. PushAgrees'
        BY <1>1, <1>2, <1>4, <1>5, <1>6, <3>1, <4>1 DEF PushAgrees
      <4>4. SlotsHoldWaiting'
        <5>1. \A j \in 0 .. Waiting - 1 : At(j) \in Element /\ nBuffer'[At(j)] = nBuffer[At(j)]
          BY <1>2, <1>7, <2>2 DEF SlotsHoldWaiting
        <5> QED
          BY <1>1, <1>2, <1>4, <1>5, <1>10, <2>2, <4>1, <5>1 DEF SlotsHoldWaiting
      <4>5. Unwrapped'
        BY <1>1, <1>2, <1>4, <1>5, <1>6, <3>1, <4>1 DEF Unwrapped
      <4> QED
        BY <1>2, <4>1, <4>2, <4>3, <4>4, <4>5 DEF TypeOK
    <3>2. CASE ring.indexFirst
      <4>1. accepted' = Append(accepted, push.data) /\ delivered' = delivered /\ ~Pending'
        BY <1>1, <1>5, <2>1, <3>2 DEF Pending
      <4>2. /\ accepted' \in Seq(Packet) /\ Len(accepted') = Len(accepted) + 1
            /\ \A k \in 1 .. Len(accepted) : accepted'[k] = accepted[k]
            /\ accepted'[Len(accepted) + 1] = push.data
            /\ Waiting' = Waiting + 1
            /\ DeliveredInOrder'
        BY <1>6, <4>1, AcceptedGrows
      <4>3. PopAgrees'
        BY <1>1, <1>2, <1>3, <1>4, <4>2, Numbers DEF PopAgrees
      <4>4. RoomLeft'
        BY <1>2, <1>3, <1>4, <1>6, <4>1, <4>2, Numbers DEF RoomLeft
      <4>5. PushAgrees'
        <5>1. Wrap(push.at + 1) = At(Waiting + 1)
          BY <1>1, <1>7, AtNext
        <5>2. /\ push'.pc = "publish" /\ ring'.indexFirst
              /\ nPushIndex' = push'.at + 1 /\ push'.data \in Packet
          BY <1>1, <1>2, <1>5, <1>6, <3>2 DEF PushAgrees
        <5>3. Wrap(push.at + 1)' = At(Waiting)'
          <6>1. Wrap(push.at + 1)' = Wrap(push.at + 1)
            BY <1>4, <1>5 DEF Wrap
          <6>2. At(Waiting)' = At(Waiting')
            BY <1>1, <1>3, <1>4 DEF At
          <6> QED
            BY <4>2, <5>1, <6>1, <6>2
        <5> QED
          BY <4>1, <5>2, <5>3 DEF PushAgrees
      <4>6. SlotsHoldWaiting'
        <5>1. ASSUME NEW j \in 0 .. Waiting
              PROVE  /\ At(j) \in Element
                     /\ nBuffer'[At(j)] = accepted'[Len(delivered) + 1 + j]
          <6>1. CASE j = Waiting
            BY <1>7, <1>10, <2>2, <4>2, <6>1, Numbers
          <6>2. CASE j # Waiting
            <7>1. j \in 0 .. Waiting - 1 /\ Len(delivered) + 1 + j \in 1 .. Len(accepted)
              BY <6>2, Numbers
            <7> QED
              BY <1>2, <1>7, <2>2, <4>2, <7>1 DEF SlotsHoldWaiting
          <6> QED
            BY <6>1, <6>2
        <5>2. ASSUME pop.pc = "wrap" PROVE pop.data = accepted'[Len(delivered) + 1]
          <6>1. Len(delivered) + 1 \in 1 .. Len(accepted)
            BY <1>2, <5>2, Numbers DEF PopAgrees
          <6> QED
            BY <1>2, <4>2, <5>2, <6>1 DEF SlotsHoldWaiting
        <5>3. Waiting' - 1 = Waiting /\ push'.at \in Element'
          BY <1>4, <1>5, <1>10, <4>2, Numbers
        <5>4. \A j \in 0 .. Waiting' - 1 :
                At(j)' \in Element' /\ nBuffer'[At(j)'] = accepted'[Len(delivered') + 1 + j]
          BY <1>1, <1>4, <5>1, <5>3
        <5> QED
          BY <1>1, <4>1, <5>2, <5>3, <5>4 DEF SlotsHoldWaiting
      <4>7. Unwrapped'
        BY <1>1, <1>2, <1>4, <1>5, <1>6, <4>1, <4>2, <3>2 DEF Unwrapped
      <4> QED
        BY <4>2, <4>3, <4>4, <4>5, <4>6, <4>7
    <3> QED
      BY <3>1, <3>2
  <2>5. TypeOK'
    BY <1>1, <1>2, <1>4, <1>5, <2>1, <2>2, <2>4 DEF TypeOK
  <2> QED
    BY <1>7, <1>8, <2>1, <2>3, <2>4, <2>5, Numbers DEF RingInv
<1> QED
  BY <1>9, <1>10

\* The wrapped index is stored and the lock given back.
LEMMA PublishKeeps ==
  ASSUME RingInv, Publish
  PROVE  /\ RingInv'
         /\ accepted' # accepted => Waiting < Modulus
<1>1. /\ broken = "no" /\ push.pc = "publish"
      /\ nPushIndex' = Wrap(push.at + 1)
      /\ accepted' = IF ring.indexFirst THEN accepted ELSE Append(accepted, push.data)
      /\ push' = [pc |-> "idle", at |-> 0, data |-> NoPacket]
      /\ mutex' = Free
      /\ UNCHANGED <<ring, nBuffer, nPopIndex, pop, broken, delivered>>
  BY DEF Publish, PublishAs
<1>2. /\ TypeOK /\ DeliveredInOrder /\ WrongOnlyInBetween /\ ArrayLeft
      /\ PopAgrees /\ PushAgrees /\ RoomLeft /\ SlotsHoldWaiting /\ Unwrapped
      /\ LockCoversPush
  BY <1>1 DEF RingInv
<1>3. Oldest' = Oldest /\ Reading' = Reading
  BY <1>1 DEF Oldest, Reading
<1>4. Modulus' = Modulus /\ Slot' = Slot /\ Element' = Element /\ \A j : At(j)' = At(j)
  BY <1>1, <1>3, AtStays
<1>5. push'.pc = "idle" /\ ~Pending' /\ push.at \in Element /\ push.data \in Packet
  BY <1>1, <1>2 DEF Pending, SlotsHoldWaiting, PushAgrees
<1>6. nPushIndex' \in Slot
  BY <1>1, Numbers DEF Wrap, Slot
<1>7. LockCoversPush' /\ ArrayLeft' /\ WrongOnlyInBetween'
  BY <1>1, <1>2, <1>4 DEF LockCoversPush, ArrayLeft, WrongOnlyInBetween
<1>8. ASSUME ring.buffer < Modulus PROVE nPushIndex' = push.at + 1 /\ push.at + 1 <= ring.buffer
  BY <1>1, <1>5, <1>8, Numbers DEF Wrap, Element
<1>9. /\ accepted' \in Seq(Packet) /\ DeliveredInOrder' /\ PopAgrees' /\ RoomLeft'
      /\ nPushIndex' = At(Waiting') /\ SlotsHoldWaiting' /\ Unwrapped'
      /\ accepted' # accepted => Waiting < Modulus
  <2>1. CASE ring.indexFirst
    <3>1. accepted' = accepted /\ Waiting' = Waiting /\ ~Pending
      BY <1>1, <2>1 DEF Waiting, Pending
    <3>2. accepted' \in Seq(Packet) /\ DeliveredInOrder' /\ PopAgrees' /\ RoomLeft'
      BY <1>1, <1>2, <1>3, <1>4, <1>5, <3>1
      DEF TypeOK, DeliveredInOrder, PopAgrees, RoomLeft
    <3>3. nPushIndex' = At(Waiting') /\ SlotsHoldWaiting'
      BY <1>1, <1>2, <1>4, <1>5, <2>1, <3>1 DEF PushAgrees, SlotsHoldWaiting
    <3>4. Unwrapped'
      BY <1>1, <1>2, <1>4, <1>5, <1>8, <2>1, <3>1 DEF Unwrapped
    <3> QED
      BY <3>1, <3>2, <3>3, <3>4
  <2>2. CASE ~ring.indexFirst
    <3>1. accepted' = Append(accepted, push.data) /\ delivered' = delivered /\ Pending
      BY <1>1, <2>2 DEF Pending
    <3>2. /\ accepted' \in Seq(Packet) /\ Len(accepted') = Len(accepted) + 1
          /\ \A k \in 1 .. Len(accepted) : accepted'[k] = accepted[k]
          /\ accepted'[Len(accepted) + 1] = push.data
          /\ Waiting' = Waiting + 1
          /\ DeliveredInOrder'
      BY <1>5, <3>1, AcceptedGrows
    <3>3. /\ Waiting \in 0 .. Modulus - 1 /\ push.at = At(Waiting)
          /\ \A j \in 0 .. Waiting - 1 : At(j) # push.at
      BY <1>1, <3>1, PushAside
    <3>4. PopAgrees' /\ RoomLeft'
      BY <1>1, <1>2, <1>3, <1>4, <1>5, <3>1, <3>2, Numbers DEF PopAgrees, RoomLeft
    <3>5. nPushIndex' = At(Waiting')
      BY <1>1, <3>2, <3>3, AtNext
    <3>6. SlotsHoldWaiting'
      <4>1. ASSUME NEW j \in 0 .. Waiting
            PROVE  /\ At(j) \in Element
                   /\ nBuffer[At(j)] = accepted'[Len(delivered) + 1 + j]
        <5>1. CASE j = Waiting
          <6>1. nBuffer[push.at] = push.data /\ At(j) = push.at
            BY <1>1, <1>2, <3>1, <3>3, <5>1 DEF SlotsHoldWaiting
          <6>2. Len(delivered) + 1 + j = Len(accepted) + 1
            BY <5>1, Numbers
          <6> QED
            BY <1>5, <3>2, <6>1, <6>2
        <5>2. CASE j # Waiting
          <6>1. j \in 0 .. Waiting - 1 /\ Len(delivered) + 1 + j \in 1 .. Len(accepted)
            BY <5>2, Numbers
          <6> QED
            BY <1>2, <3>2, <6>1 DEF SlotsHoldWaiting
        <5> QED
          BY <5>1, <5>2
      <4>2. ASSUME pop.pc = "wrap" PROVE pop.data = accepted'[Len(delivered) + 1]
        <5>1. Len(delivered) + 1 \in 1 .. Len(accepted)
          BY <1>2, <4>2, Numbers DEF PopAgrees
        <5> QED
          BY <1>2, <3>2, <4>2, <5>1 DEF SlotsHoldWaiting
      <4>3. Waiting' - 1 = Waiting
        BY <3>2, Numbers
      <4>4. \A j \in 0 .. Waiting' - 1 :
              At(j)' \in Element' /\ nBuffer'[At(j)'] = accepted'[Len(delivered') + 1 + j]
        BY <1>1, <1>4, <4>1, <4>3
      <4> QED
        BY <1>1, <1>5, <4>2, <4>4 DEF SlotsHoldWaiting
    <3>7. Unwrapped'
      BY <1>1, <1>2, <1>4, <1>5, <1>8, <2>2, <3>1, <3>2, Numbers DEF Unwrapped
    <3> QED
      BY <3>2, <3>3, <3>4, <3>5, <3>6, <3>7, Numbers
  <2> QED
    BY <2>1, <2>2
<1>10. PushAgrees'
  BY <1>4, <1>5, <1>9 DEF PushAgrees, Pending
<1>11. TypeOK'
  <2>1. push' \in [pc : {"idle", "advance", "copy", "publish"}, at : Slot,
                   data : Packet \union {NoPacket}]
    BY <1>1, Numbers DEF Slot
  <2>2. nPushIndex' \in 0 .. Modulus
    BY <1>6, Numbers DEF Slot
  <2> QED
    BY <1>1, <1>2, <1>4, <1>9, <2>1, <2>2 DEF TypeOK
<1> QED
  BY <1>1, <1>7, <1>9, <1>10, <1>11 DEF RingInv

-----------------------------------------------------------------------------
(* The steps of a pop.                                                     *)

\* A pop that passes its test, or is answered wrong.
LEMMA PopTestKeeps ==
  ASSUME RingInv, PopTest
  PROVE  RingInv'
<1>1. /\ broken = "no" /\ pop.pc = "idle" /\ nPushIndex # nPopIndex
      /\ broken' = IF Waiting = 0 THEN "emptiness test" ELSE "no"
      /\ pop' = [pc |-> "begin", from |-> nPopIndex, data |-> NoPacket]
      /\ UNCHANGED <<ring, nBuffer, nPushIndex, nPopIndex, mutex, push, accepted, delivered>>
  BY DEF PopTest, PopTestIf, hist
<1>2. /\ TypeOK /\ DeliveredInOrder /\ WrongOnlyInBetween /\ ArrayLeft
      /\ PopAgrees /\ PushAgrees /\ RoomLeft /\ SlotsHoldWaiting /\ Unwrapped
      /\ LockCoversPush
  BY <1>1 DEF RingInv
<1>3. nPopIndex = Oldest /\ nPopIndex \in Slot /\ ~Reading
  BY <1>1, <1>2 DEF PopAgrees, Reading
<1>4. /\ Waiting' = Waiting /\ Oldest' = Oldest /\ ~Reading' /\ pop'.pc = "begin"
      /\ Pending' = Pending
  BY <1>1, <1>3 DEF Waiting, Oldest, Reading, Pending
<1>5. Modulus' = Modulus /\ Slot' = Slot /\ Element' = Element /\ \A j : At(j)' = At(j)
  BY <1>1, <1>4, AtStays
<1>6. TypeOK'
  <2>1. pop' \in [pc : {"idle", "begin", "copy", "wrap"}, from : Slot,
                  data : Packet \union {NoPacket}]
    BY <1>1, <1>3
  <2> QED
    BY <1>1, <1>2, <1>5, <2>1 DEF TypeOK
<1>7. DeliveredInOrder' /\ LockCoversPush'
  BY <1>1, <1>2 DEF DeliveredInOrder, LockCoversPush
<1>8. ASSUME Waiting = 0
      PROVE  /\ ring.indexFirst
             /\ \/ push.pc = "copy"
                \/ push.pc = "publish" /\ nPushIndex = Modulus
  <2>1. At(Waiting) = nPopIndex
    BY <1>1, <1>3, <1>8, AtEnds
  <2>2. push.pc \in {"copy", "publish"} /\ ring.indexFirst
    BY <1>1, <1>2, <2>1 DEF PushAgrees, TypeOK, Pending
  <2>3. push.pc = "publish" => nPushIndex = push.at + 1 /\ Wrap(push.at + 1) = nPopIndex
    BY <1>2, <2>1, <2>2 DEF PushAgrees
  <2> QED
    BY <1>1, <2>2, <2>3 DEF Wrap
<1>9. WrongOnlyInBetween'
  BY <1>1, <1>5, <1>8 DEF WrongOnlyInBetween
<1>10. ArrayLeft'
  BY <1>1, <1>5, <1>8 DEF ArrayLeft
<1>11. ASSUME Waiting # 0 PROVE PopAgrees'
  BY <1>1, <1>2, <1>3, <1>4, <1>5, <1>11, Numbers DEF PopAgrees
<1>12. PushAgrees' /\ RoomLeft'
  BY <1>1, <1>2, <1>3, <1>4, <1>5 DEF PushAgrees, RoomLeft, Wrap
<1>13. SlotsHoldWaiting' /\ Unwrapped'
  BY <1>1, <1>2, <1>4, <1>5 DEF SlotsHoldWaiting, Unwrapped
<1> QED
  BY <1>1, <1>6, <1>7, <1>9, <1>10, <1>11, <1>12, <1>13 DEF RingInv

\* The pop index is stored before it is wrapped.
LEMMA PopBeginKeeps ==
  ASSUME RingInv, PopBegin
  PROVE  RingInv'
<1>1. /\ broken = "no" /\ pop.pc = "begin"
      /\ nPopIndex' = pop.from + 1
      /\ pop' = [pop EXCEPT !.pc = "copy"]
      /\ UNCHANGED <<ring, nBuffer, nPushIndex, mutex, push, broken, accepted, delivered>>
  BY DEF PopBegin, hist
<1>2. /\ TypeOK /\ DeliveredInOrder /\ WrongOnlyInBetween /\ ArrayLeft
      /\ PopAgrees /\ PushAgrees /\ RoomLeft /\ SlotsHoldWaiting /\ Unwrapped
      /\ LockCoversPush
  BY <1>1 DEF RingInv
<1>3. pop'.pc = "copy" /\ pop'.from = pop.from /\ pop'.data = pop.data
  BY <1>1, <1>2 DEF TypeOK
<1>4. /\ Waiting' = Waiting /\ Oldest' = Oldest /\ ~Reading /\ Reading'
      /\ Pending' = Pending
  BY <1>1, <1>3 DEF Waiting, Oldest, Reading, Pending
<1>5. Modulus' = Modulus /\ Slot' = Slot /\ Element' = Element /\ \A j : At(j)' = At(j)
  BY <1>1, <1>4, AtStays
<1>6. TypeOK'
  <2>1. nPopIndex' \in 0 .. Modulus
    BY <1>1, Numbers DEF Slot
  <2> QED
    BY <1>1, <1>2, <1>5, <2>1 DEF TypeOK
<1>7. DeliveredInOrder' /\ LockCoversPush' /\ WrongOnlyInBetween' /\ ArrayLeft'
  BY <1>1, <1>2, <1>5 DEF DeliveredInOrder, LockCoversPush, WrongOnlyInBetween, ArrayLeft
<1>8. PopAgrees'
  BY <1>1, <1>2, <1>3, <1>4, <1>5 DEF PopAgrees
<1>9. PushAgrees'
  BY <1>1, <1>2, <1>4, <1>5 DEF PushAgrees, Wrap
<1>10. RoomLeft'
  BY <1>2, <1>4, <1>5, Numbers DEF RoomLeft
<1>11. SlotsHoldWaiting' /\ Unwrapped'
  BY <1>1, <1>2, <1>3, <1>4, <1>5 DEF SlotsHoldWaiting, Unwrapped
<1> QED
  BY <1>1, <1>6, <1>7, <1>8, <1>9, <1>10, <1>11 DEF RingInv

\* The oldest element is copied.
LEMMA PopCopyKeeps ==
  ASSUME RingInv, PopCopy
  PROVE  RingInv'
<1>1. /\ broken = "no" /\ pop.pc = "copy"
      /\ pop' = [pop EXCEPT !.pc = "wrap", !.data = nBuffer[pop.from]]
      /\ UNCHANGED <<ring, nBuffer, nPushIndex, nPopIndex, mutex, push, broken,
                     accepted, delivered>>
  BY DEF PopCopy, PopCopyFrom, hist
<1>2. /\ TypeOK /\ DeliveredInOrder /\ WrongOnlyInBetween /\ ArrayLeft
      /\ PopAgrees /\ PushAgrees /\ RoomLeft /\ SlotsHoldWaiting /\ Unwrapped
      /\ LockCoversPush
  BY <1>1 DEF RingInv
<1>3. pop'.pc = "wrap" /\ pop'.from = pop.from /\ pop'.data = nBuffer[pop.from]
  BY <1>1, <1>2 DEF TypeOK
<1>4. /\ Waiting' = Waiting /\ Oldest' = Oldest /\ Reading' = Reading
      /\ Pending' = Pending
  BY <1>1, <1>3 DEF Waiting, Oldest, Reading, Pending
<1>5. Modulus' = Modulus /\ Slot' = Slot /\ Element' = Element /\ \A j : At(j)' = At(j)
  BY <1>1, <1>4, AtStays
<1>6. Waiting >= 1 /\ At(0) = pop.from
  BY <1>1, <1>2, AtEnds DEF PopAgrees, Oldest
<1>7. pop.from \in Element /\ nBuffer[pop.from] = accepted[Len(delivered) + 1]
  <2>1. 0 \in 0 .. Waiting - 1
    BY <1>6, Numbers
  <2>2. At(0) \in Element /\ nBuffer[At(0)] = accepted[Len(delivered) + 1 + 0]
    BY <1>2, <2>1 DEF SlotsHoldWaiting
  <2> QED
    BY <1>6, <2>2, Numbers
<1>8. TypeOK'
  <2>1. nBuffer[pop.from] \in Packet \union {NoPacket}
    BY <1>2, <1>7 DEF TypeOK
  <2>2. pop' \in [pc : {"idle", "begin", "copy", "wrap"}, from : Slot,
                  data : Packet \union {NoPacket}]
    BY <1>1, <1>2, <2>1 DEF TypeOK
  <2> QED
    BY <1>1, <1>2, <1>5, <2>2 DEF TypeOK
<1>9. DeliveredInOrder' /\ LockCoversPush' /\ WrongOnlyInBetween' /\ ArrayLeft'
  BY <1>1, <1>2, <1>5 DEF DeliveredInOrder, LockCoversPush, WrongOnlyInBetween, ArrayLeft
<1>10. PopAgrees'
  BY <1>1, <1>2, <1>3, <1>4, <1>5 DEF PopAgrees, Reading
<1>11. PushAgrees' /\ RoomLeft'
  BY <1>1, <1>2, <1>4, <1>5 DEF PushAgrees, RoomLeft, Wrap
<1>12. SlotsHoldWaiting'
  <2>1. pop'.data = accepted'[Len(delivered') + 1]
    BY <1>1, <1>3, <1>7
  <2> QED
    BY <1>1, <1>2, <1>4, <1>5, <2>1 DEF SlotsHoldWaiting
<1>13. Unwrapped'
  BY <1>1, <1>2, <1>4, <1>5 DEF Unwrapped
<1> QED
  BY <1>1, <1>8, <1>9, <1>10, <1>11, <1>12, <1>13 DEF RingInv

\* At the end of a pop the oldest element is delivered, and the slot behind it
\* becomes the oldest.
LEMMA PopEndKeeps ==
  ASSUME RingInv, PopEnd
  PROVE  /\ RingInv'
         /\ Waiting >= 1
         /\ delivered' = Append(delivered, accepted[Len(delivered) + 1])
         /\ accepted' = accepted
<1>1. /\ broken = "no" /\ pop.pc = "wrap"
      /\ nPopIndex' = Wrap(nPopIndex)
      /\ delivered' = Append(delivered, pop.data)
      /\ pop' = [pc |-> "idle", from |-> 0, data |-> NoPacket]
      /\ UNCHANGED <<ring, nBuffer, nPushIndex, mutex, push, broken, accepted>>
  BY DEF PopEnd, PopEndAt
<1>2. /\ TypeOK /\ DeliveredInOrder /\ WrongOnlyInBetween /\ ArrayLeft
      /\ PopAgrees /\ PushAgrees /\ RoomLeft /\ SlotsHoldWaiting /\ Unwrapped
      /\ LockCoversPush
  BY <1>1 DEF RingInv
<1>3. /\ Waiting >= 1 /\ nPopIndex = pop.from + 1 /\ Oldest = pop.from /\ Oldest \in Slot
      /\ pop.data = accepted[Len(delivered) + 1] /\ Reading /\ ~Reading'
  BY <1>1, <1>2 DEF PopAgrees, Oldest, Reading, SlotsHoldWaiting
<1>4. /\ delivered' \in Seq(Packet \union {NoPacket}) /\ Len(delivered') = Len(delivered) + 1
      /\ \A k \in 1 .. Len(delivered) : delivered'[k] = delivered[k]
      /\ delivered'[Len(delivered) + 1] = pop.data
  BY <1>1, <1>2 DEF TypeOK
<1>5. Waiting' = Waiting - 1 /\ Pending' = Pending
  BY <1>1, <1>4, Numbers DEF Waiting, Pending
<1>6. Modulus' = Modulus /\ Slot' = Slot /\ Element' = Element
  BY <1>1 DEF Modulus, Slot, Element
<1>7. Oldest' = Wrap(Oldest + 1) /\ Oldest' \in Slot
  BY <1>1, <1>3, Numbers DEF Oldest, Wrap, Slot
<1>8. ASSUME NEW j \in 0 .. Modulus - 1 PROVE At(j)' = At(j + 1)
  <2>1. At(j)' = IF Oldest' + j < Modulus THEN Oldest' + j ELSE Oldest' + j - Modulus
    BY <1>6 DEF At
  <2>2. /\ Oldest \in Nat /\ Oldest < Modulus /\ Modulus \in Nat
        /\ j \in Nat /\ j < Modulus
    BY <1>3, Numbers DEF Slot
  <2>3. CASE Oldest + 1 = Modulus
    BY <1>7, <2>1, <2>2, <2>3 DEF At, Wrap
  <2>4. CASE Oldest + 1 # Modulus
    BY <1>7, <2>1, <2>2, <2>4 DEF At, Wrap
  <2> QED
    BY <2>3, <2>4
<1>9. Waiting \in 1 .. Modulus
  BY <1>2, <1>3, Numbers DEF RoomLeft
<1>10. At(Waiting)' = At(Waiting)
  <2>1. Waiting - 1 \in 0 .. Modulus - 1 /\ Waiting - 1 + 1 = Waiting
    BY <1>9, Numbers
  <2>2. At(Waiting)' = IF Oldest' + Waiting' < Modulus THEN Oldest' + Waiting'
                       ELSE Oldest' + Waiting' - Modulus
    BY <1>6 DEF At
  <2>3. \A j \in 0 .. Modulus - 1 : At(j)' = IF Oldest' + j < Modulus THEN Oldest' + j
                                            ELSE Oldest' + j - Modulus
    BY <1>6 DEF At
  <2>4. At(Waiting)' = At(Waiting - 1 + 1)
    <3> DEFINE w == Waiting - 1
    <3>1. Waiting' = w /\ w \in 0 .. Modulus - 1
      BY <1>5, <2>1
    <3> HIDE DEF w
    <3>2. \A j \in 0 .. Modulus - 1 :
            At(j + 1) = IF Oldest' + j < Modulus THEN Oldest' + j ELSE Oldest' + j - Modulus
      BY <1>8, <2>3
    <3>3. At(w + 1) = At(Waiting)'
      BY <2>2, <3>1, <3>2
    <3> QED
      BY <3>3 DEF w
  <2> QED
    BY <2>1, <2>4
<1>11. TypeOK'
  <2>1. nPopIndex' \in 0 .. Modulus
    BY <1>1, <1>3, Numbers DEF Wrap, Slot
  <2>2. pop' \in [pc : {"idle", "begin", "copy", "wrap"}, from : Slot,
                  data : Packet \union {NoPacket}]
    BY <1>1, Numbers DEF Slot
  <2> QED
    BY <1>1, <1>2, <1>4, <1>6, <2>1, <2>2 DEF TypeOK
<1>12. DeliveredInOrder'
  <2>1. Len(delivered') <= Len(accepted)
    BY <1>3, <1>4, Numbers
  <2>2. ASSUME NEW k \in 1 .. Len(delivered') PROVE delivered'[k] = accepted[k]
    <3>1. CASE k = Len(delivered) + 1
      BY <1>3, <1>4, <3>1
    <3>2. CASE k # Len(delivered) + 1
      <4>1. k \in 1 .. Len(delivered)
        BY <1>4, <3>2, Numbers
      <4> QED
        BY <1>2, <1>4, <4>1 DEF DeliveredInOrder
    <3> QED
      BY <3>1, <3>2
  <2> QED
    BY <1>1, <2>1, <2>2 DEF DeliveredInOrder
<1>13. LockCoversPush' /\ WrongOnlyInBetween' /\ ArrayLeft'
  BY <1>1, <1>2, <1>6 DEF LockCoversPush, WrongOnlyInBetween, ArrayLeft
<1>14. PopAgrees'
  BY <1>1, <1>6, <1>7 DEF PopAgrees, Reading, Oldest
<1>15. PushAgrees'
  BY <1>1, <1>2, <1>5, <1>6, <1>10 DEF PushAgrees, Wrap
<1>16. RoomLeft'
  BY <1>2, <1>3, <1>5, <1>6, Numbers DEF RoomLeft
<1>17. SlotsHoldWaiting'
  <2>1. ASSUME NEW j \in 0 .. Waiting - 2
        PROVE  At(j)' \in Element /\ nBuffer[At(j)'] = accepted[Len(delivered) + 1 + 1 + j]
    <3>1. j + 1 \in 0 .. Waiting - 1 /\ j \in 0 .. Modulus - 1
      BY <1>9, Numbers
    <3>2. At(j + 1) \in Element /\ nBuffer[At(j + 1)] = accepted[Len(delivered) + 1 + (j + 1)]
      BY <1>2, <3>1 DEF SlotsHoldWaiting
    <3>3. Len(delivered) + 1 + (j + 1) = Len(delivered) + 1 + 1 + j
      BY Numbers
    <3> QED
      BY <1>8, <3>1, <3>2, <3>3
  <2>2. Waiting' - 1 = Waiting - 2 /\ Len(delivered') + 1 = Len(delivered) + 1 + 1
    BY <1>4, <1>5, Numbers
  <2>3. \A j \in 0 .. Waiting' - 1 :
          At(j)' \in Element' /\ nBuffer'[At(j)'] = accepted'[Len(delivered') + 1 + j]
    BY <1>1, <1>6, <2>1, <2>2
  <2> QED
    BY <1>1, <1>2, <1>5, <1>6, <2>3 DEF SlotsHoldWaiting
<1>18. Unwrapped'
  BY <1>1, <1>2, <1>5, <1>6 DEF Unwrapped
<1> QED
  BY <1>1, <1>3, <1>11, <1>12, <1>13, <1>14, <1>15, <1>16, <1>17, <1>18 DEF RingInv

-----------------------------------------------------------------------------
\* Every step keeps the invariant.
LEMMA RingStep ==
  ASSUME RingInv, [Next]_vars
  PROVE  RingInv'
<1>1. CASE \E t \in Thread, d \in Packet : Check(t, d)
  BY <1>1, CheckKeeps
<1>2. CASE Push
  BY <1>2, AdvanceKeeps, CopyKeeps, PublishKeeps DEF Push
<1>3. CASE Pop
  BY <1>3, PopTestKeeps, PopBeginKeeps, PopCopyKeeps, PopEndKeeps DEF Pop
<1>4. CASE UNCHANGED vars
  <2>1. UNCHANGED <<ring, nBuffer, nPushIndex, nPopIndex, mutex, push, pop, broken,
                    accepted, delivered>>
    BY <1>4 DEF vars, hist
  <2>2. TypeOK' /\ DeliveredInOrder' /\ WrongOnlyInBetween' /\ ArrayLeft' /\ LockCoversPush'
    BY <2>1 DEF RingInv, TypeOK, DeliveredInOrder, WrongOnlyInBetween, ArrayLeft,
       LockCoversPush, Slot, Element, Modulus
  <2>3. ASSUME broken = "no"
        PROVE  (PopAgrees /\ PushAgrees /\ RoomLeft /\ SlotsHoldWaiting /\ Unwrapped)'
    <3>1. Waiting' = Waiting /\ Oldest' = Oldest /\ Reading' = Reading /\ Pending' = Pending
      BY <2>1 DEF Waiting, Oldest, Reading, Pending
    <3>2. Modulus' = Modulus /\ Slot' = Slot /\ Element' = Element /\ \A j : At(j)' = At(j)
      BY <2>1, <3>1, AtStays
    <3>3. PopAgrees /\ PushAgrees /\ RoomLeft /\ SlotsHoldWaiting /\ Unwrapped
      BY <2>3 DEF RingInv
    <3>4. PopAgrees' /\ PushAgrees' /\ RoomLeft'
      BY <2>1, <3>1, <3>2, <3>3 DEF PopAgrees, PushAgrees, RoomLeft, Wrap
    <3>5. SlotsHoldWaiting' /\ Unwrapped'
      BY <2>1, <3>1, <3>2, <3>3 DEF SlotsHoldWaiting, Unwrapped
    <3> QED
      BY <3>4, <3>5
  <2> QED
    BY <2>1, <2>2, <2>3 DEF RingInv
<1> QED
  BY <1>1, <1>2, <1>3, <1>4 DEF Next

\* The ring and its indexes agree with what has been pushed and popped at every
\* step of the race, for either order of the stores and any sizes.
THEOREM RingInvariant == Spec => []RingInv
<1>1. Init => RingInv
  BY RingInit
<1>2. RingInv /\ [Next]_vars => RingInv'
  BY RingStep
<1> QED
  BY <1>1, <1>2, PTL DEF Spec

\* Until a test is answered wrong or the array is left, nothing is lost, doubled
\* or reordered.
THEOREM InOrder == Spec => []DeliveredInOrder
<1>1. RingInv => DeliveredInOrder
  BY DEF RingInv
<1> QED
  BY <1>1, RingInvariant, PTL

\* The tests are answered wrong in two windows of the stores only.
THEOREM WrongWindows == Spec => []WrongOnlyInBetween
<1>1. RingInv => WrongOnlyInBetween
  BY DEF RingInv
<1> QED
  BY <1>1, RingInvariant, PTL

\* A ring whose indexes wrap behind its array is left by the first element after
\* as many as it has; others never are.
THEOREM LeavesArray == Spec => []ArrayLeft
<1>1. RingInv => ArrayLeft
  BY DEF RingInv
<1> QED
  BY <1>1, RingInvariant, PTL

\* The ring implements the bounded buffer of PacketFifo.
THEOREM Refinement == Spec => ImplementsFifo
<1>1. Init => Fifo!Init
  BY DEF Init, Fifo!Init
<1>2. ASSUME RingInv, [Next]_vars PROVE [Fifo!Next]_(Fifo!vars)
  <2>1. Fifo!Waiting = Waiting
    BY DEF Fifo!Waiting, Waiting
  <2>2. Modulus' = Modulus
    BY <1>2 DEF Next, Check, Push, Advance, Copy, Publish, PublishAs, Pop, PopTest, PopTestIf,
       PopBegin, PopCopy, PopCopyFrom, PopEnd, PopEndAt, vars, Modulus
  <2>3. CASE Copy \/ Publish
    <3>1. accepted' = accepted \/ accepted' = Append(accepted, push.data)
      BY <2>3 DEF Copy, Publish, PublishAs
    <3>2. delivered' = delivered
      BY <2>3 DEF Copy, Publish, PublishAs
    <3>3. push.data \in Packet
      BY <1>2, <2>3 DEF RingInv, PushAgrees, Copy, Publish, PublishAs
    <3>4. accepted' # accepted => Waiting < Modulus
      BY <1>2, <2>3, CopyKeeps, PublishKeeps
    <3>5. CASE accepted' = accepted
      BY <2>2, <3>2, <3>5 DEF Fifo!vars
    <3>6. CASE accepted' # accepted
      <4>1. Fifo!Put(push.data)
        BY <2>1, <2>2, <3>1, <3>2, <3>4, <3>6 DEF Fifo!Put
      <4> QED
        BY <3>3, <4>1 DEF Fifo!Next
    <3> QED
      BY <3>5, <3>6
  <2>4. CASE PopEnd
    <3>1. /\ Waiting >= 1 /\ accepted' = accepted
          /\ delivered' = Append(delivered, accepted[Len(delivered) + 1])
      BY <1>2, <2>4, PopEndKeeps
    <3>2. Waiting > 0
      BY <1>2, <3>1, Numbers
    <3>3. Fifo!Get
      BY <2>1, <2>2, <3>1, <3>2 DEF Fifo!Get
    <3> QED
      BY <3>3 DEF Fifo!Next
  <2>5. CASE UNCHANGED hist
    BY <2>2, <2>5 DEF hist, Fifo!vars
  <2>6. CASE (\E t \in Thread, d \in Packet : Check(t, d)) \/ Advance \/ PopTest \/ PopBegin
             \/ PopCopy \/ UNCHANGED vars
    <3>1. UNCHANGED hist
      BY <2>6 DEF Check, Advance, PopTest, PopTestIf, PopBegin, PopCopy, PopCopyFrom, vars
    <3> QED
      BY <2>5, <3>1
  <2> QED
    BY <1>2, <2>3, <2>4, <2>6 DEF Next, Push, Pop
<1> QED
  BY <1>1, <1>2, RingInvariant, PTL DEF Spec, ImplementsFifo, Fifo!Spec
=============================================================================
