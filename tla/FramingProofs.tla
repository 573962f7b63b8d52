--------------------------- MODULE FramingProofs ---------------------------
(***************************************************************************)
(* Proofs about Framing, for any objects, any junk between them and any    *)
(* size of the reassembly buffer.                                          *)
(***************************************************************************)
EXTENDS Framing, FiniteSetTheorems, TLAPS

\* What every queued packet has at its ends.
Framed(s) == s # <<>> /\ Head(s) = OPEN /\ Last(s) = CLOSE
FramedByBraces == \A k \in 1 .. Len(pushed) : Framed(pushed[k])

\* The prefixes of s up to the n-th have more opening than closing braces.
Unmatched(s, n) ==
  \A k \in 1 .. n : Occurrences(s, OPEN, k) > Occurrences(s, CLOSE, k)

\* Until the buffer is full the counts are those of its braces, and if it begins
\* with an opening brace they have not met yet.
BufferCounted ==
  Len(nData) < BufSize - 1 =>
    /\ ocnt = Occurrences(nData, OPEN, Len(nData))
    /\ ccnt = Occurrences(nData, CLOSE, Len(nData))
    /\ nData # <<>> /\ nData[1] = OPEN => Unmatched(nData, Len(nData))

\* A queued packet that did not fill the buffer is one balanced object.
WholeWhenShort ==
  \A k \in 1 .. Len(pushed) : Len(pushed[k]) < BufSize - 1 => IsObject(pushed[k])

FramingInv ==
  TypeOK /\ OpenObjectUnfinished /\ FramedByBraces /\ BufferCounted /\ WholeWhenShort

\* How many bytes of the k-th object have been scanned, when it begins behind the
\* st[k]-th byte that has not: st[k] is negative for an object that is begun.
Scanned(st, k) == IF st[k] < 0 THEN -st[k] ELSE 0
Got(os, st, k) == NonBlanks(os[k], Scanned(st, k))

\* Objects, their places and the bytes they lie in.
Placed(os, p, st, z) ==
  /\ Len(os) \in Nat /\ p \in 0 .. Len(os) /\ z \in Seq(Byte)
  /\ \A k \in 1 .. Len(os) : Len(os[k]) \in Nat /\ Stripped(os[k]) # <<>> /\ st[k] \in Int

\* The objects behind the p-th lie one behind the other in z, and what lies between
\* them opens none.
Lies(os, p, st, z) ==
  /\ \A k \in p + 1 .. Len(os) :
       /\ st[k] + Len(os[k]) <= Len(z)
       /\ \A i \in 1 .. Len(os[k]) : st[k] + i >= 1 => z[st[k] + i] = os[k][i]
  /\ \A k, l \in p + 1 .. Len(os) : k < l => st[k] + Len(os[k]) <= st[l]
  /\ \A j \in 1 .. Len(z) :
       z[j] \notin {BLANK, CLOSE} =>
         \E k \in p + 1 .. Len(os) : st[k] < j /\ j <= st[k] + Len(os[k])

\* The places of the objects when d more bytes have been scanned.
Shifted(os, st, later, d) ==
  d \in Nat /\ \A k \in 1 .. Len(os) : st[k] \in Int /\ later[k] = st[k] - d

\* Behind the first of the d bytes scanned are only blanks, and the objects behind the
\* q-th begin there or later.
Dropped(os, q, st, z, d) ==
  /\ \A j \in 2 .. d : z[j] = BLANK
  /\ \A k \in q + 1 .. Len(os) : st[k] >= 1

\* None of the objects behind the p-th has been scanned to its last brace.
Awaited(os, p, st) ==
  \A k \in p + 1 .. Len(os) :
    st[k] + Len(os[k]) >= 1 /\ Got(os, st, k) < Len(Stripped(os[k]))

\* The buffer and the counts after i bytes of t.
Holds(t, i) ==
  /\ nData = Cut(SubSeq(t, 1, i))
  /\ ocnt = Occurrences(t, OPEN, i)
  /\ ccnt = Occurrences(t, CLOSE, i)

\* The buffer holds what has been scanned of the next object.
Tracked(os, p, st) ==
  IF p < Len(os) THEN Holds(Stripped(os[p + 1]), Got(os, st, p + 1)) ELSE Holds(<<>>, 0)

InStream(st) ==
  /\ Lies(sent, Len(pushed), st, msg \o wire)
  /\ Awaited(sent, Len(pushed), st)
  /\ Tracked(sent, Len(pushed), st)

\* What is queued is what the first objects sent become.
InOrder ==
  /\ Len(pushed) <= Len(sent)
  /\ \A k \in 1 .. Len(pushed) : pushed[k] = Cut(Stripped(sent[k]))

\* As long as nothing was dropped the rest of the stream is the rest of the objects.
StreamInv == clean => InOrder /\ \E st \in [1 .. Len(sent) -> Int] : InStream(st)

-----------------------------------------------------------------------------
(* The helpers.                                                            *)

\* Storing a byte keeps the buffer within its size, ends it with that byte, and
\* leaves its first byte alone unless the buffer was empty.
LEMMA StoredBuffer ==
  ASSUME TypeOK, NEW b \in Byte \ {BLANK}
  PROVE  /\ Stored(b) \in Seq(Byte \ {BLANK})
         /\ Stored(b) # <<>> /\ Len(Stored(b)) <= BufSize - 1
         /\ Stored(b)[Len(Stored(b))] = b
         /\ Stored(b)[1] = IF nData = <<>> THEN b ELSE nData[1]
<1> USE FramingAssumption
<1> DEFINE Bytes == Byte \ {BLANK}
<1>1. nData \in Seq(Bytes) /\ Len(nData) \in Nat /\ Len(nData) <= BufSize - 1
  BY DEF TypeOK
<1> HIDE DEF Bytes
<1>2. b \in Bytes
  BY DEF Bytes
<1>3. CASE Len(nData) < BufSize - 1
  <2>1. Stored(b) = Append(nData, b)
    BY <1>3 DEF Stored
  <2> QED
    BY <1>1, <1>2, <1>3, <2>1 DEF Bytes
<1>4. CASE Len(nData) = BufSize - 1
  <2>1. Stored(b) = [nData EXCEPT ![BufSize - 1] = b]
    BY <1>4 DEF Stored
  <2>2. nData # <<>> /\ BufSize - 1 \in 2 .. Len(nData)
    BY <1>1, <1>4
  <2> QED
    BY <1>1, <1>2, <1>4, <2>1, <2>2 DEF Bytes
<1> QED
  BY <1>1, <1>3, <1>4

\* The counts after a byte.
LEMMA Counts ==
  ASSUME TypeOK, NEW b \in Byte
  PROVE  /\ Opened(b) \in Nat /\ Closed(b) \in Nat
         /\ Opened(b) >= ocnt /\ Closed(b) >= ccnt
         /\ b = OPEN => Opened(b) = ocnt + 1 /\ Closed(b) = ccnt
         /\ b = CLOSE => Opened(b) = ocnt /\ Closed(b) = ccnt + 1
         /\ b \notin {OPEN, CLOSE} => Opened(b) = ocnt /\ Closed(b) = ccnt
<1>1. ocnt \in Nat /\ ccnt \in Nat
  BY DEF TypeOK
<1>2. OPEN # CLOSE
  BY DEF OPEN, CLOSE
<1>3. Opened(b) = IF b = OPEN THEN ocnt + 1 ELSE ocnt
  BY <1>1 DEF Opened
<1>4. Closed(b) = IF b = CLOSE THEN ccnt + 1 ELSE ccnt
  BY <1>1 DEF Closed
<1> QED
  BY <1>1, <1>2, <1>3, <1>4

\* What one more byte adds to the occurrences of b.
LEMMA OneMore ==
  ASSUME NEW s, NEW b, NEW n \in Nat
  PROVE  /\ Occurrences(s, b, n) \in Nat
         /\ Occurrences(s, b, 0) = 0
         /\ s[n + 1] = b => Occurrences(s, b, n + 1) = Occurrences(s, b, n) + 1
         /\ s[n + 1] # b => Occurrences(s, b, n + 1) = Occurrences(s, b, n)
<1> DEFINE At(m) == {k \in 1 .. m : s[k] = b}
<1>1. IsFiniteSet(1 .. n) /\ At(n) \in SUBSET (1 .. n)
  BY FS_Interval
<1>2. IsFiniteSet(At(n)) /\ Cardinality(At(n)) \in Nat
  BY <1>1, FS_Subset, FS_CardinalityType
<1>3. At(0) = {}
  OBVIOUS
<1>4. CASE s[n + 1] = b
  <2>1. At(n + 1) = At(n) \union {n + 1} /\ n + 1 \notin At(n)
    BY <1>4
  <2>2. Cardinality(At(n + 1)) = Cardinality(At(n)) + 1
    BY <1>2, <2>1, FS_AddElement
  <2> QED
    BY <1>2, <1>3, <1>4, <2>2, FS_EmptySet DEF Occurrences
<1>5. CASE s[n + 1] # b
  <2>1. At(n + 1) = At(n)
    BY <1>5
  <2> QED
    BY <1>2, <1>3, <1>5, <2>1, FS_EmptySet DEF Occurrences
<1> QED
  BY <1>4, <1>5

\* A byte appended does not change the prefixes.
LEMMA PrefixKept ==
  ASSUME NEW T, NEW s \in Seq(T), NEW c \in T, NEW b, NEW n \in Nat, n <= Len(s)
  PROVE  Occurrences(Append(s, c), b, n) = Occurrences(s, b, n)
<1>1. \A k \in 1 .. n : Append(s, c)[k] = s[k]
  OBVIOUS
<1>2. {k \in 1 .. n : Append(s, c)[k] = b} = {k \in 1 .. n : s[k] = b}
  BY <1>1
<1> QED
  BY <1>2 DEF Occurrences

\* The counts after a byte are those of the buffer it leaves, unless that is full.
LEMMA CountsOfStored ==
  ASSUME TypeOK, BufferCounted, NEW b \in Byte \ {BLANK}, Len(Stored(b)) < BufSize - 1
  PROVE  /\ Stored(b) = Append(nData, b)
         /\ Len(nData) < BufSize - 1
         /\ Opened(b) = Occurrences(Stored(b), OPEN, Len(Stored(b)))
         /\ Closed(b) = Occurrences(Stored(b), CLOSE, Len(Stored(b)))
         /\ nData # <<>> /\ nData[1] = OPEN => Unmatched(Stored(b), Len(nData))
<1> USE FramingAssumption
<1> DEFINE Bytes == Byte \ {BLANK}
           n == Len(nData)
<1>1. nData \in Seq(Bytes) /\ n \in Nat /\ n <= BufSize - 1
  BY DEF TypeOK
<1>2. b \in Bytes
  OBVIOUS
<1> HIDE DEF Bytes
<1>3. n < BufSize - 1
  <2>1. CASE n = BufSize - 1
    <3>1. Stored(b) = [nData EXCEPT ![BufSize - 1] = b]
      BY <2>1 DEF Stored
    <3>2. Len(Stored(b)) = n
      BY <1>1, <1>2, <3>1
    <3> QED
      BY <2>1, <3>2
  <2> QED
    BY <1>1, <2>1
<1>4. Stored(b) = Append(nData, b)
  BY <1>3 DEF Stored
<1>5. Len(Stored(b)) = n + 1 /\ Stored(b)[n + 1] = b
  BY <1>1, <1>2, <1>4
<1>6. /\ ocnt = Occurrences(nData, OPEN, n)
      /\ ccnt = Occurrences(nData, CLOSE, n)
      /\ nData # <<>> /\ nData[1] = OPEN => Unmatched(nData, n)
  BY <1>3 DEF BufferCounted
<1>7. \A c, k : k \in Nat /\ k <= n => Occurrences(Stored(b), c, k) = Occurrences(nData, c, k)
  BY <1>1, <1>2, <1>4, PrefixKept
<1> HIDE DEF n
<1>8. /\ Occurrences(Stored(b), OPEN, n) = ocnt
      /\ Occurrences(Stored(b), CLOSE, n) = ccnt
  BY <1>1, <1>6, <1>7
<1>9. Opened(b) = Occurrences(Stored(b), OPEN, n + 1)
  <2>1. /\ b = OPEN => Occurrences(Stored(b), OPEN, n + 1) = Occurrences(Stored(b), OPEN, n) + 1
        /\ b # OPEN => Occurrences(Stored(b), OPEN, n + 1) = Occurrences(Stored(b), OPEN, n)
    BY <1>1, <1>5, OneMore
  <2>2. ocnt \in Nat
    BY DEF TypeOK
  <2> QED
    BY <1>8, <2>1, <2>2 DEF Opened
<1>10. Closed(b) = Occurrences(Stored(b), CLOSE, n + 1)
  <2>1. /\ b = CLOSE => Occurrences(Stored(b), CLOSE, n + 1) = Occurrences(Stored(b), CLOSE, n) + 1
        /\ b # CLOSE => Occurrences(Stored(b), CLOSE, n + 1) = Occurrences(Stored(b), CLOSE, n)
    BY <1>1, <1>5, OneMore
  <2>2. ccnt \in Nat
    BY DEF TypeOK
  <2> QED
    BY <1>8, <2>1, <2>2 DEF Closed
<1>11. nData # <<>> /\ nData[1] = OPEN => Unmatched(Stored(b), n)
  <2> SUFFICES ASSUME nData # <<>>, nData[1] = OPEN, NEW k \in 1 .. n
               PROVE  Occurrences(Stored(b), OPEN, k) > Occurrences(Stored(b), CLOSE, k)
    BY DEF Unmatched
  <2>1. Occurrences(nData, OPEN, k) > Occurrences(nData, CLOSE, k)
    BY <1>6 DEF Unmatched
  <2>2. k \in Nat /\ k <= n
    BY <1>1
  <2> QED
    BY <1>7, <2>1, <2>2
<1> QED
  BY <1>3, <1>4, <1>5, <1>9, <1>10, <1>11 DEF n

\* Nothing is buffered or queued before the first byte.
LEMMA FramingInit == Init => FramingInv
<1> SUFFICES ASSUME Init PROVE FramingInv
  OBVIOUS
<1>1. TypeOK
  BY FramingAssumption DEF Init, TypeOK
<1>2. OpenObjectUnfinished
  BY DEF Init, OpenObjectUnfinished
<1>3. FramedByBraces /\ WholeWhenShort
  BY DEF Init, FramedByBraces, WholeWhenShort
<1>4. BufferCounted
  BY OneMore DEF Init, BufferCounted
<1> QED
  BY <1>1, <1>2, <1>3, <1>4 DEF FramingInv

-----------------------------------------------------------------------------
(* Each step preserves the invariant.                                      *)

\* The peer changes only what is under way.
LEMMA SendObjectKeeps ==
  ASSUME FramingInv, NEW o \in Object, SendObject(o)
  PROVE  FramingInv'
<1>1. o \in Seq(Byte)
  BY FramingAssumption
<1>2. TypeOK'
  BY <1>1 DEF FramingInv, TypeOK, SendObject, buffer
<1>3. OpenObjectUnfinished'
  BY DEF FramingInv, OpenObjectUnfinished, SendObject, buffer
<1>4. FramedByBraces' /\ WholeWhenShort'
  BY DEF FramingInv, FramedByBraces, WholeWhenShort, SendObject
<1>5. BufferCounted'
  BY DEF FramingInv, BufferCounted, SendObject, buffer
<1> QED
  BY <1>2, <1>3, <1>4, <1>5 DEF FramingInv

\* Junk changes only what is under way, too.
LEMMA SendJunkKeeps ==
  ASSUME FramingInv, NEW s \in Junk, SendJunk(s)
  PROVE  FramingInv'
<1>1. s \in Seq(Byte)
  BY FramingAssumption
<1>2. TypeOK'
  BY <1>1 DEF FramingInv, TypeOK, SendJunk, buffer
<1>3. OpenObjectUnfinished'
  BY DEF FramingInv, OpenObjectUnfinished, SendJunk, buffer
<1>4. FramedByBraces' /\ WholeWhenShort'
  BY DEF FramingInv, FramedByBraces, WholeWhenShort, SendJunk
<1>5. BufferCounted'
  BY DEF FramingInv, BufferCounted, SendJunk, buffer
<1> QED
  BY <1>2, <1>3, <1>4, <1>5 DEF FramingInv

\* A read moves bytes and scans none.
LEMMA ReadKeeps ==
  ASSUME FramingInv, Read
  PROVE  FramingInv'
<1>1. wire \in Seq(Byte)
  BY DEF FramingInv, TypeOK
<1>2. PICK k \in 1 .. Len(wire) :
        msg' = SubSeq(wire, 1, k) /\ wire' = SubSeq(wire, k + 1, Len(wire))
  BY DEF Read
<1>3. msg' \in Seq(Byte) /\ wire' \in Seq(Byte)
  BY <1>1, <1>2
<1>4. TypeOK'
  BY <1>3 DEF FramingInv, TypeOK, Read, buffer
<1>5. OpenObjectUnfinished'
  BY DEF FramingInv, OpenObjectUnfinished, Read, buffer
<1>6. FramedByBraces' /\ WholeWhenShort'
  BY DEF FramingInv, FramedByBraces, WholeWhenShort, Read
<1>7. BufferCounted'
  BY DEF FramingInv, BufferCounted, Read, buffer
<1> QED
  BY <1>4, <1>5, <1>6, <1>7 DEF FramingInv

\* A blank changes neither the buffer nor the counts.
LEMMA SkipKeeps ==
  ASSUME FramingInv, Skip
  PROVE  FramingInv'
<1>1. msg' \in Seq(Byte)
  BY DEF FramingInv, TypeOK, Skip
<1>2. TypeOK'
  BY <1>1 DEF FramingInv, TypeOK, Skip, buffer
<1>3. OpenObjectUnfinished'
  BY DEF FramingInv, OpenObjectUnfinished, Skip, buffer
<1>4. FramedByBraces' /\ WholeWhenShort'
  BY DEF FramingInv, FramedByBraces, WholeWhenShort, Skip
<1>5. BufferCounted'
  BY DEF FramingInv, BufferCounted, Skip, buffer
<1> QED
  BY <1>2, <1>3, <1>4, <1>5 DEF FramingInv

\* A byte is stored without ending an object: had the counts met with an opening
\* brace in front, the object would have been pushed.
LEMMA StoreKeeps ==
  ASSUME FramingInv, Store
  PROVE  FramingInv'
<1> DEFINE b == Head(msg)
<1>1. TypeOK
  BY DEF FramingInv
<1>2. b \in Byte \ {BLANK} /\ msg' \in Seq(Byte)
  BY <1>1 DEF Store, TypeOK
<1>3. /\ nData' = Stored(b) /\ ocnt' = Opened(b) /\ ccnt' = Closed(b)
      /\ ~Balanced(b) /\ Opened(b) >= Closed(b)
  BY DEF Store
<1> HIDE DEF b
<1>4. /\ Stored(b) \in Seq(Byte \ {BLANK}) /\ Len(Stored(b)) <= BufSize - 1 /\ Stored(b) # <<>>
      /\ Stored(b)[1] = IF nData = <<>> THEN b ELSE nData[1]
  BY <1>1, <1>2, StoredBuffer
<1>5. TypeOK'
  <2>1. nData' \in Seq(Byte \ {BLANK}) /\ Len(nData') <= BufSize - 1
    BY <1>3, <1>4
  <2>2. ocnt' \in Nat /\ ccnt' \in Nat
    BY <1>1, <1>2, <1>3, Counts
  <2> QED
    BY <1>1, <1>2, <2>1, <2>2 DEF TypeOK, Store
<1>6. OpenObjectUnfinished'
  <2>1. ocnt' >= ccnt' /\ nData' # <<>>
    BY <1>3, <1>4
  <2>2. ASSUME nData'[1] = OPEN PROVE ocnt' > ccnt'
    <3>1. ocnt \in Nat /\ ccnt \in Nat
      BY <1>1 DEF TypeOK
    <3>2. Opened(b) > 0
      <4>1. CASE nData = <<>>
        BY <1>1, <1>2, <1>3, <1>4, <2>2, <3>1, <4>1, Counts
      <4>2. CASE nData # <<>>
        <5>1. ocnt > ccnt
          BY <1>3, <1>4, <2>2, <4>2 DEF FramingInv, OpenObjectUnfinished
        <5> QED
          BY <1>1, <1>2, <3>1, <5>1, Counts
      <4> QED
        BY <4>1, <4>2
    <3>3. Opened(b) # Closed(b)
      BY <1>3, <3>2 DEF Balanced
    <3> QED
      BY <1>1, <1>2, <1>3, <3>3, Counts
  <2> QED
    BY <2>1, <2>2 DEF OpenObjectUnfinished
<1>7. FramedByBraces' /\ WholeWhenShort'
  BY DEF FramingInv, FramedByBraces, WholeWhenShort, Store
<1>8. BufferCounted'
  <2> SUFFICES ASSUME Len(Stored(b)) < BufSize - 1
               PROVE  /\ Opened(b) = Occurrences(Stored(b), OPEN, Len(Stored(b)))
                      /\ Closed(b) = Occurrences(Stored(b), CLOSE, Len(Stored(b)))
                      /\ Stored(b)[1] = OPEN => Unmatched(Stored(b), Len(Stored(b)))
    BY <1>3 DEF BufferCounted
  <2>1. BufferCounted
    BY DEF FramingInv
  <2>2. /\ Opened(b) = Occurrences(Stored(b), OPEN, Len(Stored(b)))
        /\ Closed(b) = Occurrences(Stored(b), CLOSE, Len(Stored(b)))
        /\ Stored(b) = Append(nData, b)
        /\ nData # <<>> /\ nData[1] = OPEN => Unmatched(Stored(b), Len(nData))
    BY <1>1, <1>2, <2>1, CountsOfStored
  <2>3. nData \in Seq(Byte \ {BLANK}) /\ Len(Stored(b)) = Len(nData) + 1 /\ Len(nData) \in Nat
    BY <1>1, <1>2, <2>2 DEF TypeOK
  <2>4. ASSUME Stored(b)[1] = OPEN PROVE Unmatched(Stored(b), Len(Stored(b)))
    <3>1. Opened(b) > Closed(b)
      BY <1>3, <1>4, <1>6, <2>4 DEF OpenObjectUnfinished
    <3>2. ASSUME NEW k \in 1 .. Len(nData)
          PROVE  Occurrences(Stored(b), OPEN, k) > Occurrences(Stored(b), CLOSE, k)
      BY <1>4, <2>2, <2>3, <2>4 DEF Unmatched
    <3> QED
      BY <2>2, <2>3, <3>1, <3>2 DEF Unmatched
  <2> QED
    BY <2>2, <2>4
<1> QED
  BY <1>5, <1>6, <1>7, <1>8 DEF FramingInv

\* The byte that makes the counts meet is a closing brace: before it the buffer
\* was an unfinished object.
LEMMA PushKeeps ==
  ASSUME FramingInv, Push
  PROVE  FramingInv'
<1> DEFINE b == Head(msg)
<1>1. TypeOK
  BY DEF FramingInv
<1>2. b \in Byte \ {BLANK}
  BY <1>1 DEF Push, TypeOK
<1>3. /\ pushed' = Append(pushed, Stored(b)) /\ Stored(b)[1] = OPEN /\ Balanced(b)
      /\ nData' = <<>> /\ ocnt' = 0 /\ ccnt' = 0 /\ msg' = <<>>
  BY DEF Push, Reset, Break
<1>4. /\ wire' = wire /\ sent' = sent /\ clean' \in BOOLEAN
  BY <1>1 DEF Push, Break, TypeOK
<1> HIDE DEF b
<1>5. /\ Stored(b) \in Seq(Byte \ {BLANK}) /\ Stored(b) # <<>>
      /\ Stored(b)[Len(Stored(b))] = b
      /\ Stored(b)[1] = IF nData = <<>> THEN b ELSE nData[1]
  BY <1>1, <1>2, StoredBuffer
<1>6. TypeOK'
  <2>1. pushed' \in Seq(Seq(Byte \ {BLANK}))
    BY <1>1, <1>3, <1>5 DEF TypeOK
  <2>2. <<>> \in Seq(Byte) /\ <<>> \in Seq(Byte \ {BLANK}) /\ Len(<<>>) <= BufSize - 1
    BY FramingAssumption
  <2> QED
    BY <1>1, <1>3, <1>4, <2>1, <2>2 DEF TypeOK
<1>7. OpenObjectUnfinished'
  BY <1>3 DEF OpenObjectUnfinished
<1>8. b = CLOSE
  <2>1. ocnt \in Nat /\ ccnt \in Nat /\ ocnt >= ccnt
    BY <1>1 DEF TypeOK, FramingInv, OpenObjectUnfinished
  <2>2. Opened(b) = Closed(b) /\ Opened(b) > 0
    BY <1>3 DEF Balanced
  <2>3. b # OPEN
    BY <1>1, <1>2, <2>1, <2>2, Counts
  <2>4. nData # <<>> /\ nData[1] = OPEN
    BY <1>3, <1>5, <2>3
  <2>5. ocnt > ccnt
    BY <2>4 DEF FramingInv, OpenObjectUnfinished
  <2> QED
    BY <1>1, <1>2, <2>1, <2>2, <2>3, <2>5, Counts
<1>9. Framed(Stored(b))
  BY <1>3, <1>5, <1>8 DEF Framed, Last
<1>10. FramedByBraces'
  <2>1. pushed \in Seq(Seq(Byte \ {BLANK}))
    BY <1>1 DEF TypeOK
  <2>2. ASSUME NEW k \in 1 .. Len(pushed') PROVE Framed(pushed'[k])
    <3>1. CASE k = Len(pushed) + 1
      BY <1>3, <1>5, <1>9, <2>1, <3>1
    <3>2. CASE k \in 1 .. Len(pushed)
      <4>1. pushed'[k] = pushed[k]
        BY <1>3, <1>5, <2>1, <3>2
      <4> QED
        BY <3>2, <4>1 DEF FramingInv, FramedByBraces
    <3> QED
      BY <1>3, <1>5, <2>1, <3>1, <3>2
  <2> QED
    BY <2>2 DEF FramedByBraces, Framed
<1>11. BufferCounted'
  BY <1>3, OneMore DEF BufferCounted
<1>12. ASSUME Len(Stored(b)) < BufSize - 1 PROVE IsObject(Stored(b))
  <2>1. BufferCounted
    BY DEF FramingInv
  <2>2. /\ Opened(b) = Occurrences(Stored(b), OPEN, Len(Stored(b)))
        /\ Closed(b) = Occurrences(Stored(b), CLOSE, Len(Stored(b)))
        /\ Stored(b) = Append(nData, b)
        /\ nData # <<>> /\ nData[1] = OPEN => Unmatched(Stored(b), Len(nData))
    BY <1>1, <1>2, <1>12, <2>1, CountsOfStored
  <2>3. nData \in Seq(Byte \ {BLANK}) /\ Len(Stored(b)) - 1 = Len(nData)
    BY <1>1, <1>2, <2>2 DEF TypeOK
  <2>4. OPEN # CLOSE
    BY DEF OPEN, CLOSE
  <2>5. Unmatched(Stored(b), Len(Stored(b)) - 1)
    BY <1>3, <1>5, <1>8, <2>2, <2>3, <2>4
  <2> QED
    BY <1>3, <2>2, <2>5 DEF IsObject, Unmatched, Balanced
<1>13. WholeWhenShort'
  <2>1. pushed \in Seq(Seq(Byte \ {BLANK}))
    BY <1>1 DEF TypeOK
  <2>2. ASSUME NEW k \in 1 .. Len(pushed'), Len(pushed'[k]) < BufSize - 1
        PROVE  IsObject(pushed'[k])
    <3>1. CASE k = Len(pushed) + 1
      <4>1. pushed'[k] = Stored(b)
        BY <1>3, <1>5, <2>1, <3>1
      <4> QED
        BY <1>12, <2>2, <4>1
    <3>2. CASE k \in 1 .. Len(pushed)
      <4>1. pushed'[k] = pushed[k]
        BY <1>3, <1>5, <2>1, <3>2
      <4> QED
        BY <2>2, <3>2, <4>1 DEF FramingInv, WholeWhenShort
    <3> QED
      BY <1>3, <1>5, <2>1, <3>1, <3>2
  <2> QED
    BY <2>2 DEF WholeWhenShort, IsObject, Occurrences
<1> QED
  BY <1>6, <1>7, <1>10, <1>11, <1>13 DEF FramingInv

\* The buffer that is not pushed stays, with its counts equal: it does not begin with an
\* opening brace.
LEMMA NotPushKeeps ==
  ASSUME FramingInv, NotPush
  PROVE  FramingInv'
<1> DEFINE b == Head(msg)
<1>1. TypeOK
  BY DEF FramingInv
<1>2. b \in Byte \ {BLANK}
  BY <1>1 DEF NotPush, TypeOK
<1>3. /\ nData' = Stored(b) /\ ocnt' = Opened(b) /\ ccnt' = Closed(b)
      /\ Balanced(b) /\ Stored(b)[1] # OPEN /\ msg' = <<>>
  BY DEF NotPush, Break
<1>4. wire' = wire /\ sent' = sent /\ pushed' = pushed /\ clean' \in BOOLEAN
  BY <1>1 DEF NotPush, Break, TypeOK
<1> HIDE DEF b
<1>5. /\ Stored(b) \in Seq(Byte \ {BLANK}) /\ Len(Stored(b)) <= BufSize - 1 /\ Stored(b) # <<>>
  BY <1>1, <1>2, StoredBuffer
<1>6. Opened(b) \in Nat /\ Closed(b) \in Nat
  BY <1>1, <1>2, Counts
<1>7. TypeOK'
  BY <1>1, <1>3, <1>4, <1>5, <1>6 DEF TypeOK
<1>8. OpenObjectUnfinished'
  BY <1>3, <1>5, <1>6 DEF OpenObjectUnfinished, Balanced
<1>9. FramedByBraces' /\ WholeWhenShort'
  BY <1>4 DEF FramingInv, FramedByBraces, WholeWhenShort
<1>10. BufferCounted'
  <2>1. BufferCounted
    BY DEF FramingInv
  <2>2. ASSUME Len(Stored(b)) < BufSize - 1
        PROVE  /\ Opened(b) = Occurrences(Stored(b), OPEN, Len(Stored(b)))
               /\ Closed(b) = Occurrences(Stored(b), CLOSE, Len(Stored(b)))
    BY <1>1, <1>2, <2>1, <2>2, CountsOfStored
  <2> QED
    BY <1>3, <2>2 DEF BufferCounted
<1> QED
  BY <1>7, <1>8, <1>9, <1>10 DEF FramingInv

\* One closing brace too many empties the buffer and its counts.
LEMMA PacketErrorKeeps ==
  ASSUME FramingInv, PacketError
  PROVE  FramingInv'
<1>1. /\ nData' = <<>> /\ ocnt' = 0 /\ ccnt' = 0 /\ msg' = <<>>
      /\ wire' = wire /\ sent' = sent /\ pushed' = pushed /\ clean' \in BOOLEAN
  BY DEF PacketError, Break, Reset, FramingInv, TypeOK
<1>2. TypeOK'
  BY <1>1, FramingAssumption DEF FramingInv, TypeOK
<1>3. OpenObjectUnfinished'
  BY <1>1 DEF OpenObjectUnfinished
<1>4. FramedByBraces' /\ WholeWhenShort'
  BY <1>1 DEF FramingInv, FramedByBraces, WholeWhenShort
<1>5. BufferCounted'
  BY <1>1, OneMore DEF BufferCounted
<1> QED
  BY <1>2, <1>3, <1>4, <1>5 DEF FramingInv

-----------------------------------------------------------------------------
(* The order of the objects.                                               *)

\* What one more byte adds to those that are no blanks.
LEMMA OneMoreByte ==
  ASSUME NEW s, NEW n \in Nat
  PROVE  /\ NonBlanks(s, n) \in Nat
         /\ NonBlanks(s, 0) = 0
         /\ s[n + 1] # BLANK => NonBlanks(s, n + 1) = NonBlanks(s, n) + 1
         /\ s[n + 1] = BLANK => NonBlanks(s, n + 1) = NonBlanks(s, n)
<1> DEFINE At(m) == {k \in 1 .. m : s[k] # BLANK}
<1>1. IsFiniteSet(1 .. n) /\ At(n) \in SUBSET (1 .. n)
  BY FS_Interval
<1>2. IsFiniteSet(At(n)) /\ Cardinality(At(n)) \in Nat
  BY <1>1, FS_Subset, FS_CardinalityType
<1>3. At(0) = {}
  OBVIOUS
<1>4. CASE s[n + 1] # BLANK
  <2>1. At(n + 1) = At(n) \union {n + 1} /\ n + 1 \notin At(n)
    BY <1>4
  <2>2. Cardinality(At(n + 1)) = Cardinality(At(n)) + 1
    BY <1>2, <2>1, FS_AddElement
  <2> QED
    BY <1>2, <1>3, <1>4, <2>2, FS_EmptySet DEF NonBlanks
<1>5. CASE s[n + 1] = BLANK
  <2>1. At(n + 1) = At(n)
    BY <1>5
  <2> QED
    BY <1>2, <1>3, <1>5, <2>1, FS_EmptySet DEF NonBlanks
<1> QED
  BY <1>4, <1>5

\* A longer prefix has no fewer of them, and more if it ends with one.
LEMMA NoFewer ==
  ASSUME NEW s, NEW m \in Nat, NEW n \in Nat, m <= n
  PROVE  /\ NonBlanks(s, m) <= NonBlanks(s, n)
         /\ m < n /\ s[n] # BLANK => NonBlanks(s, m) < NonBlanks(s, n)
<1> DEFINE At(k) == {i \in 1 .. k : s[i] # BLANK}
<1>1. ASSUME NEW k \in Nat, m <= k PROVE NonBlanks(s, m) <= NonBlanks(s, k)
  <2>1. IsFiniteSet(1 .. k) /\ At(k) \in SUBSET (1 .. k)
    BY FS_Interval
  <2>2. IsFiniteSet(At(k))
    BY <2>1, FS_Subset
  <2>3. At(m) \in SUBSET At(k)
    BY <1>1
  <2>4. Cardinality(At(m)) <= Cardinality(At(k))
    BY <2>2, <2>3, FS_Subset
  <2> QED
    BY <2>4 DEF NonBlanks
<1>2. ASSUME m < n, s[n] # BLANK PROVE NonBlanks(s, m) < NonBlanks(s, n)
  <2>1. n - 1 \in Nat /\ m <= n - 1 /\ (n - 1) + 1 = n
    BY <1>2
  <2>2. NonBlanks(s, m) <= NonBlanks(s, n - 1)
    BY <1>1, <2>1
  <2>3. NonBlanks(s, n) = NonBlanks(s, n - 1) + 1
    BY <1>2, <2>1, OneMoreByte
  <2>4. NonBlanks(s, m) \in Nat /\ NonBlanks(s, n - 1) \in Nat
    BY <2>1, OneMoreByte
  <2> QED
    BY <2>2, <2>3, <2>4
<1> QED
  BY <1>1, <1>2

\* Blanks alone count nothing.
LEMMA OnlyBlanks ==
  ASSUME NEW s, NEW n \in Nat, \A k \in 1 .. n : s[k] = BLANK
  PROVE  NonBlanks(s, n) = 0
<1>1. {k \in 1 .. n : s[k] # BLANK} = {}
  OBVIOUS
<1> QED
  BY <1>1, FS_EmptySet DEF NonBlanks

\* Without its blanks a sequence has its other bytes, in their order.
LEMMA StrippedBytes ==
  ASSUME NEW s, Len(s) \in Nat
  PROVE  /\ \E Bytes : Stripped(s) \in Seq(Bytes)
         /\ Len(Stripped(s)) = NonBlanks(s, Len(s))
         /\ \A n \in 1 .. Len(s) :
              s[n] # BLANK => /\ NonBlanks(s, n) \in 1 .. Len(Stripped(s))
                              /\ Stripped(s)[NonBlanks(s, n)] = s[n]
<1> DEFINE t == Stripped(s)
           Nth(i) == s[CHOOSE k \in 1 .. Len(s) : s[k] # BLANK /\ NonBlanks(s, k) = i]
<1>1. NonBlanks(s, Len(s)) \in Nat
  BY OneMoreByte
<1>2. PICK m \in Nat : m = NonBlanks(s, Len(s))
  BY <1>1
<1>3. t = [i \in 1 .. m |-> Nth(i)]
  BY <1>2 DEF Stripped
<1>4. t \in Seq({Nth(i) : i \in 1 .. m}) /\ Len(t) = m
  <2> HIDE DEF Nth, t
  <2> QED
    BY <1>2, <1>3
<1>5. ASSUME NEW n \in 1 .. Len(s), s[n] # BLANK
      PROVE  NonBlanks(s, n) \in 1 .. m /\ t[NonBlanks(s, n)] = s[n]
  <2>1. n \in Nat /\ n <= Len(s) /\ 0 \in Nat /\ 0 < n
    OBVIOUS
  <2>2. NonBlanks(s, n) \in 1 .. m
    <3>1. NonBlanks(s, n) <= m
      BY <1>2, <2>1, NoFewer
    <3>2. NonBlanks(s, 0) < NonBlanks(s, n)
      BY <1>5, <2>1, NoFewer
    <3>3. NonBlanks(s, n) \in Nat /\ NonBlanks(s, 0) = 0
      BY <2>1, OneMoreByte
    <3> QED
      BY <3>1, <3>2, <3>3
  <2>3. PICK i : i = NonBlanks(s, n)
    OBVIOUS
  <2> DEFINE c == CHOOSE k \in 1 .. Len(s) : s[k] # BLANK /\ NonBlanks(s, k) = i
  <2>4. c \in 1 .. Len(s) /\ s[c] # BLANK /\ NonBlanks(s, c) = i
    BY <1>5, <2>3
  <2>5. t[i] = s[c]
    BY <1>3, <2>2, <2>3
  <2> HIDE DEF c
  <2>6. c \in Nat
    BY <2>4
  <2>7. NonBlanks(s, c) \in Nat /\ NonBlanks(s, n) \in Nat
    BY <2>1, <2>6, OneMoreByte
  <2>8. ~(c < n)
    BY <1>5, <2>1, <2>3, <2>4, <2>6, <2>7, NoFewer
  <2>9. ~(n < c)
    BY <2>1, <2>3, <2>4, <2>6, <2>7, NoFewer
  <2>10. c = n
    BY <2>1, <2>6, <2>8, <2>9
  <2> QED
    BY <2>2, <2>3, <2>5, <2>10
<1> HIDE DEF t
<1> QED
  BY <1>2, <1>4, <1>5 DEF t

\* Storing the next byte of t in a buffer that holds its first i makes it hold i + 1.
LEMMA StoredNext ==
  ASSUME TypeOK, NEW Bytes, NEW t \in Seq(Bytes), NEW i \in Nat, i < Len(t), Holds(t, i),
         NEW b, b = t[i + 1]
  PROVE  /\ Stored(b) = Cut(SubSeq(t, 1, i + 1))
         /\ Opened(b) = Occurrences(t, OPEN, i + 1)
         /\ Closed(b) = Occurrences(t, CLOSE, i + 1)
<1>1. BufSize \in Nat /\ BufSize >= 3
  BY FramingAssumption
<1> DEFINE s == SubSeq(t, 1, i)
<1>2. s \in Seq(Bytes) /\ Len(s) = i /\ SubSeq(t, 1, i + 1) = Append(s, b)
      /\ \A k \in 1 .. i : s[k] = t[k]
  OBVIOUS
<1>3. Len(Append(s, b)) = i + 1 /\ Append(s, b)[i + 1] = b /\ b \in Bytes
  BY <1>2
<1>4. nData = Cut(s) /\ ocnt = Occurrences(t, OPEN, i) /\ ccnt = Occurrences(t, CLOSE, i)
  BY DEF Holds
<1>5. Opened(b) = Occurrences(t, OPEN, i + 1)
  <2>1. /\ b = OPEN => Occurrences(t, OPEN, i + 1) = Occurrences(t, OPEN, i) + 1
        /\ b # OPEN => Occurrences(t, OPEN, i + 1) = Occurrences(t, OPEN, i)
        /\ Occurrences(t, OPEN, i) \in Nat
    BY OneMore
  <2> QED
    BY <1>4, <2>1 DEF Opened
<1>6. Closed(b) = Occurrences(t, CLOSE, i + 1)
  <2>1. /\ b = CLOSE => Occurrences(t, CLOSE, i + 1) = Occurrences(t, CLOSE, i) + 1
        /\ b # CLOSE => Occurrences(t, CLOSE, i + 1) = Occurrences(t, CLOSE, i)
        /\ Occurrences(t, CLOSE, i) \in Nat
    BY OneMore
  <2> QED
    BY <1>4, <2>1 DEF Closed
<1> HIDE DEF s
<1>7. Stored(b) = Cut(Append(s, b))
  <2>1. CASE i < BufSize - 1
    <3>1. nData = s
      BY <1>1, <1>2, <1>4, <2>1 DEF Cut
    <3>2. Stored(b) = Append(s, b)
      BY <1>2, <2>1, <3>1 DEF Stored
    <3>3. i + 1 < BufSize
      BY <1>1, <2>1
    <3> QED
      BY <1>3, <3>2, <3>3 DEF Cut
  <2>2. CASE i >= BufSize - 1
    <3> DEFINE u == SubSeq(s, 1, BufSize - 2)
    <3>1. u \in Seq(Bytes) /\ Len(u) = BufSize - 2 /\ \A k \in 1 .. BufSize - 2 : u[k] = s[k]
      BY <1>1, <1>2, <2>2
    <3>2. nData = Append(u, s[i])
      <4>1. CASE i < BufSize
        <5>1. nData = s /\ i = BufSize - 1
          BY <1>1, <1>2, <1>4, <2>2, <4>1 DEF Cut
        <5> QED
          BY <1>1, <1>2, <3>1, <5>1
      <4>2. CASE i >= BufSize
        BY <1>1, <1>2, <1>4, <4>2 DEF Cut
      <4> QED
        BY <1>1, <4>1, <4>2
    <3>3. s[i] \in Bytes
      BY <1>1, <1>2, <2>2
    <3>4. SubSeq(Append(s, b), 1, BufSize - 2) = u
      BY <1>1, <1>2, <1>3, <2>2
    <3> HIDE DEF u
    <3>5. Len(nData) = BufSize - 1
      BY <1>1, <3>1, <3>2, <3>3
    <3>6. Stored(b) = [nData EXCEPT ![BufSize - 1] = b]
      BY <1>1, <3>5 DEF Stored
    <3>7. [nData EXCEPT ![BufSize - 1] = b] = Append(u, b)
      <4>1. PICK m \in Nat : m = BufSize - 2 /\ m + 1 = BufSize - 1
        BY <1>1
      <4>2. u \in Seq(Bytes) /\ Len(u) = m
        BY <3>1, <4>1
      <4>3. PICK x \in Bytes : x = s[i]
        BY <3>3
      <4>4. PICK v : v = Append(u, x)
        OBVIOUS
      <4>5. /\ v \in Seq(Bytes) /\ DOMAIN v = 1 .. m + 1
            /\ \A k \in 1 .. m : v[k] = u[k]
        BY <4>2, <4>4
      <4>6. PICK w : w = Append(u, b)
        OBVIOUS
      <4>7. /\ w \in Seq(Bytes) /\ DOMAIN w = 1 .. m + 1 /\ w[m + 1] = b
            /\ \A k \in 1 .. m : w[k] = u[k]
        BY <1>3, <4>2, <4>6
      <4>8. [v EXCEPT ![m + 1] = b] = w
        <5>1. w = [k \in 1 .. m + 1 |-> w[k]]
          BY <4>7
        <5>2. \A k \in 1 .. m + 1 : w[k] = IF k = m + 1 THEN b ELSE v[k]
          BY <4>5, <4>7
        <5> QED
          BY <4>5, <5>1, <5>2
      <4> QED
        BY <3>2, <4>1, <4>3, <4>4, <4>6, <4>8
    <3>8. Cut(Append(s, b)) = Append(u, b)
      BY <1>1, <1>3, <2>2, <3>4 DEF Cut
    <3> QED
      BY <3>6, <3>7, <3>8
  <2> QED
    BY <1>1, <2>1, <2>2
<1> QED
  BY <1>2, <1>5, <1>6, <1>7

\* The braces of an object meet at its last byte and not before.
LEMMA BracesOf ==
  ASSUME NEW Bytes, NEW t \in Seq(Bytes), t # <<>>, t[1] = OPEN, IsObject(t),
         NEW n \in 1 .. Len(t)
  PROVE  /\ n < Len(t) => Occurrences(t, OPEN, n) > Occurrences(t, CLOSE, n)
         /\ n = Len(t) => Occurrences(t, OPEN, n) = Occurrences(t, CLOSE, n)
         /\ Occurrences(t, OPEN, n) > 0
<1>1. Len(t) \in Nat /\ n \in Nat
  OBVIOUS
<1>2. n < Len(t) => n \in 1 .. Len(t) - 1
  BY <1>1
<1>3. \A k \in Nat : Occurrences(t, OPEN, k) \in Nat /\ Occurrences(t, CLOSE, k) \in Nat
  BY OneMore
<1>4. \A k \in 1 .. Len(t) - 1 : Occurrences(t, OPEN, k) > Occurrences(t, CLOSE, k)
  BY DEF IsObject
<1>5. Occurrences(t, OPEN, Len(t)) = Occurrences(t, CLOSE, Len(t))
  BY DEF IsObject
<1>6. Occurrences(t, OPEN, n) > 0
  <2>1. CASE n < Len(t)
    BY <1>1, <1>2, <1>3, <1>4, <2>1
  <2>2. CASE n = 1
    <3>1. Occurrences(t, OPEN, 0 + 1) = Occurrences(t, OPEN, 0) + 1 /\ Occurrences(t, OPEN, 0) = 0
      BY OneMore
    <3> QED
      BY <2>2, <3>1
  <2>3. CASE n = Len(t) /\ n # 1
    <3>1. n - 1 \in 1 .. Len(t) - 1 /\ n - 1 \in Nat /\ (n - 1) + 1 = n
      BY <1>1, <2>3
    <3>2. /\ t[n] = OPEN => Occurrences(t, OPEN, n) = Occurrences(t, OPEN, n - 1) + 1
          /\ t[n] # OPEN => Occurrences(t, OPEN, n) = Occurrences(t, OPEN, n - 1)
      <4>1. PICK m \in Nat : m = n - 1 /\ m + 1 = n
        BY <3>1
      <4> QED
        BY <4>1, OneMore
    <3>3. Occurrences(t, OPEN, n - 1) > Occurrences(t, CLOSE, n - 1)
      BY <1>4, <3>1
    <3>4. Occurrences(t, OPEN, n - 1) \in Nat /\ Occurrences(t, CLOSE, n - 1) \in Nat
      BY <1>3, <3>1
    <3> QED
      BY <3>2, <3>3, <3>4
  <2> QED
    BY <1>1, <2>1, <2>2, <2>3
<1> QED
  BY <1>1, <1>2, <1>4, <1>5, <1>6

-----------------------------------------------------------------------------
(* Where the objects lie in the bytes not scanned.                         *)

\* The objects that follow when d bytes of z have been scanned, up to the q-th of them
\* if only blanks and closing braces of the others are left.
LEMMA LiesBehind ==
  ASSUME NEW os, Len(os) \in Nat, \A k \in 1 .. Len(os) : Len(os[k]) \in Nat,
         NEW p \in Nat, NEW q \in Nat, p <= q,
         NEW st \in [1 .. Len(os) -> Int], NEW z \in Seq(Byte), Lies(os, p, st, z),
         NEW d \in 0 .. Len(z),
         \A j \in d + 1 .. Len(z), k \in p + 1 .. q :
           st[k] < j /\ j <= st[k] + Len(os[k]) => z[j] \in {BLANK, CLOSE},
         NEW later, \A k \in 1 .. Len(os) : later[k] = st[k] - d,
         NEW rest, rest = SubSeq(z, d + 1, Len(z))
  PROVE  Lies(os, q, later, rest)
<1> DEFINE n == Len(os)
<1>1. Len(z) \in Nat /\ d \in Nat /\ d <= Len(z)
  OBVIOUS
<1>2. Len(rest) = Len(z) - d /\ \A j \in 1 .. Len(z) - d : rest[j] = z[d + j]
  BY <1>1
<1>3. \A k \in 1 .. n : later[k] = st[k] - d /\ st[k] \in Int
  OBVIOUS
<1>4. ASSUME NEW k \in q + 1 .. n
      PROVE  /\ later[k] + Len(os[k]) <= Len(rest)
             /\ \A i \in 1 .. Len(os[k]) : later[k] + i >= 1 => rest[later[k] + i] = os[k][i]
  <2>1. k \in p + 1 .. n /\ k \in 1 .. n
    OBVIOUS
  <2>2. /\ st[k] + Len(os[k]) <= Len(z)
        /\ \A i \in 1 .. Len(os[k]) : st[k] + i >= 1 => z[st[k] + i] = os[k][i]
    BY <2>1 DEF Lies
  <2>3. PICK a \in Int, m \in Nat : a = st[k] /\ m = Len(os[k]) /\ later[k] = a - d
    BY <1>3, <2>1
  <2>4. a + m <= Len(z) /\ \A i \in 1 .. m : a + i >= 1 => z[a + i] = os[k][i]
    BY <2>2, <2>3
  <2>5. ASSUME NEW i \in 1 .. m, (a - d) + i >= 1
        PROVE  rest[(a - d) + i] = os[k][i]
    <3>1. (a - d) + i \in 1 .. Len(z) - d /\ d + ((a - d) + i) = a + i /\ a + i >= 1
      BY <1>1, <2>4, <2>5
    <3>2. rest[(a - d) + i] = z[a + i]
      BY <1>2, <3>1
    <3> QED
      BY <2>4, <3>1, <3>2
  <2>6. a - d + m <= Len(rest)
    BY <1>1, <1>2, <2>4
  <2> QED
    BY <2>3, <2>5, <2>6
<1>5. ASSUME NEW k \in q + 1 .. n, NEW l \in q + 1 .. n, k < l
      PROVE  later[k] + Len(os[k]) <= later[l]
  <2>1. st[k] + Len(os[k]) <= st[l]
    BY <1>5 DEF Lies
  <2> QED
    BY <1>1, <1>3, <2>1
<1>6. ASSUME NEW j \in 1 .. Len(rest), rest[j] \notin {BLANK, CLOSE}
      PROVE  \E k \in q + 1 .. n : later[k] < j /\ j <= later[k] + Len(os[k])
  <2>1. d + j \in 1 .. Len(z) /\ d + j \in d + 1 .. Len(z) /\ rest[j] = z[d + j]
    BY <1>1, <1>2
  <2>2. PICK k \in p + 1 .. n : st[k] < d + j /\ d + j <= st[k] + Len(os[k])
    BY <1>6, <2>1 DEF Lies
  <2>3. k \notin p + 1 .. q
    BY <1>6, <2>1, <2>2
  <2>4. k \in q + 1 .. n /\ k \in 1 .. n
    BY <2>3
  <2>5. later[k] = st[k] - d /\ st[k] \in Int /\ Len(os[k]) \in Nat /\ j \in Int
    BY <1>3, <2>4
  <2>6. later[k] < j /\ j <= later[k] + Len(os[k])
    BY <1>1, <2>2, <2>5
  <2> QED
    BY <2>4, <2>6
<1> QED
  BY <1>4, <1>5, <1>6 DEF Lies

\* The next byte belongs to the next object, or it lies before all of them and opens
\* none; the objects behind the next one have not begun.
LEMMA NextByte ==
  ASSUME NEW os, NEW p, NEW st, NEW z,
         Placed(os, p, st, z), Lies(os, p, st, z), Awaited(os, p, st), z # <<>>
  PROVE  /\ p < Len(os) /\ st[p + 1] <= 0 =>
              1 - st[p + 1] \in 1 .. Len(os[p + 1]) /\ z[1] = os[p + 1][1 - st[p + 1]]
         /\ ~(p < Len(os) /\ st[p + 1] <= 0) =>
              z[1] \in {BLANK, CLOSE} /\ \A k \in p + 1 .. Len(os) : st[k] >= 1
         /\ \A k \in p + 2 .. Len(os) : st[k] >= 1
<1> DEFINE n == Len(os)
<1>1. /\ n \in Nat /\ p \in 0 .. n /\ z \in Seq(Byte)
      /\ \A k \in 1 .. n : st[k] \in Int /\ Len(os[k]) \in Nat
  BY DEF Placed
<1>2. ASSUME p < n PROVE p + 1 \in p + 1 .. n /\ p + 1 \in 1 .. n
  BY <1>1, <1>2
<1>3. \A k \in p + 1 .. n : k \in 1 .. n /\ st[k] + Len(os[k]) >= 1
  BY <1>1 DEF Awaited
<1>4. ASSUME NEW k \in p + 2 .. n PROVE st[k] >= 1
  <2>1. p + 1 \in p + 1 .. n /\ k \in p + 1 .. n /\ p + 1 < k
    BY <1>1
  <2>2. st[p + 1] + Len(os[p + 1]) <= st[k]
    BY <2>1 DEF Lies
  <2> QED
    BY <1>1, <1>3, <2>1, <2>2
<1>5. ASSUME p < n, st[p + 1] <= 0
      PROVE  1 - st[p + 1] \in 1 .. Len(os[p + 1]) /\ z[1] = os[p + 1][1 - st[p + 1]]
  <2>1. 1 - st[p + 1] \in 1 .. Len(os[p + 1]) /\ st[p + 1] + (1 - st[p + 1]) = 1
    BY <1>1, <1>2, <1>3, <1>5
  <2>2. \A i \in 1 .. Len(os[p + 1]) : st[p + 1] + i >= 1 => z[st[p + 1] + i] = os[p + 1][i]
    BY <1>2, <1>5 DEF Lies
  <2>3. PICK i : i = 1 - st[p + 1]
    OBVIOUS
  <2>4. i \in 1 .. Len(os[p + 1]) /\ st[p + 1] + i = 1 /\ st[p + 1] + i >= 1
    BY <2>1, <2>3
  <2>5. z[st[p + 1] + i] = os[p + 1][i]
    BY <2>2, <2>4, Zenon
  <2> QED
    BY <2>3, <2>4, <2>5
<1>6. ASSUME ~(p < n /\ st[p + 1] <= 0)
      PROVE  z[1] \in {BLANK, CLOSE} /\ \A k \in p + 1 .. n : st[k] >= 1
  <2>1. ASSUME NEW k \in p + 1 .. n PROVE st[k] >= 1
    BY <1>1, <1>2, <1>4, <1>6
  <2>2. 1 \in 1 .. Len(z)
    BY <1>1
  <2>3. ~ \E k \in p + 1 .. n : st[k] < 1 /\ 1 <= st[k] + Len(os[k])
    BY <1>1, <2>1
  <2> QED
    BY <2>1, <2>2, <2>3 DEF Lies
<1> QED
  BY <1>4, <1>5, <1>6

\* Of an object that begins among blanks that are dropped nothing is lost: it is not
\* over, and no byte but blanks of it is gone.
LEMMA BlanksDropped ==
  ASSUME NEW os, NEW p \in Nat, NEW k \in p + 1 .. Len(os), Len(os) \in Nat, Len(os[k]) \in Nat,
         NEW st, \A i \in 1 .. Len(os) : st[i] \in Int, NEW z, Lies(os, p, st, z),
         NEW d \in Nat, \A j \in 2 .. d : z[j] = BLANK,
         st[k] >= 1, Stripped(os[k]) # <<>>,
         NEW later, later[k] = st[k] - d
  PROVE  /\ later[k] + Len(os[k]) >= 1
         /\ Got(os, later, k) = 0 /\ Got(os, later, k) < Len(Stripped(os[k]))
<1> DEFINE o == os[k]
<1>1. st[k] \in Int /\ Len(o) \in Nat /\ later[k] \in Int
  <2>1. k \in 1 .. Len(os)
    OBVIOUS
  <2>2. st[k] \in Int
    BY <2>1, Zenon
  <2> QED
    BY <2>2
<1>2. PICK Bytes : Stripped(o) \in Seq(Bytes)
  BY <1>1, StrippedBytes
<1>3. Len(Stripped(o)) > 0 /\ Len(Stripped(o)) = NonBlanks(o, Len(o))
  <2>1. Len(Stripped(o)) = NonBlanks(o, Len(o))
    BY <1>1, StrippedBytes
  <2>2. Stripped(o) # <<>>
    OBVIOUS
  <2>3. PICK t \in Seq(Bytes) : t = Stripped(o)
    BY <1>2
  <2>4. t # <<>> => Len(t) > 0
    OBVIOUS
  <2> QED
    BY <2>1, <2>2, <2>3, <2>4
<1>4. \A i \in 1 .. Len(o) : st[k] + i >= 1 => z[st[k] + i] = o[i]
  BY DEF Lies
<1>5. ASSUME NEW i \in 1 .. Len(o), st[k] + i <= d PROVE o[i] = BLANK
  <2>1. st[k] + i \in 2 .. d /\ st[k] + i >= 1
    BY <1>1, <1>5
  <2>2. z[st[k] + i] = o[i]
    BY <1>4, <2>1
  <2> QED
    BY <2>1, <2>2
<1>6. later[k] + Len(o) >= 1
  <2> SUFFICES ASSUME later[k] + Len(o) < 1 PROVE FALSE
    BY <1>1
  <2>1. \A i \in 1 .. Len(o) : o[i] = BLANK
    BY <1>1, <1>5
  <2>2. NonBlanks(o, Len(o)) = 0
    BY <1>1, <2>1, OnlyBlanks
  <2> QED
    BY <1>3, <2>2
<1>7. Got(os, later, k) = 0
  <2>1. CASE later[k] < 0
    <3>1. PICK c \in Nat : c = -later[k] /\ Scanned(later, k) = c
      BY <1>1, <2>1 DEF Scanned
    <3>2. ASSUME NEW i \in 1 .. c PROVE o[i] = BLANK
      <4>1. i \in 1 .. Len(o)
        BY <1>1, <1>6, <3>1
      <4>2. st[k] + i <= d
        BY <1>1, <3>1
      <4> QED
        BY <1>5, <4>1, <4>2
    <3> QED
      BY <3>1, <3>2, OnlyBlanks DEF Got
  <2>2. CASE later[k] >= 0
    <3>1. Scanned(later, k) = 0
      BY <1>1, <2>2 DEF Scanned
    <3> QED
      BY <3>1, OneMoreByte DEF Got
  <2> QED
    BY <1>1, <2>1, <2>2
<1> QED
  BY <1>3, <1>6, <1>7

\* The objects that begin among or behind blanks that are dropped have nothing scanned and
\* are awaited.
LEMMA BlanksDroppedOf ==
  ASSUME NEW os, NEW p, NEW q, NEW st, NEW z, NEW d, NEW later,
         Lies(os, p, st, z), Dropped(os, q, st, z, d), Shifted(os, st, later, d),
         p \in Nat, q \in Nat, p <= q, Len(os) \in Nat,
         \A k \in 1 .. Len(os) : Len(os[k]) \in Nat /\ Stripped(os[k]) # <<>>
  PROVE  Awaited(os, q, later) /\ \A k \in q + 1 .. Len(os) : Got(os, later, k) = 0
<1>1. ASSUME NEW k \in q + 1 .. Len(os)
      PROVE  /\ later[k] + Len(os[k]) >= 1
             /\ Got(os, later, k) = 0 /\ Got(os, later, k) < Len(Stripped(os[k]))
  <2>1. k \in p + 1 .. Len(os) /\ k \in 1 .. Len(os)
    OBVIOUS
  <2>2. /\ Len(os[k]) \in Nat /\ Stripped(os[k]) # <<>> /\ st[k] >= 1
        /\ later[k] = st[k] - d /\ d \in Nat
        /\ \A i \in 1 .. Len(os) : st[i] \in Int
        /\ \A j \in 2 .. d : z[j] = BLANK
    BY <2>1, Zenon DEF Dropped, Shifted
  <2> QED
    BY <2>1, <2>2, BlanksDropped, Zenon
<1> QED
  BY <1>1 DEF Awaited

\* An object that has not begun has nothing scanned.
LEMMA NotBegun ==
  ASSUME NEW os, NEW st, NEW k, st[k] \in Int, st[k] >= 0
  PROVE  Got(os, st, k) = 0
<1>1. Scanned(st, k) = 0
  BY DEF Scanned
<1> QED
  BY <1>1, OneMoreByte DEF Got

\* An empty buffer, with nothing counted, holds nothing of anything.
LEMMA HoldsNothing ==
  ASSUME NEW Bytes, NEW t \in Seq(Bytes)
  PROVE  Holds(t, 0) <=> nData = <<>> /\ ocnt = 0 /\ ccnt = 0
<1>1. SubSeq(t, 1, 0) = <<>>
  OBVIOUS
<1>2. Cut(<<>>) = <<>>
  BY FramingAssumption DEF Cut
<1>3. Occurrences(t, OPEN, 0) = 0 /\ Occurrences(t, CLOSE, 0) = 0
  BY OneMore
<1> QED
  BY <1>1, <1>2, <1>3 DEF Holds

-----------------------------------------------------------------------------
(* Each step keeps the objects in their order.                             *)

\* What the steps need to know of the objects sent.
LEMMA ObjectsSent ==
  ASSUME TypeOK, ObjectsOnly
  PROVE  /\ Len(sent) \in Nat
         /\ \A k \in 1 .. Len(sent) :
              /\ sent[k] \in Seq(Byte) /\ Len(sent[k]) \in Nat
              /\ Stripped(sent[k]) # <<>> /\ Stripped(sent[k])[1] = OPEN
              /\ IsObject(Stripped(sent[k]))
<1>1. sent \in Seq(Object) /\ Object \subseteq Seq(Byte)
  BY FramingAssumption DEF TypeOK
<1>2. ASSUME NEW k \in 1 .. Len(sent) PROVE sent[k] \in Object
  BY <1>1
<1>3. ASSUME NEW o \in Object
      PROVE  Stripped(o) # <<>> /\ Stripped(o)[1] = OPEN /\ IsObject(Stripped(o))
  BY DEF ObjectsOnly
<1> QED
  BY <1>1, <1>2, <1>3

\* What InStream says of the objects, their places and the bytes, each with its own name.
LEMMA StreamPlaced ==
  ASSUME TypeOK, ObjectsOnly, NEW st \in [1 .. Len(sent) -> Int], InStream(st),
         Len(pushed) <= Len(sent)
  PROVE  \E os, p, z :
           /\ os = sent /\ p = Len(pushed) /\ z = msg \o wire
           /\ Placed(os, p, st, z) /\ Lies(os, p, st, z) /\ Awaited(os, p, st) /\ Tracked(os, p, st)
<1>1. Placed(sent, Len(pushed), st, msg \o wire)
  <2>1. Len(sent) \in Nat /\ Len(pushed) \in 0 .. Len(sent) /\ msg \o wire \in Seq(Byte)
    BY DEF TypeOK
  <2>2. \A k \in 1 .. Len(sent) : Len(sent[k]) \in Nat /\ Stripped(sent[k]) # <<>>
    BY ObjectsSent
  <2>3. \A k \in 1 .. Len(sent) : st[k] \in Int
    OBVIOUS
  <2> QED
    BY <2>1, <2>2, <2>3, Zenon DEF Placed
<1> QED
  BY <1>1, Zenon DEF InStream

\* A byte of the stream that is no blank is the next one of an object begun, which is
\* stored behind those before it, or a closing brace that no object has.
LEMMA NextStored ==
  ASSUME TypeOK, ObjectsOnly, NEW st \in [1 .. Len(sent) -> Int], InStream(st),
         Len(pushed) <= Len(sent), msg # <<>>, Head(msg) # BLANK
  PROVE  LET p == Len(pushed)
             b == Head(msg)
             t == Stripped(sent[p + 1])
             i == Got(sent, st, p + 1)
         IN  \/ /\ p < Len(sent) /\ st[p + 1] <= 0
                /\ i \in 0 .. Len(t) - 1
                /\ NonBlanks(sent[p + 1], 1 - st[p + 1]) = i + 1
                /\ Stored(b) = Cut(SubSeq(t, 1, i + 1))
                /\ Opened(b) = Occurrences(t, OPEN, i + 1)
                /\ Closed(b) = Occurrences(t, CLOSE, i + 1)
                /\ Balanced(b) <=> i + 1 = Len(t)
                /\ Opened(b) >= Closed(b)
             \/ /\ b = CLOSE /\ nData = <<>> /\ Opened(b) = 0 /\ Closed(b) = 1
                /\ \A k \in p + 1 .. Len(sent) : st[k] >= 1
<1> DEFINE p == Len(pushed)
           b == Head(msg)
           o == sent[p + 1]
           t == Stripped(o)
           i == Got(sent, st, p + 1)
           z == msg \o wire
<1>1. /\ Lies(sent, p, st, z) /\ Awaited(sent, p, st) /\ Tracked(sent, p, st)
      /\ p \in Nat /\ p <= Len(sent)
  BY DEF InStream, TypeOK
<1>2. z \in Seq(Byte) /\ z # <<>> /\ z[1] = b /\ b \in Byte \ {BLANK}
  BY DEF TypeOK
<1>3. Len(sent) \in Nat /\ \A k \in 1 .. Len(sent) : Len(sent[k]) \in Nat
  BY ObjectsSent
<1>4. Placed(sent, p, st, z)
  BY StreamPlaced
<1> HIDE DEF p, b, z
<1>5. CASE p < Len(sent) /\ st[p + 1] <= 0
  <2>1. p + 1 \in p + 1 .. Len(sent) /\ p + 1 \in 1 .. Len(sent)
    BY <1>1, <1>3, <1>5
  <2>2. /\ Len(o) \in Nat /\ t # <<>> /\ t[1] = OPEN /\ IsObject(t) /\ st[p + 1] \in Int
    BY <2>1, ObjectsSent
  <2>3. 1 - st[p + 1] \in 1 .. Len(o) /\ b = o[1 - st[p + 1]]
    BY <1>1, <1>2, <1>4, <1>5, NextByte
  <2>4. PICK c \in Nat : c = -st[p + 1] /\ c + 1 = 1 - st[p + 1]
    BY <1>5, <2>2
  <2>5. Scanned(st, p + 1) = c
    BY <1>5, <2>2, <2>4 DEF Scanned
  <2>6. i = NonBlanks(o, c)
    BY <2>5 DEF Got
  <2>7. c + 1 \in 1 .. Len(o) /\ o[c + 1] = b
    BY <2>3, <2>4
  <2>8. NonBlanks(o, c) \in Nat /\ NonBlanks(o, c + 1) = NonBlanks(o, c) + 1
    BY <1>2, <2>4, <2>7, OneMoreByte
  <2>9. PICK Bytes : t \in Seq(Bytes)
    BY <2>2, StrippedBytes
  <2>10. NonBlanks(o, c + 1) \in 1 .. Len(t) /\ t[NonBlanks(o, c + 1)] = b
    BY <1>2, <2>2, <2>7, StrippedBytes
  <2>11. Holds(t, i)
    BY <1>1, <1>5 DEF Tracked
  <2>12. PICK m \in Nat : m = i
    BY <2>6, <2>8
  <2> HIDE DEF o, t, i
  <2>13. Len(t) \in Nat /\ m < Len(t) /\ m + 1 \in 1 .. Len(t) /\ t[m + 1] = b
    BY <2>6, <2>8, <2>9, <2>10, <2>12
  <2>14. /\ Stored(b) = Cut(SubSeq(t, 1, m + 1))
         /\ Opened(b) = Occurrences(t, OPEN, m + 1)
         /\ Closed(b) = Occurrences(t, CLOSE, m + 1)
    BY <2>9, <2>11, <2>12, <2>13, StoredNext
  <2>15. /\ m + 1 < Len(t) => Opened(b) > Closed(b)
         /\ m + 1 = Len(t) => Opened(b) = Closed(b)
         /\ Opened(b) > 0
    BY <2>2, <2>9, <2>13, <2>14, BracesOf
  <2>16. Opened(b) \in Nat /\ Closed(b) \in Nat
    BY <1>2, Counts
  <2>17. (Balanced(b) <=> m + 1 = Len(t)) /\ Opened(b) >= Closed(b)
    BY <2>13, <2>15, <2>16 DEF Balanced
  <2>18. m \in 0 .. Len(t) - 1
    BY <2>13
  <2>19. NonBlanks(o, 1 - st[p + 1]) = m + 1
    BY <2>4, <2>6, <2>8, <2>12
  <2> QED
    BY <1>5, <2>12, <2>14, <2>17, <2>18, <2>19 DEF o, t, i, p, b
<1>6. CASE ~(p < Len(sent) /\ st[p + 1] <= 0)
  <2>1. b = CLOSE /\ \A k \in p + 1 .. Len(sent) : st[k] >= 1
    BY <1>1, <1>2, <1>4, <1>6, NextByte
  <2>2. nData = <<>> /\ ocnt = 0 /\ ccnt = 0
    <3>1. CASE p < Len(sent)
      <4>1. p + 1 \in 1 .. Len(sent) /\ p + 1 \in p + 1 .. Len(sent)
        BY <1>1, <1>3, <3>1
      <4>2. st[p + 1] \in Int /\ st[p + 1] >= 0 /\ Len(o) \in Nat
        BY <1>3, <2>1, <4>1
      <4>3. i = 0 /\ Holds(t, i)
        BY <1>1, <3>1, <4>2, NotBegun DEF Tracked
      <4>4. PICK Bytes : t \in Seq(Bytes)
        BY <4>2, StrippedBytes
      <4> HIDE DEF t, i
      <4> QED
        BY <4>3, <4>4, HoldsNothing
    <3>2. CASE ~(p < Len(sent))
      <4>1. Holds(<<>>, 0) /\ <<>> \in Seq(Byte)
        BY <1>1, <3>2 DEF Tracked
      <4> QED
        BY <4>1, HoldsNothing
    <3> QED
      BY <3>1, <3>2
  <2>3. OPEN # CLOSE
    BY DEF OPEN, CLOSE
  <2>4. Opened(b) = 0 /\ Closed(b) = 1
    BY <1>2, <2>1, <2>2, <2>3, Counts
  <2> QED
    BY <2>1, <2>2, <2>4 DEF p, b
<1> QED
  BY <1>5, <1>6

\* One more object at the end of what has not been scanned.
LEMMA LiesAndObject ==
  ASSUME NEW os \in Seq(Seq(Byte)), NEW p \in 0 .. Len(os), NEW st \in [1 .. Len(os) -> Int],
         NEW z \in Seq(Byte), Lies(os, p, st, z), NEW o \in Seq(Byte),
         NEW more \in [1 .. Len(os) + 1 -> Int],
         \A k \in 1 .. Len(os) : more[k] = st[k], more[Len(os) + 1] = Len(z)
  PROVE  Lies(Append(os, o), p, more, z \o o)
<1>1. /\ Len(os) \in Nat /\ Len(z) \in Nat /\ Len(o) \in Nat
      /\ \A k \in 1 .. Len(os) : Len(os[k]) \in Nat
  OBVIOUS
<1>2. PICK n \in Nat : n = Len(os)
  BY <1>1
<1>3. PICK ob : ob = Append(os, o)
  OBVIOUS
<1>4. Len(ob) = n + 1 /\ ob[n + 1] = o /\ \A k \in 1 .. n : ob[k] = os[k]
  BY <1>2, <1>3
<1>5. PICK y : y = z \o o
  OBVIOUS
<1>6. /\ Len(y) = Len(z) + Len(o)
      /\ \A j \in 1 .. Len(z) : y[j] = z[j]
      /\ \A i \in 1 .. Len(o) : y[Len(z) + i] = o[i]
  BY <1>5
<1>7. ASSUME NEW k \in p + 1 .. n + 1
      PROVE  /\ more[k] + Len(ob[k]) <= Len(y)
             /\ \A i \in 1 .. Len(ob[k]) : more[k] + i >= 1 => y[more[k] + i] = ob[k][i]
  <2>1. CASE k = n + 1
    <3>1. more[k] = Len(z) /\ ob[k] = o
      BY <1>2, <1>4, <2>1
    <3> QED
      BY <1>1, <1>6, <3>1
  <2>2. CASE k # n + 1
    <3>1. k \in p + 1 .. n /\ k \in 1 .. n
      BY <2>2
    <3>2. /\ st[k] + Len(os[k]) <= Len(z)
          /\ \A i \in 1 .. Len(os[k]) : st[k] + i >= 1 => z[st[k] + i] = os[k][i]
      BY <1>2, <3>1 DEF Lies
    <3>3. more[k] = st[k] /\ ob[k] = os[k] /\ st[k] \in Int /\ Len(os[k]) \in Nat
      BY <1>1, <1>2, <1>4, <3>1
    <3>4. ASSUME NEW i \in 1 .. Len(os[k]), st[k] + i >= 1 PROVE y[st[k] + i] = os[k][i]
      <4>1. PICK a \in Int : a = st[k]
        BY <3>3
      <4>2. PICK m \in Nat : m = Len(os[k])
        BY <3>3
      <4>3. a + i \in 1 .. Len(z)
        <5>1. a + m <= Len(z) /\ i \in 1 .. m /\ a + i >= 1
          BY <3>2, <3>4, <4>1, <4>2
        <5> QED
          BY <1>1, <5>1
      <4>4. z[a + i] = os[k][i]
        BY <3>2, <3>4, <4>1
      <4> QED
        BY <1>6, <4>1, <4>3, <4>4
    <3> QED
      BY <1>1, <1>6, <3>2, <3>3, <3>4
  <2> QED
    BY <2>1, <2>2
<1>8. ASSUME NEW k \in p + 1 .. n + 1, NEW l \in p + 1 .. n + 1, k < l
      PROVE  more[k] + Len(ob[k]) <= more[l]
  <2>1. k \in p + 1 .. n /\ k \in 1 .. n
    BY <1>8
  <2>2. more[k] = st[k] /\ ob[k] = os[k] /\ st[k] + Len(os[k]) <= Len(z)
    BY <1>2, <1>4, <2>1 DEF Lies
  <2>3. CASE l = n + 1
    BY <1>2, <2>2, <2>3
  <2>4. CASE l # n + 1
    <3>1. l \in p + 1 .. n /\ l \in 1 .. n
      BY <2>4
    <3>2. st[k] + Len(os[k]) <= st[l]
      BY <1>2, <1>8, <2>1, <3>1 DEF Lies
    <3> QED
      BY <1>2, <2>2, <3>1, <3>2
  <2> QED
    BY <2>3, <2>4
<1>9. ASSUME NEW j \in 1 .. Len(y), y[j] \notin {BLANK, CLOSE}
      PROVE  \E k \in p + 1 .. n + 1 : more[k] < j /\ j <= more[k] + Len(ob[k])
  <2>1. CASE j <= Len(z)
    <3>1. j \in 1 .. Len(z) /\ z[j] \notin {BLANK, CLOSE}
      BY <1>1, <1>6, <1>9, <2>1
    <3>2. PICK k \in p + 1 .. n : st[k] < j /\ j <= st[k] + Len(os[k])
      BY <1>2, <3>1 DEF Lies
    <3>3. k \in p + 1 .. n + 1 /\ k \in 1 .. n
      OBVIOUS
    <3>4. more[k] = st[k] /\ ob[k] = os[k]
      BY <1>2, <1>4, <3>3
    <3> QED
      BY <3>2, <3>3, <3>4
  <2>2. CASE j > Len(z)
    <3>1. more[n + 1] < j /\ j <= more[n + 1] + Len(ob[n + 1])
      BY <1>1, <1>2, <1>4, <1>6, <2>2
    <3>2. n + 1 \in p + 1 .. n + 1
      BY <1>2
    <3> QED
      BY <3>1, <3>2
  <2> QED
    BY <1>1, <2>1, <2>2
<1> QED
  BY <1>3, <1>4, <1>5, <1>7, <1>8, <1>9 DEF Lies

\* More bytes at the end that open nothing.
LEMMA LiesAndJunk ==
  ASSUME NEW os, Len(os) \in Nat, \A k \in 1 .. Len(os) : Len(os[k]) \in Nat,
         NEW p \in Nat, NEW st \in [1 .. Len(os) -> Int],
         NEW z \in Seq(Byte), Lies(os, p, st, z), NEW s \in Seq(Byte),
         \A j \in 1 .. Len(s) : s[j] \in {BLANK, CLOSE}
  PROVE  Lies(os, p, st, z \o s)
<1>1. /\ Len(z) \in Nat /\ Len(s) \in Nat
      /\ \A k \in 1 .. Len(os) : st[k] \in Int /\ Len(os[k]) \in Nat
  <2>1. Len(z) \in Nat /\ Len(s) \in Nat
    OBVIOUS
  <2>2. ASSUME NEW k \in 1 .. Len(os) PROVE st[k] \in Int /\ Len(os[k]) \in Nat
    OBVIOUS
  <2> QED
    BY <2>1, <2>2
<1>2. PICK y : y = z \o s
  OBVIOUS
<1>3. /\ Len(y) = Len(z) + Len(s)
      /\ \A j \in 1 .. Len(z) : y[j] = z[j]
      /\ \A j \in 1 .. Len(y) : j > Len(z) => j - Len(z) \in 1 .. Len(s) /\ y[j] = s[j - Len(z)]
  BY <1>2
<1>4. ASSUME NEW k \in p + 1 .. Len(os)
      PROVE  /\ st[k] + Len(os[k]) <= Len(y)
             /\ \A i \in 1 .. Len(os[k]) : st[k] + i >= 1 => y[st[k] + i] = os[k][i]
  <2>1. PICK a \in Int, m \in Nat : a = st[k] /\ m = Len(os[k])
    BY <1>1
  <2>2. a + m <= Len(z) /\ \A i \in 1 .. m : a + i >= 1 => z[a + i] = os[k][i]
    BY <2>1 DEF Lies
  <2>3. ASSUME NEW i \in 1 .. m, a + i >= 1 PROVE y[a + i] = os[k][i]
    <3>1. a + i \in 1 .. Len(z)
      BY <1>1, <2>2, <2>3
    <3> QED
      BY <1>3, <2>2, <2>3, <3>1
  <2> QED
    BY <1>1, <1>3, <2>1, <2>2, <2>3
<1>5. ASSUME NEW j \in 1 .. Len(y), y[j] \notin {BLANK, CLOSE}
      PROVE  \E k \in p + 1 .. Len(os) : st[k] < j /\ j <= st[k] + Len(os[k])
  <2>1. j <= Len(z)
    <3> SUFFICES ASSUME j > Len(z) PROVE FALSE
      BY <1>1
    <3>1. j - Len(z) \in 1 .. Len(s) /\ y[j] = s[j - Len(z)]
      BY <1>3
    <3> QED
      BY <1>5, <3>1
  <2>2. j \in 1 .. Len(z) /\ z[j] = y[j]
    BY <1>1, <1>3, <2>1
  <2> QED
    BY <1>5, <2>2 DEF Lies
<1>6. \A k, l \in p + 1 .. Len(os) : k < l => st[k] + Len(os[k]) <= st[l]
  BY DEF Lies
<1> QED
  BY <1>2, <1>4, <1>5, <1>6 DEF Lies

\* An object that is sent lies behind all that waits to be scanned.
LEMMA SendObjectInOrder ==
  ASSUME TypeOK, ObjectsOnly, StreamInv, NEW o \in Object, SendObject(o)
  PROVE  StreamInv'
<1> SUFFICES ASSUME clean'
             PROVE  InOrder' /\ \E st \in [1 .. Len(sent') -> Int] : InStream(st)'
  BY DEF StreamInv
<1>1. /\ sent' = Append(sent, o) /\ wire' = wire \o o /\ msg' = msg /\ pushed' = pushed
      /\ nData' = nData /\ ocnt' = ocnt /\ ccnt' = ccnt /\ clean' = clean
  BY DEF SendObject, buffer
<1>2. clean
  BY <1>1
<1>3. /\ o \in Seq(Byte) /\ Len(o) \in Nat /\ Stripped(o) # <<>>
      /\ sent \in Seq(Seq(Byte)) /\ msg \in Seq(Byte) /\ wire \in Seq(Byte)
  BY FramingAssumption DEF TypeOK, ObjectsOnly
<1>4. InOrder
  BY <1>2 DEF StreamInv
<1>5. PICK st \in [1 .. Len(sent) -> Int] : InStream(st)
  BY <1>2 DEF StreamInv
<1>6. PICK n \in Nat : n = Len(sent)
  BY DEF TypeOK
<1>7. PICK p \in 0 .. n : p = Len(pushed)
  BY <1>4, <1>6 DEF InOrder, TypeOK
<1>8. PICK os : os = sent'
  OBVIOUS
<1>9. /\ Len(os) = n + 1 /\ os[n + 1] = o /\ \A k \in 1 .. n : os[k] = sent[k]
  BY <1>1, <1>3, <1>6, <1>8
<1>10. InOrder'
  BY <1>1, <1>4, <1>6, <1>7, <1>8, <1>9 DEF InOrder
<1>11. msg \o wire \in Seq(Byte)
  BY DEF TypeOK
<1>12. PICK z \in Seq(Byte) : z = msg \o wire
  BY <1>11
<1>13. msg' \o wire' = z \o o
  BY <1>1, <1>3, <1>12
<1>14. [k \in 1 .. n + 1 |-> IF k = n + 1 THEN Len(z) ELSE st[k]] \in [1 .. n + 1 -> Int]
  <2>1. Len(z) \in Int /\ \A k \in 1 .. n : st[k] \in Int
    BY <1>6
  <2> QED
    BY <2>1
<1>15. PICK more \in [1 .. n + 1 -> Int] :
         more = [k \in 1 .. n + 1 |-> IF k = n + 1 THEN Len(z) ELSE st[k]]
  BY <1>14, Zenon
<1>16. more[n + 1] = Len(z) /\ \A k \in 1 .. n : more[k] = st[k]
  BY <1>15
<1>17. Lies(sent, p, st, z) /\ Awaited(sent, p, st) /\ Tracked(sent, p, st)
  BY <1>5, <1>6, <1>7, <1>12 DEF InStream
<1>18. Lies(os, p, more, z \o o)
  BY <1>1, <1>8, <1>3, <1>6, <1>16, <1>17, LiesAndObject
<1>19. \A k \in 1 .. n : Got(os, more, k) = Got(sent, st, k)
  BY <1>9, <1>16 DEF Got, Scanned
<1>20. Got(os, more, n + 1) = 0 /\ more[n + 1] \in Nat
  BY <1>16, NotBegun
<1>21. PICK Bytes : Stripped(o) \in Seq(Bytes)
  BY <1>3, StrippedBytes
<1>22. Awaited(os, p, more)
  <2>1. ASSUME NEW k \in p + 1 .. n + 1
        PROVE  more[k] + Len(os[k]) >= 1 /\ Got(os, more, k) < Len(Stripped(os[k]))
    <3>1. CASE k = n + 1
      <4>1. PICK t \in Seq(Bytes) : t = Stripped(o) /\ t # <<>>
        BY <1>3, <1>21
      <4>2. Len(t) > 0
        BY <4>1
      <4>3. PICK m \in Nat : m = Len(o) /\ m > 0
        <5>1. o # <<>>
          BY FramingAssumption
        <5> QED
          BY <1>3, <5>1
      <4> QED
        BY <1>9, <1>20, <3>1, <4>1, <4>2, <4>3
    <3>2. CASE k # n + 1
      <4>1. k \in p + 1 .. n /\ k \in 1 .. n
        BY <3>2
      <4> QED
        BY <1>6, <1>9, <1>16, <1>17, <1>19, <4>1 DEF Awaited
    <3> QED
      BY <3>1, <3>2
  <2> QED
    BY <1>9, <2>1 DEF Awaited
<1>23. Tracked(os, p, more)'
  <2>1. CASE p < n
    <3>1. p + 1 \in 1 .. n
      BY <2>1
    <3>2. Holds(Stripped(sent[p + 1]), Got(sent, st, p + 1))
      BY <1>6, <1>17, <2>1 DEF Tracked
    <3>3. Holds(Stripped(os[p + 1]), Got(os, more, p + 1))
      BY <1>9, <1>19, <3>1, <3>2
    <3>4. Holds(Stripped(os[p + 1]), Got(os, more, p + 1))'
      BY <1>1, <3>3 DEF Holds
    <3> QED
      BY <1>6, <1>9, <2>1, <3>4 DEF Tracked
  <2>2. CASE p = n
    <3>1. Holds(<<>>, 0) /\ <<>> \in Seq(Byte)
      BY <1>6, <1>17, <2>2 DEF Tracked
    <3>2. nData = <<>> /\ ocnt = 0 /\ ccnt = 0
      BY <3>1, HoldsNothing
    <3>3. Holds(Stripped(o), 0)
      BY <1>21, <3>2, HoldsNothing
    <3>4. Holds(Stripped(o), 0)'
      BY <1>1, <3>3 DEF Holds
    <3> QED
      BY <1>9, <1>20, <2>2, <3>4 DEF Tracked
  <2> QED
    BY <2>1, <2>2
<1>24. InStream(more)'
  BY <1>1, <1>7, <1>8, <1>13, <1>18, <1>22, <1>23 DEF InStream
<1> QED
  BY <1>8, <1>9, <1>10, <1>24

\* What else is sent while clean holds opens no object.
LEMMA SendJunkInOrder ==
  ASSUME TypeOK, ObjectsOnly, StreamInv, NEW s \in Junk, SendJunk(s)
  PROVE  StreamInv'
<1> SUFFICES ASSUME clean'
             PROVE  InOrder' /\ \E st \in [1 .. Len(sent') -> Int] : InStream(st)'
  BY DEF StreamInv
<1>1. /\ wire' = wire \o s /\ UNCHANGED <<msg, nData, ocnt, ccnt, pushed, sent>>
      /\ clean /\ CH \notin ToSet(s)
  BY DEF SendJunk, buffer
<1>2. s \in Seq(Byte) /\ OPEN \notin ToSet(s)
  BY FramingAssumption DEF ObjectsOnly
<1>3. ASSUME NEW j \in 1 .. Len(s) PROVE s[j] \in {BLANK, CLOSE}
  <2>1. s[j] \in Byte /\ s[j] \in ToSet(s)
    BY <1>2 DEF ToSet
  <2> QED
    BY <1>1, <1>2, <2>1 DEF Byte
<1>4. PICK st \in [1 .. Len(sent) -> Int] : InStream(st)
  BY <1>1 DEF StreamInv
<1>5. InOrder'
  BY <1>1 DEF StreamInv, InOrder
<1>6. msg \in Seq(Byte) /\ wire \in Seq(Byte) /\ Len(pushed) \in Nat
  BY DEF TypeOK
<1>7. PICK z \in Seq(Byte) : z = msg \o wire
  <2>1. msg \o wire \in Seq(Byte)
    BY <1>6
  <2> QED
    BY <2>1, Zenon
<1>8. msg' \o wire' = z \o s
  BY <1>1, <1>2, <1>6, <1>7
<1>9. Lies(sent, Len(pushed), st, z)
  BY <1>4, <1>7 DEF InStream
<1>10. Len(sent) \in Nat /\ \A k \in 1 .. Len(sent) : Len(sent[k]) \in Nat
  BY ObjectsSent
<1>11. Lies(sent, Len(pushed), st, z \o s)
  BY <1>2, <1>3, <1>6, <1>9, <1>10, LiesAndJunk
<1>12. InStream(st)'
  BY <1>1, <1>4, <1>8, <1>11 DEF InStream, Tracked, Holds
<1> QED
  BY <1>1, <1>5, <1>12

\* However the bytes are cut into reads, the same bytes wait to be scanned.
LEMMA ReadInOrder ==
  ASSUME TypeOK, StreamInv, Read
  PROVE  StreamInv'
<1> SUFFICES ASSUME clean'
             PROVE  InOrder' /\ \E st \in [1 .. Len(sent') -> Int] : InStream(st)'
  BY DEF StreamInv
<1>1. msg = <<>> /\ UNCHANGED <<nData, ocnt, ccnt, pushed, sent, clean>>
  BY DEF Read, buffer
<1>2. PICK k \in 1 .. Len(wire) : msg' = SubSeq(wire, 1, k) /\ wire' = SubSeq(wire, k + 1, Len(wire))
  BY DEF Read
<1>3. msg' \o wire' = msg \o wire
  <2>1. wire \in Seq(Byte) /\ msg = <<>>
    BY <1>1 DEF TypeOK
  <2>2. SubSeq(wire, 1, k) \o SubSeq(wire, k + 1, Len(wire)) = wire /\ <<>> \o wire = wire
    BY <2>1
  <2> QED
    BY <1>2, <2>1, <2>2
<1>4. PICK st \in [1 .. Len(sent) -> Int] : InStream(st)
  BY <1>1 DEF StreamInv
<1>5. InOrder'
  BY <1>1 DEF StreamInv, InOrder
<1>6. InStream(st)'
  BY <1>1, <1>3, <1>4 DEF InStream, Tracked, Holds
<1> QED
  BY <1>1, <1>5, <1>6

\* When one byte has been scanned an object that has begun has one more, and the next
\* ones have not begun.
LEMMA OneByteOn ==
  ASSUME NEW os, NEW p, NEW st, NEW z, NEW later, NEW k,
         Placed(os, p, st, z), Lies(os, p, st, z), Awaited(os, p, st), Shifted(os, st, later, 1),
         k \in p + 1 .. Len(os)
  PROVE  /\ st[k] <= 0 /\ NonBlanks(os[k], 1 - st[k]) < Len(Stripped(os[k])) =>
              /\ later[k] + Len(os[k]) >= 1
              /\ Got(os, later, k) = NonBlanks(os[k], 1 - st[k])
         /\ st[k] >= 1 =>
              /\ later[k] + Len(os[k]) >= 1
              /\ Got(os, later, k) = 0 /\ Got(os, later, k) < Len(Stripped(os[k]))
<1>1. /\ st[k] \in Int /\ later[k] \in Int /\ later[k] = st[k] - 1
      /\ Len(os[k]) \in Nat /\ Stripped(os[k]) # <<>>
      /\ p \in Nat /\ Len(os) \in Nat
  <2>1. p \in 0 .. Len(os) /\ Len(os) \in Nat
    BY DEF Placed
  <2>2. k \in 1 .. Len(os)
    BY <2>1
  <2>3. st[k] \in Int /\ later[k] = st[k] - 1 /\ Len(os[k]) \in Nat /\ Stripped(os[k]) # <<>>
    BY <2>2, Zenon DEF Placed, Shifted
  <2> QED
    BY <2>1, <2>3
<1>2. ASSUME st[k] >= 1
      PROVE  /\ later[k] + Len(os[k]) >= 1
             /\ Got(os, later, k) = 0 /\ Got(os, later, k) < Len(Stripped(os[k]))
  <2>1. PICK d \in Nat : d = 1
    OBVIOUS
  <2>2. later[k] = st[k] - d /\ \A j \in 2 .. d : z[j] = BLANK
    BY <1>1, <2>1
  <2>3. /\ later[k] + Len(os[k]) >= 1
        /\ Got(os, later, k) = 0 /\ Got(os, later, k) < Len(Stripped(os[k]))
    <3>1. \A i \in 1 .. Len(os) : st[i] \in Int
      BY Zenon DEF Shifted
    <3> QED
      BY <1>1, <1>2, <2>1, <2>2, <3>1, BlanksDropped, Zenon
  <2> QED
    BY <1>1, <1>2, <2>3
<1>3. ASSUME st[k] <= 0, NonBlanks(os[k], 1 - st[k]) < Len(Stripped(os[k]))
      PROVE  later[k] + Len(os[k]) >= 1 /\ Got(os, later, k) = NonBlanks(os[k], 1 - st[k])
  <2>1. PICK c \in Nat : c = 1 - st[k] /\ c = -later[k] /\ c >= 1
    BY <1>1, <1>3
  <2>2. Scanned(later, k) = c
    BY <1>1, <2>1 DEF Scanned
  <2>3. Got(os, later, k) = NonBlanks(os[k], c)
    BY <2>2 DEF Got
  <2>4. NonBlanks(os[k], c) < NonBlanks(os[k], Len(os[k]))
    BY <1>1, <1>3, <2>1, StrippedBytes
  <2>5. c # Len(os[k])
    BY <1>1, <2>1, <2>4, OneMoreByte
  <2>6. st[k] + Len(os[k]) >= 1
    BY DEF Awaited
  <2> QED
    BY <1>1, <1>3, <2>1, <2>3, <2>5, <2>6
<1> QED
  BY <1>1, <1>2, <1>3

\* After a chunk whose rest was dropped, the objects behind the q-th are in the bytes
\* that have not been read.
LEMMA ChunkDropped ==
  ASSUME TypeOK, TypeOK', ObjectsOnly, NEW st \in [1 .. Len(sent) -> Int], InStream(st),
         Len(pushed) <= Len(sent), msg # <<>>, ToSet(Tail(msg)) \subseteq {BLANK},
         NEW q \in Len(pushed) .. Len(sent), q = Len(pushed)',
         \A k \in q + 1 .. Len(sent) : st[k] >= 1,
         \A k \in Len(pushed) + 1 .. q : \A i \in 1 .. Len(sent[k]) :
           st[k] + i > 1 => sent[k][i] \in {BLANK, CLOSE},
         msg' = <<>>, wire' = wire, sent' = sent, nData' = <<>>, ocnt' = 0, ccnt' = 0
  PROVE  \E later \in [1 .. Len(sent') -> Int] : InStream(later)'
<1>1. /\ Len(sent) \in Nat /\ Len(pushed) \in Nat /\ q \in Nat
      /\ \A k \in 1 .. Len(sent) :
           sent[k] \in Seq(Byte) /\ Len(sent[k]) \in Nat /\ Stripped(sent[k]) # <<>>
  BY ObjectsSent DEF TypeOK
<1>2. PICK n \in Nat, p \in Nat : n = Len(sent) /\ p = Len(pushed) /\ p <= q /\ q <= n
  BY <1>1
<1>3. msg \in Seq(Byte) /\ wire \in Seq(Byte) /\ Tail(msg) \in Seq(Byte)
  BY DEF TypeOK
<1>4. PICK d \in Nat : d = Len(msg) /\ d >= 1
  BY <1>3
<1>5. PICK z \in Seq(Byte) : z = msg \o wire
  <2>1. msg \o wire \in Seq(Byte)
    BY <1>3
  <2> QED
    BY <2>1, Zenon
<1>6. /\ d \in 0 .. Len(z) /\ wire = SubSeq(z, d + 1, Len(z))
      /\ \A j \in 1 .. d : z[j] = msg[j]
  BY <1>3, <1>4, <1>5
<1>7. ASSUME NEW j \in 2 .. d PROVE z[j] = BLANK
  <2>1. j - 1 \in 1 .. Len(Tail(msg)) /\ Tail(msg)[j - 1] = msg[j]
    BY <1>3, <1>4
  <2>2. msg[j] \in ToSet(Tail(msg))
    <3>1. Tail(msg)[j - 1] \in ToSet(Tail(msg))
      <4>1. PICK t \in Seq(Byte) : t = Tail(msg)
        BY <1>3
      <4>2. j - 1 \in DOMAIN t
        BY <2>1, <4>1
      <4> QED
        BY <4>1, <4>2 DEF ToSet
    <3> QED
      BY <2>1, <3>1
  <2> QED
    BY <1>4, <1>6, <2>2
<1>8. PICK os : os = sent
  OBVIOUS
<1>9. Lies(os, p, st, z)
  BY <1>2, <1>5, <1>8 DEF InStream
<1>10. [k \in 1 .. n |-> st[k] - d] \in [1 .. n -> Int]
  BY <1>2
<1>11. PICK later \in [1 .. n -> Int] : later = [k \in 1 .. n |-> st[k] - d]
  BY <1>10, Zenon
<1>12. \A k \in 1 .. n : later[k] = st[k] - d
  BY <1>11
<1>13. ASSUME NEW j \in d + 1 .. Len(z), NEW k \in p + 1 .. q, st[k] < j, j <= st[k] + Len(os[k])
       PROVE  z[j] \in {BLANK, CLOSE}
  <2>1. PICK a \in Int, m \in Nat : a = st[k] /\ m = Len(os[k])
    <3>1. k \in 1 .. n
      BY <1>2
    <3> QED
      BY <1>1, <1>2, <1>8, <3>1
  <2>2. j - a \in 1 .. m /\ a + (j - a) = j /\ j > 1
    BY <1>4, <1>13, <2>1
  <2>3. \A i \in 1 .. m : a + i >= 1 => z[a + i] = os[k][i]
    BY <1>2, <1>8, <1>9, <2>1 DEF Lies
  <2>4. PICK i : i = j - a
    OBVIOUS
  <2>5. i \in 1 .. m /\ a + i = j /\ a + i > 1 /\ a + i >= 1
    BY <2>2, <2>4
  <2>6. z[j] = os[k][i]
    BY <2>3, <2>5
  <2>7. os[k][i] \in {BLANK, CLOSE}
    BY <1>2, <1>8, <2>1, <2>5
  <2> QED
    BY <2>6, <2>7
<1>14. Lies(os, q, later, wire)
  <2>1. /\ Len(os) \in Nat /\ Len(os) = n /\ st \in [1 .. Len(os) -> Int]
        /\ \A k \in 1 .. Len(os) : Len(os[k]) \in Nat
    BY <1>1, <1>2, <1>8
  <2>2. \A j \in d + 1 .. Len(z), k \in p + 1 .. q :
          st[k] < j /\ j <= st[k] + Len(os[k]) => z[j] \in {BLANK, CLOSE}
    BY <1>13, Zenon
  <2>3. \A k \in 1 .. Len(os) : later[k] = st[k] - d
    BY <1>12, <2>1
  <2> QED
    <3>1. /\ q \in Nat /\ p \in Nat /\ p <= q
          /\ z \in Seq(Byte) /\ d \in 0 .. Len(z) /\ wire = SubSeq(z, d + 1, Len(z))
      BY <1>1, <1>2, <1>5, <1>6
    <3>2. /\ Len(os) \in Nat /\ st \in [1 .. Len(os) -> Int]
          /\ \A k \in 1 .. Len(os) : Len(os[k]) \in Nat
      BY <2>1
    <3> QED
      BY <1>9, <2>2, <2>3, <3>1, <3>2, LiesBehind, Zenon
<1>15. Awaited(os, q, later) /\ \A k \in q + 1 .. Len(os) : Got(os, later, k) = 0
  <2>1. /\ p \in Nat /\ q \in Nat /\ p <= q /\ d \in Nat /\ Len(os) \in Nat
        /\ \A k \in 1 .. Len(os) : Len(os[k]) \in Nat /\ Stripped(os[k]) # <<>>
    BY <1>1, <1>2, <1>4, <1>8
  <2>2. \A k \in 1 .. Len(os) : st[k] \in Int /\ later[k] = st[k] - d
    BY <1>2, <1>8, <1>12
  <2>3. Shifted(os, st, later, d)
    BY <1>4, <2>2 DEF Shifted
  <2>4. Dropped(os, q, st, z, d)
    BY <1>7, <1>8 DEF Dropped
  <2> QED
    BY <1>9, <2>1, <2>3, <2>4, BlanksDroppedOf, Zenon
<1>16. ASSUME NEW Bytes, NEW t \in Seq(Bytes) PROVE Holds(t, 0)'
  <2>1. SubSeq(t, 1, 0) = <<>> /\ Cut(<<>>) = <<>>
    BY FramingAssumption DEF Cut
  <2>2. Occurrences(t, OPEN, 0) = 0 /\ Occurrences(t, CLOSE, 0) = 0
    BY OneMore
  <2> QED
    BY <2>1, <2>2 DEF Holds
<1>17. Tracked(os, q, later)'
  <2>1. CASE q < n
    <3>1. q + 1 \in q + 1 .. n /\ q + 1 \in 1 .. n
      BY <1>2, <2>1
    <3>2. PICK Bytes : Stripped(os[q + 1]) \in Seq(Bytes)
      BY <1>1, <1>2, <1>8, <3>1, StrippedBytes
    <3>3. Holds(Stripped(os[q + 1]), 0)'
      BY <3>2, <1>16
    <3> QED
      BY <1>2, <1>8, <1>15, <2>1, <3>1, <3>3 DEF Tracked
  <2>2. CASE q = n
    <3>1. Holds(<<>>, 0)'
      <4>1. <<>> \in Seq(Byte)
        OBVIOUS
      <4> QED
        BY <1>16, <4>1
    <3> QED
      BY <1>2, <1>8, <2>2, <3>1 DEF Tracked
  <2> QED
    BY <1>2, <2>1, <2>2
<1>18. msg' \o wire' = wire
  BY <1>3
<1>19. InStream(later)'
  BY <1>8, <1>14, <1>15, <1>17, <1>18 DEF InStream
<1> QED
  BY <1>2, <1>19

\* The stream behind the first byte of a chunk.
LEMMA ByteScanned ==
  ASSUME TypeOK, NEW st \in [1 .. Len(sent) -> Int], Lies(sent, Len(pushed), st, msg \o wire),
         msg # <<>>
  PROVE  \E later \in [1 .. Len(sent) -> Int] :
           Shifted(sent, st, later, 1) /\ Lies(sent, Len(pushed), later, Tail(msg) \o wire)
<1>1. /\ Len(sent) \in Nat /\ Len(pushed) \in Nat
      /\ \A k \in 1 .. Len(sent) : Len(sent[k]) \in Nat
  <2>1. sent \in Seq(Object) /\ Object \subseteq Seq(Byte)
    BY FramingAssumption DEF TypeOK
  <2>2. ASSUME NEW k \in 1 .. Len(sent) PROVE Len(sent[k]) \in Nat
    <3>1. sent[k] \in Seq(Byte)
      BY <2>1
    <3> QED
      BY <3>1
  <2>3. Len(sent) \in Nat /\ Len(pushed) \in Nat
    BY DEF TypeOK
  <2> QED
    BY <2>2, <2>3
<1>2. PICK os : os = sent
  OBVIOUS
<1>3. PICK n \in Nat, p \in Nat : n = Len(sent) /\ p = Len(pushed)
  BY <1>1
<1>4. os = sent /\ n = Len(sent) /\ p = Len(pushed) /\ n \in Nat /\ p \in Nat
  BY <1>2, <1>3
<1>5. PICK z \in Seq(Byte) : z = msg \o wire
  <2>1. msg \o wire \in Seq(Byte)
    BY DEF TypeOK
  <2> QED
    BY <2>1, Zenon
<1>6. PICK rest : rest = Tail(msg) \o wire
  OBVIOUS
<1>7. 1 \in 0 .. Len(z) /\ rest = SubSeq(z, 1 + 1, Len(z))
  BY <1>5, <1>6 DEF TypeOK
<1>8. [k \in 1 .. n |-> st[k] - 1] \in [1 .. n -> Int]
  BY <1>4
<1>9. PICK later \in [1 .. n -> Int] : later = [k \in 1 .. n |-> st[k] - 1]
  BY <1>8, Zenon
<1>10. /\ st \in [1 .. Len(os) -> Int]
       /\ \A k \in 1 .. Len(os) : later[k] = st[k] - 1
       /\ \A k \in 1 .. Len(os) : Len(os[k]) \in Nat
  BY <1>1, <1>4, <1>9
<1>11. Shifted(os, st, later, 1)
  BY <1>10 DEF Shifted
<1>12. Lies(os, p, st, z)
  BY <1>4, <1>5
<1>13. Lies(os, p, later, rest)
  <2>1. /\ p \in Nat /\ p <= p /\ z \in Seq(Byte) /\ Len(os) \in Nat
        /\ \A j \in 1 + 1 .. Len(z), k \in p + 1 .. p :
             st[k] < j /\ j <= st[k] + Len(os[k]) => z[j] \in {BLANK, CLOSE}
    BY <1>1, <1>4, <1>5
  <2> QED
    BY <1>7, <1>10, <1>12, <2>1, LiesBehind, Zenon
<1> QED
  BY <1>4, <1>6, <1>9, <1>11, <1>13

\* A blank is scanned: the objects are one byte nearer, and no more of them is held.
LEMMA SkipInOrder ==
  ASSUME TypeOK, ObjectsOnly, StreamInv, Skip
  PROVE  StreamInv'
<1> SUFFICES ASSUME clean'
             PROVE  InOrder' /\ \E st \in [1 .. Len(sent') -> Int] : InStream(st)'
  BY DEF StreamInv
<1>1. /\ msg # <<>> /\ Head(msg) = BLANK /\ msg' = Tail(msg)
      /\ UNCHANGED <<wire, nData, ocnt, ccnt, pushed, sent, clean>>
  BY DEF Skip, buffer
<1>2. InOrder'
  BY <1>1 DEF StreamInv, InOrder
<1>3. PICK st \in [1 .. Len(sent) -> Int] : InStream(st)
  BY <1>1 DEF StreamInv
<1>4. Len(pushed) <= Len(sent)
  BY <1>1 DEF StreamInv, InOrder
<1>5. PICK os, p, z :
        /\ os = sent /\ p = Len(pushed) /\ z = msg \o wire
        /\ Placed(os, p, st, z) /\ Lies(os, p, st, z) /\ Awaited(os, p, st) /\ Tracked(os, p, st)
  BY <1>3, <1>4, StreamPlaced
<1>6. PICK n \in Nat : n = Len(os)
  BY <1>5 DEF Placed
<1>7. /\ p \in Nat /\ p <= n /\ z # <<>> /\ z[1] = Head(msg)
      /\ \A k \in 1 .. n : Len(os[k]) \in Nat /\ st[k] \in Int
  <2>1. z # <<>> /\ z[1] = Head(msg)
    BY <1>1, <1>5 DEF TypeOK
  <2> QED
    BY <1>5, <1>6, <2>1 DEF Placed
<1>8. PICK later \in [1 .. Len(sent) -> Int] :
        Shifted(os, st, later, 1) /\ Lies(os, p, later, Tail(msg) \o wire)
  BY <1>1, <1>5, ByteScanned
<1>9. ASSUME NEW k \in p + 1 .. n
      PROVE  /\ later[k] + Len(os[k]) >= 1 /\ Got(os, later, k) < Len(Stripped(os[k]))
             /\ Got(os, later, k) = Got(os, st, k)
  <2>1. k \in 1 .. n /\ k \in p + 1 .. Len(os)
    BY <1>6, <1>7
  <2>2. st[k] \in Int /\ Len(os[k]) \in Nat
    BY <1>7, <2>1, Zenon
  <2>3. ASSUME st[k] <= 0
        PROVE  NonBlanks(os[k], 1 - st[k]) = Got(os, st, k)
    <3>1. /\ p < n /\ st[p + 1] <= 0 =>
               1 - st[p + 1] \in 1 .. Len(os[p + 1]) /\ z[1] = os[p + 1][1 - st[p + 1]]
          /\ \A l \in p + 2 .. n : st[l] >= 1
      BY <1>5, <1>6, <1>7, NextByte
    <3>2. k = p + 1
      BY <1>7, <2>1, <2>2, <2>3, <3>1
    <3>3. 1 - st[k] \in 1 .. Len(os[k]) /\ os[k][1 - st[k]] = BLANK
      BY <1>1, <1>7, <2>3, <3>2, <3>1
    <3>4. PICK c \in Nat : c = -st[k] /\ c + 1 = 1 - st[k]
      BY <2>2, <2>3
    <3>5. Scanned(st, k) = c
      BY <2>2, <2>3, <3>4 DEF Scanned
    <3> QED
      BY <3>3, <3>4, <3>5, OneMoreByte DEF Got
  <2>4. Got(os, st, k) < Len(Stripped(os[k]))
    BY <1>5, <2>1 DEF Awaited
  <2>5. st[k] <= 0 => NonBlanks(os[k], 1 - st[k]) < Len(Stripped(os[k]))
    BY <2>3, <2>4
  <2>6. /\ later[k] + Len(os[k]) >= 1 /\ Got(os, later, k) < Len(Stripped(os[k]))
        /\ st[k] <= 0 => Got(os, later, k) = NonBlanks(os[k], 1 - st[k])
        /\ st[k] >= 1 => Got(os, later, k) = 0
    <3>1. Placed(os, p, st, z) /\ Lies(os, p, st, z) /\ Awaited(os, p, st)
      BY <1>5
    <3>2. Shifted(os, st, later, 1) /\ k \in p + 1 .. Len(os)
      BY <1>8, <2>1
    <3>3. /\ st[k] <= 0 /\ NonBlanks(os[k], 1 - st[k]) < Len(Stripped(os[k])) =>
               /\ later[k] + Len(os[k]) >= 1
               /\ Got(os, later, k) = NonBlanks(os[k], 1 - st[k])
          /\ st[k] >= 1 =>
               /\ later[k] + Len(os[k]) >= 1
               /\ Got(os, later, k) = 0 /\ Got(os, later, k) < Len(Stripped(os[k]))
      BY <3>1, <3>2, OneByteOn, Zenon
    <3> QED
      BY <2>2, <2>5, <3>3
  <2>7. st[k] >= 1 => Got(os, st, k) = 0
    BY <2>2, NotBegun
  <2> QED
    BY <2>2, <2>3, <2>6, <2>7
<1>10. Awaited(os, p, later)
  BY <1>6, <1>9 DEF Awaited
<1>11. Tracked(os, p, later)'
  <2>1. Tracked(os, p, later)
    <3>1. CASE p < n
      <4>1. p + 1 \in p + 1 .. n
        BY <1>7, <3>1
      <4> QED
        BY <1>5, <1>6, <1>9, <3>1, <4>1 DEF Tracked
    <3>2. CASE ~(p < n)
      BY <1>5, <1>6, <3>2 DEF Tracked
    <3> QED
      BY <3>1, <3>2
  <2> QED
    BY <1>1, <2>1 DEF Tracked, Holds
<1>12. InStream(later)'
  BY <1>1, <1>5, <1>8, <1>10, <1>11 DEF InStream
<1> QED
  BY <1>1, <1>2, <1>12

\* A byte that completes nothing is stored: it is the next one of the object begun.
LEMMA StoreInOrder ==
  ASSUME TypeOK, ObjectsOnly, StreamInv, Store
  PROVE  StreamInv'
<1> SUFFICES ASSUME clean'
             PROVE  InOrder' /\ \E st \in [1 .. Len(sent') -> Int] : InStream(st)'
  BY DEF StreamInv
<1> DEFINE b == Head(msg)
<1>1. /\ msg # <<>> /\ b # BLANK /\ msg' = Tail(msg) /\ ~Balanced(b) /\ Opened(b) >= Closed(b)
      /\ nData' = Stored(b) /\ ocnt' = Opened(b) /\ ccnt' = Closed(b)
      /\ UNCHANGED <<wire, pushed, sent, clean>>
  BY DEF Store
<1>2. InOrder'
  BY <1>1 DEF StreamInv, InOrder
<1>3. PICK st \in [1 .. Len(sent) -> Int] : InStream(st)
  BY <1>1 DEF StreamInv
<1>4. Len(pushed) <= Len(sent)
  BY <1>1 DEF StreamInv, InOrder
<1>5. PICK os, p, z :
        /\ os = sent /\ p = Len(pushed) /\ z = msg \o wire
        /\ Placed(os, p, st, z) /\ Lies(os, p, st, z) /\ Awaited(os, p, st) /\ Tracked(os, p, st)
  BY <1>3, <1>4, StreamPlaced
<1>6. PICK n \in Nat : n = Len(os)
  BY <1>5 DEF Placed
<1>7. /\ p \in Nat /\ p <= n /\ z # <<>> /\ z[1] = Head(msg)
      /\ \A k \in 1 .. n : Len(os[k]) \in Nat /\ st[k] \in Int
  <2>1. z # <<>> /\ z[1] = Head(msg)
    BY <1>1, <1>5 DEF TypeOK
  <2> QED
    BY <1>5, <1>6, <2>1 DEF Placed
<1>8. PICK later \in [1 .. Len(sent) -> Int] :
        Shifted(os, st, later, 1) /\ Lies(os, p, later, Tail(msg) \o wire)
  BY <1>1, <1>5, ByteScanned
<1>9. PICK t, i : t = Stripped(os[p + 1]) /\ i = Got(os, st, p + 1)
  OBVIOUS
<1>10. /\ p < n /\ st[p + 1] <= 0 /\ i \in 0 .. Len(t) - 1
       /\ NonBlanks(os[p + 1], 1 - st[p + 1]) = i + 1
       /\ Stored(b) = Cut(SubSeq(t, 1, i + 1))
       /\ Opened(b) = Occurrences(t, OPEN, i + 1)
       /\ Closed(b) = Occurrences(t, CLOSE, i + 1)
       /\ i + 1 # Len(t)
  BY <1>1, <1>3, <1>4, <1>5, <1>6, <1>9, NextStored
<1> HIDE DEF b
<1>11. PICK Bytes : t \in Seq(Bytes)
  <2>1. p + 1 \in 1 .. n
    BY <1>6, <1>7, <1>10
  <2> QED
    BY <1>7, <1>9, <2>1, StrippedBytes
<1>12. i + 1 < Len(t)
  BY <1>10, <1>11
<1>13. ASSUME NEW k \in p + 1 .. n
       PROVE  /\ later[k] + Len(os[k]) >= 1 /\ Got(os, later, k) < Len(Stripped(os[k]))
              /\ k = p + 1 => Got(os, later, k) = i + 1
  <2>1. k \in 1 .. n /\ k \in p + 1 .. Len(os)
    BY <1>6, <1>7
  <2>2. st[k] \in Int /\ Len(os[k]) \in Nat
    BY <1>7, <2>1, Zenon
  <2>3. st[k] <= 0 => NonBlanks(os[k], 1 - st[k]) < Len(Stripped(os[k]))
    <3>1. \A l \in p + 2 .. n : st[l] >= 1
      BY <1>5, <1>6, <1>7, NextByte
    <3>2. st[k] <= 0 => k = p + 1
      BY <1>7, <2>1, <2>2, <3>1
    <3> QED
      BY <1>9, <1>10, <1>12, <3>2
  <2>4. /\ later[k] + Len(os[k]) >= 1 /\ Got(os, later, k) < Len(Stripped(os[k]))
        /\ st[k] <= 0 => Got(os, later, k) = NonBlanks(os[k], 1 - st[k])
    <3>1. Placed(os, p, st, z) /\ Lies(os, p, st, z) /\ Awaited(os, p, st)
      BY <1>5
    <3>2. Shifted(os, st, later, 1) /\ k \in p + 1 .. Len(os)
      BY <1>8, <2>1
    <3>3. /\ st[k] <= 0 /\ NonBlanks(os[k], 1 - st[k]) < Len(Stripped(os[k])) =>
               /\ later[k] + Len(os[k]) >= 1
               /\ Got(os, later, k) = NonBlanks(os[k], 1 - st[k])
          /\ st[k] >= 1 =>
               /\ later[k] + Len(os[k]) >= 1
               /\ Got(os, later, k) = 0 /\ Got(os, later, k) < Len(Stripped(os[k]))
      BY <3>1, <3>2, OneByteOn, Zenon
    <3> QED
      BY <2>2, <2>3, <3>3
  <2> QED
    BY <1>10, <2>4
<1>14. Awaited(os, p, later)
  BY <1>6, <1>13 DEF Awaited
<1>15. Tracked(os, p, later)'
  <2>1. p + 1 \in p + 1 .. n
    BY <1>7, <1>10
  <2>2. Got(os, later, p + 1) = i + 1
    BY <1>13, <2>1
  <2>3. Holds(t, i + 1)'
    BY <1>1, <1>10 DEF Holds
  <2> QED
    BY <1>6, <1>9, <1>10, <2>2, <2>3 DEF Tracked
<1>16. InStream(later)'
  BY <1>1, <1>5, <1>8, <1>14, <1>15 DEF InStream
<1> QED
  BY <1>1, <1>2, <1>16

\* Behind the byte with which all that are no blanks are counted come only blanks.
LEMMA BlanksBehind ==
  ASSUME NEW s, Len(s) \in Nat, NEW c \in Nat, NonBlanks(s, c) = NonBlanks(s, Len(s)),
         NEW i \in 1 .. Len(s), i > c
  PROVE  s[i] = BLANK
<1> SUFFICES ASSUME s[i] # BLANK PROVE FALSE
  OBVIOUS
<1>1. i \in Nat /\ c < i /\ c <= i /\ i <= Len(s)
  OBVIOUS
<1>2. NonBlanks(s, c) < NonBlanks(s, i)
  BY <1>1, NoFewer
<1>3. NonBlanks(s, i) <= NonBlanks(s, Len(s))
  BY <1>1, NoFewer
<1>4. NonBlanks(s, i) \in Nat /\ NonBlanks(s, c) \in Nat
  BY <1>1, OneMoreByte
<1> QED
  BY <1>2, <1>3, <1>4

\* The braces meet at the last byte of the next object: what is queued is that object,
\* and behind it the chunk had only blanks.
LEMMA PushInOrder ==
  ASSUME TypeOK, TypeOK', ObjectsOnly, StreamInv, Push
  PROVE  StreamInv'
<1> SUFFICES ASSUME clean'
             PROVE  InOrder' /\ \E st \in [1 .. Len(sent') -> Int] : InStream(st)'
  BY DEF StreamInv
<1> DEFINE b == Head(msg)
<1>1. /\ msg # <<>> /\ b # BLANK /\ Balanced(b) /\ pushed' = Append(pushed, Stored(b))
      /\ nData' = <<>> /\ ocnt' = 0 /\ ccnt' = 0 /\ msg' = <<>>
      /\ wire' = wire /\ sent' = sent
      /\ clean /\ ToSet(Tail(msg)) \subseteq {BLANK}
  BY DEF Push, Reset, Break
<1>2. InOrder
  BY <1>1 DEF StreamInv
<1>3. PICK st \in [1 .. Len(sent) -> Int] : InStream(st)
  BY <1>1 DEF StreamInv
<1>4. Len(pushed) <= Len(sent)
  BY <1>2 DEF InOrder
<1>5. PICK os, p, z :
        /\ os = sent /\ p = Len(pushed) /\ z = msg \o wire
        /\ Placed(os, p, st, z) /\ Lies(os, p, st, z) /\ Awaited(os, p, st) /\ Tracked(os, p, st)
  BY <1>1, <1>3, <1>4, StreamPlaced
<1>6. PICK n \in Nat : n = Len(os)
  BY <1>5 DEF Placed
<1>7. /\ p \in Nat /\ p <= n /\ z # <<>>
      /\ \A k \in 1 .. n : Len(os[k]) \in Nat /\ st[k] \in Int
  <2>1. z # <<>>
    BY <1>1, <1>5 DEF TypeOK
  <2> QED
    BY <1>5, <1>6, <2>1 DEF Placed
<1>8. PICK t, i : t = Stripped(os[p + 1]) /\ i = Got(os, st, p + 1)
  OBVIOUS
<1>9. Opened(b) > 0
  BY <1>1 DEF Balanced
<1>10. /\ p < n /\ st[p + 1] <= 0 /\ i \in 0 .. Len(t) - 1
       /\ NonBlanks(os[p + 1], 1 - st[p + 1]) = i + 1
       /\ Stored(b) = Cut(SubSeq(t, 1, i + 1))
       /\ i + 1 = Len(t)
  BY <1>1, <1>3, <1>4, <1>5, <1>6, <1>8, <1>9, NextStored
<1> HIDE DEF b
<1>11. p + 1 \in 1 .. n /\ p + 1 \in p .. n
  BY <1>7, <1>10
<1>12. (\E Bytes : t \in Seq(Bytes)) /\ Len(t) = NonBlanks(os[p + 1], Len(os[p + 1]))
  BY <1>7, <1>8, <1>11, StrippedBytes
<1>13. Stored(b) = Cut(t)
  <2>1. SubSeq(t, 1, i + 1) = t
    BY <1>10, <1>12
  <2> QED
    BY <1>10, <2>1
<1>14. InOrder'
  <2>1. pushed \in Seq(Seq(Byte \ {BLANK})) /\ pushed' \in Seq(Seq(Byte \ {BLANK}))
    BY DEF TypeOK
  <2>2. /\ Len(pushed') = p + 1 /\ pushed'[p + 1] = Stored(b)
        /\ \A k \in 1 .. p : pushed'[k] = pushed[k]
    BY <1>1, <1>5, <2>1
  <2>3. ASSUME NEW k \in 1 .. p + 1 PROVE pushed'[k] = Cut(Stripped(sent[k]))
    <3>1. CASE k = p + 1
      BY <1>5, <1>8, <1>13, <2>2, <3>1
    <3>2. CASE k \in 1 .. p
      BY <1>2, <1>5, <2>2, <3>2 DEF InOrder
    <3> QED
      BY <1>7, <3>1, <3>2
  <2> QED
    BY <1>1, <1>5, <1>6, <1>10, <1>11, <2>2, <2>3 DEF InOrder
<1>15. \A k \in (p + 1) + 1 .. n : st[k] >= 1
  <2>1. \A k \in p + 2 .. n : st[k] >= 1
    BY <1>5, <1>6, <1>7, NextByte
  <2>2. (p + 1) + 1 = p + 2
    BY <1>7
  <2> QED
    BY <2>1, <2>2
<1>16. ASSUME NEW k \in p + 1 .. p + 1, NEW j \in 1 .. Len(os[k]), st[k] + j > 1
       PROVE  os[k][j] \in {BLANK, CLOSE}
  <2>1. k = p + 1 /\ st[k] \in Int /\ Len(os[k]) \in Nat
    BY <1>7, <1>11
  <2>2. PICK c \in Nat : c = 1 - st[k]
    BY <1>10, <2>1
  <2>3. NonBlanks(os[k], c) = NonBlanks(os[k], Len(os[k])) /\ j > c
    BY <1>10, <1>12, <1>16, <2>1, <2>2
  <2>4. os[k][j] = BLANK
    BY <2>1, <2>3, BlanksBehind
  <2> QED
    BY <2>4
<1>17. \E later \in [1 .. Len(sent') -> Int] : InStream(later)'
  <2>1. PICK q : q = p + 1
    OBVIOUS
  <2>2. q \in Len(pushed) .. Len(sent) /\ q = Len(pushed)'
    BY <1>1, <1>5, <1>6, <1>11, <2>1 DEF TypeOK
  <2>3. \A k \in q + 1 .. Len(sent) : st[k] >= 1
    BY <1>5, <1>6, <1>15, <2>1
  <2>4. \A k \in Len(pushed) + 1 .. q : \A j \in 1 .. Len(sent[k]) :
          st[k] + j > 1 => sent[k][j] \in {BLANK, CLOSE}
    BY <1>5, <1>16, <2>1
  <2> QED
    BY <1>1, <1>3, <1>4, <2>2, <2>3, <2>4, ChunkDropped
<1> QED
  BY <1>14, <1>17

\* A closing brace that no object has ends the scan of a chunk which had only blanks
\* behind it.
LEMMA PacketErrorInOrder ==
  ASSUME TypeOK, TypeOK', ObjectsOnly, StreamInv, PacketError
  PROVE  StreamInv'
<1> SUFFICES ASSUME clean'
             PROVE  InOrder' /\ \E st \in [1 .. Len(sent') -> Int] : InStream(st)'
  BY DEF StreamInv
<1> DEFINE b == Head(msg)
<1>1. /\ msg # <<>> /\ b # BLANK /\ Opened(b) < Closed(b) /\ pushed' = pushed
      /\ nData' = <<>> /\ ocnt' = 0 /\ ccnt' = 0 /\ msg' = <<>>
      /\ wire' = wire /\ sent' = sent
      /\ clean /\ ToSet(Tail(msg)) \subseteq {BLANK}
  BY DEF PacketError, Reset, Break
<1>2. InOrder'
  BY <1>1 DEF StreamInv, InOrder
<1>3. PICK st \in [1 .. Len(sent) -> Int] : InStream(st)
  BY <1>1 DEF StreamInv
<1>4. Len(pushed) <= Len(sent) /\ Len(pushed) \in Nat /\ Len(sent) \in Nat
  BY <1>1 DEF StreamInv, InOrder, TypeOK
<1>5. b \in Byte
  BY <1>1 DEF TypeOK
<1>6. ~(Opened(b) >= Closed(b))
  BY <1>1, <1>5, Counts
<1>7. \A k \in Len(pushed) + 1 .. Len(sent) : st[k] >= 1
  BY <1>1, <1>3, <1>4, <1>6, NextStored
<1> HIDE DEF b
<1>8. PICK q : q = Len(pushed)
  OBVIOUS
<1>9. q \in Len(pushed) .. Len(sent) /\ q = Len(pushed)'
  BY <1>1, <1>4, <1>8
<1>10. \A k \in Len(pushed) + 1 .. q : \A j \in 1 .. Len(sent[k]) :
         st[k] + j > 1 => sent[k][j] \in {BLANK, CLOSE}
  BY <1>4, <1>8
<1>11. \E later \in [1 .. Len(sent') -> Int] : InStream(later)'
  BY <1>1, <1>3, <1>4, <1>7, <1>8, <1>9, <1>10, ChunkDropped
<1> QED
  BY <1>2, <1>11

\* Braces that meet in a buffer that does not begin with an opening one are never
\* those of an object: something else was received.
LEMMA NotPushInOrder ==
  ASSUME TypeOK, ObjectsOnly, StreamInv, NotPush
  PROVE  StreamInv'
<1> SUFFICES ASSUME clean PROVE FALSE
  BY DEF StreamInv, NotPush, Break
<1> DEFINE b == Head(msg)
<1>1. msg # <<>> /\ b # BLANK /\ Balanced(b) /\ Stored(b)[1] # OPEN
  BY DEF NotPush
<1>2. PICK st \in [1 .. Len(sent) -> Int] : InStream(st)
  BY DEF StreamInv
<1>3. Len(pushed) <= Len(sent) /\ Len(pushed) \in Nat /\ Len(sent) \in Nat
  BY DEF StreamInv, InOrder, TypeOK
<1>4. PICK o, t, i : o = sent[Len(pushed) + 1] /\ t = Stripped(o) /\ i = Got(sent, st, Len(pushed) + 1)
  OBVIOUS
<1>5. Opened(b) > 0
  BY <1>1 DEF Balanced
<1>6. /\ Len(pushed) < Len(sent) /\ i \in 0 .. Len(t) - 1
      /\ Stored(b) = Cut(SubSeq(t, 1, i + 1)) /\ i + 1 = Len(t)
  BY <1>1, <1>2, <1>3, <1>4, <1>5, NextStored
<1> HIDE DEF b
<1>7. /\ Len(o) \in Nat /\ t # <<>> /\ t[1] = OPEN
  <2>1. Len(pushed) + 1 \in 1 .. Len(sent)
    BY <1>3, <1>6
  <2> QED
    BY <1>4, <2>1, ObjectsSent
<1>8. PICK Bytes : t \in Seq(Bytes)
  BY <1>4, <1>7, StrippedBytes
<1>9. Cut(t)[1] = OPEN
  <2>1. BufSize \in Nat /\ BufSize >= 3
    BY FramingAssumption
  <2>2. CASE Len(t) < BufSize
    BY <1>7, <2>2 DEF Cut
  <2>3. CASE ~(Len(t) < BufSize)
    <3>1. PICK u : u = SubSeq(t, 1, BufSize - 2)
      OBVIOUS
    <3>2. u \in Seq(Bytes) /\ Len(u) >= 1 /\ u[1] = t[1] /\ t[Len(t)] \in Bytes
      BY <1>7, <1>8, <2>1, <2>3, <3>1
    <3>3. Append(u, t[Len(t)])[1] = t[1]
      BY <3>2
    <3> QED
      BY <1>7, <2>3, <3>1, <3>3 DEF Cut
  <2> QED
    BY <2>2, <2>3
<1>10. SubSeq(t, 1, i + 1) = t
  BY <1>6, <1>8
<1> QED
  BY <1>1, <1>6, <1>9, <1>10

\* Before anything is sent there is nothing to be in order.
LEMMA StreamInit == Init => StreamInv
<1> SUFFICES ASSUME Init PROVE InOrder /\ \E st \in [1 .. Len(sent) -> Int] : InStream(st)
  BY DEF StreamInv
<1>1. /\ wire = <<>> /\ msg = <<>> /\ nData = <<>> /\ ocnt = 0 /\ ccnt = 0
      /\ pushed = <<>> /\ sent = <<>>
  BY DEF Init
<1>2. InOrder
  BY <1>1 DEF InOrder
<1>3. PICK st \in [1 .. Len(sent) -> Int] : TRUE
  <2>1. [k \in 1 .. Len(sent) |-> 0] \in [1 .. Len(sent) -> Int]
    OBVIOUS
  <2> QED
    BY <2>1, Zenon
<1>4. Lies(sent, Len(pushed), st, msg \o wire)
  <2>1. msg \o wire = <<>> /\ Len(sent) = 0 /\ Len(pushed) = 0
    BY <1>1
  <2> QED
    BY <2>1 DEF Lies
<1>5. Awaited(sent, Len(pushed), st)
  BY <1>1 DEF Awaited
<1>6. Tracked(sent, Len(pushed), st)
  <2>1. Holds(<<>>, 0) /\ ~(Len(pushed) < Len(sent))
    <3>1. Holds(<<>>, 0)
      <4>1. <<>> \in Seq(Byte) /\ nData = <<>> /\ ocnt = 0 /\ ccnt = 0
        BY <1>1
      <4> QED
        BY <4>1, HoldsNothing, Zenon
    <3>2. ~(Len(pushed) < Len(sent))
      BY <1>1
    <3> QED
      BY <3>1, <3>2
  <2> QED
    BY <2>1 DEF Tracked
<1> QED
  BY <1>2, <1>4, <1>5, <1>6 DEF InStream

-----------------------------------------------------------------------------
(* The theorems.                                                           *)

\* The inductive invariant: types, brace counts and the ends of what is queued.
THEOREM FramingInvariant == Spec => []FramingInv
<1>1. Init => FramingInv
  BY FramingInit
<1>2. FramingInv /\ [Next]_vars => FramingInv'
  <2> SUFFICES ASSUME FramingInv, [Next]_vars PROVE FramingInv'
    OBVIOUS
  <2>1. ASSUME NEW o \in Object, SendObject(o) PROVE FramingInv'
    BY <2>1, SendObjectKeeps
  <2>2. ASSUME NEW s \in Junk, SendJunk(s) PROVE FramingInv'
    BY <2>2, SendJunkKeeps
  <2>3. CASE Read
    BY <2>3, ReadKeeps
  <2>4. CASE Skip
    BY <2>4, SkipKeeps
  <2>5. CASE Store
    BY <2>5, StoreKeeps
  <2>6. CASE Push
    BY <2>6, PushKeeps
  <2>7. CASE NotPush
    BY <2>7, NotPushKeeps
  <2>8. CASE PacketError
    BY <2>8, PacketErrorKeeps
  <2>9. CASE UNCHANGED vars
    BY <2>9 DEF vars, buffer, FramingInv, TypeOK, OpenObjectUnfinished, FramedByBraces,
      BufferCounted, WholeWhenShort
  <2> QED
    BY <2>1, <2>2, <2>3, <2>4, <2>5, <2>6, <2>7, <2>8, <2>9 DEF Next, Scan
<1> QED
  BY <1>1, <1>2, PTL DEF Spec

\* The reassembly buffer never overflows and every variable keeps its type.
THEOREM Typed == Spec => []TypeOK
<1>1. FramingInv => TypeOK
  BY DEF FramingInv
<1> QED
  BY <1>1, FramingInvariant, PTL

\* Whatever the peer sends and however it is cut into reads, the scan never has a
\* completed object, or a surplus closing brace, left in the buffer.
THEOREM Unfinished == Spec => []OpenObjectUnfinished
<1>1. FramingInv => OpenObjectUnfinished
  BY DEF FramingInv
<1> QED
  BY <1>1, FramingInvariant, PTL

\* Every queued packet begins with an opening and ends with a closing brace, even
\* one that was cut because it filled the buffer; one that did not fill it is a
\* balanced object whose braces match at its end and nowhere before.
THEOREM PacketsAreObjects == Spec => []PushedAreObjects
<1>1. FramingInv => PushedAreObjects
  BY DEF FramingInv, FramedByBraces, Framed, WholeWhenShort, PushedAreObjects
<1> QED
  BY <1>1, FramingInvariant, PTL

\* The inductive invariant of the order: when the peer sends objects and between them
\* nothing that opens one, the objects not queued lie one behind the other in what was
\* not scanned, and the buffer holds what was scanned of the first of them.
THEOREM StreamInvariant ==
  ASSUME ObjectsOnly
  PROVE  Spec => [](FramingInv /\ StreamInv)
<1>1. Init => StreamInv
  BY StreamInit
<1>2. FramingInv /\ FramingInv' /\ StreamInv /\ [Next]_vars => StreamInv'
  <2> SUFFICES ASSUME FramingInv, FramingInv', StreamInv, [Next]_vars PROVE StreamInv'
    OBVIOUS
  <2>1. TypeOK /\ TypeOK' /\ ObjectsOnly
    BY DEF FramingInv
  <2>2. ASSUME NEW o \in Object, SendObject(o) PROVE StreamInv'
    BY <2>1, <2>2, SendObjectInOrder
  <2>3. ASSUME NEW s \in Junk, SendJunk(s) PROVE StreamInv'
    BY <2>1, <2>3, SendJunkInOrder
  <2>4. CASE Read
    BY <2>1, <2>4, ReadInOrder
  <2>5. CASE Skip
    BY <2>1, <2>5, SkipInOrder
  <2>6. CASE Store
    BY <2>1, <2>6, StoreInOrder
  <2>7. CASE Push
    BY <2>1, <2>7, PushInOrder
  <2>8. CASE NotPush
    BY <2>1, <2>8, NotPushInOrder
  <2>9. CASE PacketError
    BY <2>1, <2>9, PacketErrorInOrder
  <2>10. CASE UNCHANGED vars
    <3>1. UNCHANGED <<wire, msg, nData, ocnt, ccnt, pushed, sent, clean>>
      BY <2>10 DEF vars, buffer
    <3> QED
      BY <3>1 DEF StreamInv, InOrder, InStream, Tracked, Holds
  <2> QED
    BY <2>2, <2>3, <2>4, <2>5, <2>6, <2>7, <2>8, <2>9, <2>10 DEF Next, Scan
<1> QED
  BY <1>1, <1>2, FramingInvariant, PTL DEF Spec

\* Whatever the reads, the objects of a peer that sends nothing else that opens one are
\* queued in the order in which it sent them, none twice and none left out, each without
\* its blanks and cut only where the buffer is too small for it, as long as nothing was
\* dropped from a chunk.
THEOREM ObjectsQueuedInOrder ==
  ASSUME ObjectsOnly
  PROVE  Spec => []QueuedInOrder
<1>1. FramingInv /\ StreamInv => QueuedInOrder
  <2> SUFFICES ASSUME FramingInv, StreamInv, clean
               PROVE  IsPrefix(pushed, [k \in 1 .. Len(sent) |-> Cut(Stripped(sent[k]))])
    BY DEF QueuedInOrder
  <2>1. InOrder /\ Len(sent) \in Nat /\ Len(pushed) \in Nat
    BY DEF StreamInv, FramingInv, TypeOK
  <2>2. PICK n \in Nat, p \in Nat : n = Len(sent) /\ p = Len(pushed) /\ p <= n
    BY <2>1 DEF InOrder
  <2>3. PICK s : s = [k \in 1 .. n |-> Cut(Stripped(sent[k]))]
    OBVIOUS
  <2>4. /\ \E T : s \in Seq(T)
        /\ Len(s) = n /\ \A k \in 1 .. n : s[k] = Cut(Stripped(sent[k]))
    <3> DEFINE C(k) == Cut(Stripped(sent[k]))
    <3>1. s = [k \in 1 .. n |-> C(k)]
      BY <2>3
    <3> HIDE DEF C
    <3>2. s \in Seq({C(k) : k \in 1 .. n}) /\ Len(s) = n /\ \A k \in 1 .. n : s[k] = C(k)
      BY <3>1
    <3> QED
      BY <3>2 DEF C
  <2>5. \A k \in 1 .. p : pushed[k] = s[k]
    BY <2>1, <2>2, <2>4 DEF InOrder
  <2>6. SubSeq(pushed, 1, p) = SubSeq(s, 1, p)
    BY <2>2, <2>4, <2>5
  <2> QED
    BY <2>2, <2>3, <2>4, <2>6 DEF IsPrefix
<1> QED
  BY <1>1, StreamInvariant, PTL

\* When such a peer's bytes have all been scanned every object it sent has been queued,
\* and the buffer is empty, ready for the next one.
THEOREM AtRestNothingIsLeft ==
  ASSUME ObjectsOnly
  PROVE  Spec => []ResynchronisedAtRest
<1>1. FramingInv /\ StreamInv => ResynchronisedAtRest
  <2> SUFFICES ASSUME FramingInv, StreamInv, clean, Quiescent
               PROVE  Len(pushed) = Len(sent) /\ nData = <<>>
    BY DEF ResynchronisedAtRest
  <2>1. InOrder /\ Len(sent) \in Nat /\ Len(pushed) \in Nat /\ Len(pushed) <= Len(sent)
    BY DEF StreamInv, FramingInv, TypeOK, InOrder
  <2>2. PICK st \in [1 .. Len(sent) -> Int] : InStream(st)
    BY DEF StreamInv
  <2>3. msg \o wire = <<>>
    BY DEF Quiescent
  <2>4. Len(pushed) = Len(sent)
    <3> SUFFICES ASSUME Len(pushed) < Len(sent) PROVE FALSE
      BY <2>1
    <3>1. PICK k : k = Len(pushed) + 1
      OBVIOUS
    <3>2. k \in Len(pushed) + 1 .. Len(sent)
      BY <2>1, <3>1
    <3>3. st[k] + Len(sent[k]) <= 0
      BY <2>2, <2>3, <3>2 DEF InStream, Lies
    <3>4. st[k] + Len(sent[k]) >= 1
      BY <2>2, <3>2 DEF InStream, Awaited
    <3>5. st[k] \in Int /\ Len(sent[k]) \in Nat
      <4>1. k \in 1 .. Len(sent)
        BY <2>1, <3>2
      <4>2. TypeOK
        BY DEF FramingInv
      <4> QED
        BY <4>1, <4>2, ObjectsSent
    <3> QED
      BY <3>3, <3>4, <3>5
  <2>5. Holds(<<>>, 0) /\ <<>> \in Seq(Byte)
    BY <2>1, <2>2, <2>4 DEF InStream, Tracked
  <2> QED
    BY <2>4, <2>5, HoldsNothing
<1> QED
  BY <1>1, StreamInvariant, PTL
=============================================================================
