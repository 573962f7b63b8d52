-------------------------- MODULE SensorBoardsProofs --------------------------
(***************************************************************************)
(* Proofs about SensorBoards, for any boards and sizes and whatever is     *)
(* lost: the values of a node are those of its own board, and soon after   *)
(* the gateway is back none of them is older than the last answer.         *)
(***************************************************************************)
EXTENDS SensorBoards, WellFoundedInduction, SequenceTheorems, TLAPS

-----------------------------------------------------------------------------
(* Least elements, and sequences of sequences.                             *)

\* A non-empty set of naturals has a least element.
LEMMA LeastOf ==
  ASSUME NEW S \in SUBSET Nat, S # {}
  PROVE  \E m \in S : \A k \in S : m <= k
<1> DEFINE R == OpToRel(<, Nat)
<1>1. IsWellFoundedOn(R, Nat)
  BY NatLessThanWellFounded
<1>2. \A b, c \in Nat : c < b => <<c, b>> \in R
  BY DEF OpToRel
<1> HIDE DEF R
<1>3. PICK m \in S : \A k \in S : <<k, m>> \notin R
  BY <1>1, WFMin
<1>4. ASSUME NEW k \in S PROVE m <= k
  <2>1. m \in Nat /\ k \in Nat
    OBVIOUS
  <2>2. ~(k < m)
    BY <1>2, <1>3, <2>1
  <2> QED
    BY <2>1, <2>2
<1> QED
  BY <1>4

\* f[i] is the first i sequences of seqs one behind the other.
Flattens(f, seqs, m) ==
  f = [i \in 1 .. m |-> IF i = 1 THEN seqs[i] ELSE f[i - 1] \o seqs[i]]

\* Such a function exists, however many sequences there are.
LEMMA FlattenExists ==
  ASSUME NEW seqs, NEW n \in Nat \ {0}
  PROVE  \E f : Flattens(f, seqs, n)
<1> SUFFICES ASSUME ~ \E f : Flattens(f, seqs, n) PROVE FALSE
  OBVIOUS
<1> DEFINE Bad == {m \in Nat \ {0} : ~ \E f : Flattens(f, seqs, m)}
<1>1. PICK m \in Bad : \A k \in Bad : m <= k
  <2>1. Bad \in SUBSET Nat /\ Bad # {}
    OBVIOUS
  <2> QED
    BY <2>1, LeastOf
<1>2. CASE m = 1
  <2>1. Flattens([i \in 1 .. 1 |-> seqs[i]], seqs, 1)
    BY DEF Flattens
  <2> QED
    BY <1>1, <1>2, <2>1
<1>3. CASE m # 1
  <2>1. m - 1 \in Nat \ {0} /\ m - 1 \notin Bad
    BY <1>1, <1>3
  <2>2. PICK f : Flattens(f, seqs, m - 1)
    BY <2>1
  <2> DEFINE g == [i \in 1 .. m |-> IF i = m THEN f[m - 1] \o seqs[m] ELSE f[i]]
  <2>3. ASSUME NEW i \in 1 .. m
        PROVE  g[i] = IF i = 1 THEN seqs[i] ELSE g[i - 1] \o seqs[i]
    <3>1. CASE i = m
      <4>1. m \in 1 .. m /\ m - 1 \in 1 .. m /\ m - 1 # m
        BY <2>1
      <4>2. g[m] = f[m - 1] \o seqs[m]
        BY <4>1, Zenon
      <4>3. g[m - 1] = f[m - 1]
        BY <4>1, Zenon
      <4> QED
        BY <1>3, <3>1, <4>2, <4>3, Zenon
    <3>2. CASE i # m
      <4>1. i \in 1 .. m - 1 /\ g[i] = f[i] /\ (i # 1 => g[i - 1] = f[i - 1])
        BY <2>1, <3>2
      <4>2. f[i] = IF i = 1 THEN seqs[i] ELSE f[i - 1] \o seqs[i]
        BY <2>2, <4>1 DEF Flattens
      <4> QED
        BY <4>1, <4>2
    <3> QED
      BY <3>1, <3>2
  <2>4. DOMAIN g = 1 .. m /\ g = [i \in 1 .. m |-> g[i]]
    OBVIOUS
  <2> HIDE DEF g
  <2>5. Flattens(g, seqs, m)
    BY <2>3, <2>4 DEF Flattens
  <2> QED
    BY <1>1, <2>5
<1> QED
  BY <1>2, <1>3

\* f[i] is the first i sequences of seqs one behind the other: of sequences of such elements it
\* is one.
LEMMA PrefixType ==
  ASSUME NEW Elems, NEW seqs \in Seq(Seq(Elems)), NEW m \in 0 .. Len(seqs), NEW f,
         Flattens(f, seqs, m)
  PROVE  \A i \in 1 .. m : f[i] \in Seq(Elems)
<1> SUFFICES ASSUME ~ \A i \in 1 .. m : f[i] \in Seq(Elems) PROVE FALSE
  OBVIOUS
<1> DEFINE Bad == {i \in 1 .. m : f[i] \notin Seq(Elems)}
<1>1. PICK i \in Bad : \A k \in Bad : i <= k
  <2>1. Bad \in SUBSET Nat /\ Bad # {}
    OBVIOUS
  <2> QED
    BY <2>1, LeastOf
<1>2. f[i] = IF i = 1 THEN seqs[i] ELSE f[i - 1] \o seqs[i]
  BY DEF Flattens
<1>3. seqs[i] \in Seq(Elems)
  OBVIOUS
<1>4. i # 1 => f[i - 1] \in Seq(Elems)
  BY <1>1
<1>5. f[i] \notin Seq(Elems)
  OBVIOUS
<1>6. CASE i = 1
  BY <1>2, <1>3, <1>5, <1>6
<1>7. CASE i # 1
  <2>1. f[i] = f[i - 1] \o seqs[i] /\ f[i - 1] \in Seq(Elems)
    BY <1>2, <1>4, <1>7
  <2> QED
    BY <1>3, <1>5, <2>1
<1> QED
  BY <1>6, <1>7

\* FlattenSeq is the last of them.
LEMMA FlattenIs ==
  ASSUME NEW seqs, Len(seqs) \in Nat, Len(seqs) # 0
  PROVE  \E f : Flattens(f, seqs, Len(seqs)) /\ FlattenSeq(seqs) = f[Len(seqs)]
<1> DEFINE n == Len(seqs)
           f == CHOOSE h : Flattens(h, seqs, n)
<1>1. FlattenSeq(seqs) = f[n]
  BY Zenon DEF FlattenSeq, Flattens
<1>2. Flattens(f, seqs, n)
  BY FlattenExists
<1> QED
  BY <1>1, <1>2

\* Sequences of such elements one behind the other are a sequence of them.
LEMMA FlattenType ==
  ASSUME NEW Elems, NEW seqs \in Seq(Seq(Elems))
  PROVE  FlattenSeq(seqs) \in Seq(Elems)
<1> DEFINE n == Len(seqs)
<1>1. CASE n = 0
  BY <1>1 DEF FlattenSeq
<1>2. CASE n # 0
  <2>1. PICK f : Flattens(f, seqs, n) /\ FlattenSeq(seqs) = f[n]
    BY <1>2, FlattenIs
  <2>2. n \in 0 .. Len(seqs) /\ n \in 1 .. n
    BY <1>2
  <2> QED
    BY <2>1, <2>2, PrefixType
<1> QED
  BY <1>1, <1>2

\* What the first sequence adds comes in front of the others.
LEMMA FlattenHead ==
  ASSUME NEW Elems, NEW seqs \in Seq(Seq(Elems)), seqs # <<>>
  PROVE  FlattenSeq(seqs) = Head(seqs) \o FlattenSeq(Tail(seqs))
<1> DEFINE n == Len(seqs)
<1>1. n \in Nat /\ n # 0 /\ Tail(seqs) \in Seq(Seq(Elems)) /\ Len(Tail(seqs)) = n - 1
  OBVIOUS
<1>2. PICK f : Flattens(f, seqs, n) /\ FlattenSeq(seqs) = f[n]
  BY <1>1, FlattenIs
<1>3. PICK ts \in Seq(Seq(Elems)) : ts = Tail(seqs)
  BY <1>1
<1>4. seqs[1] \in Seq(Elems) /\ Head(seqs) = seqs[1] /\ f[1] = seqs[1]
  <2>1. f[1] = seqs[1]
    BY <1>1, <1>2 DEF Flattens
  <2> QED
    BY <1>1, <2>1
<1>5. CASE n = 1
  <2>1. ts = <<>>
    BY <1>1, <1>3, <1>5
  <2>2. FlattenSeq(ts) = <<>>
    BY <2>1 DEF FlattenSeq
  <2> QED
    BY <1>2, <1>3, <1>4, <1>5, <2>2
<1>6. CASE n # 1
  <2>1. Len(ts) = n - 1 /\ n - 1 \in Nat /\ n - 1 # 0
    BY <1>1, <1>3, <1>6
  <2>2. PICK g : Flattens(g, ts, n - 1) /\ FlattenSeq(ts) = g[n - 1]
    BY <2>1, FlattenIs
  <2>3. \A i \in 1 .. n - 1 : g[i] \in Seq(Elems)
    <3>1. PICK m \in 0 .. Len(ts) : m = n - 1
      BY <2>1
    <3>2. \A i \in 1 .. m : g[i] \in Seq(Elems)
      BY <2>2, <3>1, PrefixType
    <3> QED
      BY <3>1, <3>2
  <2>4. PICK m \in Nat : m = n - 1
    BY <2>1
  <2> DEFINE Wrong(i) == f[i + 1] # seqs[1] \o g[i]
             Bad == {i \in 1 .. m : Wrong(i)}
  <2> HIDE DEF Wrong
  <2>5. Bad = {}
    <3> SUFFICES ASSUME Bad # {} PROVE FALSE
      OBVIOUS
    <3>1. PICK i \in Bad : \A k \in Bad : i <= k
      <4>1. Bad \in SUBSET Nat
        OBVIOUS
      <4> QED
        BY <4>1, LeastOf
    <3>2. i \in 1 .. n - 1 /\ i \in Nat /\ i + 1 \in 1 .. n /\ i + 1 # 1 /\ (i + 1) - 1 = i
      BY <1>1, <2>4
    <3>3. f[i + 1] = f[i] \o seqs[i + 1]
      BY <1>2, <3>2 DEF Flattens
    <3>4. g[i] = IF i = 1 THEN ts[i] ELSE g[i - 1] \o ts[i]
      BY <2>2, <3>2 DEF Flattens
    <3>5. ts[i] = seqs[i + 1] /\ ts[i] \in Seq(Elems)
      BY <1>1, <1>3, <2>1, <3>2
    <3>6. CASE i = 1
      BY <1>4, <3>1, <3>3, <3>4, <3>5, <3>6 DEF Wrong
    <3>7. CASE i # 1
      <4>1. i - 1 \in 1 .. n - 1 /\ (i - 1) + 1 = i
        BY <1>1, <3>2, <3>7
      <4>2. f[i] = seqs[1] \o g[i - 1]
        <5>1. i - 1 \notin Bad
          BY <3>1, <3>2
        <5>2. PICK k : k = i - 1
          OBVIOUS
        <5>3. k \in 1 .. m /\ k \notin Bad /\ k + 1 = i
          BY <2>4, <4>1, <5>1, <5>2
        <5>4. f[k + 1] = seqs[1] \o g[k]
          BY <5>3 DEF Wrong
        <5> QED
          BY <5>2, <5>3, <5>4
      <4>3. g[i - 1] \in Seq(Elems)
        BY <2>3, <4>1
      <4>4. PICK a \in Seq(Elems), b \in Seq(Elems), c \in Seq(Elems) :
              a = seqs[1] /\ b = g[i - 1] /\ c = ts[i]
        BY <1>4, <3>5, <4>3
      <4>5. (a \o b) \o c = a \o (b \o c)
        OBVIOUS
      <4>6. f[i + 1] = seqs[1] \o g[i]
        BY <3>3, <3>4, <3>5, <3>7, <4>2, <4>4, <4>5
      <4> QED
        BY <4>6 DEF Wrong
    <3> QED
      BY <3>6, <3>7
  <2>6. m \in 1 .. m /\ m + 1 = n
    BY <1>1, <2>1, <2>4
  <2>7. f[m + 1] = seqs[1] \o g[m]
    BY <2>5, <2>6 DEF Wrong
  <2> QED
    BY <1>2, <1>3, <1>4, <2>2, <2>6, <2>7, <2>4
<1> QED
  BY <1>5, <1>6

-----------------------------------------------------------------------------
(* The boards of TTA12daemon, whose model is SensorBoards.                 *)

\* A board is asked for what can be asked.
LEMMA RequestsOfBoard ==
  ASSUME NEW b \in DOMAIN Boards
  PROVE  Requests(Boards[b]) \in Seq(Ids)
<1> DEFINE reqs == Requests(Boards[b])
<1>1. \E Elems : reqs \in Seq(Elems)
  <2> DEFINE c == Boards[b].canid
             lo == [c EXCEPT !.data = "adclo"]
             hi == [c EXCEPT !.data = "adchi"]
  <2>1. reqs \in {<<lo, hi>>, <<c>>, <<>>}
    BY DEF Requests
  <2> HIDE DEF c, lo, hi
  <2>2. <<lo, hi>> \in Seq({lo, hi, c}) /\ <<c>> \in Seq({lo, hi, c}) /\ <<>> \in Seq({lo, hi, c})
    OBVIOUS
  <2>3. reqs \in Seq({lo, hi, c})
    BY <2>1, <2>2
  <2> QED
    BY <2>3
<1>2. \A k \in 1 .. Len(reqs) : reqs[k] \in Ids
  BY <1>1 DEF Ids, ToSet
<1> QED
  BY <1>1, <1>2

\* The requests of the boards, and their number.
LEMMA RequestsMade ==
  ASSUME BoardsAndTimes
  PROVE  AllRequests \in Seq(Ids) /\ Len(AllRequests) \in Nat
<1> DEFINE all == [b \in DOMAIN Boards |-> Requests(Boards[b])]
<1>1. DOMAIN Boards = 1 .. Len(Boards) /\ Len(Boards) \in Nat
  BY DEF BoardsAndTimes
<1>2. all \in Seq(Seq(Ids))
  <2>1. all \in [1 .. Len(Boards) -> Seq(Ids)]
    BY <1>1, RequestsOfBoard
  <2> QED
    BY <1>1, <2>1
<1>3. AllRequests \in Seq(Ids)
  BY <1>2, FlattenType DEF AllRequests, RequestsOf, FlattenSeq, FlattenSeq
<1> QED
  BY <1>3

\* Timer_handler is at a request or behind the last one.
TimerTypes == timer \in [next : Nat \ {0}, sleep : Int, delay : Nat]

\* A tick of Timer_handler leaves it at a request or behind the last one.
LEMMA TimerKeeps ==
  ASSUME BoardsAndTimes, TimerTypes, Timer
  PROVE  TimerTypes'
<1>1. PICK n \in Nat \ {0}, s \in Int, d \in Nat : timer = [next |-> n, sleep |-> s, delay |-> d]
  BY DEF TimerTypes
<1>2. CASE Poll
  <2>1. timer' = [next |-> n + 1, sleep |-> s, delay |-> d + 1]
    BY <1>1, <1>2 DEF Poll
  <2> QED
    BY <2>1 DEF TimerTypes
<1>3. CASE EndRound
  <2>1. timer' = [next |-> 1, sleep |-> Sleep(d), delay |-> 0]
    BY <1>1, <1>3 DEF EndRound
  <2>2. Sleep(d) \in Int
    BY DEF Sleep, BoardsAndTimes
  <2> QED
    BY <2>1, <2>2 DEF TimerTypes
<1>4. CASE SleepSlot
  <2>1. timer' = [next |-> n, sleep |-> s - 1, delay |-> d]
    BY <1>1, <1>4 DEF SleepSlot
  <2> QED
    BY <2>1 DEF TimerTypes
<1> QED
  BY <1>2, <1>3, <1>4 DEF Timer

\* The requests that may have been made, and the bytes of their answers.
Requested == {m \in Nat \ {0} : Len(AllRequests) > 0}
Bytes == Requested \X Nat

\* What is on its way answers a request, and what is stored answers one of the node's board.
BoardsInv ==
  /\ driver \in Seq(Bytes) /\ ring \in Seq(Bytes) /\ window \in Seq(Bytes)
  /\ polled.n \in Nat /\ TimerTypes
  /\ shown \in [DOMAIN Boards -> [Kinds -> Nat]]
  /\ \A b \in DOMAIN Boards : \A k \in Kinds : shown[b][k] > 0 => IdOf(shown[b][k]).low = Boards[b].canid.low

\* What a board is asked for has its low byte.
LEMMA LowOfBoard ==
  ASSUME BoardsAndTimes, NEW b \in DOMAIN Boards, NEW id \in ToSet(Requests(Boards[b]))
  PROVE  id.low = Boards[b].canid.low
<1> DEFINE c == Boards[b].canid
           B == [type : 0..3, canid : [data : STRING, low : STRING \X (0..15)]]
<1>1. c \in [data : STRING, low : STRING \X (0..15)]
  <2>1. Boards \in Seq(B)
    BY DEF BoardsAndTimes
  <2> HIDE DEF B
  <2>2. Boards[b] \in B
    BY <2>1
  <2> QED
    BY <2>2 DEF B
<1>2. id = c \/ id = [c EXCEPT !.data = "adclo"] \/ id = [c EXCEPT !.data = "adchi"]
  BY DEF Requests, ToSet
<1> HIDE DEF c
<1>3. id.low = c.low
  BY <1>1, <1>2
<1> QED
  BY <1>3 DEF c

\* An answer is to a request of some board, which has its low byte.
LEMMA BoardOfRequest ==
  ASSUME BoardsAndTimes, NEW m \in Requested
  PROVE  \E b \in DOMAIN Boards : Boards[b].canid.low = IdOf(m).low
<1> DEFINE l == Len(AllRequests)
<1>1. l \in Nat \ {0} /\ m \in Nat \ {0}
  BY RequestsMade DEF Requested
<1>2. ((m - 1) % l) + 1 \in 1 .. l
  BY <1>1
<1>3. IdOf(m) \in Ids
  BY <1>2, RequestsMade DEF IdOf, AllRequests
<1>4. PICK b \in DOMAIN Boards : IdOf(m) \in ToSet(Requests(Boards[b]))
  BY <1>3, Zenon DEF Ids
<1> QED
  BY <1>4, LowOfBoard

\* The node found for an answer is of the board that sent it.
LEMMA NodeOfAnswer ==
  ASSUME BoardsAndTimes, NEW m \in Requested
  PROVE  /\ SearchIndexSensorNode(IdOf(m).low) \in DOMAIN Boards
         /\ Boards[SearchIndexSensorNode(IdOf(m).low)].canid.low = IdOf(m).low
<1> DEFINE known == {n \in DOMAIN Boards : Boards[n].canid.low = IdOf(m).low}
<1>1. known # {} /\ known \in SUBSET Nat
  BY BoardOfRequest DEF BoardsAndTimes
<1>2. SearchIndexSensorNode(IdOf(m).low) = Min(known)
  BY <1>1 DEF SearchIndexSensorNode
<1>3. \E n \in known : \A k \in known : n <= k
  BY <1>1, LeastOf
<1>4. Min(known) \in known
  BY <1>3 DEF Min
<1> QED
  BY <1>2, <1>4

\* A frame's value is stored for the node of its board.
LEMMA StoresValue ==
  ASSUME BoardsAndTimes, BoardsInv, NEW m \in Requested, shown' = SensorValueReadToNode(m)
  PROVE  /\ shown' \in [DOMAIN Boards -> [Kinds -> Nat]]
         /\ \A b \in DOMAIN Boards : \A k \in Kinds : shown'[b][k] > 0 => IdOf(shown'[b][k]).low = Boards[b].canid.low
<1>1. PICK n, d : n = SearchIndexSensorNode(IdOf(m).low) /\ d = IdOf(m).data
  OBVIOUS
<1>2. n \in DOMAIN Boards /\ Boards[n].canid.low = IdOf(m).low /\ m \in Nat
  BY <1>1, NodeOfAnswer DEF Requested
<1>3. shown' = shown \/ shown' = [shown EXCEPT ![n][d] = m]
  BY <1>1 DEF SensorValueReadToNode
<1>4. CASE shown' = shown
  BY <1>4 DEF BoardsInv
<1>5. CASE shown' = [shown EXCEPT ![n][d] = m]
  <2>1. PICK f : f = [shown[n] EXCEPT ![d] = m]
    OBVIOUS
  <2>2. shown' = [shown EXCEPT ![n] = f]
    BY <1>5, <2>1, Zenon
  <2>3. shown \in [DOMAIN Boards -> [Kinds -> Nat]] /\ shown[n] \in [Kinds -> Nat]
    BY <1>2 DEF BoardsInv
  <2>4. f \in [Kinds -> Nat] /\ \A k \in Kinds : f[k] = shown[n][k] \/ f[k] = m
    BY <1>2, <2>1, <2>3
  <2>5. shown' \in [DOMAIN Boards -> [Kinds -> Nat]]
    BY <1>2, <2>2, <2>3, <2>4
  <2>6. ASSUME NEW b \in DOMAIN Boards, NEW k \in Kinds
        PROVE  shown'[b][k] = shown[b][k] \/ (shown'[b][k] = m /\ b = n)
    BY <1>2, <2>2, <2>3, <2>4
  <2> QED
    BY <1>2, <2>5, <2>6 DEF BoardsInv
<1> QED
  BY <1>3, <1>4, <1>5

\* Part of a sequence has the elements of the sequence.
LEMMA PartOf ==
  ASSUME NEW Elems, NEW s \in Seq(Elems), NEW a \in Nat \ {0}, NEW b \in Int, b <= Len(s)
  PROVE  SubSeq(s, a, b) \in Seq(Elems)
  OBVIOUS

\* The window holds bytes of the ring.
LEMMA ShiftedBytes ==
  ASSUME BoardsAndTimes, NEW w \in Seq(Bytes), NEW r \in Seq(Bytes), w = window, r = ring, NEW n \in 0 .. Len(r)
  PROVE  Shifted(n) \in Seq(Bytes)
<1> DEFINE s == w \o SubSeq(r, 1, n)
           e == Len(s) - FrameSize + 1
           a == Max({1, e})
<1>1. s \in Seq(Bytes)
  BY PartOf
<1>2. Len(s) \in Nat /\ FrameSize \in Nat
  BY <1>1 DEF BoardsAndTimes
<1>3. a \in Nat \ {0}
  <2>1. e \in Int
    BY <1>2
  <2> HIDE DEF e
  <2>2. \E x \in {1, e} : \A y \in {1, e} : x >= y
    BY <2>1
  <2>3. a \in {1, e} /\ a >= 1
    BY <2>2 DEF Max
  <2> QED
    BY <2>1, <2>3
<1>4. Shifted(n) = SubSeq(s, a, Len(s))
  BY DEF Shifted
<1> HIDE DEF s, a
<1> QED
  BY <1>1, <1>2, <1>3, <1>4, PartOf

\* Bytes are read up to the first frame or to the end.
LEMMA StreamedWithin ==
  ASSUME ring \in Seq(Bytes)
  PROVE  Streamed \in 0 .. Len(ring)
<1>1. Len(ring) \in Nat
  OBVIOUS
<1>2. CASE Complete = {}
  BY <1>1, <1>2 DEF Streamed
<1>3. CASE Complete # {}
  <2>1. Complete \in SUBSET Nat /\ Complete \subseteq 0 .. Len(ring)
    BY <1>1 DEF Complete
  <2>2. \E n \in Complete : \A k \in Complete : n <= k
    BY <1>3, <2>1, LeastOf
  <2>3. Min(Complete) \in Complete
    BY <2>2 DEF Min
  <2> QED
    BY <1>3, <2>1, <2>3 DEF Streamed
<1> QED
  BY <1>2, <1>3

\* Reading the ring stores a value only with the node whose board sent the frame.
LEMMA StreamingKeeps ==
  ASSUME BoardsAndTimes, BoardsInv, Streaming, UNCHANGED <<driver, polled, timer>>
  PROVE  BoardsInv'
<1>1. PICK n : n = Streamed
  OBVIOUS
<1>2. n \in 0 .. Len(ring)
  BY <1>1, StreamedWithin DEF BoardsInv
<1>3. /\ window' = Shifted(n) /\ ring' = SubSeq(ring, n + 1, Len(ring))
      /\ \/ IsFrame(window') /\ shown' = SensorValueReadToNode(window'[1][1])
         \/ shown' = shown
  BY <1>1 DEF Streaming
<1>4. window' \in Seq(Bytes)
  BY <1>2, <1>3, ShiftedBytes DEF BoardsInv
<1>5. ring' \in Seq(Bytes)
  BY <1>2, <1>3, PartOf DEF BoardsInv
<1>6. /\ shown' \in [DOMAIN Boards -> [Kinds -> Nat]]
      /\ \A b \in DOMAIN Boards : \A k \in Kinds : shown'[b][k] > 0 => IdOf(shown'[b][k]).low = Boards[b].canid.low
  <2>1. CASE IsFrame(window') /\ shown' = SensorValueReadToNode(window'[1][1])
    <3>1. Len(window') = FrameSize
      BY <2>1 DEF IsFrame
    <3>2. 1 \in 1 .. Len(window')
      BY <3>1 DEF BoardsAndTimes
    <3>3. window'[1] \in Bytes
      BY <1>4, <3>2
    <3>4. window'[1][1] \in Requested
      BY <3>3 DEF Bytes
    <3> QED
      BY <2>1, <3>4, StoresValue, Zenon
  <2>2. CASE shown' = shown
    BY <2>2 DEF BoardsInv
  <2> QED
    BY <1>3, <2>1, <2>2
<1> QED
  BY <1>4, <1>5, <1>6 DEF BoardsInv, TimerTypes

\* A request of Timer_handler fills the ring with what its board answers, and the
\* window and the values stay as they are.
LEMMA PollKeeps ==
  ASSUME BoardsAndTimes, BoardsInv, Poll
  PROVE  BoardsInv'
<1> DEFINE m == polled.n + 1
<1>1. m \in Requested
  BY RequestsMade DEF Poll, BoardsInv, Requested, TimerTypes
<1>2. /\ polled'.n = m
      /\ UNCHANGED <<ring, window, shown>>
      /\ \E answer \in {"whole", "none", "torn"} : driver' = Answered(m, answer)
  BY DEF Poll
<1> HIDE DEF m
<1>3. Frame(m) \in Seq(Bytes) /\ Tail(Frame(m)) \in Seq(Bytes)
  <2>1. \A i \in 1 .. FrameSize : <<m, i>> \in Bytes
    BY <1>1 DEF Bytes, BoardsAndTimes
  <2>2. Frame(m) \in Seq(Bytes) /\ Len(Frame(m)) = FrameSize
    BY <2>1 DEF Frame, BoardsAndTimes
  <2>3. Frame(m) # <<>>
    BY <2>2 DEF BoardsAndTimes
  <2> QED
    BY <2>2, <2>3
<1>4. driver' \in Seq(Bytes)
  BY <1>2, <1>3 DEF Answered, BoardsInv
<1>5. TimerTypes'
  BY TimerKeeps DEF BoardsInv, Timer
<1>6. polled'.n \in Nat
  BY <1>1, <1>2 DEF Requested
<1> QED
  BY <1>2, <1>4, <1>5, <1>6 DEF BoardsInv

\* Every step keeps the bytes and the values so.
LEMMA BoardsKept ==
  ASSUME BoardsAndTimes, BoardsInv, [Next]_vars
  PROVE  BoardsInv'
<1>1. CASE Poll
  BY <1>1, PollKeeps
<1>2. CASE EndRound \/ SleepSlot
  <2>1. UNCHANGED <<polled, driver, ring, window, shown>>
    BY <1>2, Zenon DEF EndRound, SleepSlot
  <2>2. TimerTypes'
    BY <1>2, TimerKeeps DEF BoardsInv, Timer
  <2> QED
    BY <2>1, <2>2 DEF BoardsInv, TimerTypes
<1>3. CASE Move
  <2>1. UNCHANGED <<timer, polled, window, shown>> /\ driver' = <<>>
    BY <1>3 DEF Move
  <2>2. ring' \in Seq(Bytes)
    <3>1. PICK r : r = Room
      OBVIOUS
    <3>2. r \in Int /\ Len(driver) \in Nat
      BY <3>1 DEF Room, BoardsInv, BoardsAndTimes
    <3>3. PICK x : x = Min({Len(driver), r})
      OBVIOUS
    <3>4. x \in Int /\ x <= Len(driver)
      BY <3>2, <3>3 DEF Min
    <3>5. driver \in Seq(Bytes) /\ ring \in Seq(Bytes)
      BY DEF BoardsInv
    <3>6. SubSeq(driver, 1, x) \in Seq(Bytes)
      BY <3>4, <3>5
    <3>7. ring' = ring \o SubSeq(driver, 1, x)
      BY <1>3, <3>1, <3>3 DEF Move
    <3> QED
      BY <3>5, <3>6, <3>7
  <2> QED
    BY <2>1, <2>2 DEF BoardsInv, TimerTypes
<1>4. CASE Streaming /\ UNCHANGED <<driver, polled, timer>>
  BY <1>4, StreamingKeeps
<1>5. CASE UNCHANGED <<driver, polled, timer, window, ring, shown>>
  BY <1>5 DEF BoardsInv, TimerTypes
<1>6. CASE Startup \/ Iterate
  BY <1>4, <1>5, <1>6, Zenon DEF Startup, Iterate
<1>7. CASE ConnectionEnds \/ UNCHANGED vars
  BY <1>5, <1>7, Zenon DEF ConnectionEnds, vars
<1> QED
  BY <1>1, <1>2, <1>3, <1>6, <1>7, Zenon DEF Next

\* For any boards and answers and however often bytes were dropped, the values of a node are those
\* of its own board.
THEOREM OfItsBoard ==
  ASSUME BoardsAndTimes
  PROVE  Spec => []ValuesOfItsBoard
<1>1. Init => BoardsInv
  <2> SUFFICES ASSUME Init PROVE BoardsInv
    OBVIOUS
  <2>1. /\ timer = [next |-> 1, sleep |-> 0, delay |-> 0] /\ polled.n = 0
        /\ driver = <<>> /\ ring = <<>> /\ window = <<>>
        /\ shown = [n \in DOMAIN Boards |-> [k \in Kinds |-> 0]]
    BY DEF Init, Kinds
  <2> QED
    BY <2>1 DEF BoardsInv, TimerTypes
<1>2. BoardsInv /\ [Next]_vars => BoardsInv'
  BY BoardsKept
<1>3. BoardsInv => ValuesOfItsBoard
  BY DEF BoardsInv, ValuesOfItsBoard
<1> QED
  BY <1>1, <1>2, <1>3, PTL DEF Spec

-----------------------------------------------------------------------------
(* How old the values of the boards are.  The bytes lie in a line: those   *)
(* of the window, then those of the ring, then those of the driver.  Every *)
(* calm slot takes a frame more out of the ring than comes in, so that in  *)
(* the end nothing old is left in it, and from then on nothing is dropped. *)

\* Part of a sequence, place by place.
LEMMA Slice ==
  ASSUME NEW Elems, NEW s \in Seq(Elems), NEW a \in Nat \ {0}, NEW b \in Nat, b <= Len(s), NEW k \in Nat, k = b - a + 1
  PROVE  /\ SubSeq(s, a, b) \in Seq(Elems) /\ Len(SubSeq(s, a, b)) = k
         /\ \A i \in 1 .. k : SubSeq(s, a, b)[i] = s[a + i - 1]
<1>1. \A i \in a .. b : s[i] \in Elems
  OBVIOUS
<1> QED
  BY <1>1, SubSeqProperties

\* v is the k elements of x from place a on.
Slices(v, x, a, k) == Len(v) = k /\ \A i \in 1 .. k : v[i] = x[a + i - 1]

\* Part of two sequences, one behind the other, of which the second is cut.
LEMMA SliceOfTwo ==
  ASSUME NEW Elems, NEW w \in Seq(Elems), NEW r \in Seq(Elems), NEW l \in Nat, l = Len(w), NEW n \in Nat, n <= Len(r),
         NEW a \in Nat \ {0}, NEW k \in Nat, k = l + n - a + 1
  PROVE  /\ Len(w \o SubSeq(r, 1, n)) = l + n
         /\ SubSeq(w \o SubSeq(r, 1, n), a, l + n) \in Seq(Elems)
         /\ Slices(SubSeq(w \o SubSeq(r, 1, n), a, l + n), w \o r, a, k)
<1>1. PICK t \in Seq(Elems) : t = SubSeq(r, 1, n) /\ Len(t) = n /\ \A i \in 1 .. n : t[i] = r[i]
  <2>1. 1 \in Nat \ {0} /\ n = n - 1 + 1 /\ \A i \in 1 .. n : 1 + i - 1 = i
    OBVIOUS
  <2>2. /\ SubSeq(r, 1, n) \in Seq(Elems) /\ Len(SubSeq(r, 1, n)) = n
        /\ \A i \in 1 .. n : SubSeq(r, 1, n)[i] = r[1 + i - 1]
    BY <2>1, Slice
  <2> QED
    BY <2>1, <2>2
<1>2. PICK s \in Seq(Elems) : s = w \o t
  BY <1>1, ConcatProperties
<1>3. Len(s) = l + n /\ \A i \in 1 .. l + n : s[i] = IF i <= l THEN w[i] ELSE t[i - l]
  BY <1>1, <1>2, ConcatProperties
<1>4. \A i \in 1 .. l + n : (w \o r)[i] = IF i <= l THEN w[i] ELSE r[i - l]
  <2>1. PICK m \in Nat : m = Len(r)
    OBVIOUS
  <2>2. \A i \in 1 .. l + m : (w \o r)[i] = IF i <= l THEN w[i] ELSE r[i - l]
    BY <2>1, ConcatProperties
  <2> QED
    BY <2>1, <2>2
<1>5. \A i \in 1 .. l + n : s[i] = (w \o r)[i]
  BY <1>1, <1>3, <1>4
<1>6. /\ SubSeq(s, a, l + n) \in Seq(Elems) /\ Len(SubSeq(s, a, l + n)) = k
      /\ \A i \in 1 .. k : SubSeq(s, a, l + n)[i] = s[a + i - 1]
  BY <1>3, Slice
<1>7. \A i \in 1 .. k : a + i - 1 \in 1 .. l + n
  OBVIOUS
<1> QED
  BY <1>1, <1>2, <1>3, <1>5, <1>6, <1>7 DEF Slices

\* Where the window begins after e bytes went through it.
From(e) == IF e < FrameSize THEN 1 ELSE e - FrameSize + 1

\* What the window shows after n bytes of the ring: the last of the bytes that went through it.
LEMMA Shows ==
  ASSUME BoardsAndTimes, window \in Seq(Bytes), ring \in Seq(Bytes), NEW l \in Nat, l = Len(window), l <= FrameSize,
         NEW n \in Nat, n <= Len(ring), NEW a \in Nat, a = From(l + n),
         NEW k \in Nat, k = l + n - a + 1
  PROVE  /\ Shifted(n) \in Seq(Bytes) /\ Len(Shifted(n)) = k /\ Len(Shifted(n)) <= FrameSize
         /\ Slices(Shifted(n), window \o ring, a, k)
<1>1. FrameSize \in Nat \ {0, 1}
  BY DEF BoardsAndTimes
<1>2. a \in Nat \ {0} /\ a <= l + n + 1 /\ (a = 1 \/ a = l + n - FrameSize + 1) /\ a >= l + n - FrameSize + 1 /\ a >= 1
  BY <1>1 DEF From
<1>3. Max({1, l + n - FrameSize + 1}) = a
  BY <1>1, <1>2 DEF Max
<1>4. Shifted(n) = SubSeq(window \o SubSeq(ring, 1, n), a, l + n)
  <2>1. PICK e \in Nat : e = l + n
    OBVIOUS
  <2>2. PICK s : s = window \o SubSeq(ring, 1, n)
    OBVIOUS
  <2>3. Len(s) = e
    BY <1>2, <2>1, <2>2, SliceOfTwo
  <2>4. Shifted(n) = SubSeq(s, Max({1, Len(s) - FrameSize + 1}), Len(s))
    BY <2>2 DEF Shifted
  <2>5. Max({1, e - FrameSize + 1}) = a
    <3>1. (a = 1 /\ a >= e - FrameSize + 1) \/ (a = e - FrameSize + 1 /\ a >= 1)
      BY <1>1, <1>2, <2>1
    <3> QED
      BY <1>1, <1>2, <3>1 DEF Max
  <2>6. Shifted(n) = SubSeq(s, a, e)
    BY <2>3, <2>4, <2>5, Zenon
  <2> QED
    BY <2>1, <2>2, <2>6, Zenon
<1>5. Shifted(n) \in Seq(Bytes) /\ Slices(Shifted(n), window \o ring, a, k)
  <2>1. /\ SubSeq(window \o SubSeq(ring, 1, n), a, l + n) \in Seq(Bytes)
        /\ Slices(SubSeq(window \o SubSeq(ring, 1, n), a, l + n), window \o ring, a, k)
    BY <1>2, SliceOfTwo
  <2> QED
    BY <1>4, <2>1, Zenon
<1>6. k <= FrameSize
  BY <1>1, <1>2
<1> QED
  BY <1>5, <1>6 DEF Slices

\* A frame is its request's number with the places of the bytes.
LEMMA FrameBytes ==
  ASSUME BoardsAndTimes, NEW m
  PROVE  Len(Frame(m)) = FrameSize /\ DOMAIN Frame(m) = 1 .. FrameSize /\ \A i \in 1 .. FrameSize : Frame(m)[i] = <<m, i>>
<1>1. FrameSize \in Nat
  BY DEF BoardsAndTimes
<1>2. Frame(m) = [i \in 1 .. FrameSize |-> <<m, i>>]
  BY DEF Frame
<1>3. Frame(m) \in Seq({m} \X (1 .. FrameSize))
  BY <1>1, <1>2
<1> QED
  BY <1>1, <1>2, <1>3

\* The bytes of w are those of a frame.
LEMMA FrameSeen ==
  ASSUME BoardsAndTimes, NEW w \in Seq(Bytes)
  PROVE  IsFrame(w) <=> Len(w) = FrameSize /\ \E m : \A i \in 1 .. FrameSize : w[i] = <<m, i>>
<1>1. FrameSize \in Nat \ {0, 1}
  BY DEF BoardsAndTimes
<1>2. IsFrame(w) => Len(w) = FrameSize /\ \A i \in 1 .. FrameSize : w[i] = <<w[1][1], i>>
  BY FrameBytes DEF IsFrame
<1>3. ASSUME Len(w) = FrameSize, NEW m, \A i \in 1 .. FrameSize : w[i] = <<m, i>>
      PROVE  IsFrame(w)
  <2>1. w[1][1] = m
    BY <1>1, <1>3
  <2>2. DOMAIN w = 1 .. FrameSize /\ DOMAIN Frame(m) = 1 .. FrameSize
    BY <1>1, <1>3, FrameBytes
  <2>3. \A i \in 1 .. FrameSize : w[i] = Frame(m)[i]
    BY <1>3, FrameBytes
  <2>4. Frame(m) = [i \in 1 .. FrameSize |-> Frame(m)[i]] /\ w = [i \in 1 .. FrameSize |-> w[i]]
    BY <1>1, <2>2 DEF Frame
  <2>5. w = Frame(m)
    BY <2>3, <2>4
  <2> QED
    BY <1>3, <2>1, <2>5 DEF IsFrame
<1> QED
  BY <1>2, <1>3

\* The bytes that are on their way, those of the window first.
Line(i) ==
  IF i <= Len(window) THEN window[i]
  ELSE IF i <= Len(window) + Len(ring) THEN ring[i - Len(window)] ELSE driver[i - Len(window) - Len(ring)]
Total == Len(window) + Len(ring) + Len(driver)
\* The bytes that leave the window as c come in.
Left(c) == From(Len(window) + c) - 1
\* c bytes go from the ring to the window.
Goes(c) ==
  /\ Len(window') = Len(window) + c - Left(c)
  /\ \A i \in 1 .. Len(window') : window'[i] = Line(Left(c) + i)
  /\ Len(ring') = Len(ring) - c
  /\ \A i \in 1 .. Len(ring') : ring'[i] = ring[c + i]

\* The numbers of bytes are numbers.
LEMMA Lengths ==
  ASSUME BoardsInv, BoardsAndTimes
  PROVE  Len(window) \in Nat /\ Len(ring) \in Nat /\ Len(driver) \in Nat /\ FrameSize \in Nat \ {0, 1}
BY DEF BoardsInv, BoardsAndTimes

\* As many bytes leave the window as come in, but for the frame it holds.
LEMMA Leaving ==
  ASSUME BoardsInv, BoardsAndTimes, NEW c \in Nat
  PROVE  /\ Left(c) \in Nat /\ Left(c) <= Len(window) + c /\ Left(c) >= Len(window) + c - FrameSize
         /\ (Left(c) = 0 /\ Len(window) + c < FrameSize) \/ Left(c) = Len(window) + c - FrameSize
<1>1. Len(window) \in Nat /\ FrameSize \in Nat
  BY Lengths
<1> QED
  BY <1>1 DEF Left, From

\* What the window shows after n bytes of the ring are bytes of the line.
LEMMA ShowsLine ==
  ASSUME BoardsAndTimes, BoardsInv, Len(window) <= FrameSize, NEW n \in Nat, n <= Len(ring)
  PROVE  /\ Shifted(n) \in Seq(Bytes) /\ Len(Shifted(n)) = Len(window) + n - Left(n) /\ Len(Shifted(n)) <= FrameSize
         /\ \A i \in 1 .. Len(Shifted(n)) : Shifted(n)[i] = Line(Left(n) + i)
<1>1. PICK l \in Nat : l = Len(window)
  BY Lengths
<1>2. PICK f \in Nat : f = Left(n) /\ f <= l + n /\ f = From(l + n) - 1
  BY <1>1, Leaving DEF Left
<1>3. PICK k \in Nat : k = l + n - f
  BY <1>2
<1>4. PICK a \in Nat : a = f + 1
  BY <1>2
<1>5. a = From(l + n) /\ k = l + n - a + 1
  <2>1. PICK g \in Int : g = From(l + n)
    BY <1>1, Lengths DEF From
  <2>2. f = g - 1
    BY <1>2, <2>1
  <2>3. a = g /\ k = l + n - a + 1
    BY <1>3, <1>4, <2>2
  <2> QED
    BY <2>1, <2>3
<1>6. l <= FrameSize /\ window \in Seq(Bytes) /\ ring \in Seq(Bytes)
  BY <1>1 DEF BoardsInv
<1>7. /\ Shifted(n) \in Seq(Bytes) /\ Len(Shifted(n)) = k /\ Len(Shifted(n)) <= FrameSize
      /\ Slices(Shifted(n), window \o ring, a, k)
  BY <1>1, <1>5, <1>6, Shows
<1>8. \A i \in 1 .. l + n : (window \o ring)[i] = Line(i)
  <2>1. PICK m \in Nat : m = Len(ring)
    BY Lengths
  <2>2. \A i \in 1 .. l + m : (window \o ring)[i] = IF i <= l THEN window[i] ELSE ring[i - l]
    BY <1>1, <1>6, <2>1, ConcatProperties
  <2> QED
    BY <1>1, <2>1, <2>2 DEF Line
<1>9. \A i \in 1 .. k : Shifted(n)[i] = Line(f + i)
  <2>1. ASSUME NEW i \in 1 .. k
        PROVE  a + i - 1 \in 1 .. l + n /\ a + i - 1 = f + i
    BY <1>3, <1>4
  <2>2. ASSUME NEW i \in 1 .. k
        PROVE  Shifted(n)[i] = (window \o ring)[a + i - 1]
    BY <1>7 DEF Slices
  <2> QED
    BY <1>8, <2>1, <2>2
<1> QED
  BY <1>1, <1>2, <1>3, <1>7, <1>9

\* What the main loop reads: all there is, or what makes a frame in the window, of which it stores the value.
LEMMA Reads ==
  ASSUME BoardsAndTimes, BoardsInv, Len(window) <= FrameSize, Streaming
  PROVE  \E c \in Nat :
           /\ c <= Len(ring) /\ Goes(c) /\ Len(window') <= FrameSize
           /\ window' \in Seq(Bytes) /\ ring' \in Seq(Bytes)
           /\ IF c > 0 /\ IsFrame(window') THEN shown' = SensorValueReadToNode(window'[1][1])
              ELSE ring' = <<>> /\ shown' = shown
           /\ \A n \in Nat : n > 0 /\ n <= Len(ring) /\ IsFrame(Shifted(n)) => n >= c /\ IsFrame(window')
<1>1. PICK c \in Nat : c = Streamed /\ c <= Len(ring)
  BY StreamedWithin DEF BoardsInv
<1>2. /\ window' = Shifted(c) /\ ring' = SubSeq(ring, c + 1, Len(ring))
      /\ IF c > 0 /\ IsFrame(window') THEN shown' = SensorValueReadToNode(window'[1][1]) ELSE shown' = shown
  BY <1>1 DEF Streaming
<1>3. PICK m \in Nat, k \in Nat : m = Len(ring) /\ k = m - c /\ ring \in Seq(Bytes)
  BY <1>1 DEF BoardsInv
<1>4. window' \in Seq(Bytes) /\ ring' \in Seq(Bytes) /\ Len(ring') = k /\ \A i \in 1 .. k : ring'[i] = ring[c + i]
  <2>1. ring \in Seq(Bytes) /\ c + 1 \in Nat \ {0} /\ Len(ring) \in Nat /\ k = Len(ring) - (c + 1) + 1
    BY <1>1, <1>3
  <2>2. ring' \in Seq(Bytes) /\ Len(ring') = k /\ \A i \in 1 .. k : ring'[i] = ring[c + 1 + i - 1]
    BY <1>2, <2>1, Slice
  <2>3. \A i \in 1 .. k : c + 1 + i - 1 = c + i
    BY <1>1
  <2>4. window' \in Seq(Bytes)
    BY <1>1, <1>2, ShowsLine
  <2> QED
    BY <2>2, <2>3, <2>4
<1>5. Goes(c) /\ Len(window') <= FrameSize
  BY <1>1, <1>2, <1>3, <1>4, ShowsLine DEF Goes
<1>6. CASE Complete = {}
  <2>1. c = Len(ring)
    BY <1>1, <1>6 DEF Streamed
  <2>2. Len(ring') = 0
    BY <1>3, <1>4, <2>1
  <2>3. ring' = <<>>
    BY <1>4, <2>2
  <2>4. ASSUME NEW n \in Nat, n > 0, n <= Len(ring) PROVE ~IsFrame(Shifted(n))
    <3>1. n \in 1 .. Len(ring)
      BY <1>3, <2>4
    <3> QED
      BY <1>6, <3>1 DEF Complete
  <2>5. shown' = shown
    BY <1>1, <1>2, <1>3, <2>1, <2>4
  <2>6. ~(c > 0 /\ IsFrame(window'))
    BY <1>1, <1>2, <2>4
  <2> QED
    BY <1>1, <1>4, <1>5, <2>3, <2>4, <2>5, <2>6
<1>7. CASE Complete # {}
  <2>1. Complete \in SUBSET Nat
    BY DEF Complete
  <2>2. \E n \in Complete : \A x \in Complete : n <= x
    BY <1>7, <2>1, LeastOf
  <2>3. c \in Complete /\ \A x \in Complete : c <= x
    BY <1>1, <1>7, <2>2 DEF Streamed, Min
  <2>4. c > 0 /\ IsFrame(window')
    BY <1>1, <1>2, <2>3 DEF Complete
  <2>5. \A n \in Nat : n > 0 /\ n <= Len(ring) /\ IsFrame(Shifted(n)) => n >= c
    BY <1>1, <1>3, <2>3 DEF Complete
  <2> QED
    BY <1>1, <1>2, <1>4, <1>5, <2>4, <2>5
<1> QED
  BY <1>6, <1>7

\* The window holds a frame at most, the ring has a byte to spare, and the driver holds an answer until it is moved.
Fits ==
  /\ Len(window) <= FrameSize /\ Len(ring) <= RingSize - 1 /\ Len(driver) <= FrameSize
  /\ moved => driver = <<>>

\* Answers come in the order of their requests, and what is shown was read before what comes.
Ordered ==
  /\ \A i \in 1 .. Len(ring) : ring[i][1] <= polled.n
  /\ \A i, j \in 1 .. Len(ring) : i <= j => ring[i][1] <= ring[j][1]
  /\ \A i \in 1 .. Len(driver) : driver[i][1] = polled.n
  /\ \A b \in DOMAIN Boards, k \in Kinds : shown[b][k] <= polled.n /\ \A i \in 1 .. Len(ring) : shown[b][k] <= ring[i][1]

\* The number of a byte is a number.
LEMMA Numbers ==
  ASSUME NEW s \in Seq(Bytes), NEW i \in 1 .. Len(s)
  PROVE  s[i][1] \in Nat \ {0} /\ s[i][1] \in Requested
<1>1. s[i] \in Bytes
  OBVIOUS
<1> QED
  BY <1>1 DEF Bytes, Requested

\* The frame that is read ends with the last byte read.
LEMMA NumberRead ==
  ASSUME BoardsAndTimes, BoardsInv, NEW c \in Nat, c > 0, c <= Len(ring), Goes(c),
         window' \in Seq(Bytes), IsFrame(window')
  PROVE  window'[1][1] = ring[c][1] /\ Len(window') = FrameSize
<1>1. PICK m : Len(window') = FrameSize /\ \A i \in 1 .. FrameSize : window'[i] = <<m, i>>
  BY FrameSeen
<1>2. FrameSize \in Nat \ {0, 1} /\ 1 \in 1 .. FrameSize /\ FrameSize \in 1 .. FrameSize
  BY Lengths
<1>3. window'[1][1] = m /\ window'[FrameSize][1] = m
  BY <1>1, <1>2
<1>4. PICK l \in Nat, r \in Nat : l = Len(window) /\ r = Len(ring) /\ c <= r
  BY Lengths
<1>5. PICK f \in Nat : f = Left(c) /\ f + FrameSize = l + c
  <2>1. Left(c) \in Nat
    BY Leaving
  <2>2. PICK f \in Nat : f = Left(c)
    BY <2>1
  <2>3. FrameSize = l + c - f
    BY <1>1, <1>4, <2>2 DEF Goes
  <2>4. f + FrameSize = l + c
    BY <1>2, <1>4, <2>3
  <2> QED
    BY <2>2, <2>4
<1>6. window'[FrameSize] = Line(l + c)
  <2>1. window'[FrameSize] = Line(f + FrameSize)
    BY <1>1, <1>2, <1>5 DEF Goes
  <2> QED
    BY <1>5, <2>1
<1>7. Line(l + c) = ring[c]
  BY <1>4 DEF Line
<1> QED
  BY <1>1, <1>3, <1>6, <1>7

\* The value of a frame is stored in its place and in no other.
LEMMA StoredThere ==
  ASSUME BoardsAndTimes, BoardsInv, NEW m \in Requested, shown' = SensorValueReadToNode(m)
  PROVE  /\ \A b \in DOMAIN Boards : \A k \in Kinds : shown'[b][k] = shown[b][k] \/ shown'[b][k] = m
         /\ MaySend(IdOf(m)) => shown'[SearchIndexSensorNode(IdOf(m).low)][IdOf(m).data] = m
<1> DEFINE at == SearchIndexSensorNode(IdOf(m).low)
           kd == IdOf(m).data
<1>1. MaySend(IdOf(m)) => kd \in Kinds /\ shown' = [shown EXCEPT ![at][kd] = m]
  BY DEF MaySend, Kinds, Kinds, SensorValueReadToNode
<1>2. at \in DOMAIN Boards
  BY NodeOfAnswer
<1>3. shown \in [DOMAIN Boards -> [Kinds -> Nat]] /\ shown[at] \in [Kinds -> Nat]
  BY <1>2 DEF BoardsInv
<1> HIDE DEF at, kd
<1>4. CASE MaySend(IdOf(m))
  <2>1. kd \in Kinds
    BY <1>1, <1>4
  <2>2. PICK f : f = [shown[at] EXCEPT ![kd] = m]
    OBVIOUS
  <2>3. shown' = [shown EXCEPT ![at] = f]
    BY <1>1, <1>4, <2>2
  <2>4. \A k \in Kinds : f[k] = IF k = kd THEN m ELSE shown[at][k]
    BY <1>3, <2>2
  <2>5. \A b \in DOMAIN Boards : shown'[b] = IF b = at THEN f ELSE shown[b]
    BY <1>2, <1>3, <2>3
  <2> QED
    BY <1>2, <2>1, <2>4, <2>5 DEF at, kd
<1>5. CASE ~MaySend(IdOf(m))
  BY <1>5 DEF SensorValueReadToNode
<1> QED
  BY <1>4, <1>5

\* What RS232_Thread moves.
LEMMA Moves ==
  ASSUME BoardsAndTimes, BoardsInv, Fits, Move
  PROVE  \E x \in Nat :
           /\ x <= Len(driver) /\ Len(ring') = Len(ring) + x /\ Len(ring) + x <= RingSize - 1
           /\ Len(ring) + Len(driver) <= RingSize - 1 => x = Len(driver)
           /\ \A i \in 1 .. Len(ring') : ring'[i] = IF i <= Len(ring) THEN ring[i] ELSE driver[i - Len(ring)]
           /\ ring' \in Seq(Bytes) /\ driver' = <<>> /\ moved' /\ ~moved
           /\ UNCHANGED <<polled, window, shown, timer, main, conn, calm>>
<1>1. PICK d \in Nat, l \in Nat, s \in Nat : d = Len(driver) /\ l = Len(ring) /\ s = RingSize /\ l <= s - 1
  BY Lengths DEF BoardsAndTimes, Fits
<1>2. PICK r \in Nat : r = (s - 1) - l
  <2>1. l <= s - 1
    BY <1>1
  <2> QED
    BY <2>1
<1>3. PICK x \in Nat : x = Min({Len(driver), Room}) /\ x <= d /\ x <= r /\ (x = d \/ x = r)
  <2>1. PICK y : y = IF d <= r THEN d ELSE r
    OBVIOUS
  <2>2. y \in {d, r} /\ y <= d /\ y <= r
    BY <1>1, <2>1
  <2>3. Min({d, r}) = y
    BY <1>1, <2>2 DEF Min
  <2>4. Room = r
    BY <1>1, <1>2 DEF Room
  <2> QED
    BY <1>1, <2>2, <2>3, <2>4
<1>4. driver \in Seq(Bytes) /\ ring \in Seq(Bytes)
  BY DEF BoardsInv
<1>5. PICK p \in Seq(Bytes) : p = SubSeq(driver, 1, x) /\ Len(p) = x /\ \A i \in 1 .. x : p[i] = driver[i]
  <2>1. 1 \in Nat \ {0} /\ x <= Len(driver) /\ x = x - 1 + 1 /\ \A i \in 1 .. x : 1 + i - 1 = i
    BY <1>1, <1>3
  <2>2. PICK p : p = SubSeq(driver, 1, x)
    OBVIOUS
  <2>3. p \in Seq(Bytes) /\ Len(p) = x /\ \A i \in 1 .. x : p[i] = driver[1 + i - 1]
    BY <1>4, <2>1, <2>2, Slice
  <2> QED
    BY <2>1, <2>2, <2>3
<1>6. ring' = ring \o p
  BY <1>3, <1>5 DEF Move
<1>7. ring' \in Seq(Bytes) /\ Len(ring') = Len(ring) + x
  BY <1>4, <1>5, <1>6
<1>8. \A i \in 1 .. Len(ring') : ring'[i] = IF i <= Len(ring) THEN ring[i] ELSE driver[i - Len(ring)]
  <2>1. PICK k \in Nat : k = Len(ring)
    BY Lengths
  <2>2. \A i \in 1 .. k + x : ring'[i] = IF i <= k THEN ring[i] ELSE p[i - k]
    BY <1>4, <1>5, <1>6, <2>1, ConcatProperties
  <2>3. \A i \in 1 .. k + x : i <= k \/ p[i - k] = driver[i - k]
    BY <1>5, <2>1
  <2> QED
    BY <1>7, <2>1, <2>2, <2>3
<1>9. x <= Len(driver) /\ Len(ring) + x <= RingSize - 1 /\ (Len(ring) + Len(driver) <= RingSize - 1 => x = Len(driver))
  BY <1>1, <1>3, <1>2
<1> QED
  BY <1>7, <1>8, <1>9 DEF Move

\* What a request brings: its board's whole answer, part of it, or none.
LEMMA Polls ==
  ASSUME BoardsAndTimes, BoardsInv, Fits, faults \in Nat, Poll, NEW n \in Nat, n = polled.n + 1,
         NEW id, id = AllRequests[timer.next]
  PROVE  /\ polled'.n = n /\ driver = <<>> /\ moved
         /\ Len(driver') \in Nat /\ Len(driver') <= FrameSize /\ \A i \in 1 .. Len(driver') : driver'[i][1] = n
         /\ \/ driver' = Frame(n) /\ ~Dead(id) /\ polled'.answered = [polled.answered EXCEPT ![id] = n]
            \/ polled'.answered = polled.answered /\ (Dead(id) \/ faults' # faults)
         /\ UNCHANGED <<ring, window, shown>>
<1>1. driver = <<>> /\ moved /\ UNCHANGED <<ring, window, shown>>
  BY DEF Poll, SlotOver, Fits
<1>2. PICK answer \in (IF Dead(id) THEN {"none"} ELSE {"whole", "none", "torn"}) :
        /\ driver' = Answered(n, answer)
        /\ faults' = IF Dead(id) \/ answer = "whole" THEN faults ELSE faults + 1
        /\ polled' = [n |-> n, answered |-> IF answer = "whole" THEN [polled.answered EXCEPT ![id] = n] ELSE polled.answered]
  BY DEF Poll
<1>3. PICK x : x = Frame(n)
  OBVIOUS
<1>4. FrameSize \in Nat \ {0, 1} /\ Len(x) = FrameSize /\ x \in Seq({n} \X (1 .. FrameSize))
  BY <1>3, FrameBytes DEF Frame, BoardsAndTimes
<1>5. CASE answer = "whole"
  <2>1. driver' = x
    BY <1>1, <1>2, <1>3, <1>4, <1>5 DEF Answered
  <2>2. \A i \in 1 .. Len(x) : x[i][1] = n
    BY <1>3, <1>4, FrameBytes
  <2>3. polled'.n = n /\ ~Dead(id) /\ polled'.answered = [polled.answered EXCEPT ![id] = n]
    BY <1>2, <1>5
  <2> QED
    BY <1>1, <1>3, <1>4, <2>1, <2>2, <2>3
<1>6. CASE answer # "whole"
  <2>1. polled'.n = n /\ polled'.answered = polled.answered /\ (Dead(id) \/ faults' # faults)
    BY <1>2, <1>6
  <2>2. CASE answer = "none"
    <3>1. driver' = <<>>
      BY <1>1, <1>2, <2>2 DEF Answered
    <3> QED
      BY <1>1, <1>4, <2>1, <3>1
  <2>3. CASE answer = "torn"
    <3>1. PICK y : y = Tail(x)
      OBVIOUS
    <3>2. y \in Seq({n} \X (1 .. FrameSize)) /\ Len(y) = FrameSize - 1
      BY <1>4, <3>1
    <3>3. driver' = y
      BY <1>1, <1>2, <1>3, <2>3, <3>1, <3>2 DEF Answered
    <3>4. \A i \in 1 .. Len(y) : y[i][1] = n
      BY <3>2
    <3> QED
      BY <1>1, <1>4, <2>1, <3>2, <3>3, <3>4
  <2> QED
    BY <1>2, <1>6, <2>2, <2>3
<1> QED
  BY <1>5, <1>6

\* The numbers of the requests are in order behind what is read.
LEMMA ReadsInOrder ==
  ASSUME BoardsAndTimes, BoardsInv, Fits, Ordered, Streaming, UNCHANGED <<driver, polled>>
  PROVE  Ordered' /\ \A b \in DOMAIN Boards : \A k \in Kinds : shown'[b][k] >= shown[b][k]
<1>1. PICK c \in Nat :
        /\ c <= Len(ring) /\ Goes(c) /\ window' \in Seq(Bytes) /\ ring' \in Seq(Bytes)
        /\ \/ IsFrame(window') /\ c > 0 /\ shown' = SensorValueReadToNode(window'[1][1])
           \/ ring' = <<>> /\ shown' = shown
  BY Reads DEF Fits
<1>2. PICK r \in Nat, k \in Nat :
        /\ r = Len(ring) /\ k = Len(ring') /\ k = r - c
        /\ \A i \in 1 .. k : ring'[i] = ring[c + i] /\ c + i \in 1 .. r
  <2>1. PICK r \in Nat : r = Len(ring)
    BY Lengths
  <2>2. PICK k \in Nat : k = r - c
    <3>1. c <= r
      BY <1>1, <2>1
    <3> QED
      BY <3>1
  <2>3. k = Len(ring') /\ \A i \in 1 .. k : ring'[i] = ring[c + i]
    BY <1>1, <2>1, <2>2 DEF Goes
  <2>4. \A i \in 1 .. k : c + i \in 1 .. r
    BY <2>2
  <2> QED
    BY <2>1, <2>2, <2>3, <2>4
<1>3. \A i \in 1 .. r : ring[i][1] \in Nat /\ ring[i][1] <= polled.n
  BY <1>2, Numbers DEF BoardsInv, Ordered
<1>4. \A i \in 1 .. k : ring'[i][1] = ring[c + i][1] /\ ring'[i][1] <= polled.n
  BY <1>2, <1>3
<1>5. ASSUME NEW i \in 1 .. k, NEW j \in 1 .. k, i <= j PROVE ring'[i][1] <= ring'[j][1]
  <2>1. c + i \in 1 .. r /\ c + j \in 1 .. r /\ c + i <= c + j
    BY <1>2, <1>5
  <2>2. ring[c + i][1] <= ring[c + j][1]
    BY <1>2, <2>1 DEF Ordered
  <2> QED
    BY <1>4, <2>2
<1>6. \A b \in DOMAIN Boards : \A d \in Kinds :
        /\ shown[b][d] \in Nat /\ shown[b][d] <= polled.n
        /\ \A i \in 1 .. r : shown[b][d] <= ring[i][1]
  BY <1>2 DEF Ordered, BoardsInv
<1>7. \A b \in DOMAIN Boards : \A d \in Kinds :
        /\ shown'[b][d] >= shown[b][d] /\ shown'[b][d] <= polled.n
        /\ \A i \in 1 .. k : shown'[b][d] <= ring'[i][1]
  <2>1. CASE shown' = shown
    BY <1>2, <1>4, <1>6, <2>1
  <2>2. CASE IsFrame(window') /\ c > 0 /\ shown' = SensorValueReadToNode(window'[1][1])
    <3>1. PICK m : m = window'[1][1]
      OBVIOUS
    <3>2. m = ring[c][1] /\ c \in 1 .. r
      BY <1>1, <1>2, <2>2, <3>1, NumberRead
    <3>3. m \in Requested /\ m \in Nat
      BY <1>2, <3>2, Numbers DEF BoardsInv
    <3>4. \A b \in DOMAIN Boards : \A d \in Kinds : shown'[b][d] = shown[b][d] \/ shown'[b][d] = m
      BY <2>2, <3>1, <3>3, StoredThere
    <3>5. m <= polled.n /\ \A i \in 1 .. k : m <= ring'[i][1]
      <4>1. ASSUME NEW i \in 1 .. k PROVE m <= ring'[i][1]
        <5>1. c + i \in 1 .. r /\ c <= c + i
          BY <1>2
        <5>2. ring[c][1] <= ring[c + i][1]
          BY <1>2, <3>2, <5>1 DEF Ordered
        <5> QED
          BY <1>4, <3>2, <5>2
      <4> QED
        BY <1>3, <3>2, <4>1
    <3>6. ASSUME NEW b \in DOMAIN Boards, NEW d \in Kinds
          PROVE  /\ shown'[b][d] >= shown[b][d] /\ shown'[b][d] <= polled.n
                 /\ \A i \in 1 .. k : shown'[b][d] <= ring'[i][1]
      <4>1. CASE shown'[b][d] = shown[b][d]
        BY <1>2, <1>4, <1>6, <4>1
      <4>2. CASE shown'[b][d] = m
        BY <1>6, <3>2, <3>3, <3>5, <4>2
      <4> QED
        BY <3>4, <4>1, <4>2
    <3> QED
      BY <3>6
  <2> QED
    BY <1>1, <2>1, <2>2
<1> QED
  BY <1>2, <1>4, <1>5, <1>7 DEF Ordered

\* What RS232_Thread moves answers the last request.
LEMMA MovesInOrder ==
  ASSUME BoardsAndTimes, BoardsInv, Fits, Ordered, Move
  PROVE  Ordered' /\ Fits'
<1>1. PICK x \in Nat :
        /\ x <= Len(driver) /\ Len(ring') = Len(ring) + x /\ Len(ring) + x <= RingSize - 1
        /\ \A i \in 1 .. Len(ring') : ring'[i] = IF i <= Len(ring) THEN ring[i] ELSE driver[i - Len(ring)]
        /\ driver' = <<>> /\ UNCHANGED <<polled, window, shown>>
  BY Moves
<1>2. PICK r \in Nat, d \in Nat : r = Len(ring) /\ d = Len(driver) /\ x <= d
  BY <1>1, Lengths
<1>3. \A i \in 1 .. r : ring[i][1] \in Nat /\ ring[i][1] <= polled.n
  BY <1>2, Numbers DEF BoardsInv, Ordered
<1>4. \A i \in 1 .. r + x : IF i <= r THEN i \in 1 .. r /\ ring'[i][1] = ring[i][1] ELSE ring'[i][1] = polled.n
  <2>1. \A i \in 1 .. d : driver[i][1] = polled.n
    BY <1>2 DEF Ordered
  <2>2. ASSUME NEW i \in 1 .. r + x, ~(i <= r) PROVE i - r \in 1 .. d /\ ring'[i] = driver[i - r]
    <3>1. i - r \in 1 .. d
      BY <1>2, <2>2
    <3>2. i \in 1 .. Len(ring') /\ ~(i <= Len(ring))
      BY <1>1, <1>2, <2>2
    <3>3. ring'[i] = driver[i - Len(ring)]
      BY <1>1, <3>2
    <3> QED
      BY <1>2, <3>1, <3>3
  <2>3. ASSUME NEW i \in 1 .. r + x, i <= r PROVE i \in 1 .. r /\ ring'[i] = ring[i]
    BY <1>1, <1>2, <2>3
  <2> QED
    BY <2>1, <2>2, <2>3
<1>5. polled.n \in Nat /\ polled'.n = polled.n
  BY <1>1 DEF BoardsInv
<1>6. \A i \in 1 .. r + x : ring'[i][1] <= polled'.n
  BY <1>3, <1>4, <1>5
<1>7. ASSUME NEW i \in 1 .. r + x, NEW j \in 1 .. r + x, i <= j PROVE ring'[i][1] <= ring'[j][1]
  <2>1. CASE j <= r
    <3>1. i \in 1 .. r /\ j \in 1 .. r /\ ring'[i][1] = ring[i][1] /\ ring'[j][1] = ring[j][1]
      BY <1>4, <1>7, <2>1
    <3> QED
      BY <1>2, <1>7, <3>1 DEF Ordered
  <2>2. CASE ~(j <= r)
    BY <1>4, <1>5, <1>6, <2>2
  <2> QED
    BY <2>1, <2>2
<1>8. \A b \in DOMAIN Boards : \A k \in Kinds :
        /\ shown[b][k] <= polled.n
        /\ \A i \in 1 .. r : shown[b][k] <= ring[i][1]
  BY <1>2 DEF Ordered
<1>9. ASSUME NEW b \in DOMAIN Boards, NEW k \in Kinds, NEW i \in 1 .. r + x PROVE shown'[b][k] <= ring'[i][1]
  <2>1. CASE i <= r
    BY <1>1, <1>4, <1>8, <2>1
  <2>2. CASE ~(i <= r)
    BY <1>1, <1>4, <1>8, <2>2
  <2> QED
    BY <2>1, <2>2
<1>10. Ordered'
  BY <1>1, <1>2, <1>5, <1>6, <1>7, <1>8, <1>9 DEF Ordered
<1>11. Fits'
  <2>1. FrameSize \in Nat
    BY Lengths
  <2> QED
    BY <1>1, <2>1 DEF Fits
<1> QED
  BY <1>10, <1>11

\* An answer is to the request just made, the last one.
LEMMA PollsInOrder ==
  ASSUME BoardsAndTimes, BoardsInv, Fits, Ordered, faults \in Nat, Poll
  PROVE  Ordered' /\ Fits'
<1>1. PICK n \in Nat : n = polled.n + 1 /\ polled.n \in Nat
  BY DEF BoardsInv
<1>2. /\ polled'.n = n /\ Len(driver') <= FrameSize /\ UNCHANGED <<ring, window, shown>>
      /\ \A i \in 1 .. Len(driver') : driver'[i][1] = n
  BY <1>1, Polls
<1>3. moved' = FALSE
  BY DEF Poll, NextSlot
<1>4. \A i \in 1 .. Len(ring) : ring[i][1] \in Nat
  BY Numbers DEF BoardsInv
<1>5. \A b \in DOMAIN Boards : \A k \in Kinds : shown[b][k] \in Nat
  BY DEF BoardsInv
<1>6. /\ \A i \in 1 .. Len(ring') : ring'[i][1] <= polled'.n
      /\ \A b \in DOMAIN Boards, k \in Kinds : shown'[b][k] <= polled'.n
  BY <1>1, <1>2, <1>4, <1>5 DEF Ordered
<1>7. Ordered'
  BY <1>1, <1>2, <1>6 DEF Ordered
<1> QED
  BY <1>2, <1>3, <1>7 DEF Fits

Framed == IsFrame(window)
Connected == conn /\ main.busy = 0 /\ main.pc = "loop"
\* What u calm slots may have left of a full ring.
Spare(u) == IF FrameSize * u >= RingSize - 2 THEN 0 ELSE RingSize - 2 - FrameSize * u
\* What did iterations of a slot may have left of s bytes, when the window is whole or not.
LeftOf(framed, did, s) ==
  IF did = 0 THEN IF framed THEN s + FrameSize ELSE FrameSize
  ELSE IF ~framed THEN 0
  ELSE IF did = 1 THEN IF s >= FrameSize THEN s ELSE FrameSize - 1
  ELSE IF s >= FrameSize THEN s - FrameSize ELSE 0
Backlog == LeftOf(Framed, main.did, Spare(calm))

\* While the main loop runs connected it takes more out of the ring than comes in: but for the answer
\* just moved, what is beyond the backlog is of the last request, and what is beyond the spare of the last two.
WorkedOff ==
  Connected /\ (main.did > 0 \/ calm > 0) =>
    /\ Len(ring) <= Backlog + (IF moved THEN FrameSize ELSE 0)
    /\ \A i \in 1 .. Len(ring) : i > Backlog => ring[i][1] >= polled.n
    /\ calm > 0 => \A i \in 1 .. Len(ring) : i > Spare(calm) => ring[i][1] >= polled.n - 1

\* Where the main loop is, and since when it is calm.
Stepping ==
  /\ main \in [pc : {"startup", "loop"}, busy : Nat, did : Nat]
  /\ calm \in 0 .. Settled /\ faults \in Nat
  /\ main.pc = "startup" => main.did = 0
  /\ calm > 0 => Connected

\* A frame less in every calm slot, and nothing in the end.
LEMMA Spares ==
  ASSUME BoardsAndTimes, KeepsUp, NEW u \in Nat
  PROVE  /\ Spare(u) \in Nat /\ Spare(0) = RingSize - 2 /\ Spare(Settled) = 0
         /\ Spare(u + 1) = IF Spare(u) >= FrameSize THEN Spare(u) - FrameSize ELSE 0
         /\ u >= 2 => Spare(u) + 2 * FrameSize <= RingSize - 1
<1>1. /\ FrameSize \in Nat \ {0, 1} /\ RingSize \in Nat /\ RingSize > 2 * FrameSize
      /\ Settled \in Nat /\ FrameSize * Settled >= RingSize
  BY DEF BoardsAndTimes, KeepsUp
<1>2. PICK p \in Nat : p = FrameSize * u
  BY <1>1
<1>3. FrameSize * (u + 1) = p + FrameSize
  BY <1>1, <1>2
<1>4. u >= 2 => p >= 2 * FrameSize
  BY <1>1, <1>2
<1>5. Spare(u) \in Nat /\ Spare(u) = IF p >= RingSize - 2 THEN 0 ELSE RingSize - 2 - p
  BY <1>1, <1>2 DEF Spare
<1>6. Spare(0) = RingSize - 2
  BY <1>1 DEF Spare
<1>7. Spare(Settled) = 0
  <2>1. PICK q \in Nat : q = FrameSize * Settled
    BY <1>1
  <2>2. q >= RingSize - 2
    BY <1>1, <2>1
  <2> QED
    BY <2>1, <2>2 DEF Spare
<1>8. Spare(u + 1) = IF p + FrameSize >= RingSize - 2 THEN 0 ELSE RingSize - 2 - (p + FrameSize)
  BY <1>3 DEF Spare
<1>9. Spare(u + 1) = IF Spare(u) >= FrameSize THEN Spare(u) - FrameSize ELSE 0
  BY <1>1, <1>5, <1>8
<1>10. u >= 2 => Spare(u) + 2 * FrameSize <= RingSize - 1
  BY <1>1, <1>4, <1>5
<1> QED
  BY <1>5, <1>6, <1>7, <1>9, <1>10

\* What an iteration reads of the backlog.
LEMMA LeftNext ==
  ASSUME BoardsAndTimes, NEW s \in Nat, NEW f \in BOOLEAN, NEW did \in Nat, NEW c \in Nat, c > 0, f => c >= FrameSize
  PROVE  /\ LeftOf(f, did, s) \in Nat
         /\ LeftOf(TRUE, did + 1, s) + c >= LeftOf(f, did, s)
         /\ LeftOf(TRUE, did + 1, s) >= 0 /\ LeftOf(FALSE, did + 1, s) = 0
<1>1. FrameSize \in Nat \ {0, 1}
  BY DEF BoardsAndTimes
<1> QED
  BY <1>1 DEF LeftOf

\* Between two frames are the bytes of a frame.
LEMMA NextFrame ==
  ASSUME BoardsAndTimes, BoardsInv, Framed, NEW c \in Nat, c > 0, Goes(c), window' \in Seq(Bytes), IsFrame(window')
  PROVE  c >= FrameSize
<1>1. FrameSize \in Nat \ {0, 1}
  BY Lengths
<1>2. PICK m : Len(window) = FrameSize /\ \A i \in 1 .. FrameSize : window[i] = <<m, i>>
  BY FrameSeen DEF BoardsInv, Framed
<1>3. PICK n : Len(window') = FrameSize /\ \A i \in 1 .. FrameSize : window'[i] = <<n, i>>
  BY FrameSeen
<1> SUFFICES ASSUME c < FrameSize PROVE FALSE
  BY <1>1
<1>4. Left(c) = c
  <2>1. PICK f \in Nat : f = Left(c)
    BY Leaving
  <2>2. FrameSize = FrameSize + c - f
    BY <1>2, <1>3, <2>1 DEF Goes
  <2>3. f = c
    BY <1>1, <2>2
  <2> QED
    BY <2>1, <2>3
<1>5. window'[1] = Line(c + 1)
  <2>1. 1 \in 1 .. Len(window')
    BY <1>1, <1>3
  <2> QED
    BY <1>4, <2>1 DEF Goes
<1>6. Line(c + 1) = window[c + 1] /\ c + 1 \in 1 .. FrameSize
  <2>1. c + 1 <= FrameSize
    BY <1>1
  <2> QED
    BY <1>1, <1>2, <2>1 DEF Line
<1>7. <<n, 1>> = <<m, c + 1>>
  BY <1>1, <1>2, <1>3, <1>5, <1>6
<1> QED
  BY <1>7

\* What the window is in the next state.
LEMMA FramedNext == Framed' <=> IsFrame(window')
BY DEF Framed, IsFrame, Frame

\* An iteration takes a frame out of the ring or empties it.
LEMMA IterationWorksOff ==
  ASSUME BoardsAndTimes, KeepsUp, BoardsInv, Fits, Stepping, WorkedOff, Iterate
  PROVE  WorkedOff'
<1>1. PICK c \in Nat :
        /\ c <= Len(ring) /\ Goes(c) /\ window' \in Seq(Bytes) /\ ring' \in Seq(Bytes)
        /\ (IsFrame(window') /\ c > 0) \/ ring' = <<>>
  <2>1. Streaming
    BY DEF Iterate
  <2> QED
    BY <2>1, Reads DEF Fits
<1>2. CASE ~conn
  <2>1. main' = [main EXCEPT !.busy = Second]
    BY <1>2 DEF Iterate
  <2>2. main'.busy = Second /\ Second # 0
    BY <2>1 DEF Stepping, BoardsAndTimes
  <2> QED
    BY <2>2 DEF WorkedOff, Connected
<1>3. CASE conn
  <2>1. PICK d \in Nat, s \in Nat, r \in Nat : d = main.did /\ s = Spare(calm) /\ r = Len(ring)
    <3>1. main.did \in Nat /\ calm \in Nat
      BY DEF Stepping
    <3>2. Spare(calm) \in Nat /\ Len(ring) \in Nat
      BY <3>1, Spares, Lengths
    <3> QED
      BY <3>1, <3>2
  <2>2. /\ Connected /\ main'.did = d + 1
        /\ UNCHANGED <<moved, calm, polled>>
    BY <1>3, <2>1 DEF Iterate, Connected, Stepping
  <2>3. Backlog' = LeftOf(Framed', d + 1, s)
    BY <2>1, <2>2 DEF Backlog, Spare
  <2>4. PICK k \in Nat : k = r - c /\ k = Len(ring')
    <3>1. c <= r
      BY <1>1, <2>1
    <3>2. PICK k \in Nat : k = r - c
      BY <3>1
    <3>3. Len(ring') = r - c
      BY <1>1, <2>1 DEF Goes
    <3> QED
      BY <3>2, <3>3
  <2>5. ASSUME NEW i \in 1 .. k PROVE c + i \in 1 .. r /\ ring'[i] = ring[c + i]
    <3>1. c + i \in 1 .. r
      <4>1. k = r - c
        BY <2>4
      <4> QED
        BY <4>1
    <3>2. ring'[i] = ring[c + i]
      BY <1>1, <2>4 DEF Goes
    <3> QED
      BY <3>1, <3>2
  <2>6. FrameSize \in Nat \ {0, 1}
    BY Lengths
  <2>7. PICK m \in Nat : m = IF moved THEN FrameSize ELSE 0
    BY <2>6
  <2>8. PICK x \in Nat : x = Backlog'
    BY <2>1, <2>3, <2>6 DEF LeftOf
  <2> SUFFICES /\ k <= x + m
               /\ \A i \in 1 .. k : i > x => ring'[i][1] >= polled.n
               /\ calm > 0 => \A i \in 1 .. k : i > s => ring'[i][1] >= polled.n - 1
    <3>1. Spare(calm)' = s
      BY <2>1, <2>2 DEF Spare
    <3> QED
      BY <2>2, <2>4, <2>7, <2>8, <3>1 DEF WorkedOff
  <2>9. CASE ring' = <<>>
    <3>1. k = 0
      BY <2>4, <2>9
    <3> QED
      BY <3>1
  <2>10. CASE IsFrame(window') /\ c > 0
    <3>1. PICK b \in Nat : b = LeftOf(Framed, d, s) /\ x = LeftOf(TRUE, d + 1, s) /\ x + c >= b
      <4>1. Framed \in BOOLEAN /\ (Framed => c >= FrameSize)
        BY <1>1, <2>10, NextFrame DEF Framed, IsFrame
      <4>2. /\ LeftOf(Framed, d, s) \in Nat
            /\ LeftOf(TRUE, d + 1, s) + c >= LeftOf(Framed, d, s)
        BY <2>1, <2>10, <4>1, LeftNext
      <4>3. Framed' = TRUE
        BY <2>10, FramedNext DEF Framed, IsFrame
      <4> QED
        BY <2>3, <2>8, <4>2, <4>3
    <3>2. Backlog = b /\ x + c >= b
      BY <2>1, <3>1 DEF Backlog
    <3>3. k = r - c /\ c > 0
      BY <2>4, <2>10
    <3>4. CASE d > 0 \/ calm > 0
      <4>1. /\ r <= b + m
            /\ \A i \in 1 .. r : i > b => ring[i][1] >= polled.n
            /\ calm > 0 => \A i \in 1 .. r : i > s => ring[i][1] >= polled.n - 1
        BY <2>1, <2>2, <2>7, <3>2, <3>4 DEF WorkedOff
      <4>2. k <= x + m
        <5>1. r <= b + m /\ x + c >= b
          BY <3>2, <4>1
        <5> QED
          BY <3>3, <5>1
      <4>3. ASSUME NEW i \in 1 .. k, i > x PROVE ring'[i][1] >= polled.n
        <5>1. c + i > b
          <6>1. x + c >= b
            BY <3>2
          <6> QED
            BY <4>3, <6>1
        <5> QED
          BY <2>5, <4>1, <5>1
      <4>4. ASSUME calm > 0, NEW i \in 1 .. k, i > s PROVE ring'[i][1] >= polled.n - 1
        <5>1. c + i > s
          BY <4>4
        <5> QED
          BY <2>5, <4>1, <4>4, <5>1
      <4> QED
        BY <4>2, <4>3, <4>4
    <3>5. CASE d = 0 /\ calm = 0
      <4>1. s = RingSize - 2 /\ RingSize \in Nat /\ RingSize > 2 * FrameSize
        BY <2>1, <3>5, Spares DEF KeepsUp, BoardsAndTimes
      <4>2. x = s
        BY <2>6, <3>1, <3>5, <4>1 DEF LeftOf
      <4>3. r <= RingSize - 1
        BY <2>1 DEF Fits
      <4>4. k <= x
        BY <3>3, <4>1, <4>2, <4>3
      <4> QED
        BY <3>5, <4>4
    <3> QED
      BY <2>1, <3>4, <3>5 DEF Stepping
  <2> QED
    BY <1>1, <2>9, <2>10
<1> QED
  BY <1>2, <1>3

\* The answer that is moved is what the backlog leaves room for.
LEMMA MoveWorksOff ==
  ASSUME BoardsAndTimes, KeepsUp, BoardsInv, Fits, Ordered, Stepping, WorkedOff, Move
  PROVE  WorkedOff'
<1>1. PICK x \in Nat :
        /\ x <= Len(driver) /\ Len(ring') = Len(ring) + x
        /\ \A i \in 1 .. Len(ring') : ring'[i] = IF i <= Len(ring) THEN ring[i] ELSE driver[i - Len(ring)]
        /\ ring' \in Seq(Bytes) /\ moved' /\ ~moved
        /\ UNCHANGED <<polled, window, main, conn, calm>>
  BY Moves
<1> SUFFICES ASSUME Connected, main.did > 0 \/ calm > 0
             PROVE  /\ Len(ring') <= Backlog + FrameSize
                    /\ \A i \in 1 .. Len(ring') : i > Backlog => ring'[i][1] >= polled.n
                    /\ calm > 0 => \A i \in 1 .. Len(ring') : i > Spare(calm) => ring'[i][1] >= polled.n - 1
  <2>1. Backlog' = Backlog /\ Spare(calm)' = Spare(calm) /\ Connected' = Connected
    BY <1>1, FramedNext DEF Backlog, Framed, IsFrame, Frame, Spare, LeftOf, Connected
  <2> QED
    BY <1>1, <2>1 DEF WorkedOff
<1>2. PICK r \in Nat, d \in Nat : r = Len(ring) /\ d = Len(driver) /\ x <= d /\ d <= FrameSize
  BY <1>1, Lengths DEF Fits
<1>3. PICK b \in Nat, s \in Nat : b = Backlog /\ s = Spare(calm)
  <2>1. PICK s \in Nat : s = Spare(calm)
    BY Spares DEF Stepping
  <2>2. LeftOf(Framed, main.did, s) \in Nat
    BY Lengths DEF LeftOf
  <2> QED
    BY <2>1, <2>2 DEF Backlog
<1>4. /\ r <= b /\ \A i \in 1 .. r : i > b => ring[i][1] >= polled.n
      /\ calm > 0 => \A i \in 1 .. r : i > s => ring[i][1] >= polled.n - 1
  BY <1>1, <1>2, <1>3, Lengths DEF WorkedOff
<1>5. ASSUME NEW i \in 1 .. r + x, i > r PROVE ring'[i][1] = polled.n
  <2>1. i - r \in 1 .. d
    BY <1>2, <1>5
  <2>2. i \in 1 .. Len(ring') /\ ~(i <= Len(ring))
    BY <1>1, <1>2, <1>5
  <2>3. ring'[i] = driver[i - r]
    BY <1>1, <1>2, <2>2
  <2> QED
    BY <1>2, <2>1, <2>3 DEF Ordered
<1>6. ASSUME NEW i \in 1 .. r + x, i <= r PROVE i \in 1 .. r /\ ring'[i] = ring[i]
  BY <1>1, <1>2, <1>6
<1>7. polled.n \in Nat
  BY DEF BoardsInv
<1>8. Len(ring') <= b + FrameSize
  BY <1>1, <1>2, <1>4, Lengths
<1>9. ASSUME NEW i \in 1 .. r + x, i > b PROVE ring'[i][1] >= polled.n
  <2>1. i > r
    BY <1>4, <1>9
  <2> QED
    BY <1>5, <1>7, <2>1
<1>10. ASSUME calm > 0, NEW i \in 1 .. r + x, i > s PROVE ring'[i][1] >= polled.n - 1
  BY <1>4, <1>5, <1>6, <1>7, <1>10
<1> QED
  BY <1>1, <1>2, <1>3, <1>8, <1>9, <1>10

\* A slot in which the main loop ran connected leaves no more than the next one reads.
LEMMA SlotWorksOff ==
  ASSUME BoardsAndTimes, KeepsUp, BoardsInv, Fits, Stepping, WorkedOff,
         SlotOver, NEW q, NextSlot(q), UNCHANGED <<ring, window, conn>>,
         polled'.n = polled.n \/ polled'.n = polled.n + 1
  PROVE  WorkedOff'
<1>1. main'.did = 0 /\ moved' = FALSE
  BY DEF NextSlot, Stepping
<1> SUFFICES ASSUME calm' > 0 PROVE WorkedOff'
  BY <1>1 DEF WorkedOff
<1>2. Settled \in Nat /\ calm \in 0 .. Settled /\ FrameSize \in Nat \ {0, 1} /\ Rate \in Nat /\ Rate > 1
  BY Lengths DEF BoardsAndTimes, Stepping, KeepsUp
<1>3. Connected /\ calm' = Min({calm + 1, Settled})
  BY <1>2 DEF NextSlot, Connected
<1>4. PICK d \in Nat, s \in Nat, r \in Nat, n \in Nat : d = main.did /\ s = Spare(calm) /\ r = Len(ring) /\ n = polled.n
  <2>1. main.did \in Nat /\ calm \in Nat /\ polled.n \in Nat
    BY DEF Stepping, BoardsInv
  <2>2. Spare(calm) \in Nat /\ Len(ring) \in Nat
    BY <2>1, Spares, Lengths
  <2> QED
    BY <2>1, <2>2
<1>5. d >= 2 /\ moved
  <2>1. main.did >= Rate /\ moved
    BY <1>3 DEF SlotOver, Connected, Stepping
  <2> QED
    BY <1>2, <1>4, <2>1
<1>6. PICK b \in Nat : b = Backlog /\ b = IF ~Framed \/ s < FrameSize THEN 0 ELSE s - FrameSize
  <2>1. LeftOf(Framed, d, s) = IF ~Framed \/ s < FrameSize THEN 0 ELSE s - FrameSize
    BY <1>2, <1>5 DEF LeftOf
  <2>2. (IF ~Framed \/ s < FrameSize THEN 0 ELSE s - FrameSize) \in Nat
    BY <1>2
  <2> QED
    BY <1>4, <2>1, <2>2 DEF Backlog
<1>7. /\ r <= b + FrameSize
      /\ \A i \in 1 .. r : i > b => ring[i][1] >= n
  BY <1>3, <1>4, <1>5, <1>6 DEF WorkedOff
<1>8. PICK t \in Nat : t = Spare(calm') /\ t = IF s < FrameSize THEN 0 ELSE s - FrameSize
  <2>1. CASE calm < Settled
    <3>1. calm' = calm + 1
      <4>1. PICK u \in Nat : u = calm + 1 /\ u <= Settled
        BY <1>2, <2>1
      <4>2. Min({u, Settled}) = u
        BY <1>2, <4>1 DEF Min
      <4> QED
        BY <1>3, <4>1, <4>2
    <3>2. Spare(calm + 1) = IF Spare(calm) >= FrameSize THEN Spare(calm) - FrameSize ELSE 0
      BY <1>2, Spares
    <3> QED
      BY <1>2, <1>4, <3>1, <3>2
  <2>2. CASE calm = Settled
    <3>1. calm' = Settled
      <4>1. PICK u \in Nat : u = Settled + 1
        BY <1>2
      <4>2. Min({u, Settled}) = Settled
        BY <1>2, <4>1 DEF Min
      <4> QED
        BY <1>3, <2>2, <4>1, <4>2
    <3>2. Spare(Settled) = 0
      BY <1>2, Spares
    <3> QED
      BY <1>2, <1>4, <2>2, <3>1, <3>2
  <2> QED
    BY <1>2, <2>1, <2>2
<1>9. Spare(calm)' = t /\ Framed' = Framed
  BY <1>8 DEF Spare, Framed, IsFrame, Frame
<1>10. Backlog' = IF Framed THEN t + FrameSize ELSE FrameSize
  BY <1>1, <1>9 DEF Backlog, LeftOf
<1>11. PICK e \in Nat : e = Backlog' /\ r <= e
  BY <1>2, <1>6, <1>7, <1>8, <1>10
<1>12. \A i \in 1 .. r : ring[i][1] \in Nat
  BY <1>4, Numbers DEF BoardsInv
<1>13. ASSUME NEW i \in 1 .. r, i > t PROVE ring'[i][1] >= polled'.n - 1
  <2>1. i > b
    BY <1>2, <1>6, <1>8, <1>13
  <2>2. ring[i][1] >= n /\ ring[i][1] \in Nat
    BY <1>7, <1>12, <2>1
  <2> QED
    BY <1>4, <2>2
<1> QED
  BY <1>1, <1>4, <1>9, <1>11, <1>13 DEF WorkedOff

\* Counting on modulo l.
LEMMA CountsOn ==
  ASSUME NEW v \in Nat, NEW l \in Nat \ {0}
  PROVE  /\ (v + 1) % l = IF (v % l) + 1 = l THEN 0 ELSE (v % l) + 1
         /\ v < l => v % l = v
<1> DEFINE q == v \div l
           r == v % l
<1>1. q \in Nat /\ r \in 0 .. l - 1 /\ v = l * q + r
  OBVIOUS
<1>2. v < l => r = v
  <2>1. ASSUME v < l PROVE (l * 0 + v) % l = v
    BY <2>1
  <2> QED
    BY <2>1
<1> HIDE DEF q, r
<1>3. CASE r + 1 < l
  <2>1. v + 1 = l * q + (r + 1) /\ r + 1 \in Nat
    BY <1>1
  <2>2. (l * q + (r + 1)) % l = r + 1
    BY <1>1, <1>3, <2>1
  <2> QED
    BY <1>1, <1>2, <1>3, <2>1, <2>2 DEF r
<1>4. CASE r + 1 = l
  <2>1. v + 1 = l * (q + 1) + 0 /\ q + 1 \in Nat
    BY <1>1, <1>4
  <2>2. (l * (q + 1) + 0) % l = 0
    BY <2>1
  <2> QED
    BY <1>1, <1>2, <1>4, <2>1, <2>2 DEF r
<1> QED
  BY <1>1, <1>3, <1>4

\* The requests of a round.
Rounds == Len(AllRequests)

\* What the boards are asked for stays the same.
LEMMA RequestsStay == Rounds' = Rounds /\ Sleep(Rounds)' = Sleep(Rounds) /\ RoundLength' = RoundLength
<1>1. Rounds' = Rounds /\ Sleep(Rounds)' = Sleep(Rounds)
  BY DEF Rounds, AllRequests, RequestsOf, Requests, Sleep, FlattenSeq
<1>2. RoundLength = Rounds + Sleep(Rounds)
  BY DEF RoundLength, Rounds
<1> QED
  BY <1>1, <1>2

\* Timer_handler counts its requests in step with the round.
AtRequest ==
  /\ timer.next <= Rounds + 1 /\ timer.delay = timer.next - 1
  /\ timer.sleep \in 0 .. Sleep(Rounds) /\ (timer.sleep > 0 => timer.next = 1)
  /\ Rounds > 0 => polled.n % Rounds = IF timer.next = Rounds + 1 THEN 0 ELSE timer.next - 1

\* The slots since request r was made.
Age(r) ==
  IF timer.next > r THEN timer.next - 1 - r
  ELSE timer.next - 1 + RoundLength - timer.sleep - r

\* A round takes a slot at least.
LEMMA RoundTakes ==
  ASSUME BoardsAndTimes
  PROVE  Rounds \in Nat /\ Sleep(Rounds) \in Nat /\ RoundLength = Rounds + Sleep(Rounds) /\ RoundLength \in Nat /\ RoundLength > 0
<1>1. PICK l \in Nat : l = Rounds
  BY RequestsMade DEF Rounds
<1>2. Second \in Nat \ {0}
  BY DEF BoardsAndTimes
<1>3. PICK s \in Nat : s = Sleep(l) /\ l + s > 0
  <2>1. Sleep(l) \in Nat
    BY <1>2 DEF Sleep
  <2>2. l = 0 => Sleep(l) = Second
    BY <1>2 DEF Sleep
  <2> QED
    BY <1>2, <2>1, <2>2
<1>4. RoundLength = l + s
  BY <1>1, <1>3 DEF RoundLength, Rounds
<1> QED
  BY <1>1, <1>3, <1>4

\* The fields of the timer.
LEMMA TimerFields ==
  ASSUME BoardsAndTimes, TimerTypes, AtRequest
  PROVE  \E n \in Nat \ {0}, s \in Nat, d \in Nat :
           /\ timer = [next |-> n, sleep |-> s, delay |-> d] /\ d = n - 1
           /\ n <= Rounds + 1 /\ s <= Sleep(Rounds) /\ (s > 0 => n = 1)
<1>1. PICK n \in Nat \ {0}, s \in Int, d \in Nat : timer = [next |-> n, sleep |-> s, delay |-> d]
  BY DEF TimerTypes
<1>2. n <= Rounds + 1 /\ d = n - 1 /\ s \in 0 .. Sleep(Rounds) /\ (s > 0 => n = 1)
  BY <1>1 DEF AtRequest
<1>3. s \in Nat /\ s <= Sleep(Rounds)
  BY <1>2, RoundTakes
<1> QED
  BY <1>1, <1>2, <1>3

\* No request is older than a round.
LEMMA Ages ==
  ASSUME BoardsAndTimes, TimerTypes, AtRequest, NEW r \in 1 .. Rounds
  PROVE  Age(r) \in Nat /\ Age(r) <= RoundLength - 1
<1>1. PICK n \in Nat \ {0}, s \in Nat, d \in Nat :
        /\ timer = [next |-> n, sleep |-> s, delay |-> d]
        /\ n <= Rounds + 1 /\ s <= Sleep(Rounds)
  BY TimerFields
<1>2. PICK l \in Nat, p \in Nat, k \in Nat : l = Rounds /\ p = Sleep(Rounds) /\ k = RoundLength /\ k = l + p
  BY RoundTakes
<1>3. n <= l + 1 /\ s <= p /\ r \in 1 .. l
  BY <1>1, <1>2
<1>4. Age(r) = IF n > r THEN n - 1 - r ELSE n - 1 + k - s - r
  BY <1>1, <1>2 DEF Age
<1>5. k = l + p
  BY <1>2
<1>6. CASE n > r
  <2>1. n - 1 - r \in Nat /\ n - 1 - r <= k - 1
    BY <1>3, <1>5, <1>6
  <2> QED
    BY <1>2, <1>4, <1>6, <2>1
<1>7. CASE ~(n > r)
  <2>1. n - 1 + k - s - r \in Nat /\ n - 1 + k - s - r <= k - 1
    BY <1>3, <1>5, <1>7
  <2> QED
    BY <1>2, <1>4, <1>7, <2>1
<1> QED
  BY <1>6, <1>7

\* A request makes the others a slot older; it is the one that is due.
LEMMA PollAges ==
  ASSUME BoardsAndTimes, BoardsInv, AtRequest, Poll, NEW j, j = timer.next, polled'.n = polled.n + 1
  PROVE  /\ AtRequest' /\ j \in 1 .. Rounds /\ IdOf(polled.n + 1) = AllRequests[j]
         /\ \A r \in 1 .. Rounds : Age(r)' = IF r = j THEN 0 ELSE Age(r) + 1
<1>1. PICK n \in Nat \ {0}, d \in Nat :
        /\ timer = [next |-> n, sleep |-> 0, delay |-> d] /\ d = n - 1
        /\ n <= Rounds
  <2>1. PICK n \in Nat \ {0}, s \in Nat, d \in Nat : timer = [next |-> n, sleep |-> s, delay |-> d] /\ d = n - 1
    BY TimerFields DEF BoardsInv
  <2>2. s = 0 /\ n <= Rounds
    BY <2>1 DEF Poll, Rounds
  <2> QED
    BY <2>1, <2>2
<1>2. timer' = [next |-> n + 1, sleep |-> 0, delay |-> n]
  <2>1. timer' = [next |-> n + 1, sleep |-> 0, delay |-> d + 1]
    <3>1. timer' = [timer EXCEPT !.next = @ + 1, !.delay = @ + 1]
      BY DEF Poll
    <3>2. timer = [next |-> n, sleep |-> 0, delay |-> d]
      BY <1>1
    <3> QED
      BY <3>1, <3>2
  <2> QED
    BY <1>1, <2>1
<1>3. PICK l \in Nat \ {0}, p \in Nat, k \in Nat : l = Rounds /\ p = Sleep(Rounds) /\ k = RoundLength /\ k = l + p
  BY <1>1, RoundTakes
<1>4. n <= l
  BY <1>1, <1>3
<1>5. PICK m \in Nat : m = polled.n
  BY DEF BoardsInv
<1>6. m % l = n - 1
  <2>1. m % l = IF n = l + 1 THEN 0 ELSE n - 1
    BY <1>1, <1>3, <1>5 DEF AtRequest
  <2> QED
    BY <1>4, <2>1
<1>7. (m + 1) % l = IF n + 1 = l + 1 THEN 0 ELSE n + 1 - 1
  <2>1. (m + 1) % l = IF (m % l) + 1 = l THEN 0 ELSE (m % l) + 1
    BY CountsOn
  <2> QED
    BY <1>4, <1>6, <2>1
<1>8. AtRequest'
  <2>1. n + 1 <= l + 1 /\ n = n + 1 - 1
    BY <1>4
  <2>2. 0 \in 0 .. p
    BY <1>3
  <2> QED
    BY <1>2, <1>3, <1>5, <1>7, <2>1, <2>2, RequestsStay DEF AtRequest
<1>9. IdOf(m + 1) = AllRequests[n]
  <2>1. ((m + 1 - 1) % l) + 1 = n
    BY <1>6
  <2> QED
    BY <1>3, <2>1 DEF IdOf, AllRequests, Rounds
<1>10. ASSUME NEW r \in 1 .. l PROVE Age(r)' = IF r = n THEN 0 ELSE Age(r) + 1
  <2>1. RoundLength' = k
    BY <1>3, RequestsStay
  <2>2. Age(r) = IF n > r THEN n - 1 - r ELSE n - 1 + k - 0 - r
    BY <1>1, <1>3 DEF Age
  <2>3. Age(r)' = IF n + 1 > r THEN n + 1 - 1 - r ELSE n + 1 - 1 + k - 0 - r
    BY <1>2, <2>1 DEF Age
  <2> QED
    BY <2>2, <2>3
<1> QED
  BY <1>1, <1>3, <1>4, <1>5, <1>8, <1>9, <1>10

\* A slot of the pause makes all requests a slot older.
LEMMA SleepAges ==
  ASSUME BoardsAndTimes, BoardsInv, AtRequest, SleepSlot
  PROVE  AtRequest' /\ \A r \in 1 .. Rounds : Age(r)' = Age(r) + 1
<1>1. PICK s \in Nat : timer = [next |-> 1, sleep |-> s, delay |-> 0] /\ s > 0 /\ s <= Sleep(Rounds)
  <2>1. PICK n \in Nat \ {0}, s \in Nat, d \in Nat :
          /\ timer = [next |-> n, sleep |-> s, delay |-> d] /\ d = n - 1
          /\ s <= Sleep(Rounds) /\ (s > 0 => n = 1)
    BY TimerFields DEF BoardsInv
  <2>2. s > 0
    BY <2>1 DEF SleepSlot
  <2>3. n = 1 /\ d = 0
    BY <2>1, <2>2
  <2> QED
    BY <2>1, <2>2, <2>3
<1>2. timer' = [next |-> 1, sleep |-> s - 1, delay |-> 0] /\ polled' = polled
  <2>1. timer' = [timer EXCEPT !.sleep = @ - 1] /\ polled' = polled
    BY DEF SleepSlot
  <2>2. timer = [next |-> 1, sleep |-> s, delay |-> 0]
    BY <1>1
  <2> QED
    BY <2>1, <2>2
<1>3. PICK l \in Nat, p \in Nat, k \in Nat : l = Rounds /\ p = Sleep(Rounds) /\ k = RoundLength
  BY RoundTakes
<1>4. s - 1 \in 0 .. p
  BY <1>1, <1>3
<1>5. l > 0 => polled.n % l = IF 1 = l + 1 THEN 0 ELSE 0
  BY <1>1, <1>3 DEF AtRequest
<1>6. AtRequest'
  BY <1>2, <1>3, <1>4, <1>5, RequestsStay DEF AtRequest
<1>7. ASSUME NEW r \in 1 .. l PROVE Age(r)' = Age(r) + 1
  <2>1. Age(r) = 0 + k - s - r
    BY <1>1, <1>3 DEF Age
  <2>2. Age(r)' = 0 + k - (s - 1) - r
    BY <1>2, <1>3, RequestsStay DEF Age
  <2> QED
    BY <2>1, <2>2
<1> QED
  BY <1>3, <1>6, <1>7

\* The end of the round makes none of them older: its pause begins.
LEMMA EndAges ==
  ASSUME BoardsAndTimes, BoardsInv, AtRequest, EndRound
  PROVE  AtRequest' /\ \A r \in 1 .. Rounds : Age(r)' = Age(r)
<1>1. PICK l \in Nat, p \in Nat, k \in Nat : l = Rounds /\ p = Sleep(Rounds) /\ k = RoundLength /\ k = l + p
  BY RoundTakes
<1>2. timer = [next |-> l + 1, sleep |-> 0, delay |-> l]
  <2>1. PICK n \in Nat \ {0}, s \in Nat, d \in Nat :
          timer = [next |-> n, sleep |-> s, delay |-> d] /\ d = n - 1 /\ n <= l + 1
    BY <1>1, TimerFields DEF BoardsInv
  <2>2. s = 0 /\ n > l
    BY <1>1, <2>1 DEF EndRound, Rounds
  <2>3. n = l + 1 /\ d = l
    BY <2>1, <2>2
  <2> QED
    BY <2>1, <2>2, <2>3
<1>3. timer' = [next |-> 1, sleep |-> p, delay |-> 0] /\ polled' = polled
  BY <1>1, <1>2 DEF EndRound
<1>4. l > 0 => polled.n % l = 0
  BY <1>1, <1>2 DEF AtRequest
<1>5. AtRequest'
  BY <1>1, <1>3, <1>4, RequestsStay DEF AtRequest
<1>6. ASSUME NEW r \in 1 .. l PROVE Age(r)' = Age(r)
  <2>1. Age(r) = l - r
    BY <1>2 DEF Age
  <2>2. Age(r)' = 0 + k - p - r
    BY <1>1, <1>3, RequestsStay DEF Age
  <2>3. k = l + p
    BY <1>1
  <2> QED
    BY <2>1, <2>2, <2>3
<1> QED
  BY <1>1, <1>5, <1>6

\* The answer to request m is on the line, its last byte, at e, behind the window.
ComesAt(m, e) ==
  /\ e > Len(window) /\ e <= Total /\ e >= FrameSize
  /\ \A i \in 1 .. FrameSize : Line(e - FrameSize + i) = <<m, i>>
Coming(m) == \E e \in Nat : ComesAt(m, e)

\* Reading moves the whole line.
LEMMA LineMoves ==
  ASSUME BoardsAndTimes, BoardsInv, NEW c \in Nat, c <= Len(ring), Goes(c), driver' = driver
  PROVE  /\ Total' = Total - Left(c)
         /\ \A j \in Nat \ {0} : Line(j)' = Line(Left(c) + j)
<1>1. PICK l \in Nat, r \in Nat, d \in Nat : l = Len(window) /\ r = Len(ring) /\ d = Len(driver)
  BY Lengths
<1>2. PICK f \in Nat : f = Left(c) /\ f <= l + c
  BY <1>1, Leaving
<1>3. c <= r
  BY <1>1
<1>4. PICK v \in Nat, s \in Nat : v = l + c - f /\ s = r - c
  BY <1>2, <1>3
<1>5. Len(window') = v /\ Len(ring') = s
  BY <1>1, <1>2, <1>4 DEF Goes
<1>6. v = l + c - f /\ s = r - c
  BY <1>4
<1>7. Total' = Total - f
  <2>1. Total = l + r + d
    BY <1>1 DEF Total
  <2>2. Total' = v + s + d
    BY <1>1, <1>5 DEF Total
  <2> QED
    BY <1>6, <2>1, <2>2
<1>8. ASSUME NEW j \in Nat \ {0} PROVE Line(j)' = Line(f + j)
  <2>1. Line(j)' = IF j <= v THEN window'[j] ELSE IF j <= v + s THEN ring'[j - v] ELSE driver[j - v - s]
    BY <1>5 DEF Line
  <2>2. CASE j <= v
    <3>1. window'[j] = Line(f + j)
      BY <1>2, <1>5, <2>2 DEF Goes
    <3> QED
      BY <2>1, <2>2, <3>1
  <2>3. CASE j > v /\ j <= v + s
    <3>1. PICK i \in 1 .. s : i = j - v
      BY <2>3
    <3>2. ring'[i] = ring[c + i]
      BY <1>5, <3>1 DEF Goes
    <3>3. f + j > l /\ f + j <= l + r /\ f + j - l = c + i
      BY <1>3, <1>6, <2>3, <3>1
    <3>4. Line(f + j) = ring[f + j - l]
      BY <1>1, <3>3 DEF Line
    <3> QED
      BY <2>1, <2>3, <3>1, <3>2, <3>3, <3>4
  <2>4. CASE j > v + s
    <3>1. f + j > l + r /\ f + j > l /\ f + j - l - r = j - v - s /\ j > v
      BY <1>6, <2>4
    <3>2. Line(f + j) = driver[f + j - l - r]
      BY <1>1, <3>1 DEF Line
    <3> QED
      BY <2>1, <2>4, <3>1, <3>2
  <2> QED
    BY <2>2, <2>3, <2>4
<1> QED
  BY <1>2, <1>7, <1>8

\* What is coming is still coming after an iteration, or its value is stored.
LEMMA ReadsComing ==
  ASSUME BoardsAndTimes, BoardsInv, Fits, Streaming, driver' = driver, NEW m, Coming(m)
  PROVE  \/ Coming(m)'
         \/ m \in Requested /\ shown' = SensorValueReadToNode(m)
<1>1. PICK c \in Nat :
        /\ c <= Len(ring) /\ Goes(c) /\ window' \in Seq(Bytes)
        /\ c > 0 /\ IsFrame(window') => shown' = SensorValueReadToNode(window'[1][1])
        /\ \A n \in Nat : n > 0 /\ n <= Len(ring) /\ IsFrame(Shifted(n)) => n >= c /\ IsFrame(window')
  BY Reads DEF Fits
<1>2. PICK e \in Nat : ComesAt(m, e)
  BY DEF Coming
<1>3. PICK l \in Nat, r \in Nat, f \in Nat : l = Len(window) /\ r = Len(ring) /\ f = Left(c)
  BY Lengths, Leaving
<1>4. f <= l + c /\ ((f = 0 /\ l + c < FrameSize) \/ f = l + c - FrameSize) /\ FrameSize \in Nat \ {0, 1}
  BY <1>3, Leaving, Lengths
<1>5. e > l /\ e >= FrameSize /\ e <= Total /\ c <= r
  BY <1>1, <1>2, <1>3 DEF ComesAt
<1>6. CASE e > l + c
  <2>1. PICK x \in Nat : x = e - f /\ x >= FrameSize /\ x > l + c - f
    <3>1. e - f >= FrameSize /\ e - f > l + c - f /\ e - f \in Nat
      BY <1>4, <1>5, <1>6
    <3> QED
      BY <3>1
  <2>2. x > Len(window')
    BY <1>1, <1>3, <2>1 DEF Goes
  <2>3. x <= Total'
    <3>1. Total' = Total - f /\ Total \in Nat
      <4>1. Goes(c) /\ c <= Len(ring) /\ f = Left(c)
        BY <1>1, <1>3
      <4> QED
        BY <4>1, LineMoves, Lengths DEF Total
    <3>2. x = e - f
      BY <2>1
    <3> QED
      BY <1>5, <3>1, <3>2
  <2>4. ASSUME NEW i \in 1 .. FrameSize PROVE Line(x - FrameSize + i)' = <<m, i>>
    <3>1. PICK j \in Nat \ {0} : j = x - FrameSize + i
      BY <1>4, <2>1
    <3>2. x = e - f
      BY <2>1
    <3>3. f + j = e - FrameSize + i
      BY <1>4, <3>1, <3>2
    <3>4. Line(j)' = Line(f + j)
      BY <1>1, <1>3, LineMoves
    <3>5. Line(e - FrameSize + i) = <<m, i>>
      BY <1>2 DEF ComesAt
    <3>6. Line(x - FrameSize + i)' = Line(j)'
      BY <3>1 DEF Line
    <3> QED
      BY <3>3, <3>4, <3>5, <3>6
  <2>5. ComesAt(m, x)'
    BY <2>1, <2>2, <2>3, <2>4 DEF ComesAt
  <2> QED
    BY <2>5 DEF Coming
<1>7. CASE e <= l + c
  <2>1. PICK n \in Nat : n = e - l /\ n > 0 /\ n <= c /\ n <= r
    <3>1. e - l \in Nat /\ e - l > 0 /\ e - l <= c /\ e - l <= r
      BY <1>5, <1>7
    <3> QED
      BY <3>1
  <2>2. l + n = e
    <3>1. n = e - l
      BY <2>1
    <3> QED
      BY <3>1
  <2>3. Left(n) = e - FrameSize
    <3>1. PICK g \in Nat : g = Left(n) /\ ((g = 0 /\ l + n < FrameSize) \/ g = l + n - FrameSize)
      BY <1>3, Leaving
    <3>2. g = e - FrameSize
      <4>1. (g = 0 /\ l + n < FrameSize) \/ g = l + n - FrameSize
        BY <3>1
      <4> QED
        BY <1>4, <1>5, <2>2, <4>1
    <3> QED
      BY <3>1, <3>2
  <2>4. PICK w \in Seq(Bytes) : w = Shifted(n) /\ Len(w) = l + n - Left(n) /\ \A i \in 1 .. Len(w) : w[i] = Line(Left(n) + i)
    BY <1>3, <2>1, ShowsLine DEF Fits
  <2>5. Len(w) = FrameSize
    <3>1. l + n - (e - FrameSize) = FrameSize
      BY <1>4, <2>2
    <3> QED
      BY <2>3, <2>4, <3>1
  <2>6. \A i \in 1 .. FrameSize : w[i] = <<m, i>>
    BY <1>2, <2>3, <2>4, <2>5 DEF ComesAt
  <2>7. IsFrame(w)
    BY <2>5, <2>6, FrameSeen
  <2>8. n >= c /\ IsFrame(window')
    BY <1>1, <1>3, <2>1, <2>4, <2>7
  <2>9. n = c /\ c > 0
    <3>1. n <= c /\ n > 0
      BY <2>1
    <3> QED
      BY <2>8, <3>1
  <2>10. 1 \in 1 .. FrameSize /\ w[1] = <<m, 1>> /\ w[1] \in Bytes
    BY <1>4, <2>4, <2>5, <2>6
  <2>11. window'[1] = w[1]
    <3>1. 1 \in 1 .. Len(w) /\ Len(window') = Len(w)
      BY <1>1, <1>3, <1>4, <2>4, <2>5, <2>9 DEF Goes
    <3> QED
      BY <1>1, <2>4, <2>9, <3>1 DEF Goes
  <2>12. m \in Requested
    BY <2>10 DEF Bytes
  <2> QED
    BY <1>1, <2>8, <2>9, <2>10, <2>11, <2>12
<1> QED
  BY <1>4, <1>5, <1>6, <1>7

\* Where the ring has room, what is coming is still coming after the move.
LEMMA MovesComing ==
  ASSUME BoardsAndTimes, BoardsInv, Fits, Move, Len(ring) + Len(driver) <= RingSize - 1, NEW m, Coming(m)
  PROVE  Coming(m)'
<1>1. /\ Len(ring') = Len(ring) + Len(driver) /\ driver' = <<>> /\ window' = window
      /\ \A i \in 1 .. Len(ring') : ring'[i] = IF i <= Len(ring) THEN ring[i] ELSE driver[i - Len(ring)]
  BY Moves
<1>2. PICK e \in Nat : ComesAt(m, e)
  BY DEF Coming
<1>3. PICK l \in Nat, r \in Nat, d \in Nat : l = Len(window) /\ r = Len(ring) /\ d = Len(driver)
  BY Lengths
<1>4. Total = l + r + d /\ Total' = l + r + d
  BY <1>1, <1>3 DEF Total
<1>5. ASSUME NEW j \in 1 .. l + r + d PROVE Line(j)' = Line(j)
  <2>1. Line(j)' = IF j <= l THEN window[j] ELSE ring'[j - l]
    BY <1>1, <1>3 DEF Line
  <2>2. CASE j <= l
    BY <1>3, <2>1, <2>2 DEF Line
  <2>3. CASE j > l
    <3>1. PICK i \in 1 .. r + d : i = j - l
      BY <2>3
    <3>2. ring'[i] = IF i <= r THEN ring[i] ELSE driver[i - r]
      BY <1>1, <1>3, <3>1
    <3>3. (i <= r <=> j <= l + r) /\ i - r = j - l - r
      BY <3>1
    <3>4. Line(j) = IF j <= l + r THEN ring[j - l] ELSE driver[j - l - r]
      BY <1>3, <2>3 DEF Line
    <3> QED
      BY <2>1, <2>3, <3>1, <3>2, <3>3, <3>4
  <2> QED
    BY <2>2, <2>3
<1>6. ComesAt(m, e)'
  <2>1. e > l /\ e <= l + r + d /\ e >= FrameSize /\ \A i \in 1 .. FrameSize : Line(e - FrameSize + i) = <<m, i>>
    BY <1>2, <1>3, <1>4 DEF ComesAt
  <2>2. ASSUME NEW i \in 1 .. FrameSize PROVE Line(e - FrameSize + i)' = <<m, i>>
    <3>1. PICK j \in 1 .. l + r + d : j = e - FrameSize + i
      BY <2>1, Lengths
    <3>2. Line(e - FrameSize + i)' = Line(j)' /\ Line(e - FrameSize + i) = Line(j)
      BY <3>1 DEF Line
    <3> QED
      BY <1>5, <2>1, <3>2
  <2> QED
    BY <1>1, <1>3, <1>4, <2>1, <2>2 DEF ComesAt
<1> QED
  BY <1>6 DEF Coming

\* What is coming is still coming when an answer follows it.
LEMMA PollsComing ==
  ASSUME BoardsAndTimes, BoardsInv, driver = <<>>, UNCHANGED <<ring, window>>, Len(driver') \in Nat, NEW m, Coming(m)
  PROVE  Coming(m)'
<1>1. PICK e \in Nat : ComesAt(m, e)
  BY DEF Coming
<1>2. PICK l \in Nat, r \in Nat, d \in Nat : l = Len(window) /\ r = Len(ring) /\ d = Len(driver')
  BY Lengths
<1>3. Total = l + r /\ Total' = l + r + d
  BY <1>2 DEF Total
<1>4. e > l /\ e <= l + r /\ e >= FrameSize /\ \A i \in 1 .. FrameSize : Line(e - FrameSize + i) = <<m, i>>
  BY <1>1, <1>2, <1>3 DEF ComesAt
<1>5. ASSUME NEW i \in 1 .. FrameSize PROVE Line(e - FrameSize + i)' = <<m, i>>
  <2>1. PICK j \in 1 .. l + r : j = e - FrameSize + i
    BY <1>4, Lengths
  <2>2. Line(j)' = Line(j)
    BY <1>2 DEF Line
  <2>3. Line(e - FrameSize + i)' = Line(j)' /\ Line(e - FrameSize + i) = Line(j)
    BY <2>1 DEF Line
  <2> QED
    BY <1>4, <2>2, <2>3
<1>6. ComesAt(m, e)'
  BY <1>2, <1>3, <1>4, <1>5 DEF ComesAt
<1> QED
  BY <1>6 DEF Coming

\* An answer that is whole is coming.
LEMMA AnswerComes ==
  ASSUME BoardsAndTimes, BoardsInv, UNCHANGED <<ring, window>>, NEW m, driver' = Frame(m)
  PROVE  Coming(m)'
<1>1. PICK l \in Nat, r \in Nat : l = Len(window) /\ r = Len(ring)
  BY Lengths
<1>2. FrameSize \in Nat \ {0, 1} /\ Len(driver') = FrameSize /\ \A i \in 1 .. FrameSize : driver'[i] = <<m, i>>
  BY FrameBytes, Lengths
<1>3. PICK e \in Nat : e = l + r + FrameSize
  BY <1>2
<1>4. Total' = l + r + FrameSize
  BY <1>1, <1>2 DEF Total
<1>5. ASSUME NEW i \in 1 .. FrameSize PROVE Line(e - FrameSize + i)' = <<m, i>>
  <2>1. PICK j \in Nat : j = e - FrameSize + i /\ j > l + r /\ j > l /\ j - l - r = i
    <3>1. e = l + r + FrameSize
      BY <1>3
    <3>2. l + r + i \in Nat /\ l + r + i = e - FrameSize + i
      BY <1>2, <3>1
    <3> QED
      BY <3>2
  <2>2. Line(j)' = driver'[j - l - r]
    BY <1>1, <2>1 DEF Line
  <2>3. Line(e - FrameSize + i)' = Line(j)'
    BY <2>1 DEF Line
  <2> QED
    BY <1>2, <2>1, <2>2, <2>3
<1>6. e > l /\ e >= FrameSize /\ e <= l + r + FrameSize
  <2>1. e = l + r + FrameSize
    BY <1>3
  <2> QED
    BY <1>2, <2>1
<1>7. ComesAt(m, e)'
  BY <1>1, <1>4, <1>5, <1>6 DEF ComesAt
<1> QED
  BY <1>7 DEF Coming

\* An answer is told by its request, and a dead board gives none.
Answering ==
  /\ polled.answered \in [Ids -> Nat]
  /\ \A id \in Ids : polled.answered[id] > 0 => IdOf(polled.answered[id]) = id
  /\ \A id \in Ids : Dead(id) => polled.answered[id] = 0

\* The last answer to id is shown or is coming.
Safe(id) ==
  MaySend(id) =>
    \/ shown[SearchIndexSensorNode(id.low)][id.data] >= polled.answered[id]
    \/ Coming(polled.answered[id])

\* What was asked for in calm slots is safe.
Asking == calm > 1 => \A r \in 1 .. Rounds : Age(r) <= calm - 2 => Safe(AllRequests[r])

\* Safety in the next state.
LEMMA SafeNext ==
  ASSUME NEW id, NEW m, m = polled'.answered[id],
         MaySend(id) => shown'[SearchIndexSensorNode(id.low)][id.data] >= m \/ Coming(m)'
  PROVE  Safe(id)'
<1>1. MaySend(id)' <=> MaySend(id)
  BY DEF MaySend, Kinds
<1>2. SearchIndexSensorNode(id.low)' = SearchIndexSensorNode(id.low)
  BY DEF SearchIndexSensorNode, Min
<1>3. Coming(polled.answered[id])' <=> Coming(m)'
  BY DEF Coming, ComesAt, Total, Line
<1> QED
  BY <1>1, <1>2, <1>3 DEF Safe

\* What the invariant says in the next state.
LEMMA AskingNext ==
  ASSUME calm' > 1 => \A r \in 1 .. Rounds : Age(r)' <= calm' - 2 => Safe(AllRequests[r])'
  PROVE  Asking'
<1>1. Rounds' = Rounds
  BY RequestsStay
<1> QED
  BY <1>1 DEF Asking

\* The r-th request of a round is the request of a board, whose place is the node's.
LEMMA RequestPlace ==
  ASSUME BoardsAndTimes, NEW r \in 1 .. Rounds, NEW id, id = AllRequests[r]
  PROVE  /\ id \in Ids
         /\ SearchIndexSensorNode(id.low) \in DOMAIN Boards
         /\ Boards[SearchIndexSensorNode(id.low)].canid.low = id.low
         /\ MaySend(id) => id.data \in Kinds
<1>1. PICK l \in Nat \ {0} : l = Rounds /\ r \in 1 .. l
  BY RequestsMade DEF Rounds
<1>2. r \in Requested
  BY <1>1 DEF Requested, Rounds
<1>3. id = IdOf(r)
  <2>1. PICK v \in Nat : v = r - 1 /\ v < l
    BY <1>1
  <2>2. v % l = v
    BY <1>1, <2>1, CountsOn
  <2>3. ((r - 1) % l) + 1 = r
    BY <2>1, <2>2
  <2> QED
    BY <1>1, <2>3 DEF IdOf, AllRequests, Rounds
<1>4. id \in Ids
  BY RequestsMade DEF Rounds
<1>5. MaySend(id) => id.data \in Kinds
  BY DEF MaySend, Kinds, Kinds
<1> QED
  BY <1>2, <1>3, <1>4, <1>5, NodeOfAnswer

\* What was safe before the ring is read is so after it.
LEMMA SafeRead ==
  ASSUME BoardsAndTimes, BoardsInv, Fits, Ordered, Answering, Streaming, UNCHANGED <<driver, polled, timer>>,
         NEW r \in 1 .. Rounds, Safe(AllRequests[r])
  PROVE  Safe(AllRequests[r])'
<1>1. PICK id : id = AllRequests[r]
  OBVIOUS
<1>2. /\ id \in Ids /\ SearchIndexSensorNode(id.low) \in DOMAIN Boards
      /\ MaySend(id) => id.data \in Kinds
  BY <1>1, RequestPlace
<1>3. PICK m \in Nat : m = polled.answered[id] /\ (m > 0 => IdOf(m) = id)
  BY <1>2 DEF Answering
<1>4. PICK n : n = SearchIndexSensorNode(id.low)
  OBVIOUS
<1>5. MaySend(id) => shown'[n][id.data] >= m \/ Coming(m)'
  <2> SUFFICES ASSUME MaySend(id) PROVE shown'[n][id.data] >= m \/ Coming(m)'
    OBVIOUS
  <2>1. n \in DOMAIN Boards /\ id.data \in Kinds
    BY <1>2, <1>4
  <2>2. CASE shown[n][id.data] >= m
    <3>1. shown'[n][id.data] >= shown[n][id.data]
      BY <2>1, ReadsInOrder
    <3>2. shown[n][id.data] \in Nat /\ shown'[n][id.data] \in Nat
      <4>1. BoardsInv => shown[n][id.data] \in Nat
        BY <2>1 DEF BoardsInv
      <4>2. shown' \in [DOMAIN Boards -> [Kinds -> Nat]]
        BY StreamingKeeps DEF BoardsInv, Kinds
      <4> QED
        BY <2>1, <4>1, <4>2
    <3> QED
      BY <2>2, <3>1, <3>2
  <2>3. CASE Coming(m)
    <3>1. CASE m \in Requested /\ shown' = SensorValueReadToNode(m)
      <4>1. IdOf(m) = id
        BY <1>3, <3>1 DEF Requested
      <4>2. shown'[n][id.data] = m
        BY <1>4, <3>1, <4>1, StoredThere
      <4> QED
        BY <4>2
    <3> QED
      BY <2>3, <3>1, ReadsComing
  <2>4. shown[n][id.data] >= m \/ Coming(m)
    BY <1>1, <1>3, <1>4 DEF Safe
  <2> QED
    BY <2>2, <2>3, <2>4
<1> QED
  BY <1>1, <1>3, <1>4, <1>5, SafeNext

\* What holds between the steps: the types, the order, the backlog, and the requests that are safe.
FreshInv == BoardsInv /\ Fits /\ Ordered /\ Stepping /\ WorkedOff /\ AtRequest /\ Answering /\ Asking

\* The end of a slot.
LEMMA SlotSteps ==
  ASSUME BoardsAndTimes, Stepping, NEW q \in BOOLEAN, NextSlot(q), conn' = conn, faults' \in Nat
  PROVE  /\ Stepping'
         /\ calm' > 0 => q /\ calm' <= calm + 1
<1>1. /\ main'.pc = main.pc /\ main'.did = 0
      /\ main'.busy = IF main.busy > 0 THEN main.busy - 1 ELSE 0
      /\ main' \in [pc : {"startup", "loop"}, busy : Nat, did : Nat]
  <2>1. PICK p \in {"startup", "loop"}, b \in Nat, d \in Nat : main = [pc |-> p, busy |-> b, did |-> d]
    BY DEF Stepping
  <2>2. PICK c \in Nat : c = IF b > 0 THEN b - 1 ELSE 0
    OBVIOUS
  <2>3. main' = [pc |-> p, busy |-> c, did |-> 0]
    BY <2>1, <2>2 DEF NextSlot
  <2> QED
    BY <2>1, <2>2, <2>3
<1>2. Settled \in Nat /\ calm \in 0 .. Settled
  BY DEF BoardsAndTimes, Stepping
<1>3. calm' = IF q /\ conn /\ main.busy = 0 /\ main.pc = "loop" THEN Min({calm + 1, Settled}) ELSE 0
  BY DEF NextSlot
<1>4. Min({calm + 1, Settled}) \in 0 .. Settled /\ Min({calm + 1, Settled}) <= calm + 1
  <2>1. PICK u \in Nat : u = calm + 1
    BY <1>2
  <2>2. Min({u, Settled}) \in 0 .. Settled /\ Min({u, Settled}) <= u
    BY <1>2 DEF Min
  <2> QED
    BY <2>1, <2>2
<1>5. calm' \in 0 .. Settled /\ (calm' > 0 => q /\ calm' <= calm + 1 /\ Connected)
  BY <1>2, <1>3, <1>4 DEF Connected
<1>6. calm' > 0 => Connected'
  BY <1>1, <1>5 DEF Connected
<1> QED
  BY <1>1, <1>5, <1>6 DEF Stepping

\* A request that is answered in a calm slot is safe, and so are those that were.
LEMMA PollFresh ==
  ASSUME BoardsAndTimes, KeepsUp, FreshInv, Poll
  PROVE  FreshInv'
<1>1. BoardsInv /\ Fits /\ Ordered /\ Stepping /\ WorkedOff /\ AtRequest /\ Answering /\ Asking
  BY DEF FreshInv
<1>2. PICK n, j, id : n \in Nat /\ n = polled.n + 1 /\ j = timer.next /\ id = AllRequests[j]
  BY <1>1 DEF BoardsInv
<1>3. /\ polled'.n = n /\ driver = <<>> /\ moved
      /\ Len(driver') \in Nat
      /\ \/ driver' = Frame(n) /\ ~Dead(id) /\ polled'.answered = [polled.answered EXCEPT ![id] = n]
         \/ polled'.answered = polled.answered /\ (Dead(id) \/ faults' # faults)
      /\ UNCHANGED <<ring, window, shown>>
  BY <1>1, <1>2, Polls DEF Stepping
<1>4. BoardsInv' /\ Ordered' /\ Fits'
  BY <1>1, PollKeeps, PollsInOrder DEF Stepping
<1>5. NextSlot(faults' = faults) /\ conn' = conn /\ dead' = dead /\ SlotOver
  BY DEF Poll
<1>6. Stepping' /\ (calm' > 0 => faults' = faults /\ calm' <= calm + 1)
  <2>1. faults' \in Nat
    BY <1>1 DEF Poll, Stepping
  <2> QED
    BY <1>1, <1>5, <2>1, SlotSteps
<1>7. WorkedOff'
  BY <1>1, <1>2, <1>3, <1>5, SlotWorksOff
<1>8. /\ AtRequest' /\ j \in 1 .. Rounds /\ IdOf(n) = id
      /\ \A r \in 1 .. Rounds : Age(r)' = IF r = j THEN 0 ELSE Age(r) + 1
  BY <1>1, <1>2, <1>3, PollAges
<1>9. id \in Ids
  BY <1>2, <1>8, RequestPlace
<1>10. Answering'
  <2>1. polled.answered \in [Ids -> Nat]
    BY <1>1 DEF Answering
  <2>2. Ids' = Ids /\ \A x : IdOf(x)' = IdOf(x)
    BY DEF Ids, IdOf, RequestsOf, Requests, ToSet, FlattenSeq
  <2>3. \A x : Dead(x)' <=> Dead(x)
    BY <1>5 DEF Dead, Requests, ToSet
  <2>4. CASE polled'.answered = polled.answered
    BY <1>1, <2>2, <2>3, <2>4 DEF Answering
  <2>5. CASE polled'.answered = [polled.answered EXCEPT ![id] = n] /\ ~Dead(id)
    <3>1. \A x \in Ids : polled'.answered[x] = IF x = id THEN n ELSE polled.answered[x]
      BY <2>1, <2>5
    <3>2. polled'.answered \in [Ids -> Nat]
      BY <1>2, <2>1, <2>5
    <3>3. ASSUME NEW x \in Ids
          PROVE  /\ polled'.answered[x] > 0 => IdOf(polled'.answered[x]) = x
                 /\ Dead(x) => polled'.answered[x] = 0
      <4>1. CASE x = id
        BY <1>8, <2>5, <3>1, <4>1
      <4>2. CASE x # id
        BY <1>1, <3>1, <4>2 DEF Answering
      <4> QED
        BY <4>1, <4>2
    <3> QED
      BY <2>2, <2>3, <3>2, <3>3 DEF Answering
  <2> QED
    BY <1>3, <2>4, <2>5
<1>11. Asking'
  <2> SUFFICES ASSUME calm' > 1, NEW r \in 1 .. Rounds, Age(r)' <= calm' - 2 PROVE Safe(AllRequests[r])'
    BY AskingNext
  <2>1. PICK x : x = AllRequests[r]
    OBVIOUS
  <2>2. /\ x \in Ids /\ SearchIndexSensorNode(x.low) \in DOMAIN Boards
        /\ MaySend(x) => x.data \in Kinds
    BY <2>1, RequestPlace
  <2>3. polled.answered \in [Ids -> Nat] /\ \A b \in DOMAIN Boards : \A k \in Kinds : shown[b][k] \in Nat
    BY <1>1 DEF Answering, BoardsInv
  <2>4. calm' \in Nat /\ calm \in Nat /\ faults' = faults /\ calm' <= calm + 1
    BY <1>1, <1>6 DEF Stepping
  <2>5. CASE x = id
    <3>1. CASE driver' = Frame(n) /\ polled'.answered = [polled.answered EXCEPT ![id] = n]
      <4>1. polled'.answered[x] = n
        BY <1>9, <2>3, <2>5, <3>1
      <4>2. Coming(n)'
        BY <1>1, <1>3, <3>1, AnswerComes
      <4> QED
        BY <2>1, <4>1, <4>2, SafeNext
    <3>2. CASE polled'.answered = polled.answered /\ Dead(id)
      <4>1. polled'.answered[x] = 0
        BY <1>1, <1>9, <2>5, <3>2 DEF Answering
      <4>2. MaySend(x) => shown'[SearchIndexSensorNode(x.low)][x.data] >= 0
        BY <1>3, <2>2, <2>3
      <4> QED
        BY <2>1, <4>1, <4>2, SafeNext
    <3> QED
      BY <1>3, <2>4, <3>1, <3>2
  <2>6. CASE x # id
    <3>1. r # j
      BY <1>2, <2>1, <2>6
    <3>2. Age(r) \in Nat /\ Age(r)' = Age(r) + 1
      BY <1>1, <1>8, <3>1, Ages DEF BoardsInv
    <3>3. calm > 1 /\ Age(r) <= calm - 2
      BY <2>4, <3>2
    <3>4. Safe(x)
      BY <1>1, <2>1, <3>3 DEF Asking
    <3>5. PICK m : m = polled.answered[x] /\ m = polled'.answered[x]
      BY <1>3, <2>2, <2>3, <2>6
    <3>6. Coming(m) => Coming(m)'
      BY <1>1, <1>3, PollsComing
    <3>7. MaySend(x) => shown'[SearchIndexSensorNode(x.low)][x.data] >= m \/ Coming(m)'
      BY <1>3, <3>4, <3>5, <3>6 DEF Safe
    <3> QED
      BY <2>1, <3>5, <3>7, SafeNext
  <2> QED
    BY <2>5, <2>6
<1> QED
  BY <1>4, <1>6, <1>7, <1>8, <1>10, <1>11 DEF FreshInv

\* Where no byte moves and no answer comes, what was safe stays so.
LEMMA LineStays ==
  ASSUME UNCHANGED <<window, ring, driver, shown, polled>>
  PROVE  /\ Ordered => Ordered'
         /\ \A id : Safe(id) => Safe(id)'
<1>1. Ordered => Ordered'
  BY DEF Ordered
<1>2. ASSUME NEW id, Safe(id) PROVE Safe(id)'
  <2>1. PICK m : m = polled.answered[id] /\ m = polled'.answered[id]
    OBVIOUS
  <2>2. Coming(m) => Coming(m)'
    BY DEF Coming, ComesAt, Total, Line
  <2>3. MaySend(id) => shown'[SearchIndexSensorNode(id.low)][id.data] >= m \/ Coming(m)'
    BY <1>2, <2>1, <2>2 DEF Safe
  <2> QED
    BY <2>1, <2>3, SafeNext
<1> QED
  BY <1>1, <1>2

\* Without a request the answers are the same.
LEMMA AnsweringStays ==
  ASSUME Answering, UNCHANGED <<polled, dead>>
  PROVE  Answering'
<1>1. Ids' = Ids /\ \A x : IdOf(x)' = IdOf(x)
  BY DEF Ids, IdOf, RequestsOf, Requests, ToSet, FlattenSeq
<1>2. \A x : Dead(x)' <=> Dead(x)
  BY DEF Dead, Requests, ToSet
<1> QED
  BY <1>1, <1>2 DEF Answering

\* Where the main loop and the line stay, so does the backlog.
LEMMA StepsStay ==
  ASSUME Fits, Stepping, WorkedOff, UNCHANGED <<window, ring, driver, polled, conn, faults, main, moved, calm>>
  PROVE  Fits' /\ Stepping' /\ WorkedOff'
<1>1. Connected' = Connected /\ Backlog' = Backlog /\ Spare(calm)' = Spare(calm)
  BY DEF Connected, Backlog, Framed, IsFrame, Frame, Spare, LeftOf
<1>2. Fits' /\ Stepping'
  BY <1>1 DEF Fits, Stepping
<1>3. WorkedOff'
  BY <1>1 DEF WorkedOff
<1> QED
  BY <1>2, <1>3

\* A slot of the pause.
LEMMA SleepFresh ==
  ASSUME BoardsAndTimes, KeepsUp, FreshInv, SleepSlot
  PROVE  FreshInv'
<1>1. BoardsInv /\ Fits /\ Ordered /\ Stepping /\ WorkedOff /\ AtRequest /\ Answering /\ Asking
  BY DEF FreshInv
<1>2. /\ NextSlot(TRUE) /\ SlotOver
      /\ UNCHANGED <<window, ring, driver, shown, polled, conn, faults, dead>>
  BY DEF SleepSlot
<1>3. BoardsInv'
  BY <1>1, BoardsKept DEF Next
<1>4. Fits'
  BY <1>1, <1>2 DEF Fits, NextSlot
<1>5. Stepping' /\ (calm' > 0 => calm' <= calm + 1)
  <2>1. faults' \in Nat
    BY <1>1, <1>2 DEF Stepping
  <2> QED
    BY <1>1, <1>2, <2>1, SlotSteps
<1>6. WorkedOff'
  BY <1>1, <1>2, SlotWorksOff
<1>7. AtRequest' /\ \A r \in 1 .. Rounds : Age(r)' = Age(r) + 1
  BY <1>1, SleepAges
<1>8. Asking'
  <2> SUFFICES ASSUME calm' > 1, NEW r \in 1 .. Rounds, Age(r)' <= calm' - 2 PROVE Safe(AllRequests[r])'
    BY AskingNext
  <2>1. calm' \in Nat /\ calm \in Nat /\ calm' <= calm + 1
    BY <1>1, <1>5 DEF Stepping
  <2>2. Age(r) \in Nat /\ Age(r)' = Age(r) + 1
    BY <1>1, <1>7, Ages DEF BoardsInv
  <2>3. calm > 1 /\ Age(r) <= calm - 2
    BY <2>1, <2>2
  <2> QED
    BY <1>1, <1>2, <2>3, LineStays DEF Asking
<1> QED
  BY <1>1, <1>2, <1>3, <1>4, <1>5, <1>6, <1>7, <1>8, LineStays, AnsweringStays DEF FreshInv

\* The end of a round.
LEMMA EndFresh ==
  ASSUME BoardsAndTimes, KeepsUp, FreshInv, EndRound
  PROVE  FreshInv'
<1>1. BoardsInv /\ Fits /\ Ordered /\ Stepping /\ WorkedOff /\ AtRequest /\ Answering /\ Asking
  BY DEF FreshInv
<1>2. UNCHANGED <<window, ring, driver, shown, polled, conn, faults, dead, main, moved, calm>>
  BY DEF EndRound
<1>3. BoardsInv'
  BY <1>1, BoardsKept DEF Next
<1>4. Fits' /\ Stepping' /\ WorkedOff'
  BY <1>1, <1>2, StepsStay
<1>5. AtRequest' /\ \A r \in 1 .. Rounds : Age(r)' = Age(r)
  BY <1>1, EndAges
<1>6. Asking'
  <2> SUFFICES ASSUME calm' > 1, NEW r \in 1 .. Rounds, Age(r)' <= calm' - 2 PROVE Safe(AllRequests[r])'
    BY AskingNext
  <2>1. calm > 1 /\ Age(r) <= calm - 2
    BY <1>2, <1>5
  <2> QED
    BY <1>1, <1>2, <2>1, LineStays DEF Asking
<1> QED
  BY <1>1, <1>2, <1>3, <1>4, <1>5, <1>6, LineStays, AnsweringStays DEF FreshInv

\* What is where does not matter for the requests that were made.
LEMMA AtRequestStays ==
  ASSUME AtRequest, UNCHANGED <<timer, polled>>
  PROVE  AtRequest' /\ \A r : Age(r)' = Age(r)
<1>1. Rounds' = Rounds /\ Sleep(Rounds)' = Sleep(Rounds) /\ RoundLength' = RoundLength
  BY RequestsStay
<1> QED
  BY <1>1 DEF AtRequest, Age

\* In calm slots the ring has room for what is moved.
LEMMA RoomInCalm ==
  ASSUME BoardsAndTimes, KeepsUp, BoardsInv, Fits, Stepping, WorkedOff, ~moved, calm > 1
  PROVE  Len(ring) + Len(driver) <= RingSize - 1
<1>1. PICK r \in Nat, d \in Nat, s \in Nat, f \in Nat :
        r = Len(ring) /\ d = Len(driver) /\ s = Spare(calm) /\ f = FrameSize /\ d <= f /\ f > 1
  <2>1. Spare(calm) \in Nat
    BY Spares DEF Stepping
  <2> QED
    BY <2>1, Lengths DEF Fits
<1>2. RingSize \in Nat /\ s + 2 * f <= RingSize - 1 /\ RingSize > 2 * f
  BY <1>1, Spares DEF BoardsAndTimes, KeepsUp, Stepping
<1>3. PICK b \in Nat : b = Backlog /\ b <= s + f
  <2>1. LeftOf(Framed, main.did, s) \in Nat /\ LeftOf(Framed, main.did, s) <= s + f
    BY <1>1 DEF LeftOf
  <2> QED
    BY <1>1, <2>1 DEF Backlog
<1>4. r <= b
  <2>1. calm > 0
    BY DEF Stepping
  <2>2. Connected
    BY <2>1 DEF Stepping
  <2>3. Len(ring) <= Backlog + 0
    BY <2>1, <2>2 DEF WorkedOff
  <2>4. r <= b + 0
    BY <1>1, <1>3, <2>3
  <2> QED
    BY <1>1, <1>3, <2>4
<1>5. r <= b /\ d <= f
  BY <1>1, <1>4
<1>6. b <= s + f
  BY <1>3
<1>7. r + d <= RingSize - 1
  BY <1>2, <1>5, <1>6
<1> QED
  BY <1>1, <1>7

\* RS232_Thread drops nothing that is due.
LEMMA MoveFresh ==
  ASSUME BoardsAndTimes, KeepsUp, FreshInv, Move
  PROVE  FreshInv'
<1>1. BoardsInv /\ Fits /\ Ordered /\ Stepping /\ WorkedOff /\ AtRequest /\ Answering /\ Asking
  BY DEF FreshInv
<1>2. UNCHANGED <<window, shown, polled, conn, faults, dead, main, timer, calm>> /\ ~moved
  BY DEF Move
<1>3. BoardsInv' /\ Ordered' /\ Fits' /\ WorkedOff'
  BY <1>1, BoardsKept, MovesInOrder, MoveWorksOff DEF Next
<1>4. Stepping'
  BY <1>1, <1>2 DEF Stepping, Connected
<1>5. Asking'
  <2> SUFFICES ASSUME calm' > 1, NEW r \in 1 .. Rounds, Age(r)' <= calm' - 2 PROVE Safe(AllRequests[r])'
    BY AskingNext
  <2>1. PICK id : id = AllRequests[r] /\ Safe(id)
    BY <1>1, <1>2, AtRequestStays DEF Asking
  <2>2. PICK m : m = polled.answered[id] /\ m = polled'.answered[id]
    BY <1>2
  <2>3. Coming(m) => Coming(m)'
    BY <1>1, <1>2, RoomInCalm, MovesComing
  <2>4. MaySend(id) => shown'[SearchIndexSensorNode(id.low)][id.data] >= m \/ Coming(m)'
    BY <1>2, <2>1, <2>2, <2>3 DEF Safe
  <2> QED
    BY <2>1, <2>2, <2>4, SafeNext
<1> QED
  BY <1>1, <1>2, <1>3, <1>4, <1>5, AtRequestStays, AnsweringStays DEF FreshInv

\* Reading the ring forgets nothing that is due.
LEMMA ReadFresh ==
  ASSUME BoardsAndTimes, KeepsUp, FreshInv, Streaming, UNCHANGED <<driver, polled, timer, dead, moved, calm>>
  PROVE  BoardsInv' /\ Fits' /\ Ordered' /\ AtRequest' /\ Answering' /\ Asking'
<1>1. BoardsInv /\ Fits /\ Ordered /\ Stepping /\ WorkedOff /\ AtRequest /\ Answering /\ Asking
  BY DEF FreshInv
<1>2. BoardsInv' /\ Ordered' /\ AtRequest' /\ Answering'
  BY <1>1, StreamingKeeps, ReadsInOrder, AtRequestStays, AnsweringStays
<1>3. Fits'
  <2>1. PICK c \in Nat : c <= Len(ring) /\ Goes(c) /\ Len(window') <= FrameSize
    BY <1>1, Reads DEF Fits
  <2>2. Len(ring') <= Len(ring) /\ Len(ring') \in Int
    BY <1>1, <2>1, Lengths DEF Goes
  <2>3. Len(ring') <= RingSize - 1
    BY <1>1, <2>2, Lengths DEF Fits, BoardsAndTimes
  <2> QED
    BY <1>1, <2>1, <2>3 DEF Fits
<1>4. Asking'
  <2> SUFFICES ASSUME calm' > 1, NEW r \in 1 .. Rounds, Age(r)' <= calm' - 2 PROVE Safe(AllRequests[r])'
    BY AskingNext
  <2>1. Safe(AllRequests[r])
    BY <1>1, AtRequestStays DEF Asking
  <2> QED
    BY <1>1, <2>1, SafeRead
<1> QED
  BY <1>2, <1>3, <1>4

\* Before the main loop.
LEMMA StartupFresh ==
  ASSUME BoardsAndTimes, KeepsUp, FreshInv, Startup
  PROVE  FreshInv'
<1>1. BoardsInv /\ Fits /\ Ordered /\ Stepping /\ WorkedOff /\ AtRequest /\ Answering /\ Asking
  BY DEF FreshInv
<1>2. /\ main.pc = "startup"
      /\ UNCHANGED <<driver, polled, timer, dead, moved, calm, conn, faults>>
      /\ \/ main' = [main EXCEPT !.pc = "loop"] /\ UNCHANGED <<window, ring, shown>>
         \/ Streaming /\ main' = main
  BY DEF Startup
<1>3. main.did = 0 /\ calm = 0
  BY <1>1, <1>2 DEF Stepping, Connected
<1>4. main'.did = 0 /\ main' \in [pc : {"startup", "loop"}, busy : Nat, did : Nat]
  BY <1>1, <1>2, <1>3 DEF Stepping
<1>5. Stepping'
  BY <1>1, <1>2, <1>3, <1>4 DEF Stepping
<1>6. WorkedOff'
  BY <1>2, <1>3, <1>4 DEF WorkedOff
<1>7. BoardsInv' /\ Fits' /\ Ordered' /\ AtRequest' /\ Answering' /\ Asking'
  <2>1. CASE Streaming
    BY <1>2, <2>1, ReadFresh
  <2>2. CASE UNCHANGED <<window, ring, shown>>
    <3>1. BoardsInv'
      BY <1>1, BoardsKept DEF Next
    <3>2. Fits'
      BY <1>1, <1>2, <2>2 DEF Fits
    <3>3. Asking'
      BY <1>2, <1>3, AskingNext
    <3> QED
      BY <1>1, <1>2, <2>2, <3>1, <3>2, <3>3, LineStays, AtRequestStays, AnsweringStays
  <2> QED
    BY <1>2, <2>1, <2>2
<1> QED
  BY <1>5, <1>6, <1>7 DEF FreshInv

\* An iteration of the main loop.
LEMMA IterateFresh ==
  ASSUME BoardsAndTimes, KeepsUp, FreshInv, Iterate
  PROVE  FreshInv'
<1>1. BoardsInv /\ Fits /\ Ordered /\ Stepping /\ WorkedOff /\ AtRequest /\ Answering /\ Asking
  BY DEF FreshInv
<1>2. /\ Streaming /\ main.pc = "loop"
      /\ UNCHANGED <<driver, polled, timer, dead, moved, calm, faults>>
      /\ \/ conn /\ main' = [main EXCEPT !.did = @ + 1] /\ conn' = conn
         \/ ~conn /\ main' = [main EXCEPT !.busy = Second]
  BY DEF Iterate
<1>3. BoardsInv' /\ Fits' /\ Ordered' /\ AtRequest' /\ Answering' /\ Asking'
  BY <1>2, ReadFresh
<1>4. WorkedOff'
  BY <1>1, IterationWorksOff
<1>5. Stepping'
  <2>1. PICK b \in Nat, d \in Nat : main = [pc |-> "loop", busy |-> b, did |-> d]
    BY <1>1, <1>2 DEF Stepping
  <2>2. CASE conn /\ main' = [main EXCEPT !.did = @ + 1] /\ conn' = conn
    <3>1. main' = [pc |-> "loop", busy |-> b, did |-> d + 1]
      BY <2>1, <2>2
    <3> QED
      BY <1>1, <1>2, <2>1, <2>2, <3>1 DEF Stepping, Connected
  <2>3. CASE ~conn /\ main' = [main EXCEPT !.busy = Second]
    <3>1. main' = [pc |-> "loop", busy |-> Second, did |-> d] /\ Second \in Nat
      BY <2>1, <2>3 DEF BoardsAndTimes
    <3>2. calm = 0
      BY <1>1, <2>3 DEF Stepping, Connected
    <3> QED
      BY <1>1, <1>2, <3>1, <3>2 DEF Stepping
  <2> QED
    BY <1>2, <2>2, <2>3
<1> QED
  BY <1>3, <1>4, <1>5 DEF FreshInv

\* The gateway leaves.
LEMMA EndsFresh ==
  ASSUME BoardsAndTimes, KeepsUp, FreshInv, ConnectionEnds
  PROVE  FreshInv'
<1>1. BoardsInv /\ Fits /\ Ordered /\ Stepping /\ WorkedOff /\ AtRequest /\ Answering /\ Asking
  BY DEF FreshInv
<1>2. /\ UNCHANGED <<window, ring, driver, shown, polled, dead, main, timer, moved>>
      /\ conn' = FALSE /\ calm' = 0 /\ faults' = faults + 1
  BY DEF ConnectionEnds
<1>3. BoardsInv'
  BY <1>1, BoardsKept DEF Next
<1>4. Fits'
  BY <1>1, <1>2 DEF Fits
<1>5. Stepping' /\ WorkedOff'
  BY <1>1, <1>2 DEF Stepping, WorkedOff, Connected, BoardsAndTimes
<1>6. Asking'
  BY <1>2, AskingNext
<1> QED
  BY <1>1, <1>2, <1>3, <1>4, <1>5, <1>6, LineStays, AtRequestStays, AnsweringStays DEF FreshInv

\* The elements of the sequences are found in the one they make.
Gathers(seqs) ==
  \A b \in 1 .. Len(seqs) : \A k \in 1 .. Len(seqs[b]) : \E r \in 1 .. Len(FlattenSeq(seqs)) : FlattenSeq(seqs)[r] = seqs[b][k]

\* Whatever sequences lie behind each other.
LEMMA FlattenGathers ==
  ASSUME NEW Elems, NEW seqs \in Seq(Seq(Elems))
  PROVE  Gathers(seqs)
<1> DEFINE Bad == {m \in Nat : \E sq \in Seq(Seq(Elems)) : Len(sq) = m /\ ~Gathers(sq)}
<1>1. SUFFICES ASSUME Bad # {} PROVE FALSE
  <2>1. Len(seqs) \in Nat
    OBVIOUS
  <2> QED
    BY <2>1
<1>2. PICK m \in Bad : \A k \in Bad : m <= k
  BY <1>1, LeastOf
<1>3. PICK sq \in Seq(Seq(Elems)) : Len(sq) = m /\ ~Gathers(sq)
  BY <1>2
<1>4. m \in Nat /\ m # 0
  BY <1>2, <1>3 DEF Gathers
<1>5. PICK h \in Seq(Elems), t \in Seq(Seq(Elems)), f \in Seq(Elems) :
        /\ h = sq[1] /\ Len(t) = m - 1 /\ \A i \in 1 .. m - 1 : t[i] = sq[i + 1]
        /\ f = FlattenSeq(t) /\ FlattenSeq(sq) = h \o f
  <2>1. sq # <<>> /\ 1 \in 1 .. m
    BY <1>3, <1>4
  <2>2. /\ Head(sq) = sq[1] /\ Head(sq) \in Seq(Elems) /\ Tail(sq) \in Seq(Seq(Elems)) /\ Len(Tail(sq)) = m - 1
        /\ \A i \in 1 .. m - 1 : Tail(sq)[i] = sq[i + 1]
    BY <1>3, <2>1
  <2>3. FlattenSeq(sq) = Head(sq) \o FlattenSeq(Tail(sq)) /\ FlattenSeq(Tail(sq)) \in Seq(Elems)
    BY <2>1, <2>2, FlattenHead, FlattenType
  <2> QED
    BY <2>2, <2>3
<1>6. Gathers(t)
  <2>1. m - 1 \in Nat /\ ~(m <= m - 1)
    BY <1>4
  <2> QED
    BY <1>2, <1>5, <2>1
<1>7. PICK lh \in Nat, lf \in Nat : lh = Len(h) /\ lf = Len(f)
  OBVIOUS
<1>8. /\ Len(h \o f) = lh + lf
      /\ \A x \in 1 .. lh + lf : (h \o f)[x] = IF x <= lh THEN h[x] ELSE f[x - lh]
  BY <1>7, ConcatProperties
<1>9. ASSUME NEW b \in 1 .. m, NEW k \in 1 .. Len(sq[b])
      PROVE  \E r \in 1 .. lh + lf : (h \o f)[r] = sq[b][k]
  <2>1. CASE b = 1
    <3>1. k \in 1 .. lh /\ k \in 1 .. lh + lf /\ k <= lh
      BY <1>5, <1>7, <2>1
    <3>2. (h \o f)[k] = sq[b][k]
      BY <1>5, <1>8, <2>1, <3>1
    <3> QED
      BY <3>1, <3>2
  <2>2. CASE b # 1
    <3>1. b - 1 \in 1 .. m - 1 /\ (b - 1) + 1 = b
      BY <1>4, <2>2
    <3>2. t[b - 1] = sq[b]
      BY <1>5, <3>1
    <3>3. b - 1 \in 1 .. Len(t) /\ k \in 1 .. Len(t[b - 1])
      BY <1>5, <3>1, <3>2
    <3>4. PICK r \in 1 .. Len(FlattenSeq(t)) : FlattenSeq(t)[r] = t[b - 1][k]
      BY <1>6, <3>3 DEF Gathers
    <3>5. r \in 1 .. lf /\ f[r] = sq[b][k]
      BY <1>5, <1>7, <3>2, <3>4
    <3>6. lh + r \in 1 .. lh + lf /\ ~(lh + r <= lh) /\ (lh + r) - lh = r
      BY <3>5
    <3>7. (h \o f)[lh + r] = sq[b][k]
      BY <1>8, <3>5, <3>6
    <3> QED
      BY <3>6, <3>7
  <2> QED
    BY <2>1, <2>2
<1>10. Gathers(sq)
  <2>1. Len(sq) = m /\ FlattenSeq(sq) = h \o f /\ Len(FlattenSeq(sq)) = lh + lf
    BY <1>3, <1>5, <1>8
  <2>2. ASSUME NEW b \in 1 .. Len(sq), NEW k \in 1 .. Len(sq[b])
        PROVE  \E r \in 1 .. Len(FlattenSeq(sq)) : FlattenSeq(sq)[r] = sq[b][k]
    BY <1>9, <2>1
  <2> QED
    BY <2>2 DEF Gathers
<1> QED
  BY <1>3, <1>10

\* Every board is asked for what it has, in every round.
LEMMA RequestsGathered ==
  ASSUME BoardsAndTimes, NEW b \in DOMAIN Boards, NEW id \in ToSet(Requests(Boards[b]))
  PROVE  \E r \in 1 .. Rounds : AllRequests[r] = id
<1> DEFINE all == [n \in DOMAIN Boards |-> Requests(Boards[n])]
<1>1. DOMAIN Boards = 1 .. Len(Boards) /\ Len(Boards) \in Nat
  BY DEF BoardsAndTimes
<1>2. \A n \in DOMAIN Boards : Requests(Boards[n]) \in Seq(Ids)
  BY RequestsOfBoard
<1>3. all \in Seq(Seq(Ids)) /\ Len(all) = Len(Boards)
  <2>1. all \in [1 .. Len(Boards) -> Seq(Ids)]
    BY <1>1, <1>2
  <2> QED
    BY <1>1, <2>1
<1>4. AllRequests = FlattenSeq(all)
  BY DEF AllRequests, RequestsOf, FlattenSeq, FlattenSeq
<1>5. all[b] = Requests(Boards[b]) /\ b \in 1 .. Len(all)
  BY <1>1, <1>3
<1>6. PICK k \in 1 .. Len(all[b]) : all[b][k] = id
  BY <1>2, <1>5 DEF ToSet
<1> HIDE DEF all
<1>7. Gathers(all)
  BY <1>3, FlattenGathers
<1> QED
  BY <1>4, <1>5, <1>6, <1>7 DEF Gathers, Rounds

\* At the start nothing is on its way and no slot was calm.
LEMMA InitFresh ==
  ASSUME BoardsAndTimes, Init
  PROVE  FreshInv
<1>1. /\ timer = [next |-> 1, sleep |-> 0, delay |-> 0]
      /\ polled = [n |-> 0, answered |-> [id \in Ids |-> 0]]
      /\ driver = <<>> /\ ring = <<>> /\ window = <<>>
      /\ shown = [n \in DOMAIN Boards |-> [k \in Kinds |-> 0]]
      /\ main = [pc |-> "startup", busy |-> 0, did |-> 0]
      /\ moved = FALSE /\ calm = 0 /\ faults = 0
  BY DEF Init, Kinds
<1>2. BoardsInv
  BY <1>1 DEF BoardsInv, TimerTypes
<1>3. Fits
  BY <1>1 DEF Fits, BoardsAndTimes
<1>4. Ordered
  BY <1>1 DEF Ordered
<1>5. Stepping /\ WorkedOff /\ Asking
  BY <1>1 DEF Stepping, WorkedOff, Asking, Connected, BoardsAndTimes
<1>6. AtRequest
  <2>1. Rounds \in Nat /\ Sleep(Rounds) \in Nat
    BY RoundTakes
  <2>2. Rounds > 0 => 0 % Rounds = 0
    BY <2>1
  <2> QED
    BY <1>1, <2>1, <2>2 DEF AtRequest
<1>7. Answering
  BY <1>1 DEF Answering
<1> QED
  BY <1>2, <1>3, <1>4, <1>5, <1>6, <1>7 DEF FreshInv

\* Nothing happens.
LEMMA StutterFresh ==
  ASSUME BoardsAndTimes, FreshInv, UNCHANGED vars
  PROVE  FreshInv'
<1>1. BoardsInv /\ Fits /\ Ordered /\ Stepping /\ WorkedOff /\ AtRequest /\ Answering /\ Asking
  BY DEF FreshInv
<1>2. UNCHANGED <<window, ring, driver, shown, polled, conn, faults, main, moved, calm, timer, dead>>
  BY DEF vars
<1>3. BoardsInv'
  BY <1>1, BoardsKept
<1>4. Fits' /\ Stepping' /\ WorkedOff'
  BY <1>1, <1>2, StepsStay
<1>5. AtRequest' /\ \A r : Age(r)' = Age(r)
  BY <1>1, <1>2, AtRequestStays
<1>6. Asking'
  <2> SUFFICES ASSUME calm' > 1, NEW r \in 1 .. Rounds, Age(r)' <= calm' - 2 PROVE Safe(AllRequests[r])'
    BY AskingNext
  <2>1. calm > 1 /\ Age(r) <= calm - 2
    BY <1>2, <1>5
  <2> QED
    BY <1>1, <1>2, <2>1, LineStays DEF Asking
<1> QED
  BY <1>1, <1>2, <1>3, <1>4, <1>5, <1>6, LineStays, AnsweringStays DEF FreshInv

\* After Settled calm slots an answer that is on its way is to one of the last two requests.
LEMMA ComingIsNew ==
  ASSUME BoardsAndTimes, KeepsUp, FreshInv, calm = Settled, NEW m, Coming(m)
  PROVE  m >= polled.n - 1
<1>1. BoardsInv /\ Ordered /\ Stepping /\ WorkedOff
  BY DEF FreshInv
<1>2. PICK w \in Nat, r \in Nat, d \in Nat, f \in Nat :
        w = Len(window) /\ r = Len(ring) /\ d = Len(driver) /\ f = FrameSize /\ f > 1
  BY <1>1, Lengths
<1>3. PICK e \in Nat : e > w /\ e <= w + r + d /\ e >= f /\ \A i \in 1 .. f : Line(e - f + i) = <<m, i>>
  BY <1>2 DEF Coming, ComesAt, Total
<1>4. Line(e) = <<m, f>>
  <2>1. f \in 1 .. f /\ e - f + f = e
    BY <1>2
  <2> QED
    BY <1>3, <2>1
<1>5. polled.n \in Nat
  BY <1>1 DEF BoardsInv
<1>6. CASE e <= w + r
  <2>1. PICK i \in 1 .. r : i = e - w
    BY <1>3, <1>6
  <2>2. Line(e) = ring[i]
    BY <1>2, <1>3, <1>6, <2>1 DEF Line
  <2>3. calm > 0 /\ Connected
    <3>1. RoundLength > 0 /\ RoundLength \in Nat /\ Settled > RoundLength /\ Settled \in Nat
      BY RoundTakes DEF KeepsUp, BoardsAndTimes
    <3>2. calm > 0
      BY <3>1
    <3> QED
      BY <1>1, <3>2 DEF Stepping
  <2>4. Spare(calm) = 0
    BY Spares
  <2>5. i > Spare(calm)
    BY <2>4
  <2>6. ring[i][1] >= polled.n - 1
    BY <1>1, <1>2, <2>3, <2>5 DEF WorkedOff
  <2> QED
    BY <1>4, <2>2, <2>6
<1>7. CASE ~(e <= w + r)
  <2>1. PICK i \in 1 .. d : i = e - w - r
    BY <1>3, <1>7
  <2>2. Line(e) = driver[i]
    BY <1>2, <1>3, <1>7, <2>1 DEF Line
  <2>3. driver[i][1] = polled.n
    BY <1>1, <1>2, <2>1 DEF Ordered
  <2>4. m = polled.n
    BY <1>4, <2>2, <2>3
  <2> QED
    BY <1>5, <2>4
<1> QED
  BY <1>6, <1>7

\* After Settled calm slots every request was made in one of them.
LEMMA AllAsked ==
  ASSUME BoardsAndTimes, KeepsUp, FreshInv, calm = Settled, NEW r \in 1 .. Rounds
  PROVE  Safe(AllRequests[r])
<1>1. BoardsInv /\ AtRequest /\ Asking
  BY DEF FreshInv
<1>2. Age(r) \in Nat /\ Age(r) <= RoundLength - 1
  BY <1>1, Ages DEF BoardsInv
<1>3. RoundLength \in Nat /\ RoundLength > 0 /\ Settled \in Nat /\ Settled > RoundLength
  BY RoundTakes DEF KeepsUp, BoardsAndTimes
<1>4. calm > 1 /\ Age(r) <= calm - 2
  BY <1>2, <1>3
<1> QED
  BY <1>1, <1>4 DEF Asking

\* Then the values are current.
LEMMA FreshIsCurrent ==
  ASSUME BoardsAndTimes, KeepsUp, FreshInv
  PROVE  FreshAfterReconnection
<1> SUFFICES ASSUME calm = Settled, ToldApart, NEW n \in DOMAIN Boards, NEW id \in ToSet(Requests(Boards[n])), MaySend(id)
             PROVE  shown[n][id.data] >= polled.answered[id] \/ polled.answered[id] >= polled.n - 1
  BY DEF FreshAfterReconnection
<1>1. id \in ToSet(Requests(Boards[n])) /\ MaySend(id)
  BY DEF ToSet, Requests, AD, ISO, COUNTER, MaySend, Kinds
<1>2. PICK r \in 1 .. Rounds : AllRequests[r] = id
  BY <1>1, RequestsGathered
<1>3. PICK k : k = SearchIndexSensorNode(id.low)
  OBVIOUS
<1>4. k = n
  <2>1. k \in DOMAIN Boards /\ Boards[k].canid.low = id.low
    BY <1>2, <1>3, RequestPlace
  <2>2. Boards[n].canid.low = id.low
    BY <1>1, LowOfBoard
  <2> QED
    BY <2>1, <2>2 DEF ToldApart
<1>5. shown[n][id.data] >= polled.answered[id] \/ Coming(polled.answered[id])
  BY <1>1, <1>2, <1>3, <1>4, AllAsked DEF Safe
<1> QED
  BY <1>5, ComingIsNew

\* However long the gateway was away and whatever was dropped meanwhile: where the ring has room for two
\* frames and the main loop reads twice in a slot, Settled calm slots leave no value older than the last
\* answer of its board, but for the answers to the last two requests.
THEOREM CurrentAgain ==
  ASSUME BoardsAndTimes, KeepsUp
  PROVE  Spec => []FreshAfterReconnection
<1>1. Init => FreshInv
  BY InitFresh
<1>2. FreshInv /\ [Next]_vars => FreshInv'
  <2> SUFFICES ASSUME FreshInv, [Next]_vars PROVE FreshInv'
    OBVIOUS
  <2>1. CASE Poll
    BY <2>1, PollFresh
  <2>2. CASE EndRound
    BY <2>2, EndFresh
  <2>3. CASE SleepSlot
    BY <2>3, SleepFresh
  <2>4. CASE Move
    BY <2>4, MoveFresh
  <2>5. CASE Startup
    BY <2>5, StartupFresh
  <2>6. CASE Iterate
    BY <2>6, IterateFresh
  <2>7. CASE ConnectionEnds
    BY <2>7, EndsFresh
  <2>8. CASE UNCHANGED vars
    BY <2>8, StutterFresh
  <2> QED
    BY <2>1, <2>2, <2>3, <2>4, <2>5, <2>6, <2>7, <2>8 DEF Next
<1>3. FreshInv => FreshAfterReconnection
  BY FreshIsCurrent
<1> QED
  BY <1>1, <1>2, <1>3, PTL DEF Spec
=============================================================================
