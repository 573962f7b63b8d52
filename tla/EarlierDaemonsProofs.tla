------------------------ MODULE EarlierDaemonsProofs ------------------------
(***************************************************************************)
(* Proofs about EarlierDaemons: for any boards, times and requests, both   *)
(* builds report an actuator that stays on at its interval and leave it on *)
(* for as many rounds as were asked, and the values of a node are those of *)
(* its board.  The last part is about TTA12daemon, which reads the packets *)
(* of the gateway with a module of its own, GatewayLink.                   *)
(***************************************************************************)
EXTENDS EarlierDaemons, PacketStream, StatusReply, WellFoundedInduction, SequenceTheorems, TLAPS

Types ==
  /\ value \in [Actuator -> Int]
  /\ aCount \in [Actuator -> Int]
  /\ told \in [Actuator -> Int]

\* The count of an actuator that is on never stays at zero, where a tick leaves it.
StillCounting == \A i \in Actuator : value[i] > 0 /\ OnInterval > 0 => aCount[i] > 0

ReportsInv == Types /\ StillCounting /\ ReportedWhileOn

-----------------------------------------------------------------------------
\* Steps that leave the counts of the actuators' reports alone.
LEMMA OthersKeep ==
  ASSUME ReportsInv, UNCHANGED <<value, aCount, told>>
  PROVE  ReportsInv'
BY DEF ReportsInv, Types, StillCounting, ReportedWhileOn

\* A tick counts what has passed up as it counts what is left down, and starts anew
\* where the report comes due.
LEMMA CountKeeps ==
  ASSUME ReportsInv, Count
  PROVE  ReportsInv'
<1> DEFINE Left(i) == IF value[i] > 0 /\ value[i] # Always THEN value[i] - 1 ELSE value[i]
           Due(i) == Left(i) > 0 /\ aCount[i] = 1
<1>1. Actuator = T!Actuator
  BY DEF Actuator, T!Actuator
<1>2. /\ value' = [i \in Actuator |-> Left(i)]
      /\ aCount' = [i \in Actuator |->
                     IF Due(i) THEN OnInterval
                     ELSE IF Left(i) > 0 /\ aCount[i] > 0 THEN aCount[i] - 1 ELSE aCount[i]]
      /\ told' = [i \in Actuator |->
                   IF Due(i) THEN 0 ELSE IF Left(i) > 0 THEN told[i] + 1 ELSE told[i]]
  BY <1>1 DEF Count, T!CountDown, T!CountActuators, T!Left, T!Runs, T!OnDue
<1>3. \A i \in Actuator : Left(i) \in Int /\ (Left(i) > 0 => value[i] > 0)
  BY DEF ReportsInv, Types
<1> HIDE DEF Left
<1>4. Types'
  BY <1>2, <1>3, EarlierDaemonsAssumption DEF ReportsInv, Types
<1>5. ASSUME NEW i \in Actuator, value'[i] > 0, OnInterval > 0
      PROVE  aCount'[i] > 0 /\ aCount'[i] + told'[i] = OnInterval
  <2>1. Left(i) > 0
    BY <1>2, <1>5
  <2>2. aCount[i] > 0 /\ aCount[i] + told[i] = OnInterval
    BY <1>3, <1>5, <2>1 DEF ReportsInv, StillCounting, ReportedWhileOn
  <2>3. aCount[i] \in Int /\ told[i] \in Int /\ OnInterval \in Int
    BY EarlierDaemonsAssumption DEF ReportsInv, Types
  <2>4. CASE aCount[i] = 1
    BY <1>2, <1>5, <2>1, <2>3, <2>4
  <2>5. CASE aCount[i] # 1
    BY <1>2, <2>1, <2>2, <2>3, <2>5
  <2> QED
    BY <2>4, <2>5
<1> QED
  BY <1>4, <1>5 DEF ReportsInv, StillCounting, ReportedWhileOn

\* A request starts the interval of an actuator that it switches on, whether it was
\* on before or not.
LEMMA ActuatorSetKeeps ==
  ASSUME ReportsInv, NEW i \in Actuator, NEW v \in Value, ActuatorSet(i, v)
  PROVE  ReportsInv'
<1>1. v \in Int /\ OnInterval \in Int
  BY EarlierDaemonsAssumption
<1>2. /\ value' = [value EXCEPT ![i] = v]
      /\ told' = [told EXCEPT ![i] = 0]
      /\ aCount' = IF v > 0 THEN [aCount EXCEPT ![i] = OnInterval] ELSE aCount
  BY DEF ActuatorSet, T!RunFor
<1>3. Types'
  BY <1>1, <1>2 DEF ReportsInv, Types
<1>4. StillCounting' /\ ReportedWhileOn'
  BY <1>1, <1>2 DEF ReportsInv, Types, StillCounting, ReportedWhileOn
<1> QED
  BY <1>3, <1>4 DEF ReportsInv

-----------------------------------------------------------------------------
(* How long an actuator is on.                                             *)

\* Slots since the last tick, or a whole round before the first.
Phase ==
  IF build = "daemon2" THEN IF timer = "sleep" THEN Second - nap.timer ELSE 0
  ELSE IF next = 0 THEN Round - nap.timer ELSE (next - 1) * Pause["daemon4"] - nap.timer

\* Where the threads that sleep are in their loops.
Polling ==
  /\ build \in {"daemon2", "daemon4"} /\ boards \in Configs
  /\ nap \in [timer : Nat, snode : Nat]
  /\ next \in 0 .. Len(AllRequests) + 1
  /\ build = "daemon2" => nap.timer <= Second
  /\ build = "daemon2" /\ timer # "sleep" => nap.timer = 0
  /\ build = "daemon4" /\ next = 0 => nap.timer <= Second
  /\ build = "daemon4" /\ next = 1 => nap.timer = 0
  /\ build = "daemon4" /\ next > 1 => nap.timer <= Pause["daemon4"]

\* What actuator i has been on: a round for every second counted but the first, which
\* may have been short, and what has passed since the last tick.
RanFor(i) ==
  asked[i] \in 1 .. Always - 1 =>
    /\ value[i] <= asked[i]
    /\ value[i] > 0 => ran[i] <= (asked[i] - value[i]) * Round + Phase
    /\ value[i] \in 1 .. asked[i] - 1 => ran[i] >= (asked[i] - value[i] - 1) * Round + Phase
    /\ value[i] = 0 => ran[i] <= asked[i] * Round /\ ran[i] >= (asked[i] - 1) * Round

\* The requests of the boards.
BoardsIds == UNION {ToSet(Requests(boards[n])) : n \in DOMAIN boards}

\* What is stored for a node came from its board, if the boards are numbered as the build needs.
Stores ==
  /\ line \in Seq(BoardsIds)
  /\ DOMAIN si = 0 .. 15
  /\ ValuesOfItsNode

Times ==
  /\ value \in [Actuator -> 0 .. Always]
  /\ asked \in [Actuator -> 0 .. Always]
  /\ ran \in [Actuator -> Nat]

RunsInv == Polling /\ Times /\ \A i \in Actuator : RanFor(i)

-----------------------------------------------------------------------------
\* A non-empty set of naturals has a least element.
LEMMA LeastOf ==
  ASSUME NEW S \in SUBSET Nat, S # {}
  PROVE  \E m \in S : \A k \in S : m <= k
<1> DEFINE R == OpToRel(<, Nat)
<1>1. IsWellFoundedOn(R, Nat)
  BY NatLessThanWellFounded
<1>2. \A b, c \in Nat : c < b => <<c, b>> \in R
  BY DEF OpToRel
<1> HIDE DEF R
<1>3. PICK m \in S : \A k \in S : <<k, m>> \notin R
  BY <1>1, WFMin
<1>4. ASSUME NEW k \in S PROVE m <= k
  <2>1. m \in Nat /\ k \in Nat
    OBVIOUS
  <2>2. ~(k < m)
    BY <1>2, <1>3, <2>1
  <2> QED
    BY <2>1, <2>2
<1> QED
  BY <1>4

\* f[i] is the first i sequences of seqs one behind the other.
Flattens(f, seqs, m) ==
  f = [i \in 1 .. m |-> IF i = 1 THEN seqs[i] ELSE f[i - 1] \o seqs[i]]

\* Such a function exists, however many sequences there are.
LEMMA FlattenExists ==
  ASSUME NEW seqs, NEW n \in Nat \ {0}
  PROVE  \E f : Flattens(f, seqs, n)
<1> SUFFICES ASSUME ~ \E f : Flattens(f, seqs, n) PROVE FALSE
  OBVIOUS
<1> DEFINE Bad == {m \in Nat \ {0} : ~ \E f : Flattens(f, seqs, m)}
<1>1. PICK m \in Bad : \A k \in Bad : m <= k
  <2>1. Bad \in SUBSET Nat /\ Bad # {}
    OBVIOUS
  <2> QED
    BY <2>1, LeastOf
<1>2. CASE m = 1
  <2>1. Flattens([i \in 1 .. 1 |-> seqs[i]], seqs, 1)
    BY DEF Flattens
  <2> QED
    BY <1>1, <1>2, <2>1
<1>3. CASE m # 1
  <2>1. m - 1 \in Nat \ {0} /\ m - 1 \notin Bad
    BY <1>1, <1>3
  <2>2. PICK f : Flattens(f, seqs, m - 1)
    BY <2>1
  <2> DEFINE g == [i \in 1 .. m |-> IF i = m THEN f[m - 1] \o seqs[m] ELSE f[i]]
  <2>3. ASSUME NEW i \in 1 .. m
        PROVE  g[i] = IF i = 1 THEN seqs[i] ELSE g[i - 1] \o seqs[i]
    <3>1. CASE i = m
      <4>1. m \in 1 .. m /\ m - 1 \in 1 .. m /\ m - 1 # m
        BY <2>1
      <4>2. g[m] = f[m - 1] \o seqs[m]
        BY <4>1, Zenon
      <4>3. g[m - 1] = f[m - 1]
        BY <4>1, Zenon
      <4> QED
        BY <1>3, <3>1, <4>2, <4>3, Zenon
    <3>2. CASE i # m
      <4>1. i \in 1 .. m - 1 /\ g[i] = f[i] /\ (i # 1 => g[i - 1] = f[i - 1])
        BY <2>1, <3>2
      <4>2. f[i] = IF i = 1 THEN seqs[i] ELSE f[i - 1] \o seqs[i]
        BY <2>2, <4>1 DEF Flattens
      <4> QED
        BY <4>1, <4>2
    <3> QED
      BY <3>1, <3>2
  <2>4. DOMAIN g = 1 .. m /\ g = [i \in 1 .. m |-> g[i]]
    OBVIOUS
  <2> HIDE DEF g
  <2>5. Flattens(g, seqs, m)
    BY <2>3, <2>4 DEF Flattens
  <2> QED
    BY <1>1, <2>5
<1> QED
  BY <1>2, <1>3

\* f[i] is the first i sequences of seqs one behind the other: of sequences of such elements it
\* is one.
LEMMA PrefixType ==
  ASSUME NEW Elems, NEW seqs \in Seq(Seq(Elems)), NEW m \in 0 .. Len(seqs), NEW f,
         Flattens(f, seqs, m)
  PROVE  \A i \in 1 .. m : f[i] \in Seq(Elems)
<1> SUFFICES ASSUME ~ \A i \in 1 .. m : f[i] \in Seq(Elems) PROVE FALSE
  OBVIOUS
<1> DEFINE Bad == {i \in 1 .. m : f[i] \notin Seq(Elems)}
<1>1. PICK i \in Bad : \A k \in Bad : i <= k
  <2>1. Bad \in SUBSET Nat /\ Bad # {}
    OBVIOUS
  <2> QED
    BY <2>1, LeastOf
<1>2. f[i] = IF i = 1 THEN seqs[i] ELSE f[i - 1] \o seqs[i]
  BY DEF Flattens
<1>3. seqs[i] \in Seq(Elems)
  OBVIOUS
<1>4. i # 1 => f[i - 1] \in Seq(Elems)
  BY <1>1
<1>5. f[i] \notin Seq(Elems)
  OBVIOUS
<1>6. CASE i = 1
  BY <1>2, <1>3, <1>5, <1>6
<1>7. CASE i # 1
  <2>1. f[i] = f[i - 1] \o seqs[i] /\ f[i - 1] \in Seq(Elems)
    BY <1>2, <1>4, <1>7
  <2> QED
    BY <1>3, <1>5, <2>1
<1> QED
  BY <1>6, <1>7

\* Part of a sequence has the elements of the sequence.
LEMMA PartOf ==
  ASSUME NEW Elems, NEW s \in Seq(Elems), NEW a \in Nat \ {0}, NEW b \in Int, b <= Len(s)
  PROVE  SubSeq(s, a, b) \in Seq(Elems)
  OBVIOUS

\* FlattenSeq is the last of them.
LEMMA FlattenIs ==
  ASSUME NEW seqs, Len(seqs) \in Nat, Len(seqs) # 0
  PROVE  \E f : Flattens(f, seqs, Len(seqs)) /\ FlattenSeq(seqs) = f[Len(seqs)]
<1> DEFINE n == Len(seqs)
           f == CHOOSE h : Flattens(h, seqs, n)
<1>1. FlattenSeq(seqs) = f[n]
  BY Zenon DEF FlattenSeq, Flattens
<1>2. Flattens(f, seqs, n)
  BY FlattenExists
<1> QED
  BY <1>1, <1>2

\* Sequences of such elements one behind the other are a sequence of them.
LEMMA FlattenType ==
  ASSUME NEW Elems, NEW seqs \in Seq(Seq(Elems))
  PROVE  FlattenSeq(seqs) \in Seq(Elems)
<1> DEFINE n == Len(seqs)
<1>1. CASE n = 0
  BY <1>1 DEF FlattenSeq
<1>2. CASE n # 0
  <2>1. PICK f : Flattens(f, seqs, n) /\ FlattenSeq(seqs) = f[n]
    BY <1>2, FlattenIs
  <2>2. n \in 0 .. Len(seqs) /\ n \in 1 .. n
    BY <1>2
  <2> QED
    BY <2>1, <2>2, PrefixType
<1> QED
  BY <1>1, <1>2

\* What the first sequence adds comes in front of the others.
LEMMA FlattenHead ==
  ASSUME NEW Elems, NEW seqs \in Seq(Seq(Elems)), seqs # <<>>
  PROVE  FlattenSeq(seqs) = Head(seqs) \o FlattenSeq(Tail(seqs))
<1> DEFINE n == Len(seqs)
<1>1. n \in Nat /\ n # 0 /\ Tail(seqs) \in Seq(Seq(Elems)) /\ Len(Tail(seqs)) = n - 1
  OBVIOUS
<1>2. PICK f : Flattens(f, seqs, n) /\ FlattenSeq(seqs) = f[n]
  BY <1>1, FlattenIs
<1>3. PICK ts \in Seq(Seq(Elems)) : ts = Tail(seqs)
  BY <1>1
<1>4. seqs[1] \in Seq(Elems) /\ Head(seqs) = seqs[1] /\ f[1] = seqs[1]
  <2>1. f[1] = seqs[1]
    BY <1>1, <1>2 DEF Flattens
  <2> QED
    BY <1>1, <2>1
<1>5. CASE n = 1
  <2>1. ts = <<>>
    BY <1>1, <1>3, <1>5
  <2>2. FlattenSeq(ts) = <<>>
    BY <2>1 DEF FlattenSeq
  <2> QED
    BY <1>2, <1>3, <1>4, <1>5, <2>2
<1>6. CASE n # 1
  <2>1. Len(ts) = n - 1 /\ n - 1 \in Nat /\ n - 1 # 0
    BY <1>1, <1>3, <1>6
  <2>2. PICK g : Flattens(g, ts, n - 1) /\ FlattenSeq(ts) = g[n - 1]
    BY <2>1, FlattenIs
  <2>3. \A i \in 1 .. n - 1 : g[i] \in Seq(Elems)
    <3>1. PICK m \in 0 .. Len(ts) : m = n - 1
      BY <2>1
    <3>2. \A i \in 1 .. m : g[i] \in Seq(Elems)
      BY <2>2, <3>1, PrefixType
    <3> QED
      BY <3>1, <3>2
  <2>4. PICK m \in Nat : m = n - 1
    BY <2>1
  <2> DEFINE Wrong(i) == f[i + 1] # seqs[1] \o g[i]
             Bad == {i \in 1 .. m : Wrong(i)}
  <2> HIDE DEF Wrong
  <2>5. Bad = {}
    <3> SUFFICES ASSUME Bad # {} PROVE FALSE
      OBVIOUS
    <3>1. PICK i \in Bad : \A k \in Bad : i <= k
      <4>1. Bad \in SUBSET Nat
        OBVIOUS
      <4> QED
        BY <4>1, LeastOf
    <3>2. i \in 1 .. n - 1 /\ i \in Nat /\ i + 1 \in 1 .. n /\ i + 1 # 1 /\ (i + 1) - 1 = i
      BY <1>1, <2>4
    <3>3. f[i + 1] = f[i] \o seqs[i + 1]
      BY <1>2, <3>2 DEF Flattens
    <3>4. g[i] = IF i = 1 THEN ts[i] ELSE g[i - 1] \o ts[i]
      BY <2>2, <3>2 DEF Flattens
    <3>5. ts[i] = seqs[i + 1] /\ ts[i] \in Seq(Elems)
      BY <1>1, <1>3, <2>1, <3>2
    <3>6. CASE i = 1
      BY <1>4, <3>1, <3>3, <3>4, <3>5, <3>6 DEF Wrong
    <3>7. CASE i # 1
      <4>1. i - 1 \in 1 .. n - 1 /\ (i - 1) + 1 = i
        BY <1>1, <3>2, <3>7
      <4>2. f[i] = seqs[1] \o g[i - 1]
        <5>1. i - 1 \notin Bad
          BY <3>1, <3>2
        <5>2. PICK k : k = i - 1
          OBVIOUS
        <5>3. k \in 1 .. m /\ k \notin Bad /\ k + 1 = i
          BY <2>4, <4>1, <5>1, <5>2
        <5>4. f[k + 1] = seqs[1] \o g[k]
          BY <5>3 DEF Wrong
        <5> QED
          BY <5>2, <5>3, <5>4
      <4>3. g[i - 1] \in Seq(Elems)
        BY <2>3, <4>1
      <4>4. PICK a \in Seq(Elems), b \in Seq(Elems), c \in Seq(Elems) :
              a = seqs[1] /\ b = g[i - 1] /\ c = ts[i]
        BY <1>4, <3>5, <4>3
      <4>5. (a \o b) \o c = a \o (b \o c)
        OBVIOUS
      <4>6. f[i + 1] = seqs[1] \o g[i]
        BY <3>3, <3>4, <3>5, <3>7, <4>2, <4>4, <4>5
      <4> QED
        BY <4>6 DEF Wrong
    <3> QED
      BY <3>6, <3>7
  <2>6. m \in 1 .. m /\ m + 1 = n
    BY <1>1, <2>1, <2>4
  <2>7. f[m + 1] = seqs[1] \o g[m]
    BY <2>5, <2>6 DEF Wrong
  <2> QED
    BY <1>2, <1>3, <1>4, <2>2, <2>6, <2>7, <2>4
<1> QED
  BY <1>5, <1>6

\* Sequences of k elements each, one behind the other.
LEMMA FlattenLength ==
  ASSUME NEW k \in Nat, NEW seqs \in Seq(Seq(Nat)), \A i \in 1 .. Len(seqs) : Len(seqs[i]) = k
  PROVE  FlattenSeq(seqs) \in Seq(Nat) /\ Len(FlattenSeq(seqs)) = k * Len(seqs)
<1>1. FlattenSeq(seqs) \in Seq(Nat)
  BY FlattenType
<1>2. PICK n \in Nat : n = Len(seqs)
  OBVIOUS
<1>3. CASE n = 0
  <2>1. seqs = <<>>
    BY <1>2, <1>3, EmptySeq
  <2>2. FlattenSeq(seqs) = <<>>
    BY <2>1 DEF FlattenSeq
  <2> QED
    BY <1>1, <1>2, <1>3, <2>2
<1>4. CASE n # 0
  <2>1. PICK f : Flattens(f, seqs, n) /\ FlattenSeq(seqs) = f[n]
    BY <1>2, <1>4, FlattenIs
  <2>2. \A i \in 1 .. n : f[i] \in Seq(Nat)
    BY <1>2, <2>1, PrefixType
  <2> DEFINE Wrong(i) == Len(f[i]) # k * i
             Bad == {i \in 1 .. n : Wrong(i)}
  <2> HIDE DEF Wrong
  <2>3. Bad = {}
    <3> SUFFICES ASSUME Bad # {} PROVE FALSE
      OBVIOUS
    <3>1. PICK i \in Bad : \A j \in Bad : i <= j
      <4>1. Bad \in SUBSET Nat
        OBVIOUS
      <4> QED
        BY <4>1, LeastOf
    <3>2. i \in 1 .. n /\ i \in Nat /\ Wrong(i)
      OBVIOUS
    <3>3. f[i] = IF i = 1 THEN seqs[i] ELSE f[i - 1] \o seqs[i]
      BY <2>1, <3>2 DEF Flattens
    <3>4. seqs[i] \in Seq(Nat) /\ Len(seqs[i]) = k
      BY <1>2, <3>2
    <3>5. CASE i = 1
      <4>1. Len(f[i]) = k * i
        BY <3>3, <3>4, <3>5
      <4> QED
        BY <3>2, <4>1 DEF Wrong
    <3>6. CASE i # 1
      <4>1. PICK j \in Nat : j = i - 1 /\ j \in 1 .. n /\ i = j + 1
        BY <3>2, <3>6
      <4>2. j \notin Bad
        BY <3>1, <4>1
      <4>3. Len(f[j]) = k * j
        BY <4>1, <4>2 DEF Wrong
      <4>4. Len(f[i]) = k * j + k
        <5>1. f[j] \in Seq(Nat) /\ f[i] = f[j] \o seqs[i]
          BY <2>2, <3>3, <3>6, <4>1
        <5>2. Len(f[j] \o seqs[i]) = Len(f[j]) + Len(seqs[i])
          BY <3>4, <5>1, ConcatProperties
        <5> QED
          BY <3>4, <4>3, <5>1, <5>2
      <4>5. k * j + k = k * i
        BY <4>1
      <4> QED
        BY <3>2, <4>4, <4>5 DEF Wrong
    <3> QED
      BY <3>5, <3>6
  <2>4. n \in 1 .. n
    BY <1>4
  <2>5. Len(f[n]) = k * n
    BY <2>3, <2>4 DEF Wrong
  <2> QED
    BY <1>1, <1>2, <2>1, <2>5
<1> QED
  BY <1>3, <1>4

-----------------------------------------------------------------------------
\* Multiples of a round.
LEMMA Multiples ==
  ASSUME NEW a \in Int, NEW r \in Nat
  PROVE  /\ a * r \in Int /\ (a + 1) * r = a * r + r /\ (a - 1) * r = a * r - r
         /\ 0 * r = 0 /\ 1 * r = r /\ (a >= 0 => a * r >= 0)
<1>1. a * r \in Int /\ (a + 1) * r = a * r + r /\ (a - 1) * r = a * r - r
  OBVIOUS
<1>2. 0 * r = 0 /\ 1 * r = r
  OBVIOUS
<1>3. a >= 0 => a * r >= 0
  OBVIOUS
<1> QED
  BY <1>1, <1>2, <1>3

\* Fewer rounds take no longer.
LEMMA Shorter ==
  ASSUME NEW a \in Int, NEW b \in Int, NEW r \in Nat, a <= b
  PROVE  a * r <= b * r
<1>1. (b - a) * r >= 0
  BY Multiples
<1>2. (b - a) * r = b * r - a * r
  OBVIOUS
<1>3. a * r \in Int /\ b * r \in Int
  OBVIOUS
<1> QED
  BY <1>1, <1>2, <1>3

\* The requests of the boards, and their number.
LEMMA RequestsOfBoards ==
  ASSUME boards \in Configs
  PROVE  /\ boards \in Seq([type : 0 .. 3, canid : [data : STRING, kind : STRING, num : 0 .. 15]])
         /\ AllRequests \in Seq(BoardsIds)
         /\ Len(AllRequests) \in Nat
<1> DEFINE B == [type : 0 .. 3, canid : [data : STRING, kind : STRING, num : 0 .. 15]]
           Of(n) == Requests(boards[n])
           all == [n \in DOMAIN boards |-> Of(n)]
<1>1. boards \in Seq(B)
  BY EarlierDaemonsAssumption
<1>2. DOMAIN boards = 1 .. Len(boards) /\ Len(boards) \in Nat
  BY <1>1
<1>3. ASSUME NEW n \in DOMAIN boards PROVE Of(n) \in Seq(BoardsIds)
  <2>1. \E Elems : Of(n) \in Seq(Elems)
    <3> DEFINE c == boards[n].canid
               lo == [c EXCEPT !.data = "adclo"]
               hi == [c EXCEPT !.data = "adchi"]
    <3>1. Of(n) \in {<<lo, hi>>, <<c>>, <<>>}
      BY DEF Requests
    <3> HIDE DEF c, lo, hi
    <3>2. <<lo, hi>> \in Seq({lo, hi, c}) /\ <<c>> \in Seq({lo, hi, c}) /\ <<>> \in Seq({lo, hi, c})
      OBVIOUS
    <3>3. Of(n) \in Seq({lo, hi, c})
      BY <3>1, <3>2
    <3> QED
      BY <3>3
  <2>2. \A k \in 1 .. Len(Of(n)) : Of(n)[k] \in BoardsIds
    BY <2>1 DEF BoardsIds, ToSet
  <2> QED
    BY <2>1, <2>2
<1>4. all \in Seq(Seq(BoardsIds))
  <2>1. all \in [1 .. Len(boards) -> Seq(BoardsIds)]
    BY <1>2, <1>3
  <2> QED
    BY <1>2, <2>1
<1> HIDE DEF B
<1>5. AllRequests \in Seq(BoardsIds)
  BY <1>4, FlattenType DEF AllRequests, RequestsOf
<1> QED
  BY <1>1, <1>5 DEF B

\* A request is for a board, whose kind and number it has.
LEMMA BoardOfId ==
  ASSUME boards \in Configs, NEW id \in BoardsIds
  PROVE  \E n \in DOMAIN boards :
           /\ id \in ToSet(Requests(boards[n]))
           /\ id.kind = boards[n].canid.kind /\ id.num = boards[n].canid.num
<1>1. PICK n \in DOMAIN boards : id \in ToSet(Requests(boards[n]))
  BY DEF BoardsIds
<1> DEFINE c == boards[n].canid
<1>2. c \in [data : STRING, kind : STRING, num : 0 .. 15]
  <2> DEFINE B == [type : 0 .. 3, canid : [data : STRING, kind : STRING, num : 0 .. 15]]
  <2>1. boards \in Seq(B)
    BY RequestsOfBoards
  <2> HIDE DEF B
  <2>2. boards[n] \in B
    BY <1>1, <2>1
  <2> QED
    BY <2>2 DEF B
<1>3. id = c \/ id = [c EXCEPT !.data = "adclo"] \/ id = [c EXCEPT !.data = "adchi"]
  BY <1>1 DEF Requests, ToSet
<1> HIDE DEF c
<1>4. id.kind = c.kind /\ id.num = c.num
  BY <1>2, <1>3
<1> QED
  BY <1>1, <1>4 DEF c

\* A round takes time, and no more than a round has passed since the last tick.
LEMMA RoundAndPhase ==
  ASSUME Polling
  PROVE  /\ Round \in Nat /\ Len(AllRequests) \in Nat /\ Second \in Nat /\ Pause["daemon4"] \in Nat
         /\ Phase \in Int /\ 0 <= Phase /\ Phase <= Round
         /\ nap.timer \in Nat /\ next \in Nat /\ next <= Len(AllRequests) + 1
<1> DEFINE l == Len(AllRequests)
           p == Pause["daemon4"]
<1>1. l \in Nat
  BY RequestsOfBoards DEF Polling
<1>2. Second \in Nat /\ p \in Nat
  BY EarlierDaemonsAssumption
<1>3. nap.timer \in Nat /\ next \in Nat /\ next <= l + 1
  BY <1>1 DEF Polling
<1> HIDE DEF l, p
<1>4. CASE build = "daemon2"
  BY <1>1, <1>2, <1>3, <1>4 DEF Polling, Phase, Round, l, p
<1>5. ASSUME build = "daemon4"
      PROVE  Round \in Nat /\ Phase \in Int /\ 0 <= Phase /\ Phase <= Round
  <2>1. l * p \in Nat /\ Round = Second + l * p
    BY <1>1, <1>2, <1>5, Multiples DEF Round, l, p
  <2>2. CASE next = 0
    <3>1. Phase = Round - nap.timer /\ nap.timer <= Second
      BY <1>5, <2>2 DEF Phase, Polling
    <3> QED
      BY <1>1, <1>2, <1>3, <2>1, <3>1
  <2>3. CASE next > 0
    <3>1. Phase = (next - 1) * p - nap.timer
      BY <1>3, <1>5, <2>3 DEF Phase, p
    <3>2. (next - 1) * p <= l * p /\ (next - 1) * p \in Int
      BY <1>1, <1>2, <1>3, Shorter, Multiples
    <3>3. CASE next = 1
      <4>1. nap.timer = 0
        BY <1>5, <3>3 DEF Polling
      <4>2. (next - 1) * p = 0
        BY <1>2, <3>3
      <4> QED
        BY <1>1, <1>2, <1>3, <2>1, <3>1, <4>1, <4>2
    <3>4. CASE next > 1
      <4>1. nap.timer <= p
        BY <1>5, <3>4 DEF Polling, p
      <4>2. 1 * p <= (next - 1) * p /\ 1 * p = p
        BY <1>2, <1>3, <3>4, Shorter, Multiples
      <4> QED
        BY <1>1, <1>2, <1>3, <2>1, <3>1, <3>2, <4>1, <4>2
    <3> QED
      BY <1>3, <2>3, <3>3, <3>4
  <2> QED
    BY <1>3, <2>2, <2>3
<1> QED
  BY <1>1, <1>2, <1>3, <1>4, <1>5 DEF Polling, l, p

\* The boards stay, and with them the requests and the length of a round.
LEMMA RoundStays ==
  ASSUME UNCHANGED fixed
  PROVE  AllRequests' = AllRequests /\ Round' = Round /\ BoardsIds' = BoardsIds
<1>1. build' = build /\ boards' = boards
  BY DEF fixed
<1>2. AllRequests' = AllRequests
  BY <1>1 DEF AllRequests, RequestsOf
<1> QED
  BY <1>1, <1>2 DEF Round, BoardsIds

\* Steps in which no time passes and no actuator is counted or switched.
LEMMA NothingRuns ==
  ASSUME RunsInv, Polling', Phase' = Phase, UNCHANGED <<fixed, value, asked, ran>>
  PROVE  RunsInv'
<1>1. Round' = Round
  BY RoundStays
<1>2. ASSUME NEW i \in Actuator PROVE RanFor(i)'
  <2>1. RanFor(i)
    BY DEF RunsInv
  <2> QED
    BY <1>1, <2>1 DEF RanFor
<1> QED
  BY <1>2 DEF RunsInv, Times

\* A tick after a whole round.
LEMMA TickRuns ==
  ASSUME RunsInv, Count, Polling', Phase = Round, Phase' = 0
  PROVE  RunsInv'
<1>1. Polling /\ Round' = Round
  BY RoundStays DEF RunsInv, Count
<1>2. Round \in Nat
  BY <1>1, RoundAndPhase
<1>3. Actuator = T!Actuator
  BY DEF Actuator, T!Actuator
<1>4. /\ value' = [i \in Actuator |-> IF value[i] > 0 /\ value[i] # Always THEN value[i] - 1 ELSE value[i]]
      /\ asked' = asked /\ ran' = ran
  BY <1>3 DEF Count, T!CountDown, T!CountActuators, T!Left, T!Runs
<1>5. Times'
  BY <1>4, EarlierDaemonsAssumption DEF RunsInv, Times
<1>6. ASSUME NEW i \in Actuator PROVE RanFor(i)'
  <2> DEFINE v == value[i]
             a == asked[i]
             r == ran[i]
             w == value'[i]
             R == Round
  <2>1. /\ v \in 0 .. Always /\ a \in 0 .. Always /\ r \in Nat /\ Always \in Nat
        /\ a \in 1 .. Always - 1 =>
             /\ v <= a
             /\ v > 0 => r <= (a - v) * R + R
             /\ v \in 1 .. a - 1 => r >= (a - v - 1) * R + R
             /\ v = 0 => r <= a * R /\ r >= (a - 1) * R
    BY EarlierDaemonsAssumption DEF RunsInv, RanFor, Times
  <2>2. w = IF v > 0 /\ v # Always THEN v - 1 ELSE v
    BY <1>4
  <2>3. asked'[i] = a /\ ran'[i] = r
    BY <1>4
  <2>4. R \in Nat
    BY <1>2
  <2> HIDE DEF v, a, r, w, R
  <2>5. w \in 0 .. Always
    BY <2>1, <2>2
  <2>6. ASSUME a \in 1 .. Always - 1
        PROVE  /\ w <= a
               /\ w > 0 => r <= (a - w) * R
               /\ w \in 1 .. a - 1 => r >= (a - w - 1) * R
               /\ w = 0 => r <= a * R /\ r >= (a - 1) * R
    <3>1. v <= a /\ v # Always
      BY <2>1, <2>6
    <3>2. CASE v = 0
      BY <2>1, <2>2, <2>6, <3>2
    <3>3. CASE v > 0
      <4>1. w = v - 1 /\ v = w + 1
        BY <2>1, <2>2, <3>1, <3>3
      <4>2. r <= (a - w) * R
        <5>1. (a - v) * R + R = (a - w) * R
          BY <2>1, <2>4, <4>1, Multiples
        <5> QED
          BY <2>1, <2>6, <3>3, <5>1
      <4>3. r >= (a - w - 1) * R
        <5>1. CASE v = a
          <6>1. (a - w - 1) * R = 0
            BY <2>1, <2>4, <4>1, <5>1, Multiples
          <6> QED
            BY <2>1, <6>1
        <5>2. CASE v # a
          <6>1. v \in 1 .. a - 1
            BY <2>1, <3>1, <3>3, <5>2
          <6>2. (a - v - 1) * R + R = (a - w - 1) * R
            BY <2>1, <2>4, <4>1, Multiples
          <6> QED
            BY <2>1, <2>6, <6>1, <6>2
        <5> QED
          BY <5>1, <5>2
      <4>4. w = 0 => (a - w) * R = a * R /\ (a - w - 1) * R = (a - 1) * R
        BY <2>1
      <4> QED
        BY <2>1, <3>1, <4>1, <4>2, <4>3, <4>4
    <3> QED
      BY <2>1, <3>2, <3>3
  <2> QED
    BY <1>1, <1>2, <2>1, <2>3, <2>4, <2>5, <2>6, Multiples DEF RanFor, v, a, r, w, R
<1> QED
  BY <1>6, <1>5 DEF RunsInv

\* A slot passes.
LEMMA SlotRuns ==
  ASSUME RunsInv, Slot
  PROVE  RunsInv'
<1>1. Polling
  BY DEF RunsInv
<1>2. UNCHANGED fixed /\ value' = value /\ asked' = asked /\ timer' = timer /\ next' = next
  BY DEF Slot, timers
<1>3. Round' = Round /\ AllRequests' = AllRequests
  BY <1>2, RoundStays
<1>4. nap.timer > 0 /\ nap.timer \in Nat /\ nap \in [timer : Nat, snode : Nat]
  BY <1>1 DEF Slot, Polling
<1>5. nap' \in [timer : Nat, snode : Nat] /\ nap'.timer = nap.timer - 1
  <2>1. nap' = [t \in DOMAIN nap |-> IF nap[t] > 0 THEN nap[t] - 1 ELSE 0]
    BY DEF Slot
  <2>2. DOMAIN nap = {"timer", "snode"} /\ nap["timer"] = nap.timer /\ nap["snode"] \in Nat
    BY <1>4
  <2> QED
    BY <1>4, <2>1, <2>2
<1>6. Polling'
  <2>1. Second \in Nat /\ Pause["daemon4"] \in Nat
    BY EarlierDaemonsAssumption
  <2> QED
    BY <1>1, <1>2, <1>3, <1>4, <1>5, <2>1 DEF Polling, fixed
<1>7. Phase' = Phase + 1
  <2>1. build = "daemon2" => timer = "sleep"
    BY <1>1, <1>4 DEF Polling
  <2>2. Round \in Nat /\ Second \in Nat /\ (next - 1) * Pause["daemon4"] \in Int
    BY <1>1, RoundAndPhase
  <2>3. build' = build
    BY <1>2 DEF fixed
  <2> QED
    BY <1>2, <1>3, <1>4, <1>5, <2>1, <2>2, <2>3 DEF Phase
<1>8. ASSUME NEW i \in Actuator PROVE RanFor(i)'
  <2>1. Round \in Nat /\ Phase \in Int /\ Phase' \in Int /\ 0 <= Phase
    BY <1>1, <1>7, RoundAndPhase
  <2>2. RanFor(i)
    BY DEF RunsInv
  <2>3. ran'[i] = IF value[i] > 0 /\ value[i] # Always THEN ran[i] + 1 ELSE ran[i]
    BY DEF Slot, T!Runs
  <2>4. value[i] \in Int /\ asked[i] \in Int /\ ran[i] \in Nat /\ Always \in Nat
    BY EarlierDaemonsAssumption DEF RunsInv, Times
  <2>5. /\ (asked[i] - value[i]) * Round \in Int
        /\ (asked[i] - value[i] - 1) * Round \in Int
    BY <2>1, <2>4, Multiples
  <2> QED
    BY <1>2, <1>3, <1>7, <2>1, <2>2, <2>3, <2>4, <2>5 DEF RanFor
<1>9. Times'
  BY <1>2, EarlierDaemonsAssumption DEF RunsInv, Times, Slot
<1> QED
  BY <1>6, <1>8, <1>9 DEF RunsInv

\* A request, at any time of a round.
LEMMA ActuatorSetRuns ==
  ASSUME RunsInv, NEW j \in Actuator, NEW v \in Value, ActuatorSet(j, v)
  PROVE  RunsInv'
<1>1. Polling
  BY DEF RunsInv
<1>2. UNCHANGED <<fixed, clock, timer>>
  BY DEF ActuatorSet
<1>3. /\ value' = [value EXCEPT ![j] = v] /\ asked' = [asked EXCEPT ![j] = v]
      /\ ran' = [ran EXCEPT ![j] = 0]
  BY DEF ActuatorSet, T!RunFor
<1>4. Round' = Round /\ AllRequests' = AllRequests
  BY <1>2, RoundStays
<1>5. Polling' /\ Phase' = Phase
  BY <1>1, <1>2, <1>4 DEF Polling, Phase, fixed, clock
<1>6. Round \in Nat /\ Phase \in Int /\ 0 <= Phase /\ Phase <= Round
  BY <1>1, RoundAndPhase
<1>7. v \in 0 .. Always /\ Always \in Nat
  BY EarlierDaemonsAssumption
<1>8. ASSUME NEW i \in Actuator PROVE RanFor(i)'
  <2>1. RanFor(i)
    BY DEF RunsInv
  <2>2. CASE i # j
    <3>1. value'[i] = value[i] /\ asked'[i] = asked[i] /\ ran'[i] = ran[i]
      BY <1>3, <2>2
    <3> QED
      BY <1>4, <1>5, <2>1, <3>1 DEF RanFor
  <2>3. CASE i = j
    <3>1. value'[i] = v /\ asked'[i] = v /\ ran'[i] = 0
      BY <1>3, <2>3 DEF RunsInv, Times
    <3>2. (v - v) * Round = 0
      BY <1>6, <1>7, Multiples
    <3> QED
      BY <1>4, <1>5, <1>6, <1>7, <3>1, <3>2 DEF RanFor
  <2> QED
    BY <2>2, <2>3
<1>9. Times'
  BY <1>3, <1>7 DEF RunsInv, Times
<1> QED
  BY <1>5, <1>8, <1>9 DEF RunsInv

\* A step that leaves the threads where they are.
LEMMA ElsewhereRuns ==
  ASSUME RunsInv, UNCHANGED <<fixed, nap, next, timer, value, asked, ran>>
  PROVE  RunsInv'
<1>1. AllRequests' = AllRequests /\ Round' = Round
  BY RoundStays
<1>2. Polling' /\ Phase' = Phase
  BY <1>1 DEF RunsInv, Polling, Phase, fixed
<1> QED
  BY <1>2, NothingRuns

\* The steps of the two builds' main loops run the delays of their outputs down, one
\* tick at a time, and switch an output off where its delay ends.
LEMMA TimersRun ==
  ASSUME RunsInv, Tick2 \/ SendActuators2 \/ SendSensors \/ Tick4 \/ SendActuators4
  PROVE  RunsInv'
<1>1. Polling
  BY DEF RunsInv
<1>2. Round \in Nat /\ Len(AllRequests) \in Nat /\ Second \in Nat /\ nap.timer \in Nat
  BY <1>1, RoundAndPhase
<1>3. CASE Tick2
  <2>1. Count /\ build = "daemon2" /\ nap.timer = 0 /\ nap' = nap /\ next' = next
    BY <1>3 DEF Tick2
  <2>2. UNCHANGED fixed /\ timer = "sleep" /\ timer' = "sensors"
    BY <2>1 DEF Count, T!CountDown
  <2>3. AllRequests' = AllRequests
    BY <2>2, RoundStays
  <2>4. Polling' /\ Phase = Round /\ Phase' = 0
    BY <1>1, <1>2, <2>1, <2>2, <2>3 DEF Polling, Phase, Round, fixed
  <2> QED
    BY <2>1, <2>4, TickRuns
<1>4. CASE Tick4
  <2>1. Count /\ build = "daemon4" /\ nap.timer = 0 /\ nap' = nap /\ next = 0 /\ next' = 1
    BY <1>4 DEF Tick4
  <2>2. UNCHANGED fixed
    BY <2>1 DEF Count
  <2>3. AllRequests' = AllRequests
    BY <2>2, RoundStays
  <2>4. (1 - 1) * Pause["daemon4"] = 0
    BY EarlierDaemonsAssumption
  <2>5. Polling' /\ Phase = Round /\ Phase' = 0
    BY <1>1, <1>2, <2>1, <2>2, <2>3, <2>4 DEF Polling, Phase, fixed
  <2> QED
    BY <2>1, <2>5, TickRuns
<1>5. CASE SendSensors
  <2>1. /\ UNCHANGED <<fixed, clock, ran>> /\ timer = "sensors" /\ timer' = "actuators"
        /\ value' = value /\ asked' = asked
    BY <1>5 DEF SendSensors, T!SendSensors, T!actuators, history
  <2>2. AllRequests' = AllRequests /\ Round' = Round
    BY <2>1, RoundStays
  <2>3. Polling' /\ Phase' = Phase
    BY <1>1, <2>1, <2>2 DEF Polling, Phase, fixed, clock
  <2> QED
    BY <2>1, <2>3, NothingRuns
<1>6. CASE SendActuators2
  <2>1. /\ UNCHANGED <<fixed, next, ran>> /\ timer = "actuators" /\ timer' = "sleep"
        /\ value' = value /\ asked' = asked /\ build = "daemon2"
    BY <1>6 DEF SendActuators2, T!SendActuators, history
  <2>2. nap \in [timer : Nat, snode : Nat] /\ nap' = [nap EXCEPT !.timer = Second]
    BY <1>1, <1>6 DEF SendActuators2, Polling
  <2>3. nap' \in [timer : Nat, snode : Nat] /\ nap'.timer = Second
    BY <1>2, <2>2
  <2>4. AllRequests' = AllRequests
    BY <2>1, RoundStays
  <2>5. Polling' /\ Phase' = Phase
    BY <1>1, <1>2, <2>1, <2>3, <2>4 DEF Polling, Phase, fixed
  <2> QED
    BY <2>1, <2>5, NothingRuns
<1>7. CASE SendActuators4
  <2>1. /\ UNCHANGED <<fixed, clock, ran>> /\ value' = value /\ asked' = asked /\ build = "daemon4"
    BY <1>7 DEF SendActuators4, T!SendActuators, history
  <2>2. AllRequests' = AllRequests /\ Round' = Round
    BY <2>1, RoundStays
  <2>3. Polling' /\ Phase' = Phase
    BY <1>1, <2>1, <2>2 DEF Polling, Phase, fixed, clock
  <2> QED
    BY <2>1, <2>3, NothingRuns
<1> QED
  BY <1>3, <1>4, <1>5, <1>6, <1>7

\* Polling the boards takes daemon4 its pauses, which the phase counts beforehand.
LEMMA PollsRun ==
  ASSUME RunsInv, Poll2 \/ Poll4
  PROVE  RunsInv'
<1>1. Polling
  BY DEF RunsInv
<1>2. /\ Round \in Nat /\ Len(AllRequests) \in Nat /\ Second \in Nat
      /\ nap.timer \in Nat /\ next \in Nat
  BY <1>1, RoundAndPhase
<1>3. UNCHANGED <<fixed, timer, value, asked, ran>>
  BY DEF Poll2, Poll4, Ask, Asked, timers, history
<1>4. AllRequests' = AllRequests /\ Round' = Round
  BY <1>3, RoundStays
<1>5. nap \in [timer : Nat, snode : Nat] /\ Pause["daemon2"] \in Nat /\ Pause["daemon4"] \in Nat
  BY <1>1, EarlierDaemonsAssumption DEF Polling
<1>6. \/ next \in 1 .. Len(AllRequests) /\ next' = next + 1
      \/ next = Len(AllRequests) + 1
  <2>1. DOMAIN AllRequests = 1 .. Len(AllRequests)
    BY <1>1, RequestsOfBoards DEF Polling
  <2> QED
    BY <2>1 DEF Poll2, Poll4, Ask, Asked
<1>7. CASE Poll2
  <2>1. build = "daemon2" /\ nap' = [nap EXCEPT !.snode = Pause["daemon2"]]
    BY <1>7 DEF Poll2
  <2>2. nap' \in [timer : Nat, snode : Nat] /\ nap'.timer = nap.timer
    BY <1>5, <2>1
  <2>3. next' \in 0 .. Len(AllRequests) + 1
    BY <1>2, <1>6, <1>7 DEF Poll2, Ask, Asked
  <2>4. Polling' /\ Phase' = Phase
    BY <1>1, <1>3, <1>4, <2>1, <2>2, <2>3 DEF Polling, Phase, fixed
  <2> QED
    BY <1>3, <2>4, NothingRuns
<1>8. CASE Poll4
  <2>1. build = "daemon4" /\ nap.timer = 0
    BY <1>8 DEF Poll4
  <2>2. CASE Ask
    <3>1. next \in 1 .. Len(AllRequests) /\ next' = next + 1
      BY <1>1, <2>2, RequestsOfBoards DEF Ask, Polling
    <3>2. nap' = [nap EXCEPT !.timer = Pause["daemon4"]]
      BY <1>2, <1>8, <2>2, <3>1 DEF Poll4, Asked
    <3>3. nap' \in [timer : Nat, snode : Nat] /\ nap'.timer = Pause["daemon4"]
      BY <1>5, <3>2
    <3>4. Polling'
      BY <1>1, <1>2, <1>3, <1>4, <2>1, <3>1, <3>3 DEF Polling, fixed
    <3>5. Phase' = Phase
      <4>1. (next + 1 - 1) * Pause["daemon4"] = (next - 1) * Pause["daemon4"] + Pause["daemon4"]
        BY <1>2, <1>5
      <4>2. Phase = (next - 1) * Pause["daemon4"] - 0
        BY <2>1, <3>1 DEF Phase
      <4>3. Phase' = (next + 1 - 1) * Pause["daemon4"] - Pause["daemon4"]
        BY <1>3, <2>1, <3>1, <3>3 DEF Phase, fixed
      <4>4. (next - 1) * Pause["daemon4"] \in Int
        BY <1>2, <1>5
      <4> QED
        BY <1>5, <4>1, <4>2, <4>3, <4>4
    <3> QED
      BY <1>3, <3>4, <3>5, NothingRuns
  <2>3. CASE Asked(0)
    <3>1. next = Len(AllRequests) + 1 /\ next' = 0
      BY <2>3 DEF Asked
    <3>2. nap' = [nap EXCEPT !.timer = Second]
      <4>1. ~ (next \in DOMAIN AllRequests)
        BY <1>1, <1>2, <3>1, RequestsOfBoards DEF Polling
      <4> QED
        BY <1>8, <4>1 DEF Poll4, Ask
    <3>3. nap' \in [timer : Nat, snode : Nat] /\ nap'.timer = Second
      BY <1>2, <1>5, <3>2
    <3>4. Polling'
      BY <1>1, <1>2, <1>3, <1>4, <2>1, <3>1, <3>3 DEF Polling, fixed
    <3>5. Phase' = Phase
      <4>1. Round = Second + Len(AllRequests) * Pause["daemon4"]
        BY <2>1 DEF Round
      <4>2. Phase = (next - 1) * Pause["daemon4"] - 0 /\ next - 1 = Len(AllRequests)
        BY <1>2, <2>1, <3>1 DEF Phase
      <4>3. Phase' = Round - Second
        BY <1>3, <1>4, <2>1, <3>1, <3>3 DEF Phase, fixed
      <4>4. Len(AllRequests) * Pause["daemon4"] \in Int
        BY <1>2, <1>5
      <4> QED
        BY <1>2, <4>1, <4>2, <4>3, <4>4
    <3> QED
      BY <1>3, <3>4, <3>5, NothingRuns
  <2> QED
    BY <1>8, <2>2, <2>3 DEF Poll4
<1> QED
  BY <1>7, <1>8

-----------------------------------------------------------------------------
\* In both builds an actuator that is on is reported every OnInterval ticks, for any
\* interval, also when it is switched on again before its time is up.
THEOREM Reported == Spec => []ReportedWhileOn
<1>1. Init => ReportsInv
  <2>1. Actuator = T!Actuator
    BY DEF Actuator, T!Actuator
  <2> QED
    BY <2>1 DEF Init, T!Init, ReportsInv, Types, StillCounting, ReportedWhileOn
<1>2. ReportsInv /\ [Next]_vars => ReportsInv'
  <2> SUFFICES ASSUME ReportsInv, [Next]_vars PROVE ReportsInv'
    OBVIOUS
  <2>1. CASE Tick2 \/ Tick4
    BY <2>1, CountKeeps DEF Tick2, Tick4
  <2>2. CASE SendSensors \/ SendActuators2 \/ SendActuators4
    BY <2>2, OthersKeep DEF SendSensors, SendActuators2, SendActuators4, T!SendSensors,
                            T!SendActuators, T!actuators, history
  <2>3. CASE Poll2 \/ Poll4 \/ Slot \/ Store2 \/ Store4
    BY <2>3, OthersKeep DEF Poll2, Poll4, Ask, Asked, Slot, Store2, Store4, Stored, timers, history
  <2>4. CASE InitializeActuatorOffAtStartup \/ ValuesRead
    BY <2>4, OthersKeep DEF InitializeActuatorOffAtStartup, ValuesRead, T!Startup, history
  <2>5. CASE \E i \in Actuator, v \in Value : ActuatorSet(i, v)
    BY <2>5, ActuatorSetKeeps
  <2>6. CASE OtherRequest
    BY <2>6, OthersKeep DEF OtherRequest, NodeInit, PassiveMode, ActiveMode, EventMode, T!NodeInit,
                            T!PassiveMode, T!ActiveMode, T!EventMode, T!actuators, history
  <2>7. CASE Connection
    BY <2>7, OthersKeep DEF Connection, T!PeerCloses, T!ConnectionEnds, T!Reconnect, T!actuators, history
  <2>8. CASE UNCHANGED vars
    BY <2>8, OthersKeep DEF vars, timers, history
  <2> QED
    BY <2>1, <2>2, <2>3, <2>4, <2>5, <2>6, <2>7, <2>8 DEF Next
<1>3. ReportsInv => ReportedWhileOn
  BY DEF ReportsInv
<1> QED
  BY <1>1, <1>2, <1>3, PTL DEF Spec
\* However requests, ticks and polls fall, an actuator requested on for n seconds is on for no
\* more than n rounds and, once its time is up, for n - 1 at least: for any boards, pauses and
\* seconds a round is a second in daemon2, and in daemon4 a second and a pause per request.
THEOREM OnForRounds == Spec => []OnForItsRounds
<1>1. Init => RunsInv
  <2> SUFFICES ASSUME Init PROVE RunsInv
    OBVIOUS
  <2>1. /\ build \in {"daemon2", "daemon4"} /\ boards \in Configs /\ nap = [timer |-> 0, snode |-> 0]
        /\ next = (IF build = "daemon2" THEN 1 ELSE 0) /\ ran = [i \in Actuator |-> 0]
    BY DEF Init
  <2>2. value = [i \in Actuator |-> 0] /\ asked = [i \in Actuator |-> 0] /\ timer = "sleep"
    <3>1. Actuator = T!Actuator
      BY DEF Actuator, T!Actuator
    <3> QED
      BY <3>1 DEF Init, T!Init
  <2>3. Len(AllRequests) \in Nat /\ Second \in Nat /\ Always \in Nat
    BY <2>1, RequestsOfBoards, EarlierDaemonsAssumption
  <2>4. Polling
    BY <2>1, <2>3 DEF Polling
  <2>5. Times
    BY <2>1, <2>2, <2>3 DEF Times
  <2>6. \A i \in Actuator : RanFor(i)
    BY <2>2 DEF RanFor
  <2> QED
    BY <2>4, <2>5, <2>6 DEF RunsInv
<1>2. RunsInv /\ [Next]_vars => RunsInv'
  <2> SUFFICES ASSUME RunsInv, [Next]_vars PROVE RunsInv'
    OBVIOUS
  <2>1. CASE Tick2 \/ SendSensors \/ SendActuators2 \/ Tick4 \/ SendActuators4
    BY <2>1, TimersRun
  <2>2. CASE Poll2 \/ Poll4
    BY <2>2, PollsRun
  <2>3. CASE Slot
    BY <2>3, SlotRuns
  <2>4. CASE \E i \in Actuator, v \in Value : ActuatorSet(i, v)
    BY <2>4, ActuatorSetRuns
  <2>5. CASE Store2 \/ Store4
    BY <2>5, ElsewhereRuns DEF Store2, Store4, Stored, timers, clock, history
  <2>6. CASE InitializeActuatorOffAtStartup \/ ValuesRead
    BY <2>6, ElsewhereRuns DEF InitializeActuatorOffAtStartup, ValuesRead, T!Startup, history
  <2>7. CASE OtherRequest
    BY <2>7, ElsewhereRuns DEF OtherRequest, NodeInit, PassiveMode, ActiveMode, EventMode, T!NodeInit,
                               T!PassiveMode, T!ActiveMode, T!EventMode, T!actuators, clock, history
  <2>8. CASE Connection
    BY <2>8, ElsewhereRuns DEF Connection, T!PeerCloses, T!ConnectionEnds, T!Reconnect, T!actuators,
                               clock, history
  <2>9. CASE UNCHANGED vars
    BY <2>9, ElsewhereRuns DEF vars, timers, clock, history
  <2> QED
    BY <2>1, <2>2, <2>3, <2>4, <2>5, <2>6, <2>7, <2>8, <2>9 DEF Next
<1>3. RunsInv => OnForItsRounds
  <2> SUFFICES ASSUME RunsInv, NEW i \in Actuator, asked[i] \in 1 .. Always - 1
               PROVE  /\ ran[i] <= asked[i] * Round
                      /\ value[i] = 0 => ran[i] >= (asked[i] - 1) * Round
    BY DEF OnForItsRounds
  <2>1. RanFor(i) /\ value[i] \in Nat /\ asked[i] \in Nat /\ ran[i] \in Nat
    BY DEF RunsInv, Times
  <2>2. Round \in Nat /\ Phase \in Int /\ Phase <= Round
    BY RoundAndPhase DEF RunsInv
  <2>3. CASE value[i] = 0
    BY <2>1, <2>3 DEF RanFor
  <2>4. CASE value[i] > 0
    <3>1. ran[i] <= (asked[i] - value[i]) * Round + Phase
      BY <2>1, <2>4 DEF RanFor
    <3>2. /\ (asked[i] - value[i]) * Round <= (asked[i] - 1) * Round
          /\ (asked[i] - value[i]) * Round \in Int
      BY <2>1, <2>2, <2>4, Shorter, Multiples
    <3>3. (asked[i] - 1) * Round + Round = asked[i] * Round /\ (asked[i] - 1) * Round \in Int
      BY <2>1, <2>2
    <3>4. asked[i] * Round \in Int
      BY <2>1, <2>2
    <3> QED
      BY <2>1, <2>2, <2>4, <3>1, <3>2, <3>3, <3>4
  <2> QED
    BY <2>1, <2>3, <2>4
<1> QED
  BY <1>1, <1>2, <1>3, PTL DEF Spec
-----------------------------------------------------------------------------
(* The values of the boards.                                               *)

\* A step that moves no answer.
LEMMA ElsewhereStores ==
  ASSUME Stores, UNCHANGED <<fixed, line, si>>
  PROVE  Stores'
<1>1. BoardsIds' = BoardsIds
  BY RoundStays
<1> QED
  BY <1>1 DEF Stores, ValuesOfItsNode, Numbered, NodeID2, NodeID4, Requests, fixed

\* A board that answers names itself.
LEMMA AskStores ==
  ASSUME Stores, boards \in Configs, Ask
  PROVE  Stores'
<1>1. UNCHANGED <<fixed, si>>
  BY DEF Ask
<1>2. BoardsIds' = BoardsIds
  BY <1>1, RoundStays
<1>3. AllRequests[next] \in BoardsIds
  BY RequestsOfBoards DEF Ask
<1>4. line' \in Seq(BoardsIds)
  BY <1>3 DEF Ask, Stores
<1>5. ValuesOfItsNode'
  BY <1>1 DEF Stores, ValuesOfItsNode, Numbered, NodeID2, NodeID4, Requests, fixed
<1> QED
  BY <1>1, <1>2, <1>4, <1>5 DEF Stores

\* The node for which an answer is stored is that of its board.
LEMMA StoredAtItsNode ==
  ASSUME boards \in Configs, Numbered, NEW id \in BoardsIds,
         NEW node, node = IF build = "daemon2" THEN NodeID2(id) ELSE NodeID4(id)
  PROVE  /\ node + 1 \in DOMAIN boards /\ node \in Int
         /\ id.kind = boards[node + 1].canid.kind /\ id.num = boards[node + 1].canid.num
<1>1. PICK n \in DOMAIN boards :
        /\ id \in ToSet(Requests(boards[n]))
        /\ id.kind = boards[n].canid.kind /\ id.num = boards[n].canid.num
  BY BoardOfId
<1>2. n \in Nat
  BY RequestsOfBoards
<1>3. node = n - 1
  <2>1. CASE build = "daemon2"
    BY <1>1, <2>1 DEF Numbered
  <2>2. CASE build # "daemon2"
    <3> DEFINE known == {m \in DOMAIN boards :
                           boards[m].canid.kind = id.kind /\ boards[m].canid.num = id.num}
    <3>1. known = {n}
      BY <1>1, <2>2 DEF Numbered
    <3>2. NodeID4(id) = (CHOOSE m \in {n} : \A k \in {n} : m <= k) - 1
      BY <3>1 DEF NodeID4
    <3>3. (CHOOSE m \in {n} : \A k \in {n} : m <= k) = n
      BY <1>2
    <3> QED
      BY <2>2, <3>2, <3>3
  <2> QED
    BY <2>1, <2>2
<1>4. node + 1 = n /\ node \in Int
  BY <1>2, <1>3
<1> QED
  BY <1>1, <1>4

\* A value is stored with the node its board is told to be, and the rest of the line
\* is still of the boards.
LEMMA StoreStores ==
  ASSUME Stores, boards \in Configs, Store2 \/ Store4
  PROVE  Stores'
<1> DEFINE id == Head(line)
           node == IF build = "daemon2" THEN NodeID2(id) ELSE NodeID4(id)
<1>1. line # <<>> /\ Stored(node)
  BY DEF Store2, Store4
<1>2. id \in BoardsIds /\ Tail(line) \in Seq(BoardsIds)
  BY <1>1 DEF Stores
<1>3. /\ UNCHANGED fixed /\ line' = Tail(line)
      /\ si' = si \/ si' = [si EXCEPT ![node][id.data] = <<id.kind, id.num>>]
  BY <1>1 DEF Stored
<1>4. BoardsIds' = BoardsIds /\ boards' = boards
  BY <1>3, RoundStays DEF fixed
<1>5. Numbered' = Numbered
  BY <1>3 DEF Numbered, NodeID2, Requests, fixed
<1>6. DOMAIN si' = 0 .. 15
  BY <1>3 DEF Stores
<1> HIDE DEF id, node
<1>7. ASSUME Numbered, NEW n \in 0 .. 15, NEW k \in DOMAIN si'[n], si'[n][k] # None
      PROVE  /\ n + 1 \in DOMAIN boards
             /\ si'[n][k] = <<boards[n + 1].canid.kind, boards[n + 1].canid.num>>
  <2>1. CASE n = node /\ k = id.data /\ si' # si
    <3>1. si'[n][k] = <<id.kind, id.num>>
      BY <1>3, <1>7, <2>1 DEF Stores
    <3>2. /\ node + 1 \in DOMAIN boards
          /\ id.kind = boards[node + 1].canid.kind /\ id.num = boards[node + 1].canid.num
      BY <1>2, <1>7, StoredAtItsNode DEF node
    <3> QED
      BY <2>1, <3>1, <3>2
  <2>2. CASE ~ (n = node /\ k = id.data /\ si' # si)
    <3>1. k \in DOMAIN si[n] /\ si'[n][k] = si[n][k]
      BY <1>3, <1>7, <2>2 DEF Stores
    <3> QED
      BY <1>7, <3>1 DEF Stores, ValuesOfItsNode
  <2> QED
    BY <2>1, <2>2
<1>8. ValuesOfItsNode'
  BY <1>4, <1>5, <1>6, <1>7 DEF ValuesOfItsNode
<1> QED
  BY <1>2, <1>3, <1>4, <1>6, <1>8 DEF Stores

\* If the boards are numbered as the build needs, what a node shows came from the board of that
\* node, for any boards and however their answers wait in line.
THEOREM OfItsNode == Spec => []ValuesOfItsNode
<1> DEFINE Inv == Stores /\ boards \in Configs
<1>1. Init => Inv
  <2> SUFFICES ASSUME Init PROVE Inv
    OBVIOUS
  <2>1. /\ boards \in Configs /\ line = <<>>
        /\ si = [n \in 0..15 |-> [k \in {"adclo", "adchi", "iso", "counter"} |-> None]]
    BY DEF Init
  <2> QED
    BY <2>1 DEF Stores, ValuesOfItsNode
<1>2. Inv /\ [Next]_vars => Inv'
  <2> SUFFICES ASSUME Stores, boards \in Configs, [Next]_vars PROVE Stores' /\ boards' \in Configs
    OBVIOUS
  <2>1. CASE Ask
    BY <2>1, AskStores DEF Ask, fixed
  <2>2. CASE Store2 \/ Store4
    BY <2>2, StoreStores DEF Store2, Store4, Stored, fixed
  <2>3. CASE UNCHANGED <<fixed, line, si>>
    BY <2>3, ElsewhereStores DEF fixed
  <2>4. CASE Tick2 \/ SendSensors \/ SendActuators2 \/ Tick4 \/ SendActuators4
    BY <2>3, <2>4 DEF Tick2, SendSensors, SendActuators2, Tick4, SendActuators4, Count, bus
  <2>5. CASE Poll2 \/ Poll4
    BY <2>1, <2>3, <2>5 DEF Poll2, Poll4, Asked
  <2>6. CASE Slot \/ InitializeActuatorOffAtStartup \/ ValuesRead \/ OtherRequest \/ Connection
    BY <2>3, <2>6 DEF Slot, InitializeActuatorOffAtStartup, ValuesRead, OtherRequest, Connection, bus
  <2>7. CASE \E i \in Actuator, v \in Value : ActuatorSet(i, v)
    BY <2>3, <2>7 DEF ActuatorSet, bus
  <2>8. CASE UNCHANGED vars
    BY <2>3, <2>8 DEF vars, bus
  <2> QED
    BY <2>2, <2>4, <2>5, <2>6, <2>7, <2>8 DEF Next
<1>3. Inv => ValuesOfItsNode
  BY DEF Stores
<1> QED
  BY <1>1, <1>2, <1>3, PTL DEF Spec
-----------------------------------------------------------------------------
(* TTA12daemon's connection to the gateway, whose model is GatewayLink.    *)

\* What it keeps apart from the modules above.
CONSTANTS SensorMap, ActuatorMap, Outgoing, MaxSent, CutPoints, MaxCuts, MaxCloses
VARIABLES linkConn, wire, buf, head, tail, linkMain, seq, error, control, linkAnswers,
          sends, cuts, closes
G == INSTANCE GatewayLink WITH conn <- linkConn, main <- linkMain, answers <- linkAnswers

\* The bytes of packets n + 1 to e, one behind the other.
Entry(ps, n, e) == FlattenSeq(SubSeq(ps, n + 1, e))

\* They are bytes, and none of them are no bytes.
LEMMA EntryType ==
  ASSUME NEW ps \in Seq(Seq(Nat)), NEW n \in Nat, NEW e \in Nat, e <= Len(ps)
  PROVE  /\ Entry(ps, n, e) \in Seq(Nat)
         /\ n >= e => Entry(ps, n, e) = <<>>
<1>1. SubSeq(ps, n + 1, e) \in Seq(Seq(Nat))
  OBVIOUS
<1>2. Entry(ps, n, e) \in Seq(Nat)
  <2>1. FlattenSeq(SubSeq(ps, n + 1, e)) \in Seq(Nat)
    BY <1>1, FlattenType
  <2> QED
    BY <2>1 DEF Entry
<1>3. ASSUME n >= e PROVE Entry(ps, n, e) = <<>>
  <2>1. SubSeq(ps, n + 1, e) = <<>>
    BY <1>3
  <2> QED
    BY <2>1 DEF Entry, FlattenSeq
<1> QED
  BY <1>2, <1>3

\* No packet is empty.
NoneEmpty(ps) == \A i \in 1 .. Len(ps) : ps[i] # <<>>

\* An entry begins with its first packet.
LEMMA EntryBegins ==
  ASSUME NEW ps \in Seq(Seq(Nat)), NEW n \in Nat, NEW e \in Nat, n < e, e <= Len(ps)
  PROVE  Entry(ps, n, e) = ps[n + 1] \o Entry(ps, n + 1, e)
<1>1. PICK s : s = SubSeq(ps, n + 1, e)
  OBVIOUS
<1>2. s \in Seq(Seq(Nat)) /\ s # <<>>
  <2>1. SubSeq(ps, n + 1, e) \in Seq(Seq(Nat)) /\ Len(SubSeq(ps, n + 1, e)) = e - n
    OBVIOUS
  <2>2. s \in Seq(Seq(Nat)) /\ Len(s) = e - n
    BY <1>1, <2>1
  <2>3. Len(s) # 0
    BY <2>2
  <2>4. s # <<>>
    BY <2>3
  <2> QED
    BY <2>2, <2>4
<1>3. Head(s) = ps[n + 1] /\ Tail(s) = SubSeq(ps, (n + 1) + 1, e)
  <2>1. n + 1 \in 1 .. Len(ps) /\ e \in n + 1 .. Len(ps)
    OBVIOUS
  <2> QED
    BY <1>1, <2>1, HeadTailOfSubSeq
<1>4. FlattenSeq(s) = Head(s) \o FlattenSeq(Tail(s))
  BY <1>2, FlattenHead
<1> QED
  BY <1>1, <1>3, <1>4 DEF Entry

\* What is taken from the front of a sequence, and what is left.
LEMMA FrontAndRest ==
  ASSUME NEW p \in Seq(Nat), NEW r \in Seq(Nat)
  PROVE  /\ Len(p \o r) = Len(p) + Len(r)
         /\ SubSeq(p \o r, 1, Len(p)) = p
         /\ SubSeq(p \o r, Len(p) + 1, Len(p \o r)) = r
<1>1. Len(p) \in Nat /\ Len(r) \in Nat /\ Len(p \o r) = Len(p) + Len(r)
  OBVIOUS
<1>2. SubSeq(p \o r, 1, Len(p)) = p
  OBVIOUS
<1>3. SubSeq(p \o r, Len(p) + 1, Len(p \o r)) = r
  BY <1>1
<1> QED
  BY <1>1, <1>2, <1>3

\* A piece of a sequence is one of such elements.
LEMMA Piece ==
  ASSUME NEW Elems, NEW sq \in Seq(Elems), NEW i \in Nat, NEW j \in Nat, j <= Len(sq)
  PROVE  SubSeq(sq, i + 1, j) \in Seq(Elems)
<1>1. i + 1 \in Int /\ j \in Int
  OBVIOUS
<1>2. \A k \in i + 1 .. j : sq[k] \in Elems
  OBVIOUS
<1> QED
  BY <1>1, <1>2, SubSeqProperties

\* Only the empty sequence has the length 0.
LEMMA Emptiness ==
  ASSUME NEW r \in Seq(Nat)
  PROVE  Len(r) \in Nat /\ (r = <<>> <=> Len(r) = 0)
OBVIOUS

\* Behind the first packet of an entry is the entry of the others, which is empty only behind the last.
LEMMA EntryGoesOn ==
  ASSUME NEW ps \in Seq(Seq(Nat)), NEW n \in Nat, NEW e \in Nat, n < e, e <= Len(ps),
         NoneEmpty(ps)
  PROVE  LET x == Entry(ps, n, e)
             c == Len(ps[n + 1])
         IN /\ x \in Seq(Nat) /\ c \in Nat /\ c > 0 /\ c <= Len(x)
            /\ SubSeq(x, 1, c) = ps[n + 1]
            /\ SubSeq(x, c + 1, Len(x)) = Entry(ps, n + 1, e)
            /\ Len(x) > c <=> n + 1 < e
<1> DEFINE x == Entry(ps, n, e)
           c == Len(ps[n + 1])
<1>1. PICK p \in Seq(Nat) : p = ps[n + 1] /\ p # <<>>
  <2>1. n + 1 \in 1 .. Len(ps)
    OBVIOUS
  <2> QED
    BY <2>1 DEF NoneEmpty
<1>2. PICK a \in Nat : a = n + 1
  OBVIOUS
<1>3. PICK r \in Seq(Nat) : r = Entry(ps, a, e) /\ (a >= e => r = <<>>)
  BY <1>2, EntryType
<1>4. x = p \o r
  BY <1>1, <1>2, <1>3, EntryBegins
<1>5. Len(p) \in Nat /\ Len(p) # 0 /\ Len(r) \in Nat /\ (r = <<>> <=> Len(r) = 0)
  BY <1>1, Emptiness
<1>6. /\ Len(x) = Len(p) + Len(r)
      /\ SubSeq(x, 1, Len(p)) = p
      /\ SubSeq(x, Len(p) + 1, Len(x)) = r
      /\ x \in Seq(Nat)
  BY <1>4, FrontAndRest
<1>7. ASSUME a < e PROVE Len(r) > 0
  <2>1. PICK q \in Seq(Nat) : q = ps[a + 1] /\ q # <<>>
    <3>1. a + 1 \in 1 .. Len(ps)
      BY <1>2, <1>7
    <3>2. ps[a + 1] # <<>>
      BY <3>1 DEF NoneEmpty
    <3>3. ps[a + 1] \in Seq(Nat)
      BY <3>1, ElementOfSeq
    <3> QED
      BY <3>2, <3>3
  <2>2. PICK t \in Seq(Nat) : t = Entry(ps, a + 1, e)
    <3>1. PICK b \in Nat : b = a + 1
      BY <1>2
    <3> QED
      BY <3>1, EntryType
  <2>3. r = q \o t
    BY <1>3, <1>7, <2>1, <2>2, EntryBegins
  <2>4. Len(q) \in Nat /\ Len(q) # 0 /\ Len(t) \in Nat
    BY <2>1, Emptiness
  <2>5. Len(r) = Len(q) + Len(t)
    BY <2>3, FrontAndRest
  <2> QED
    BY <2>4, <2>5
<1>8. c = Len(p)
  BY <1>1
<1>9. PICK l \in Nat, m \in Nat : l = Len(p) /\ m = Len(r) /\ l # 0 /\ (r = <<>> <=> m = 0) /\ Len(x) = l + m
  BY <1>5, <1>6
<1>10. c \in Nat /\ c > 0 /\ c <= Len(x)
  BY <1>8, <1>9
<1>11. Len(x) > c <=> m > 0
  BY <1>8, <1>9
<1>12. m > 0 <=> a < e
  BY <1>2, <1>3, <1>7, <1>9
<1>13. SubSeq(x, 1, c) = ps[n + 1] /\ SubSeq(x, c + 1, Len(x)) = Entry(ps, n + 1, e)
  BY <1>1, <1>2, <1>3, <1>6, <1>8
<1> QED
  BY <1>2, <1>6, <1>10, <1>13, <1>11, <1>12

\* The rest of the rest.
LEMMA RestOfRest ==
  ASSUME NEW m \in Seq(Nat), NEW i \in Nat, NEW c \in Nat, i < Len(m), c <= Len(m) - i
  PROVE  LET x == SubSeq(m, i + 1, Len(m))
         IN /\ Len(x) = Len(m) - i
            /\ SubSeq(x, c + 1, Len(x)) = SubSeq(m, (i + c) + 1, Len(m))
OBVIOUS


\* The same of an entry read from byte i + 1 on.
LEMMA EntryReadOn ==
  ASSUME NEW ps \in Seq(Seq(Nat)), NEW n \in Nat, NEW e \in Nat, n < e, e <= Len(ps),
         NoneEmpty(ps),
         NEW m \in Seq(Nat), NEW i \in Nat,
         SubSeq(m, i + 1, Len(m)) = Entry(ps, n, e)
  PROVE  LET c == Len(ps[n + 1])
         IN /\ SubSeq(m, (i + c) + 1, Len(m)) = Entry(ps, n + 1, e)
            /\ Len(m) > i + c <=> n + 1 < e
            /\ i + c \in Nat
<1> DEFINE c == Len(ps[n + 1])
<1>1. PICK x : x = Entry(ps, n, e)
  OBVIOUS
<1>2. PICK d \in Nat : d = c
  <2>1. ps[n + 1] \in Seq(Nat)
    OBVIOUS
  <2> QED
    BY <2>1
<1>3. /\ x \in Seq(Nat) /\ c \in Nat /\ c > 0 /\ c <= Len(x)
      /\ SubSeq(x, c + 1, Len(x)) = Entry(ps, n + 1, e)
      /\ Len(x) > c <=> n + 1 < e
  BY <1>1, EntryGoesOn
<1>4. Len(m) \in Nat /\ i < Len(m) /\ Len(x) = Len(m) - i
  <2>1. Len(m) \in Nat /\ x = SubSeq(m, i + 1, Len(m))
    BY <1>1
  <2>2. Len(x) > 0
    BY <1>3
  <2>3. i < Len(m)
    <3>1. ASSUME i >= Len(m) PROVE FALSE
      <4>1. Len(SubSeq(m, i + 1, Len(m))) = 0
        BY <2>1, <3>1
      <4> QED
        BY <2>1, <2>2, <4>1
    <3> QED
      BY <2>1, <3>1
  <2> QED
    BY <2>1, <2>3
<1>5. SubSeq(x, c + 1, Len(x)) = SubSeq(m, (i + c) + 1, Len(m))
  <2>1. x = SubSeq(m, i + 1, Len(m)) /\ c <= Len(m) - i
    BY <1>1, <1>3, <1>4
  <2> QED
    BY <1>3, <1>4, <2>1, RestOfRest
<1>6. Len(m) > i + d <=> Len(x) > d
  BY <1>4
<1>7. i + d \in Nat
  OBVIOUS
<1> QED
  BY <1>3, <1>5, <1>6, <1>2, <1>7

\* A packet that tells where it ends: the parser goes on behind its last byte, whatever follows.
SelfDelimiting(p) ==
  /\ p \in Seq(Nat) /\ p # <<>>
  /\ \A rest \in Seq(Nat) : G!Consumed(p \o rest) = Len(p)

\* Where the bytes of a packet lie when more follows it: seven of the header, then the body.
LEMMA BytesOf ==
  ASSUME NEW h \in Seq(Nat), Len(h) = 7, NEW b \in Seq(Nat), NEW rest \in Seq(Nat)
  PROVE  LET q == (h \o b) \o rest
         IN /\ h \o b \in Seq(Nat) /\ Len(h \o b) = 7 + Len(b) /\ Len(q) >= 7 + Len(b)
            /\ G!GetData(q, 0) = h[1]
            /\ \A i \in 7 .. 6 + Len(b) : G!GetData(q, i) = b[i - 6]
<1>1. PICK n \in Nat, m \in Nat : n = Len(b) /\ m = Len(rest)
  OBVIOUS
<1>2. PICK p \in Seq(Nat) : p = h \o b
  BY ConcatProperties
<1>3. Len(p) = 7 + n /\ \A i \in 1 .. 7 + n : p[i] = IF i <= 7 THEN h[i] ELSE b[i - 7]
  <2>1. /\ Len(h \o b) = Len(h) + Len(b)
        /\ \A i \in 1 .. Len(h) + Len(b) : (h \o b)[i] = IF i <= Len(h) THEN h[i] ELSE b[i - Len(h)]
    BY ConcatProperties
  <2> QED
    BY <1>1, <1>2, <2>1
<1>4. PICK q \in Seq(Nat) : q = p \o rest
  BY ConcatProperties
<1>5. Len(q) = 7 + n + m /\ \A i \in 1 .. 7 + n : q[i] = p[i]
  <2>1. /\ Len(p \o rest) = Len(p) + Len(rest)
        /\ \A i \in 1 .. Len(p) + Len(rest) : (p \o rest)[i] = IF i <= Len(p) THEN p[i] ELSE rest[i - Len(p)]
    BY ConcatProperties
  <2>2. \A i \in 1 .. 7 + n : i \in 1 .. 7 + n + m /\ i <= 7 + n
    OBVIOUS
  <2> QED
    BY <1>1, <1>3, <1>4, <2>1, <2>2
<1>6. DOMAIN q = 1 .. 7 + n + m
  BY <1>5
<1>7. \A i \in 0 .. 6 + n : G!GetData(q, i) = q[i + 1]
  <2> TAKE i \in 0 .. 6 + n
  <2>1. i + 1 \in 1 .. 7 + n + m
    OBVIOUS
  <2> QED
    BY <1>6, <2>1 DEF G!GetData
<1>8. G!GetData(q, 0) = h[1]
  BY <1>3, <1>5, <1>7
<1>9. \A i \in 7 .. 6 + n : G!GetData(q, i) = b[i - 6]
  <2> TAKE i \in 7 .. 6 + n
  <2>1. i \in 0 .. 6 + n /\ i + 1 \in 1 .. 7 + n /\ ~(i + 1 <= 7) /\ (i + 1) - 7 = i - 6
    OBVIOUS
  <2> QED
    BY <1>3, <1>5, <1>7, <2>1
<1> QED
  BY <1>1, <1>2, <1>3, <1>4, <1>5, <1>8, <1>9

\* A bit, and a header that says type.
Bit == 0 .. 1
IsHeader(h, type) == h \in Seq(Nat) /\ Len(h) = 7 /\ (h[1] \div 16) % 8 = type

\* A header has seven bytes, and its first tells the type.
LEMMA HeaderTells ==
  ASSUME NEW dev \in Bit, NEW type \in 0 .. 7, NEW sec \in Bit, NEW ack \in Bit,
         NEW sq \in Nat, NEW ctl \in Nat, NEW node \in Nat
  PROVE  IsHeader(G!Header(dev, type, sec, ack, sq, ctl, node), type)
<1>1. PICK f \in Nat : f = 4 * ack + 8 * sec + 16 * type + 128 * dev
  BY DEF Bit
<1>2. f \div 16 = type + 8 * dev
  BY <1>1 DEF Bit
<1>3. (f \div 16) % 8 = type
  BY <1>2 DEF Bit
<1>4. \A w \in Nat : G!Lo(w) \in Nat /\ G!Hi(w) \in Nat
  BY DEF G!Lo, G!Hi
<1>5. PICK a1 \in Nat, a2 \in Nat, a3 \in Nat, a4 \in Nat, a5 \in Nat, a6 \in Nat :
        G!Header(dev, type, sec, ack, sq, ctl, node) = <<f, a1, a2, a3, a4, a5, a6>>
  BY <1>1, <1>4 DEF G!Header
<1>6. LET h == <<f, a1, a2, a3, a4, a5, a6>> IN h \in Seq(Nat) /\ Len(h) = 7 /\ h[1] = f
  OBVIOUS
<1> QED
  BY <1>3, <1>5, <1>6 DEF IsHeader

\* Bytes that the parser reads as the body b of a packet of such a type.
ReadsAs(q, type, b) ==
  /\ ~G!TooSmall(q) /\ G!ParsingPacket(q).type = type /\ G!ParsingPacket(q).len = b[2]
  /\ \A i \in 7 .. 6 + Len(b) : G!GetData(q, i) = b[i - 6]

\* So a reader that has such a body before it, whatever follows, knows the type, and the bytes of the body.
LEMMA ReadBack ==
  ASSUME NEW dev \in Bit, NEW type \in 0 .. 7, NEW sec \in Bit, NEW ack \in Bit,
         NEW sq \in Nat, NEW ctl \in Nat, NEW node \in Nat, NEW b \in Seq(Nat), Len(b) >= 2, NEW rest \in Seq(Nat)
  PROVE  LET p == G!Header(dev, type, sec, ack, sq, ctl, node) \o b
             q == p \o rest
         IN p \in Seq(Nat) /\ Len(p) = 7 + Len(b) /\ ReadsAs(q, type, b)
<1>1. PICK h : h = G!Header(dev, type, sec, ack, sq, ctl, node)
  OBVIOUS
<1>2. h \in Seq(Nat) /\ Len(h) = 7 /\ (h[1] \div 16) % 8 = type
  <2>1. IsHeader(h, type)
    BY <1>1, HeaderTells
  <2> QED
    BY <2>1 DEF IsHeader
<1>3. PICK n \in Nat : n = Len(b) /\ n >= 2
  OBVIOUS
<1>4. /\ h \o b \in Seq(Nat) /\ Len(h \o b) = 7 + n /\ Len((h \o b) \o rest) >= 7 + n
      /\ G!GetData((h \o b) \o rest, 0) = h[1]
      /\ \A i \in 7 .. 6 + n : G!GetData((h \o b) \o rest, i) = b[i - 6]
  BY <1>2, <1>3, BytesOf
<1>5. PICK q : q = (h \o b) \o rest
  OBVIOUS
<1>6. ~G!TooSmall(q)
  <2>1. PICK m \in Nat : m = Len(q)
    <3>1. (h \o b) \o rest \in Seq(Nat)
      BY <1>4, ConcatProperties
    <3> QED
      BY <1>5, <3>1
  <2> QED
    BY <1>3, <1>4, <1>5, <2>1 DEF G!TooSmall
<1>7. G!ParsingPacket(q).type = type
  BY <1>2, <1>4, <1>5 DEF G!ParsingPacket
<1>8. G!ParsingPacket(q).len = b[2]
  <2>1. 8 \in 7 .. 6 + n /\ 8 - 6 = 2
    BY <1>3
  <2>2. G!GetData(q, 8) = b[2]
    BY <1>4, <1>5, <2>1
  <2> QED
    BY <2>2 DEF G!ParsingPacket
<1> QED
  BY <1>1, <1>3, <1>4, <1>5, <1>6, <1>7, <1>8 DEF ReadsAs

\* So many values of sensors or actuators.
ValuesOf(n) == {vs \in Seq([id : Nat, type : Nat, value : Nat]) : Len(vs) = n}

\* They take four bytes each.
LEMMA PayloadsLength ==
  ASSUME NEW n \in Nat, NEW vs \in ValuesOf(n)
  PROVE  G!Payloads(vs) \in Seq(Nat) /\ Len(G!Payloads(vs)) = 4 * n
<1>1. vs \in Seq([id : Nat, type : Nat, value : Nat]) /\ Len(vs) = n /\ DOMAIN vs = 1 .. n
  BY DEF ValuesOf
<1>2. PICK ps : ps = [i \in 1 .. n |-> G!Payload(vs[i])]
  OBVIOUS
<1>3. ASSUME NEW i \in 1 .. n PROVE G!Payload(vs[i]) \in Seq(Nat) /\ Len(G!Payload(vs[i])) = 4
  <2>1. PICK a \in Nat, b \in Nat, c \in Nat, d \in Nat : G!Payload(vs[i]) = <<a, b, c, d>>
    <3>1. vs[i] \in [id : Nat, type : Nat, value : Nat]
      BY <1>1, ElementOfSeq
    <3>2. vs[i].id \in Nat /\ vs[i].type \in Nat /\ vs[i].value \in Nat
      BY <3>1
    <3>3. G!Lo(vs[i].value) \in Nat /\ G!Hi(vs[i].value) \in Nat
      BY <3>2 DEF G!Lo, G!Hi
    <3> QED
      BY <3>2, <3>3 DEF G!Payload
  <2>2. <<a, b, c, d>> \in Seq(Nat) /\ Len(<<a, b, c, d>>) = 4
    OBVIOUS
  <2> QED
    BY <2>1, <2>2
<1>4. ps \in Seq(Seq(Nat)) /\ Len(ps) = n
  BY <1>2, <1>3
<1>5. \A i \in 1 .. Len(ps) : Len(ps[i]) = 4
  BY <1>2, <1>3, <1>4
<1>6. FlattenSeq(ps) \in Seq(Nat) /\ Len(FlattenSeq(ps)) = 4 * Len(ps)
  BY <1>4, <1>5, FlattenLength
<1>7. G!Payloads(vs) = FlattenSeq(ps)
  BY <1>1, <1>2 DEF G!Payloads, G!FlattenSeq, FlattenSeq
<1> QED
  BY <1>4, <1>6, <1>7

\* A packet with such a body behind some header.
Carries(p, type, b) ==
  \E dev \in Bit, sec \in Bit, ack \in Bit, sq \in Nat, ctl \in Nat, node \in Nat :
    p = G!Header(dev, type, sec, ack, sq, ctl, node) \o b

\* A packet tells where it ends when whoever reads its body reads that many bytes.
LEMMA Delimited ==
  ASSUME NEW p, NEW type \in 0 .. 7, NEW b \in Seq(Nat), Len(b) >= 2, Carries(p, type, b),
         \A q : ReadsAs(q, type, b) => G!ReadIndex(q) = 6 + Len(b)
  PROVE  SelfDelimiting(p)
<1>1. PICK dev \in Bit, sec \in Bit, ack \in Bit, sq \in Nat, ctl \in Nat, node \in Nat :
        p = G!Header(dev, type, sec, ack, sq, ctl, node) \o b
  BY DEF Carries
<1>2. PICK n \in Nat : n = Len(b) /\ n >= 2
  OBVIOUS
<1>3. ASSUME NEW rest \in Seq(Nat) PROVE p \in Seq(Nat) /\ Len(p) = 7 + n /\ ReadsAs(p \o rest, type, b)
  <2>1. LET hb == G!Header(dev, type, sec, ack, sq, ctl, node) \o b
        IN hb \in Seq(Nat) /\ Len(hb) = 7 + Len(b) /\ ReadsAs(hb \o rest, type, b)
    BY ReadBack
  <2> QED
    BY <1>1, <1>2, <2>1
<1>4. p \in Seq(Nat) /\ Len(p) = 7 + n
  <2>1. <<>> \in Seq(Nat)
    OBVIOUS
  <2> QED
    BY <1>3, <2>1
<1>5. ASSUME NEW rest \in Seq(Nat) PROVE G!Consumed(p \o rest) = Len(p)
  <2>1. ReadsAs(p \o rest, type, b)
    BY <1>3
  <2>2. ~G!TooSmall(p \o rest)
    BY <2>1 DEF ReadsAs
  <2>3. G!ReadIndex(p \o rest) = 6 + n
    BY <1>2, <2>1
  <2>4. G!Consumed(p \o rest) = (6 + n) + 1
    BY <2>2, <2>3 DEF G!Consumed
  <2> QED
    BY <1>2, <1>4, <2>4
<1>6. p # <<>>
  <2>1. Len(p) # 0
    BY <1>2, <1>4
  <2> QED
    BY <2>1
<1> QED
  BY <1>4, <1>5, <1>6 DEF SelfDelimiting

\* A request that only names its command.
LEMMA RequestDelimited ==
  ASSUME NEW p, NEW cmd \in {G!INIT, G!INIT_NODE, G!INIT_ACT, G!NODE_INFO},
         Carries(p, G!REQUEST, G!MakeRequest(cmd))
  PROVE  SelfDelimiting(p)
<1>1. PICK a \in Nat : G!MakeRequest(cmd) = <<a, 1, cmd>> /\ cmd \in 0 .. 3
  BY DEF G!MakeRequest, G!INIT, G!INIT_NODE, G!INIT_ACT, G!NODE_INFO, G!PLTYPE_NODEINFO, G!PLTYPE_NODEINIT
<1>2. PICK b \in Seq(Nat) : b = <<a, 1, cmd>> /\ Len(b) = 3 /\ b[3] = cmd
  <2>1. LET t == <<a, 1, cmd>> IN t \in Seq(Nat) /\ Len(t) = 3 /\ t[3] = cmd
    BY <1>1
  <2> QED
    BY <2>1
<1>3. ASSUME NEW q, ReadsAs(q, 0, b) PROVE G!ReadIndex(q) = 6 + Len(b)
  <2>1. 9 \in 7 .. 6 + 3 /\ 9 - 6 = 3
    OBVIOUS
  <2>2. G!ParsingPacket(q).type = 0 /\ G!GetData(q, 9) = cmd
    BY <1>2, <1>3, <2>1 DEF ReadsAs
  <2>3. G!ReadIndex(q) = 9
    BY <1>1, <2>2 DEF G!ReadIndex, G!RequestCommand, G!REQUEST, G!RESPONSE, G!CONFIRM, G!NOTIFY, G!DATA,
                      G!ACTUATOR_SET, G!ModeSet, G!PASSIVE_MODE, G!ACTIVE_MODE, G!EVENT_MODE
  <2> QED
    BY <1>2, <2>3
<1>4. 0 \in 0 .. 7 /\ Len(b) >= 2 /\ Carries(p, 0, b)
  BY <1>1, <1>2 DEF G!REQUEST
<1> QED
  BY <1>3, <1>4, Delimited

\* The places of one sequence behind another.
LEMMA Behind ==
  ASSUME NEW t \in Seq(Nat), NEW r \in Seq(Nat)
  PROVE  /\ t \o r \in Seq(Nat) /\ Len(t \o r) = Len(t) + Len(r)
         /\ \A i \in 1 .. Len(t) : (t \o r)[i] = t[i]
         /\ \A i \in 1 .. Len(r) : (t \o r)[Len(t) + i] = r[i]
<1>1. /\ t \o r \in Seq(Nat) /\ Len(t \o r) = Len(t) + Len(r)
      /\ \A i \in 1 .. Len(t) + Len(r) : (t \o r)[i] = IF i <= Len(t) THEN t[i] ELSE r[i - Len(t)]
  BY ConcatProperties
<1>2. PICK k \in Nat, l \in Nat : k = Len(t) /\ l = Len(r)
  OBVIOUS
<1>3. ASSUME NEW i \in 1 .. k PROVE (t \o r)[i] = t[i]
  <2>1. i \in 1 .. k + l /\ i <= k
    OBVIOUS
  <2> QED
    BY <1>1, <1>2, <2>1
<1>4. ASSUME NEW i \in 1 .. l PROVE (t \o r)[k + i] = r[i]
  <2>1. k + i \in 1 .. k + l /\ ~(k + i <= k) /\ (k + i) - k = i
    OBVIOUS
  <2> QED
    BY <1>1, <1>2, <2>1
<1> QED
  BY <1>1, <1>2, <1>3, <1>4

\* A request that sets values or modes: the command and four bytes a value.
LEMMA SettingDelimited ==
  ASSUME NEW p, NEW cmd \in {G!ACTUATOR_SET} \union G!ModeSet, NEW n \in 0 .. 255, NEW vs \in ValuesOf(n),
         Carries(p, G!REQUEST, G!MakeSetting(cmd, vs))
  PROVE  SelfDelimiting(p)
<1>1. cmd \in {4, 10, 11, 12}
  BY DEF G!ACTUATOR_SET, G!ModeSet, G!PASSIVE_MODE, G!ACTIVE_MODE, G!EVENT_MODE
<1>2. PICK t \in Seq(Nat) : t = <<2, n, cmd>> /\ Len(t) = 3 /\ t[2] = n /\ t[3] = cmd
  <2>1. LET s == <<2, n, cmd>> IN s \in Seq(Nat) /\ Len(s) = 3 /\ s[2] = n /\ s[3] = cmd
    BY <1>1
  <2> QED
    BY <2>1
<1>3. PICK r \in Seq(Nat) : r = G!Payloads(vs) /\ Len(r) = 4 * n
  BY PayloadsLength
<1>4. PICK b \in Seq(Nat) : b = t \o r /\ Len(b) = 3 + 4 * n /\ b[2] = n /\ b[3] = cmd
  <2>1. t \o r \in Seq(Nat) /\ Len(t \o r) = Len(t) + Len(r) /\ \A i \in 1 .. Len(t) : (t \o r)[i] = t[i]
    BY Behind
  <2>2. 2 \in 1 .. 3 /\ 3 \in 1 .. 3
    OBVIOUS
  <2> QED
    BY <1>2, <1>3, <2>1, <2>2
<1>5. ASSUME NEW q, ReadsAs(q, 0, b) PROVE G!ReadIndex(q) = 6 + Len(b)
  <2>1. 9 \in 7 .. 6 + (3 + 4 * n) /\ 9 - 6 = 3
    OBVIOUS
  <2>2. G!ParsingPacket(q).type = 0 /\ G!ParsingPacket(q).len = n /\ G!GetData(q, 9) = cmd
    BY <1>4, <1>5, <2>1 DEF ReadsAs
  <2>3. G!ReadIndex(q) = 9 + 4 * n
    BY <2>2 DEF G!ReadIndex, G!RequestCommand, G!REQUEST, G!RESPONSE, G!CONFIRM, G!NOTIFY, G!DATA
  <2> QED
    BY <1>4, <2>3
<1>6. 0 \in 0 .. 7 /\ Len(b) >= 2 /\ Carries(p, 0, b)
  <2>1. Len(vs) = n
    BY DEF ValuesOf
  <2>2. G!MakeSetting(cmd, vs) = b
    BY <1>2, <1>3, <1>4, <2>1 DEF G!MakeSetting, G!PLTYPE_VALUE
  <2> QED
    BY <1>4, <2>2 DEF G!REQUEST
<1> QED
  BY <1>5, <1>6, Delimited

\* Values of sensors or actuators: four bytes each.
LEMMA DataDelimited ==
  ASSUME NEW p, NEW n \in 0 .. 255, NEW vs \in ValuesOf(n), Carries(p, G!DATA, G!MakeData(vs))
  PROVE  SelfDelimiting(p)
<1>1. PICK t \in Seq(Nat) : t = <<2, n>> /\ Len(t) = 2 /\ t[2] = n
  <2>1. LET s == <<2, n>> IN s \in Seq(Nat) /\ Len(s) = 2 /\ s[2] = n
    OBVIOUS
  <2> QED
    BY <2>1
<1>2. PICK r \in Seq(Nat) : r = G!Payloads(vs) /\ Len(r) = 4 * n
  BY PayloadsLength
<1>3. PICK b \in Seq(Nat) : b = t \o r /\ Len(b) = 2 + 4 * n /\ b[2] = n
  <2>1. t \o r \in Seq(Nat) /\ Len(t \o r) = Len(t) + Len(r) /\ \A i \in 1 .. Len(t) : (t \o r)[i] = t[i]
    BY Behind
  <2>2. 2 \in 1 .. 2
    OBVIOUS
  <2> QED
    BY <1>1, <1>2, <2>1, <2>2
<1>4. ASSUME NEW q, ReadsAs(q, 4, b) PROVE G!ReadIndex(q) = 6 + Len(b)
  <2>1. G!ParsingPacket(q).type = 4 /\ G!ParsingPacket(q).len = n
    BY <1>3, <1>4 DEF ReadsAs
  <2>2. G!ReadIndex(q) = 8 + 4 * n
    BY <2>1 DEF G!ReadIndex, G!REQUEST, G!RESPONSE, G!CONFIRM, G!NOTIFY, G!DATA
  <2> QED
    BY <1>3, <2>2
<1>5. 4 \in 0 .. 7 /\ Len(b) >= 2 /\ Carries(p, 4, b)
  <2>1. Len(vs) = n
    BY DEF ValuesOf
  <2>2. G!MakeData(vs) = b
    BY <1>1, <1>2, <1>3, <2>1 DEF G!MakeData, G!PLTYPE_VALUE
  <2> QED
    BY <1>3, <2>2 DEF G!DATA
<1> QED
  BY <1>4, <1>5, Delimited

\* The state of the controller, which a confirmation carries.
ControllerStates == [sw : Nat, profile : Nat, control : Nat, node : Nat, senact : Nat, error : Nat, busy : Nat, comm : Nat]

\* A notification has one byte.
LEMMA NotifyDelimited ==
  ASSUME NEW p, NEW code \in Nat, Carries(p, G!NOTIFY, G!MakeNotify(code))
  PROVE  SelfDelimiting(p)
<1>1. PICK b \in Seq(Nat) : b = <<1, 1, code>> /\ Len(b) = 3 /\ b[2] = 1
  <2>1. LET s == <<1, 1, code>> IN s \in Seq(Nat) /\ Len(s) = 3 /\ s[2] = 1
    OBVIOUS
  <2> QED
    BY <2>1
<1>2. ASSUME NEW q, ReadsAs(q, 3, b) PROVE G!ReadIndex(q) = 6 + Len(b)
  <2>1. G!ParsingPacket(q).type = 3 /\ G!ParsingPacket(q).len = 1
    BY <1>1, <1>2 DEF ReadsAs
  <2>2. G!ReadIndex(q) = 9
    BY <2>1 DEF G!ReadIndex, G!REQUEST, G!RESPONSE, G!CONFIRM, G!NOTIFY, G!DATA
  <2> QED
    BY <1>1, <2>2
<1>3. 3 \in 0 .. 7 /\ Len(b) >= 2 /\ Carries(p, 3, b)
  BY <1>1 DEF G!NOTIFY, G!MakeNotify, G!PLTYPE_NODEINFO
<1> QED
  BY <1>2, <1>3, Delimited

\* A confirmation is counted as ten bytes and has nine.
LEMMA ConfirmDelimited ==
  ASSUME NEW p, NEW c \in ControllerStates, Carries(p, G!CONFIRM, G!MakeConfirm(c))
  PROVE  SelfDelimiting(p)
<1>1. PICK a1 \in Nat, a2 \in Nat, a3 \in Nat, a4 \in Nat, a5 \in Nat, a6 \in Nat, a7 \in Nat, a8 \in Nat, a9 \in Nat :
        G!MakeConfirm(c) = <<1, 10, a1, a2, a3, a4, a5, a6, a7, a8, a9>>
  <2>1. /\ c.sw \in Nat /\ c.profile \in Nat /\ c.control \in Nat /\ c.node \in Nat
        /\ c.senact \in Nat /\ c.error \in Nat /\ c.busy \in Nat /\ c.comm \in Nat
    BY DEF ControllerStates
  <2>2. G!Lo(c.control) \in Nat /\ G!Hi(c.control) \in Nat
    BY <2>1 DEF G!Lo, G!Hi
  <2> QED
    BY <2>1, <2>2 DEF G!MakeConfirm, G!PLTYPE_NODEINFO
<1>2. PICK b \in Seq(Nat) : b = G!MakeConfirm(c) /\ Len(b) = 11 /\ b[2] = 10
  <2>1. LET s == <<1, 10, a1, a2, a3, a4, a5, a6, a7, a8, a9>> IN s \in Seq(Nat) /\ Len(s) = 11 /\ s[2] = 10
    OBVIOUS
  <2> QED
    BY <1>1, <2>1
<1>3. ASSUME NEW q, ReadsAs(q, 2, b) PROVE G!ReadIndex(q) = 6 + Len(b)
  <2>1. G!ParsingPacket(q).type = 2 /\ G!ParsingPacket(q).len = 10
    BY <1>2, <1>3 DEF ReadsAs
  <2>2. G!ReadIndex(q) = 17
    BY <2>1 DEF G!ReadIndex, G!REQUEST, G!RESPONSE, G!CONFIRM, G!NOTIFY, G!DATA
  <2> QED
    BY <1>2, <2>2
<1>4. 2 \in 0 .. 7 /\ Len(b) >= 2 /\ Carries(p, 2, b)
  BY <1>2 DEF G!CONFIRM
<1> QED
  BY <1>3, <1>4, Delimited

\* An acknowledgement has no bytes behind its length.
LEMMA AckDelimited ==
  ASSUME NEW p, NEW type \in {G!RESPONSE, G!CONFIRM, G!NOTIFY, G!ACK}, Carries(p, type, G!MakeAck)
  PROVE  SelfDelimiting(p)
<1>1. PICK b \in Seq(Nat) : b = <<1, 0>> /\ Len(b) = 2 /\ b[2] = 0
  <2>1. LET s == <<1, 0>> IN s \in Seq(Nat) /\ Len(s) = 2 /\ s[2] = 0
    OBVIOUS
  <2> QED
    BY <2>1
<1>2. type \in {1, 2, 3, 5}
  BY DEF G!RESPONSE, G!CONFIRM, G!NOTIFY, G!ACK
<1>3. ASSUME NEW q, ReadsAs(q, type, b) PROVE G!ReadIndex(q) = 6 + Len(b)
  <2>1. G!ParsingPacket(q).type = type /\ G!ParsingPacket(q).len = 0
    BY <1>1, <1>3 DEF ReadsAs
  <2>2. G!ReadIndex(q) = 8
    BY <1>2, <2>1 DEF G!ReadIndex, G!REQUEST, G!RESPONSE, G!CONFIRM, G!NOTIFY, G!DATA
  <2> QED
    BY <1>1, <2>2
<1>4. type \in 0 .. 7 /\ Len(b) >= 2 /\ Carries(p, type, b)
  BY <1>1, <1>2 DEF G!MakeAck, G!PLTYPE_NODEINFO
<1> QED
  BY <1>3, <1>4, Delimited

\* The state of a node, and of a sensor or actuator as a status lists it.
NodeStates == [sw : Nat, profile : Nat, control : Nat, node : Nat, isinit : Nat, mode : Nat, time : Nat,
               num : Nat, comm : Nat, service : Nat]
Slots(n) == {ss \in Seq([data : [id : Nat, type : Nat, value : Nat], state : Nat, isinit : Nat, mode : Nat, time : Nat]) :
               Len(ss) = n}

\* Each takes eight bytes.
LEMMA SenActsOf ==
  ASSUME NEW n \in Nat, NEW ss \in Slots(n), NEW ls, ls = [i \in DOMAIN ss |-> G!SenAct(ss[i])]
  PROVE  ls \in Seq(Seq(Nat)) /\ Len(ls) = n /\ \A k \in 1 .. n : Len(ls[k]) = 8
<1>1. /\ ss \in Seq([data : [id : Nat, type : Nat, value : Nat], state : Nat, isinit : Nat, mode : Nat, time : Nat])
      /\ Len(ss) = n /\ DOMAIN ss = 1 .. n
  BY DEF Slots
<1>2. ASSUME NEW i \in 1 .. n PROVE G!SenAct(ss[i]) \in Seq(Nat) /\ Len(G!SenAct(ss[i])) = 8
  <2>1. ss[i] \in [data : [id : Nat, type : Nat, value : Nat], state : Nat, isinit : Nat, mode : Nat, time : Nat]
    BY <1>1, ElementOfSeq
  <2>2. /\ ss[i].data \in [id : Nat, type : Nat, value : Nat]
        /\ ss[i].state \in Nat /\ ss[i].isinit \in Nat /\ ss[i].mode \in Nat /\ ss[i].time \in Nat
    BY <2>1
  <2>3. ss[i].data.id \in Nat /\ ss[i].data.type \in Nat /\ ss[i].data.value \in Nat
    BY <2>2
  <2>4. G!Lo(ss[i].data.value) \in Nat /\ G!Hi(ss[i].data.value) \in Nat
    BY <2>3 DEF G!Lo, G!Hi
  <2>5. PICK u \in Seq(Nat) : u = G!Payload(ss[i].data) /\ Len(u) = 4
    <3>1. PICK a \in Nat, b \in Nat, c \in Nat, d \in Nat : G!Payload(ss[i].data) = <<a, b, c, d>>
      BY <2>3, <2>4 DEF G!Payload
    <3>2. <<a, b, c, d>> \in Seq(Nat) /\ Len(<<a, b, c, d>>) = 4
      OBVIOUS
    <3> QED
      BY <3>1, <3>2
  <2>6. PICK v \in Seq(Nat) : v = <<ss[i].state, ss[i].isinit, ss[i].mode, ss[i].time>> /\ Len(v) = 4
    <3>1. PICK a \in Nat, b \in Nat, c \in Nat, d \in Nat :
            a = ss[i].state /\ b = ss[i].isinit /\ c = ss[i].mode /\ d = ss[i].time
      BY <2>2
    <3>2. <<a, b, c, d>> \in Seq(Nat) /\ Len(<<a, b, c, d>>) = 4
      OBVIOUS
    <3> QED
      BY <3>1, <3>2
  <2>7. u \o v \in Seq(Nat) /\ Len(u \o v) = Len(u) + Len(v)
    BY Behind
  <2> QED
    BY <2>5, <2>6, <2>7 DEF G!SenAct
<1>3. ls \in Seq(Seq(Nat)) /\ Len(ls) = n
  BY <1>1, <1>2
<1> QED
  BY <1>1, <1>2, <1>3

\* So do they all, one behind the other.
LEMMA SlotsLength ==
  ASSUME NEW n \in Nat, NEW ss \in Slots(n), NEW ls, ls = [i \in DOMAIN ss |-> G!SenAct(ss[i])]
  PROVE  G!FlattenSeq(ls) \in Seq(Nat) /\ Len(G!FlattenSeq(ls)) = 8 * n
<1>1. ls \in Seq(Seq(Nat)) /\ Len(ls) = n /\ \A i \in 1 .. n : Len(ls[i]) = 8
  BY SenActsOf
<1>2. FlattenSeq(ls) \in Seq(Nat) /\ Len(FlattenSeq(ls)) = 8 * Len(ls)
  BY <1>1, FlattenLength
<1> QED
  BY <1>1, <1>2 DEF G!FlattenSeq, FlattenSeq

\* The bytes of a status: eleven, eight for each sensor, four.
LEMMA StatusParts ==
  ASSUME NEW st \in NodeStates, NEW n \in Nat, NEW ss \in Slots(n)
  PROVE  \E t \in Seq(Nat), m \in Seq(Nat), e \in Seq(Nat) :
           /\ t = <<st.sw, st.profile, G!Lo(st.control), G!Hi(st.control), G!Lo(st.node), G!Hi(st.node),
                    st.isinit, st.mode, G!Lo(st.time), G!Hi(st.time), st.num>>
           /\ Len(t) = 11
           /\ m = G!FlattenSeq([i \in DOMAIN ss |-> G!SenAct(ss[i])]) /\ Len(m) = 8 * n
           /\ e = <<G!Lo(st.comm), G!Hi(st.comm), G!Lo(st.service), G!Hi(st.service)>> /\ Len(e) = 4
           /\ G!NodeStatus(st, ss) = (t \o m) \o e
<1>1. /\ st.sw \in Nat /\ st.profile \in Nat /\ st.control \in Nat /\ st.node \in Nat /\ st.isinit \in Nat
      /\ st.mode \in Nat /\ st.time \in Nat /\ st.num \in Nat /\ st.comm \in Nat /\ st.service \in Nat
  BY DEF NodeStates
<1>2. \A w \in Nat : G!Lo(w) \in Nat /\ G!Hi(w) \in Nat
  BY DEF G!Lo, G!Hi
<1>3. PICK t \in Seq(Nat) :
        /\ t = <<st.sw, st.profile, G!Lo(st.control), G!Hi(st.control), G!Lo(st.node), G!Hi(st.node),
                 st.isinit, st.mode, G!Lo(st.time), G!Hi(st.time), st.num>>
        /\ Len(t) = 11
  <2>1. PICK a1 \in Nat, a2 \in Nat, a3 \in Nat, a4 \in Nat, a5 \in Nat, a6 \in Nat, a7 \in Nat, a8 \in Nat,
             a9 \in Nat, a10 \in Nat, a11 \in Nat :
          /\ a1 = st.sw /\ a2 = st.profile /\ a3 = G!Lo(st.control) /\ a4 = G!Hi(st.control)
          /\ a5 = G!Lo(st.node) /\ a6 = G!Hi(st.node) /\ a7 = st.isinit /\ a8 = st.mode
          /\ a9 = G!Lo(st.time) /\ a10 = G!Hi(st.time) /\ a11 = st.num
    BY <1>1, <1>2
  <2>2. LET s == <<a1, a2, a3, a4, a5, a6, a7, a8, a9, a10, a11>> IN s \in Seq(Nat) /\ Len(s) = 11
    OBVIOUS
  <2> QED
    BY <2>1, <2>2
<1>4. PICK m \in Seq(Nat) : m = G!FlattenSeq([i \in DOMAIN ss |-> G!SenAct(ss[i])]) /\ Len(m) = 8 * n
  BY SlotsLength
<1>5. PICK e \in Seq(Nat) :
        e = <<G!Lo(st.comm), G!Hi(st.comm), G!Lo(st.service), G!Hi(st.service)>> /\ Len(e) = 4
  <2>1. PICK a \in Nat, b \in Nat, c \in Nat, d \in Nat :
          a = G!Lo(st.comm) /\ b = G!Hi(st.comm) /\ c = G!Lo(st.service) /\ d = G!Hi(st.service)
    BY <1>1, <1>2
  <2>2. <<a, b, c, d>> \in Seq(Nat) /\ Len(<<a, b, c, d>>) = 4
    OBVIOUS
  <2> QED
    BY <2>1, <2>2
<1>6. G!NodeStatus(st, ss) = (t \o m) \o e
  BY <1>3, <1>4, <1>5 DEF G!NodeStatus
<1> QED
  BY <1>3, <1>4, <1>5, <1>6

\* Its eleventh byte says how many sensors follow.
LEMMA NodeStatusLength ==
  ASSUME NEW st \in NodeStates, NEW n \in Nat, NEW ss \in Slots(n)
  PROVE  LET s == G!NodeStatus(st, ss)
         IN s \in Seq(Nat) /\ Len(s) = 15 + 8 * n /\ s[11] = st.num
<1>1. PICK t \in Seq(Nat), m \in Seq(Nat), e \in Seq(Nat) :
        /\ t = <<st.sw, st.profile, G!Lo(st.control), G!Hi(st.control), G!Lo(st.node), G!Hi(st.node),
                 st.isinit, st.mode, G!Lo(st.time), G!Hi(st.time), st.num>>
        /\ Len(t) = 11
        /\ m = G!FlattenSeq([i \in DOMAIN ss |-> G!SenAct(ss[i])]) /\ Len(m) = 8 * n
        /\ e = <<G!Lo(st.comm), G!Hi(st.comm), G!Lo(st.service), G!Hi(st.service)>> /\ Len(e) = 4
        /\ G!NodeStatus(st, ss) = (t \o m) \o e
  BY StatusParts
<1>2. t[11] = st.num
  BY <1>1
<1>3. PICK tm \in Seq(Nat) : tm = t \o m /\ Len(tm) = 11 + 8 * n /\ tm[11] = st.num
  <2>1. t \o m \in Seq(Nat) /\ Len(t \o m) = Len(t) + Len(m) /\ \A i \in 1 .. Len(t) : (t \o m)[i] = t[i]
    BY Behind
  <2>2. 11 \in 1 .. 11
    OBVIOUS
  <2>3. Len(t) = 11 /\ Len(m) = 8 * n
    BY <1>1
  <2> QED
    BY <1>2, <2>1, <2>2, <2>3
<1>4. tm \o e \in Seq(Nat) /\ Len(tm \o e) = 15 + 8 * n /\ (tm \o e)[11] = st.num
  <2>1. tm \o e \in Seq(Nat) /\ Len(tm \o e) = Len(tm) + Len(e) /\ \A i \in 1 .. Len(tm) : (tm \o e)[i] = tm[i]
    BY Behind
  <2>2. 11 \in 1 .. 11 + 8 * n
    OBVIOUS
  <2>3. Len(e) = 4
    BY <1>1
  <2> QED
    BY <1>3, <2>1, <2>2, <2>3
<1> QED
  BY <1>1, <1>3, <1>4

\* A response about one node counts its sensors, and has its status behind that count.
LEMMA ResponseOfOne ==
  ASSUME NEW n \in 0 .. 29, NEW s \in Seq(Nat)
  PROVE  \E t \in Seq(Nat) : G!MakeResponse(<<n>>, <<s>>) = t \o s /\ Len(t) = 2 /\ t[2] = 11 + 8 * n
<1>1. G!FlattenSeq(<<s>>) = s
  <2>1. PICK one \in Seq(Seq(Nat)) : one = <<s>>
    <3>1. <<s>> \in Seq(Seq(Nat))
      OBVIOUS
    <3> QED
      BY <3>1
  <2>2. one # <<>> /\ Head(one) = s /\ Tail(one) = <<>>
    BY <2>1
  <2>3. FlattenSeq(one) = s \o FlattenSeq(<<>>)
    BY <2>2, FlattenHead
  <2>4. FlattenSeq(<<>>) = <<>>
    BY DEF FlattenSeq
  <2>5. s \o <<>> = s
    BY ConcatEmptySeq
  <2> QED
    BY <2>1, <2>3, <2>4, <2>5 DEF G!FlattenSeq, FlattenSeq
<1> DEFINE counted == CHOOSE f : f = [i \in 0 .. 1 |-> IF i = 0 THEN 0 ELSE f[i - 1] + 11 + 8 * <<n>>[i]]
<1>2. Len(<<n>>) = 1 /\ <<n>>[1] = n
  OBVIOUS
<1>3. counted[1] = 11 + 8 * n
  <2> DEFINE g == [i \in 0 .. 1 |-> IF i = 0 THEN 0 ELSE 11 + 8 * n]
  <2>1. g = [i \in 0 .. 1 |-> IF i = 0 THEN 0 ELSE g[i - 1] + 11 + 8 * <<n>>[i]]
    BY <1>2
  <2>2. counted = [i \in 0 .. 1 |-> IF i = 0 THEN 0 ELSE counted[i - 1] + 11 + 8 * <<n>>[i]]
    BY <2>1
  <2>3. PICK c : c = counted /\ c = [i \in 0 .. 1 |-> IF i = 0 THEN 0 ELSE c[i - 1] + 11 + 8 * <<n>>[i]]
    BY <2>2
  <2>4. c[0] = 0
    <3>1. 0 \in 0 .. 1
      OBVIOUS
    <3> QED
      BY <2>3, <3>1
  <2>5. c[1] = c[0] + 11 + 8 * <<n>>[1]
    <3>1. 1 \in 0 .. 1 /\ 1 # 0 /\ 1 - 1 = 0
      OBVIOUS
    <3> QED
      BY <2>3, <3>1
  <2> QED
    BY <1>2, <2>3, <2>4, <2>5
<1>4. G!MakeResponse(<<n>>, <<s>>) = <<1, counted[1] % 256>> \o G!FlattenSeq(<<s>>)
  BY <1>2 DEF G!MakeResponse, G!PLTYPE_NODEINFO
<1>5. (11 + 8 * n) % 256 = 11 + 8 * n
  OBVIOUS
<1>6. PICK t \in Seq(Nat) : t = <<1, 11 + 8 * n>> /\ Len(t) = 2 /\ t[2] = 11 + 8 * n
  <2>1. PICK d \in Nat : d = 11 + 8 * n
    OBVIOUS
  <2>2. <<1, d>> \in Seq(Nat) /\ Len(<<1, d>>) = 2 /\ <<1, d>>[2] = d
    OBVIOUS
  <2> QED
    BY <2>1, <2>2
<1> QED
  BY <1>1, <1>3, <1>4, <1>5, <1>6

\* The status of one node: its error counts lie behind as many sensors as its eleventh byte says, up to 29.
LEMMA ResponseDelimited ==
  ASSUME NEW p, NEW n \in 0 .. 29, NEW st \in NodeStates, st.num = n, NEW ss \in Slots(n),
         Carries(p, G!RESPONSE, G!MakeResponse(<<n>>, <<G!NodeStatus(st, ss)>>))
  PROVE  SelfDelimiting(p)
<1>1. PICK s \in Seq(Nat) : s = G!NodeStatus(st, ss) /\ Len(s) = 15 + 8 * n /\ s[11] = n
  BY NodeStatusLength
<1>2. PICK t \in Seq(Nat) :
        /\ G!MakeResponse(<<n>>, <<s>>) = t \o s
        /\ Len(t) = 2 /\ t[2] = 11 + 8 * n
  BY ResponseOfOne
<1>3. PICK b \in Seq(Nat) : b = t \o s /\ Len(b) = 17 + 8 * n /\ b[2] = 11 + 8 * n /\ b[13] = n
  <2>1. /\ t \o s \in Seq(Nat) /\ Len(t \o s) = Len(t) + Len(s)
        /\ \A i \in 1 .. Len(t) + Len(s) : (t \o s)[i] = IF i <= Len(t) THEN t[i] ELSE s[i - Len(t)]
    BY ConcatProperties
  <2>2. Len(t) = 2 /\ t[2] = 11 + 8 * n
    BY <1>2
  <2>3. 2 \in 1 .. 2 + (15 + 8 * n) /\ 13 \in 1 .. 2 + (15 + 8 * n) /\ 2 <= 2 /\ ~(13 <= 2) /\ 13 - 2 = 11
    OBVIOUS
  <2>4. /\ Len(t \o s) = 17 + 8 * n
        /\ (t \o s)[2] = 11 + 8 * n
        /\ (t \o s)[13] = n
    <3>1. Len(t \o s) = 17 + 8 * n
      BY <1>1, <2>1, <2>2
    <3>2. (t \o s)[2] = t[2] /\ (t \o s)[13] = s[11]
      <4>1. \A i \in 1 .. 2 + (15 + 8 * n) : (t \o s)[i] = IF i <= 2 THEN t[i] ELSE s[i - 2]
        BY <1>1, <2>1, <2>2
      <4>2. (t \o s)[2] = t[2]
        BY <2>3, <4>1
      <4>3. (t \o s)[13] = s[13 - 2]
        BY <2>3, <4>1
      <4> QED
        BY <2>3, <4>2, <4>3
    <3> QED
      BY <1>1, <2>2, <3>1, <3>2
  <2> QED
    BY <2>1, <2>4
<1>4. ASSUME NEW q, ReadsAs(q, 1, b) PROVE G!ReadIndex(q) = 6 + Len(b)
  <2>1. 19 \in 7 .. 6 + (17 + 8 * n) /\ 19 - 6 = 13
    OBVIOUS
  <2>2. G!ParsingPacket(q).type = 1 /\ G!ParsingPacket(q).len = 11 + 8 * n /\ G!GetData(q, 19) = n
    BY <1>3, <1>4, <2>1 DEF ReadsAs
  <2>3. 11 + 8 * n > 0 /\ ~(n > 29)
    OBVIOUS
  <2>4. G!ReadIndex(q) = 23 + 8 * n
    BY <2>2, <2>3 DEF G!ReadIndex, G!REQUEST, G!RESPONSE, G!CONFIRM, G!NOTIFY, G!DATA
  <2> QED
    BY <1>3, <2>4
<1>5. 1 \in 0 .. 7 /\ Len(b) >= 2 /\ Carries(p, 1, b)
  <2>1. Len(b) >= 2
    BY <1>3
  <2>2. G!MakeResponse(<<n>>, <<G!NodeStatus(st, ss)>>) = b
    BY <1>1, <1>2, <1>3
  <2> QED
    BY <2>1, <2>2 DEF G!RESPONSE
<1> QED
  BY <1>4, <1>5, Delimited

\* What the gateway sends, built as TTA12Packet builds it: no packet with more values than a byte counts, and the
\* status of one node with at most 29 sensors, behind which the parser takes the error counts for missing.
Built(p) ==
  \/ \E cmd \in {G!INIT, G!INIT_NODE, G!INIT_ACT, G!NODE_INFO} : Carries(p, G!REQUEST, G!MakeRequest(cmd))
  \/ \E cmd \in {G!ACTUATOR_SET} \union G!ModeSet, n \in 0 .. 255 : \E vs \in ValuesOf(n) :
       Carries(p, G!REQUEST, G!MakeSetting(cmd, vs))
  \/ \E n \in 0 .. 29 : \E st \in NodeStates, ss \in Slots(n) :
       st.num = n /\ Carries(p, G!RESPONSE, G!MakeResponse(<<n>>, <<G!NodeStatus(st, ss)>>))
  \/ \E c \in ControllerStates : Carries(p, G!CONFIRM, G!MakeConfirm(c))
  \/ \E code \in Nat : Carries(p, G!NOTIFY, G!MakeNotify(code))
  \/ \E n \in 0 .. 255 : \E vs \in ValuesOf(n) : Carries(p, G!DATA, G!MakeData(vs))
  \/ \E type \in {G!RESPONSE, G!CONFIRM, G!NOTIFY, G!ACK} : Carries(p, type, G!MakeAck)

\* Whatever TTA12Packet builds, the parser finds its end.
THEOREM BuiltTellsItsEnd ==
  ASSUME NEW p, Built(p)
  PROVE  SelfDelimiting(p)
BY RequestDelimited, SettingDelimited, ResponseDelimited, ConfirmDelimited, NotifyDelimited, DataDelimited,
   AckDelimited DEF Built

PacketsTellTheirEnd == \A p \in Outgoing : SelfDelimiting(p)

\* The entries that wait are the packets that arrived, so many at a time: behind ends[k] of them
\* begins entry k.
Grouped(ends) ==
  /\ ends[tail] = Len(arrived)
  /\ \A k \in head .. tail - 1 :
       /\ ends[k] < ends[k + 1] /\ ends[k + 1] <= Len(arrived)
       /\ buf[k] = Entry(arrived, ends[k], ends[k + 1])

\* What was handled are the first packets that arrived, and what the main loop has left of
\* its entry are the next ones, up to the end of the entry.
AtPacket(ends) ==
  /\ Len(handled) <= Len(arrived)
  /\ handled = SubSeq(arrived, 1, Len(handled))
  /\ linkMain.pc \in {"top", "check"} => Len(handled) = ends[head]
  /\ linkMain.pc \in {"parse", "done", "undefined"} =>
       /\ head < tail /\ ends[head] <= Len(handled) /\ Len(handled) <= ends[head + 1]
       /\ linkMain.idx \in Nat
       /\ linkMain.packet = SubSeq(buf[head], linkMain.idx + 1, Len(buf[head]))
       /\ linkMain.packet = Entry(arrived, Len(handled), ends[head + 1])
  /\ linkMain.pc = "parse" => Len(handled) < ends[head + 1]
  /\ linkMain.pc = "done" => Len(handled) = ends[head + 1]

\* The types of what the main loop works on.
LinkTypes ==
  /\ head \in Nat /\ tail \in Nat /\ head <= tail
  /\ DOMAIN linkMain = {"pc", "idx", "packet"} /\ linkMain.pc \in {"top", "check", "parse", "done", "undefined"}
  /\ linkMain.pc \in {"parse", "done", "undefined"} => head < tail
  /\ whole => wire \in Seq(Outgoing) /\ arrived \in Seq(Outgoing) /\ handled \in Seq(Seq(Nat))

\* The invariant: as long as no read ended inside a packet, the stream can be cut as said.
LinkInv == LinkTypes /\ (whole => \E ends \in [Nat -> Nat] : Grouped(ends) /\ AtPacket(ends))

\* Nothing of what the invariant is about changes.
LEMMA LinkUnchanged ==
  ASSUME LinkInv, UNCHANGED <<whole, wire, arrived, handled, buf, head, tail, linkMain>>
  PROVE  LinkInv'
BY DEF LinkInv, LinkTypes, Grouped, AtPacket

\* What arrived are sequences of bytes, none of them empty.
LEMMA Arrivals ==
  ASSUME PacketsTellTheirEnd, NEW ps \in Seq(Outgoing)
  PROVE  ps \in Seq(Seq(Nat)) /\ NoneEmpty(ps)
<1>1. Outgoing \subseteq Seq(Nat)
  BY DEF PacketsTellTheirEnd, SelfDelimiting
<1>2. ps \in Seq(Seq(Nat))
  BY <1>1
<1>3. \A i \in 1 .. Len(ps) : ps[i] # <<>>
  <2> TAKE i \in 1 .. Len(ps)
  <2>1. ps[i] \in Outgoing
    OBVIOUS
  <2> QED
    BY <2>1 DEF PacketsTellTheirEnd, SelfDelimiting
<1> QED
  BY <1>2, <1>3 DEF NoneEmpty

\* The parser takes the first packet of what is left, to its last byte.
LEMMA TakesOne ==
  ASSUME PacketsTellTheirEnd, NEW ps \in Seq(Outgoing), NEW n \in Nat, NEW e \in Nat, n < e, e <= Len(ps)
  PROVE  LET x == Entry(ps, n, e)
             c == G!Consumed(x)
         IN c = Len(ps[n + 1]) /\ SubSeq(x, 1, G!Min({c, Len(x)})) = ps[n + 1]
<1> DEFINE x == Entry(ps, n, e)
<1>1. ps \in Seq(Seq(Nat)) /\ NoneEmpty(ps)
  BY Arrivals
<1>2. PICK p \in Outgoing : p = ps[n + 1]
  <2>1. n + 1 \in 1 .. Len(ps)
    OBVIOUS
  <2> QED
    BY <2>1
<1>3. p \in Seq(Nat) /\ \A rest \in Seq(Nat) : G!Consumed(p \o rest) = Len(p)
  BY <1>2 DEF PacketsTellTheirEnd, SelfDelimiting
<1>4. Entry(ps, n + 1, e) \in Seq(Nat)
  <2>1. PICK a \in Nat : a = n + 1
    OBVIOUS
  <2> QED
    BY <1>1, <2>1, EntryType
<1>5. x = p \o Entry(ps, n + 1, e)
  BY <1>1, <1>2, EntryBegins
<1>6. G!Consumed(x) = Len(p)
  BY <1>3, <1>4, <1>5
<1>7. Len(ps[n + 1]) \in Nat /\ Len(x) \in Nat /\ Len(ps[n + 1]) <= Len(x) /\ SubSeq(x, 1, Len(ps[n + 1])) = ps[n + 1]
  <2>1. /\ x \in Seq(Nat) /\ Len(ps[n + 1]) \in Nat /\ Len(ps[n + 1]) <= Len(x)
        /\ SubSeq(x, 1, Len(ps[n + 1])) = ps[n + 1]
    BY <1>1, EntryGoesOn
  <2>2. Len(x) \in Nat
    BY <2>1
  <2> QED
    BY <2>1, <2>2
<1>8. PICK c \in Nat, k \in Nat : c = Len(p) /\ k = Len(x) /\ c <= k
  BY <1>2, <1>7
<1>9. G!Min({c, k}) = c
  BY <1>8 DEF G!Min
<1> QED
  BY <1>2, <1>6, <1>7, <1>8, <1>9

\* The packets that were handled, and the one after them.
LEMMA OneMore ==
  ASSUME NEW ps \in Seq(Seq(Nat)), NEW n \in Nat, n < Len(ps), NEW hs, hs = SubSeq(ps, 1, n)
  PROVE  /\ Append(hs, ps[n + 1]) = SubSeq(ps, 1, n + 1)
         /\ Append(hs, ps[n + 1]) \in Seq(Seq(Nat))
         /\ Len(Append(hs, ps[n + 1])) = n + 1
<1>1. SubSeq(ps, 1, n) \in Seq(Seq(Nat)) /\ Len(SubSeq(ps, 1, n)) = n /\ ps[n + 1] \in Seq(Nat)
  OBVIOUS
<1>2. SubSeq(ps, 1, n + 1) = SubSeq(ps, 1, n) \o <<ps[n + 1]>>
  <2>1. 1 \in 1 .. Len(ps) /\ n + 1 \in 1 .. Len(ps) /\ (n + 1) - 1 = n
    OBVIOUS
  <2> QED
    BY <2>1, SubSeqRecursiveSecond
<1>3. PICK p \in Seq(Nat) : p = ps[n + 1]
  BY <1>1
<1>4. hs \in Seq(Seq(Nat)) /\ Len(hs) = n
  BY <1>1
<1>5. Append(hs, p) \in Seq(Seq(Nat)) /\ Len(Append(hs, p)) = n + 1
  <2> DEFINE P == Seq(Nat)
  <2>1. hs \in Seq(P) /\ p \in P
    BY <1>3, <1>4
  <2> HIDE DEF P
  <2>2. Append(hs, p) \in Seq(P) /\ Len(Append(hs, p)) = n + 1
    BY <1>4, <2>1
  <2> QED
    BY <2>2 DEF P
<1>6. Append(hs, p) = hs \o <<p>>
  BY <1>4, AppendIsConcat
<1> QED
  BY <1>2, <1>3, <1>5, <1>6

\* Each packet is taken as a whole, and the loop goes on with the one that arrived next.
LEMMA AdvanceKeeps ==
  ASSUME PacketsTellTheirEnd, LinkInv, linkMain.pc = "parse", G!Advance
  PROVE  LinkInv'
<1>1. /\ linkMain' = G!Loop(linkMain.idx + G!Consumed(linkMain.packet))
      /\ handled' = Append(handled, SubSeq(linkMain.packet, 1, G!Min({G!Consumed(linkMain.packet), Len(linkMain.packet)})))
      /\ UNCHANGED <<whole, wire, arrived, buf, head, tail>>
  BY DEF G!Advance, G!Content, G!link
<1>2. DOMAIN linkMain' = {"pc", "idx", "packet"} /\ linkMain'.pc \in {"parse", "done"} /\ head < tail
  BY <1>1 DEF G!Loop, LinkInv, LinkTypes
<1>3. CASE ~whole
  BY <1>1, <1>2, <1>3 DEF LinkInv, LinkTypes
<1>4. CASE whole
  <2>1. PICK ends \in [Nat -> Nat] : Grouped(ends) /\ AtPacket(ends)
    BY <1>4 DEF LinkInv
  <2>2. /\ wire \in Seq(Outgoing) /\ arrived \in Seq(Outgoing) /\ handled \in Seq(Seq(Nat))
        /\ head \in Nat /\ tail \in Nat
    BY <1>4 DEF LinkInv, LinkTypes
  <2>3. PICK ps \in Seq(Outgoing), n \in Nat, b \in Nat, e \in Nat :
          ps = arrived /\ n = Len(handled) /\ b = ends[head] /\ e = ends[head + 1]
    <3>1. Len(handled) \in Nat /\ head + 1 \in Nat
      BY <2>2
    <3> QED
      BY <2>1, <2>2, <3>1
  <2>4. n \in Nat /\ b \in Nat /\ e \in Nat /\ n < e /\ b <= n /\ e <= Len(ps)
    <3>1. head \in head .. tail - 1
      BY <1>2, <2>2
    <3> QED
      BY <2>1, <2>3, <3>1 DEF Grouped, AtPacket
  <2>5. /\ handled = SubSeq(ps, 1, n)
        /\ linkMain.packet = SubSeq(buf[head], linkMain.idx + 1, Len(buf[head]))
        /\ linkMain.packet = Entry(ps, n, e)
        /\ buf[head] = Entry(ps, b, e)
        /\ linkMain.idx \in Nat
    <3>1. head \in head .. tail - 1
      BY <1>2, <2>2
    <3>2. buf[head] = Entry(ps, b, e)
      BY <2>1, <2>3, <3>1 DEF Grouped
    <3> QED
      BY <2>1, <2>3, <3>2 DEF AtPacket
  <2>6. ps \in Seq(Seq(Nat)) /\ NoneEmpty(ps)
    BY Arrivals
  <2>7. PICK m \in Seq(Nat), i \in Nat : m = buf[head] /\ i = linkMain.idx
    BY <2>5, <2>6, <2>4, EntryType
  <2>8. PICK c \in Nat : c = Len(ps[n + 1]) /\ c = G!Consumed(linkMain.packet)
    <3>1. Len(ps[n + 1]) \in Nat
      BY <2>6, <2>4, EntryGoesOn
    <3>2. G!Consumed(Entry(ps, n, e)) = Len(ps[n + 1])
      BY <2>4, TakesOne
    <3> QED
      BY <2>5, <3>1, <3>2
  <2>9. handled' = Append(handled, ps[n + 1])
    <3>1. SubSeq(Entry(ps, n, e), 1, G!Min({G!Consumed(Entry(ps, n, e)), Len(Entry(ps, n, e))})) = ps[n + 1]
      BY <2>4, TakesOne
    <3> QED
      BY <1>1, <2>5, <3>1
  <2>10. handled' \in Seq(Seq(Nat)) /\ Len(handled') = n + 1 /\ handled' = SubSeq(ps, 1, n + 1)
    <3>1. n < Len(ps)
      BY <2>4
    <3> QED
      BY <2>5, <2>6, <2>9, <3>1, OneMore
  <2>11. m \in Seq(Nat) /\ i \in Nat
    BY <2>7
  <2>12. /\ SubSeq(m, (i + c) + 1, Len(m)) = Entry(ps, n + 1, e)
         /\ Len(m) > i + c <=> n + 1 < e
         /\ i + c \in Nat
    <3>1. SubSeq(m, i + 1, Len(m)) = Entry(ps, n, e)
      BY <2>5, <2>7
    <3>2. /\ SubSeq(m, (i + Len(ps[n + 1])) + 1, Len(m)) = Entry(ps, n + 1, e)
          /\ Len(m) > i + Len(ps[n + 1]) <=> n + 1 < e
          /\ i + Len(ps[n + 1]) \in Nat
      BY <2>6, <2>4, <2>11, <3>1, EntryReadOn
    <3> QED
      BY <2>8, <3>2
  <2>13. /\ linkMain'.idx = i + c /\ linkMain'.packet = Entry(ps, n + 1, e)
         /\ linkMain'.packet = SubSeq(m, (i + c) + 1, Len(m))
         /\ linkMain'.pc = IF n + 1 < e THEN "parse" ELSE "done"
    <3>1. linkMain' = G!Loop(i + c)
      BY <1>1, <2>7, <2>8
    <3> QED
      BY <2>7, <2>12, <3>1 DEF G!Loop, G!Message
  <2>14. LinkTypes'
    BY <1>1, <1>2, <2>2, <2>10 DEF LinkInv, LinkTypes
  <2>15. AtPacket(ends)'
    <3>1. /\ n + 1 <= Len(ps) /\ n + 1 <= e /\ b <= n + 1
          /\ linkMain'.pc = "parse" => n + 1 < e
          /\ linkMain'.pc = "done" => n + 1 = e
      <4>1. PICK l \in Nat : l = Len(ps)
        BY <2>6
      <4>2. n \in Nat /\ b \in Nat /\ e \in Nat /\ n < e /\ b <= n
        BY <2>4
      <4>3. e <= l
        BY <2>4, <4>1
      <4>4. l \in Nat
        BY <4>1
      <4>5. n + 1 <= l /\ n + 1 <= e /\ b <= n + 1 /\ (n + 1 = e \/ n + 1 < e)
        BY <4>2, <4>3, <4>4
      <4> QED
        BY <2>13, <4>1, <4>5
    <3>2. Len(handled') <= Len(arrived') /\ handled' = SubSeq(arrived', 1, Len(handled'))
      BY <1>1, <2>3, <2>10, <3>1
    <3>3. linkMain'.idx \in Nat /\ linkMain'.packet = SubSeq(buf'[head'], linkMain'.idx + 1, Len(buf'[head']))
      BY <1>1, <2>7, <2>12, <2>13
    <3>4. linkMain'.packet = Entry(arrived', Len(handled'), ends[head' + 1])
      BY <1>1, <2>3, <2>10, <2>13
    <3>5. ends[head'] <= Len(handled') /\ Len(handled') <= ends[head' + 1] /\ head' < tail'
      BY <1>1, <1>2, <2>3, <2>10, <3>1
    <3>6. /\ linkMain'.pc = "parse" => Len(handled') < ends[head' + 1]
          /\ linkMain'.pc = "done" => Len(handled') = ends[head' + 1]
      BY <1>1, <2>3, <2>10, <3>1
    <3> QED
      BY <1>2, <3>2, <3>3, <3>4, <3>5, <3>6 DEF AtPacket
  <2>16. Grouped(ends)'
    BY <1>1, <2>1 DEF Grouped
  <2> QED
    BY <2>14, <2>15, <2>16 DEF LinkInv
<1> QED
  BY <1>3, <1>4

\* What arrives is put behind what arrived.
LEMMA ArriveBehind ==
  ASSUME NEW Elems, NEW ps \in Seq(Elems), NEW ws \in Seq(Elems), NEW n \in Nat, NEW e \in Nat, e <= Len(ps)
  PROVE  SubSeq(ps \o ws, n + 1, e) = SubSeq(ps, n + 1, e)
<1>1. CASE n < e
  <2>1. n + 1 \in 1 .. Len(ps) /\ e \in 1 .. Len(ps)
    BY <1>1
  <2> QED
    BY <2>1, SubSeqOfConcat1
<1>2. CASE n >= e
  <2>1. n + 1 \in Int /\ e \in Int /\ e < n + 1
    BY <1>2
  <2> QED
    BY <2>1, SubSeqEmpty
<1> QED
  BY <1>1, <1>2

\* The entries that wait stay what they are, and what arrives is the last one.
LEMMA ArriveAsEntry ==
  ASSUME NEW ps \in Seq(Seq(Nat)), NEW ws \in Seq(Seq(Nat)), ws # <<>>
  PROVE  /\ \A n \in Nat, e \in Nat : e <= Len(ps) => Entry(ps \o ws, n, e) = Entry(ps, n, e)
         /\ Entry(ps \o ws, Len(ps), Len(ps) + Len(ws)) = FlattenSeq(ws)
         /\ Len(ps \o ws) = Len(ps) + Len(ws)
<1>1. \A n \in Nat, e \in Nat : e <= Len(ps) => Entry(ps \o ws, n, e) = Entry(ps, n, e)
  <2> TAKE n \in Nat, e \in Nat
  <2> HAVE e <= Len(ps)
  <2>1. SubSeq(ps \o ws, n + 1, e) = SubSeq(ps, n + 1, e)
    BY ArriveBehind
  <2> QED
    BY <2>1 DEF Entry
<1>2. SubSeq(ps \o ws, Len(ps) + 1, Len(ps) + Len(ws)) = ws
  <2>1. PICK l \in Nat, k \in Nat : l = Len(ps) /\ k = Len(ws) /\ k > 0
    OBVIOUS
  <2>2. l + 1 \in l + 1 .. l + k /\ l + k \in l + 1 .. l + k /\ (l + 1) - l = 1 /\ (l + k) - l = k
    BY <2>1
  <2>3. SubSeq(ps \o ws, l + 1, l + k) = SubSeq(ws, 1, k)
    BY <2>1, <2>2, SubSeqOfConcat2
  <2> QED
    BY <2>1, <2>3, SubSeqFull
<1>3. Len(ps \o ws) = Len(ps) + Len(ws)
  OBVIOUS
<1> QED
  BY <1>1, <1>2, <1>3 DEF Entry

\* A read puts its packets, at least one, as an entry behind those that wait.
LEMMA ReceiveKeeps ==
  ASSUME PacketsTellTheirEnd, LinkInv, G!Receive
  PROVE  LinkInv'
<1>1. /\ UNCHANGED <<head, linkMain, handled>> /\ linkMain.pc \notin {"parse", "done"}
      /\ tail' = tail + 1 /\ head \in Nat /\ tail \in Nat /\ head <= tail
      /\ linkMain.pc \in {"top", "check", "undefined"}
      /\ linkMain.pc = "undefined" => head < tail
      /\ DOMAIN linkMain = {"pc", "idx", "packet"}
  BY DEF G!Receive, G!Locked, G!Store, LinkInv, LinkTypes
<1>2. CASE ~whole'
  BY <1>1, <1>2 DEF LinkInv, LinkTypes
<1>3. CASE whole'
  <2>1. whole
    <3>1. whole' = whole \/ whole' = FALSE
      BY DEF G!Receive
    <3> QED
      BY <1>3, <3>1
  <2>2. PICK k \in 0 .. Len(wire) :
          /\ k > 0 /\ G!Store(FlattenSeq(SubSeq(wire, 1, k)))
          /\ wire' = SubSeq(wire, k + 1, Len(wire))
          /\ arrived' = arrived \o SubSeq(wire, 1, k)
    <3>1. whole' # FALSE
      BY <1>3
    <3>2. PICK k \in 0 .. Len(wire) :
            \/ /\ k > 0 /\ G!Store(FlattenSeq(SubSeq(wire, 1, k)))
               /\ wire' = SubSeq(wire, k + 1, Len(wire))
               /\ arrived' = arrived \o SubSeq(wire, 1, k)
            \/ whole' = FALSE
      BY DEF G!Receive, G!FlattenSeq, FlattenSeq
    <3> QED
      BY <3>1, <3>2
  <2>3. /\ wire \in Seq(Outgoing) /\ arrived \in Seq(Outgoing) /\ handled \in Seq(Seq(Nat))
    BY <2>1 DEF LinkInv, LinkTypes
  <2>4. PICK ps \in Seq(Outgoing), ws \in Seq(Outgoing), l \in Nat, k2 \in Nat, n \in Nat :
          /\ ps = arrived /\ ws = SubSeq(wire, 1, k) /\ l = Len(ps) /\ k2 = Len(ws) /\ k2 > 0 /\ n = Len(handled)
    <3>1. SubSeq(wire, 1, k) \in Seq(Outgoing) /\ Len(SubSeq(wire, 1, k)) = k /\ k \in Nat
      BY <2>2, <2>3
    <3>2. Len(arrived) \in Nat /\ Len(handled) \in Nat
      BY <2>3
    <3> QED
      BY <2>2, <2>3, <3>1, <3>2
  <2>5. /\ arrived' = ps \o ws
        /\ buf' = [i \in 0 .. tail |-> IF i = tail THEN FlattenSeq(ws) ELSE buf[i]]
    BY <2>2, <2>4 DEF G!Store
  <2>6. PICK ends \in [Nat -> Nat] : Grouped(ends) /\ AtPacket(ends)
    BY <2>1 DEF LinkInv
  <2>7. PICK ends2 \in [Nat -> Nat] : ends2 = [ends EXCEPT ![tail + 1] = l + k2]
    <3>1. l + k2 \in Nat
      BY <2>4
    <3> QED
      BY <2>6, <3>1
  <2>8. /\ ends2[tail + 1] = l + k2
        /\ \A i \in Nat : i <= tail => ends2[i] = ends[i]
    BY <1>1, <2>6, <2>7
  <2>9. /\ \A a \in Nat, e \in Nat : e <= l => Entry(arrived', a, e) = Entry(arrived, a, e)
        /\ Entry(arrived', l, l + k2) = FlattenSeq(ws)
        /\ Len(arrived') = l + k2
    <3>1. ps \in Seq(Seq(Nat)) /\ ws \in Seq(Seq(Nat)) /\ ws # <<>>
      <4>1. ws # <<>>
        <5>1. Len(ws) > 0
          BY <2>4
        <5> QED
          BY <5>1
      <4> QED
        BY <4>1, Arrivals
    <3>2. /\ \A a \in Nat, e \in Nat : e <= Len(ps) => Entry(ps \o ws, a, e) = Entry(ps, a, e)
          /\ Entry(ps \o ws, Len(ps), Len(ps) + Len(ws)) = FlattenSeq(ws)
          /\ Len(ps \o ws) = Len(ps) + Len(ws)
      BY <3>1, ArriveAsEntry
    <3> QED
      BY <2>4, <2>5, <3>2
  <2>10. LinkTypes'
    <3>1. wire' \in Seq(Outgoing) /\ arrived' \in Seq(Outgoing)
      <4>1. SubSeq(wire, k + 1, Len(wire)) \in Seq(Outgoing)
        <5>1. PICK xs \in Seq(Outgoing) : xs = wire
          BY <2>3
        <5>2. k \in Nat
          BY <2>2, <2>3
        <5>3. Len(xs) \in Nat
          BY <5>1
        <5>4. PICK i \in Nat, j \in Nat : i = k /\ j = Len(xs)
          BY <5>2, <5>3
        <5>5. SubSeq(xs, i + 1, j) \in Seq(Outgoing)
          BY <5>4, Piece
        <5> QED
          BY <5>1, <5>4, <5>5
      <4>2. ps \o ws \in Seq(Outgoing)
        OBVIOUS
      <4> QED
        BY <2>2, <2>5, <4>1, <4>2
    <3>2. head' \in Nat /\ tail' \in Nat /\ head' <= tail' /\ (linkMain'.pc = "undefined" => head' < tail')
      BY <1>1
    <3> QED
      BY <1>1, <2>3, <3>1, <3>2 DEF LinkTypes
  <2>11. Grouped(ends2)'
    <3>1. ends2[tail'] = Len(arrived')
      BY <1>1, <2>8, <2>9
    <3>2. ASSUME NEW i \in head' .. tail' - 1
          PROVE  /\ ends2[i] < ends2[i + 1] /\ ends2[i + 1] <= Len(arrived')
                 /\ buf'[i] = Entry(arrived', ends2[i], ends2[i + 1])
      <4>1. i \in Nat /\ i + 1 \in Nat /\ i <= tail /\ i \in 0 .. tail /\ ends[tail] = l
        BY <1>1, <2>4, <2>6 DEF Grouped
      <4>2. CASE i = tail
        <5>1. ends2[i] = l /\ ends2[i + 1] = l + k2
          BY <2>8, <4>1, <4>2
        <5>2. buf'[i] = FlattenSeq(ws)
          BY <2>5, <4>1, <4>2
        <5> QED
          BY <2>4, <2>9, <5>1, <5>2
      <4>3. CASE i # tail
        <5>1. i \in head .. tail - 1 /\ i + 1 <= tail
          BY <1>1, <4>1, <4>3
        <5>2. PICK a \in Nat, e \in Nat : a = ends[i] /\ e = ends[i + 1] /\ ends2[i] = a /\ ends2[i + 1] = e
          BY <2>6, <2>8, <4>1, <5>1
        <5>3. a < e /\ e <= l /\ buf[i] = Entry(arrived, a, e)
          BY <2>4, <2>6, <5>1, <5>2 DEF Grouped
        <5>4. buf'[i] = buf[i]
          BY <2>5, <4>1, <4>3
        <5>5. a \in Nat /\ e \in Nat /\ l \in Nat /\ k2 \in Nat
          BY <2>4, <5>2
        <5>6. e <= l + k2
          BY <5>3, <5>5
        <5> QED
          BY <2>9, <5>2, <5>3, <5>4, <5>5, <5>6
      <4> QED
        BY <4>2, <4>3
    <3> QED
      BY <3>1, <3>2 DEF Grouped
  <2>12. AtPacket(ends2)'
    <3>1. n <= l /\ handled = SubSeq(ps, 1, n)
      BY <2>4, <2>6 DEF AtPacket
    <3>2. Len(handled') <= Len(arrived') /\ handled' = SubSeq(arrived', 1, Len(handled'))
      <4>1. SubSeq(ps \o ws, 0 + 1, n) = SubSeq(ps, 0 + 1, n)
        BY <2>4, <3>1, ArriveBehind
      <4>2. n \in Nat /\ l \in Nat /\ k2 \in Nat
        BY <2>4
      <4>3. n <= l + k2
        BY <3>1, <4>2
      <4> QED
        BY <1>1, <2>4, <2>5, <2>9, <3>1, <4>1, <4>3
    <3>3. ends2[head'] = ends[head]
      BY <1>1, <2>8
    <3>4. linkMain'.pc \in {"top", "check"} => Len(handled') = ends2[head']
      BY <1>1, <2>6, <3>3 DEF AtPacket
    <3>5. ASSUME linkMain'.pc = "undefined"
          PROVE  /\ head' < tail' /\ ends2[head'] <= Len(handled') /\ Len(handled') <= ends2[head' + 1]
                 /\ linkMain'.idx \in Nat
                 /\ linkMain'.packet = SubSeq(buf'[head'], linkMain'.idx + 1, Len(buf'[head']))
                 /\ linkMain'.packet = Entry(arrived', Len(handled'), ends2[head' + 1])
      <4>1. head + 1 \in Nat /\ head + 1 <= tail /\ head \in 0 .. tail /\ head # tail /\ head < tail + 1
            /\ head \in head .. tail - 1
        BY <1>1, <3>5
      <4>2. buf'[head] = buf[head] /\ ends2[head + 1] = ends[head + 1]
        BY <2>5, <2>8, <4>1
      <4>3. PICK e \in Nat : e = ends[head + 1] /\ e <= l
        BY <2>4, <2>6, <4>1 DEF Grouped
      <4>4. Entry(arrived', n, e) = Entry(arrived, n, e)
        BY <2>4, <2>9, <4>3
      <4> QED
        BY <1>1, <2>4, <2>6, <3>3, <3>5, <4>1, <4>2, <4>3, <4>4 DEF AtPacket
    <3> QED
      BY <1>1, <3>2, <3>4, <3>5 DEF AtPacket
  <2> QED
    BY <2>10, <2>11, <2>12 DEF LinkInv
<1> QED
  BY <1>2, <1>3

\* The gateway sends one of its packets.
LEMMA SendKeeps ==
  ASSUME LinkInv, G!Send
  PROVE  LinkInv'
<1>1. UNCHANGED <<whole, arrived, handled, buf, head, tail, linkMain>>
  BY DEF G!Send
<1>2. PICK p \in Outgoing : wire' = Append(wire, p)
  BY DEF G!Send
<1>3. whole => wire' \in Seq(Outgoing)
  <2>1. ASSUME whole PROVE Append(wire, p) \in Seq(Outgoing)
    BY <2>1, AppendProperties DEF LinkInv, LinkTypes
  <2> QED
    BY <1>2, <2>1
<1>4. LinkTypes'
  BY <1>1, <1>3 DEF LinkInv, LinkTypes
<1>5. whole' => \E ends \in [Nat -> Nat] : Grouped(ends)' /\ AtPacket(ends)'
  BY <1>1 DEF LinkInv, Grouped, AtPacket
<1> QED
  BY <1>4, <1>5 DEF LinkInv

\* What the main loop has when it takes an entry: all of it, and the packet that comes next.
LEMMA TakeKeeps ==
  ASSUME PacketsTellTheirEnd, LinkInv, G!Take
  PROVE  LinkInv'
<1>1. /\ linkMain.pc = "check" /\ UNCHANGED <<whole, wire, arrived, handled, buf, head, tail>>
      /\ IF head < tail THEN linkMain' = G!Loop(0) ELSE linkMain' = G!Top
  BY DEF G!Take, G!link
<1>2. CASE head >= tail
  <2>1. DOMAIN linkMain' = {"pc", "idx", "packet"} /\ linkMain'.pc = "top"
    BY <1>1, <1>2 DEF G!Top, LinkInv, LinkTypes
  <2> QED
    BY <1>1, <2>1 DEF LinkInv, LinkTypes, Grouped, AtPacket
<1>3. CASE head < tail
  <2>1. linkMain' = G!Loop(0)
    BY <1>1, <1>3
  <2>2. DOMAIN linkMain' = {"pc", "idx", "packet"} /\ linkMain'.pc \in {"parse", "done"}
    BY <2>1 DEF G!Loop
  <2>3. LinkTypes'
    BY <1>1, <1>3, <2>2 DEF LinkInv, LinkTypes
  <2>4. ASSUME whole PROVE \E ends \in [Nat -> Nat] : Grouped(ends)' /\ AtPacket(ends)'
    <3>1. PICK ends \in [Nat -> Nat] : Grouped(ends) /\ AtPacket(ends)
      BY <2>4 DEF LinkInv
    <3>2. /\ arrived \in Seq(Outgoing) /\ head \in Nat /\ tail \in Nat
          /\ head \in head .. tail - 1 /\ head + 1 \in Nat
      BY <1>3, <2>4 DEF LinkInv, LinkTypes
    <3>3. PICK ps \in Seq(Outgoing), n \in Nat, e \in Nat : ps = arrived /\ n = ends[head] /\ e = ends[head + 1]
      BY <3>1, <3>2
    <3>4. n < e /\ e <= Len(ps) /\ buf[head] = Entry(ps, n, e)
      BY <3>1, <3>2, <3>3 DEF Grouped
    <3>5. n = Len(handled)
      BY <1>1, <3>1, <3>3 DEF AtPacket
    <3>6. Entry(ps, n, e) \in Seq(Nat) /\ Len(Entry(ps, n, e)) > 0
      <4>1. ps \in Seq(Seq(Nat)) /\ NoneEmpty(ps)
        BY Arrivals
      <4>2. /\ Entry(ps, n, e) \in Seq(Nat) /\ Len(ps[n + 1]) \in Nat /\ Len(ps[n + 1]) > 0
            /\ Len(ps[n + 1]) <= Len(Entry(ps, n, e))
        BY <3>4, <4>1, EntryGoesOn
      <4>3. PICK x \in Seq(Nat), c \in Nat : x = Entry(ps, n, e) /\ c > 0 /\ c <= Len(x)
        BY <4>2
      <4>4. Len(x) \in Nat
        OBVIOUS
      <4>5. Len(x) > 0
        BY <4>3, <4>4
      <4> QED
        BY <4>3, <4>5
    <3>7. PICK m \in Seq(Nat) : m = buf[head] /\ Len(m) > 0
      BY <3>4, <3>6
    <3>8. SubSeq(m, 0 + 1, Len(m)) = m
      BY SubSeqFull
    <3>9. linkMain'.pc = "parse" /\ linkMain'.idx = 0 /\ linkMain'.packet = SubSeq(m, 0 + 1, Len(m))
      BY <2>1, <3>7 DEF G!Loop, G!Message
    <3>10. Grouped(ends)'
      BY <1>1, <3>1 DEF Grouped
    <3>11. AtPacket(ends)'
      <4>1. n \in Nat /\ e \in Nat
        BY <3>3
      <4>2. n <= n /\ n <= e
        BY <3>4, <4>1
      <4>3. linkMain'.packet = SubSeq(buf'[head'], linkMain'.idx + 1, Len(buf'[head']))
        BY <1>1, <3>7, <3>9
      <4>4. linkMain'.packet = Entry(arrived', Len(handled'), ends[head' + 1])
        BY <1>1, <3>3, <3>4, <3>5, <3>7, <3>8, <3>9
      <4>5. Len(handled') <= Len(arrived') /\ handled' = SubSeq(arrived', 1, Len(handled'))
        BY <1>1, <3>1 DEF AtPacket
      <4>6. ends[head'] <= Len(handled') /\ Len(handled') < ends[head' + 1] /\ Len(handled') <= ends[head' + 1]
        BY <1>1, <3>3, <3>4, <3>5, <4>2
      <4>7. linkMain'.pc = "parse" /\ linkMain'.idx \in Nat /\ head' < tail'
        BY <1>1, <1>3, <3>9
      <4> QED
        BY <4>3, <4>4, <4>5, <4>6, <4>7 DEF AtPacket
    <3> QED
      BY <3>10, <3>11
  <2> QED
    BY <1>1, <2>3, <2>4 DEF LinkInv
<1>4. head < tail \/ head >= tail
  BY DEF LinkInv, LinkTypes
<1> QED
  BY <1>2, <1>3, <1>4

\* An entry that is done was the oldest; when it was the only one the indexes start again at 0.
LEMMA DoneKeeps ==
  ASSUME LinkInv, G!Done
  PROVE  LinkInv'
<1>1. /\ linkMain.pc = "done" /\ linkMain'.pc = "top" /\ DOMAIN linkMain' = {"pc", "idx", "packet"}
      /\ UNCHANGED <<whole, wire, arrived, handled, buf>>
      /\ IF head + 1 = tail THEN head' = 0 /\ tail' = 0 ELSE head' = head + 1 /\ tail' = tail
  BY DEF G!Done, G!link, G!Top
<1>2. head \in Nat /\ tail \in Nat /\ head < tail
  BY <1>1 DEF LinkInv, LinkTypes
<1>3. LinkTypes'
  BY <1>1, <1>2 DEF LinkInv, LinkTypes
<1>4. ASSUME whole PROVE \E ends \in [Nat -> Nat] : Grouped(ends)' /\ AtPacket(ends)'
  <2>1. PICK ends \in [Nat -> Nat] : Grouped(ends) /\ AtPacket(ends)
    BY <1>4 DEF LinkInv
  <2>2. Len(handled) = ends[head + 1] /\ Len(handled) <= Len(arrived) /\ handled = SubSeq(arrived, 1, Len(handled))
    BY <1>1, <2>1 DEF AtPacket
  <2>3. CASE head + 1 = tail
    <3>1. PICK n \in Nat : n = Len(handled) /\ n = Len(arrived)
      <4>1. Len(handled) = Len(arrived)
        BY <2>1, <2>2, <2>3 DEF Grouped
      <4>2. Len(handled) \in Nat
        BY <1>4 DEF LinkInv, LinkTypes
      <4> QED
        BY <4>1, <4>2
    <3>2. PICK ends2 \in [Nat -> Nat] : ends2 = [k \in Nat |-> n]
      OBVIOUS
    <3>3. head' = 0 /\ tail' = 0 /\ ends2[0] = n /\ 0 .. 0 - 1 = {}
      BY <1>1, <2>3, <3>2
    <3>4. Grouped(ends2)'
      BY <1>1, <3>1, <3>3 DEF Grouped
    <3>5. AtPacket(ends2)'
      BY <1>1, <2>2, <3>1, <3>3 DEF AtPacket
    <3> QED
      BY <3>4, <3>5
  <2>4. CASE head + 1 # tail
    <3>1. head' = head + 1 /\ tail' = tail /\ head + 1 .. tail - 1 \subseteq head .. tail - 1
      BY <1>1, <1>2, <2>4
    <3>2. Grouped(ends)'
      BY <1>1, <2>1, <3>1 DEF Grouped
    <3>3. AtPacket(ends)'
      BY <1>1, <2>2, <3>1 DEF AtPacket
    <3> QED
      BY <3>2, <3>3
  <2> QED
    BY <2>3, <2>4
<1> QED
  BY <1>1, <1>3, <1>4 DEF LinkInv

\* The main loop goes to look at the buffer, or stops at a packet that would write outside the arrays.
LEMMA PlaceKeeps ==
  ASSUME LinkInv, UNCHANGED <<whole, wire, arrived, handled, buf, head, tail>>,
         \/ linkMain.pc = "top" /\ linkMain' = [linkMain EXCEPT !.pc = "check"]
         \/ linkMain.pc = "parse" /\ linkMain' = [linkMain EXCEPT !.pc = "undefined"]
  PROVE  LinkInv'
<1>1. CASE linkMain.pc = "top" /\ linkMain' = [linkMain EXCEPT !.pc = "check"]
  <2>1. DOMAIN linkMain' = {"pc", "idx", "packet"} /\ linkMain'.pc = "check"
    BY <1>1 DEF LinkInv, LinkTypes
  <2> QED
    BY <1>1, <2>1 DEF LinkInv, LinkTypes, Grouped, AtPacket
<1>2. CASE linkMain.pc = "parse" /\ linkMain' = [linkMain EXCEPT !.pc = "undefined"]
  <2>1. /\ DOMAIN linkMain' = {"pc", "idx", "packet"} /\ linkMain'.pc = "undefined"
        /\ linkMain'.idx = linkMain.idx /\ linkMain'.packet = linkMain.packet
    BY <1>2 DEF LinkInv, LinkTypes
  <2> QED
    BY <1>2, <2>1 DEF LinkInv, LinkTypes, Grouped, AtPacket
<1> QED
  BY <1>1, <1>2

\* The connection ends, and what was on its way is lost; the main loop makes another.
LEMMA ConnectionKeeps ==
  ASSUME LinkInv, G!ConnectionEnds \/ G!Reconnect
  PROVE  LinkInv'
<1>1. CASE G!ConnectionEnds
  <2>1. wire' = <<>> /\ UNCHANGED <<whole, arrived, handled, buf, head, tail, linkMain>>
    BY <1>1 DEF G!ConnectionEnds
  <2>2. LinkTypes'
    BY <2>1 DEF LinkInv, LinkTypes
  <2>3. whole' => \E ends \in [Nat -> Nat] : Grouped(ends)' /\ AtPacket(ends)'
    BY <2>1 DEF LinkInv, Grouped, AtPacket
  <2> QED
    BY <2>2, <2>3 DEF LinkInv
<1>2. CASE G!Reconnect
  <2>1. /\ UNCHANGED <<whole, wire, arrived, handled, buf, head, tail>>
        /\ linkMain' = linkMain \/ (linkMain.pc = "top" /\ linkMain' = [linkMain EXCEPT !.pc = "check"])
    BY <1>2 DEF G!Reconnect
  <2> QED
    BY <2>1, LinkUnchanged, PlaceKeeps
<1> QED
  BY <1>1, <1>2

\* Whatever the packet is about, parsing it goes on with the one behind it.
LEMMA ParseAdvances ==
  ASSUME G!Parse
  PROVE  linkMain.pc = "parse" /\ G!Advance
<1>1. CASE G!ParsingRequest
  BY <1>1 DEF G!ParsingRequest, G!Parsing
<1>2. CASE G!ParsingResponse
  BY <1>2 DEF G!ParsingResponse, G!Parsing
<1>3. CASE G!ParsingConfirm
  BY <1>3 DEF G!ParsingConfirm, G!Parsing
<1>4. CASE G!ParsingNotify
  BY <1>4 DEF G!ParsingNotify, G!Parsing
<1>5. CASE G!ParsingData
  BY <1>5 DEF G!ParsingData, G!Parsing
<1>6. CASE G!ParsingOther
  BY <1>6 DEF G!ParsingOther
<1> QED
  BY <1>1, <1>2, <1>3, <1>4, <1>5, <1>6 DEF G!Parse

\* Before anything was read nothing is handled.
LEMMA LinkInitially ==
  ASSUME G!Init
  PROVE  LinkInv
<1>1. /\ wire = <<>> /\ arrived = <<>> /\ handled = <<>> /\ head = 0 /\ tail = 0
      /\ linkMain.pc = "top" /\ DOMAIN linkMain = {"pc", "idx", "packet"}
  BY DEF G!Init
<1>2. PICK ends \in [Nat -> Nat] : ends = [k \in Nat |-> 0]
  OBVIOUS
<1>3. ends[0] = 0 /\ 0 .. 0 - 1 = {} /\ Len(<<>>) = 0 /\ SubSeq(<<>>, 1, 0) = <<>>
  BY <1>2, SubSeqEmpty
<1>4. Grouped(ends) /\ AtPacket(ends)
  BY <1>1, <1>3 DEF Grouped, AtPacket
<1>5. LinkTypes
  BY <1>1 DEF LinkTypes
<1> QED
  BY <1>4, <1>5 DEF LinkInv

\* Every step of the gateway, the reading thread and the main loop keeps the invariant.
LEMMA LinkInductive ==
  ASSUME PacketsTellTheirEnd, LinkInv, [G!Next]_G!vars
  PROVE  LinkInv'
<1>1. CASE G!Send
  BY <1>1, SendKeeps
<1>2. CASE G!Receive
  BY <1>2, ReceiveKeeps
<1>3. CASE G!ConnectionEnds \/ G!Reconnect
  BY <1>3, ConnectionKeeps
<1>4. CASE G!Take
  BY <1>4, TakeKeeps
<1>5. CASE G!Done
  BY <1>5, DoneKeeps
<1>6. CASE G!Parse
  BY <1>6, ParseAdvances, AdvanceKeeps
<1>7. CASE G!ParsingUndefined
  <2>1. /\ linkMain.pc = "parse" /\ linkMain' = [linkMain EXCEPT !.pc = "undefined"]
        /\ UNCHANGED <<whole, wire, arrived, handled, buf, head, tail>>
    BY <1>7 DEF G!ParsingUndefined, G!link
  <2> QED
    BY <2>1, PlaceKeeps
<1>8. CASE UNCHANGED G!vars
  BY <1>8, LinkUnchanged DEF G!vars, G!link
<1> QED
  BY <1>1, <1>2, <1>3, <1>4, <1>5, <1>6, <1>7, <1>8 DEF G!Next, G!Parse

\* The bytes the main loop of TTA12daemon takes for packets are the packets of the gateway that arrived, in
\* their order, as long as no read ended inside one: for any packets the builders build, however they are
\* spread over reads and however often the connection ends.
THEOREM PacketsHandledAsSent ==
  ASSUME \A p \in Outgoing : Built(p)
  PROVE  G!Spec => []HandledAsSent
<1>1. PacketsTellTheirEnd
  BY BuiltTellsItsEnd DEF PacketsTellTheirEnd
<1>2. G!Init => LinkInv
  BY LinkInitially
<1>3. LinkInv /\ [G!Next]_G!vars => LinkInv'
  BY <1>1, LinkInductive
<1>4. LinkInv => HandledAsSent
  <2>1. ASSUME LinkInv, whole PROVE IsPrefix(handled, arrived)
    <3>1. PICK ends \in [Nat -> Nat] : AtPacket(ends)
      BY <2>1 DEF LinkInv
    <3>2. SubSeq(handled, 1, Len(handled)) = handled
      BY <2>1, SubSeqFull DEF LinkInv, LinkTypes
    <3> QED
      BY <3>1, <3>2 DEF AtPacket, IsPrefix
  <2> QED
    BY <2>1 DEF HandledAsSent
<1> QED
  BY <1>2, <1>3, <1>4, PTL DEF G!Spec
-----------------------------------------------------------------------------
(* What the daemon tells the gateway of a node.                            *)

Byte == {n \in Nat : n < 256}
TwoBytes == {n \in Nat : n < 65536}

\* A value as two bytes of a packet can hold it, a sensor or actuator as a status lists it and as the
\* tables hold it, and the state of a node.  The parser keeps four bits of the mode, and no status of
\* more sensors than a node may have.
Value16 == [id : Nat, type : Nat, value : TwoBytes]
Listed == [data : Value16, state : Nat, isinit : Nat, mode : Nat, time : Nat]
Held == [node : Nat, data : Value16, state : Nat, isinit : Nat, mode : Nat, time : Nat]
HeldState == [sw : Nat, profile : Nat, control : TwoBytes, node : TwoBytes, isinit : Nat, mode : 0 .. 15, time : Nat,
              num : 0 .. 29, comm : TwoBytes, service : TwoBytes]

\* What a packet of bytes is read as.
LEMMA BytesRead ==
  ASSUME NEW p \in Seq(Byte)
  PROVE  /\ \A i \in Int : G!GetData(p, i) \in Byte
         /\ \A i \in Int : G!Word(p, i) \in TwoBytes
         /\ \A i \in Int : G!ValueAt(p, i) \in Value16
<1>1. \A i \in Int : G!GetData(p, i) \in Byte
  <2> TAKE i \in Int
  <2>1. 0 \in Byte /\ (i + 1 \in DOMAIN p => p[i + 1] \in Byte)
    <3>1. 0 \in Byte
      BY DEF Byte
    <3> QED
      BY <3>1
  <2> QED
    BY <2>1 DEF G!GetData
<1>2. \A i \in Int : G!Word(p, i) \in TwoBytes
  <2> TAKE i \in Int
  <2>1. PICK a \in Byte, b \in Byte : a = G!GetData(p, i) /\ b = G!GetData(p, i + 1)
    BY <1>1
  <2>2. a + 256 * b \in TwoBytes
    BY DEF Byte, TwoBytes
  <2> QED
    BY <2>1, <2>2 DEF G!Word
<1>3. \A i \in Int : G!ValueAt(p, i) \in Value16
  <2> TAKE i \in Int
  <2>1. G!GetData(p, i) \in Byte /\ G!GetData(p, i + 1) \in Byte /\ G!Word(p, i + 2) \in TwoBytes
    BY <1>1, <1>2
  <2>2. Byte \subseteq Nat
    BY DEF Byte
  <2> QED
    BY <2>1, <2>2 DEF G!ValueAt, Value16
<1> QED
  BY <1>1, <1>2, <1>3

\* The header of such a packet, its values, and how far it is read.
LEMMA PacketRead ==
  ASSUME NEW p \in Seq(Byte)
  PROVE  /\ G!ParsingPacket(p).dev \in {0, 1} /\ G!ParsingPacket(p).node \in Nat /\ G!ParsingPacket(p).len \in Nat
         /\ \A i \in Nat : G!Values(p, i) \in [1 .. G!ParsingPacket(p).len -> Value16]
         /\ G!Consumed(p) \in Nat
<1>1. /\ \A i \in Int : G!GetData(p, i) \in Byte
      /\ \A i \in Int : G!Word(p, i) \in TwoBytes
      /\ \A i \in Int : G!ValueAt(p, i) \in Value16
  BY BytesRead
<1>2. /\ G!ParsingPacket(p).dev = G!GetData(p, 0) \div 128
      /\ G!ParsingPacket(p).node = G!Word(p, 5) /\ G!ParsingPacket(p).len = G!GetData(p, 8)
  BY DEF G!ParsingPacket
<1>3. G!GetData(p, 0) \in Byte /\ G!GetData(p, 8) \in Byte /\ G!GetData(p, 19) \in Byte /\ G!Word(p, 5) \in TwoBytes
  BY <1>1
<1>4. /\ G!ParsingPacket(p).dev \in {0, 1} /\ G!ParsingPacket(p).node \in Nat /\ G!ParsingPacket(p).len \in Nat
  <2>1. PICK a \in Byte, b \in Byte, c \in TwoBytes : a = G!GetData(p, 0) /\ b = G!GetData(p, 8) /\ c = G!Word(p, 5)
    BY <1>3
  <2>2. a \div 128 \in {0, 1} /\ b \in Nat /\ c \in Nat
    BY DEF Byte, TwoBytes
  <2> QED
    BY <1>2, <2>1, <2>2
<1>5. ASSUME NEW i \in Nat PROVE G!Values(p, i) \in [1 .. G!ParsingPacket(p).len -> Value16]
  BY <1>1, <1>4 DEF G!Values
<1>6. G!Consumed(p) \in Nat
  <2>1. PICK n \in Nat, l \in Nat : n = G!GetData(p, 19) /\ l = G!ParsingPacket(p).len
    <3>1. Byte \subseteq Nat
      BY DEF Byte
    <3> QED
      BY <1>3, <1>4, <3>1
  <2>2. 9 + 4 * l \in Nat /\ 19 + 8 * n \in Nat /\ 23 + 8 * n \in Nat /\ 8 + 4 * l \in Nat
    OBVIOUS
  <2>3. G!ReadIndex(p) \in Nat
    BY <2>1, <2>2 DEF G!ReadIndex
  <2> QED
    BY <2>3 DEF G!Consumed
<1> QED
  BY <1>4, <1>5, <1>6

\* A status that the parser keeps.
LEMMA StatusRead ==
  ASSUME NEW p \in Seq(Byte)
  PROVE  LET s == G!GetSTATE1(p)
         IN /\ s.st.num \in 0 .. 29 => s.st \in HeldState
            /\ s.st.num \in Nat /\ s.slots \in [1 .. s.st.num -> Listed]
<1>1. /\ \A i \in Int : G!GetData(p, i) \in Byte
      /\ \A i \in Int : G!Word(p, i) \in TwoBytes
      /\ \A i \in Int : G!ValueAt(p, i) \in Value16
  BY BytesRead
<1>2. PICK n \in Byte : n = G!GetData(p, 19)
  BY <1>1
<1>3. PICK e \in Int : e = (20 + 8 * n) % 256
  BY DEF Byte
<1>4. PICK b16 \in Byte : b16 = G!GetData(p, 16)
  BY <1>1
<1>5. b16 \div 16 \in Nat /\ b16 % 16 \in 0 .. 15
  BY DEF Byte
<1>6. G!GetSTATE1(p).st = [sw |-> G!GetData(p, 9), profile |-> G!GetData(p, 10), control |-> G!Word(p, 11), node |-> G!Word(p, 13),
              isinit |-> b16 \div 16, mode |-> b16 % 16, time |-> G!GetData(p, 17),
              num |-> n, comm |-> G!Word(p, e), service |-> G!Word(p, e + 2)]
  BY <1>2, <1>3, <1>4 DEF G!GetSTATE1
<1>7. /\ G!GetData(p, 9) \in Nat /\ G!GetData(p, 10) \in Nat /\ G!GetData(p, 17) \in Nat
      /\ G!Word(p, 11) \in TwoBytes /\ G!Word(p, 13) \in TwoBytes /\ G!Word(p, e) \in TwoBytes /\ G!Word(p, e + 2) \in TwoBytes
  <2>1. \A i \in Int : G!GetData(p, i) \in Nat
    BY <1>1 DEF Byte
  <2>2. 9 \in Int /\ 10 \in Int /\ 11 \in Int /\ 13 \in Int /\ 17 \in Int /\ e + 2 \in Int
    OBVIOUS
  <2>3. G!GetData(p, 9) \in Nat /\ G!GetData(p, 10) \in Nat /\ G!GetData(p, 17) \in Nat
    BY <2>1, <2>2
  <2>4. /\ G!Word(p, 11) \in TwoBytes /\ G!Word(p, 13) \in TwoBytes
        /\ G!Word(p, e) \in TwoBytes /\ G!Word(p, e + 2) \in TwoBytes
    BY <1>1, <2>2
  <2> QED
    BY <2>3, <2>4
<1>8. n \in 0 .. 29 => G!GetSTATE1(p).st \in HeldState
  BY <1>5, <1>6, <1>7 DEF HeldState
<1>9. G!GetSTATE1(p).st.num = n /\ n \in Nat
  BY <1>6 DEF Byte
<1>10. G!GetSTATE1(p).slots \in [1 .. n -> Listed]
  <2> DEFINE At(b) == [data |-> G!ValueAt(p, b), state |-> G!GetData(p, b + 4), isinit |-> G!GetData(p, b + 5),
                       mode |-> G!GetData(p, b + 6), time |-> G!GetData(p, b + 7)]
  <2>1. ASSUME NEW b \in Int PROVE At(b) \in Listed
    <3>1. /\ G!GetData(p, b + 4) \in Nat /\ G!GetData(p, b + 5) \in Nat /\ G!GetData(p, b + 6) \in Nat /\ G!GetData(p, b + 7) \in Nat
          /\ G!ValueAt(p, b) \in Value16
      <4>1. \A i \in Int : G!GetData(p, i) \in Nat
        BY <1>1 DEF Byte
      <4>2. b + 4 \in Int /\ b + 5 \in Int /\ b + 6 \in Int /\ b + 7 \in Int
        OBVIOUS
      <4>3. G!GetData(p, b + 4) \in Nat /\ G!GetData(p, b + 5) \in Nat /\ G!GetData(p, b + 6) \in Nat /\ G!GetData(p, b + 7) \in Nat
        BY <4>1, <4>2
      <4> QED
        BY <1>1, <4>3
    <3> QED
      BY <3>1 DEF Listed
  <2>2. G!GetSTATE1(p).slots = [i \in 1 .. n |-> At(20 + 8 * (i - 1))]
    BY <1>2 DEF G!GetSTATE1
  <2> HIDE DEF At
  <2> QED
    BY <1>9, <2>1, <2>2
<1> QED
  BY <1>8, <1>9, <1>10

\* The first places of a table, those of a node alone: what ByNode builds, one place after the other.
Selects(f, tab, node, m) ==
  f = [n \in 0 .. m |-> IF n = 0 THEN <<>>
                        ELSE IF tab[n - 1].node = node THEN Append(f[n - 1], tab[n - 1]) ELSE f[n - 1]]

\* There is such a function, however many places.
LEMMA SelectsExists ==
  ASSUME NEW N \in Nat, NEW tab, NEW node
  PROVE  \E f : Selects(f, tab, node, N)
<1> DEFINE Without == {m \in Nat : \A f : ~Selects(f, tab, node, m)}
<1>1. SUFFICES ASSUME Without # {} PROVE FALSE
  OBVIOUS
<1>2. PICK m \in Without : \A k \in Without : m <= k
  BY <1>1, LeastOf
<1>3. m \in Nat /\ \A f : ~Selects(f, tab, node, m)
  BY <1>2
<1>4. CASE m = 0
  <2> DEFINE g == [n \in 0 .. 0 |-> <<>>]
  <2>1. g = [n \in 0 .. 0 |-> IF n = 0 THEN <<>>
                              ELSE IF tab[n - 1].node = node THEN Append(g[n - 1], tab[n - 1]) ELSE g[n - 1]]
    <3>1. \A n \in 0 .. 0 : n = 0
      OBVIOUS
    <3> QED
      BY <3>1
  <2>2. Selects(g, tab, node, 0)
    BY <2>1 DEF Selects
  <2> QED
    BY <1>3, <1>4, <2>2
<1>5. CASE m # 0
  <2>1. m - 1 \in Nat /\ ~(m <= m - 1)
    BY <1>3, <1>5
  <2>2. PICK f : Selects(f, tab, node, m - 1)
    BY <1>2, <2>1
  <2> DEFINE g == [n \in 0 .. m |-> IF n < m THEN f[n]
                                    ELSE IF tab[m - 1].node = node THEN Append(f[m - 1], tab[m - 1]) ELSE f[m - 1]]
  <2>3. ASSUME NEW n \in 0 .. m
        PROVE  g[n] = IF n = 0 THEN <<>>
                      ELSE IF tab[n - 1].node = node THEN Append(g[n - 1], tab[n - 1]) ELSE g[n - 1]
    <3>1. n # 0 => n - 1 \in 0 .. m /\ n - 1 < m
      BY <1>3
    <3>2. n # 0 => g[n - 1] = f[n - 1]
      BY <3>1
    <3>3. CASE n < m
      <4>1. n \in 0 .. m - 1 /\ g[n] = f[n]
        BY <1>3, <3>3
      <4>2. f[n] = IF n = 0 THEN <<>>
                   ELSE IF tab[n - 1].node = node THEN Append(f[n - 1], tab[n - 1]) ELSE f[n - 1]
        BY <2>2, <4>1 DEF Selects
      <4> QED
        BY <3>2, <4>1, <4>2
    <3>4. CASE n = m
      BY <1>3, <1>5, <3>2, <3>4
    <3> QED
      BY <1>3, <3>3, <3>4
  <2>4. DOMAIN g = 0 .. m
    OBVIOUS
  <2> HIDE DEF g
  <2>5. g = [n \in 0 .. m |-> IF n = 0 THEN <<>>
                              ELSE IF tab[n - 1].node = node THEN Append(g[n - 1], tab[n - 1]) ELSE g[n - 1]]
    <3>1. g = [n \in 0 .. m |-> g[n]]
      <4>1. g = [n \in DOMAIN g |-> g[n]]
        BY DEF g
      <4> QED
        BY <2>4, <4>1
    <3> QED
      BY <2>3, <3>1
  <2>6. Selects(g, tab, node, m)
    BY <2>5 DEF Selects
  <2> QED
    BY <1>3, <2>6
<1> QED
  BY <1>4, <1>5

\* It lists elements of the table.
LEMMA SelectsElements ==
  ASSUME NEW Elems, NEW N \in Nat, NEW tab, \A k \in 0 .. N - 1 : tab[k] \in Elems, NEW node,
         NEW f, Selects(f, tab, node, N)
  PROVE  f[N] \in Seq(Elems)
<1> DEFINE Other == {m \in 0 .. N : f[m] \notin Seq(Elems)}
<1>1. SUFFICES ASSUME Other # {} PROVE FALSE
  OBVIOUS
<1>2. PICK m \in Other : \A k \in Other : m <= k
  <2>1. Other \in SUBSET Nat
    OBVIOUS
  <2> QED
    BY <1>1, <2>1, LeastOf
<1>3. m \in 0 .. N /\ f[m] \notin Seq(Elems)
  BY <1>2
<1>4. f[m] = IF m = 0 THEN <<>>
             ELSE IF tab[m - 1].node = node THEN Append(f[m - 1], tab[m - 1]) ELSE f[m - 1]
  BY <1>3 DEF Selects
<1>5. CASE m = 0
  BY <1>3, <1>4, <1>5
<1>6. CASE m # 0
  <2>1. m - 1 \in 0 .. N /\ m - 1 \in 0 .. N - 1 /\ ~(m <= m - 1)
    BY <1>3, <1>6
  <2>2. f[m - 1] \in Seq(Elems)
    BY <1>2, <2>1
  <2>3. tab[m - 1] \in Elems
    BY <2>1
  <2>4. Append(f[m - 1], tab[m - 1]) \in Seq(Elems)
    BY <2>2, <2>3
  <2> QED
    BY <1>3, <1>4, <1>6, <2>2, <2>4
<1> QED
  BY <1>5, <1>6

\* The tables of sensors and of actuators, and the states of the nodes.
Tables == [G!Places -> Held]
KeptStatus == [{0, 1} -> [0 .. Nodes - 1 -> HeldState]]
Sizes == Nodes \in 1 .. 8 /\ Stride \in 1 .. 8

\* The places are numbered from 0.
LEMMA PlacesAre ==
  ASSUME Sizes
  PROVE  Nodes * Stride \in Nat /\ G!Places = 0 .. (Nodes * Stride - 1)
<1>1. Nodes \in Nat /\ Stride \in Nat
  BY DEF Sizes
<1>2. Nodes * Stride \in Nat
  BY <1>1
<1> QED
  BY <1>2 DEF G!Places

\* The sensors of a node are sensors.
LEMMA ByNodeType ==
  ASSUME Sizes, NEW tab \in Tables, NEW node
  PROVE  G!ByNode(tab, node) \in Seq(Held)
<1>1. PICK N \in Nat : N = Nodes * Stride /\ G!Places = 0 .. N - 1
  BY PlacesAre
<1>2. \A k \in 0 .. N - 1 : tab[k] \in Held
  BY <1>1 DEF Tables
<1> DEFINE upto == CHOOSE f : Selects(f, tab, node, N)
<1>3. Selects(upto, tab, node, N)
  BY SelectsExists
<1>4. G!ByNode(tab, node) = upto[N]
  BY <1>1 DEF G!ByNode, Selects
<1> HIDE DEF upto
<1> QED
  BY <1>2, <1>3, <1>4, SelectsElements

\* The places of bytes that lie eight by eight behind each other.
EightByEight(seqs) == \A i \in 1 .. Len(seqs) : \A j \in 1 .. 8 : FlattenSeq(seqs)[8 * (i - 1) + j] = seqs[i][j]

\* In one sequence of them, all are where they belong.
LEMMA FlattenPlaces ==
  ASSUME NEW seqs \in Seq(Seq(Nat)), \A i \in 1 .. Len(seqs) : Len(seqs[i]) = 8
  PROVE  EightByEight(seqs)
<1> DEFINE Eights(m) == {sq \in Seq(Seq(Nat)) : Len(sq) = m /\ \A i \in 1 .. m : Len(sq[i]) = 8}
           Bad == {m \in Nat : \E sq \in Eights(m) : ~EightByEight(sq)}
<1>1. SUFFICES ASSUME Bad # {} PROVE FALSE
  <2>1. Len(seqs) \in Nat /\ seqs \in Eights(Len(seqs))
    OBVIOUS
  <2> QED
    BY <2>1
<1>2. PICK m \in Bad : \A k \in Bad : m <= k
  BY <1>1, LeastOf
<1>3. PICK sq \in Eights(m) : ~EightByEight(sq)
  BY <1>2
<1>4. m \in Nat /\ sq \in Seq(Seq(Nat)) /\ Len(sq) = m /\ \A i \in 1 .. m : Len(sq[i]) = 8
  BY <1>2, <1>3
<1>5. m # 0
  BY <1>3, <1>4 DEF EightByEight
<1>6. PICK h \in Seq(Nat), r \in Seq(Seq(Nat)) :
        /\ h = sq[1] /\ Len(h) = 8 /\ Len(r) = m - 1 /\ \A i \in 1 .. m - 1 : r[i] = sq[i + 1]
        /\ FlattenSeq(sq) = h \o FlattenSeq(r)
  <2>1. sq # <<>> /\ 1 \in 1 .. m
    BY <1>4, <1>5
  <2>2. /\ Head(sq) = sq[1] /\ Head(sq) \in Seq(Nat) /\ Tail(sq) \in Seq(Seq(Nat)) /\ Len(Tail(sq)) = m - 1
        /\ \A i \in 1 .. m - 1 : Tail(sq)[i] = sq[i + 1]
    BY <1>4, <2>1
  <2>3. FlattenSeq(sq) = Head(sq) \o FlattenSeq(Tail(sq))
    BY <1>4, <2>1, FlattenHead
  <2> QED
    BY <1>4, <2>1, <2>2, <2>3
<1>7. EightByEight(r)
  <2>1. m - 1 \in Nat /\ ~(m <= m - 1)
    BY <1>4, <1>5
  <2>2. \A i \in 1 .. m - 1 : Len(r[i]) = 8
    <3> TAKE i \in 1 .. m - 1
    <3>1. i + 1 \in 1 .. m
      BY <1>4
    <3> QED
      BY <1>4, <1>6, <3>1
  <2>3. r \in Eights(m - 1)
    BY <1>6, <2>2
  <2> QED
    BY <1>2, <2>1, <2>3
<1>8. PICK f \in Seq(Nat) : f = FlattenSeq(r) /\ Len(f) = 8 * (m - 1)
  <2>1. \A i \in 1 .. Len(r) : Len(r[i]) = 8
    <3> TAKE i \in 1 .. Len(r)
    <3>1. i \in 1 .. m - 1 /\ i + 1 \in 1 .. m
      BY <1>4, <1>6
    <3> QED
      BY <1>4, <1>6, <3>1
  <2>2. FlattenSeq(r) \in Seq(Nat) /\ Len(FlattenSeq(r)) = 8 * Len(r)
    BY <2>1, FlattenLength
  <2> QED
    BY <1>6, <2>2
<1>9. ASSUME NEW i \in 1 .. m, NEW j \in 1 .. 8 PROVE FlattenSeq(sq)[8 * (i - 1) + j] = sq[i][j]
  <2>1. \A x \in 1 .. 8 + 8 * (m - 1) : (h \o f)[x] = IF x <= 8 THEN h[x] ELSE f[x - 8]
    <3>1. \A x \in 1 .. Len(h) + Len(f) : (h \o f)[x] = IF x <= Len(h) THEN h[x] ELSE f[x - Len(h)]
      BY ConcatProperties
    <3>2. PICK e \in Nat, d \in Nat : e = Len(h) /\ d = Len(f) /\ e = 8 /\ d = 8 * (m - 1)
      BY <1>6, <1>8
    <3>3. 1 .. Len(h) + Len(f) = 1 .. 8 + 8 * (m - 1)
      BY <3>2
    <3> QED
      BY <1>6, <3>1, <3>3
  <2>2. CASE i = 1
    <3>1. 8 * (i - 1) + j = j /\ j \in 1 .. 8 + 8 * (m - 1) /\ j <= 8
      BY <1>4, <1>5, <2>2
    <3> QED
      BY <1>6, <1>8, <2>1, <2>2, <3>1
  <2>3. CASE i # 1
    <3>1. PICK x \in Nat : x = 8 * (i - 1) + j /\ x > 8 /\ x <= 8 + 8 * (m - 1) /\ x - 8 = 8 * ((i - 1) - 1) + j
      BY <1>4, <2>3
    <3>2. (h \o f)[x] = f[x - 8]
      <4>1. x \in 1 .. 8 + 8 * (m - 1) /\ ~(x <= 8)
        BY <1>4, <3>1
      <4> QED
        BY <2>1, <4>1
    <3>3. i - 1 \in 1 .. m - 1 /\ (i - 1) + 1 = i
      BY <1>4, <2>3
    <3>4. f[8 * ((i - 1) - 1) + j] = r[i - 1][j]
      BY <1>6, <1>7, <1>8, <3>3 DEF EightByEight
    <3>5. r[i - 1] = sq[i]
      BY <1>6, <3>3
    <3> QED
      BY <1>6, <1>8, <3>1, <3>2, <3>4, <3>5
  <2> QED
    BY <2>2, <2>3
<1> QED
  BY <1>3, <1>4, <1>9 DEF EightByEight

\* A number of two bytes is put together again.
LEMMA TwoBytesBack ==
  ASSUME NEW w \in TwoBytes
  PROVE  G!Lo(w) \in Nat /\ G!Hi(w) \in Nat /\ G!Lo(w) + 256 * G!Hi(w) = w
<1>1. PICK v \in Nat : v = w /\ v < 65536
  BY DEF TwoBytes
<1>2. v % 256 \in Nat /\ (v \div 256) % 256 \in Nat /\ (v % 256) + 256 * ((v \div 256) % 256) = v
  BY <1>1
<1> QED
  BY <1>1, <1>2 DEF G!Lo, G!Hi

\* The eight bytes of a sensor, in a list of them.
LEMMA SlotsPlaces ==
  ASSUME NEW n \in Nat, NEW ss \in Slots(n), NEW i \in 1 .. n, NEW j \in 1 .. 8
  PROVE  G!FlattenSeq([k \in DOMAIN ss |-> G!SenAct(ss[k])])[8 * (i - 1) + j] = G!SenAct(ss[i])[j]
<1>1. PICK ls : ls = [k \in DOMAIN ss |-> G!SenAct(ss[k])]
  OBVIOUS
<1>2. DOMAIN ss = 1 .. n
  BY DEF Slots
<1>3. ls \in Seq(Seq(Nat)) /\ Len(ls) = n /\ \A k \in 1 .. n : Len(ls[k]) = 8
  BY <1>1, SenActsOf
<1>4. EightByEight(ls)
  BY <1>3, FlattenPlaces
<1>5. FlattenSeq(ls)[8 * (i - 1) + j] = ls[i][j]
  BY <1>3, <1>4 DEF EightByEight
<1>6. ls[i] = G!SenAct(ss[i])
  BY <1>1, <1>2
<1> QED
  BY <1>1, <1>5, <1>6 DEF G!FlattenSeq, FlattenSeq

\* Where they lie in the status s of n sensors.
Written(s, st, n, ss) ==
  /\ s \in Seq(Nat) /\ Len(s) = 15 + 8 * n
  /\ s[3] = G!Lo(st.control) /\ s[4] = G!Hi(st.control) /\ s[5] = G!Lo(st.node) /\ s[6] = G!Hi(st.node)
  /\ s[8] = st.mode /\ s[11] = st.num
  /\ \A i \in 1 .. n : \A j \in 1 .. 8 : s[11 + (8 * (i - 1) + j)] = G!SenAct(ss[i])[j]
  /\ s[12 + 8 * n] = G!Lo(st.comm) /\ s[13 + 8 * n] = G!Hi(st.comm)
  /\ s[14 + 8 * n] = G!Lo(st.service) /\ s[15 + 8 * n] = G!Hi(st.service)

LEMMA StatusPlaces ==
  ASSUME NEW st \in NodeStates, NEW n \in Nat, NEW ss \in Slots(n), NEW s, s = G!NodeStatus(st, ss)
  PROVE  Written(s, st, n, ss)
<1>1. PICK t \in Seq(Nat), m \in Seq(Nat), e \in Seq(Nat) :
        /\ t = <<st.sw, st.profile, G!Lo(st.control), G!Hi(st.control), G!Lo(st.node), G!Hi(st.node),
                 st.isinit, st.mode, G!Lo(st.time), G!Hi(st.time), st.num>>
        /\ Len(t) = 11
        /\ m = G!FlattenSeq([i \in DOMAIN ss |-> G!SenAct(ss[i])]) /\ Len(m) = 8 * n
        /\ e = <<G!Lo(st.comm), G!Hi(st.comm), G!Lo(st.service), G!Hi(st.service)>> /\ Len(e) = 4
        /\ G!NodeStatus(st, ss) = (t \o m) \o e
  BY StatusParts
<1>2. PICK tm \in Seq(Nat) :
        /\ tm = t \o m /\ Len(tm) = 11 + 8 * n
        /\ \A i \in 1 .. 11 : tm[i] = t[i]
        /\ \A i \in 1 .. 8 * n : tm[11 + i] = m[i]
  <2>1. PICK k \in Nat, l \in Nat : k = 11 /\ l = 8 * n
    OBVIOUS
  <2>2. /\ t \o m \in Seq(Nat) /\ Len(t \o m) = k + l
        /\ \A i \in 1 .. k : (t \o m)[i] = t[i]
        /\ \A i \in 1 .. l : (t \o m)[k + i] = m[i]
    <3>1. Len(t) = k /\ Len(m) = l
      BY <1>1, <2>1
    <3>2. /\ t \o m \in Seq(Nat) /\ Len(t \o m) = Len(t) + Len(m)
          /\ \A i \in 1 .. Len(t) : (t \o m)[i] = t[i]
          /\ \A i \in 1 .. Len(m) : (t \o m)[Len(t) + i] = m[i]
      BY Behind
    <3> QED
      BY <3>1, <3>2
  <2> QED
    BY <2>1, <2>2
<1>3. /\ tm \o e \in Seq(Nat) /\ Len(tm \o e) = (11 + 8 * n) + 4
      /\ \A i \in 1 .. 11 + 8 * n : (tm \o e)[i] = tm[i]
      /\ \A i \in 1 .. 4 : (tm \o e)[(11 + 8 * n) + i] = e[i]
  <2>1. PICK k \in Nat, l \in Nat : k = 11 + 8 * n /\ l = 4
    OBVIOUS
  <2>2. /\ tm \o e \in Seq(Nat) /\ Len(tm \o e) = k + l
        /\ \A i \in 1 .. k : (tm \o e)[i] = tm[i]
        /\ \A i \in 1 .. l : (tm \o e)[k + i] = e[i]
    <3>1. Len(tm) = k /\ Len(e) = l
      BY <1>1, <1>2, <2>1
    <3>2. /\ tm \o e \in Seq(Nat) /\ Len(tm \o e) = Len(tm) + Len(e)
          /\ \A i \in 1 .. Len(tm) : (tm \o e)[i] = tm[i]
          /\ \A i \in 1 .. Len(e) : (tm \o e)[Len(tm) + i] = e[i]
      BY Behind
    <3> QED
      BY <3>1, <3>2
  <2> QED
    BY <2>1, <2>2
<1>4. s = tm \o e
  BY <1>1, <1>2
<1>5. \A i \in 1 .. 11 : s[i] = t[i]
  <2> TAKE i \in 1 .. 11
  <2>1. i \in 1 .. 11 + 8 * n
    OBVIOUS
  <2> QED
    BY <1>2, <1>3, <1>4, <2>1
<1>6. /\ s[3] = G!Lo(st.control) /\ s[4] = G!Hi(st.control) /\ s[5] = G!Lo(st.node) /\ s[6] = G!Hi(st.node)
      /\ s[8] = st.mode /\ s[11] = st.num
  <2>1. t[3] = G!Lo(st.control) /\ t[4] = G!Hi(st.control) /\ t[5] = G!Lo(st.node) /\ t[6] = G!Hi(st.node)
        /\ t[8] = st.mode /\ t[11] = st.num
    BY <1>1
  <2>2. 3 \in 1 .. 11 /\ 4 \in 1 .. 11 /\ 5 \in 1 .. 11 /\ 6 \in 1 .. 11 /\ 8 \in 1 .. 11 /\ 11 \in 1 .. 11
    OBVIOUS
  <2> QED
    BY <1>5, <2>1, <2>2
<1>7. ASSUME NEW i \in 1 .. n, NEW j \in 1 .. 8 PROVE s[11 + (8 * (i - 1) + j)] = G!SenAct(ss[i])[j]
  <2>1. PICK x \in 1 .. 8 * n : x = 8 * (i - 1) + j
    OBVIOUS
  <2>2. 11 + x \in 1 .. 11 + 8 * n
    OBVIOUS
  <2>3. s[11 + x] = m[x]
    BY <1>2, <1>3, <1>4, <2>2
  <2>4. m[x] = G!SenAct(ss[i])[j]
    BY <1>1, <2>1, SlotsPlaces
  <2> QED
    BY <2>1, <2>3, <2>4
<1>8. /\ s[12 + 8 * n] = G!Lo(st.comm) /\ s[13 + 8 * n] = G!Hi(st.comm)
      /\ s[14 + 8 * n] = G!Lo(st.service) /\ s[15 + 8 * n] = G!Hi(st.service)
  <2>1. e[1] = G!Lo(st.comm) /\ e[2] = G!Hi(st.comm) /\ e[3] = G!Lo(st.service) /\ e[4] = G!Hi(st.service)
    BY <1>1
  <2>2. /\ 12 + 8 * n = (11 + 8 * n) + 1 /\ 13 + 8 * n = (11 + 8 * n) + 2
        /\ 14 + 8 * n = (11 + 8 * n) + 3 /\ 15 + 8 * n = (11 + 8 * n) + 4
    OBVIOUS
  <2>3. 1 \in 1 .. 4 /\ 2 \in 1 .. 4 /\ 3 \in 1 .. 4 /\ 4 \in 1 .. 4
    OBVIOUS
  <2> QED
    BY <1>3, <1>4, <2>1, <2>2, <2>3
<1>9. s \in Seq(Nat) /\ Len(s) = 15 + 8 * n
  <2>1. (11 + 8 * n) + 4 = 15 + 8 * n
    OBVIOUS
  <2> QED
    BY <1>3, <1>4, <2>1
<1> QED
  BY <1>6, <1>7, <1>8, <1>9 DEF Written

\* The eight bytes of one sensor.
LEMMA SenActPlaces ==
  ASSUME NEW x \in Listed, NEW b, b = G!SenAct(x)
  PROVE  /\ b[1] = x.data.id /\ b[2] = x.data.type /\ b[3] = G!Lo(x.data.value) /\ b[4] = G!Hi(x.data.value)
         /\ b[5] = x.state /\ b[6] = x.isinit /\ b[7] = x.mode /\ b[8] = x.time
<1>1. /\ x.data \in Value16 /\ x.state \in Nat /\ x.isinit \in Nat /\ x.mode \in Nat /\ x.time \in Nat
  BY DEF Listed
<1>2. /\ x.data.id \in Nat /\ x.data.type \in Nat /\ G!Lo(x.data.value) \in Nat /\ G!Hi(x.data.value) \in Nat
  BY <1>1, TwoBytesBack DEF Value16
<1>3. PICK u \in Seq(Nat) :
        /\ u = G!Payload(x.data) /\ Len(u) = 4
        /\ u[1] = x.data.id /\ u[2] = x.data.type /\ u[3] = G!Lo(x.data.value) /\ u[4] = G!Hi(x.data.value)
  <2>1. PICK a1 \in Nat, a2 \in Nat, a3 \in Nat, a4 \in Nat :
          a1 = x.data.id /\ a2 = x.data.type /\ a3 = G!Lo(x.data.value) /\ a4 = G!Hi(x.data.value)
    BY <1>2
  <2>2. LET s == <<a1, a2, a3, a4>>
        IN s \in Seq(Nat) /\ Len(s) = 4 /\ s[1] = a1 /\ s[2] = a2 /\ s[3] = a3 /\ s[4] = a4
    OBVIOUS
  <2>3. G!Payload(x.data) = <<a1, a2, a3, a4>>
    BY <2>1 DEF G!Payload
  <2> QED
    BY <2>1, <2>2, <2>3
<1>4. PICK v \in Seq(Nat) :
        /\ v = <<x.state, x.isinit, x.mode, x.time>> /\ Len(v) = 4
        /\ v[1] = x.state /\ v[2] = x.isinit /\ v[3] = x.mode /\ v[4] = x.time
  <2>1. PICK a1 \in Nat, a2 \in Nat, a3 \in Nat, a4 \in Nat :
          a1 = x.state /\ a2 = x.isinit /\ a3 = x.mode /\ a4 = x.time
    BY <1>1
  <2>2. LET s == <<a1, a2, a3, a4>>
        IN s \in Seq(Nat) /\ Len(s) = 4 /\ s[1] = a1 /\ s[2] = a2 /\ s[3] = a3 /\ s[4] = a4
    OBVIOUS
  <2> QED
    BY <2>1, <2>2
<1>5. b = u \o v
  BY <1>3, <1>4 DEF G!SenAct
<1>6. /\ \A i \in 1 .. Len(u) : (u \o v)[i] = u[i]
      /\ \A i \in 1 .. Len(v) : (u \o v)[Len(u) + i] = v[i]
  BY Behind
<1>7. /\ \A i \in 1 .. 4 : b[i] = u[i]
      /\ \A i \in 1 .. 4 : b[4 + i] = v[i]
  BY <1>3, <1>4, <1>5, <1>6
<1>8. /\ b[1] = u[1] /\ b[2] = u[2] /\ b[3] = u[3] /\ b[4] = u[4]
      /\ b[4 + 1] = v[1] /\ b[4 + 2] = v[2] /\ b[4 + 3] = v[3] /\ b[4 + 4] = v[4]
  BY <1>7
<1>9. 4 + 1 = 5 /\ 4 + 2 = 6 /\ 4 + 3 = 7 /\ 4 + 4 = 8
  OBVIOUS
<1> QED
  BY <1>3, <1>4, <1>8, <1>9

\* A node's state and sensors can be written to a packet.
LEMMA HeldWritten ==
  ASSUME NEW st \in HeldState, NEW ss \in Seq(Listed), Len(ss) = st.num
  PROVE  st \in NodeStates /\ ss \in Slots(st.num)
<1>1. st \in NodeStates
  <2>1. TwoBytes \subseteq Nat /\ 0 .. 15 \subseteq Nat /\ 0 .. 29 \subseteq Nat
    BY DEF TwoBytes
  <2> QED
    BY <2>1 DEF HeldState, NodeStates
<1>2. ss \in Slots(st.num)
  <2>1. PICK Every : Every = [data : [id : Nat, type : Nat, value : Nat], state : Nat, isinit : Nat, mode : Nat, time : Nat]
    OBVIOUS
  <2>2. Value16 \subseteq [id : Nat, type : Nat, value : Nat]
    <3>1. TwoBytes \subseteq Nat
      BY DEF TwoBytes
    <3> QED
      BY <3>1 DEF Value16
  <2>3. Listed \subseteq Every
    BY <2>1, <2>2 DEF Listed
  <2>4. ss \in Seq(Every)
    BY <2>3
  <2> QED
    BY <2>1, <2>4 DEF Slots
<1> QED
  BY <1>1, <1>2

\* A status read where it lies in a packet, from byte 9 on.
LEMMA StatusReadBack ==
  ASSUME NEW st \in HeldState, NEW ss \in Seq(Listed), Len(ss) = st.num,
         NEW s, s = G!NodeStatus(st, ss), NEW q, \A i \in 1 .. Len(s) : G!GetData(q, 8 + i) = s[i]
  PROVE  LET r == G!GetSTATE1(q)
         IN /\ r.slots = ss
            /\ r.st.num = st.num /\ r.st.node = st.node /\ r.st.control = st.control /\ r.st.mode = st.mode
            /\ r.st.comm = st.comm /\ r.st.service = st.service
<1>1. PICK n \in 0 .. 29 : n = st.num /\ n \in Nat
  BY DEF HeldState
<1>2. st \in NodeStates /\ ss \in Slots(n)
  BY <1>1, HeldWritten
<1>3. /\ s \in Seq(Nat) /\ Len(s) = 15 + 8 * n
      /\ s[3] = G!Lo(st.control) /\ s[4] = G!Hi(st.control) /\ s[5] = G!Lo(st.node) /\ s[6] = G!Hi(st.node)
      /\ s[8] = st.mode /\ s[11] = st.num
      /\ \A i \in 1 .. n : \A j \in 1 .. 8 : s[11 + (8 * (i - 1) + j)] = G!SenAct(ss[i])[j]
      /\ s[12 + 8 * n] = G!Lo(st.comm) /\ s[13 + 8 * n] = G!Hi(st.comm)
      /\ s[14 + 8 * n] = G!Lo(st.service) /\ s[15 + 8 * n] = G!Hi(st.service)
  <2>1. Written(s, st, n, ss)
    BY <1>2, StatusPlaces
  <2> QED
    BY <2>1 DEF Written
<1>4. \A i \in 1 .. 15 + 8 * n : G!GetData(q, 8 + i) = s[i]
  BY <1>3
<1>5. /\ st.control \in TwoBytes /\ st.node \in TwoBytes /\ st.comm \in TwoBytes /\ st.service \in TwoBytes
      /\ st.mode \in 0 .. 15
  BY DEF HeldState
<1>6. G!Word(q, 11) = st.control /\ G!Word(q, 13) = st.node
  <2>1. G!GetData(q, 11) = s[3] /\ G!GetData(q, 12) = s[4] /\ G!GetData(q, 13) = s[5] /\ G!GetData(q, 14) = s[6]
    <3>1. 3 \in 1 .. 15 + 8 * n /\ 4 \in 1 .. 15 + 8 * n /\ 5 \in 1 .. 15 + 8 * n /\ 6 \in 1 .. 15 + 8 * n
      OBVIOUS
    <3>2. 8 + 3 = 11 /\ 8 + 4 = 12 /\ 8 + 5 = 13 /\ 8 + 6 = 14
      OBVIOUS
    <3> QED
      BY <1>4, <3>1, <3>2
  <2>2. 11 + 1 = 12 /\ 13 + 1 = 14
    OBVIOUS
  <2>3. /\ G!Lo(st.control) + 256 * G!Hi(st.control) = st.control
        /\ G!Lo(st.node) + 256 * G!Hi(st.node) = st.node
    BY <1>5, TwoBytesBack
  <2> QED
    BY <1>3, <2>1, <2>2, <2>3 DEF G!Word
<1>7. G!GetData(q, 16) % 16 = st.mode /\ G!GetData(q, 19) = n
  <2>1. 8 \in 1 .. 15 + 8 * n /\ 11 \in 1 .. 15 + 8 * n /\ 8 + 8 = 16 /\ 8 + 11 = 19
    OBVIOUS
  <2>2. G!GetData(q, 16) = st.mode /\ G!GetData(q, 19) = n
    BY <1>1, <1>3, <1>4, <2>1
  <2>3. \A m \in 0 .. 15 : m % 16 = m
    OBVIOUS
  <2> QED
    BY <1>5, <2>2, <2>3
<1>8. PICK e \in Nat : e = 20 + 8 * n /\ (20 + 8 * n) % 256 = e
  OBVIOUS
<1>9. G!Word(q, e) = st.comm /\ G!Word(q, e + 2) = st.service
  <2>1. /\ 12 + 8 * n \in 1 .. 15 + 8 * n /\ 13 + 8 * n \in 1 .. 15 + 8 * n
        /\ 14 + 8 * n \in 1 .. 15 + 8 * n /\ 15 + 8 * n \in 1 .. 15 + 8 * n
    OBVIOUS
  <2>2. /\ 8 + (12 + 8 * n) = e /\ 8 + (13 + 8 * n) = e + 1 /\ 8 + (14 + 8 * n) = e + 2 /\ 8 + (15 + 8 * n) = (e + 2) + 1
    BY <1>8
  <2>3. /\ G!GetData(q, e) = s[12 + 8 * n] /\ G!GetData(q, e + 1) = s[13 + 8 * n]
        /\ G!GetData(q, e + 2) = s[14 + 8 * n] /\ G!GetData(q, (e + 2) + 1) = s[15 + 8 * n]
    BY <1>4, <2>1, <2>2
  <2>4. /\ G!Lo(st.comm) + 256 * G!Hi(st.comm) = st.comm
        /\ G!Lo(st.service) + 256 * G!Hi(st.service) = st.service
    BY <1>5, TwoBytesBack
  <2> QED
    BY <1>3, <2>3, <2>4 DEF G!Word
<1> DEFINE At(i) == LET b == 20 + 8 * (i - 1)
                    IN [data |-> G!ValueAt(q, b), state |-> G!GetData(q, b + 4), isinit |-> G!GetData(q, b + 5),
                        mode |-> G!GetData(q, b + 6), time |-> G!GetData(q, b + 7)]
<1>10. ASSUME NEW i \in 1 .. n PROVE At(i) = ss[i]
  <2>1. PICK x \in Listed : x = ss[i]
    BY <1>1
  <2>2. PICK b \in Nat : b = 20 + 8 * (i - 1)
    OBVIOUS
  <2>3. \A j \in 1 .. 8 : G!GetData(q, (b - 1) + j) = G!SenAct(x)[j]
    <3> TAKE j \in 1 .. 8
    <3>1. 11 + (8 * (i - 1) + j) \in 1 .. 15 + 8 * n /\ 8 + (11 + (8 * (i - 1) + j)) = (b - 1) + j
      BY <2>2
    <3> QED
      BY <1>3, <1>4, <2>1, <3>1
  <2>4. /\ G!GetData(q, b) = x.data.id /\ G!GetData(q, b + 1) = x.data.type
        /\ G!GetData(q, b + 2) = G!Lo(x.data.value) /\ G!GetData(q, b + 3) = G!Hi(x.data.value)
        /\ G!GetData(q, b + 4) = x.state /\ G!GetData(q, b + 5) = x.isinit
        /\ G!GetData(q, b + 6) = x.mode /\ G!GetData(q, b + 7) = x.time
    <3>1. /\ (b - 1) + 1 = b /\ (b - 1) + 2 = b + 1 /\ (b - 1) + 3 = b + 2 /\ (b - 1) + 4 = b + 3
          /\ (b - 1) + 5 = b + 4 /\ (b - 1) + 6 = b + 5 /\ (b - 1) + 7 = b + 6 /\ (b - 1) + 8 = b + 7
      OBVIOUS
    <3>2. 1 \in 1 .. 8 /\ 2 \in 1 .. 8 /\ 3 \in 1 .. 8 /\ 4 \in 1 .. 8 /\ 5 \in 1 .. 8 /\ 6 \in 1 .. 8 /\ 7 \in 1 .. 8 /\ 8 \in 1 .. 8
      OBVIOUS
    <3>3. /\ G!GetData(q, b) = G!SenAct(x)[1] /\ G!GetData(q, b + 1) = G!SenAct(x)[2]
          /\ G!GetData(q, b + 2) = G!SenAct(x)[3] /\ G!GetData(q, b + 3) = G!SenAct(x)[4]
          /\ G!GetData(q, b + 4) = G!SenAct(x)[5] /\ G!GetData(q, b + 5) = G!SenAct(x)[6]
          /\ G!GetData(q, b + 6) = G!SenAct(x)[7] /\ G!GetData(q, b + 7) = G!SenAct(x)[8]
      BY <2>3, <3>1, <3>2
    <3> QED
      BY <3>3, SenActPlaces
  <2>5. x.data \in Value16 /\ x.data.value \in TwoBytes
    BY DEF Listed, Value16
  <2>6. G!ValueAt(q, b) = x.data
    <3>1. (b + 2) + 1 = b + 3
      OBVIOUS
    <3>2. G!Word(q, b + 2) = x.data.value
      BY <2>4, <2>5, <3>1, TwoBytesBack DEF G!Word
    <3>3. x.data = [id |-> x.data.id, type |-> x.data.type, value |-> x.data.value]
      BY <2>5 DEF Value16
    <3> QED
      BY <2>4, <3>2, <3>3 DEF G!ValueAt
  <2>7. x = [data |-> x.data, state |-> x.state, isinit |-> x.isinit, mode |-> x.mode, time |-> x.time]
    BY DEF Listed
  <2> QED
    BY <2>1, <2>2, <2>4, <2>6, <2>7
<1>11. G!GetSTATE1(q).slots = [i \in 1 .. n |-> At(i)]
  BY <1>7 DEF G!GetSTATE1
<1>12. G!GetSTATE1(q).slots = ss
  <2> HIDE DEF At
  <2>1. ss = [i \in 1 .. n |-> ss[i]]
    BY <1>1
  <2> QED
    BY <1>10, <1>11, <2>1
<1>13. LET r == G!GetSTATE1(q).st
       IN /\ r.num = G!GetData(q, 19) /\ r.node = G!Word(q, 13) /\ r.control = G!Word(q, 11)
          /\ r.mode = G!GetData(q, 16) % 16 /\ r.comm = G!Word(q, e) /\ r.service = G!Word(q, e + 2)
  BY <1>7, <1>8 DEF G!GetSTATE1
<1> QED
  BY <1>1, <1>6, <1>7, <1>9, <1>12, <1>13

\* A status lists a sensor without its node.
LEMMA ListedAs ==
  ASSUME NEW own \in Seq(Held), NEW ss, ss = [i \in DOMAIN own |-> G!AsListed(own[i])], NEW st
  PROVE  ss \in Seq(Listed) /\ Len(ss) = Len(own) /\ G!NodeStatus(st, own) = G!NodeStatus(st, ss)
<1>1. \A x \in Held : G!AsListed(x) \in Listed /\ G!SenAct(G!AsListed(x)) = G!SenAct(x)
  BY DEF Held, Listed, G!AsListed, G!SenAct
<1>2. PICK n \in Nat : n = Len(own) /\ DOMAIN own = 1 .. n
  OBVIOUS
<1>3. \A i \in 1 .. n : own[i] \in Held
  BY <1>2
<1>4. DOMAIN ss = 1 .. n /\ \A i \in 1 .. n : ss[i] = G!AsListed(own[i])
  BY <1>2
<1>5. ss \in Seq(Listed) /\ Len(ss) = n
  BY <1>1, <1>2, <1>3
<1>6. [i \in DOMAIN own |-> G!SenAct(own[i])] = [i \in DOMAIN ss |-> G!SenAct(ss[i])]
  BY <1>1, <1>2, <1>3, <1>4
<1> QED
  BY <1>2, <1>5, <1>6 DEF G!NodeStatus

\* What a node's status is answered with.
LEMMA ResponseIs ==
  ASSUME NEW d, NEW node, node # 255, NEW tab, tab = IF d = G!FCF_SENSOR THEN SI ELSE AI
  PROVE  G!Response(d, node, SI, AI)
           = G!MakeResponse(<<status[G!FCF_SENSOR][node].num>>, <<G!NodeStatus(status[d][node], G!ByNode(tab, node))>>)
<1> DEFINE listed == <<node>>
           Lens == [i \in DOMAIN listed |-> status[G!FCF_SENSOR][listed[i]].num]
           Its(i) == G!NodeStatus(status[d][listed[i]], G!ByNode(tab, listed[i]))
<1>1. G!Response(d, node, SI, AI) = G!MakeResponse(Lens, [i \in DOMAIN listed |-> Its(i)])
  BY DEF G!Response, G!NODE_ALL
<1>2. listed[1] = node /\ DOMAIN listed = 1 .. 1
  OBVIOUS
<1>3. Lens = <<status[G!FCF_SENSOR][node].num>>
  BY <1>2
<1>4. Its(1) = G!NodeStatus(status[d][node], G!ByNode(tab, node))
  BY <1>2
<1> HIDE DEF Its, listed, Lens
<1>5. [i \in DOMAIN listed |-> Its(i)] = <<Its(1)>>
  BY <1>2
<1> QED
  BY <1>1, <1>3, <1>4, <1>5

\* So what a node is answered about is what its tables hold.
LEMMA ReplyRead ==
  ASSUME Sizes, SI \in Tables, AI \in Tables, status \in KeptStatus
  PROVE  G!ReplyTellsStatus
<1> SUFFICES ASSUME NEW d \in {G!FCF_SENSOR, G!FCF_ACTUATOR}, NEW node \in 0 .. (Nodes - 1)
             PROVE  LET own == G!ByNode(IF d = G!FCF_SENSOR THEN SI ELSE AI, node)
                        r == G!GetSTATE1(G!Header(d, G!RESPONSE, 1, 0, 1, 0, node) \o G!Response(d, node, SI, AI))
                    IN Len(own) = status[d][node].num
                         => /\ r.slots = [i \in DOMAIN own |-> G!AsListed(own[i])]
                            /\ \A f \in {"num", "node", "control", "mode", "comm", "service"} :
                                 r.st[f] = status[d][node][f]
  BY DEF G!ReplyTellsStatus
<1> DEFINE own == G!ByNode(IF d = G!FCF_SENSOR THEN SI ELSE AI, node)
           q == G!Header(d, G!RESPONSE, 1, 0, 1, 0, node) \o G!Response(d, node, SI, AI)
<1>1. SUFFICES ASSUME Len(own) = status[d][node].num
               PROVE  /\ G!GetSTATE1(q).slots = [i \in DOMAIN own |-> G!AsListed(own[i])]
                      /\ \A f \in {"num", "node", "control", "mode", "comm", "service"} :
                           G!GetSTATE1(q).st[f] = status[d][node][f]
  OBVIOUS
<1>2. d \in Bit /\ node \in Nat /\ node # 255 /\ 0 \in {0, 1} /\ d \in {0, 1}
  BY DEF G!FCF_SENSOR, G!FCF_ACTUATOR, Bit, Sizes
<1>3. PICK st \in HeldState : st = status[d][node]
  <2>1. status[d] \in [0 .. Nodes - 1 -> HeldState]
    BY <1>2 DEF KeptStatus
  <2> QED
    BY <2>1
<1>4. PICK c \in 0 .. 29 : c = status[G!FCF_SENSOR][node].num
  <2>1. status[0] \in [0 .. Nodes - 1 -> HeldState]
    BY <1>2 DEF KeptStatus
  <2>2. status[0][node] \in HeldState
    BY <2>1
  <2> QED
    BY <2>2 DEF HeldState, G!FCF_SENSOR
<1>5. own \in Seq(Held)
  BY ByNodeType
<1> HIDE DEF own, q
<1>6. PICK ss \in Seq(Listed) : /\ ss = [i \in DOMAIN own |-> G!AsListed(own[i])] /\ Len(ss) = st.num
                                /\ G!NodeStatus(st, own) = G!NodeStatus(st, ss)
  <2>1. PICK ss : ss = [i \in DOMAIN own |-> G!AsListed(own[i])]
    OBVIOUS
  <2>2. ss \in Seq(Listed) /\ Len(ss) = Len(own) /\ G!NodeStatus(st, own) = G!NodeStatus(st, ss)
    BY <1>5, <2>1, ListedAs
  <2> QED
    BY <1>1, <1>3, <2>1, <2>2
<1>7. PICK s \in Seq(Nat) : s = G!NodeStatus(st, ss)
  <2>1. PICK n \in Nat : n = st.num
    BY DEF HeldState
  <2>2. Written(G!NodeStatus(st, ss), st, n, ss)
    BY <1>6, <2>1, HeldWritten, StatusPlaces
  <2> QED
    BY <2>2 DEF Written
<1>8. PICK t \in Seq(Nat) : G!MakeResponse(<<c>>, <<s>>) = t \o s /\ Len(t) = 2
  BY ResponseOfOne
<1>9. G!Response(d, node, SI, AI) = t \o s
  <2>1. G!Response(d, node, SI, AI)
          = G!MakeResponse(<<status[G!FCF_SENSOR][node].num>>, <<G!NodeStatus(status[d][node], own)>>)
    <3>1. PICK tab : tab = IF d = G!FCF_SENSOR THEN SI ELSE AI
      OBVIOUS
    <3>2. G!Response(d, node, SI, AI)
            = G!MakeResponse(<<status[G!FCF_SENSOR][node].num>>, <<G!NodeStatus(status[d][node], G!ByNode(tab, node))>>)
      BY <1>2, <3>1, ResponseIs
    <3>3. own = G!ByNode(tab, node)
      BY <3>1 DEF own
    <3> QED
      BY <3>2, <3>3
  <2> QED
    BY <1>3, <1>4, <1>6, <1>7, <1>8, <2>1
<1>10. \A i \in 1 .. Len(s) : G!GetData(q, 8 + i) = s[i]
  <2>1. PICK b \in Seq(Nat), l \in Nat :
          /\ b = t \o s /\ l = Len(s) /\ Len(b) = 2 + l
          /\ \A i \in 1 .. l : b[2 + i] = s[i]
    <3>1. t \o s \in Seq(Nat) /\ Len(t \o s) = Len(t) + Len(s) /\ \A i \in 1 .. Len(s) : (t \o s)[Len(t) + i] = s[i]
      BY Behind
    <3>2. Len(s) \in Nat
      OBVIOUS
    <3> QED
      BY <1>8, <3>1, <3>2
  <2>2. PICK p \in Seq(Nat) :
          /\ p = G!Header(d, 1, 1, 0, 1, 0, node) \o b
          /\ \A i \in 7 .. 6 + Len(b) : G!GetData(p \o <<>>, i) = b[i - 6]
    <3>1. PICK dev \in Bit, n \in Nat : dev = d /\ n = node
      BY <1>2
    <3>2. PICK type \in 0 .. 7, sq \in Nat, ctl \in Nat : type = 1 /\ sq = 1 /\ ctl = 0
      OBVIOUS
    <3>3. PICK sec \in Bit, ack \in Bit : sec = 1 /\ ack = 0
      BY DEF Bit
    <3>4. PICK rest \in Seq(Nat) : rest = <<>>
      <4>1. <<>> \in Seq(Nat)
        OBVIOUS
      <4> QED
        BY <4>1
    <3>5. Len(b) >= 2
      BY <2>1
    <3>6. LET p == G!Header(dev, type, sec, ack, sq, ctl, n) \o b
          IN p \in Seq(Nat) /\ Len(p) = 7 + Len(b) /\ ReadsAs(p \o rest, type, b)
      BY <3>5, ReadBack
    <3>7. PICK p \in Seq(Nat) : p = G!Header(dev, type, sec, ack, sq, ctl, n) \o b /\ ReadsAs(p \o rest, type, b)
      BY <3>6
    <3> QED
      BY <3>1, <3>2, <3>3, <3>4, <3>7 DEF ReadsAs
  <2>3. p \o <<>> = p
    BY ConcatEmptySeq
  <2>4. q = p
    BY <1>9, <2>1, <2>2 DEF G!RESPONSE, q
  <2>5. ASSUME NEW i \in 1 .. l PROVE G!GetData(q, 8 + i) = s[i]
    <3>1. 8 + i \in 7 .. 6 + (2 + l) /\ (8 + i) - 6 = 2 + i
      OBVIOUS
    <3> QED
      BY <2>1, <2>2, <2>3, <2>4, <3>1
  <2> QED
    BY <2>1, <2>5
<1>11. LET r == G!GetSTATE1(q)
       IN /\ r.slots = ss
          /\ r.st.num = st.num /\ r.st.node = st.node /\ r.st.control = st.control /\ r.st.mode = st.mode
          /\ r.st.comm = st.comm /\ r.st.service = st.service
  BY <1>6, <1>7, <1>10, StatusReadBack
<1> QED
  BY <1>3, <1>6, <1>11

\* What StatusReply promises is promised of the daemon.
LEMMA SameReply == G!ReplyTellsStatus = ReplyTellsStatus
<1>1. \A tab, node : G!ByNode(tab, node) = ByNode(tab, node)
  BY DEF G!ByNode, ByNode
<1>2. \A lens, bodies : G!MakeResponse(lens, bodies) = MakeResponse(lens, bodies)
  BY DEF G!MakeResponse, MakeResponse, G!PLTYPE_NODEINFO, PLTYPE_NODEINFO, G!FlattenSeq, FlattenSeq
<1>3. \A st, slots : G!NodeStatus(st, slots) = NodeStatus(st, slots)
  BY DEF G!NodeStatus, NodeStatus, G!Lo, Lo, G!Hi, Hi, G!SenAct, SenAct, G!Payload, Payload, G!FlattenSeq, FlattenSeq
<1>4. ASSUME NEW dev, NEW node, NEW tabS, NEW tabA
      PROVE  G!Response(dev, node, tabS, tabA) = Response(dev, node, tabS, tabA)
  <2> DEFINE listed == IF node = NODE_ALL THEN [i \in 1 .. Nodes |-> i - 1] ELSE <<node>>
             tab == IF dev = FCF_SENSOR THEN tabS ELSE tabA
             Lens == [i \in DOMAIN listed |-> status[FCF_SENSOR][listed[i]].num]
             Mine(i) == NodeStatus(status[dev][listed[i]], ByNode(tab, listed[i]))
             Its(i) == G!NodeStatus(status[dev][listed[i]], G!ByNode(tab, listed[i]))
  <2>1. \A i : Its(i) = Mine(i)
    BY <1>1, <1>3
  <2>2. Response(dev, node, tabS, tabA) = MakeResponse(Lens, [i \in DOMAIN listed |-> Mine(i)])
    BY DEF Response
  <2>3. G!Response(dev, node, tabS, tabA) = G!MakeResponse(Lens, [i \in DOMAIN listed |-> Its(i)])
    BY DEF G!Response, G!NODE_ALL, NODE_ALL, G!FCF_SENSOR, FCF_SENSOR
  <2> HIDE DEF listed, Lens, Mine, Its
  <2>4. [i \in DOMAIN listed |-> Its(i)] = [i \in DOMAIN listed |-> Mine(i)]
    BY <2>1
  <2> QED
    BY <1>2, <2>2, <2>3, <2>4
<1>5. \A p : G!GetSTATE1(p) = GetSTATE1(p)
  BY DEF G!GetSTATE1, GetSTATE1, G!GetData, GetData, G!Word, Word, G!ValueAt, ValueAt
<1>6. \A dev, type, sec, ack, sq, ctl, node : G!Header(dev, type, sec, ack, sq, ctl, node) = Header(dev, type, sec, ack, sq, ctl, node)
  BY DEF G!Header, Header, G!Lo, Lo, G!Hi, Hi
<1>7. \A s : G!AsListed(s) = AsListed(s)
  BY DEF G!AsListed, AsListed
<1> QED
  BY <1>1, <1>4, <1>5, <1>6, <1>7 DEF G!ReplyTellsStatus, ReplyTellsStatus, G!FCF_SENSOR, FCF_SENSOR,
     G!FCF_ACTUATOR, FCF_ACTUATOR, G!RESPONSE, RESPONSE

\* A value that is the last of several is one of them.
LEMMA OneOf ==
  ASSUME NEW l \in Nat, NEW last \in SUBSET (1 .. l), last # {}
  PROVE  G!FirstOf(last) \in 1 .. l
<1>1. last \in SUBSET Nat
  OBVIOUS
<1>2. \E m \in last : \A k \in last : m <= k
  BY <1>1, LeastOf
<1>3. G!FirstOf(last) \in last
  BY <1>2 DEF G!FirstOf
<1> QED
  BY <1>3

\* The low byte of a value.
LEMMA LowByte ==
  ASSUME NEW w \in Nat
  PROVE  G!Lo(w) \in TwoBytes
BY DEF G!Lo, TwoBytes

\* The actuators are set to values that a packet can hold.
LEMMA ActuatorsSet ==
  ASSUME AI \in Tables, NEW l \in Nat, NEW vs \in [1 .. l -> Value16]
  PROVE  G!SetActuators(vs) \in Tables
<1> DEFINE Latest(n) == G!LastFor(vs, n, LAMBDA v : G!ActuatorIndex(v) # {} /\ G!FirstOf(G!ActuatorIndex(v)) = n)
           New(n) == IF Latest(n) = {} THEN AI[n]
                     ELSE [AI[n] EXCEPT !.data = LET v == vs[G!FirstOf(Latest(n))] IN [v EXCEPT !.value = G!Lo(@)]]
<1>1. G!SetActuators(vs) = [n \in G!Places |-> New(n)]
  BY DEF G!SetActuators
<1>2. ASSUME NEW n \in G!Places PROVE New(n) \in Held
  <2>1. Latest(n) \in SUBSET (1 .. l)
    BY DEF G!LastFor
  <2> HIDE DEF Latest
  <2>2. AI[n] \in Held
    BY DEF Tables
  <2>3. CASE Latest(n) = {}
    BY <2>2, <2>3
  <2>4. CASE Latest(n) # {}
    <3>1. G!FirstOf(Latest(n)) \in 1 .. l
      BY <2>1, <2>4, OneOf
    <3>2. PICK v \in Value16 : v = vs[G!FirstOf(Latest(n))]
      BY <3>1
    <3>3. G!Lo(v.value) \in TwoBytes
      <4>1. v.value \in Nat
        BY DEF Value16, TwoBytes
      <4> QED
        BY <4>1, LowByte
    <3>4. [v EXCEPT !.value = G!Lo(@)] \in Value16
      BY <3>3 DEF Value16
    <3>5. New(n) = [AI[n] EXCEPT !.data = [v EXCEPT !.value = G!Lo(@)]]
      BY <2>4, <3>2
    <3> QED
      BY <2>2, <3>4, <3>5 DEF Held
  <2> QED
    BY <2>3, <2>4
<1> HIDE DEF New
<1> QED
  BY <1>1, <1>2 DEF Tables

\* A mode request moves sensors to its node.
LEMMA ModesSet ==
  ASSUME SI \in Tables, NEW l \in Nat, NEW vs \in [1 .. l -> Value16], NEW cmd \in Nat, NEW node \in Nat
  PROVE  G!SetModes(vs, cmd, node) \in Tables
<1> DEFINE Latest(n) == G!LastFor(vs, n, LAMBDA v : G!FirstOf(G!SensorIndex(v.id)) = n)
           New(n) == IF Latest(n) = {} THEN SI[n]
                     ELSE LET v == vs[G!FirstOf(Latest(n))]
                          IN [SI[n] EXCEPT !.node = node, !.data.id = v.id, !.mode = cmd, !.time = G!LowOr(v.value, v.type)]
<1>1. G!SetModes(vs, cmd, node) = [n \in G!Places |-> New(n)]
  BY DEF G!SetModes
<1>2. ASSUME NEW n \in G!Places PROVE New(n) \in Held
  <2>1. Latest(n) \in SUBSET (1 .. l)
    BY DEF G!LastFor
  <2> HIDE DEF Latest
  <2>2. SI[n] \in Held
    BY DEF Tables
  <2>3. CASE Latest(n) = {}
    BY <2>2, <2>3
  <2>4. CASE Latest(n) # {}
    <3>1. G!FirstOf(Latest(n)) \in 1 .. l
      BY <2>1, <2>4, OneOf
    <3>2. PICK v \in Value16 : v = vs[G!FirstOf(Latest(n))]
      BY <3>1
    <3>3. v.id \in Nat /\ v.type \in Nat /\ v.value \in Nat
      BY DEF Value16, TwoBytes
    <3>4. PICK t \in Nat : t = G!LowOr(v.value, v.type)
      BY DEF G!LowOr
    <3>5. New(n) = [SI[n] EXCEPT !.node = node, !.data.id = v.id, !.mode = cmd, !.time = t]
      BY <2>4, <3>2, <3>4
    <3>6. PICK x \in Held : x = SI[n]
      BY <2>2
    <3>7. PICK d \in Value16 : d = [x.data EXCEPT !.id = v.id]
      BY <3>3 DEF Held, Value16
    <3>8. New(n) = [x EXCEPT !.node = node, !.data = d, !.mode = cmd, !.time = t]
      BY <3>5, <3>6, <3>7 DEF Held
    <3> QED
      BY <3>4, <3>8 DEF Held
  <2> QED
    BY <2>3, <2>4
<1> HIDE DEF New
<1> QED
  BY <1>1, <1>2 DEF Tables

\* Data replaces the values of sensors.
LEMMA SensorsSet ==
  ASSUME SI \in Tables, NEW l \in Nat, NEW vs \in [1 .. l -> Value16]
  PROVE  G!SetSensors(vs) \in Tables
<1> DEFINE Latest(n) == G!LastFor(vs, n, LAMBDA v : G!SensorIndex(v.id) # {} /\ G!FirstOf(G!SensorIndex(v.id)) = n)
           New(n) == IF Latest(n) = {} THEN SI[n] ELSE [SI[n] EXCEPT !.data = vs[G!FirstOf(Latest(n))]]
<1>1. G!SetSensors(vs) = [n \in G!Places |-> New(n)]
  BY DEF G!SetSensors
<1>2. ASSUME NEW n \in G!Places PROVE New(n) \in Held
  <2>1. Latest(n) \in SUBSET (1 .. l)
    BY DEF G!LastFor
  <2> HIDE DEF Latest
  <2>2. SI[n] \in Held
    BY DEF Tables
  <2>3. CASE Latest(n) = {}
    BY <2>2, <2>3
  <2>4. CASE Latest(n) # {}
    <3>1. G!FirstOf(Latest(n)) \in 1 .. l
      BY <2>1, <2>4, OneOf
    <3>2. PICK v \in Value16 : v = vs[G!FirstOf(Latest(n))]
      BY <3>1
    <3>3. New(n) = [SI[n] EXCEPT !.data = v]
      BY <2>4, <3>2
    <3> QED
      BY <2>2, <3>3 DEF Held
  <2> QED
    BY <2>3, <2>4
<1> HIDE DEF New
<1> QED
  BY <1>1, <1>2 DEF Tables

\* The invariant: the tables hold what packets can hold, and what was read from the connection are bytes.
\* Nothing is asked of the packets but that.
Read ==
  /\ head \in Nat /\ tail \in Nat
  /\ DOMAIN linkMain = {"pc", "idx", "packet"} /\ linkMain.idx \in Nat /\ linkMain.packet \in Seq(Byte)
  /\ linkMain.pc \in {"parse", "done"} => head < tail
  /\ \A k \in head .. tail - 1 : buf[k] \in Seq(Byte)
  /\ wire \in Seq(Seq(Byte))
TablesInv == SI \in Tables /\ AI \in Tables /\ status \in KeptStatus /\ Read

\* The main loop goes on somewhere in its entry.
LEMMA LoopReads ==
  ASSUME Read, head < tail, NEW i \in Nat, linkMain' = G!Loop(i)
  PROVE  /\ DOMAIN linkMain' = {"pc", "idx", "packet"} /\ linkMain'.idx \in Nat /\ linkMain'.packet \in Seq(Byte)
<1>1. PICK m \in Seq(Byte) : m = buf[head]
  <2>1. head \in head .. tail - 1
    BY DEF Read
  <2> QED
    BY <2>1 DEF Read
<1>2. i + 1 \in Nat \ {0} /\ Len(m) \in Int /\ Len(m) <= Len(m)
  OBVIOUS
<1>3. SubSeq(m, i + 1, Len(m)) \in Seq(Byte)
  BY <1>2, PartOf
<1> QED
  BY <1>1, <1>3 DEF G!Loop, G!Message

\* Parsing goes on behind the packet.
LEMMA AdvanceReads ==
  ASSUME Read, linkMain.pc = "parse", G!Advance
  PROVE  Read'
<1>1. G!Consumed(linkMain.packet) \in Nat
  BY PacketRead DEF Read
<1>2. PICK i \in Nat : i = linkMain.idx + G!Consumed(linkMain.packet)
  BY <1>1 DEF Read
<1>3. linkMain' = G!Loop(i) /\ UNCHANGED <<wire, buf, head, tail>>
  BY <1>2 DEF G!Advance, G!Content, G!link
<1>4. head < tail
  BY DEF Read
<1>5. DOMAIN linkMain' = {"pc", "idx", "packet"} /\ linkMain'.idx \in Nat /\ linkMain'.packet \in Seq(Byte)
  BY <1>3, <1>4, LoopReads
<1> QED
  BY <1>3, <1>4, <1>5 DEF Read

\* A read puts bytes behind those that wait.
LEMMA ReceiveReads ==
  ASSUME Read, G!Receive
  PROVE  Read'
<1>1. UNCHANGED <<head, linkMain>> /\ linkMain.pc \notin {"parse", "done"}
  BY DEF G!Receive, G!Locked
<1>2. PICK k \in 0 .. Len(wire) :
        \/ /\ G!Store(FlattenSeq(SubSeq(wire, 1, k)))
           /\ wire' = SubSeq(wire, k + 1, Len(wire))
        \/ /\ k < Len(wire)
           /\ \E n \in 1 .. (Len(wire[k + 1]) - 1) :
                /\ G!Store(FlattenSeq(SubSeq(wire, 1, k)) \o SubSeq(wire[k + 1], 1, n))
                /\ wire' = <<SubSeq(wire[k + 1], n + 1, Len(wire[k + 1]))>> \o SubSeq(wire, k + 2, Len(wire))
  BY DEF G!Receive, G!FlattenSeq, FlattenSeq
<1>3. PICK w \in Seq(Seq(Byte)), l \in Nat : w = wire /\ l = Len(w) /\ k \in 0 .. l
  BY <1>2 DEF Read
<1>4. PICK f \in Seq(Byte) : f = FlattenSeq(SubSeq(wire, 1, k))
  <2>1. 1 \in Nat \ {0} /\ k \in Int /\ k <= Len(w)
    BY <1>3
  <2>2. SubSeq(w, 1, k) \in Seq(Seq(Byte))
    BY <2>1, PartOf
  <2> QED
    BY <1>3, <2>2, FlattenType
<1>5. \E bytes \in Seq(Byte) : G!Store(bytes) /\ wire' \in Seq(Seq(Byte))
  <2>1. CASE G!Store(FlattenSeq(SubSeq(wire, 1, k))) /\ wire' = SubSeq(wire, k + 1, Len(wire))
    <3>1. k + 1 \in Nat \ {0} /\ Len(w) \in Int /\ Len(w) <= Len(w)
      BY <1>3
    <3>2. SubSeq(w, k + 1, Len(w)) \in Seq(Seq(Byte))
      BY <3>1, PartOf
    <3> QED
      BY <1>3, <1>4, <2>1, <3>2
  <2>2. CASE /\ k < Len(wire)
             /\ \E n \in 1 .. (Len(wire[k + 1]) - 1) :
                  /\ G!Store(FlattenSeq(SubSeq(wire, 1, k)) \o SubSeq(wire[k + 1], 1, n))
                  /\ wire' = <<SubSeq(wire[k + 1], n + 1, Len(wire[k + 1]))>> \o SubSeq(wire, k + 2, Len(wire))
    <3>1. PICK p \in Seq(Byte) : p = wire[k + 1]
      <4>1. k + 1 \in 1 .. l
        BY <1>3, <2>2
      <4> QED
        BY <1>3, <4>1
    <3>2. PICK n \in 1 .. (Len(p) - 1) :
            /\ G!Store(f \o SubSeq(p, 1, n))
            /\ wire' = <<SubSeq(p, n + 1, Len(p))>> \o SubSeq(w, k + 2, Len(w))
      BY <1>3, <1>4, <2>2, <3>1
    <3>3. SubSeq(p, 1, n) \in Seq(Byte) /\ SubSeq(p, n + 1, Len(p)) \in Seq(Byte)
      <4>1. 1 \in Nat \ {0} /\ n + 1 \in Nat \ {0} /\ n \in Int /\ n <= Len(p) /\ Len(p) \in Int /\ Len(p) <= Len(p)
        OBVIOUS
      <4> QED
        BY <4>1, PartOf
    <3>4. SubSeq(w, k + 2, Len(w)) \in Seq(Seq(Byte))
      <4>1. k + 2 \in Nat \ {0} /\ Len(w) \in Int /\ Len(w) <= Len(w)
        BY <1>3
      <4> QED
        BY <4>1, PartOf
    <3>5. f \o SubSeq(p, 1, n) \in Seq(Byte)
      BY <3>3, ConcatProperties
    <3>6. wire' \in Seq(Seq(Byte))
      <4>1. <<SubSeq(p, n + 1, Len(p))>> \in Seq(Seq(Byte))
        BY <3>3
      <4> QED
        BY <3>2, <3>4, <4>1, ConcatProperties
    <3> QED
      BY <3>2, <3>5, <3>6
  <2> QED
    BY <1>2, <2>1, <2>2
<1>6. PICK bytes \in Seq(Byte) :
        tail' = tail + 1 /\ buf' = [i \in 0 .. tail |-> IF i = tail THEN bytes ELSE buf[i]]
  BY <1>5 DEF G!Store
<1>7. \A i \in head' .. tail' - 1 : buf'[i] \in Seq(Byte)
  <2> TAKE i \in head' .. tail' - 1
  <2>1. i \in 0 .. tail /\ (i = tail \/ i \in head .. tail - 1)
    BY <1>1, <1>6 DEF Read
  <2> QED
    BY <1>6, <2>1 DEF Read
<1> QED
  BY <1>1, <1>5, <1>6, <1>7 DEF Read

\* So do the other steps that leave the tables alone.
LEMMA OthersRead ==
  ASSUME Outgoing \subseteq Seq(Byte), Read,
         \/ G!Send \/ G!ConnectionEnds \/ G!Reconnect \/ G!Take \/ G!Done \/ G!ParsingUndefined
  PROVE  Read'
<1>1. CASE G!Send
  <2>1. PICK p \in Seq(Byte) : wire' = Append(wire, p)
    BY <1>1 DEF G!Send
  <2>2. wire' \in Seq(Seq(Byte))
    BY <2>1 DEF Read
  <2>3. UNCHANGED <<buf, head, tail, linkMain>>
    BY <1>1 DEF G!Send
  <2> QED
    BY <2>2, <2>3 DEF Read
<1>2. CASE G!ConnectionEnds
  <2>1. wire' = <<>> /\ UNCHANGED <<buf, head, tail, linkMain>>
    BY <1>2 DEF G!ConnectionEnds
  <2>2. <<>> \in Seq(Seq(Byte))
    OBVIOUS
  <2> QED
    BY <2>1, <2>2 DEF Read
<1>3. CASE G!Reconnect \/ G!ParsingUndefined
  <2>1. /\ UNCHANGED <<wire, buf, head, tail>>
        /\ linkMain' = linkMain \/ linkMain' = [linkMain EXCEPT !.pc = "check"] \/ linkMain' = [linkMain EXCEPT !.pc = "undefined"]
    BY <1>3 DEF G!Reconnect, G!ParsingUndefined, G!link
  <2> QED
    BY <2>1 DEF Read
<1>4. CASE G!Take
  <2>1. /\ UNCHANGED <<wire, buf, head, tail>>
        /\ IF head < tail THEN linkMain' = G!Loop(0) ELSE linkMain' = G!Top
    BY <1>4 DEF G!Take, G!link
  <2>2. CASE head < tail
    <3>1. 0 \in Nat
      OBVIOUS
    <3>2. DOMAIN linkMain' = {"pc", "idx", "packet"} /\ linkMain'.idx \in Nat /\ linkMain'.packet \in Seq(Byte)
      BY <2>1, <2>2, <3>1, LoopReads
    <3> QED
      BY <2>1, <2>2, <3>2 DEF Read
  <2>3. CASE ~(head < tail)
    <3>1. /\ DOMAIN linkMain' = {"pc", "idx", "packet"} /\ linkMain'.idx = 0 /\ linkMain'.packet = <<>>
          /\ linkMain'.pc = "top"
      BY <2>1, <2>3 DEF G!Top
    <3>2. <<>> \in Seq(Byte)
      OBVIOUS
    <3> QED
      BY <2>1, <3>1, <3>2 DEF Read
  <2> QED
    BY <2>2, <2>3
<1>5. CASE G!Done
  <2>1. /\ UNCHANGED <<wire, buf>> /\ linkMain.pc = "done"
        /\ DOMAIN linkMain' = {"pc", "idx", "packet"} /\ linkMain'.idx = 0 /\ linkMain'.packet = <<>> /\ linkMain'.pc = "top"
        /\ IF head + 1 = tail THEN head' = 0 /\ tail' = 0 ELSE head' = head + 1 /\ tail' = tail
    BY <1>5 DEF G!Done, G!Top, G!link
  <2>2. <<>> \in Seq(Byte)
    OBVIOUS
  <2>3. head' \in Nat /\ tail' \in Nat /\ head' .. tail' - 1 \subseteq head .. tail - 1
    BY <2>1 DEF Read
  <2>4. \A k \in head' .. tail' - 1 : buf'[k] \in Seq(Byte)
    BY <2>1, <2>3 DEF Read
  <2>5. wire' \in Seq(Seq(Byte)) /\ linkMain'.idx \in Nat /\ linkMain'.packet \in Seq(Byte)
    BY <2>1, <2>2 DEF Read
  <2> QED
    BY <2>1, <2>3, <2>4, <2>5 DEF Read
<1> QED
  BY <1>1, <1>2, <1>3, <1>4, <1>5

\* A status that the main loop takes in lists no more sensors than a node may have, and is of a node.
LEMMA DefinedResponse ==
  ASSUME NEW p, G!Defined(p), G!ParsingPacket(p).type = 1, G!ParsingPacket(p).len > 0
  PROVE  G!Installed(G!GetSTATE1(p).st.node) /\ G!GetSTATE1(p).st.num <= Stride
<1> DEFINE h == G!ParsingPacket(p)
           cmd == G!RequestCommand(p)
           OfRequest == /\ G!Installed(h.node) \/ (h.node = G!NODE_ALL /\ cmd \notin {G!INIT} \union G!ModeSet)
                        /\ cmd \in {G!ACTUATOR_SET} \union G!ModeSet => h.len <= Stride
                        /\ cmd = G!ACTUATOR_SET => \A i \in 1 .. h.len : G!ActuatorIndex(G!Values(p, 10)[i]) # {}
                        /\ cmd \in G!ModeSet => \A i \in 1 .. h.len : G!SensorIndex(G!Values(p, 10)[i].id) # {}
           OfResponse == h.len > 0 => G!Installed(h.node) /\ G!Installed(G!GetSTATE1(p).st.node) /\ G!GetSTATE1(p).st.num <= Stride
           OfNotify == h.len > 0 => G!Installed(h.node)
           OfData == h.len <= Stride
<1>1. (CASE h.type = 0 -> OfRequest [] h.type = 1 -> OfResponse [] h.type = 3 -> OfNotify [] h.type = 4 -> OfData
         [] OTHER -> TRUE)
  BY DEF G!Defined, G!REQUEST, G!RESPONSE, G!NOTIFY, G!DATA
<1> HIDE DEF OfRequest, OfResponse, OfNotify, OfData
<1>2. OfResponse
  BY <1>1
<1> QED
  BY <1>2 DEF OfResponse

\* A status that was read replaces the state of its node, and the sensors it lists.
LEMMA ResponseKeepsTables ==
  ASSUME Sizes, TablesInv, G!ParsingResponse
  PROVE  SI' \in Tables /\ AI' \in Tables /\ status' \in KeptStatus
<1>1. PICK p \in Seq(Byte) : p = linkMain.packet
  BY DEF TablesInv, Read
<1>2. G!ParsingPacket(p).dev \in {0, 1} /\ G!ParsingPacket(p).node \in Nat
  BY PacketRead
<1>3. /\ G!Defined(p) /\ G!ParsingPacket(p).type = G!RESPONSE
      /\ IF G!ParsingPacket(p).len = 0 THEN UNCHANGED <<SI, AI, status>>
         ELSE LET h == G!ParsingPacket(p)
                  s == G!GetSTATE1(p)
                  read(tab) == [n \in G!Places |-> IF n \in (h.node * Stride) .. (h.node * Stride + s.st.num - 1)
                                                   THEN G!AtNode0(s.slots[n - h.node * Stride + 1]) ELSE tab[n]]
              IN /\ status' = [status EXCEPT ![h.dev][s.st.node] = s.st]
                 /\ IF h.dev = G!FCF_SENSOR THEN SI' = read(SI) /\ UNCHANGED AI ELSE AI' = read(AI) /\ UNCHANGED SI
  BY <1>1 DEF G!ParsingResponse, G!Parsing, G!H, G!Content
<1>4. CASE G!ParsingPacket(p).len = 0
  BY <1>3, <1>4 DEF TablesInv
<1>5. CASE G!ParsingPacket(p).len # 0
  <2>1. PICK h, s : h = G!ParsingPacket(p) /\ s = G!GetSTATE1(p)
    OBVIOUS
  <2>2. s.st.num <= Stride /\ G!Installed(s.st.node)
    <3>1. h.len > 0
      BY <1>5, <2>1, PacketRead
    <3>2. G!ParsingPacket(p).type = 1
      BY <1>3 DEF G!RESPONSE
    <3>3. G!ParsingPacket(p).len > 0 => G!Installed(G!GetSTATE1(p).st.node) /\ G!GetSTATE1(p).st.num <= Stride
      BY <1>3, <3>2, DefinedResponse
    <3> QED
      BY <2>1, <3>1, <3>3
  <2>3. s.st.num \in 0 .. 29 /\ s.st \in HeldState /\ s.slots \in [1 .. s.st.num -> Listed]
    <3>1. /\ s.st.num \in 0 .. 29 => s.st \in HeldState
          /\ s.st.num \in Nat /\ s.slots \in [1 .. s.st.num -> Listed]
      BY <2>1, StatusRead
    <3>2. PICK n \in Nat : n = s.st.num
      BY <3>1
    <3>3. PICK b \in Nat : b = Stride /\ b <= 8
      BY DEF Sizes
    <3>4. n <= 29
      BY <2>2, <3>2, <3>3
    <3>5. n \in 0 .. 29
      BY <3>4
    <3> QED
      BY <3>1, <3>2, <3>5
  <2>4. status' \in KeptStatus
    <3>1. status' = [status EXCEPT ![h.dev][s.st.node] = s.st]
      BY <1>3, <1>5, <2>1
    <3>2. PICK d \in {0, 1}, node \in 0 .. Nodes - 1, st \in HeldState : d = h.dev /\ node = s.st.node /\ st = s.st
      BY <1>2, <2>1, <2>2, <2>3 DEF G!Installed
    <3>3. status' = [status EXCEPT ![d][node] = st]
      BY <3>1, <3>2
    <3> QED
      BY <3>3 DEF TablesInv, KeptStatus
  <2> DEFINE Old(n) == n \in (h.node * Stride) .. (h.node * Stride + s.st.num - 1)
             Answered(tab) == [n \in G!Places |-> IF Old(n) THEN G!AtNode0(s.slots[n - h.node * Stride + 1]) ELSE tab[n]]
  <2>5. ASSUME NEW tab \in Tables PROVE Answered(tab) \in Tables
    <3>1. ASSUME NEW n \in G!Places, Old(n) PROVE G!AtNode0(s.slots[n - h.node * Stride + 1]) \in Held
      <4>1. PICK b \in Nat : b = h.node * Stride
        <5>1. PICK x \in Nat, y \in Nat : x = h.node /\ y = Stride
          BY <1>2, <2>1 DEF Sizes
        <5>2. x * y \in Nat
          OBVIOUS
        <5> QED
          BY <5>1, <5>2
      <4>2. PICK m \in 0 .. 29 : m = s.st.num
        BY <2>3
      <4>3. n \in b .. b + m - 1
        BY <3>1, <4>1, <4>2
      <4>4. n - b + 1 \in 1 .. m
        BY <4>3
      <4>5. PICK x \in Listed : x = s.slots[n - h.node * Stride + 1]
        BY <2>3, <4>1, <4>2, <4>4
      <4>6. G!AtNode0(x) \in Held
        BY DEF G!AtNode0, Listed, Held
      <4> QED
        BY <4>5, <4>6
    <3>2. ASSUME NEW n \in G!Places PROVE tab[n] \in Held
      BY DEF Tables
    <3> HIDE DEF Old
    <3> QED
      BY <3>1, <3>2 DEF Tables
  <2>6. \/ SI' = Answered(SI) /\ UNCHANGED AI
        \/ AI' = Answered(AI) /\ UNCHANGED SI
    BY <1>3, <1>5, <2>1
  <2> HIDE DEF Answered
  <2> QED
    BY <2>4, <2>5, <2>6 DEF TablesInv
<1> QED
  BY <1>4, <1>5

\* Whatever is parsed, the tables hold what packets can hold.
LEMMA ParseKeepsTables ==
  ASSUME Sizes, TablesInv, G!Parse
  PROVE  TablesInv'
<1>1. linkMain.pc = "parse" /\ G!Advance
  BY ParseAdvances
<1>2. Read'
  BY <1>1, AdvanceReads DEF TablesInv
<1>3. PICK p \in Seq(Byte), l \in Nat : p = linkMain.packet /\ l = G!ParsingPacket(p).len
  BY PacketRead DEF TablesInv, Read
<1>4. G!ParsingPacket(p).node \in Nat /\ \A i \in Nat : G!Values(p, i) \in [1 .. l -> Value16]
  BY <1>3, PacketRead
<1>5. SI' \in Tables /\ AI' \in Tables /\ status' \in KeptStatus
  <2>1. CASE G!ParsingRequest
    <3>1. /\ AI' = IF G!RequestCommand(p) = G!ACTUATOR_SET THEN G!SetActuators(G!Values(p, 10)) ELSE AI
          /\ SI' = IF G!RequestCommand(p) \in G!ModeSet
                     THEN G!SetModes(G!Values(p, 10), G!RequestCommand(p), G!ParsingPacket(p).node) ELSE SI
          /\ status' = status
      BY <1>3, <2>1 DEF G!ParsingRequest, G!H, G!Content
    <3>2. G!RequestCommand(p) \in G!ModeSet => G!RequestCommand(p) \in Nat
      BY DEF G!ModeSet, G!PASSIVE_MODE, G!ACTIVE_MODE, G!EVENT_MODE
    <3>3. G!Values(p, 10) \in [1 .. l -> Value16]
      <4>1. 10 \in Nat
        OBVIOUS
      <4> QED
        BY <1>4, <4>1
    <3>4. G!SetActuators(G!Values(p, 10)) \in Tables
      BY <3>3, ActuatorsSet DEF TablesInv
    <3>5. G!RequestCommand(p) \in G!ModeSet
            => G!SetModes(G!Values(p, 10), G!RequestCommand(p), G!ParsingPacket(p).node) \in Tables
      BY <1>4, <3>2, <3>3, ModesSet DEF TablesInv
    <3> QED
      BY <3>1, <3>4, <3>5 DEF TablesInv
  <2>2. CASE G!ParsingResponse
    BY <2>2, ResponseKeepsTables
  <2>3. CASE G!ParsingData
    <3>1. PICK vs \in [1 .. l -> Value16] :
            /\ \/ SI' = G!SetSensors(vs) /\ UNCHANGED AI
               \/ AI' = G!SetActuators(vs) /\ UNCHANGED SI
            /\ status' = status
      <4>1. /\ \/ SI' = G!SetSensors(G!Values(p, 9)) /\ UNCHANGED AI
               \/ AI' = G!SetActuators(G!Values(p, 9)) /\ UNCHANGED SI
            /\ status' = status
        BY <1>3, <2>3 DEF G!ParsingData, G!H, G!Content
      <4>2. 9 \in Nat
        OBVIOUS
      <4> QED
        BY <1>4, <4>1, <4>2
    <3>2. G!SetSensors(vs) \in Tables /\ G!SetActuators(vs) \in Tables
      BY SensorsSet, ActuatorsSet DEF TablesInv
    <3> QED
      BY <3>1, <3>2 DEF TablesInv
  <2>4. CASE G!ParsingConfirm \/ G!ParsingNotify \/ G!ParsingOther
    <3>1. UNCHANGED <<SI, AI, status>>
      BY <2>4 DEF G!ParsingConfirm, G!ParsingNotify, G!ParsingOther, G!tables
    <3> QED
      BY <3>1 DEF TablesInv, Tables, KeptStatus
  <2> QED
    BY <2>1, <2>2, <2>3, <2>4 DEF G!Parse
<1> QED
  BY <1>2, <1>5 DEF TablesInv, Tables, KeptStatus

\* At first every sensor and node is as the daemon starts it.
LEMMA TablesInitially ==
  ASSUME Sizes, G!Init
  PROVE  TablesInv
<1>1. \A n \in G!Places : G!Place(n) \in Held /\ n \in TwoBytes
  <2> TAKE n \in G!Places
  <2>1. PICK m \in Nat, k \in Nat : m = n /\ m < 64 /\ k = n \div Stride
    <3>1. PICK a \in 1 .. 8, b \in 1 .. 8 : a = Nodes /\ b = Stride
      BY DEF Sizes
    <3>2. a * b \in Nat /\ a * b <= 64
      <4>1. a = 1 \/ a = 2 \/ a = 3 \/ a = 4 \/ a = 5 \/ a = 6 \/ a = 7 \/ a = 8
        OBVIOUS
      <4> QED
        BY <4>1
    <3>3. n \in 0 .. a * b - 1
      BY <3>1, PlacesAre
    <3>4. n \div b \in Nat
      BY <3>2, <3>3
    <3> QED
      BY <3>1, <3>2, <3>3, <3>4
  <2>2. m \in TwoBytes /\ 0 \in TwoBytes
    BY <2>1 DEF TwoBytes
  <2>3. [id |-> m, type |-> 0, value |-> 0] \in Value16
    BY <2>2 DEF Value16
  <2>4. G!Place(n) = [node |-> k, data |-> [id |-> m, type |-> 0, value |-> 0],
                      state |-> 0, isinit |-> 1, mode |-> 0, time |-> 0]
    BY <2>1 DEF G!Place
  <2> QED
    BY <2>1, <2>2, <2>3, <2>4 DEF Held
<1>2. AI \in Tables
  BY <1>1 DEF G!Init, Tables
<1>3. SI \in Tables
  <2>1. ASSUME NEW n \in G!Places PROVE [G!Place(n) EXCEPT !.data.value = n, !.mode = G!PASSIVE_MODE, !.time = 60] \in Held
    <3>1. PICK x \in Held, m \in TwoBytes : x = G!Place(n) /\ m = n
      BY <1>1
    <3>2. PICK d \in Value16 : d = [x.data EXCEPT !.value = m]
      BY DEF Held, Value16
    <3>3. [x EXCEPT !.data.value = m, !.mode = 10, !.time = 60] = [x EXCEPT !.data = d, !.mode = 10, !.time = 60]
      BY <3>2 DEF Held
    <3>4. [x EXCEPT !.data = d, !.mode = 10, !.time = 60] \in Held
      BY DEF Held
    <3> QED
      BY <3>1, <3>3, <3>4 DEF G!PASSIVE_MODE
  <2> QED
    BY <2>1 DEF G!Init, Tables
<1>4. status \in KeptStatus
  <2>1. ASSUME NEW n \in 0 .. Nodes - 1 PROVE G!InitStatus(n) \in HeldState
    <3>1. n \in TwoBytes /\ 0 \in TwoBytes
      BY DEF TwoBytes, Sizes
    <3>2. Stride \in 0 .. 29
      BY DEF Sizes
    <3> QED
      BY <3>1, <3>2 DEF G!InitStatus, HeldState
  <2>2. status = [d \in {0, 1} |-> [n \in 0 .. Nodes - 1 |-> G!InitStatus(n)]]
    BY DEF G!Init, G!FCF_SENSOR, G!FCF_ACTUATOR
  <2> QED
    BY <2>1, <2>2 DEF KeptStatus
<1>5. Read
  <2>1. /\ wire = <<>> /\ head = 0 /\ tail = 0
        /\ linkMain.pc = "top" /\ linkMain.idx = 0 /\ linkMain.packet = <<>> /\ DOMAIN linkMain = {"pc", "idx", "packet"}
    BY DEF G!Init
  <2>2. <<>> \in Seq(Byte) /\ <<>> \in Seq(Seq(Byte)) /\ 0 .. 0 - 1 = {}
    OBVIOUS
  <2> QED
    BY <2>1, <2>2 DEF Read
<1> QED
  BY <1>2, <1>3, <1>4, <1>5 DEF TablesInv

\* The status of a node that TTA12daemon answers a request with gives the node and its sensors back to a
\* reader, whatever bytes the gateway sent before, torn or not: for as many nodes, and as many sensors of each,
\* as the daemon may have.
THEOREM StatusTold ==
  ASSUME Sizes, Outgoing \subseteq Seq(Byte)
  PROVE  G!Spec => []ReplyTellsStatus
<1>1. G!Init => TablesInv
  BY TablesInitially
<1>2. TablesInv /\ [G!Next]_G!vars => TablesInv'
  <2> SUFFICES ASSUME TablesInv, [G!Next]_G!vars PROVE TablesInv'
    OBVIOUS
  <2>1. CASE G!Parse
    BY <2>1, ParseKeepsTables
  <2>2. CASE \/ G!Send \/ G!ConnectionEnds \/ G!Reconnect \/ G!Take \/ G!Done \/ G!ParsingUndefined
    <3>1. Read'
      BY <2>2, OthersRead DEF TablesInv
    <3>2. UNCHANGED <<SI, AI, status>>
      BY <2>2 DEF G!Send, G!ConnectionEnds, G!Reconnect, G!Take, G!Done, G!ParsingUndefined, G!tables
    <3> QED
      BY <3>1, <3>2 DEF TablesInv, Tables, KeptStatus
  <2>3. CASE G!Receive
    <3>1. Read'
      BY <2>3, ReceiveReads DEF TablesInv
    <3>2. UNCHANGED <<SI, AI, status>>
      BY <2>3 DEF G!Receive, G!tables
    <3> QED
      BY <3>1, <3>2 DEF TablesInv, Tables, KeptStatus
  <2>4. CASE UNCHANGED G!vars
    BY <2>4 DEF G!vars, G!link, G!tables, TablesInv, Tables, KeptStatus, Read
  <2> QED
    BY <2>1, <2>2, <2>3, <2>4 DEF G!Next, G!Parse
<1>3. TablesInv => ReplyTellsStatus
  BY SameReply, ReplyRead DEF TablesInv
<1> QED
  BY <1>1, <1>2, <1>3, PTL DEF G!Spec
=============================================================================
