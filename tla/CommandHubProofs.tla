-------------------------- MODULE CommandHubProofs --------------------------
(***************************************************************************)
(* Proofs about CommandHub, for any devices and packets and any failures   *)
(* and restarts, with ticks between any two steps of the main loop: the    *)
(* animals of a feeder are told apart, only packets of the server change a *)
(* set point, and a key gets a second row only by the race of a tick with  *)
(* updateCMD.                                                              *)
(***************************************************************************)
EXTENDS CommandHub, FiniteSetTheorems, TLAPS

\* How many elements Run lists.
RunLength(p, i, n) == Cardinality(Run(p, i, n))

\* Before the i-th element of p: back is the number of the last element that had one, and
\* count is how many elements of that feeder came before, since another number.
AtElement(p, i, back, count) ==
  /\ i \in 1 .. Len(p.elems) + 1
  /\ \A a \in 1 .. (i - 1) : p.elems[a].no # NoId =>
       back # NoId /\ \E l \in a .. (i - 1) : p.elems[l].no = back
  /\ back # NoId => count = RunLength(p, i, back)

\* While the fields of the i-th element are handled it has been counted.
InElement(p, i, back, count, no) ==
  /\ i \in 1 .. Len(p.elems)
  /\ back = p.elems[i].no /\ back # NoId
  /\ count = RunLength(p, i, back) + (IF p.elems[i].type = "E" THEN 1 ELSE 0)
  /\ p.elems[i].type = "E" => no = <<back, RunLength(p, i, back)>>

Bus == {"new", "transfer", "free"}
Within == {"select", "exec"} \union Bus

MainTypes ==
  /\ main = [pc |-> main.pc, pkt |-> main.pkt, i |-> main.i, j |-> main.j, no |-> main.no,
             back |-> main.back, count |-> main.count, found |-> main.found]
  /\ main.pc \in {"idle", "element"} \union Within
  /\ main.pc # "idle" => main.pkt \in Packets
  /\ main.count \in Nat
  /\ main.pc \in Within => main.j \in Nat \ {0}

Counting ==
  /\ main.pc = "element" => AtElement(main.pkt, main.i, main.back, main.count)
  /\ main.pc \in Within => InElement(main.pkt, main.i, main.back, main.count, main.no)

\* Only a controller's element of the server takes the main loop to the bus.
OnTheBus == main.pc \in Bus => main.pkt.from = "server" /\ Elem.type = "C"

\* What is stored and transferred is a field of the element.
InField == main.pc \in {"exec"} \union Bus => main.j \in DOMAIN Elem.fields

MainInv == MainTypes /\ Counting /\ OnTheBus /\ InField

-----------------------------------------------------------------------------
(* Counting the elements of a feeder.                                      *)

\* Only so many elements stand before the i-th.
LEMMA RunFinite ==
  ASSUME NEW p, NEW i \in Nat, NEW n
  PROVE  IsFiniteSet(Run(p, i, n)) /\ RunLength(p, i, n) \in Nat
<1>1. IsFiniteSet(1 .. (i - 1)) /\ Run(p, i, n) \in SUBSET (1 .. (i - 1))
  BY FS_Interval DEF Run
<1>2. IsFiniteSet(Run(p, i, n))
  BY <1>1, FS_Subset
<1> QED
  BY <1>2, FS_CardinalityType DEF RunLength

\* An element of the feeder, or one without a number, adds itself if it is the feeder's.
LEMMA OneMoreElement ==
  ASSUME NEW p, NEW i \in Nat \ {0}, NEW n, p.elems[i].no \in {n, NoId}
  PROVE  /\ RunLength(p, i, n) \in Nat
         /\ p.elems[i].type = "E" /\ p.elems[i].no = n
              => RunLength(p, i + 1, n) = RunLength(p, i, n) + 1
         /\ ~ (p.elems[i].type = "E" /\ p.elems[i].no = n)
              => RunLength(p, i + 1, n) = RunLength(p, i, n)
<1> DEFINE In(a) == p.elems[a].type = "E" /\ p.elems[a].no = n
           Own(c) == p.elems[c].no \in {n, NoId}
<1>1. IsFiniteSet(Run(p, i, n)) /\ RunLength(p, i, n) \in Nat
  BY RunFinite
<1>2. /\ Run(p, i, n) = {a \in 1 .. (i - 1) : In(a) /\ \A c \in a .. (i - 1) : Own(c)}
      /\ Run(p, i + 1, n) = {a \in 1 .. (i + 1 - 1) : In(a) /\ \A c \in a .. (i + 1 - 1) : Own(c)}
  BY DEF Run
<1>3. Own(i)
  OBVIOUS
<1>4. In(i) <=> p.elems[i].type = "E" /\ p.elems[i].no = n
  OBVIOUS
<1> HIDE DEF In, Own
<1>5. 1 .. (i + 1 - 1) = 1 .. (i - 1) \union {i} /\ i \notin 1 .. (i - 1)
  OBVIOUS
<1>6. ASSUME NEW a \in 1 .. (i - 1)
      PROVE  (\A c \in a .. (i + 1 - 1) : Own(c)) <=> (\A c \in a .. (i - 1) : Own(c))
  <2>1. a .. (i + 1 - 1) = a .. (i - 1) \union {i}
    OBVIOUS
  <2> QED
    BY <1>3, <2>1
<1>7. \A c \in i .. (i + 1 - 1) : Own(c)
  <2>1. i .. (i + 1 - 1) = {i}
    OBVIOUS
  <2> QED
    BY <1>3, <2>1
<1>8. CASE In(i)
  <2>1. Run(p, i + 1, n) = Run(p, i, n) \union {i} /\ i \notin Run(p, i, n)
    BY <1>2, <1>5, <1>6, <1>7, <1>8
  <2> QED
    BY <1>1, <1>4, <1>8, <2>1, FS_AddElement DEF RunLength
<1>9. CASE ~In(i)
  <2>1. Run(p, i + 1, n) = Run(p, i, n)
    BY <1>2, <1>5, <1>6, <1>9
  <2> QED
    BY <1>1, <1>4, <1>9, <2>1 DEF RunLength
<1> QED
  BY <1>8, <1>9

\* Two elements of a feeder with no other number between them are counted apart.
LEMMA LaterCounted ==
  ASSUME NEW p, NEW i \in Nat, NEW a \in 1 .. (i - 1), NEW n,
         p.elems[a].type = "E", p.elems[a].no = n,
         \A c \in a .. i : p.elems[c].no \in {n, NoId}
  PROVE  RunLength(p, a, n) # RunLength(p, i, n)
<1>1. a \in Nat /\ a \in a .. (i - 1)
  OBVIOUS
<1>2. IsFiniteSet(Run(p, a, n)) /\ IsFiniteSet(Run(p, i, n)) /\ RunLength(p, a, n) \in Nat /\ RunLength(p, i, n) \in Nat
  BY <1>1, RunFinite
<1>3. a \notin Run(p, a, n)
  BY <1>1 DEF Run
<1>4. a \in Run(p, i, n)
  BY DEF Run
<1>5. Run(p, a, n) \subseteq Run(p, i, n)
  <2> SUFFICES ASSUME NEW b \in Run(p, a, n) PROVE b \in Run(p, i, n)
    OBVIOUS
  <2>1. /\ b \in 1 .. (a - 1) /\ p.elems[b].type = "E" /\ p.elems[b].no = n
        /\ \A c \in b .. (a - 1) : p.elems[c].no \in {n, NoId}
    BY DEF Run
  <2>2. b \in 1 .. (i - 1)
    BY <1>1, <2>1
  <2>3. ASSUME NEW c \in b .. (i - 1) PROVE c \in b .. (a - 1) \/ c \in a .. i
    BY <1>1, <2>1
  <2> QED
    BY <2>1, <2>2, <2>3 DEF Run
<1>6. /\ IsFiniteSet(Run(p, a, n) \union {a}) /\ Cardinality(Run(p, a, n) \union {a}) = RunLength(p, a, n) + 1
  BY <1>2, <1>3, FS_AddElement DEF RunLength
<1>7. Cardinality(Run(p, a, n) \union {a}) <= RunLength(p, i, n)
  <2>1. Run(p, a, n) \union {a} \in SUBSET Run(p, i, n)
    BY <1>4, <1>5
  <2> QED
    BY <1>2, <2>1, FS_Subset DEF RunLength
<1> QED
  BY <1>2, <1>6, <1>7

\* A packet begins with nothing counted.
LEMMA Begins ==
  ASSUME NEW p, Len(p.elems) \in Nat
  PROVE  AtElement(p, 1, NoId, 0)
BY DEF AtElement

\* An element without a number is passed over.
LEMMA Skips ==
  ASSUME NEW p, Len(p.elems) \in Nat, NEW i, NEW back, NEW count,
         AtElement(p, i, back, count), i <= Len(p.elems), p.elems[i].no = NoId
  PROVE  AtElement(p, i + 1, back, count)
<1>0. i \in 1 .. Len(p.elems) + 1
  BY Zenon DEF AtElement
<1>1. i \in Nat \ {0} /\ i + 1 \in 1 .. Len(p.elems) + 1 /\ 1 .. (i + 1 - 1) = 1 .. i
  BY <1>0
<1>2. ASSUME NEW a \in 1 .. (i + 1 - 1), p.elems[a].no # NoId
      PROVE  back # NoId /\ \E l \in a .. (i + 1 - 1) : p.elems[l].no = back
  <2>1. a \in 1 .. (i - 1)
    <3>1. a # i
      BY <1>2, Zenon
    <3> QED
      BY <1>1, <3>1
  <2>2. PICK l \in a .. (i - 1) : back # NoId /\ p.elems[l].no = back
    BY <1>2, <2>1 DEF AtElement
  <2>3. l \in a .. (i + 1 - 1)
    BY <1>1, <2>1, l \in a .. (i - 1)
  <2> QED
    BY <2>2, <2>3
<1>3. back # NoId => RunLength(p, i + 1, back) = RunLength(p, i, back)
  BY <1>1, OneMoreElement
<1> QED
  BY <1>1, <1>2, <1>3 DEF AtElement

\* An element whose number is not that of the last one is the first since another number; otherwise
\* it counts on.
LEMMA Enters ==
  ASSUME NEW p, Len(p.elems) \in Nat, DOMAIN p.elems = 1 .. Len(p.elems),
         NEW i, NEW back, NEW count \in Nat,
         AtElement(p, i, back, count), i <= Len(p.elems), p.elems[i].no # NoId,
         NEW n, n = IF p.elems[i].no = back THEN count ELSE 0,
         NEW later, later = IF p.elems[i].type = "E" THEN n + 1 ELSE n,
         NEW no, p.elems[i].type = "E" => no = <<p.elems[i].no, n>>
  PROVE  InElement(p, i, p.elems[i].no, later, no)
<1> DEFINE e == p.elems[i].no
<1>0. i \in 1 .. Len(p.elems) + 1
  BY Zenon DEF AtElement
<1>1. i \in Nat \ {0} /\ i \in 1 .. Len(p.elems)
  BY <1>0
<1>2. n = RunLength(p, i, e)
  <2>1. CASE e = back
    BY <2>1 DEF AtElement
  <2>2. CASE e # back
    <3>1. ASSUME NEW a \in Run(p, i, e)
          PROVE  FALSE
      <4>1. a \in 1 .. (i - 1) /\ p.elems[a].no = e /\ \A c \in a .. (i - 1) : p.elems[c].no \in {e, NoId}
        BY <3>1, Zenon DEF Run
      <4>2. PICK l \in a .. (i - 1) : back # NoId /\ p.elems[l].no = back
        BY <4>1 DEF AtElement
      <4> QED
        BY <2>2, <4>1, <4>2
    <3>2. Run(p, i, e) = {}
      BY <3>1
    <3>3. RunLength(p, i, e) = 0
      BY <3>2, FS_EmptySet DEF RunLength
    <3> QED
      BY <2>2, <3>3
  <2> QED
    BY <2>1, <2>2
<1>3. n \in Nat
  OBVIOUS
<1> HIDE DEF e
<1>4. /\ later = RunLength(p, i, e) + (IF p.elems[i].type = "E" THEN 1 ELSE 0)
      /\ p.elems[i].type = "E" => no = <<e, RunLength(p, i, e)>>
  BY <1>2, <1>3 DEF e
<1> QED
  BY <1>1, <1>4 DEF InElement, e

\* Behind an element that had a number it is the last one.
LEMMA Leaves ==
  ASSUME NEW p, Len(p.elems) \in Nat, NEW i, NEW back, NEW count \in Nat, NEW no,
         InElement(p, i, back, count, no)
  PROVE  AtElement(p, i + 1, back, count)
<1>0. i \in 1 .. Len(p.elems) /\ back = p.elems[i].no /\ back # NoId
  BY DEF InElement
<1>1. i \in Nat \ {0} /\ i + 1 \in 1 .. Len(p.elems) + 1 /\ i + 1 - 1 = i
  BY <1>0
<1>2. ASSUME NEW a \in 1 .. i
      PROVE  \E l \in a .. i : p.elems[l].no = back
  <2>1. i \in a .. i
    BY <1>1
  <2> QED
    BY <1>0, <2>1
<1>3. count = RunLength(p, i + 1, back)
  <2>1. RunLength(p, i, back) \in Nat
    BY <1>0, <1>1, OneMoreElement
  <2>2. CASE p.elems[i].type = "E"
    <3>1. count = RunLength(p, i, back) + 1
      BY <2>2 DEF InElement
    <3>2. RunLength(p, i + 1, back) = RunLength(p, i, back) + 1
      BY <1>0, <1>1, <2>2, OneMoreElement
    <3> QED
      BY <3>1, <3>2
  <2>3. CASE p.elems[i].type # "E"
    <3>1. count = RunLength(p, i, back)
      BY <2>1, <2>3 DEF InElement
    <3>2. RunLength(p, i + 1, back) = RunLength(p, i, back)
      BY <1>0, <1>1, <2>3, OneMoreElement
    <3> QED
      BY <3>1, <3>2
  <2> QED
    BY <2>2, <2>3
<1> QED
  BY <1>0, <1>1, <1>2, <1>3 DEF AtElement

-----------------------------------------------------------------------------
(* The main loop.                                                          *)

\* A packet's elements are a sequence.
LEMMA PacketElements ==
  ASSUME NEW p \in Packets
  PROVE  Len(p.elems) \in Nat /\ DOMAIN p.elems = 1 .. Len(p.elems)
<1> DEFINE T == [type : STRING, no : STRING,
                 fields : Seq([col : STRING, val : [digits : Nat, scale : Nat]])]
<1>1. p.elems \in Seq(T)
  BY CommandHubAssumption
<1> HIDE DEF T
<1> QED
  BY <1>1

\* So are the fields of each.
LEMMA PacketFields ==
  ASSUME NEW p \in Packets, NEW i \in DOMAIN p.elems
  PROVE  /\ Len(p.elems[i].fields) \in Nat /\ DOMAIN p.elems[i].fields = 1 .. Len(p.elems[i].fields)
         /\ \A j \in DOMAIN p.elems[i].fields :
              p.elems[i].fields[j].val.digits \in Nat /\ p.elems[i].fields[j].val.scale \in Nat
<1> DEFINE V == [digits : Nat, scale : Nat]
           F == [col : STRING, val : V]
           T == [type : STRING, no : STRING, fields : Seq(F)]
<1>1. p.elems \in Seq(T)
  BY CommandHubAssumption
<1>2. p.elems[i] \in T
  <2> HIDE DEF T
  <2> QED
    BY <1>1
<1>3. p.elems[i].fields \in Seq(F)
  BY <1>2
<1> HIDE DEF F
<1>4. \A j \in DOMAIN p.elems[i].fields : p.elems[i].fields[j] \in F
  BY <1>3
<1> QED
  BY <1>3, <1>4 DEF F

\* Steps that leave the main loop where it is.
LEMMA MainStays ==
  ASSUME MainInv, main' = main
  PROVE  MainInv'
BY DEF MainInv, MainTypes, Counting, OnTheBus, InField, Elem

\* The program starts again.
LEMMA RestartsMain ==
  ASSUME main' = Idle
  PROVE  MainInv'
BY DEF MainInv, MainTypes, Counting, OnTheBus, InField, Idle, Within, Bus

\* A packet is taken, or not.
LEMMA DispatchKeeps ==
  ASSUME MainInv, Dispatch
  PROVE  MainInv'
<1>1. PICK p \in Packets :
        main' = IF DeviceAdmits(p) \/ ServerAdmits(p) THEN Begin(p) ELSE Idle
  BY DEF Dispatch
<1>2. CASE main' = Idle
  BY <1>2, RestartsMain
<1>3. CASE main' = Begin(p)
  <2>1. main' = [pc |-> "element", pkt |-> p, i |-> 1, j |-> 0, no |-> <<>>, back |-> NoId,
                 count |-> 0, found |-> FALSE]
    BY <1>3 DEF Begin, Idle
  <2>2. AtElement(p, 1, NoId, 0)
    BY PacketElements, Begins
  <2> QED
    BY <2>1, <2>2 DEF MainInv, MainTypes, Counting, OnTheBus, InField, Within, Bus
<1> QED
  BY <1>1, <1>2, <1>3

\* An element is counted and numbered.
LEMMA ElementKeeps ==
  ASSUME MainInv, Element
  PROVE  MainInv'
<1> DEFINE p == main.pkt
           e == p.elems[main.i]
           n == IF e.no = main.back THEN main.count ELSE 0
<1>1. /\ main.pc = "element" /\ p \in Packets /\ main.count \in Nat
      /\ AtElement(p, main.i, main.back, main.count)
  BY DEF Element, MainInv, MainTypes, Counting
<1>2. Len(p.elems) \in Nat /\ DOMAIN p.elems = 1 .. Len(p.elems)
  BY <1>1, PacketElements
<1>3. main' = IF main.i > Len(p.elems) THEN Idle
              ELSE IF e.no = NoId THEN [main EXCEPT !.i = @ + 1]
              ELSE [Numbered(e) EXCEPT !.pc = "select", !.j = 1]
  BY DEF Element, Elem
<1>4. main.i \in Nat
  BY <1>1, <1>2 DEF AtElement
<1>5. CASE main.i > Len(p.elems)
  BY <1>3, <1>5, RestartsMain
<1>6. CASE main.i <= Len(p.elems) /\ e.no = NoId
  <2>1. main' = [main EXCEPT !.i = @ + 1]
    BY <1>2, <1>3, <1>4, <1>6
  <2>2. AtElement(p, main.i + 1, main.back, main.count)
    BY <1>1, <1>2, <1>6, Skips
  <2> QED
    BY <1>1, <2>1, <2>2 DEF MainInv, MainTypes, Counting, OnTheBus, InField, Within, Bus
<1>7. CASE main.i <= Len(p.elems) /\ e.no # NoId
  <2>1. main' = [Numbered(e) EXCEPT !.pc = "select", !.j = 1]
    BY <1>2, <1>3, <1>4, <1>7
  <2>2. PICK later, no :
          /\ later = IF e.type = "E" THEN n + 1 ELSE n
          /\ no = IF e.type = "E" THEN <<e.no, n>> ELSE <<e.no>>
    OBVIOUS
  <2>3. main' = [main EXCEPT !.pc = "select", !.j = 1, !.back = e.no, !.no = no, !.count = later]
    BY <2>1, <2>2 DEF Numbered, MainInv, MainTypes
  <2>4. InElement(p, main.i, e.no, later, no)
    BY <1>1, <1>2, <1>7, <2>2, Enters
  <2>5. later \in Nat
    BY <1>1, <2>2
  <2> HIDE DEF e, n
  <2>6. main' = [pc |-> "select", pkt |-> p, i |-> main.i, j |-> 1, no |-> no, back |-> e.no,
                 count |-> later, found |-> main.found]
    BY <2>3 DEF MainInv, MainTypes
  <2>7. MainTypes'
    BY <1>1, <2>5, <2>6 DEF MainTypes, Within
  <2>8. Counting'
    BY <2>4, <2>6 DEF Counting, Within, Bus
  <2>9. OnTheBus' /\ InField'
    BY <2>6 DEF OnTheBus, InField, Bus
  <2> QED
    BY <2>7, <2>8, <2>9 DEF MainInv
<1> QED
  BY <1>2, <1>4, <1>5, <1>6, <1>7

\* The main loop goes on to the next element, or to the next packet.
LEMMA NextElementKeeps ==
  ASSUME MainInv, NextElement
  PROVE  MainInv'
<1>1. /\ main.pc = "select" /\ main.pkt \in Packets /\ main.count \in Nat
      /\ InElement(main.pkt, main.i, main.back, main.count, main.no)
  BY DEF NextElement, MainInv, MainTypes, Counting, Within
<1>2. AtElement(main.pkt, main.i + 1, main.back, main.count)
  BY <1>1, PacketElements, Leaves
<1>3. main' = [main EXCEPT !.pc = "element", !.i = @ + 1]
  BY DEF NextElement
<1> QED
  BY <1>1, <1>2, <1>3 DEF MainInv, MainTypes, Counting, OnTheBus, InField, Within, Bus

\* Within an element only the place in the program, the field and what was found change.
LEMMA WithinKeeps ==
  ASSUME MainInv, main.pc \in Within, NEW pc \in Within, NEW j \in Nat \ {0}, NEW found,
         main' = [main EXCEPT !.pc = pc, !.j = j, !.found = found],
         pc \in Bus => main.pkt.from = "server" /\ Elem.type = "C",
         pc \in {"exec"} \union Bus => j \in DOMAIN Elem.fields
  PROVE  MainInv'
<1>1. /\ main' = [pc |-> pc, pkt |-> main.pkt, i |-> main.i, j |-> j, no |-> main.no,
                   back |-> main.back, count |-> main.count, found |-> found]
      /\ main.pkt \in Packets /\ main.count \in Nat
  BY DEF MainInv, MainTypes, Within, Bus
<1>2. InElement(main.pkt, main.i, main.back, main.count, main.no)
  BY DEF MainInv, Counting
<1>3. MainTypes'
  BY <1>1 DEF MainTypes
<1>4. Counting'
  BY <1>1, <1>2 DEF Counting, Within, Bus
<1>5. OnTheBus'
  BY <1>1 DEF OnTheBus, Elem
<1>6. InField'
  BY <1>1 DEF InField, Elem
<1> QED
  BY <1>3, <1>4, <1>5, <1>6 DEF MainInv

\* The fields of an element, stored and transferred.
LEMMA FieldsKeep ==
  ASSUME MainInv, Select \/ Exec \/ Exchange
  PROVE  MainInv'
<1>1. main.pc \in Within /\ main.j \in Nat \ {0}
  BY DEF Select, Exec, Exchange, OpenBus, Transfer, CloseBus, Within, Bus, MainInv, MainTypes
<1>2. main.pc \in Bus => main.pkt.from = "server" /\ Elem.type = "C"
  BY DEF MainInv, OnTheBus
<1>3. CASE Select
  <2>1. PICK f : main' = [main EXCEPT !.pc = "exec", !.j = main.j, !.found = f]
    BY <1>3 DEF Select, MainInv, MainTypes
  <2>2. main.j \in DOMAIN Elem.fields
    <3>1. main.pkt \in Packets /\ main.i \in DOMAIN main.pkt.elems
      <4>1. InElement(main.pkt, main.i, main.back, main.count, main.no)
        BY <1>1 DEF MainInv, Counting
      <4>2. main.pkt \in Packets
        BY <1>1 DEF MainInv, MainTypes, Within, Bus
      <4> QED
        BY <4>1, <4>2, PacketElements DEF InElement
    <3>2. main.j \in 1 .. Len(Elem.fields)
      BY <1>1, <1>3, <3>1, PacketFields DEF Select, Elem
    <3> QED
      BY <3>1, <3>2, PacketFields DEF Elem
  <2> QED
    BY <1>1, <2>1, <2>2, WithinKeeps DEF Within, Bus
<1>4. CASE main' = NextField
  <2>1. main' = [main EXCEPT !.pc = "select", !.j = main.j + 1, !.found = main.found]
    BY <1>4 DEF NextField, MainInv, MainTypes
  <2>2. main.j + 1 \in Nat \ {0}
    BY <1>1
  <2> QED
    BY <1>1, <2>1, <2>2, WithinKeeps DEF Within, Bus
<1>5. ASSUME NEW pc \in Bus, main' = [main EXCEPT !.pc = pc], main.pc \in {"exec"} \union Bus,
             main.pkt.from = "server", Elem.type = "C"
      PROVE  MainInv'
  <2>1. main' = [main EXCEPT !.pc = pc, !.j = main.j, !.found = main.found]
    BY <1>5 DEF MainInv, MainTypes
  <2>2. pc \in Within
    BY <1>5 DEF Within
  <2>3. pc \in Bus => main.pkt.from = "server" /\ Elem.type = "C"
    BY <1>5
  <2>4. pc \in {"exec"} \union Bus => main.j \in DOMAIN Elem.fields
    BY <1>5 DEF MainInv, InField
  <2> QED
    BY <1>1, <2>1, <2>2, <2>3, <2>4, WithinKeeps, Zenon
<1>6. CASE Exec
  BY <1>4, <1>5, <1>6 DEF Exec, Bus
<1>7. CASE OpenBus
  <2>1. main.pkt.from = "server" /\ Elem.type = "C" /\ main.pc \in {"exec"} \union Bus
    BY <1>2, <1>7 DEF OpenBus, Bus
  <2> QED
    BY <1>4, <1>5, <1>7, <2>1 DEF OpenBus, Bus
<1>8. CASE Transfer
  <2>1. main.pkt.from = "server" /\ Elem.type = "C" /\ main.pc \in {"exec"} \union Bus
    BY <1>2, <1>8 DEF Transfer, Bus
  <2> QED
    BY <1>5, <1>8, <2>1 DEF Transfer, Bus
<1>9. CASE CloseBus
  BY <1>4, <1>9 DEF CloseBus
<1> QED
  BY <1>3, <1>6, <1>7, <1>8, <1>9 DEF Exchange

\* What the main loop is at, for any packets, failures and restarts.
THEOREM MainInvariant == Spec => []MainInv
<1>1. Init => MainInv
  BY DEF Init, MainInv, MainTypes, Counting, OnTheBus, InField, Idle, Within, Bus
<1>2. MainInv /\ [Next]_vars => MainInv'
  <2> SUFFICES ASSUME MainInv, [Next]_vars PROVE MainInv'
    OBVIOUS
  <2>1. CASE Dispatch
    BY <2>1, DispatchKeeps
  <2>2. CASE DeviceElements \/ ServerElements
    BY <2>2, ElementKeeps, NextElementKeeps, FieldsKeep DEF DeviceElements, ServerElements
  <2>3. CASE Exchange
    BY <2>3, FieldsKeep
  <2>4. CASE Tick \/ PollStore \/ PollSearch
    BY <2>4, MainStays DEF Tick, PollStore, PollSearch
  <2>5. CASE Abort \/ Reboot
    BY <2>5, RestartsMain DEF Abort, Reboot, Restart
  <2>6. CASE UNCHANGED vars
    BY <2>6, MainStays DEF vars
  <2> QED
    BY <2>1, <2>2, <2>3, <2>4, <2>5, <2>6 DEF Next
<1> QED
  BY <1>1, <1>2, PTL DEF Spec

\* Whatever packets come, an animal of a feeder is stored under the number of those before it since
\* another number, and shares this number with an earlier one only across an element of another number.
THEOREM Apart == Spec => []AnimalsApart
<1>1. MainInv => AnimalsApart
  <2> SUFFICES ASSUME MainInv, main.pc \in {"select", "exec"}, Elem.type = "E"
               PROVE  /\ main.no = <<Elem.no, RunLength(main.pkt, main.i, Elem.no)>>
                      /\ \A a \in 1 .. (main.i - 1) :
                           /\ main.pkt.elems[a].type = "E" /\ main.pkt.elems[a].no = Elem.no
                           /\ main.no = <<Elem.no, RunLength(main.pkt, a, Elem.no)>>
                           => \E c \in a .. main.i : main.pkt.elems[c].no \notin {Elem.no, NoId}
    BY Zenon DEF AnimalsApart, RunLength
  <2>1. InElement(main.pkt, main.i, main.back, main.count, main.no) /\ main.pkt \in Packets
    BY DEF MainInv, MainTypes, Counting, Within
  <2>2. main.no = <<Elem.no, RunLength(main.pkt, main.i, Elem.no)>>
    BY <2>1 DEF InElement, Elem
  <2>3. main.i \in Nat
    BY <2>1, PacketElements DEF InElement
  <2>4. ASSUME NEW a \in 1 .. (main.i - 1), main.pkt.elems[a].type = "E", main.pkt.elems[a].no = Elem.no,
               main.no = <<Elem.no, RunLength(main.pkt, a, Elem.no)>>
        PROVE  \E c \in a .. main.i : main.pkt.elems[c].no \notin {Elem.no, NoId}
    <3>1. RunLength(main.pkt, a, Elem.no) = RunLength(main.pkt, main.i, Elem.no)
      BY <2>2, <2>4
    <3>2. ASSUME \A c \in a .. main.i : main.pkt.elems[c].no \in {Elem.no, NoId}
          PROVE  RunLength(main.pkt, a, Elem.no) # RunLength(main.pkt, main.i, Elem.no)
      <4>1. PICK p, i, n : p = main.pkt /\ i = main.i /\ n = Elem.no
        OBVIOUS
      <4>2. /\ i \in Nat /\ a \in 1 .. (i - 1) /\ p.elems[a].type = "E" /\ p.elems[a].no = n
            /\ \A c \in a .. i : p.elems[c].no \in {n, NoId}
        BY <2>3, <2>4, <3>2, <4>1, Zenon
      <4>3. RunLength(p, a, n) # RunLength(p, i, n)
        BY <4>2, LaterCounted, Z3
      <4> QED
        BY <4>1, <4>3, Zenon
    <3> QED
      BY <3>1, <3>2, Zenon
  <2> QED
    BY <2>2, <2>4
<1> QED
  BY <1>1, MainInvariant, PTL
-----------------------------------------------------------------------------
(* The set points.                                                         *)

Registers == reg = [c \in Controllers |-> reg[c]]

\* The main loop writes the set point of controller c for a packet of the server.
Writes(c) == /\ main.pc = "transfer" /\ main.pkt.from = "server" /\ Elem.type = "C"
             /\ Unit(Elem.no) \in {c, Everyone}
\* What a register holds of value v.
Holds(v, n) == /\ v.scale = 0 => n = ((10 * v.digits) \div 100) % Word
               /\ v.scale > 0 => n = v.digits % Word

\* ToRegister is what a register holds of a value.
LEMMA ToRegisterHolds ==
  ASSUME NEW digits \in Nat, NEW v, v.digits = digits, v.scale \in Nat
  PROVE  Holds(v, ToRegister(v))
<1>1. v.scale > 0 => ToRegister(v) = digits % Word
  BY DEF ToRegister
<1>2. v.scale = 0 => ToRegister(v) = (digits \div 10) % Word
  BY DEF ToRegister
<1>3. (10 * digits) \div 100 = digits \div 10
  OBVIOUS
<1> QED
  BY <1>1, <1>2, <1>3 DEF Holds

\* Only the controllers addressed get the value.
LEMMA TransferSets ==
  ASSUME MainInv, Registers, Transfer, NEW c \in Controllers, reg'[c] # reg[c]
  PROVE  Writes(c) /\ Holds(Field.val, reg'[c])
<1>1. main.pc = "transfer" /\ main.pkt.from = "server" /\ Elem.type = "C"
  BY DEF Transfer, MainInv, OnTheBus, Bus
<1>2. reg' = [d \in Controllers |-> IF d \in Addressed(Unit(Elem.no)) THEN ToRegister(Field.val) ELSE reg[d]]
  BY Zenon DEF Transfer
<1>3. c \in Addressed(Unit(Elem.no)) /\ reg'[c] = ToRegister(Field.val)
  BY <1>2, Zenon
<1>4. Writes(c)
  BY <1>1, <1>3 DEF Writes, Addressed
<1>5. main.pkt \in Packets /\ main.i \in DOMAIN main.pkt.elems /\ main.j \in DOMAIN Elem.fields
  <2>1. main.pkt \in Packets /\ main.j \in DOMAIN Elem.fields
    BY <1>1 DEF MainInv, MainTypes, Within, Bus, InField
  <2>2. InElement(main.pkt, main.i, main.back, main.count, main.no)
    BY <1>1 DEF MainInv, Counting, Within, Bus
  <2> QED
    BY <2>1, <2>2, PacketElements DEF InElement
<1>6. Field.val.digits \in Nat /\ Field.val.scale \in Nat
  BY <1>5, PacketFields, Zenon DEF Field, Elem
<1>7. Holds(Field.val, reg'[c])
  BY <1>3, <1>6, ToRegisterHolds, Zenon
<1> QED
  BY <1>4, <1>7

\* Nothing but the transfer writes a controller.
LEMMA OnlyTransfer ==
  ASSUME [Next]_vars
  PROVE  Transfer \/ reg' = reg
<1>1. DeviceElements \/ ServerElements => reg' = reg
  BY Zenon DEF DeviceElements, ServerElements, Element, NextElement, Select, Exec
<1>2. Dispatch \/ Tick \/ PollStore \/ PollSearch \/ Abort \/ Reboot \/ UNCHANGED vars => reg' = reg
  BY Zenon DEF Dispatch, Tick, PollStore, PollSearch, Abort, Reboot, vars
<1>3. Exchange => Transfer \/ reg' = reg
  BY Zenon DEF Exchange, OpenBus, CloseBus
<1> QED
  BY <1>1, <1>2, <1>3, Zenon DEF Next

\* Whatever devices answer and whenever the tick interrupts, only a packet of the server with the
\* controller's number, or with none, changes its set point, and to what its text is made into.
THEOREM ByServer == Spec => SetPointByServer
<1>1. Init => Registers
  BY DEF Init, Registers
<1>2. Registers /\ [Next]_vars => Registers'
  <2>1. Registers /\ Transfer => Registers'
    BY DEF Transfer, Registers
  <2>2. Registers /\ reg' = reg => Registers'
    BY DEF Registers
  <2> QED
    BY <2>1, <2>2, OnlyTransfer, Zenon
<1>3. MainInv /\ Registers /\ [Next]_vars =>
        \A c \in Controllers : reg'[c] # reg[c] => Writes(c) /\ Holds(Field.val, reg'[c])
  BY OnlyTransfer, TransferSets, Zenon
<1>4. MainInv /\ Registers /\ [Next]_vars =>
        [\A c \in Controllers : reg'[c] # reg[c] =>
           /\ main.pc = "transfer" /\ main.pkt.from = "server" /\ Elem.type = "C" /\ Unit(Elem.no) \in {c, Everyone}
           /\ Field.val.scale = 0 => reg'[c] = ((10 * Field.val.digits) \div 100) % Word
           /\ Field.val.scale > 0 => reg'[c] = Field.val.digits % Word]_vars
  BY <1>3, Zenon DEF Writes, Holds
<1> QED
  BY <1>1, <1>2, <1>4, MainInvariant, PTL DEF Spec, SetPointByServer

-----------------------------------------------------------------------------
(* The table.                                                              *)

\* A table, and how many of its rows have key k.
IsTable(t) == \E S : t \in Seq(S)
RowsIn(t, k) == Cardinality({i \in DOMAIN t : t[i].key = k})

\* A table with row r changed or added.
Rewritten(t, k, v) == [i \in DOMAIN t |-> IF t[i].key = k THEN [key |-> k, val |-> v] ELSE t[i]]

\* An update keeps the number of rows of every key.
LEMMA RewrittenRows ==
  ASSUME NEW t, IsTable(t), NEW k, NEW v
  PROVE  IsTable(Rewritten(t, k, v)) /\ \A r : RowsIn(Rewritten(t, k, v), r) = RowsIn(t, r)
<1> DEFINE new == Rewritten(t, k, v)
<1>1. DOMAIN t = 1 .. Len(t) /\ Len(t) \in Nat
  BY DEF IsTable
<1>2. DOMAIN new = DOMAIN t /\ \A i \in DOMAIN t : new[i].key = t[i].key
  BY DEF Rewritten
<1>3. new \in Seq({new[i] : i \in DOMAIN new})
  <2>1. new = [i \in 1 .. Len(t) |-> new[i]]
    BY <1>1 DEF Rewritten
  <2> HIDE DEF new
  <2> QED
    BY <1>1, <1>2, <2>1
<1> HIDE DEF new
<1>4. ASSUME NEW r PROVE RowsIn(new, r) = RowsIn(t, r)
  <2>1. {i \in DOMAIN new : new[i].key = r} = {i \in DOMAIN t : t[i].key = r}
    BY <1>2
  <2> QED
    BY <2>1 DEF RowsIn
<1> QED
  BY <1>3, <1>4 DEF IsTable, new

\* An insert adds one to the rows of its key and none to others.
LEMMA AppendedRows ==
  ASSUME NEW t, IsTable(t), NEW k, NEW v
  PROVE  /\ IsTable(Append(t, [key |-> k, val |-> v]))
         /\ \A r : r # k => RowsIn(Append(t, [key |-> k, val |-> v]), r) = RowsIn(t, r)
<1> DEFINE row == [key |-> k, val |-> v]
           new == Append(t, row)
<1>1. row.key = k
  OBVIOUS
<1> HIDE DEF row
<1>2. PICK S : t \in Seq(S)
  BY DEF IsTable
<1>3. t \in Seq(S \union {row}) /\ new \in Seq(S \union {row})
  BY <1>2
<1>4. /\ DOMAIN t = 1 .. Len(t) /\ Len(t) \in Nat /\ DOMAIN new = 1 .. Len(t) + 1
      /\ new[Len(t) + 1] = row /\ \A i \in 1 .. Len(t) : new[i] = t[i]
  BY <1>2, <1>3
<1> HIDE DEF new
<1>5. ASSUME NEW r, r # k PROVE RowsIn(new, r) = RowsIn(t, r)
  <2>1. {i \in DOMAIN new : new[i].key = r} = {i \in DOMAIN t : t[i].key = r}
    BY <1>1, <1>4, <1>5
  <2> QED
    BY <2>1 DEF RowsIn
<1> QED
  BY <1>3, <1>5 DEF IsTable, new, row

\* A key that no row has, has none.
LEMMA NotFound ==
  ASSUME NEW k, ~Found(k)
  PROVE  Rows(k) = 0
<1>1. {i \in DOMAIN table : table[i].key = k} = {}
  BY DEF Found
<1> QED
  BY <1>1, FS_EmptySet DEF Rows

\* A write adds a row to no key but its own, and to that only if it took it for new.
LEMMA WriteRows ==
  ASSUME IsTable(table), NEW k, NEW v, NEW found, table' = Write(k, v, found)
  PROVE  /\ IsTable(table')
         /\ \A r : Rows(r)' = Rows(r) \/ (r = k /\ ~found)
<1>1. \/ table' = Rewritten(table, k, v)
      \/ ~found /\ table' = Append(table, [key |-> k, val |-> v])
  BY Zenon DEF Write, Rewritten
<1>2. ASSUME NEW r PROVE Rows(r) = RowsIn(table, r) /\ Rows(r)' = RowsIn(table', r)
  BY DEF Rows, RowsIn
<1>3. CASE table' = Rewritten(table, k, v)
  BY <1>2, <1>3, RewrittenRows
<1>4. CASE ~found /\ table' = Append(table, [key |-> k, val |-> v])
  BY <1>2, <1>4, AppendedRows
<1> QED
  BY <1>1, <1>3, <1>4

\* The second statement of the main loop's updateCMD.
LEMMA ExecRows ==
  ASSUME IsTable(table), Exec
  PROVE  /\ IsTable(table')
         /\ \A r : Rows(r)' = Rows(r) \/ (main.pc = "exec" /\ ~main.found /\ MainKey = r)
<1>1. main.pc = "exec" /\ table' = Write(MainKey, Field.val, main.found)
  BY DEF Exec
<1> QED
  BY <1>1, WriteRows, Zenon

\* A tick looks and inserts in one go.
LEMMA TickRows ==
  ASSUME IsTable(table), PollStore \/ PollSearch
  PROVE  IsTable(table') /\ \A r : Rows(r)' = Rows(r) \/ Rows(r) = 0
<1>1. ASSUME NEW k, NEW v, table' = UpdateCMD(k, v)
      PROVE  IsTable(table') /\ \A r : Rows(r)' = Rows(r) \/ Rows(r) = 0
  <2>1. PICK f : f = Found(k)
    OBVIOUS
  <2>2. table' = Write(k, v, f)
    BY <1>1, <2>1, Zenon DEF UpdateCMD
  <2>3. IsTable(table') /\ \A r : Rows(r)' = Rows(r) \/ (r = k /\ ~Found(k))
    BY <2>1, <2>2, WriteRows, Zenon
  <2> QED
    BY <2>3, NotFound
<1>2. CASE PollStore
  BY <1>1, <1>2 DEF PollStore
<1>3. CASE table' = table
  BY <1>3 DEF Rows
<1>4. ASSUME NEW k, table' = SearchICTval(k)
      PROVE  IsTable(table') /\ \A r : Rows(r)' = Rows(r) \/ Rows(r) = 0
  <2>1. table' = table \/ (~Found(k) /\ table' = Append(table, [key |-> k, val |-> Zero]))
    BY <1>4 DEF SearchICTval
  <2>2. CASE ~Found(k) /\ table' = Append(table, [key |-> k, val |-> Zero])
    <3>1. IsTable(table') /\ \A r : r # k => RowsIn(table', r) = RowsIn(table, r)
      BY <2>2, AppendedRows
    <3>2. Rows(k) = 0
      BY <2>2, NotFound
    <3> QED
      BY <3>1, <3>2 DEF Rows, RowsIn
  <2> QED
    BY <1>3, <2>1, <2>2
<1>5. CASE PollSearch
  BY <1>3, <1>4, <1>5 DEF PollSearch
<1> QED
  BY <1>2, <1>5

\* The values of a sequence are finitely many.
LEMMA FiniteRange ==
  ASSUME NEW n \in Nat, NEW f, f = [i \in 1 .. n |-> f[i]]
  PROVE  IsFiniteSet({f[i] : i \in 1 .. n})
<1> DEFINE T == {f[i] : i \in 1 .. n}
<1>1. f \in [1 .. n -> T]
  OBVIOUS
<1>2. \A t \in T : \E i \in 1 .. n : f[i] = t
  OBVIOUS
<1> HIDE DEF T
<1>3. f \in Surjection(1 .. n, T)
  BY <1>1, <1>2 DEF Surjection
<1>4. IsFiniteSet(1 .. n)
  BY FS_Interval
<1> QED
  BY <1>3, <1>4, FS_Surjection, Zenon DEF T

\* The rows of an earlier version are finitely many.
LEMMA SeededFinite == IsFiniteSet(Seeded)
<1>1. ASSUME NEW d \in DOMAIN Devices PROVE IsFiniteSet(Columns(d))
  <2> DEFINE cmds == Commands[Devices[d].type]
             f == [c \in 1 .. Len(cmds) |-> Key(Devices[d].type, <<Devices[d].no>>, cmds[c])]
  <2>1. cmds \in Seq(STRING)
    BY CommandHubAssumption
  <2>2. Len(cmds) \in Nat /\ DOMAIN cmds = 1 .. Len(cmds)
    BY <2>1
  <2>3. Columns(d) = {f[c] : c \in 1 .. Len(cmds)}
    BY <2>2, Zenon DEF Columns
  <2>4. f = [c \in 1 .. Len(cmds) |-> f[c]]
    BY Zenon
  <2> HIDE DEF cmds, f
  <2> QED
    BY <2>2, <2>3, <2>4, FiniteRange, Zenon
<1>2. IsFiniteSet({Columns(d) : d \in DOMAIN Devices})
  <2> DEFINE g == [d \in 1 .. Len(Devices) |-> Columns(d)]
  <2>1. Len(Devices) \in Nat /\ DOMAIN Devices = 1 .. Len(Devices)
    BY CommandHubAssumption
  <2>2. {Columns(d) : d \in DOMAIN Devices} = {g[d] : d \in 1 .. Len(Devices)}
    BY <2>1, Zenon
  <2>3. g = [d \in 1 .. Len(Devices) |-> g[d]]
    BY Zenon
  <2> QED
    BY <2>1, <2>2, <2>3, FiniteRange, Zenon
<1> QED
  BY <1>1, <1>2, FS_UNION DEF Seeded

\* A key has some number of rows.
LEMMA RowsCounted ==
  ASSUME IsTable(table), NEW r
  PROVE  Rows(r) \in Nat
<1> DEFINE rows == {i \in DOMAIN table : table[i].key = r}
<1>1. rows \subseteq 1 .. Len(table) /\ Len(table) \in Nat
  BY DEF IsTable
<1> HIDE DEF rows
<1>2. IsFiniteSet(rows)
  <2>1. IsFiniteSet(1 .. Len(table))
    BY <1>1, FS_Interval
  <2> QED
    BY <1>1, <2>1, FS_Subset, Zenon
<1> QED
  BY <1>2, FS_CardinalityType DEF Rows, rows

\* The other steps write no row.
LEMMA OnlyWriters ==
  ASSUME [Next]_vars
  PROVE  Exec \/ PollStore \/ PollSearch \/ table' = table
<1>1. DeviceElements \/ ServerElements => Exec \/ table' = table
  BY Zenon DEF DeviceElements, ServerElements, Element, NextElement, Select
<1>2. Dispatch \/ Tick \/ Abort \/ Reboot \/ UNCHANGED vars => table' = table
  BY Zenon DEF Dispatch, Tick, Abort, Reboot, vars
<1>3. Exchange => table' = table
  BY Zenon DEF Exchange, OpenBus, Transfer, CloseBus
<1> QED
  BY <1>1, <1>2, <1>3, Zenon DEF Next

\* Rows whose number grew where there was one already.
LEMMA SecondRow ==
  ASSUME IsTable(table), [Next]_vars, NEW r, Rows(r)' > Rows(r), Rows(r) > 0
  PROVE  main.pc = "exec" /\ ~main.found /\ MainKey = r
<1>1. Rows(r)' # Rows(r)
  <2>1. Rows(r) \in Nat
    BY RowsCounted
  <2> QED
    BY <2>1
<1>2. Rows(r) # 0
  OBVIOUS
<1>3. CASE Exec
  BY <1>1, <1>3, ExecRows, Zenon
<1>4. CASE PollStore \/ PollSearch
  BY <1>1, <1>2, <1>4, TickRows, Zenon
<1>5. CASE table' = table
  BY <1>1, <1>5 DEF Rows
<1> QED
  BY <1>3, <1>4, <1>5, OnlyWriters, Zenon

\* Whatever is stored, read and repeated, a key that has a row gets another one only when a tick
\* came between the two statements of the main loop's updateCMD.
THEOREM OnlyByRace == Spec => SecondRowOnlyByRace
<1>1. Init => IsTable(table)
  <2> SUFFICES ASSUME NEW rows \in {{}, Seeded}, NEW order,
                      table = [i \in 1 .. Cardinality(rows) |-> [key |-> order[i], val |-> Zero]]
               PROVE  IsTable(table)
    BY DEF Init
  <2>1. Cardinality(rows) \in Nat
    BY SeededFinite, FS_EmptySet, FS_CardinalityType
  <2>2. table \in Seq({table[i] : i \in 1 .. Cardinality(rows)})
    BY <2>1
  <2> QED
    BY <2>2 DEF IsTable
<1>2. IsTable(table) /\ [Next]_vars => IsTable(table)'
  <2> SUFFICES ASSUME IsTable(table), [Next]_vars PROVE IsTable(table')
    OBVIOUS
  <2> QED
    BY OnlyWriters, ExecRows, TickRows, Zenon
<1>3. IsTable(table) /\ [Next]_vars =>
        [\A r \in {table'[i].key : i \in DOMAIN table'} :
           Rows(r)' > Rows(r) /\ Rows(r) > 0 => main.pc = "exec" /\ ~main.found /\ MainKey = r]_vars
  BY SecondRow, Zenon
<1> QED
  BY <1>1, <1>2, <1>3, PTL DEF Spec, SecondRowOnlyByRace
=============================================================================
