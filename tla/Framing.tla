------------------------------ MODULE Framing ------------------------------
(***************************************************************************)
(* How a Read_Thread of jsonode (tcpman.cpp) cuts the byte stream of one   *)
(* connection into JSON objects: it counts braces and queues the buffer    *)
(* when the counts meet.  TCP delivers the bytes in order but cuts them    *)
(* into reads as it likes.  Each read is scanned with cmd_mutex held; the  *)
(* queue behind TCPP_RxQuePush is module PacketQueue.                      *)
(***************************************************************************)
EXTENDS Integers, SequencesExt

CONSTANTS
  Object,      (* the JSON objects a peer may send, as bytes              *)
  Junk,        (* what else it may send between objects                   *)
  BufSize,     (* BUF_SIZE, the size of the reassembly buffer             *)
  MaxObjects,  (* bound: objects sent                                     *)
  MaxUnread    (* bound: bytes under way after junk is sent               *)

OPEN == "{"
CLOSE == "}"
CH == "x"       \* any other byte of an object
BLANK == "tab"  \* 0x09, 0x0d, 0x0a
Byte == {OPEN, CLOSE, CH, BLANK}

ASSUME FramingAssumption ==
  /\ Object \subseteq Seq(Byte)
  /\ Junk \subseteq Seq(Byte)
  /\ \A s \in Object \union Junk : s # <<>>
  /\ BufSize \in Nat /\ BufSize >= 3
  /\ MaxObjects \in Nat
  /\ MaxUnread \in Nat

VARIABLES
  wire,        (* the bytes sent and not read                             *)
  msg,         (* the rest of the chunk read() returned                   *)
  nData,       (* TCPStreamingBuffer.nData[0 .. dicnt]                    *)
  ocnt, ccnt,  (* opening and closing braces counted since the reset      *)
  pushed,      (* history: the packets handed to TCPP_RxQuePush           *)
  sent,        (* history: the objects sent                               *)
  clean        (* history: no CH junk sent, nothing but blanks dropped    *)

buffer == <<nData, ocnt, ccnt>>
vars == <<wire, msg, buffer, pushed, sent, clean>>

Init ==
  /\ wire = <<>>
  /\ msg = <<>>
  /\ nData = <<>>
  /\ ocnt = 0
  /\ ccnt = 0
  /\ pushed = <<>>
  /\ sent = <<>>
  /\ clean = TRUE

-----------------------------------------------------------------------------
(* The peer and TCP.                                                       *)

SendObject(o) ==
  /\ Len(sent) < MaxObjects
  /\ sent' = Append(sent, o)
  /\ wire' = wire \o o
  /\ UNCHANGED <<msg, buffer, pushed, clean>>

SendJunk(s) ==
  /\ Len(wire) + Len(s) <= MaxUnread
  /\ wire' = wire \o s
  /\ clean' = (clean /\ CH \notin ToSet(s))
  /\ UNCHANGED <<msg, buffer, pushed, sent>>

\* read() returns at least one of the bytes under way: TCP keeps no boundaries.
Read ==
  /\ msg = <<>>
  /\ \E k \in 1 .. Len(wire) :
       /\ msg' = SubSeq(wire, 1, k)
       /\ wire' = SubSeq(wire, k + 1, Len(wire))
  /\ UNCHANGED <<buffer, pushed, sent, clean>>

-----------------------------------------------------------------------------
(* The loop over the bytes of a chunk.                                     *)

\* The buffer after b is stored: once full, the last byte is overwritten.
Stored(b) == IF Len(nData) < BufSize - 1
             THEN Append(nData, b)
             ELSE [nData EXCEPT ![BufSize - 1] = b]
Opened(b) == ocnt + (IF b = OPEN THEN 1 ELSE 0)
Closed(b) == ccnt + (IF b = CLOSE THEN 1 ELSE 0)

\* Mistakes: the buffer, or the count of closing braces, is not reset.
ResetCounts == UNCHANGED nData /\ ocnt' = 0 /\ ccnt' = 0
ResetOpened == nData' = <<>> /\ ocnt' = 0 /\ UNCHANGED ccnt

Reset == nData' = <<>> /\ ocnt' = 0 /\ ccnt' = 0

\* break: the rest of the chunk is not looked at.
Break ==
  /\ msg' = <<>>
  /\ clean' = (clean /\ ToSet(Tail(msg)) \subseteq {BLANK})

Skip ==
  /\ msg # <<>>
  /\ Head(msg) = BLANK
  /\ msg' = Tail(msg)
  /\ UNCHANGED <<wire, buffer, pushed, sent, clean>>

\* Mistake: an object needs a nested one.
BalancedNested(b) == Opened(b) = Closed(b) /\ Opened(b) > 1

Balanced(b) == Opened(b) = Closed(b) /\ Opened(b) > 0

Store ==
  /\ msg # <<>>
  /\ LET b == Head(msg)
     IN /\ b # BLANK
        /\ ~Balanced(b)
        /\ Opened(b) >= Closed(b)
        /\ nData' = Stored(b)
        /\ ocnt' = Opened(b)
        /\ ccnt' = Closed(b)
  /\ msg' = Tail(msg)
  /\ UNCHANGED <<wire, pushed, sent, clean>>

\* Mistake: the first byte is not looked at.
PushAnything ==
  /\ msg # <<>>
  /\ Head(msg) # BLANK
  /\ Balanced(Head(msg))
  /\ pushed' = Append(pushed, Stored(Head(msg)))
  /\ Reset
  /\ Break
  /\ UNCHANGED <<wire, sent>>

Push ==
  /\ msg # <<>>
  /\ Head(msg) # BLANK
  /\ Balanced(Head(msg))
  /\ Stored(Head(msg))[1] = OPEN
  /\ pushed' = Append(pushed, Stored(Head(msg)))
  /\ Reset
  /\ Break
  /\ UNCHANGED <<wire, sent>>

\* "not push": the braces match but the buffer begins with something else.
NotPush ==
  /\ msg # <<>>
  /\ LET b == Head(msg)
     IN /\ b # BLANK
        /\ Balanced(b)
        /\ Stored(b)[1] # OPEN
        /\ nData' = Stored(b)
        /\ ocnt' = Opened(b)
        /\ ccnt' = Closed(b)
  /\ Break
  /\ UNCHANGED <<wire, pushed, sent>>

\* "packet error": one closing brace too many.
PacketError ==
  /\ msg # <<>>
  /\ Head(msg) # BLANK
  /\ Opened(Head(msg)) < Closed(Head(msg))
  /\ Reset
  /\ Break
  /\ UNCHANGED <<wire, pushed, sent>>

-----------------------------------------------------------------------------
Scan == Skip \/ Store \/ Push \/ NotPush \/ PacketError

Next ==
  \/ \E o \in Object : SendObject(o)
  \/ \E s \in Junk : SendJunk(s)
  \/ Read
  \/ Scan

Spec == Init /\ [][Next]_vars

\* The thread keeps reading and scans what it has read.
FairSpec == Spec /\ WF_vars(Read) /\ WF_vars(Scan)

-----------------------------------------------------------------------------
\* The buffer, the counts and the histories have their types.
TypeOK ==
  /\ wire \in Seq(Byte)
  /\ msg \in Seq(Byte)
  /\ nData \in Seq(Byte \ {BLANK}) /\ Len(nData) <= BufSize - 1
  /\ ocnt \in Nat
  /\ ccnt \in Nat
  /\ pushed \in Seq(Seq(Byte \ {BLANK}))
  /\ sent \in Seq(Object)
  /\ clean \in BOOLEAN

\* How many of the first n bytes of s are no blanks, and s without its blanks: the
\* i-th byte of the result is the i-th of these.
NonBlanks(s, n) == Cardinality({k \in 1 .. n : s[k] # BLANK})
Stripped(s) ==
  [i \in 1 .. NonBlanks(s, Len(s)) |->
     s[CHOOSE k \in 1 .. Len(s) : s[k] # BLANK /\ NonBlanks(s, k) = i]]

\* How often b is among the first n bytes of s.
Occurrences(s, b, n) == Cardinality({k \in 1 .. n : s[k] = b})

\* A balanced object: braces match at its end and nowhere before.
IsObject(s) ==
  /\ Occurrences(s, OPEN, Len(s)) = Occurrences(s, CLOSE, Len(s))
  /\ \A n \in 1 .. Len(s) - 1 : Occurrences(s, OPEN, n) > Occurrences(s, CLOSE, n)

\* What a peer of the protocol sends: between blanks, objects whose first brace is
\* closed at their end, and between the objects nothing that opens one.
ObjectsOnly ==
  /\ \A o \in Object : Stripped(o) # <<>> /\ Stripped(o)[1] = OPEN /\ IsObject(Stripped(o))
  /\ \A s \in Junk : OPEN \notin ToSet(s)

\* What an object becomes in a buffer it does not fit in.
Cut(s) == IF Len(s) < BufSize THEN s
          ELSE Append(SubSeq(s, 1, BufSize - 2), s[Len(s)])

\* Whatever the peer sends and however TCP cuts it, what is queued begins with
\* an opening and ends with a closing brace, and is one balanced object unless it
\* filled the buffer.
PushedAreObjects ==
  \A k \in 1 .. Len(pushed) :
    /\ Head(pushed[k]) = OPEN
    /\ Last(pushed[k]) = CLOSE
    /\ Len(pushed[k]) < BufSize - 1 => IsObject(pushed[k])

\* Between two bytes the braces are not over-closed, and a buffer that begins
\* with an opening brace is an unfinished object: its end will be recognised.
OpenObjectUnfinished ==
  /\ ocnt >= ccnt
  /\ nData = <<>> => ocnt = 0
  /\ nData # <<>> /\ nData[1] = OPEN => ocnt > ccnt

\* As long as nothing was dropped from a chunk the objects are queued in the order in
\* which they were sent, without their blanks, whatever the reads.
QueuedInOrder ==
  clean => IsPrefix(pushed, [k \in 1 .. Len(sent) |-> Cut(Stripped(sent[k]))])

\* When everything has been scanned and nothing was dropped from a chunk, every
\* object has been queued and the buffer is empty, ready for the next one.
Quiescent == wire = <<>> /\ msg = <<>>
ResynchronisedAtRest == Quiescent /\ clean => Len(pushed) = Len(sent) /\ nData = <<>>

\* Every object sent is queued, unless something was dropped from a chunk.
EveryObjectQueued ==
  \A k \in 1 .. MaxObjects : Len(sent) >= k ~> (Len(pushed) >= k \/ ~clean)

\* The loop checks every byte received, so every object is queued.
AllObjectsQueued == Quiescent => Len(pushed) >= Len(sent)
=============================================================================
