------------------------- MODULE ClientTableProofs -------------------------
(***************************************************************************)
(* Proofs about ClientTable: for any number of connections and descriptors *)
(* and any broadcasts, when a new Read_Thread reads its argument while     *)
(* Wait_Connect still holds tcp_mutex, the table, the descriptors and the  *)
(* threads agree and a broadcast that no removal disturbs reaches everybody *)
(* once; without interrupted reads only disconnected clients are removed.  *)
(***************************************************************************)
EXTENDS ClientTable, FiniteSetTheorems, WellFoundedInduction, TLAPS

-----------------------------------------------------------------------------
(* The inductive invariant.                                                *)

Thread == [pc : {"none", "start", "lookup", "read", "shift", "done"},
           sock : Nat, type : Nat, i : Nat]
Acceptor == [pc : {"accept", "register", "pause"}, conn : Conn \union {NoConn}]
Sender == [pc : {"idle", "loop"}, i : Nat, left : Nat]

Types ==
  /\ clnt_socks \in [Index -> Nat]
  /\ clnt_type \in [Index -> Nat]
  /\ clnt_cnt \in 0 .. MaxClnt
  /\ clnt_sock \in Nat
  /\ fds \in [Fd -> Conn \union {NoConn}]
  /\ peer \in [Conn -> {"idle", "open", "closed"}]
  /\ backlog \subseteq Conn
  /\ accepting \in Acceptor
  /\ rd \in [Conn -> Thread]
  /\ snd \in Sender
  /\ got \in [Conn -> Nat]

\* Who holds tcp_mutex: the accept thread while it registers, a Read_Thread in
\* SortSockBuff.  A new thread is done with the table before the accept thread
\* lets go of it.
Locking ==
  /\ tcp_mutex \in {Free, "acceptor"} \union Conn
  /\ accepting.pc = "pause" <=> tcp_mutex = "acceptor"
  /\ \A t \in Conn : rd[t].pc = "shift" <=> tcp_mutex = t
  /\ \A t \in Conn : rd[t].pc \in {"start", "lookup"} =>
       accepting.pc = "pause" /\ accepting.conn = t

\* A connection that has not been accepted.
Fresh(c) == rd[c].pc = "none" /\ accepting.conn # c /\ \A f \in Fd : fds[f] # c

\* Connection c is in the hands of the accept thread or of its Read_Thread,
\* under descriptor f.
Held(f, c) ==
  \/ accepting.pc = "register" /\ accepting.conn = c /\ clnt_sock = f
  \/ rd[c].pc = "start" /\ clnt_sock = f
  \/ rd[c].pc \in {"lookup", "read"} /\ rd[c].sock = f

Waiting ==
  /\ \A c \in Conn : peer[c] = "idle" => c \notin backlog /\ Fresh(c)
  /\ \A c \in backlog : Fresh(c)

Holding ==
  /\ accepting.pc = "accept" => accepting.conn = NoConn
  /\ accepting.pc \in {"register", "pause"} =>
       /\ accepting.conn \in Conn
       /\ clnt_sock \in Fd
       /\ fds[clnt_sock] = accepting.conn
  /\ accepting.pc = "register" => rd[accepting.conn].pc = "none"
  /\ \A t \in Conn : rd[t].pc \in {"lookup", "read"} =>
       rd[t].sock \in Fd /\ fds[rd[t].sock] = t
  /\ \A f \in Fd : fds[f] # NoConn => Held(f, fds[f])

\* The position that a SortSockBuff under way is about to overwrite or drop.
Hole == {rd[t].i : t \in {u \in Conn : rd[u].pc = "shift"}}
Live == Entries \ Hole

\* Away from the hole the table lists every registered descriptor once, with
\* the type of its client.
Listing ==
  /\ \A i \in Entries : clnt_socks[i] \in Fd
  /\ \A i, j \in Live : clnt_socks[i] = clnt_socks[j] => i = j
  /\ \A i \in Live :
       /\ fds[clnt_socks[i]] \notin Unregistered \union {NoConn}
       /\ clnt_type[i] = TypeOf(fds[clnt_socks[i]])
  /\ \A f \in Fd : fds[f] \notin Unregistered \union {NoConn} =>
       \E i \in Live : clnt_socks[i] = f
  /\ \A t \in Conn : rd[t].pc = "shift" => rd[t].i \in Entries

\* A lookup that has passed the entry of its descriptor knows the type.
Typed ==
  /\ \A t \in Conn : rd[t].pc = "lookup" =>
       \A k \in Entries : k < rd[t].i /\ clnt_socks[k] = rd[t].sock =>
         rd[t].type = TypeOf(t)
  /\ \A t \in Conn : rd[t].pc = "read" => rd[t].type = TypeOf(t)

\* Whoever is owed the broadcast has an entry, and has got it once the
\* broadcast has passed that entry.
Sending ==
  snd.pc = "loop" /\ quiet =>
    /\ \A t \in Conn : rd[t].pc # "shift"
    /\ \A c \in owed : \E k \in Entries :
         /\ fds[clnt_socks[k]] = c
         /\ got[c] = IF k < snd.i THEN 1 ELSE 0

TableInv ==
  Types /\ Locking /\ Waiting /\ Holding /\ Listing /\ Typed /\ Sending /\ owed \subseteq Conn

-----------------------------------------------------------------------------
(* Facts about the table.                                                  *)

\* A non-empty set of naturals has a least element, which is its Min.
LEMMA LeastNatural ==
  ASSUME NEW S \in SUBSET Nat, S # {}
  PROVE  Min(S) \in S
<1> DEFINE R == OpToRel(<, Nat)
<1>1. IsWellFoundedOn(R, Nat)
  BY NatLessThanWellFounded
<1>2. \A b, c \in Nat : c < b => <<c, b>> \in R
  BY DEF OpToRel
<1> HIDE DEF R
<1>3. PICK b \in S : \A c \in S : <<c, b>> \notin R
  BY <1>1, WFMin
<1>4. ASSUME NEW c \in S PROVE b <= c
  <2>1. b \in Nat /\ c \in Nat
    OBVIOUS
  <2>2. ~(c < b)
    BY <1>2, <1>3, <2>1
  <2> QED
    BY <2>1, <2>2
<1> QED
  BY <1>4 DEF Min

\* A type is a number; the entries are indices of the arrays.
LEMMA TypeOfNat == ASSUME NEW c PROVE TypeOf(c) \in Nat
BY DEF TypeOf, SERVER, DEVICE

LEMMA Dimensions ==
  ASSUME Types
  PROVE  /\ MaxClnt \in Nat
         /\ clnt_cnt \in Nat
         /\ clnt_cnt <= MaxClnt
         /\ Index = 0 .. MaxClnt - 1
         /\ \A i \in Entries : i \in Nat /\ i \in Index /\ i < clnt_cnt
         /\ \A i \in Nat : i < clnt_cnt => i \in Entries
BY ClientTableAssumption DEF Types, Index, Entries

\* accept takes a descriptor that is free.
LEMMA LowestFree ==
  ASSUME FreeFds # {}
  PROVE  Min(FreeFds) \in Fd /\ fds[Min(FreeFds)] = NoConn /\ Min(FreeFds) \in Nat
<1>1. FreeFds \in SUBSET Nat
  BY ClientTableAssumption DEF FreeFds
<1>2. Min(FreeFds) \in FreeFds
  BY <1>1, LeastNatural
<1> QED
  BY <1>1, <1>2 DEF FreeFds

\* No connection has two descriptors.
LEMMA OneDescriptor ==
  ASSUME Locking, Holding, NEW f \in Fd, NEW g \in Fd, fds[f] = fds[g], fds[f] # NoConn
  PROVE  f = g
BY DEF Locking, Holding, Held

\* While nobody removes an entry the table has no hole.
LEMMA NoHole ==
  ASSUME \A t \in Conn : rd[t].pc # "shift"
  PROVE  Hole = {} /\ Live = Entries
BY DEF Hole, Live

\* While the accept thread registers there is room in the arrays: the entries
\* are descriptors other than the new one.
LEMMA RoomToRegister ==
  ASSUME TableInv, accepting.pc = "register", tcp_mutex = Free
  PROVE  clnt_cnt < MaxClnt
<1> USE DEF TableInv
<1>1. \A t \in Conn : rd[t].pc # "shift"
  BY ClientTableAssumption DEF Locking
<1>2. Live = Entries
  BY <1>1, NoHole
<1> DEFINE Others == Fd \ {clnt_sock}
           g == [i \in Entries |-> clnt_socks[i]]
<1>3. clnt_sock \in Fd /\ fds[clnt_sock] = accepting.conn
  BY DEF Holding
<1>4. g \in [Entries -> Others]
  BY <1>2, <1>3 DEF Listing, Unregistered
<1>5. IsFiniteSet(Others) /\ Cardinality(Others) = Cardinality(Fd) - 1
  BY <1>3, ClientTableAssumption, FS_RemoveElement
<1>6. clnt_cnt \in Nat
  BY Dimensions
<1>7. IsFiniteSet(Entries) /\ Cardinality(Entries) = clnt_cnt
  <2>1. /\ IsFiniteSet(0 .. clnt_cnt - 1)
        /\ Cardinality(0 .. clnt_cnt - 1) =
             IF 0 > clnt_cnt - 1 THEN 0 ELSE clnt_cnt - 1 - 0 + 1
    BY <1>6, FS_Interval
  <2> QED
    BY <2>1, <1>6 DEF Entries
<1>8. \A x, y \in Entries : g[x] = g[y] => x = y
  BY <1>2 DEF Listing
<1>9. ~ (Cardinality(Others) < Cardinality(Entries))
  <2> HIDE DEF g, Others
  <2> QED
    BY <1>4, <1>5, <1>7, <1>8, FS_PigeonHole
<1>10. Cardinality(Fd) \in Nat /\ Cardinality(Fd) <= MaxClnt /\ MaxClnt \in Nat
  BY ClientTableAssumption, FS_CardinalityType
<1> QED
  BY <1>5, <1>6, <1>7, <1>9, <1>10

-----------------------------------------------------------------------------
LEMMA TableInit == Init => TableInv
<1> SUFFICES ASSUME Init PROVE TableInv
  OBVIOUS
<1> USE DEF Init
<1>1. Types
  BY ClientTableAssumption DEF Types, Index, Thread, Acceptor, Sender
<1>2. Locking /\ Waiting
  BY ClientTableAssumption DEF Locking, Waiting, Fresh
<1>3. Holding
  BY DEF Holding
<1>4. Listing
  BY DEF Listing, Live, Entries
<1>5. Typed /\ Sending
  BY DEF Typed, Sending
<1> QED
  BY <1>1, <1>2, <1>3, <1>4, <1>5 DEF TableInv

-----------------------------------------------------------------------------
(* Each step preserves the invariant.                                      *)

\* The peers and the listen queue: no thread and no descriptor is touched.
LEMMA PeersKeep ==
  ASSUME TableInv, NEW c \in Conn, PeerConnect(c) \/ PeerClose(c)
  PROVE  TableInv'
<1> USE DEF TableInv
<1>1. UNCHANGED <<table, clnt_sock, tcp_mutex, fds, accepting, rd, bcast>>
  BY DEF PeerConnect, PeerClose
<1> USE <1>1 DEF table, bcast
<1>2. Types'
  BY DEF Types, Index, PeerConnect, PeerClose
<1>3. Locking' /\ Holding'
  BY DEF Locking, Holding, Held
<1>4. Waiting'
  BY DEF Waiting, Fresh, PeerConnect, PeerClose, Types
<1>5. Listing'
  BY DEF Listing, Live, Hole, Entries, Unregistered
<1>6. Typed' /\ Sending' /\ (owed \subseteq Conn)'
  BY DEF Typed, Sending, Entries
<1> QED
  BY <1>2, <1>3, <1>4, <1>5, <1>6

\* accept: the descriptor was free, so no entry and no thread has it.
LEMMA AcceptKeeps ==
  ASSUME TableInv, NEW c \in Conn, Accept(c)
  PROVE  TableInv'
<1> USE DEF TableInv
<1> DEFINE d == Min(FreeFds)
<1>1. d \in Fd /\ fds[d] = NoConn /\ d \in Nat
  BY LowestFree DEF Accept
<1>2. /\ clnt_sock' = d
      /\ fds' = [fds EXCEPT ![d] = c]
      /\ backlog' = backlog \ {c}
      /\ accepting.pc = "accept"
      /\ accepting' = [pc |-> "register", conn |-> c]
      /\ UNCHANGED <<table, tcp_mutex, peer, rd, bcast>>
      /\ c \in backlog
  BY DEF Accept
<1> HIDE DEF d
<1> USE DEF table, bcast
<1>3. fds \in [Fd -> Conn \union {NoConn}]
  BY DEF Types
<1>4. /\ fds'[d] = c
      /\ \A f \in Fd : f # d => fds'[f] = fds[f]
  BY <1>1, <1>2, <1>3
<1>5. c # NoConn /\ Fresh(c)
  BY <1>2, ClientTableAssumption DEF Waiting
<1>6. Types'
  BY <1>1, <1>2 DEF Types, Index, Acceptor
<1>7. Locking'
  BY <1>2 DEF Locking
<1>8. Waiting'
  BY <1>1, <1>2, <1>4, <1>5 DEF Waiting, Fresh
<1>9. Holding'
  <2>1. \A t \in Conn : rd[t].pc \in {"lookup", "read"} =>
          rd[t].sock \in Fd /\ rd[t].sock # d /\ fds'[rd[t].sock] = t
    BY <1>1, <1>4, ClientTableAssumption DEF Holding
  <2>2. ASSUME NEW f \in Fd, fds'[f] # NoConn PROVE Held(f, fds[f])'
    <3>1. CASE f = d
      BY <1>2, <1>4, <3>1 DEF Held
    <3>2. CASE f # d
      <4>1. fds'[f] = fds[f] /\ Held(f, fds[f])
        BY <1>4, <2>2, <3>2 DEF Holding
      <4>2. rd[fds[f]].pc # "start"
        BY <1>2, <1>3, <2>2, <4>1 DEF Locking
      <4> QED
        BY <1>2, <4>1, <4>2 DEF Held
    <3> QED
      BY <3>1, <3>2
  <2> QED
    BY <1>1, <1>2, <1>4, <1>5, <2>1, <2>2 DEF Holding, Fresh
<1>10. Unregistered = {} /\ Unregistered' = {c}
  BY <1>2 DEF Unregistered
<1>11. Listing'
  <2>1. Live' = Live /\ Entries' = Entries
    BY <1>2 DEF Live, Hole, Entries
  <2>2. \A i \in Live : clnt_socks[i] \in Fd /\ clnt_socks[i] # d
    BY <1>1, <1>10 DEF Listing, Live
  <2>3. \A i \in Live : fds[clnt_socks[i]] # c
    BY <1>5, <2>2 DEF Fresh
  <2> QED
    BY <1>1, <1>2, <1>4, <1>10, <2>1, <2>2, <2>3 DEF Listing
<1>12. Typed' /\ (owed \subseteq Conn)'
  BY <1>2 DEF Typed, Entries
<1>13. Sending'
  <2> SUFFICES ASSUME snd.pc = "loop", quiet, NEW b \in owed
               PROVE  (\E k \in Entries : /\ fds[clnt_socks[k]] = b
                                          /\ got[b] = IF k < snd.i THEN 1 ELSE 0)'
    BY <1>2 DEF Sending
  <2>1. PICK k \in Entries : /\ fds[clnt_socks[k]] = b
                             /\ got[b] = IF k < snd.i THEN 1 ELSE 0
    BY DEF Sending
  <2>2. k \in Live
    BY NoHole DEF Sending
  <2>3. clnt_socks[k] \in Fd /\ clnt_socks[k] # d
    BY <1>1, <1>10, <2>2 DEF Listing
  <2> QED
    BY <1>2, <1>4, <2>1, <2>3 DEF Entries
<1> QED
  BY <1>6, <1>7, <1>8, <1>9, <1>11, <1>12, <1>13

\* Wait_Connect appends the new descriptor, of which there was no entry.
LEMMA RegisterKeeps ==
  ASSUME TableInv, Register
  PROVE  TableInv'
<1> USE DEF TableInv
<1> DEFINE n == clnt_cnt
           a == accepting.conn
<1>1. /\ accepting.pc = "register"
      /\ tcp_mutex = Free
      /\ tcp_mutex' = "acceptor"
      /\ clnt_socks' = [clnt_socks EXCEPT ![n] = clnt_sock]
      /\ clnt_type' = [clnt_type EXCEPT ![n] = TypeOf(a)]
      /\ clnt_cnt' = n + 1
      /\ rd' = [rd EXCEPT ![a].pc = "start"]
      /\ accepting' = [accepting EXCEPT !.pc = "pause"]
      /\ UNCHANGED <<clnt_sock, fds, peer, backlog, snd, got, owed, quiet>>
  BY DEF Register, net, bcast
<1>2. n \in Index /\ n \in Nat /\ n + 1 <= MaxClnt
  BY <1>1, RoomToRegister, Dimensions
<1>3. /\ a \in Conn /\ a # NoConn /\ rd[a].pc = "none"
      /\ clnt_sock \in Fd /\ fds[clnt_sock] = a /\ clnt_sock \in Nat
  BY <1>1, ClientTableAssumption DEF Holding
<1>4. \A t \in Conn : rd[t].pc \notin {"shift", "start", "lookup"}
  BY <1>1, ClientTableAssumption DEF Locking
<1>5. accepting \in Acceptor /\ accepting' = [pc |-> "pause", conn |-> a]
  BY <1>1 DEF Types, Acceptor
<1>6. /\ rd \in [Conn -> Thread] /\ rd' \in [Conn -> Thread]
      /\ rd'[a].pc = "start"
      /\ \A t \in Conn : t # a => rd'[t] = rd[t]
  BY <1>1, <1>3 DEF Types, Thread
<1>7. /\ clnt_socks \in [Index -> Nat] /\ clnt_type \in [Index -> Nat]
      /\ clnt_socks'[n] = clnt_sock /\ clnt_type'[n] = TypeOf(a)
      /\ \A i \in Index : i # n => /\ clnt_socks'[i] = clnt_socks[i]
                                   /\ clnt_type'[i] = clnt_type[i]
  BY <1>1, <1>2 DEF Types
<1>8. Entries' = Entries \union {n} /\ n \notin Entries /\ Entries \subseteq Index
  BY <1>1, <1>2, Dimensions DEF Entries
<1>9. /\ Live = Entries /\ Live' = Entries'
      /\ \A t \in Conn : rd'[t].pc # "shift"
  BY <1>4, <1>6 DEF Live, Hole
<1>10. Unregistered = {a} /\ Unregistered' = {}
  BY <1>1, <1>5 DEF Unregistered
<1> HIDE DEF n, a
<1>11. Types'
  <2>1. clnt_cnt' \in 0 .. MaxClnt
    BY <1>1, <1>2, ClientTableAssumption
  <2>2. clnt_socks' \in [Index -> Nat] /\ clnt_type' \in [Index -> Nat]
    BY <1>1, <1>3, <1>7, TypeOfNat
  <2>3. accepting' \in Acceptor
    BY <1>3, <1>5 DEF Acceptor
  <2> QED
    BY <1>1, <1>6, <2>1, <2>2, <2>3 DEF Types, Index
<1>12. Locking'
  BY <1>1, <1>4, <1>5, <1>6, ClientTableAssumption DEF Locking
<1>13. Waiting'
  BY <1>1, <1>3, <1>5, <1>6 DEF Waiting, Fresh, Types
<1>14. Holding'
  BY <1>1, <1>3, <1>4, <1>5, <1>6 DEF Holding, Held
<1>15. \A i \in Entries : clnt_socks[i] \in Fd /\ fds[clnt_socks[i]] # a
  BY <1>9, <1>10 DEF Listing
<1>16. Listing'
  <2>1. \A i \in Entries : /\ clnt_socks'[i] = clnt_socks[i] /\ clnt_socks[i] # clnt_sock
                           /\ clnt_type'[i] = clnt_type[i]
    BY <1>3, <1>7, <1>8, <1>15
  <2>2. \A i, j \in Entries' : clnt_socks'[i] = clnt_socks'[j] => i = j
    BY <1>7, <1>8, <1>9, <2>1 DEF Listing
  <2>3. \A i \in Entries' :
          /\ clnt_socks'[i] \in Fd
          /\ fds[clnt_socks'[i]] # NoConn
          /\ clnt_type'[i] = TypeOf(fds[clnt_socks'[i]])
    BY <1>3, <1>7, <1>8, <1>9, <2>1 DEF Listing
  <2>4. \A f \in Fd : fds[f] # NoConn => \E i \in Entries' : clnt_socks'[i] = f
    <3> SUFFICES ASSUME NEW f \in Fd, fds[f] # NoConn
                 PROVE  \E i \in Entries' : clnt_socks'[i] = f
      OBVIOUS
    <3>1. CASE fds[f] = a
      BY <1>3, <1>7, <1>8, <3>1, OneDescriptor
    <3>2. CASE fds[f] # a
      BY <1>8, <1>9, <1>10, <2>1, <3>2 DEF Listing
    <3> QED
      BY <3>1, <3>2
  <2> QED
    BY <1>1, <1>9, <1>10, <2>2, <2>3, <2>4 DEF Listing, TypeOf
<1>17. Typed'
  BY <1>4, <1>6 DEF Typed
<1>18. Sending'
  BY <1>1, <1>7, <1>8, <1>9 DEF Sending
<1> QED
  BY <1>1, <1>11, <1>12, <1>13, <1>14, <1>16, <1>17, <1>18

\* The new thread has read its argument and its type when the lock is released.
LEMMA EndPauseKeeps ==
  ASSUME PromptStart, TableInv, EndPause
  PROVE  TableInv'
<1> USE DEF TableInv
<1>1. /\ accepting.pc = "pause"
      /\ rd[accepting.conn].pc \notin {"start", "lookup"}
      /\ tcp_mutex' = Free
      /\ accepting' = [pc |-> "accept", conn |-> NoConn]
      /\ UNCHANGED <<clnt_socks, clnt_type, clnt_cnt, clnt_sock, fds, peer, backlog, rd,
                     snd, got, owed, quiet>>
  BY DEF EndPause, table, net, bcast
<1>2. \A t \in Conn : rd[t].pc \notin {"start", "lookup", "shift"}
  BY <1>1, ClientTableAssumption DEF Locking
<1>3. Types'
  BY <1>1 DEF Types, Index, Acceptor
<1>4. Locking'
  BY <1>1, <1>2, ClientTableAssumption DEF Locking
<1>5. Waiting'
  BY <1>1, ClientTableAssumption DEF Waiting, Fresh, Types
<1>6. Holding'
  BY <1>1, <1>2 DEF Holding, Held
<1>7. Listing'
  BY <1>1 DEF Listing, Live, Hole, Entries, Unregistered
<1>8. Typed' /\ Sending' /\ (owed \subseteq Conn)'
  BY <1>1 DEF Typed, Sending, Entries
<1> QED
  BY <1>3, <1>4, <1>5, <1>6, <1>7, <1>8

\* Read_Thread copies the descriptor of its own connection.
LEMMA ReadArgumentKeeps ==
  ASSUME TableInv, NEW t \in Conn, ReadArgument(t)
  PROVE  TableInv'
<1> USE DEF TableInv
<1>1. /\ rd[t].pc = "start"
      /\ rd' = [rd EXCEPT ![t] = [pc |-> "lookup", sock |-> clnt_sock, type |-> 0, i |-> 0]]
      /\ UNCHANGED <<clnt_socks, clnt_type, clnt_cnt, clnt_sock, tcp_mutex, fds, peer,
                     backlog, accepting, snd, got, owed, quiet>>
  BY DEF ReadArgument, table, net, bcast
<1>2. accepting.pc = "pause" /\ accepting.conn = t
  BY <1>1 DEF Locking
<1>3. clnt_sock \in Fd /\ fds[clnt_sock] = t /\ clnt_sock \in Nat
  BY <1>2, ClientTableAssumption DEF Holding
<1>4. /\ rd' \in [Conn -> Thread]
      /\ rd'[t] = [pc |-> "lookup", sock |-> clnt_sock, type |-> 0, i |-> 0]
      /\ \A u \in Conn : u # t => rd'[u] = rd[u]
  BY <1>1, <1>3 DEF Types, Thread
<1>5. Types'
  BY <1>1, <1>4 DEF Types, Index
<1>6. Locking'
  BY <1>1, <1>2, <1>4 DEF Locking
<1>7. Waiting'
  BY <1>1, <1>4 DEF Waiting, Fresh, Types
<1>8. Holding'
  BY <1>1, <1>2, <1>3, <1>4 DEF Holding, Held, Types
<1>9. Hole' = Hole
  BY <1>1, <1>4 DEF Hole
<1>10. Listing'
  BY <1>1, <1>4, <1>9 DEF Listing, Live, Entries, Unregistered
<1>11. Typed'
  BY <1>1, <1>4, Dimensions DEF Typed, Entries
<1>12. Sending' /\ (owed \subseteq Conn)'
  BY <1>1, <1>4 DEF Sending, Entries
<1> QED
  BY <1>5, <1>6, <1>7, <1>8, <1>10, <1>11, <1>12

\* The lookup meets the entry of its descriptor, which the accept thread has
\* appended before it created the thread, and no other with that descriptor.
LEMMA LookupKeeps ==
  ASSUME TableInv, NEW t \in Conn, Lookup(t)
  PROVE  TableInv'
<1> USE DEF TableInv
<1> DEFINE i == rd[t].i
           found == clnt_socks[i] = rd[t].sock
<1>1. /\ rd[t].pc = "lookup"
      /\ UNCHANGED <<clnt_socks, clnt_type, clnt_cnt, clnt_sock, tcp_mutex, fds, peer,
                     backlog, accepting, snd, got, owed, quiet>>
  BY DEF Lookup, table, net, bcast
<1>2. accepting.pc = "pause" /\ accepting.conn = t /\ tcp_mutex = "acceptor"
  BY <1>1 DEF Locking
<1>3. \A u \in Conn : rd[u].pc # "shift"
  BY <1>2, ClientTableAssumption DEF Locking
<1>4. Hole = {} /\ Live = Entries
  BY <1>3, NoHole
<1>5. /\ rd[t].sock \in Fd /\ fds[rd[t].sock] = t /\ t # NoConn
      /\ Unregistered = {}
  BY <1>1, <1>2, ClientTableAssumption DEF Holding, Unregistered
<1>6. \A k \in Entries : clnt_socks[k] = rd[t].sock => clnt_type[k] = TypeOf(t)
  BY <1>4, <1>5 DEF Listing
<1>7. rd[t] \in Thread /\ i \in Nat
  BY DEF Types, Thread
<1>8. \/ /\ i < clnt_cnt
         /\ rd'[t] = [pc |-> "lookup", sock |-> rd[t].sock,
                      type |-> IF found THEN clnt_type[i] ELSE rd[t].type, i |-> i + 1]
         /\ clnt_type[i] \in Nat
      \/ /\ i >= clnt_cnt
         /\ rd'[t] = [pc |-> "read", sock |-> rd[t].sock, type |-> rd[t].type, i |-> 0]
  BY <1>7, Dimensions DEF Lookup, Types, Thread
<1>9. \A u \in Conn : u # t => rd'[u] = rd[u]
  BY DEF Lookup, Types
<1>10. rd' = [rd EXCEPT ![t] = rd'[t]]
  BY DEF Lookup, Types
<1>11. rd'[t] \in Thread
  BY <1>7, <1>8 DEF Thread
<1>12. rd' \in [Conn -> Thread]
  BY <1>10, <1>11 DEF Types
<1>13. rd'[t].pc \in {"lookup", "read"} /\ rd'[t].sock = rd[t].sock
  BY <1>8
<1>14. Types'
  BY <1>1, <1>12 DEF Types, Index
<1>15. Locking'
  BY <1>1, <1>2, <1>9, <1>13, ClientTableAssumption DEF Locking
<1>16. Waiting'
  BY <1>1, <1>9, <1>13 DEF Waiting, Fresh, Types
<1>17. Holding'
  <2>1. ASSUME NEW f \in Fd, fds[f] # NoConn PROVE Held(f, fds[f])'
    <3>1. fds[f] \in Conn /\ Held(f, fds[f])
      BY <2>1 DEF Types, Holding
    <3> QED
      BY <1>1, <1>2, <1>9, <1>13, <3>1 DEF Held
  <2> QED
    BY <1>1, <1>2, <1>9, <1>13, <2>1 DEF Holding
<1>18. Listing'
  <2>1. Hole' = {} /\ Hole = {}
    BY <1>3, <1>9, <1>13 DEF Hole
  <2> QED
    BY <1>1, <1>3, <1>9, <1>13, <2>1 DEF Listing, Live, Entries, Unregistered
<1>19. Typed'
  <2>1. CASE i < clnt_cnt
    <3>1. /\ rd'[t].pc = "lookup" /\ rd'[t].i = i + 1
          /\ found => rd'[t].type = clnt_type[i]
          /\ ~found => rd'[t].type = rd[t].type
      BY <1>7, <1>8, <2>1, Dimensions
    <3>2. ASSUME NEW k \in Entries, k < i + 1, clnt_socks[k] = rd[t].sock
          PROVE  rd'[t].type = TypeOf(t)
      <4>1. k \in Nat
        BY Dimensions
      <4>2. CASE k = i
        BY <1>6, <3>1, <3>2, <4>2
      <4>3. CASE k < i
        <5>1. rd[t].type = TypeOf(t)
          BY <1>1, <3>2, <4>3 DEF Typed
        <5>2. CASE found
          BY <1>6, <1>7, <2>1, <3>1, <5>2, Dimensions
        <5> QED
          BY <3>1, <5>1, <5>2
      <4> QED
        BY <1>7, <3>2, <4>1, <4>2, <4>3
    <3> QED
      BY <1>1, <1>9, <1>13, <3>1, <3>2 DEF Typed, Entries, TypeOf
  <2>2. CASE i >= clnt_cnt
    <3>1. rd'[t].pc = "read" /\ rd'[t].type = rd[t].type
      BY <1>7, <1>8, <2>2, Dimensions
    <3>2. PICK k \in Entries : clnt_socks[k] = rd[t].sock
      BY <1>4, <1>5 DEF Listing
    <3>3. k < i
      BY <1>7, <2>2, Dimensions
    <3>4. rd[t].type = TypeOf(t)
      BY <1>1, <3>2, <3>3 DEF Typed
    <3> QED
      BY <1>1, <1>9, <3>1, <3>4 DEF Typed, Entries, TypeOf
  <2> QED
    BY <1>7, <2>1, <2>2, Dimensions
<1>20. Sending' /\ (owed \subseteq Conn)'
  BY <1>1, <1>9, <1>13 DEF Sending, Entries
<1> QED
  BY <1>14, <1>15, <1>16, <1>17, <1>18, <1>19, <1>20

\* SortSockBuff finds the one entry of the thread's descriptor.
LEMMA EntryOfReader ==
  ASSUME TableInv, NEW t \in Conn, rd[t].pc = "read", tcp_mutex = Free
  PROVE  /\ Hole = {} /\ Live = Entries
         /\ rd[t].sock \in Fd /\ fds[rd[t].sock] = t
         /\ Found(rd[t].sock) \in Entries
         /\ clnt_socks[Found(rd[t].sock)] = rd[t].sock
<1> USE DEF TableInv
<1> DEFINE s == rd[t].sock
<1>1. Hole = {} /\ Live = Entries
  BY ClientTableAssumption, NoHole DEF Locking
<1>2. s \in Fd /\ fds[s] = t /\ t # NoConn
  BY ClientTableAssumption DEF Holding
<1>3. fds[s] \notin Unregistered
  BY <1>2 DEF Unregistered, Holding
<1>4. Positions(s) # {}
  BY <1>1, <1>2, <1>3 DEF Listing, Positions
<1>5. Positions(s) \in SUBSET Nat
  BY Dimensions DEF Positions
<1>6. Min(Positions(s)) \in Positions(s)
  BY <1>4, <1>5, LeastNatural
<1> QED
  BY <1>1, <1>2, <1>4, <1>6 DEF Found, Positions

\* SortSockBuff locks the table, closes the thread's own descriptor and makes
\* its entry the hole.
LEMMA SortLockKeeps ==
  ASSUME TableInv, NEW t \in Conn, SortLock(t)
  PROVE  TableInv'
<1> USE DEF TableInv
<1> DEFINE s == rd[t].sock
           n == Found(s)
<1>1. /\ rd[t].pc = "read"
      /\ tcp_mutex = Free
      /\ tcp_mutex' = t
      /\ fds' = [f \in Fd |-> IF f = s THEN NoConn ELSE fds[f]]
      /\ rd' = [rd EXCEPT ![t].pc = "shift", ![t].i = n]
      /\ owed' \subseteq owed
      /\ quiet' = (snd.pc = "idle")
      /\ UNCHANGED <<clnt_socks, clnt_type, clnt_cnt, clnt_sock, peer, backlog,
                     accepting, snd, got>>
  BY DEF SortLock, SortLockOf, table
<1>2. /\ Hole = {} /\ Live = Entries
      /\ s \in Fd /\ fds[s] = t /\ n \in Entries /\ clnt_socks[n] = s
  BY <1>1, EntryOfReader
<1>3. n \in Nat
  BY <1>2, Dimensions
<1> HIDE DEF n
<1>4. /\ rd' \in [Conn -> Thread] /\ rd'[t].pc = "shift" /\ rd'[t].i = n
      /\ \A u \in Conn : u # t => rd'[u] = rd[u]
  BY <1>1, <1>3 DEF Types, Thread
<1>5. \A u \in Conn : rd[u].pc \notin {"shift", "start", "lookup"}
  BY <1>1, ClientTableAssumption DEF Locking
<1>6. fds'[s] = NoConn /\ \A f \in Fd : f # s => fds'[f] = fds[f]
  BY <1>1, <1>2
<1>7. accepting.pc # "pause"
  BY <1>1, ClientTableAssumption DEF Locking
<1>8. accepting.pc = "register" =>
        accepting.conn \in Conn /\ accepting.conn # t /\ rd[accepting.conn].pc = "none"
  BY <1>1 DEF Holding
<1>9. t # NoConn
  BY ClientTableAssumption
<1>10. Types'
  BY <1>1, <1>4 DEF Types, Index
<1>11. Locking'
  BY <1>1, <1>4, <1>5, <1>7, ClientTableAssumption DEF Locking
<1>12. Waiting'
  <2>1. ASSUME NEW c \in Conn, Fresh(c) PROVE Fresh(c)'
    BY <1>1, <1>4, <1>6, <2>1, ClientTableAssumption DEF Fresh
  <2> QED
    BY <1>1, <2>1 DEF Waiting, Types
<1>13. Holding'
  <2>1. accepting.pc = "register" =>
          clnt_sock \in Fd /\ clnt_sock # s /\ fds'[clnt_sock] = accepting.conn
    BY <1>2, <1>6, <1>8 DEF Holding
  <2>2. ASSUME NEW u \in Conn, u # t, rd[u].pc = "read"
        PROVE  rd[u].sock \in Fd /\ fds'[rd[u].sock] = u
    BY <1>2, <1>6, <2>2 DEF Holding
  <2>3. ASSUME NEW f \in Fd, fds'[f] # NoConn PROVE Held(f, fds[f])'
    <3>1. f # s /\ fds'[f] = fds[f]
      BY <1>6, <2>3
    <3>2. fds[f] \in Conn /\ fds[f] # t /\ Held(f, fds[f])
      BY <1>2, <1>9, <2>3, <3>1, OneDescriptor DEF Types, Holding
    <3> QED
      BY <1>1, <1>4, <3>1, <3>2 DEF Held
  <2> QED
    BY <1>1, <1>4, <1>5, <1>7, <1>8, <2>1, <2>2, <2>3 DEF Holding
<1>14. Unregistered' = Unregistered /\ t \notin Unregistered
  BY <1>1, <1>8 DEF Unregistered
<1>15. Hole' = {n} /\ Live' = Entries \ {n} /\ Entries' = Entries
  <2>1. Hole' = {n}
    BY <1>4, <1>5 DEF Hole
  <2> QED
    BY <1>1, <2>1 DEF Live, Entries
<1>16. Listing'
  <2>1. \A i \in Live' : clnt_socks[i] # s
    BY <1>2, <1>15 DEF Listing
  <2>2. \A f \in Fd : fds'[f] \notin Unregistered \union {NoConn} =>
          \E i \in Live' : clnt_socks[i] = f
    BY <1>2, <1>6, <1>15 DEF Listing
  <2>3. \A i \in Live' :
          /\ clnt_socks[i] \in Fd
          /\ fds'[clnt_socks[i]] \notin Unregistered \union {NoConn}
          /\ clnt_type[i] = TypeOf(fds'[clnt_socks[i]])
    BY <1>2, <1>6, <1>15, <2>1 DEF Listing
  <2>4. \A i, j \in Live' : clnt_socks[i] = clnt_socks[j] => i = j
    BY <1>2, <1>15 DEF Listing
  <2>5. \A u \in Conn : rd'[u].pc = "shift" => rd'[u].i \in Entries
    BY <1>2, <1>4, <1>5
  <2>6. \A i \in Entries : clnt_socks[i] \in Fd
    BY DEF Listing
  <2>7. UNCHANGED <<clnt_socks, clnt_type>>
    BY <1>1
  <2> QED
    BY <1>14, <1>15, <2>2, <2>3, <2>4, <2>5, <2>6, <2>7 DEF Listing
<1>17. Typed'
  BY <1>1, <1>4, <1>5 DEF Typed
<1>18. Sending' /\ (owed \subseteq Conn)'
  BY <1>1 DEF Sending
<1> QED
  BY <1>10, <1>11, <1>12, <1>13, <1>16, <1>17, <1>18

\* One turn of the loop: the hole moves up by one.
LEMMA SortShiftKeeps ==
  ASSUME TableInv, NEW t \in Conn, SortShift(t)
  PROVE  TableInv'
<1> USE DEF TableInv
<1> DEFINE n == rd[t].i
<1>1. /\ rd[t].pc = "shift"
      /\ n < clnt_cnt - 1
      /\ clnt_socks' = [clnt_socks EXCEPT ![n] = clnt_socks[n + 1]]
      /\ clnt_type' = [clnt_type EXCEPT ![n] = clnt_type[n + 1]]
      /\ rd' = [rd EXCEPT ![t].i = n + 1]
      /\ UNCHANGED <<clnt_cnt, clnt_sock, tcp_mutex, fds, peer, backlog, accepting,
                     snd, got, owed, quiet>>
  BY DEF SortShift, net, bcast
<1>2. /\ tcp_mutex = t
      /\ \A u \in Conn : u # t => rd[u].pc \notin {"shift", "start", "lookup"}
      /\ accepting.pc # "pause"
  BY <1>1, ClientTableAssumption DEF Locking
<1>3. n \in Entries /\ n \in Nat /\ n + 1 \in Nat /\ n \in Index
  BY <1>1, Dimensions DEF Listing
<1>4. n + 1 \in Entries /\ n + 1 \in Index
  BY <1>1, <1>3, Dimensions
<1>5. /\ rd' \in [Conn -> Thread] /\ rd'[t].i = n + 1
      /\ \A u \in Conn : rd'[u].pc = rd[u].pc /\ rd'[u].sock = rd[u].sock
                         /\ rd'[u].type = rd[u].type
      /\ \A u \in Conn : u # t => rd'[u] = rd[u]
  BY <1>1, <1>3 DEF Types, Thread
<1>6. /\ clnt_socks' \in [Index -> Nat] /\ clnt_type' \in [Index -> Nat]
      /\ clnt_socks'[n] = clnt_socks[n + 1] /\ clnt_type'[n] = clnt_type[n + 1]
      /\ \A i \in Index : i # n => /\ clnt_socks'[i] = clnt_socks[i]
                                   /\ clnt_type'[i] = clnt_type[i]
  BY <1>1, <1>3, <1>4 DEF Types
<1> HIDE DEF n
<1>7. Hole = {n} /\ Hole' = {n + 1}
  BY <1>1, <1>2, <1>5 DEF Hole, n
<1>8. Entries' = Entries /\ Live = Entries \ {n} /\ Live' = Entries \ {n + 1}
  BY <1>1, <1>7 DEF Live, Entries
<1>9. n # n + 1
  BY <1>3
<1>10. Types'
  BY <1>1, <1>5, <1>6 DEF Types, Index
<1>11. Locking' /\ Waiting'
  BY <1>1, <1>5 DEF Locking, Waiting, Fresh, Types
<1>12. Holding'
  BY <1>1, <1>5 DEF Holding, Held, Types
<1>13. Listing'
  <2> DEFINE old(i) == IF i = n THEN n + 1 ELSE i
  <2>1. \A i \in Live' : /\ old(i) \in Live
                         /\ clnt_socks'[i] = clnt_socks[old(i)]
                         /\ clnt_type'[i] = clnt_type[old(i)]
    BY <1>4, <1>6, <1>8, <1>9, Dimensions
  <2>2. \A i, j \in Live' : old(i) = old(j) => i = j
    BY <1>8
  <2>3. \A j \in Live : \E i \in Live' : old(i) = j
    BY <1>3, <1>4, <1>8, <1>9
  <2> HIDE DEF old
  <2>4. Unregistered' = Unregistered
    BY <1>1 DEF Unregistered
  <2>5. \A i, j \in Live' : clnt_socks'[i] = clnt_socks'[j] => i = j
    BY <2>1, <2>2 DEF Listing
  <2>6. \A i \in Live' :
          /\ clnt_socks'[i] \in Fd
          /\ fds[clnt_socks'[i]] \notin Unregistered \union {NoConn}
          /\ clnt_type'[i] = TypeOf(fds[clnt_socks'[i]])
    BY <1>8, <2>1 DEF Listing
  <2>7. \A f \in Fd : fds[f] \notin Unregistered \union {NoConn} =>
          \E i \in Live' : clnt_socks'[i] = f
    BY <2>1, <2>3 DEF Listing
  <2>8. \A u \in Conn : rd'[u].pc = "shift" => rd'[u].i \in Entries
    BY <1>2, <1>4, <1>5
  <2>9. \A i \in Entries : clnt_socks'[i] \in Fd
    BY <1>3, <1>4, <1>6, Dimensions DEF Listing
  <2> QED
    BY <1>1, <1>8, <2>4, <2>5, <2>6, <2>7, <2>8, <2>9 DEF Listing, TypeOf
<1>14. Typed'
  BY <1>1, <1>2, <1>5 DEF Typed, TypeOf
<1>15. Sending' /\ (owed \subseteq Conn)'
  BY <1>1 DEF Sending
<1> QED
  BY <1>10, <1>11, <1>12, <1>13, <1>14, <1>15

\* The hole is the last entry when the count drops.
LEMMA SortDropKeeps ==
  ASSUME TableInv, NEW t \in Conn, SortDrop(t)
  PROVE  TableInv'
<1> USE DEF TableInv
<1> DEFINE n == rd[t].i
<1>1. /\ rd[t].pc = "shift"
      /\ n >= clnt_cnt - 1
      /\ clnt_cnt' = IF clnt_cnt > 0 THEN clnt_cnt - 1 ELSE clnt_cnt
      /\ tcp_mutex' = Free
      /\ rd' = [rd EXCEPT ![t] = [pc |-> "done", sock |-> 0, type |-> 0, i |-> 0]]
      /\ UNCHANGED <<clnt_socks, clnt_type, clnt_sock, fds, peer, backlog, accepting,
                     snd, got, owed, quiet>>
  BY DEF SortDrop, net, bcast
<1>2. /\ tcp_mutex = t
      /\ \A u \in Conn : u # t => rd[u].pc \notin {"shift", "start", "lookup"}
      /\ accepting.pc # "pause"
  BY <1>1, ClientTableAssumption DEF Locking
<1>3. n \in Entries
  BY <1>1 DEF Listing
<1>4. clnt_cnt > 0 /\ n = clnt_cnt - 1 /\ clnt_cnt' = clnt_cnt - 1 /\ clnt_cnt' \in 0 .. MaxClnt
  BY <1>1, <1>3, Dimensions
<1>5. /\ rd' \in [Conn -> Thread]
      /\ rd'[t] = [pc |-> "done", sock |-> 0, type |-> 0, i |-> 0]
      /\ \A u \in Conn : u # t => rd'[u] = rd[u]
  BY <1>1 DEF Types, Thread
<1> HIDE DEF n
<1>6. Hole = {n} /\ Hole' = {}
  BY <1>1, <1>2, <1>5 DEF Hole, n
<1>7. Live = Entries' /\ Live' = Entries' /\ Entries' \subseteq Entries
  BY <1>4, <1>6, Dimensions DEF Live, Entries
<1>8. Types'
  BY <1>1, <1>4, <1>5 DEF Types, Index
<1>9. Locking'
  BY <1>1, <1>2, <1>5, ClientTableAssumption DEF Locking
<1>10. Waiting'
  BY <1>1, <1>5 DEF Waiting, Fresh, Types
<1>11. Holding'
  <2>1. ASSUME NEW f \in Fd, fds[f] # NoConn PROVE Held(f, fds[f])'
    BY <1>1, <1>5, <2>1 DEF Held, Holding, Types
  <2> QED
    BY <1>1, <1>2, <1>5, <2>1 DEF Holding
<1>12. Listing'
  BY <1>1, <1>2, <1>5, <1>7 DEF Listing, Unregistered
<1>13. Typed'
  BY <1>1, <1>2, <1>5 DEF Typed
<1>14. Sending' /\ (owed \subseteq Conn)'
  BY <1>1 DEF Sending
<1> QED
  BY <1>8, <1>9, <1>10, <1>11, <1>12, <1>13, <1>14

\* A broadcast begins: whoever is owed it has an entry.
LEMMA SendStartKeeps ==
  ASSUME TableInv, SendStart
  PROVE  TableInv'
<1> USE DEF TableInv
<1>1. /\ snd' = [pc |-> "loop", i |-> 0, left |-> snd.left - 1]
      /\ snd.left > 0
      /\ got' = [c \in Conn |-> 0]
      /\ owed' = Registered \ Unregistered
      /\ quiet' = ~Removing
      /\ UNCHANGED <<clnt_socks, clnt_type, clnt_cnt, clnt_sock, tcp_mutex, fds, peer,
                     backlog, accepting, rd>>
  BY DEF SendStart, table, net
<1>2. Types'
  BY <1>1 DEF Types, Index, Sender
<1>3. Locking' /\ Waiting' /\ Holding'
  BY <1>1 DEF Locking, Waiting, Fresh, Holding, Held
<1>4. Listing' /\ Typed'
  BY <1>1 DEF Listing, Live, Hole, Entries, Unregistered, Typed
<1>5. ASSUME ~Removing, NEW c \in owed'
      PROVE  /\ c \in Conn
             /\ \E k \in Entries : fds[clnt_socks[k]] = c
  <2>1. Live = Entries
    BY <1>5, NoHole DEF Removing
  <2>2. PICK k \in Entries : c = fds[clnt_socks[k]]
    BY <1>1 DEF Registered
  <2>3. clnt_socks[k] \in Fd /\ c # NoConn
    BY <1>1, <2>1 DEF Listing, Registered
  <2> QED
    BY <2>2, <2>3 DEF Types
<1>6. Sending'
  <2>1. ASSUME quiet', NEW c \in owed'
        PROVE  \E k \in Entries : /\ fds[clnt_socks[k]] = c
                                  /\ got'[c] = IF k < snd'.i THEN 1 ELSE 0
    <3>1. PICK k \in Entries : fds[clnt_socks[k]] = c
      BY <1>1, <1>5, <2>1
    <3>2. c \in Conn
      BY <1>1, <1>5, <2>1
    <3> QED
      BY <1>1, <3>1, <3>2, Dimensions
  <2> QED
    BY <1>1, <2>1 DEF Sending, Entries, Removing
<1>7. (owed \subseteq Conn)'
  <2>1. ASSUME NEW c \in owed' PROVE c \in Conn
    <3>1. PICK k \in Entries : c = fds[clnt_socks[k]]
      BY <1>1 DEF Registered
    <3> QED
      BY <1>1, <3>1 DEF Registered, Listing, Types
  <2> QED
    BY <2>1
<1> QED
  BY <1>2, <1>3, <1>4, <1>6, <1>7

\* One write: the connection of this entry gets its copy, and has no other entry.
LEMMA SendOneKeeps ==
  ASSUME TableInv, SendOne
  PROVE  TableInv'
<1> USE DEF TableInv
<1> DEFINE n == snd.i
           f == fds[clnt_socks[n]]
<1>1. /\ snd.pc = "loop"
      /\ n < clnt_cnt
      /\ got' = [c \in Conn |-> IF c = f THEN got[c] + 1 ELSE got[c]]
      /\ snd' = [snd EXCEPT !.i = n + 1]
      /\ UNCHANGED <<clnt_socks, clnt_type, clnt_cnt, clnt_sock, tcp_mutex, fds, peer,
                     backlog, accepting, rd, owed, quiet>>
  BY DEF SendOne, table, net
<1>2. n \in Nat /\ snd \in Sender /\ snd' = [pc |-> "loop", i |-> n + 1, left |-> snd.left]
  BY <1>1 DEF Types, Sender
<1>3. n \in Entries
  BY <1>1, <1>2, Dimensions
<1> HIDE DEF n
<1>4. Types'
  <2>1. snd' \in Sender
    BY <1>2 DEF Sender
  <2>2. got' \in [Conn -> Nat]
    BY <1>1 DEF Types
  <2> QED
    BY <1>1, <2>1, <2>2 DEF Types, Index
<1>5. Locking' /\ Waiting' /\ Holding'
  BY <1>1 DEF Locking, Waiting, Fresh, Holding, Held
<1>6. Listing' /\ Typed'
  BY <1>1 DEF Listing, Live, Hole, Entries, Unregistered, Typed
<1>7. ASSUME quiet, NEW c \in owed
      PROVE  \E k \in Entries : /\ fds[clnt_socks[k]] = c
                                /\ got'[c] = IF k < n + 1 THEN 1 ELSE 0
  <2>1. PICK k \in Entries : /\ fds[clnt_socks[k]] = c
                             /\ got[c] = IF k < n THEN 1 ELSE 0
    BY <1>1, <1>7 DEF Sending, n
  <2>2. Live = Entries
    BY <1>1, <1>7, NoHole DEF Sending
  <2>3. f = c => k = n
    <3> SUFFICES ASSUME f = c PROVE k = n
      OBVIOUS
    <3>1. /\ clnt_socks[k] \in Fd /\ clnt_socks[n] \in Fd
          /\ fds[clnt_socks[n]] # NoConn
      BY <1>3, <2>2 DEF Listing
    <3>2. clnt_socks[k] = clnt_socks[n]
      BY <2>1, <3>1, OneDescriptor
    <3> QED
      BY <1>3, <2>2, <3>2 DEF Listing
  <2>4. c \in Conn /\ k \in Nat
    BY Dimensions
  <2>5. got'[c] = IF k = n THEN got[c] + 1 ELSE got[c]
    BY <1>1, <2>1, <2>3, <2>4
  <2> QED
    BY <1>2, <2>1, <2>4, <2>5
<1>8. Sending' /\ (owed \subseteq Conn)'
  BY <1>1, <1>2, <1>7 DEF Sending, Entries
<1> QED
  BY <1>4, <1>5, <1>6, <1>8

LEMMA SendEndKeeps ==
  ASSUME TableInv, SendEnd
  PROVE  TableInv'
<1> USE DEF TableInv
<1>1. /\ snd' = [snd EXCEPT !.pc = "idle", !.i = 0]
      /\ got' = [c \in Conn |-> 0]
      /\ owed' = {}
      /\ UNCHANGED <<clnt_socks, clnt_type, clnt_cnt, clnt_sock, tcp_mutex, fds, peer,
                     backlog, accepting, rd>>
  BY DEF SendEnd, table, net
<1>2. Types'
  BY <1>1 DEF Types, Index, Sender
<1>3. Locking' /\ Waiting' /\ Holding'
  BY <1>1 DEF Locking, Waiting, Fresh, Holding, Held
<1>4. Listing' /\ Typed'
  BY <1>1 DEF Listing, Live, Hole, Entries, Unregistered, Typed
<1>5. snd'.pc = "idle"
  BY <1>1 DEF Types, Sender
<1>6. Sending' /\ (owed \subseteq Conn)'
  BY <1>1, <1>5 DEF Sending
<1> QED
  BY <1>2, <1>3, <1>4, <1>6

LEMMA TableStep ==
  ASSUME PromptStart, TableInv, [Next]_vars
  PROVE  TableInv'
<1>1. CASE \E c \in Conn : PeerConnect(c) \/ PeerClose(c)
  BY <1>1, PeersKeep
<1>2. CASE WaitConnect
  BY <1>2, AcceptKeeps, RegisterKeeps, EndPauseKeeps DEF WaitConnect
<1>3. CASE \E t \in Conn : ReadThread(t)
  BY <1>3, ReadArgumentKeeps, LookupKeeps, SortLockKeeps, SortShiftKeeps, SortDropKeeps
     DEF ReadThread
<1>4. CASE SendMsg
  BY <1>4, SendStartKeeps, SendOneKeeps, SendEndKeeps DEF SendMsg
<1>5. CASE UNCHANGED vars
  <2> USE <1>5 DEF vars, table, net, bcast, TableInv
  <2>1. Types' /\ Locking' /\ Waiting' /\ Holding'
    BY DEF Types, Index, Locking, Waiting, Fresh, Holding, Held
  <2>2. Listing' /\ Typed' /\ Sending' /\ (owed \subseteq Conn)'
    BY DEF Listing, Live, Hole, Entries, Unregistered, Typed, Sending
  <2> QED
    BY <2>1, <2>2
<1> QED
  BY <1>1, <1>2, <1>3, <1>4, <1>5 DEF Next

\* The table, the lock and the threads agree at every step, for any number of clients.
THEOREM TableInvariant == ASSUME PromptStart PROVE Spec => []TableInv
<1>1. Init => TableInv
  BY TableInit
<1>2. TableInv /\ [Next]_vars => TableInv'
  BY TableStep
<1> QED
  BY <1>1, <1>2, PTL DEF Spec

-----------------------------------------------------------------------------
(* What it says of the hub.                                                *)

\* With the lock free there is neither a hole nor a thread still starting.
LEMMA AtRest ==
  ASSUME TableInv, tcp_mutex = Free
  PROVE  /\ Live = Entries
         /\ \A t \in Conn : rd[t].pc \notin {"start", "lookup", "shift"}
<1>1. \A t \in Conn : rd[t].pc \notin {"start", "lookup", "shift"}
  BY ClientTableAssumption DEF TableInv, Locking
<1> QED
  BY <1>1, NoHole

\* Whenever tcp_mutex is free the table lists, once each, the descriptors that
\* the live Read_Threads serve.
THEOREM TableMatches == ASSUME PromptStart PROVE Spec => []TableMatchesReaders
<1>1. TableInv => TableMatchesReaders
  <2> SUFFICES ASSUME TableInv, tcp_mutex = Free
               PROVE  /\ \A i, j \in Entries : clnt_socks[i] = clnt_socks[j] => i = j
                      /\ {clnt_socks[i] : i \in Entries} =
                           {rd[t].sock : t \in {u \in Conn : Serving(u)}}
    BY DEF TableMatchesReaders
  <2> USE DEF TableInv
  <2>1. /\ Live = Entries
        /\ \A t \in Conn : rd[t].pc \notin {"start", "lookup", "shift"}
    BY AtRest
  <2>2. ASSUME NEW i \in Entries
        PROVE  \E t \in Conn : Serving(t) /\ rd[t].sock = clnt_socks[i]
    <3>1. clnt_socks[i] \in Fd /\ fds[clnt_socks[i]] \notin Unregistered \union {NoConn}
      BY <2>1 DEF Listing
    <3>2. fds[clnt_socks[i]] \in Conn /\ Held(clnt_socks[i], fds[clnt_socks[i]])
      BY <3>1 DEF Types, Holding
    <3> QED
      BY <2>1, <3>1, <3>2 DEF Held, Unregistered, Serving
  <2>3. ASSUME NEW t \in Conn, Serving(t)
        PROVE  \E i \in Entries : clnt_socks[i] = rd[t].sock
    BY <2>1, <2>3, EntryOfReader DEF Serving
  <2> QED
    BY <2>1, <2>2, <2>3 DEF Listing
<1> QED
  BY <1>1, TableInvariant, PTL

\* A Read_Thread that is in SortSockBuff or has ended had a client that closed,
\* when no read is interrupted.
Parted == \A c \in Conn : rd[c].pc \in {"shift", "done"} => peer[c] = "closed"

LEMMA SortLockParts ==
  ASSUME PromptStart, ~Interrupted, TableInv, Parted, NEW t \in Conn, SortLock(t)
  PROVE  Parted'
<1> USE DEF TableInv
<1>1. /\ rd[t].pc = "read" /\ AtEnd(t) /\ peer' = peer
      /\ rd' = [rd EXCEPT ![t].pc = "shift", ![t].i = Found(rd[t].sock)]
  BY DEF SortLock, SortLockOf
<1>2. rd[t].sock \in Fd /\ fds[rd[t].sock] = t
  BY <1>1 DEF Holding
<1>3. t \in Ended
  BY <1>1, <1>2 DEF AtEnd
<1>4. peer[t] = "closed"
  BY <1>3, ClientTableAssumption DEF Ended
<1>5. \A c \in Conn : c # t => rd'[c] = rd[c]
  BY <1>1 DEF Types
<1> QED
  BY <1>1, <1>4, <1>5 DEF Parted

LEMMA PartedKeeps ==
  ASSUME PromptStart, ~Interrupted, TableInv, Parted, [Next]_vars
  PROVE  Parted'
<1> USE DEF TableInv
<1>1. CASE \E c \in Conn : PeerConnect(c) \/ PeerClose(c)
  BY <1>1 DEF PeerConnect, PeerClose, Parted, Types
<1>2. CASE WaitConnect
  <2>1. peer' = peer /\ \A c \in Conn : rd'[c].pc \in {"shift", "done"} => rd[c].pc = rd'[c].pc
    <3>1. CASE (\E c \in Conn : Accept(c)) \/ EndPause
      BY <3>1 DEF Accept, EndPause, net
    <3>2. CASE Register
      <4>1. peer' = peer /\ rd' = [rd EXCEPT ![accepting.conn].pc = "start"]
        BY <3>2 DEF Register, net
      <4>2. accepting.conn \in Conn
        BY <3>2 DEF Register, Holding
      <4>3. \A c \in Conn : rd'[c].pc = IF c = accepting.conn THEN "start" ELSE rd[c].pc
        BY <4>1, <4>2 DEF Types, Thread
      <4> QED
        BY <4>1, <4>3
    <3> QED
      BY <1>2, <3>1, <3>2 DEF WaitConnect
  <2> QED
    BY <2>1 DEF Parted
<1>3. CASE \E t \in Conn : ReadThread(t)
  <2>1. PICK t \in Conn : ReadThread(t)
    BY <1>3
  <2>2. CASE ReadArgument(t) \/ Lookup(t)
    <3>1. peer' = peer /\ \A c \in Conn : rd'[c].pc \in {"shift", "done"} => rd[c].pc = rd'[c].pc
      <4>1. peer' = peer
        BY <2>2 DEF ReadArgument, Lookup, net
      <4>2. ASSUME NEW c \in Conn, c # t PROVE rd'[c] = rd[c]
        BY <2>2, <4>2 DEF ReadArgument, Lookup, Types
      <4>3. rd'[t].pc \in {"lookup", "read"}
        BY <2>2 DEF ReadArgument, Lookup, Types, Thread
      <4> QED
        BY <4>1, <4>2, <4>3
    <3> QED
      BY <3>1 DEF Parted
  <2>3. CASE SortLock(t)
    BY <2>3, SortLockParts
  <2>4. CASE SortShift(t) \/ SortDrop(t)
    <3>1. /\ peer' = peer /\ rd[t].pc = "shift"
          /\ \A c \in Conn : c # t => rd'[c] = rd[c]
      BY <2>4 DEF SortShift, SortDrop, net, Types, Thread
    <3> QED
      BY <3>1 DEF Parted
  <2> QED
    BY <2>1, <2>2, <2>3, <2>4 DEF ReadThread
<1>4. CASE SendMsg
  BY <1>4 DEF SendMsg, SendStart, SendOne, SendEnd, net, Parted
<1>5. CASE UNCHANGED vars
  BY <1>5 DEF vars, net, Parted
<1> QED
  BY <1>1, <1>2, <1>3, <1>4, <1>5 DEF Next

\* The late start and the interrupted read are the only ways in which a client
\* that is still connected can leave the table.
THEOREM OnlyTheDisconnected ==
  ASSUME PromptStart, ~Interrupted
  PROVE  Spec => []OnlyDisconnectedRemoved
<1>1. Init => Parted
  BY DEF Init, Parted
<1>2. TableInv /\ Parted /\ [Next]_vars => Parted'
  BY PartedKeeps
<1>3. TableInv /\ Parted => OnlyDisconnectedRemoved
  <2> SUFFICES ASSUME TableInv, Parted, tcp_mutex = Free,
                      NEW c \in Conn, rd[c].pc # "none", peer[c] = "open"
               PROVE  c \in Registered
    BY DEF OnlyDisconnectedRemoved
  <2>1. rd[c].pc = "read"
    BY AtRest DEF Parted, TableInv, Types, Thread
  <2>2. fds[rd[c].sock] = c /\ \E i \in Entries : clnt_socks[i] = rd[c].sock
    BY <2>1, AtRest, EntryOfReader
  <2> QED
    BY <2>2, ClientTableAssumption DEF Registered
<1> QED
  BY <1>1, <1>2, <1>3, TableInvariant, PTL DEF Spec

\* A broadcast during which no client is removed reaches every client that was
\* registered when it began, once.
THEOREM QuietReachesAll == ASSUME PromptStart PROVE Spec => []QuietBroadcastReachesAll
<1>1. TableInv => QuietBroadcastReachesAll
  <2> SUFFICES ASSUME TableInv, quiet, snd.pc = "loop", snd.i >= clnt_cnt, NEW c \in owed
               PROVE  got[c] = 1
    BY DEF QuietBroadcastReachesAll
  <2>1. PICK k \in Entries : got[c] = IF k < snd.i THEN 1 ELSE 0
    BY DEF TableInv, Sending
  <2>2. snd.i \in Nat
    BY DEF TableInv, Types, Sender
  <2>3. k < snd.i
    BY <2>2, Dimensions DEF TableInv
  <2> QED
    BY <2>1, <2>3
<1> QED
  BY <1>1, TableInvariant, PTL

\* A connection is closed by the Read_Thread that serves it and by no other.
THEOREM ClosedByOwn == ASSUME PromptStart PROVE Spec => ClosedByItsOwnThread
<1>1. ASSUME TableInv, [Next]_vars, NEW f \in Fd, fds[f] # NoConn, fds'[f] = NoConn
      PROVE  tcp_mutex' = fds[f]
  <2>1. fds' # fds
    BY <1>1
  <2>2. CASE \E c \in Conn : Accept(c)
    <3>1. PICK c \in Conn : fds' = [fds EXCEPT ![Min(FreeFds)] = c] /\ FreeFds # {}
      BY <2>2 DEF Accept
    <3> QED
      BY <1>1, <3>1, LowestFree, ClientTableAssumption DEF TableInv, Types
  <2>3. CASE \E t \in Conn : SortLock(t)
    <3>1. PICK t \in Conn : SortLock(t)
      BY <2>3
    <3>2. /\ tcp_mutex' = t /\ rd[t].pc = "read" /\ tcp_mutex = Free
          /\ fds' = [g \in Fd |-> IF g = rd[t].sock THEN NoConn ELSE fds[g]]
      BY <3>1 DEF SortLock, SortLockOf
    <3>3. fds[rd[t].sock] = t
      BY <1>1, <3>2, EntryOfReader
    <3> QED
      BY <1>1, <3>2, <3>3
  <2> QED
    BY <1>1, <2>1, <2>2, <2>3 DEF Next, WaitConnect, ReadThread, SendMsg, PeerConnect,
       PeerClose, Register, EndPause, ReadArgument, Lookup, SortShift, SortDrop, SendStart,
       SendOne, SendEnd, net, vars
<1>2. TableInv /\ [Next]_vars =>
        [\A f \in Fd : fds[f] # NoConn /\ fds'[f] = NoConn => tcp_mutex' = fds[f]]_vars
  BY <1>1
<1> QED
  BY <1>2, TableInvariant, PTL DEF Spec, ClosedByItsOwnThread
=============================================================================
