---------------------------- MODULE ClientTable ----------------------------
(***************************************************************************)
(* The table of connected clients of jsonode (tcpman.cpp): the accept      *)
(* thread registers a connection and starts its Read_Thread, Read_Thread   *)
(* unregisters it through SortSockBuff, and the main loop broadcasts with  *)
(* send_msg.  Registration and removal hold tcp_mutex; the type lookup of  *)
(* Read_Thread and the broadcast read the table without it.                *)
(*                                                                         *)
(* A Read_Thread is named after the connection whose accept created it.    *)
(* What it reads is the business of module Framing: here a read either     *)
(* blocks or ends.                                                         *)
(***************************************************************************)
EXTENDS Integers, FiniteSets, FiniteSetsExt

CONSTANTS
  Conn,        (* the connections that peers may open, each at most once  *)
  WebApi,      (* those that come from the hub's own address (myip)       *)
  Fd,          (* the descriptors the process may hold for connections    *)
  MaxClnt,     (* MAX_CLNT, the dimension of clnt_socks and clnt_type     *)
  PromptStart, (* a new Read_Thread has read its argument and its type    *)
               (* when Wait_Connect's usleep(1000) ends                   *)
  Interrupted, (* the 60 s timer signal may end a read() of a Read_Thread: *)
               (* it does when the main thread is still in the handler    *)
  MaxSends,    (* bound: broadcasts of the main loop                      *)
  NoConn,      (* a free descriptor                                       *)
  Free         (* tcp_mutex is not held                                   *)

ASSUME ClientTableAssumption ==
  /\ WebApi \subseteq Conn
  /\ Fd \subseteq Nat \ {0}
  /\ IsFiniteSet(Fd)
  /\ MaxClnt \in Nat
  /\ Cardinality(Fd) <= MaxClnt
  /\ PromptStart \in BOOLEAN
  /\ Interrupted \in BOOLEAN
  /\ MaxSends \in Nat
  /\ NoConn \notin Conn
  /\ Free \notin Conn \union {"acceptor"}
  /\ "acceptor" \notin Conn

VARIABLES
  clnt_socks, clnt_type, clnt_cnt, (* the shared table                    *)
  clnt_sock,  (* the member of tcpmanager a new Read_Thread is pointed at *)
  tcp_mutex,
  fds,        (* the kernel's view: descriptor -> connection              *)
  peer,       (* the remote ends                                          *)
  backlog,    (* connections waiting for accept                           *)
  accepting,  (* the accept thread: [pc, conn]                            *)
  rd,         (* the Read_Threads: [pc, sock, type, i]                    *)
  snd,        (* the broadcast: [pc, i, left]                             *)
  got,        (* history: copies each connection got of this broadcast    *)
  owed,       (* history: connections registered when it began and not    *)
              (* closed since                                             *)
  quiet       (* history: no SortSockBuff has run since it began          *)

table == <<clnt_socks, clnt_type, clnt_cnt>>
net   == <<fds, peer, backlog>>
bcast == <<snd, got, owed, quiet>>
vars  == <<table, clnt_sock, tcp_mutex, net, accepting, rd, bcast>>

Index == 0 .. MaxClnt - 1
DEVICE == 1
SERVER == 5
TypeOf(c) == IF c \in WebApi THEN SERVER ELSE DEVICE

Entries == 0 .. clnt_cnt - 1
Registered == {fds[clnt_socks[i]] : i \in Entries} \ {NoConn}
FreeFds == {f \in Fd : fds[f] = NoConn}

Init ==
  /\ clnt_socks = [i \in Index |-> 0]
  /\ clnt_type = [i \in Index |-> 0]
  /\ clnt_cnt = 0
  /\ clnt_sock = 0
  /\ tcp_mutex = Free
  /\ fds = [f \in Fd |-> NoConn]
  /\ peer = [c \in Conn |-> "idle"]
  /\ backlog = {}
  /\ accepting = [pc |-> "accept", conn |-> NoConn]
  /\ rd = [c \in Conn |-> [pc |-> "none", sock |-> 0, type |-> 0, i |-> 0]]
  /\ snd = [pc |-> "idle", i |-> 0, left |-> MaxSends]
  /\ got = [c \in Conn |-> 0]
  /\ owed = {}
  /\ quiet = TRUE

-----------------------------------------------------------------------------
(* Peers and the kernel's listen queue. *)

PeerConnect(c) ==
  /\ peer[c] = "idle"
  /\ peer' = [peer EXCEPT ![c] = "open"]
  /\ backlog' = backlog \union {c}
  /\ UNCHANGED <<table, clnt_sock, tcp_mutex, fds, accepting, rd, bcast>>

PeerClose(c) ==
  /\ peer[c] = "open"
  /\ peer' = [peer EXCEPT ![c] = "closed"]
  /\ UNCHANGED <<table, clnt_sock, tcp_mutex, fds, backlog, accepting, rd, bcast>>

-----------------------------------------------------------------------------
(* Wait_Connect, called for ever by TCPSERVER_Thread. *)

\* accept stores the lowest free descriptor in the member clnt_sock.
Accept(c) ==
  /\ accepting.pc = "accept"
  /\ c \in backlog
  /\ FreeFds # {}
  /\ clnt_sock' = Min(FreeFds)
  /\ fds' = [fds EXCEPT ![Min(FreeFds)] = c]
  /\ backlog' = backlog \ {c}
  /\ accepting' = [pc |-> "register", conn |-> c]
  /\ UNCHANGED <<table, tcp_mutex, peer, rd, bcast>>

\* Under tcp_mutex: append the entry, create the thread with &clnt_sock.
Register ==
  /\ accepting.pc = "register"
  /\ tcp_mutex = Free
  /\ tcp_mutex' = "acceptor"
  /\ clnt_socks' = [clnt_socks EXCEPT ![clnt_cnt] = clnt_sock]
  /\ clnt_type' = [clnt_type EXCEPT ![clnt_cnt] = TypeOf(accepting.conn)]
  /\ clnt_cnt' = clnt_cnt + 1
  /\ rd' = [rd EXCEPT ![accepting.conn].pc = "start"]
  /\ accepting' = [accepting EXCEPT !.pc = "pause"]
  /\ UNCHANGED <<clnt_sock, net, bcast>>

\* The end of usleep(1000) and of the locked section.
EndPause ==
  /\ accepting.pc = "pause"
  /\ PromptStart => rd[accepting.conn].pc \notin {"start", "lookup"}
  /\ tcp_mutex' = Free
  /\ accepting' = [pc |-> "accept", conn |-> NoConn]
  /\ UNCHANGED <<table, clnt_sock, net, rd, bcast>>

-----------------------------------------------------------------------------
(* Read_Thread. *)

\* Mistake: the thread takes its descriptor from the table.
ReadArgumentFirst(t) ==
  /\ rd[t].pc = "start"
  /\ rd' = [rd EXCEPT ![t] = [pc |-> "lookup", sock |-> clnt_socks[0], type |-> 0, i |-> 0]]
  /\ UNCHANGED <<table, clnt_sock, tcp_mutex, net, accepting, bcast>>

\* int clnt_sock = *((int*)arg)
ReadArgument(t) ==
  /\ rd[t].pc = "start"
  /\ rd' = [rd EXCEPT ![t] = [pc |-> "lookup", sock |-> clnt_sock, type |-> 0, i |-> 0]]
  /\ UNCHANGED <<table, clnt_sock, tcp_mutex, net, accepting, bcast>>

\* One turn of the loop that looks the type up, without the lock.
Lookup(t) ==
  /\ rd[t].pc = "lookup"
  /\ \/ /\ rd[t].i < clnt_cnt
        /\ rd' = [rd EXCEPT ![t].i = @ + 1,
                            ![t].type = IF clnt_socks[rd[t].i] = rd[t].sock
                                        THEN clnt_type[rd[t].i] ELSE @]
     \/ /\ rd[t].i >= clnt_cnt
        /\ rd' = [rd EXCEPT ![t].pc = "read", ![t].i = 0]
  /\ UNCHANGED <<table, clnt_sock, tcp_mutex, net, accepting, bcast>>

\* read() returns 0 (the peer closed), or -1: EBADF, or EINTR when the
\* thread takes the SIGRTMIN of createTimer, installed without SA_RESTART.
\* Then SortSockBuff: lock, close the descriptor, find its first entry.
Positions(s) == {i \in Entries : clnt_socks[i] = s}
Found(s) == IF Positions(s) = {} THEN clnt_cnt ELSE Min(Positions(s))

Ended == {NoConn} \union {c \in Conn : peer[c] = "closed"}
AtEnd(t) == \A f \in Fd \intersect {rd[t].sock} : fds[f] \in Ended

\* SortSockBuff up to the search, closing descriptor s and removing entry n.
SortLockOf(t, s, n) ==
  /\ rd[t].pc = "read"
  /\ AtEnd(t) \/ Interrupted
  /\ tcp_mutex = Free
  /\ tcp_mutex' = t
  /\ fds' = [f \in Fd |-> IF f = s THEN NoConn ELSE fds[f]]
  /\ rd' = [rd EXCEPT ![t].pc = "shift", ![t].i = n]
  /\ owed' = owed \ {fds[f] : f \in Fd \intersect {s}}
  /\ quiet' = (snd.pc = "idle")
  /\ UNCHANGED <<table, clnt_sock, peer, backlog, accepting, snd, got>>

\* Mistakes: the last entry is removed; the member clnt_sock is closed; nothing
\* is closed.
SortLockLast(t) == SortLockOf(t, rd[t].sock, clnt_cnt)
SortLockMember(t) == SortLockOf(t, clnt_sock, Found(rd[t].sock))
SortLockOpen(t) == SortLockOf(t, 0, Found(rd[t].sock))

SortLock(t) == SortLockOf(t, rd[t].sock, Found(rd[t].sock))

\* One turn of the loop that closes the gap.
SortShift(t) ==
  /\ rd[t].pc = "shift"
  /\ rd[t].i < clnt_cnt - 1
  /\ clnt_socks' = [clnt_socks EXCEPT ![rd[t].i] = clnt_socks[rd[t].i + 1]]
  /\ clnt_type' = [clnt_type EXCEPT ![rd[t].i] = clnt_type[rd[t].i + 1]]
  /\ rd' = [rd EXCEPT ![t].i = @ + 1]
  /\ UNCHANGED <<clnt_cnt, clnt_sock, tcp_mutex, net, accepting, bcast>>

\* The count drops whether or not the socket was found; the thread ends.
SortDrop(t) ==
  /\ rd[t].pc = "shift"
  /\ rd[t].i >= clnt_cnt - 1
  /\ clnt_cnt' = IF clnt_cnt > 0 THEN clnt_cnt - 1 ELSE clnt_cnt
  /\ tcp_mutex' = Free
  /\ rd' = [rd EXCEPT ![t] = [pc |-> "done", sock |-> 0, type |-> 0, i |-> 0]]
  /\ UNCHANGED <<clnt_socks, clnt_type, clnt_sock, net, accepting, bcast>>

-----------------------------------------------------------------------------
(* send_msg, called by the main loop: the table is read without the lock.  *)

\* The connection that accept has returned and Wait_Connect not yet appended.
Unregistered == IF accepting.pc = "register" THEN {accepting.conn} ELSE {}
Removing == \E t \in Conn : rd[t].pc = "shift"

\* Mistake: the loop begins at the second entry.
SendStartSecond ==
  /\ snd.pc = "idle"
  /\ snd.left > 0
  /\ snd' = [pc |-> "loop", i |-> 1, left |-> snd.left - 1]
  /\ got' = [c \in Conn |-> 0]
  /\ owed' = Registered \ Unregistered
  /\ quiet' = ~Removing
  /\ UNCHANGED <<table, clnt_sock, tcp_mutex, net, accepting, rd>>

SendStart ==
  /\ snd.pc = "idle"
  /\ snd.left > 0
  /\ snd' = [pc |-> "loop", i |-> 0, left |-> snd.left - 1]
  /\ got' = [c \in Conn |-> 0]
  /\ owed' = Registered \ Unregistered
  /\ quiet' = ~Removing
  /\ UNCHANGED <<table, clnt_sock, tcp_mutex, net, accepting, rd>>

\* write to clnt_socks[i]; an error is only printed.
SendOne ==
  /\ snd.pc = "loop"
  /\ snd.i < clnt_cnt
  /\ got' = [c \in Conn |-> IF c = fds[clnt_socks[snd.i]] THEN got[c] + 1 ELSE got[c]]
  /\ snd' = [snd EXCEPT !.i = @ + 1]
  /\ UNCHANGED <<table, clnt_sock, tcp_mutex, net, accepting, rd, owed, quiet>>

SendEnd ==
  /\ snd.pc = "loop"
  /\ snd.i >= clnt_cnt
  /\ snd' = [snd EXCEPT !.pc = "idle", !.i = 0]
  /\ got' = [c \in Conn |-> 0]
  /\ owed' = {}
  /\ quiet' = TRUE
  /\ UNCHANGED <<table, clnt_sock, tcp_mutex, net, accepting, rd>>

-----------------------------------------------------------------------------
WaitConnect == (\E c \in Conn : Accept(c)) \/ Register \/ EndPause
ReadThread(t) ==
  ReadArgument(t) \/ Lookup(t) \/ SortLock(t) \/ SortShift(t) \/ SortDrop(t)
SendMsg == SendStart \/ SendOne \/ SendEnd

Next ==
  \/ \E c \in Conn : PeerConnect(c) \/ PeerClose(c)
  \/ WaitConnect
  \/ \E t \in Conn : ReadThread(t)
  \/ SendMsg

Fairness ==
  /\ WF_vars(\E c \in Conn : Accept(c))
  /\ SF_vars(Register)
  /\ WF_vars(EndPause)
  /\ \A t \in Conn :
       /\ WF_vars(ReadArgument(t) \/ Lookup(t))
       /\ SF_vars(AtEnd(t) /\ SortLock(t))
       /\ WF_vars(SortShift(t) \/ SortDrop(t))

Spec == Init /\ [][Next]_vars
FairSpec == Spec /\ Fairness

-----------------------------------------------------------------------------
Serving(t) == rd[t].pc = "read"

\* Whenever tcp_mutex is free the table lists, once each, the descriptors that
\* live Read_Threads serve: registering (Wait_Connect) and SortSockBuff keep
\* the array, the count and the threads in step.
TableMatchesReaders ==
  tcp_mutex = Free =>
    /\ \A i, j \in Entries : clnt_socks[i] = clnt_socks[j] => i = j
    /\ {clnt_socks[i] : i \in Entries} = {rd[t].sock : t \in {u \in Conn : Serving(u)}}

\* A connection is closed by the Read_Thread that serves it and by no other.
ClosedByItsOwnThread ==
  [][\A f \in Fd : fds[f] # NoConn /\ fds'[f] = NoConn => tcp_mutex' = fds[f]]_vars

\* A client that has been registered and whose end is still open is in the
\* table whenever tcp_mutex is free: SortSockBuff is there to "remove
\* disconnected client" (line 113).  It fails for two reasons: a Read_Thread
\* that starts late serves another client's descriptor, so that two of them
\* remove entries for one, and a read() that a signal interrupts is taken for
\* the end of the connection.
OnlyDisconnectedRemoved ==
  tcp_mutex = Free =>
    \A c \in Conn : rd[c].pc # "none" /\ peer[c] = "open" => c \in Registered

\* A broadcast during which no client is removed reaches every client that was
\* registered when it began, once.
QuietBroadcastReachesAll ==
  (quiet /\ snd.pc = "loop" /\ snd.i >= clnt_cnt) => \A c \in owed : got[c] = 1

\* send_msg sends "to all": whoever is registered when it begins, and stays
\* connected, gets the message exactly once.
SendToAll ==
  (snd.pc = "loop" /\ snd.i >= clnt_cnt) => \A c \in owed : got[c] = 1

\* Every connection that is accepted is served by a Read_Thread.
AcceptedIsServed ==
  \A c \in Conn : (accepting.pc = "register" /\ accepting.conn = c)
                  ~> (rd[c].pc = "read" /\ fds[rd[c].sock] = c)

\* Once the peer of a served connection closes, its descriptor is given back
\* and its entry removed: disconnected clients do not pile up.
ClosedIsReclaimed ==
  \A c \in Conn : (peer[c] = "closed" /\ rd[c].pc = "read")
                  ~> (rd[c].pc = "done" /\ \A f \in Fd : fds[f] # c)
=============================================================================
