---------------------------- MODULE CommandHub ----------------------------
(***************************************************************************)
(* tcpsql.cpp between the command ring and the outside: the main loop      *)
(* takes a packet, tells the devices of a SET, stores every value the      *)
(* packet names in TE_DEVICE_SET_VALUE and writes set points to the heating *)
(* controllers over modbus, while the 60 s signal handler reads the same   *)
(* controllers and stores what it reads in the same table.                 *)
(*                                                                         *)
(* Linux delivers the timer's signal to the main thread, so a tick         *)
(* interrupts the main loop between any two of its steps and runs to its   *)
(* end before the main loop goes on.  Which devices are due is in          *)
(* PollCycle; here each tick visits all of them.  One farm and one         *)
(* integrated controller; libmodbus and MySQL are external.                *)
(***************************************************************************)
EXTENDS Integers, Sequences, FiniteSets

CONSTANTS
  Devices,      \* ICTDevInfo: sequence of [type, no]
  Commands,     \* TE_DEVICE_CMD: the columns asked of a device, by type
  Packets,      \* what clients send: [from, type, form, elems]
  Unit(_),      \* atoi: the number that a text begins with, 0 if it begins with none
  Readings,     \* what the thermometers of the controllers may show
  SetPoints,    \* what the set points may be at the start
  MaxPackets,   \* bound: packets handled
  MaxFaults,    \* bound: failures of the modbus
  MaxAborts,    \* bound: failures of MySQL, each of which aborts the program
  Interrupts    \* whether a tick may interrupt a modbus exchange

ASSUME CommandHubAssumption ==
  /\ \A d \in DOMAIN Devices : Devices[d].type \in DOMAIN Commands /\ Commands[Devices[d].type] \in Seq(STRING)
  /\ Devices \in Seq([type : STRING, no : STRING])
  /\ Packets \subseteq [from : {"server", "device"}, type : STRING, form : {"array", "single", "absent"},
                        elems : Seq([type : STRING, no : STRING,
                                     fields : Seq([col : STRING, val : [digits : Nat, scale : Nat]])])]
  /\ MaxPackets \in Nat /\ MaxFaults \in Nat /\ MaxAborts \in Nat /\ Interrupts \in BOOLEAN

VARIABLES
  table,      \* the rows of TE_DEVICE_SET_VALUE, in the order of insertion
  reg,        \* register 211 of each controller, the set point in tenths
  ctx,        \* whose modbus context the global points to
  main,       \* the main loop and the packet it is at
  poll,       \* the signal handler
  forwarded,  \* the packets given to send_msg
  rebooting,  \* system("reboot") was called
  popped, faults, aborts
vars == <<table, reg, ctx, main, poll, forwarded, rebooting, popped, faults, aborts>>

\* The units on the bus, as modbus_read addresses them.
ControllerDevices == {d \in DOMAIN Devices : Devices[d].type = "C"}
Controllers == {Unit(Devices[d].no) : d \in ControllerDevices}
\* Address 0 of modbus: every unit obeys a write, none answers.
Everyone == 0
Addressed(n) == {c \in Controllers : n \in {c, Everyone}}

\* A value is its digits and how many of them stand behind the point: 27.1 is [digits |-> 271, scale |-> 1].
Zero == [digits |-> 0, scale |-> 0]
Now == [digits |-> 0, scale |-> 0]   \* the time of day, whatever it is
\* sprintf("%02d.%01d", n/10, n%10): a failed connection, -1, is stored as well
Text(n) == [digits |-> n, scale |-> 1]
Word == 65536   \* a register has 16 bits
\* The number written for a text: with a point its digits; without one the last digit is
\* not copied and the '0' meant to replace it stands behind the terminating NUL.
ToRegister(v) == (IF v.scale > 0 THEN v.digits ELSE v.digits \div 10) % Word

----------------------------------------------------------------------------
(* The table.  The repository holds no schema: nothing keeps a key unique. *)
Key(type, no, col) == [type |-> type, no |-> no, col |-> col]
GetTable(k) == SelectSeq(table, LAMBDA r : r.key = k)
Found(k) == \E i \in DOMAIN table : table[i].key = k
\* The second statement of updateCMD: an update of all the rows, or an insert.
Write(k, v, found) ==
  IF found THEN [i \in DOMAIN table |-> IF table[i].key = k THEN [key |-> k, val |-> v] ELSE table[i]]
  ELSE Append(table, [key |-> k, val |-> v])
\* Mistake: a row is added for every reading.
UpdateCMDInserts(k, v) == Write(k, v, FALSE)
UpdateCMD(k, v) == Write(k, v, Found(k))
\* The value searched is not used; a key that has none gets a row with "0".
SearchICTval(k) == IF Found(k) THEN table ELSE Append(table, [key |-> k, val |-> Zero])

\* What updateCMDLIST leaves: a row per device and column.  The call is commented out (2590, 2591),
\* so only a table of an earlier version has these rows.
Columns(d) == {Key(Devices[d].type, <<Devices[d].no>>, Commands[Devices[d].type][c]) :
                 c \in DOMAIN Commands[Devices[d].type]}
Seeded == UNION {Columns(d) : d \in DOMAIN Devices}

NoId == ""   \* of an element without eqId, and before the first
NoPacket == [from |-> "device", type |-> "none", form |-> "absent", elems |-> <<>>]
Idle == [pc |-> "idle", pkt |-> NoPacket, i |-> 0, j |-> 0, no |-> <<>>, back |-> NoId, count |-> 0, found |-> FALSE]
PollIdle == [pc |-> "idle", d |-> 0, k |-> 0]

Init ==
  /\ \E rows \in {{}, Seeded} : \E order \in [1..Cardinality(rows) -> rows] :
       /\ \A k \in rows : \E i \in DOMAIN order : order[i] = k
       /\ table = [i \in 1..Cardinality(rows) |-> [key |-> order[i], val |-> Zero]]
  /\ reg \in [Controllers -> SetPoints]
  /\ ctx = "freed" /\ main = Idle /\ poll = PollIdle
  /\ forwarded = <<>> /\ rebooting = FALSE /\ popped = 0 /\ faults = 0 /\ aborts = 0

----------------------------------------------------------------------------
(* The main loop *)
Elem == main.pkt.elems[main.i]
Field == Elem.fields[main.j]
MainKey == Key(Elem.type, main.no, Field.col)
\* The handler runs on the main thread: the main loop waits for it.
MainRuns == poll.pc = "idle"

\* JsonPaketParsingDevice takes only answers, JsonPaketParsing takes every type.
DeviceAdmits(p) == p.from = "device" /\ p.type = "res" /\ p.form = "array"
ServerAdmits(p) == p.from = "server" /\ p.form = "array"

Begin(p) == [Idle EXCEPT !.pc = "element", !.pkt = p, !.i = 1]

Dispatch ==
  /\ MainRuns /\ main.pc = "idle" /\ popped < MaxPackets
  /\ \E p \in Packets :
       /\ main' = IF DeviceAdmits(p) \/ ServerAdmits(p) THEN Begin(p) ELSE Idle
       /\ forwarded' = IF p.from = "server" /\ p.type = "set" THEN Append(forwarded, p) ELSE forwarded
       /\ rebooting' = (rebooting \/ (p.from = "server" /\ p.type = "reset"))
  /\ popped' = popped + 1
  /\ UNCHANGED <<table, reg, ctx, poll, faults, aborts>>

\* Mistake: the count is kept from one feeder to the next.
NumberedOn(e) ==
  IF e.type = "E" THEN [main EXCEPT !.back = e.no, !.no = <<e.no, main.count>>, !.count = @ + 1]
  ELSE [main EXCEPT !.back = e.no, !.no = <<e.no>>]
\* The number an element is stored under: feeders (E) count on while the device number stays the same.
Numbered(e) ==
  LET n == IF e.no = main.back THEN main.count ELSE 0
  IN IF e.type = "E"
     THEN [main EXCEPT !.back = e.no, !.no = <<e.no, n>>, !.count = n + 1]
     ELSE [main EXCEPT !.back = e.no, !.no = <<e.no>>, !.count = n]

Element ==
  /\ MainRuns /\ main.pc = "element"
  /\ main' = IF main.i > Len(main.pkt.elems) THEN Idle
             ELSE IF Elem.no = NoId THEN [main EXCEPT !.i = @ + 1]
             ELSE [Numbered(Elem) EXCEPT !.pc = "select", !.j = 1]
  /\ UNCHANGED <<table, reg, ctx, poll, forwarded, rebooting, popped, faults, aborts>>

NextElement ==
  /\ MainRuns /\ main.pc = "select" /\ main.j > Len(Elem.fields)
  /\ main' = [main EXCEPT !.pc = "element", !.i = @ + 1]
  /\ UNCHANGED <<table, reg, ctx, poll, forwarded, rebooting, popped, faults, aborts>>

Select ==
  /\ MainRuns /\ main.pc = "select" /\ main.j <= Len(Elem.fields)
  /\ main' = [main EXCEPT !.pc = "exec", !.found = Found(MainKey)]
  /\ UNCHANGED <<table, reg, ctx, poll, forwarded, rebooting, popped, faults, aborts>>

NextField == [main EXCEPT !.pc = "select", !.j = @ + 1]

\* Mistake: a device's answer is written to the controller as well.
ExecAnswers ==
  /\ MainRuns /\ main.pc = "exec"
  /\ table' = Write(MainKey, Field.val, main.found)
  /\ main' = IF Elem.type = "C" THEN [main EXCEPT !.pc = "new"] ELSE NextField
  /\ UNCHANGED <<reg, ctx, poll, forwarded, rebooting, popped, faults, aborts>>
Exec ==
  /\ MainRuns /\ main.pc = "exec"
  /\ table' = Write(MainKey, Field.val, main.found)
  /\ main' = IF main.pkt.from = "server" /\ Elem.type = "C" THEN [main EXCEPT !.pc = "new"] ELSE NextField
  /\ UNCHANGED <<reg, ctx, poll, forwarded, rebooting, popped, faults, aborts>>

\* modbus_writeread: the context is in a global, written by whoever opens the port.
OpenBus ==
  /\ MainRuns /\ main.pc = "new"
  /\ \/ ctx' = "main" /\ main' = [main EXCEPT !.pc = "transfer"] /\ faults' = faults
     \/ faults < MaxFaults /\ faults' = faults + 1 /\ ctx' = "freed" /\ main' = NextField
  /\ UNCHANGED <<table, reg, poll, forwarded, rebooting, popped, aborts>>

\* The unit is atoi of the number, so "1" and "01" are one controller and what is no number all of
\* them.  The register read back is printed and nothing else: whether the read fails, or the answer
\* to the write is lost, makes no difference.
Transfer ==
  /\ MainRuns /\ main.pc = "transfer"
  /\ \/ /\ ctx = "main" /\ faults' = faults
        /\ reg' = [c \in Controllers |-> IF c \in Addressed(Unit(Elem.no)) THEN ToRegister(Field.val) ELSE reg[c]]
     \/ ctx # "main" /\ UNCHANGED <<reg, faults>>
     \/ faults < MaxFaults /\ faults' = faults + 1 /\ reg' = reg
  /\ main' = [main EXCEPT !.pc = "free"]
  /\ UNCHANGED <<table, ctx, poll, forwarded, rebooting, popped, aborts>>

CloseBus ==
  /\ MainRuns /\ main.pc = "free"
  /\ ctx' = "freed" /\ main' = NextField
  /\ UNCHANGED <<table, reg, poll, forwarded, rebooting, popped, faults, aborts>>

Exchange == OpenBus \/ Transfer \/ CloseBus
DeviceElements == main.pkt.from = "device" /\ (Element \/ NextElement \/ Select \/ Exec)
ServerElements == main.pkt.from = "server" /\ (Element \/ NextElement \/ Select \/ Exec)

----------------------------------------------------------------------------
(* The signal handler *)
Tick ==
  /\ poll.pc = "idle" /\ Len(Devices) > 0
  /\ Interrupts \/ main.pc \notin {"transfer", "free"}
  /\ poll' = [pc |-> "device", d |-> 1, k |-> 1]
  /\ UNCHANGED <<table, reg, ctx, main, forwarded, rebooting, popped, faults, aborts>>

Polled == Devices[poll.d]
Stored == IF Polled.type = "C" THEN <<"curtemp", "settemp", "updateTm">> ELSE <<>>

\* Mistake: the temperature is stored under the set point.
PollStoreCurrent ==
  /\ poll.pc = "device" /\ poll.k \in DOMAIN Stored
  /\ \E t \in Readings : table' = UpdateCMD(Key(Polled.type, <<Polled.no>>, "settemp"), Text(t))
  /\ poll' = [poll EXCEPT !.k = @ + 1]
  /\ UNCHANGED <<reg, ctx, main, forwarded, rebooting, popped, faults, aborts>>

\* modbus_read: its value, 0 when the controller does not answer, -1 when the port cannot be opened.
PollStore ==
  /\ poll.pc = "device" /\ poll.k \in DOMAIN Stored
  /\ LET col == Stored[poll.k]
         k == Key(Polled.type, <<Polled.no>>, col)
     IN IF col = "updateTm" THEN table' = UpdateCMD(k, Now) /\ UNCHANGED <<ctx, faults>>
        ELSE /\ ctx' = "freed"
             /\ \/ /\ faults' = faults
                   /\ IF col = "settemp" THEN table' = UpdateCMD(k, Text(reg[Unit(Polled.no)]))
                      ELSE \E t \in Readings : table' = UpdateCMD(k, Text(t))
                \/ /\ faults < MaxFaults /\ faults' = faults + 1
                   /\ \E t \in {0, -1} : table' = UpdateCMD(k, Text(t))
  /\ poll' = [poll EXCEPT !.k = @ + 1]
  /\ UNCHANGED <<reg, main, forwarded, rebooting, popped, aborts>>

PollSearch ==
  /\ poll.pc = "device" /\ poll.k > Len(Stored)
  /\ IF poll.k - Len(Stored) \in DOMAIN Commands[Polled.type]
     THEN /\ table' = SearchICTval(Key(Polled.type, <<Polled.no>>, Commands[Polled.type][poll.k - Len(Stored)]))
          /\ poll' = [poll EXCEPT !.k = @ + 1]
     ELSE /\ poll' = IF poll.d < Len(Devices) THEN [poll EXCEPT !.d = @ + 1, !.k = 1] ELSE PollIdle
          /\ UNCHANGED table
  /\ UNCHANGED <<reg, ctx, main, forwarded, rebooting, popped, faults, aborts>>

----------------------------------------------------------------------------
(* The program ends and starts again: the table and the controllers stay. *)
Restart == main' = Idle /\ poll' = PollIdle /\ ctx' = "freed"
\* ASSERT: a statement that fails aborts the program.
Abort ==
  /\ aborts < MaxAborts /\ aborts' = aborts + 1
  /\ main.pc \in {"select", "exec"} \/ poll.pc # "idle"
  /\ Restart /\ UNCHANGED <<table, reg, forwarded, rebooting, popped, faults>>
Reboot ==
  /\ rebooting /\ rebooting' = FALSE
  /\ Restart /\ UNCHANGED <<table, reg, forwarded, popped, faults, aborts>>

Next == Dispatch \/ DeviceElements \/ ServerElements \/ Exchange \/ Tick \/ PollStore \/ PollSearch \/ Abort \/ Reboot

Fairness ==
  /\ WF_vars(DeviceElements) /\ WF_vars(ServerElements) /\ WF_vars(Exchange)
  /\ WF_vars(Tick) /\ WF_vars(PollStore) /\ WF_vars(PollSearch) /\ WF_vars(Reboot)
Spec == Init /\ [][Next]_vars
FairSpec == Spec /\ Fairness

----------------------------------------------------------------------------
(* Properties *)

\* The elements of feeder n before the i-th, back to the last element that has another number.
Run(p, i, n) == {a \in 1..(i - 1) : /\ p.elems[a].type = "E" /\ p.elems[a].no = n
                                   /\ \A c \in a..(i - 1) : p.elems[c].no \in {n, NoId}}

\* An answer of a feeder lists one element per animal, all with the same eqId; they are told apart by
\* their place only.  An element is stored under the count of those of its feeder before it, back to
\* the last element of any device with another number, where the code counts from 0 again (2376).
\* So an animal's values replace an earlier one's of the same packet only if such an element stands
\* between the two.
AnimalsApart ==
  main.pc \in {"select", "exec"} /\ Elem.type = "E" =>
    /\ main.no = <<Elem.no, Cardinality(Run(main.pkt, main.i, Elem.no))>>
    /\ \A a \in 1..(main.i - 1) :
         /\ main.pkt.elems[a].type = "E" /\ main.pkt.elems[a].no = Elem.no
         /\ main.no = <<Elem.no, Cardinality(Run(main.pkt, a, Elem.no))>>
         => \E c \in a..main.i : main.pkt.elems[c].no \notin {Elem.no, NoId}

\* updateCMD and SearchICTvalFromDB each look before they insert.  A key that has a row gets a second
\* one only when the tick inserted its row between the two statements of the main loop's updateCMD.
Rows(k) == Cardinality({i \in DOMAIN table : table[i].key = k})
SecondRowOnlyByRace ==
  [][\A r \in {table'[i].key : i \in DOMAIN table'} :
       Rows(r)' > Rows(r) /\ Rows(r) > 0 => main.pc = "exec" /\ ~main.found /\ MainKey = r]_vars

\* A controller's set point changes only while the main loop handles a packet of the server, setting
\* or request, with an element of a controller whose text reads as this one's number, or as none
\* (then it is written to all).  What is written is the value in tenths only if it has one decimal
\* and fits the register; without a point it is the hundredth part of that, 27 degrees become 0.2
\* (2430), and with more decimals too much.  No answer of a device, tick or restart changes it.
SetPointByServer ==
  [][\A c \in Controllers : reg'[c] # reg[c] =>
       /\ main.pc = "transfer" /\ main.pkt.from = "server" /\ Elem.type = "C" /\ Unit(Elem.no) \in {c, Everyone}
       /\ Field.val.scale = 0 => reg'[c] = ((10 * Field.val.digits) \div 100) % Word
       /\ Field.val.scale > 0 => reg'[c] = Field.val.digits % Word]_vars

\* Whatever SETs, failures, aborts and duplicate rows came before, the settemp stored for each
\* controller is in the end what the controller is set to.
SettempSettles ==
  <>[](\A d \in ControllerDevices :
         LET rows == GetTable(Key("C", <<Devices[d].no>>, "settemp"))
         IN rows # <<>> /\ \A i \in DOMAIN rows : rows[i].val = Text(reg[Unit(Devices[d].no)]))

\* The comment on paketParsing (2497) names a request for values and a setting as different commands
\* of the server.  A request changes no set point.  The code does not look at the type here.
RequestSetsNothing ==
  [][main.pkt.type = "req" => UNCHANGED reg]_vars

\* Whoever uses the global context uses the one it created.  A tick during an exchange frees it.
OwnContext == main.pc \in {"transfer", "free"} /\ MainRuns => ctx = "main"
============================================================================
