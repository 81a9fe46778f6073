--------------------------- MODULE ServerIOProofs ---------------------------
(***************************************************************************)
(* Theorems about ServerIO, for every value of its constants: types, and   *)
(* which socket belongs to whom.                                           *)
(***************************************************************************)
EXTENDS ServerIO, FiniteSetTheorems, WellFoundedInduction, SequenceTheorems, TLAPS

-----------------------------------------------------------------------------
(* Arithmetic *)

LEMMA LeastNat ==
  ASSUME NEW S, S \subseteq Nat, S # {}
  PROVE  Min(S) \in S /\ \A y \in S : Min(S) <= y
<1> DEFINE Upto(n) == { k \in S : k <= n }
           T == { Upto(n) : n \in S }
<1>1. T \subseteq FiniteSubsetsOf(Nat) /\ T # {}
  <2>1. ASSUME NEW n \in S PROVE IsFiniteSet(Upto(n))
    BY FS_BoundedSetOfNaturals
  <2> QED
    BY <2>1 DEF FiniteSubsetsOf
<1>2. PICK x \in T : \A y \in T : ~(<<y, x>> \in StrictSubsetOrdering(Nat))
  BY <1>1, FS_StrictSubsetOrderingWellFounded, WFMin
<1>3. PICK m \in S : x = Upto(m)
  OBVIOUS
<1>4. ASSUME NEW y \in S PROVE m <= y
  <2>1. SUFFICES ASSUME y < m PROVE FALSE
    OBVIOUS
  <2>2. m \in x
    BY <1>3
  <2>3. m \notin Upto(y)
    BY <2>1
  <2>4. Upto(y) \subseteq x
    <3>1. ASSUME NEW k \in Upto(y) PROVE k \in Upto(m)
      BY <2>1
    <3> QED
      BY <1>3, <3>1
  <2>5. <<Upto(y), x>> \in StrictSubsetOrdering(Nat)
    BY <2>2, <2>3, <2>4, <1>3 DEF StrictSubsetOrdering
  <2> QED
    BY <2>5, <1>2
<1> QED
  BY <1>4 DEF Min

\* The largest of a set of integers that is bounded below and above.
LEMMA GreatestInt ==
  ASSUME NEW S, NEW hi \in Nat, S \subseteq -1 .. hi, S # {}
  PROVE  Max(S) \in S /\ \A y \in S : Max(S) >= y
<1> DEFINE T == { hi - y : y \in S }
<1>1. T \subseteq Nat /\ T # {}
  <2>1. ASSUME NEW y \in S PROVE hi - y \in Nat
    OBVIOUS
  <2> QED
    BY <2>1
<1>2. Min(T) \in T /\ \A y \in T : Min(T) <= y
  BY <1>1, LeastNat
<1>3. PICK m \in S : Min(T) = hi - m
  BY <1>2
<1>4. ASSUME NEW y \in S PROVE m >= y
  <2>1. hi - y \in T /\ y \in Int /\ m \in Int
    OBVIOUS
  <2>2. hi - m <= hi - y
    BY <1>2, <1>3, <2>1
  <2> QED
    BY <2>1, <2>2
<1> QED
  BY <1>4 DEF Max

LEMMA Division ==
  ASSUME NEW a \in Int, NEW b \in Nat \ {0}
  PROVE  a \div b \in Int /\ a % b \in 0 .. b - 1 /\ a = b * (a \div b) + (a % b)
<1>1. a % b \in 0 .. b - 1
  OBVIOUS
<1>2. a = b * (a \div b) + (a % b)
  OBVIOUS
<1> QED
  BY <1>1, <1>2

LEMMA Remainder ==
  ASSUME NEW b \in Nat \ {0}, NEW q \in Int, NEW r \in 0 .. b - 1
  PROVE  (b * q + r) % b = r
OBVIOUS

LEMMA AddMultiple ==
  ASSUME NEW b \in Nat \ {0}, NEW q \in Int, NEW a \in Int
  PROVE  (b * q + a) % b = a % b
<1> DEFINE k == a \div b
<1>1. k \in Int /\ a % b \in 0 .. b - 1 /\ a = b * k + (a % b)
  BY Division
<1>2. b * q + a = b * (q + k) + (a % b)
  BY <1>1
<1>3. (b * (q + k) + (a % b)) % b = a % b
  <2> HIDE DEF k
  <2> QED
    BY <1>1, Remainder
<1> QED
  BY <1>2, <1>3

-----------------------------------------------------------------------------
(* net_mod: what each of its operations does to the descriptor sets *)

NetRec == [ open : SUBSET FD, readfds : SUBSET FD, writefds : SUBSET FD, max_socket : {-1} \cup FD ]

\* The sets hold open descriptors, none beyond what select looks at.
Watches(n) ==
  /\ n \in NetRec
  /\ n.readfds \subseteq n.open /\ n.writefds \subseteq n.open
  /\ \A sd \in n.readfds \cup n.writefds : sd <= n.max_socket

\* n becomes m, with these descriptors.
NetIs(m, open, readfds, writefds) ==
  Watches(m) /\ m.open = open /\ m.readfds = readfds /\ m.writefds = writefds

LEMMA LowestDescriptor ==
  ASSUME NEW n, CanOpen(n)
  PROVE  NewFD(n) \in FD \ n.open
<1>1. FD \ n.open \subseteq Nat /\ FD \ n.open # {}
  BY NetAssumption DEF FD, CanOpen
<1> QED
  BY <1>1, LeastNat DEF NewFD

LEMMA SetWrite ==
  ASSUME NEW n, Watches(n), NEW sd \in n.open
  PROVE  NetIs(set_write(n, sd), n.open, n.readfds \ {sd}, n.writefds \cup {sd})
<1> DEFINE top == IF n.max_socket < sd THEN sd ELSE n.max_socket
<1>1. sd \in FD /\ sd \in Int /\ n.max_socket \in Int
  BY NetAssumption DEF Watches, NetRec, FD
<1>2. \A x \in n.readfds \cup n.writefds : x \in Int
  BY NetAssumption DEF Watches, NetRec, FD
<1>3. set_write(n, sd) = [n EXCEPT !.writefds = n.writefds \cup {sd}, !.readfds = n.readfds \ {sd},
                                   !.max_socket = top]
  BY DEF set_write
<1>4. top \in {-1} \cup FD /\ sd <= top /\ n.max_socket <= top /\ top \in Int
  BY <1>1 DEF Watches, NetRec
<1>5. \A x \in n.readfds \cup n.writefds : x <= top
  <2> HIDE DEF top
  <2> QED
    BY <1>1, <1>2, <1>4 DEF Watches
<1> HIDE DEF top
<1> DEFINE m == set_write(n, sd)
<1>6. /\ m.open = n.open /\ m.readfds = n.readfds \ {sd} /\ m.writefds = n.writefds \cup {sd}
      /\ m.max_socket = top /\ m \in NetRec
  <2>1. n.readfds \ {sd} \in SUBSET FD /\ n.writefds \cup {sd} \in SUBSET FD /\ n \in NetRec
    BY <1>1 DEF Watches, NetRec
  <2> DEFINE r == n.readfds \ {sd}
             w == n.writefds \cup {sd}
  <2>2. m = [n EXCEPT !.writefds = w, !.readfds = r, !.max_socket = top]
    BY <1>3
  <2>3. r \in SUBSET FD /\ w \in SUBSET FD
    BY <2>1
  <2> HIDE DEF r, w, m
  <2>4. /\ m.open = n.open /\ m.readfds = r /\ m.writefds = w
        /\ m.max_socket = top /\ m \in NetRec
    BY <2>1, <2>2, <2>3, <1>4 DEF NetRec
  <2> QED
    BY <2>4 DEF r, w
<1> HIDE DEF m
<1>7. NetIs(m, n.open, n.readfds \ {sd}, n.writefds \cup {sd})
  BY <1>5, <1>4, <1>6 DEF NetIs, Watches
<1> QED
  BY <1>7 DEF m

LEMMA SetRead ==
  ASSUME NEW n, Watches(n), NEW sd \in n.open
  PROVE  NetIs(set_read(n, sd), n.open, n.readfds \cup {sd}, n.writefds \ {sd})
<1> DEFINE top == IF n.max_socket < sd THEN sd ELSE n.max_socket
<1>1. sd \in FD /\ sd \in Int /\ n.max_socket \in Int
  BY NetAssumption DEF Watches, NetRec, FD
<1>2. \A x \in n.readfds \cup n.writefds : x \in Int
  BY NetAssumption DEF Watches, NetRec, FD
<1>3. set_read(n, sd) = [n EXCEPT !.readfds = n.readfds \cup {sd}, !.writefds = n.writefds \ {sd},
                                  !.max_socket = top]
  BY DEF set_read
<1>4. top \in {-1} \cup FD /\ sd <= top /\ n.max_socket <= top /\ top \in Int
  BY <1>1 DEF Watches, NetRec
<1>5. \A x \in n.readfds \cup n.writefds : x <= top
  <2> HIDE DEF top
  <2> QED
    BY <1>1, <1>2, <1>4 DEF Watches
<1> HIDE DEF top
<1> DEFINE m == set_read(n, sd)
<1>6. /\ m.open = n.open /\ m.readfds = n.readfds \cup {sd} /\ m.writefds = n.writefds \ {sd}
      /\ m.max_socket = top /\ m \in NetRec
  <2>1. n.readfds \cup {sd} \in SUBSET FD /\ n.writefds \ {sd} \in SUBSET FD /\ n \in NetRec
    BY <1>1 DEF Watches, NetRec
  <2> DEFINE r == n.readfds \cup {sd}
             w == n.writefds \ {sd}
  <2>2. m = [n EXCEPT !.readfds = r, !.writefds = w, !.max_socket = top]
    BY <1>3
  <2>3. r \in SUBSET FD /\ w \in SUBSET FD
    BY <2>1
  <2> HIDE DEF r, w, m
  <2>4. /\ m.open = n.open /\ m.readfds = r /\ m.writefds = w
        /\ m.max_socket = top /\ m \in NetRec
    BY <2>1, <2>2, <2>3, <1>4 DEF NetRec
  <2> QED
    BY <2>4 DEF r, w
<1> HIDE DEF m
<1>7. NetIs(m, n.open, n.readfds \cup {sd}, n.writefds \ {sd})
  BY <1>5, <1>4, <1>6 DEF NetIs, Watches
<1> QED
  BY <1>7 DEF m

LEMMA Suspend ==
  ASSUME NEW n, Watches(n), NEW sd \in FD
  PROVE  NetIs(suspend(n, sd), n.open, n.readfds \ {sd}, n.writefds \ {sd})
<1> DEFINE kept == (n.readfds \cup n.writefds) \ {sd}
           top == Max(kept \cup {-1})
<1>1. n.readfds \subseteq FD /\ n.writefds \subseteq FD
  BY DEF Watches, NetRec
<1>2. MaxFD \in Nat /\ FD = 1 .. MaxFD
  BY NetAssumption DEF FD
<1>3. kept \cup {-1} \subseteq -1 .. MaxFD
  <2>1. kept \subseteq 1 .. MaxFD
    BY <1>1, <1>2
  <2> QED
    BY <2>1, <1>2
<1>4. top \in kept \cup {-1} /\ \A y \in kept \cup {-1} : top >= y
  <2> HIDE DEF kept
  <2> QED
    BY <1>2, <1>3, GreatestInt
<1>5. top \in {-1} \cup FD /\ \A y \in kept : y <= top
  <2>1. top \in {-1} \cup FD
    BY <1>1, <1>4
  <2>2. \A y \in kept : y <= top
    BY <1>1, <1>2, <1>4, <2>1
  <2> QED
    BY <2>1, <2>2
<1>6. suspend(n, sd) = [n EXCEPT !.readfds = n.readfds \ {sd}, !.writefds = n.writefds \ {sd},
                                 !.max_socket = IF n.max_socket = sd THEN top ELSE n.max_socket]
  BY DEF suspend
<1> HIDE DEF top
<1> QED
  BY <1>1, <1>5, <1>6 DEF NetIs, Watches, NetRec

LEMMA Close ==
  ASSUME NEW n, Watches(n), NEW sd \in FD
  PROVE  NetIs(close(n, sd), n.open \ {sd}, n.readfds \ {sd}, n.writefds \ {sd})
<1> DEFINE m == suspend(n, sd)
<1>1. NetIs(m, n.open, n.readfds \ {sd}, n.writefds \ {sd})
  BY Suspend
<1>2. close(n, sd) = [m EXCEPT !.open = m.open \ {sd}]
  BY DEF close
<1> HIDE DEF m
<1> QED
  BY <1>1, <1>2 DEF NetIs, Watches, NetRec

LEMMA CloseWrite ==
  ASSUME NEW n, Watches(n), NEW sd
  PROVE  NetIs(close_write(n, sd), n.open, n.readfds, n.writefds \ {sd})
BY DEF close_write, NetIs, Watches, NetRec

LEMMA Open ==
  ASSUME NEW n, Watches(n), NEW sd \in FD
  PROVE  NetIs(Opened(n, sd), n.open \cup {sd}, n.readfds, n.writefds)
BY DEF Opened, NetIs, Watches, NetRec

LEMMA Connect ==
  ASSUME NEW n, Watches(n), CanOpen(n)
  PROVE  /\ NewFD(n) \in FD \ n.open
         /\ NetIs(connect(n), n.open \cup {NewFD(n)}, n.readfds, n.writefds \cup {NewFD(n)})
<1> DEFINE sd == NewFD(n)
           m == Opened(n, sd)
<1>1. sd \in FD \ n.open
  BY LowestDescriptor
<1>2. NetIs(m, n.open \cup {sd}, n.readfds, n.writefds)
  BY <1>1, Open
<1>3. NetIs(set_write(m, sd), m.open, m.readfds \ {sd}, m.writefds \cup {sd})
  <2> HIDE DEF m, sd
  <2> QED
    BY <1>2, SetWrite DEF NetIs
<1>4. n.readfds \ {sd} = n.readfds
  BY <1>1 DEF Watches
<1> QED
  BY <1>1, <1>2, <1>3, <1>4 DEF NetIs, connect

LEMMA Accept ==
  ASSUME NEW n, Watches(n), CanOpen(n)
  PROVE  /\ NewFD(n) \in FD \ n.open
         /\ NetIs(accept(n), n.open \cup {NewFD(n)}, n.readfds \cup {NewFD(n)}, n.writefds)
<1> DEFINE sd == NewFD(n)
           m == Opened(n, sd)
<1>1. sd \in FD \ n.open
  BY LowestDescriptor
<1>2. NetIs(m, n.open \cup {sd}, n.readfds, n.writefds)
  BY <1>1, Open
<1>3. NetIs(set_read(m, sd), m.open, m.readfds \cup {sd}, m.writefds \ {sd})
  <2> HIDE DEF m, sd
  <2> QED
    BY <1>2, SetRead DEF NetIs
<1>4. n.writefds \ {sd} = n.writefds
  BY <1>1 DEF Watches
<1> QED
  BY <1>1, <1>2, <1>3, <1>4 DEF NetIs, accept

-----------------------------------------------------------------------------
(* The types of all variables *)

Name == Command \cup Nat \cup {"unknown"}
Piece == Name \X Int     \* of a command or a response, or of the request or page of a ticket
WireRec ==
  { w \in [ state : {"closed", "connecting", "up", "broken"},
            to : Command \cup {"nobody", "listen", "web", "manager"},
            unread : Seq(Piece), fin : BOOLEAN, shut : BOOLEAN, sent : Nat, ticket : Nat ] :
    w.to = "web" => w.ticket \in Ticket }
ClientRec == [ pieces : Seq(Piece), fin : BOOLEAN, got : Seq(Piece), gone : BOOLEAN ]
EntryRec ==
  [ request_id : 0 .. MaxInt,
    status : {"CONNECTING_TO_SERVER", "SENDING_REQUEST", "WAITING_FOR_RESPONSE",
              "READING_RESPONSE", "DONE"},
    sd : FD \cup {None}, start_time : Ticks, ticket : Nat, page : Seq(Piece),
    buf_size : Nat, age : 0 .. MAX_WAIT + 1 ]
FateRec ==
  [ state : {"unused", "pending", "done", "cancelled"}, calls : Nat,
    rc : {"none", "OK", "TIMEOUT", "CANNOT_WRITE_SOCKET", "CANNOT_READ_SOCKET"},
    page : Seq(Piece), served : Nat, age : 0 .. MAX_WAIT + 1, at : Ticks ]

WireTypes == wire \in [FD -> WireRec]
CommandTypes ==
  /\ request_status \in {"NONE", "READING_REQUEST", "REQUEST_READY", "REQUEST_READ",
                         "SENDING_RESPONSE"}
  /\ request_sd \in FD \cup {None}
  /\ buffer \in Seq(Piece) /\ buffer_cursor \in Nat /\ packet \in Seq(Piece)
  /\ backlog \in Seq(Command) /\ client \in [Command -> ClientRec]
ReportTypes ==
  /\ report \in Seq(Report) /\ report_sd \in FD \cup {None} /\ report_cursor \in Nat
  /\ reported \in Seq(Report) /\ written \in Seq(Seq(Report \X Nat))
FetchTypes ==
  /\ table \in [Slot -> EntryRec]
  /\ cur_request_id \in 0 .. MaxInt /\ num_pending_requests \in Int
  /\ scan \in Slot \cup {-1} /\ started \in [ now : Ticks, kill_before : Ticks ]
  /\ fate \in [Ticket -> FateRec] /\ tickets \in 0 .. MaxTickets
LoopTypes ==
  /\ now \in Ticks /\ load \in Loads /\ breaks \in Nat /\ ticks \in Nat
  /\ pc \in {"poll", "command", "report", "fetch", "scan", "get", "answer", "select", "dead"}
Types == WireTypes /\ CommandTypes /\ ReportTypes /\ FetchTypes /\ LoopTypes

\* Who has which socket.
SlotSocket(i) ==
  Busy(i) =>
    /\ table[i].sd \in net.open \ {main_sd, report_sd}
    /\ request_status # "NONE" => table[i].sd # request_sd
    /\ \A j \in Slot : Busy(j) /\ table[j].sd = table[i].sd => j = i
    /\ Sending(i) \/ Reading(i)
    /\ Sending(i) => table[i].sd \in net.writefds
    /\ Reading(i) => table[i].sd \in net.readfds
CommandSocket ==
  request_status # "NONE" =>
    /\ request_sd \in net.open \ {main_sd, report_sd}
    /\ request_status = "READING_REQUEST" => request_sd \in net.readfds
    /\ request_status = "SENDING_RESPONSE" => request_sd \in net.writefds
ReportSocket ==
  report_sd # None => report_sd \in net.open \ {main_sd} /\ report_sd \in net.writefds
MainSocket == main_sd \in net.open /\ main_sd \in net.readfds
NoOtherSocket ==
  \A sd \in net.open :
    \/ sd \in {main_sd, report_sd}
    \/ request_status # "NONE" /\ sd = request_sd
    \/ \E i \in Slot : Busy(i) /\ table[i].sd = sd
Sockets ==
  /\ Watches(net) /\ \A i \in Slot : SlotSocket(i)
  /\ CommandSocket /\ ReportSocket /\ MainSocket /\ NoOtherSocket

IOInv == Types /\ Sockets /\ IdNamesSlot

-----------------------------------------------------------------------------
(* Every step leaves each socket to its owner. *)

\* The sockets of those that have nothing to do with a step.
SameSlots == UNCHANGED table
SameCommand == UNCHANGED <<request_status, request_sd>>
SameReport == UNCHANGED report_sd

LEMMA SocketTypes ==
  ASSUME IOInv
  PROVE  /\ main_sd \in FD /\ None \notin FD
         /\ \A i \in Slot : Busy(i) => table[i].sd \in FD
         /\ request_status # "NONE" => request_sd \in FD
         /\ report_sd # None => report_sd \in FD
         /\ net.open \subseteq FD
<1>1. net.open \subseteq FD
  BY DEF IOInv, Sockets, Watches, NetRec
<1>2. main_sd \in FD /\ None \notin FD
  BY NetAssumption DEF FD, main_sd, None
<1> QED
  BY <1>1, <1>2 DEF IOInv, Sockets, SlotSocket, CommandSocket, ReportSocket

LEMMA CommandHangsUp ==
  ASSUME IOInv, request_status # "NONE", HangUp, SameSlots, SameReport, UNCHANGED request_sd
  PROVE  Sockets'
<1> DEFINE sd == request_sd
<1>1. NetIs(net', net.open \ {sd}, net.readfds \ {sd}, net.writefds \ {sd})
  BY SocketTypes, Close DEF HangUp, IOInv, Sockets
<1>2. request_status' = "NONE" /\ sd \notin {main_sd, report_sd}
  BY DEF HangUp, IOInv, Sockets, CommandSocket
<1>3. \A i \in Slot : Busy(i) => table[i].sd # sd
  BY DEF IOInv, Sockets, SlotSocket
<1>4. \A i \in Slot : SlotSocket(i)'
  BY <1>1, <1>2, <1>3
     DEF IOInv, Sockets, SlotSocket, NetIs, SameSlots, SameReport, Busy, Sending, Reading
<1>5. CommandSocket' /\ ReportSocket' /\ MainSocket'
  BY <1>1, <1>2 DEF IOInv, Sockets, CommandSocket, ReportSocket, MainSocket, NetIs, SameReport, main_sd
<1>6. NoOtherSocket'
  BY <1>1, <1>2 DEF IOInv, Sockets, NoOtherSocket, NetIs, SameSlots, SameReport, Busy, main_sd
<1> QED
  BY <1>1, <1>4, <1>5, <1>6 DEF Sockets, NetIs

\* The command connection stays, and is watched as its new status needs.
LEMMA CommandGoesOn ==
  ASSUME IOInv, request_status # "NONE", request_status' # "NONE",
         SameSlots, SameReport, UNCHANGED request_sd,
         NEW R, NEW W, NetIs(net', net.open, R, W),
         R \ {request_sd} = net.readfds \ {request_sd},
         W \ {request_sd} = net.writefds \ {request_sd},
         request_status' = "READING_REQUEST" => request_sd \in R,
         request_status' = "SENDING_RESPONSE" => request_sd \in W
  PROVE  Sockets'
<1>1. request_sd \notin {main_sd, report_sd} /\ \A i \in Slot : Busy(i) => table[i].sd # request_sd
  BY DEF IOInv, Sockets, CommandSocket, SlotSocket
<1>2. \A i \in Slot : SlotSocket(i)'
  BY <1>1 DEF IOInv, Sockets, SlotSocket, NetIs, SameSlots, SameReport, Busy, Sending, Reading
<1>3. CommandSocket' /\ ReportSocket' /\ MainSocket'
  BY <1>1 DEF IOInv, Sockets, CommandSocket, ReportSocket, MainSocket, NetIs, SameReport, main_sd
<1>4. NoOtherSocket'
  BY <1>1 DEF IOInv, Sockets, NoOtherSocket, NetIs, SameSlots, SameReport, Busy, main_sd
<1> QED
  BY <1>2, <1>3, <1>4 DEF Sockets, NetIs

LEMMA NetStays ==
  ASSUME IOInv, UNCHANGED net
  PROVE  NetIs(net', net.open, net.readfds, net.writefds)
BY DEF IOInv, Sockets, NetIs

LEMMA CommandAccepted ==
  ASSUME IOInv, AcceptCommand, SameSlots, SameReport
  PROVE  Sockets'
<1> DEFINE sd == NewFD(net)
<1>1. sd \in FD \ net.open /\ NetIs(net', net.open \cup {sd}, net.readfds \cup {sd}, net.writefds)
  BY Accept DEF AcceptCommand, IOInv, Sockets
<1>2. request_sd' = sd /\ request_status' = "READING_REQUEST" /\ request_status = "NONE"
  BY DEF AcceptCommand
<1> HIDE DEF sd
<1>3. \A i \in Slot : SlotSocket(i)'
  BY <1>1, <1>2 DEF IOInv, Sockets, SlotSocket, NetIs, SameSlots, SameReport, Busy, Sending, Reading
<1>4. CommandSocket' /\ ReportSocket' /\ MainSocket'
  <2>1. sd \notin {main_sd, report_sd}
    BY <1>1 DEF IOInv, Sockets, ReportSocket, MainSocket, FD, None, main_sd
  <2> QED
    BY <1>1, <1>2, <2>1
       DEF IOInv, Sockets, CommandSocket, ReportSocket, MainSocket, NetIs, SameReport, main_sd
<1>5. NoOtherSocket'
  BY <1>1, <1>2 DEF IOInv, Sockets, NoOtherSocket, NetIs, SameSlots, SameReport, Busy, main_sd
<1> QED
  BY <1>1, <1>3, <1>4, <1>5 DEF Sockets, NetIs

LEMMA CommandSockets ==
  ASSUME IOInv, CommandPart, SameSlots, SameReport
  PROVE  Sockets'
<1>1. CASE AcceptCommand
  BY <1>1, CommandAccepted
<1>2. CASE ReadCommandFails
  BY <1>2, CommandHangsUp DEF ReadCommandFails
<1>3. CASE ReadCommand
  <2>1. request_status = "READING_REQUEST" /\ UNCHANGED request_sd
    BY <1>3 DEF ReadCommand
  <2>2. CASE net' = suspend(net, request_sd) /\ request_status' = "REQUEST_READY"
    <3>1. NetIs(net', net.open, net.readfds \ {request_sd}, net.writefds \ {request_sd})
      BY <2>1, <2>2, SocketTypes, Suspend DEF IOInv, Sockets
    <3> QED
      BY <2>1, <2>2, <3>1, CommandGoesOn
  <2>3. CASE UNCHANGED <<net, request_status>>
    BY <2>1, <2>3, NetStays, CommandGoesOn DEF IOInv, Sockets, CommandSocket
  <2> QED
    BY <1>3, <2>2, <2>3 DEF ReadCommand
<1>4. CASE ReadCommandEof
  <2>1. /\ request_status = "READING_REQUEST" /\ UNCHANGED request_sd
        /\ net' = suspend(net, request_sd) /\ request_status' = "REQUEST_READY"
    BY <1>4 DEF ReadCommandEof
  <2>2. NetIs(net', net.open, net.readfds \ {request_sd}, net.writefds \ {request_sd})
    BY <2>1, SocketTypes, Suspend DEF IOInv, Sockets
  <2> QED
    BY <2>1, <2>2, CommandGoesOn
<1>5. CASE WriteResponse
  <2>1. request_status = "SENDING_RESPONSE" /\ UNCHANGED request_sd
    BY <1>5 DEF WriteResponse
  <2>2. HangUp \/ UNCHANGED <<net, request_status>>
    BY <1>5 DEF WriteResponse
  <2>3. CASE HangUp
    BY <2>1, <2>3, CommandHangsUp
  <2>4. CASE UNCHANGED <<net, request_status>>
    BY <2>1, <2>4, NetStays, CommandGoesOn DEF IOInv, Sockets, CommandSocket
  <2> QED
    BY <2>2, <2>3, <2>4
<1> QED
  BY <1>1, <1>2, <1>3, <1>4, <1>5 DEF CommandPart

LEMMA AnswerSockets ==
  ASSUME IOInv, get_request \/ send_response, SameSlots, SameReport
  PROVE  Sockets'
<1>1. CASE get_request
  <2>1. /\ request_status = "REQUEST_READY" /\ request_status' = "REQUEST_READ"
        /\ UNCHANGED <<net, request_sd>>
    BY <1>1 DEF get_request
  <2> QED
    BY <2>1, NetStays, CommandGoesOn
<1>2. CASE send_response
  <2>1. /\ request_status = "REQUEST_READ" /\ request_status' = "SENDING_RESPONSE"
        /\ net' = set_write(net, request_sd) /\ UNCHANGED request_sd
    BY <1>2 DEF send_response
  <2>2. request_sd \in net.open
    BY <2>1 DEF IOInv, Sockets, CommandSocket
  <2>3. NetIs(net', net.open, net.readfds \ {request_sd}, net.writefds \cup {request_sd})
    BY <2>1, <2>2, SetWrite DEF IOInv, Sockets
  <2> QED
    BY <2>1, <2>3, CommandGoesOn
<1> QED
  BY <1>1, <1>2

\* A connection for a report is opened where there is none, or in place of a closed one.
LEMMA ReportOpens ==
  ASSUME IOInv, SameSlots, SameCommand, CanOpen(net), report_sd = None,
         report_sd' = NewFD(net), net' = connect(net)
  PROVE  Sockets'
<1> DEFINE sd == NewFD(net)
<1>1. sd \in FD \ net.open /\ NetIs(net', net.open \cup {sd}, net.readfds, net.writefds \cup {sd})
  BY Connect DEF IOInv, Sockets
<1>2. report_sd' = sd
  OBVIOUS
<1> HIDE DEF sd
<1>3. \A i \in Slot : SlotSocket(i)'
  BY <1>1, <1>2 DEF IOInv, Sockets, SlotSocket, NetIs, SameSlots, SameCommand, Busy, Sending, Reading
<1>4. CommandSocket' /\ ReportSocket' /\ MainSocket'
  BY <1>1, <1>2 DEF IOInv, Sockets, CommandSocket, ReportSocket, MainSocket, NetIs, SameCommand, main_sd
<1>5. NoOtherSocket'
  <2>1. \A x \in net.open : x # report_sd
    BY SocketTypes
  <2> QED
    BY <1>1, <1>2, <2>1
       DEF IOInv, Sockets, NoOtherSocket, NetIs, SameSlots, SameCommand, Busy, main_sd
<1> QED
  BY <1>1, <1>3, <1>4, <1>5 DEF Sockets, NetIs

LEMMA ReportCloses ==
  ASSUME IOInv, SameSlots, SameCommand, report_sd # None, report_sd' = None,
         net' = close(net, report_sd)
  PROVE  Sockets'
<1> DEFINE sd == report_sd
<1>1. NetIs(net', net.open \ {sd}, net.readfds \ {sd}, net.writefds \ {sd})
  BY SocketTypes, Close DEF IOInv, Sockets
<1>2. sd # main_sd /\ (request_status # "NONE" => request_sd # sd)
      /\ \A i \in Slot : Busy(i) => table[i].sd # sd
  BY DEF IOInv, Sockets, SlotSocket, CommandSocket, ReportSocket
<1>3. None \notin FD /\ net.open \subseteq FD
  BY SocketTypes
<1>4. \A i \in Slot : SlotSocket(i)'
  BY <1>1, <1>2, <1>3 DEF IOInv, Sockets, SlotSocket, NetIs, SameSlots, SameCommand, Busy, Sending, Reading
<1>5. CommandSocket' /\ ReportSocket' /\ MainSocket'
  BY <1>1, <1>2, <1>3
     DEF IOInv, Sockets, CommandSocket, ReportSocket, MainSocket, NetIs, SameCommand, main_sd
<1>6. NoOtherSocket'
  BY <1>1, <1>2 DEF IOInv, Sockets, NoOtherSocket, NetIs, SameSlots, SameCommand, Busy, main_sd
<1> QED
  BY <1>1, <1>4, <1>5, <1>6 DEF Sockets, NetIs

LEMMA ReportReopens ==
  ASSUME IOInv, SameSlots, SameCommand, report_sd # None, CanOpen(close(net, report_sd)),
         report_sd' = NewFD(close(net, report_sd)), net' = connect(close(net, report_sd))
  PROVE  Sockets'
<1> DEFINE old == report_sd
           closed == close(net, old)
           sd == NewFD(closed)
<1>1. NetIs(closed, net.open \ {old}, net.readfds \ {old}, net.writefds \ {old})
  BY SocketTypes, Close DEF IOInv, Sockets
<1>2. /\ sd \in FD \ closed.open
      /\ NetIs(net', closed.open \cup {sd}, closed.readfds, closed.writefds \cup {sd})
  <2> HIDE DEF closed
  <2>1. CanOpen(closed) /\ Watches(closed) /\ net' = connect(closed)
    BY <1>1 DEF NetIs, closed
  <2> QED
    BY <2>1, Connect
<1> DEFINE O == net.open \ {old}
           R == net.readfds \ {old}
           W == net.writefds \ {old}
<1>3. /\ sd \in FD \ O /\ report_sd' = sd
      /\ NetIs(net', O \cup {sd}, R, W \cup {sd})
  <2>1. closed.open = O /\ closed.readfds = R /\ closed.writefds = W
    BY <1>1 DEF NetIs
  <2> HIDE DEF closed, O, R, W, sd
  <2>2. sd \in FD \ O /\ NetIs(net', O \cup {sd}, R, W \cup {sd})
    BY <1>2, <2>1
  <2> QED
    BY <2>2 DEF sd, closed
<1>4. old # main_sd /\ (request_status # "NONE" => request_sd # old)
      /\ \A i \in Slot : Busy(i) => table[i].sd # old
  BY DEF IOInv, Sockets, SlotSocket, CommandSocket, ReportSocket
<1> HIDE DEF closed, sd
<1>5. \A i \in Slot : SlotSocket(i)'
  BY <1>3, <1>4 DEF IOInv, Sockets, SlotSocket, NetIs, SameSlots, SameCommand, Busy, Sending, Reading
<1>6. CommandSocket' /\ ReportSocket' /\ MainSocket'
  BY <1>3, <1>4
     DEF IOInv, Sockets, CommandSocket, ReportSocket, MainSocket, NetIs, SameCommand, main_sd
<1>7. NoOtherSocket'
  BY <1>3, <1>4 DEF IOInv, Sockets, NoOtherSocket, NetIs, SameSlots, SameCommand, Busy, main_sd
<1> QED
  BY <1>3, <1>5, <1>6, <1>7 DEF Sockets, NetIs

LEMMA SocketsStay ==
  ASSUME IOInv, UNCHANGED net, SameSlots, SameCommand, SameReport
  PROVE  Sockets'
BY DEF IOInv, Sockets, Watches, SlotSocket, CommandSocket, ReportSocket, MainSocket, NoOtherSocket,
       Busy, Sending, Reading, SameSlots, SameCommand, SameReport

LEMMA ReportSockets ==
  ASSUME IOInv, SameSlots, SameCommand,
         ReportConnect \/ ConnectFails \/ WriteReport \/ ReportQuiet \/ \E r : send_report(r)
  PROVE  Sockets'
<1>1. CASE ReportConnect
  BY <1>1, ReportOpens DEF ReportConnect
<1>2. CASE ConnectFails \/ ReportQuiet
  BY <1>2, SocketsStay DEF ConnectFails, ReportQuiet, report_vars, SameReport
<1>3. CASE WriteReport
  <2>1. report_sd # None
    BY <1>3 DEF WriteReport
  <2>2. ASSUME NEW done, NEW log, CloseReport(done, log) PROVE Sockets'
    BY <2>1, <2>2, ReportReopens, ReportCloses DEF CloseReport
  <2>3. CASE UNCHANGED <<net, report_sd>>
    BY <2>3, SocketsStay DEF SameReport
  <2> QED
    BY <1>3, <2>2, <2>3 DEF WriteReport
<1>4. CASE \E r : send_report(r)
  <2>1. \/ report_sd = None /\ CanOpen(net) /\ report_sd' = NewFD(net) /\ net' = connect(net)
        \/ UNCHANGED <<net, report_sd>>
    BY <1>4 DEF send_report
  <2> QED
    BY <2>1, ReportOpens, SocketsStay DEF SameReport
<1> QED
  BY <1>1, <1>2, <1>3, <1>4

-----------------------------------------------------------------------------
(* append_request *)

LEMMA SomeSlotFree ==
  ASSUME IOInv, num_pending_requests < MAX_PENDING_REQUESTS
  PROVE  \E i \in Slot : ~Busy(i)
<1>1. SUFFICES ASSUME \A i \in Slot : Busy(i) PROVE FALSE
  OBVIOUS
<1>2. { i \in Slot : Busy(i) } = 0 .. MAX_PENDING_REQUESTS - 1
  BY <1>1 DEF Slot
<1>3. Cardinality(0 .. MAX_PENDING_REQUESTS - 1) = MAX_PENDING_REQUESTS
  <2>1. 0 \in Int /\ MAX_PENDING_REQUESTS - 1 \in Int /\ 0 <= MAX_PENDING_REQUESTS - 1
    BY FetchAssumption
  <2>2. Cardinality(0 .. MAX_PENDING_REQUESTS - 1) = (MAX_PENDING_REQUESTS - 1) - 0 + 1
    BY <2>1, FS_Interval
  <2> QED
    BY <2>2, FetchAssumption
<1>4. num_pending_requests = MAX_PENDING_REQUESTS
  BY <1>2, <1>3 DEF IOInv, IdNamesSlot
<1> QED
  BY <1>4, FetchAssumption

\* The search ends at a free slot.
LEMMA FreeSlotFound ==
  ASSUME IOInv, num_pending_requests < MAX_PENDING_REQUESTS, NEW start \in Slot,
         NEW f, f = FreeAfter(table, start)
  PROVE  /\ f.slot \in Slot /\ ~Busy(f.slot) /\ f.distance \in 1 .. MAX_PENDING_REQUESTS
         /\ f.slot = (start + f.distance) % MAX_PENDING_REQUESTS
<1> DEFINE M == MAX_PENDING_REQUESTS
           Place(d) == (start + d) % M
           free == { k \in 1 .. M : table[Place(k)].request_id = 0 }
           d == Min(free)
<1>1. M \in Nat \ {0} /\ Slot = 0 .. M - 1
  BY FetchAssumption DEF Slot
<1>2. f.slot = Place(d) /\ f.distance = d
  BY DEF FreeAfter
<1>3. PICK i \in Slot : ~Busy(i)
  BY SomeSlotFree
<1>4. \E k \in 1 .. M : Place(k) = i
  <2>1. CASE i > start
    <3>1. i - start \in 1 .. M /\ M * 0 + i = start + (i - start)
      BY <1>1, <2>1
    <3>2. (M * 0 + i) % M = i
      BY <1>1, Remainder
    <3> QED
      BY <3>1, <3>2
  <2>2. CASE ~(i > start)
    <3>1. i - start + M \in 1 .. M /\ M * 1 + i = start + (i - start + M)
      BY <1>1, <2>2
    <3>2. (M * 1 + i) % M = i
      BY <1>1, Remainder
    <3> QED
      BY <3>1, <3>2
  <2> QED
    BY <2>1, <2>2
<1>5. free \subseteq Nat /\ free # {}
  BY <1>1, <1>3, <1>4 DEF Busy
<1>6. d \in free
  <2> HIDE DEF free
  <2> QED
    BY <1>5, LeastNat
<1>7. d \in 1 .. M /\ ~Busy(Place(d))
  <2> HIDE DEF d
  <2> QED
    BY <1>6 DEF Busy
<1>8. Place(d) \in Slot
  <2>1. start + d \in Int
    <3> HIDE DEF d
    <3> QED
      BY <1>1, <1>7
  <2> HIDE DEF d
  <2> QED
    BY <1>1, <2>1, Division
<1> QED
  BY <1>2, <1>7, <1>8

\* The next id finds its slot, also after the ids have wrapped around.
LEMMA NextIdNames ==
  ASSUME NEW id \in 0 .. MaxInt, NEW f, f.slot \in Slot, f.distance \in 1 .. MAX_PENDING_REQUESTS,
         f.slot = ((id % MAX_PENDING_REQUESTS) + f.distance) % MAX_PENDING_REQUESTS
  PROVE  /\ NextId(id, f) \in 1 .. MaxInt
         /\ NextId(id, f) % MAX_PENDING_REQUESTS = f.slot
<1> DEFINE M == MAX_PENDING_REQUESTS
           d == f.distance
           s == f.slot
<1>1. M \in Nat \ {0} /\ MaxInt \in Nat /\ MaxInt >= 2 * M - 1 /\ s \in 0 .. M - 1
  BY FetchAssumption DEF Slot
<1>2. CASE id + d > MaxInt
  <2>1. NextId(id, f) = s + M
    BY <1>2 DEF NextId
  <2>2. s + M = M * 1 + s
    BY <1>1
  <2>3. (M * 1 + s) % M = s
    <3> HIDE DEF M, s
    <3> QED
      BY <1>1, Remainder
  <2> QED
    BY <1>1, <2>1, <2>2, <2>3
<1>3. CASE ~(id + d > MaxInt)
  <2>1. NextId(id, f) = id + d
    BY <1>3 DEF NextId
  <2> DEFINE q == id \div M
             r == id % M
  <2>2. q \in Int /\ r \in Int /\ id = M * q + r
    <3>1. id \in Int /\ M \in Nat \ {0}
      BY <1>1
    <3>2. q \in Int /\ r \in 0 .. M - 1 /\ id = M * q + r
      <4> HIDE DEF M
      <4> QED
        BY <3>1, Division
    <3> HIDE DEF q, r, M
    <3> QED
      BY <3>2, <1>1
  <2>3. id + d = M * q + (r + d)
    <3> HIDE DEF q, r, d
    <3> QED
      BY <1>1, <2>2 DEF d
  <2>4. (M * q + (r + d)) % M = (r + d) % M
    <3>1. r + d \in Int
      BY <2>2
    <3> HIDE DEF q, r, d
    <3> QED
      BY <1>1, <2>2, <3>1, AddMultiple
  <2>5. id + d \in 1 .. MaxInt
    BY <1>1, <1>3
  <2> QED
    BY <2>1, <2>3, <2>4, <2>5
<1> QED
  BY <1>2, <1>3

\* What append_request makes: an entry for the next ticket, with a free slot, its id and
\* a new socket.
Appends(s, sd, id) ==
  /\ s \in Slot /\ ~Busy(s) /\ sd \in FD \ net.open /\ id \in 1 .. MaxInt
  /\ id % MAX_PENDING_REQUESTS = s
  /\ Appended.id = id /\ Appended.table = [table EXCEPT ![s] = Entry(id, sd, tickets + 1)]
  /\ NetIs(Appended.net, net.open \cup {sd}, net.readfds, net.writefds \cup {sd})
  /\ Appended.wire =
       [wire EXCEPT ![sd] = [Fresh("connecting", "web") EXCEPT !.ticket = tickets + 1]]

LEMMA AppendedIs ==
  ASSUME IOInv, NEW max, MaySubmit(max)
  PROVE  \E s, sd, id : Appends(s, sd, id)
<1> DEFINE start == cur_request_id % MAX_PENDING_REQUESTS
           f == FreeAfter(table, start)
           id == NextId(cur_request_id, f)
           sd == NewFD(net)
<1>1. cur_request_id \in 0 .. MaxInt /\ start \in Slot
  <2>1. cur_request_id \in 0 .. MaxInt /\ MaxInt \in Nat /\ MAX_PENDING_REQUESTS \in Nat \ {0}
    BY FetchAssumption DEF IOInv, Types, FetchTypes
  <2>2. cur_request_id \in Int
    BY <2>1
  <2> QED
    BY <2>1, <2>2, Division DEF Slot
<1>2. num_pending_requests < MAX_PENDING_REQUESTS /\ CanOpen(net)
  BY DEF MaySubmit
<1>3. /\ f.slot \in Slot /\ ~Busy(f.slot) /\ f.distance \in 1 .. MAX_PENDING_REQUESTS
      /\ f.slot = (start + f.distance) % MAX_PENDING_REQUESTS
  <2> HIDE DEF start
  <2> QED
    BY <1>1, <1>2, FreeSlotFound
<1>4. id \in 1 .. MaxInt /\ id % MAX_PENDING_REQUESTS = f.slot
  <2>1. f.slot = ((cur_request_id % MAX_PENDING_REQUESTS) + f.distance) % MAX_PENDING_REQUESTS
    BY <1>3
  <2> HIDE DEF f
  <2> QED
    BY <1>1, <1>3, <2>1, NextIdNames
<1>5. /\ sd \in FD \ net.open
      /\ NetIs(connect(net), net.open \cup {sd}, net.readfds, net.writefds \cup {sd})
  BY <1>2, Connect DEF IOInv, Sockets
<1>6. /\ Appended.id = id /\ Appended.net = connect(net)
      /\ Appended.table = [table EXCEPT ![f.slot] = Entry(id, sd, tickets + 1)]
      /\ Appended.wire =
           [wire EXCEPT ![sd] = [Fresh("connecting", "web") EXCEPT !.ticket = tickets + 1]]
  BY DEF Appended
<1> HIDE DEF f, id, sd
<1>7. Appends(f.slot, sd, id)
  BY <1>3, <1>4, <1>5, <1>6 DEF Appends
<1> QED
  BY <1>7

-----------------------------------------------------------------------------
(* What a step does to the table of requests and its sockets *)

OnlySlot(i, e) == i \in Slot /\ table' = [table EXCEPT ![i] = e]

\* The entry of slot s is new.
Submits(s, sd, id) ==
  /\ ~Busy(s) /\ sd \in FD \ net.open /\ id \in 1 .. MaxInt /\ id % MAX_PENDING_REQUESTS = s
  /\ OnlySlot(s, Entry(id, sd, tickets + 1))
  /\ NetIs(net', net.open \cup {sd}, net.readfds, net.writefds \cup {sd})
  /\ num_pending_requests' = num_pending_requests + 1

\* The entry of slot i is released.
Frees(i) ==
  /\ Busy(i) /\ OnlySlot(i, FreeSlot)
  /\ NetIs(net', net.open \ {table[i].sd}, net.readfds \ {table[i].sd}, net.writefds \ {table[i].sd})
  /\ num_pending_requests' = num_pending_requests - 1

\* The callback of slot i submits the entry of slot s; then that of i is released.
Replaces(i, s, sd, id) ==
  /\ i \in Slot /\ Busy(i) /\ s \in Slot /\ ~Busy(s)
  /\ sd \in FD \ net.open /\ id \in 1 .. MaxInt /\ id % MAX_PENDING_REQUESTS = s
  /\ table' = [table EXCEPT ![s] = Entry(id, sd, tickets + 1), ![i] = FreeSlot]
  /\ NetIs(net', (net.open \cup {sd}) \ {table[i].sd}, net.readfds \ {table[i].sd},
           (net.writefds \cup {sd}) \ {table[i].sd})
  /\ UNCHANGED num_pending_requests

\* The same, with the connections and what becomes of the requests.
OpenedFor(wires, sd) == [wires EXCEPT ![sd] = [Fresh("connecting", "web") EXCEPT !.ticket = tickets + 1]]
Asks(s, sd, id) ==
  /\ Submits(s, sd, id) /\ wire' = OpenedFor(wire, sd)
  /\ tickets' = tickets + 1 /\ fate' = [fate EXCEPT ![tickets + 1].state = "pending"]
Drops(i) ==
  /\ Frees(i) /\ wire' = [wire EXCEPT ![table[i].sd] = Closed]
  /\ UNCHANGED tickets /\ fate' = [fate EXCEPT ![table[i].ticket].state = "cancelled"]
Tells(i, rc) ==
  /\ Frees(i) /\ wire' = [wire EXCEPT ![table[i].sd] = Closed]
  /\ UNCHANGED tickets /\ fate' = Told(i, rc)
TellsAndAsks(i, rc, s, sd, id) ==
  /\ Replaces(i, s, sd, id) /\ wire' = [OpenedFor(wire, sd) EXCEPT ![table[i].sd] = Closed]
  /\ tickets' = tickets + 1 /\ fate' = [Told(i, rc) EXCEPT ![tickets + 1].state = "pending"]

\* The transfer of slot i goes on: its entry d keeps its id and its socket, which is
\* watched for what comes next.
Transfers(i, d) ==
  /\ Busy(i) /\ OnlySlot(i, d) /\ d \in EntryRec
  /\ d.request_id = table[i].request_id /\ d.sd = table[i].sd /\ d.ticket = table[i].ticket
  /\ Watches(net') /\ net'.open = net.open
  /\ net'.readfds \ {d.sd} = net.readfds \ {d.sd} /\ net'.writefds \ {d.sd} = net.writefds \ {d.sd}
  /\ \/ d.status \in {"CONNECTING_TO_SERVER", "SENDING_REQUEST"} /\ d.sd \in net'.writefds
     \/ d.status \in {"WAITING_FOR_RESPONSE", "READING_RESPONSE"} /\ d.sd \in net'.readfds
  /\ UNCHANGED num_pending_requests

LEMMA MinOfTwo ==
  ASSUME NEW a \in Int, NEW b \in Int
  PROVE  Min({a, b}) = IF a <= b THEN a ELSE b
<1>1. CASE a <= b
  <2>1. \A x \in {a, b} : (\A y \in {a, b} : x <= y) <=> x = a
    BY <1>1
  <2> QED
    BY <1>1, <2>1 DEF Min
<1>2. CASE ~(a <= b)
  <2>1. \A x \in {a, b} : (\A y \in {a, b} : x <= y) <=> x = b
    BY <1>2
  <2> QED
    BY <1>2, <2>1 DEF Min
<1> QED
  BY <1>1, <1>2

\* A read takes a part of what is there; it and the rest are pieces.
LEMMA ReadTypes ==
  ASSUME WireTypes, NEW sd \in FD, NEW space \in Int, NEW k \in ReadSizes(sd, space)
  PROVE  /\ k \in 1 .. Len(wire[sd].unread) /\ k <= space
         /\ Received(sd, k) \in Seq(Piece) /\ Len(Received(sd, k)) = k
         /\ \A n \in 1 .. k : Received(sd, k)[n] = wire[sd].unread[n]
         /\ AfterRead(sd, k) = [wire EXCEPT ![sd].unread = SubSeq(wire[sd].unread, k + 1, Len(wire[sd].unread))]
         /\ SubSeq(wire[sd].unread, k + 1, Len(wire[sd].unread)) \in Seq(Piece)
<1> DEFINE u == wire[sd].unread
<1>1. u \in Seq(Piece) /\ Len(u) \in Nat
  BY DEF WireTypes, WireRec
<1>2. \A n \in 1 .. Len(u) : u[n] \in Piece
  BY <1>1, ElementOfSeq
<1>3. k \in 1 .. Len(u) /\ k <= space
  BY <1>1, MinOfTwo DEF ReadSizes
<1>4. SubSeq(u, 1, k) \in Seq(Piece) /\ Len(SubSeq(u, 1, k)) = k
      /\ \A n \in 1 .. k : SubSeq(u, 1, k)[n] = u[n]
  <2>1. \A n \in 1 .. k : u[n] \in Piece
    BY <1>1, <1>2, <1>3
  <2> HIDE DEF u
  <2>2. /\ SubSeq(u, 1, k) \in Seq(Piece)
        /\ Len(SubSeq(u, 1, k)) = (IF 1 <= k THEN k - 1 + 1 ELSE 0)
        /\ \A n \in 1 .. k - 1 + 1 : SubSeq(u, 1, k)[n] = u[1 + n - 1]
    BY <2>1, <1>3, <1>1, SubSeqProperties
  <2> QED
    BY <2>2, <1>3, <1>1
<1>5. SubSeq(u, k + 1, Len(u)) \in Seq(Piece)
  <2>1. \A n \in k + 1 .. Len(u) : u[n] \in Piece
    BY <1>1, <1>2, <1>3
  <2> HIDE DEF u
  <2> QED
    BY <2>1, <1>3, <1>1, SubSeqProperties
<1> QED
  BY <1>3, <1>4, <1>5 DEF Received, AfterRead

LEMMA EntryTypes ==
  ASSUME FetchTypes, NEW i \in Slot
  PROVE  /\ table[i] \in EntryRec /\ table[i].request_id \in 0 .. MaxInt
         /\ table[i].page \in Seq(Piece) /\ Len(table[i].page) \in Nat /\ table[i].buf_size \in Nat
         /\ table[i].sd \in FD \cup {None} /\ table[i].ticket \in Nat
         /\ table[i].start_time \in Ticks /\ table[i].age \in 0 .. MAX_WAIT + 1
<1>1. table[i] \in EntryRec
  BY DEF FetchTypes
<1> QED
  BY <1>1 DEF EntryRec

\* What a write leaves in the buffer: pieces of the request.
LEMMA SentTypes ==
  ASSUME FetchTypes, NEW i \in Slot, NEW k \in 1 .. RequestLen - Cursor(i)
  PROVE  RequestPieces(table[i].ticket, Cursor(i), k) \in Seq(Piece)
<1>1. table[i].ticket \in Nat /\ Cursor(i) \in Nat
  BY EntryTypes DEF Cursor
<1>2. RequestLen \in Int
  BY FetchAssumption
<1>3. k \in Nat
  BY <1>1, <1>2
<1>4. \A j \in 1 .. k : <<table[i].ticket, -(Cursor(i) + j)>> \in Piece
  BY <1>1, <1>3 DEF Piece, Name
<1>5. RequestPieces(table[i].ticket, Cursor(i), k) \in [1 .. k -> Piece]
  BY <1>4 DEF RequestPieces
<1> QED
  BY <1>3, <1>5

LEMMA FinishKinds ==
  ASSUME IOInv, NEW i \in Slot, Busy(i), NEW rc, NEW max, finish_request(i, rc, max)
  PROVE  Tells(i, rc) \/ \E s, sd, id : TellsAndAsks(i, rc, s, sd, id)
<1>1. table[i].sd \in FD
  BY SocketTypes
<1>2. CASE /\ table' = Released(table, i) /\ num_pending_requests' = num_pending_requests - 1
           /\ net' = close(net, table[i].sd)
           /\ wire' = [wire EXCEPT ![table[i].sd] = Closed] /\ fate' = Told(i, rc)
           /\ UNCHANGED tickets
  <2>1. Frees(i)
    BY <1>1, <1>2, Close DEF Frees, Released, OnlySlot, IOInv, Sockets
  <2> QED
    BY <1>2, <2>1 DEF Tells
<1>3. CASE /\ MaySubmit(max) /\ table' = Released(Appended.table, i)
           /\ net' = close(Appended.net, table[i].sd) /\ UNCHANGED num_pending_requests
           /\ wire' = [Appended.wire EXCEPT ![table[i].sd] = Closed] /\ tickets' = tickets + 1
           /\ fate' = [Told(i, rc) EXCEPT ![tickets + 1].state = "pending"]
  <2>1. PICK s, sd, id : Appends(s, sd, id)
    BY <1>3, AppendedIs
  <2> DEFINE app == Appended.net
             O == net.open \cup {sd}
             W == net.writefds \cup {sd}
  <2>2. NetIs(app, O, net.readfds, W)
    BY <2>1 DEF Appends
  <2>3. NetIs(net', app.open \ {table[i].sd}, app.readfds \ {table[i].sd}, app.writefds \ {table[i].sd})
    <3>1. Watches(app) /\ net' = close(app, table[i].sd)
      BY <1>3, <2>2 DEF NetIs
    <3> HIDE DEF app
    <3> QED
      BY <3>1, <1>1, Close
  <2>4. NetIs(net', O \ {table[i].sd}, net.readfds \ {table[i].sd}, W \ {table[i].sd})
    <3> HIDE DEF app, O, W
    <3> QED
      BY <2>2, <2>3 DEF NetIs
  <2>5. table' = [table EXCEPT ![s] = Entry(id, sd, tickets + 1), ![i] = FreeSlot]
    <3>1. table' = [Appended.table EXCEPT ![i] = FreeSlot]
      BY <1>3 DEF Released
    <3>2. Appended.table = [table EXCEPT ![s] = Entry(id, sd, tickets + 1)]
      BY <2>1 DEF Appends
    <3> QED
      BY <3>1, <3>2
  <2>6. Replaces(i, s, sd, id)
    BY <1>3, <2>1, <2>4, <2>5 DEF Replaces, Appends
  <2>7. wire' = [OpenedFor(wire, sd) EXCEPT ![table[i].sd] = Closed]
    BY <1>3, <2>1 DEF Appends, OpenedFor
  <2> QED
    BY <1>3, <2>6, <2>7 DEF TellsAndAsks
<1> QED
  BY <1>2, <1>3 DEF finish_request

LEMMA SubmitKinds ==
  ASSUME IOInv, NEW max, request_page(max)
  PROVE  \E s, sd, id : Asks(s, sd, id)
<1>1. PICK s, sd, id : Appends(s, sd, id)
  BY AppendedIs DEF request_page
<1>2. Submits(s, sd, id)
  BY <1>1 DEF request_page, Appends, Submits, OnlySlot
<1>3. wire' = OpenedFor(wire, sd)
  BY <1>1 DEF request_page, Appends, OpenedFor
<1> QED
  BY <1>2, <1>3 DEF Asks, request_page

LEMMA CancelKinds ==
  ASSUME IOInv, NEW i \in Slot, Busy(i), cancel_request(table[i].request_id)
  PROVE  Drops(i)
<1>1. table[i].request_id % MAX_PENDING_REQUESTS = i
  BY DEF IOInv, IdNamesSlot
<1>2. Cancelled(table[i].request_id) = {i}
  BY <1>1 DEF Cancelled
<1>3. /\ table' = Released(table, i) /\ num_pending_requests' = num_pending_requests - 1
      /\ net' = close(net, table[i].sd) /\ wire' = [wire EXCEPT ![table[i].sd] = Closed]
      /\ fate' = [fate EXCEPT ![table[i].ticket].state = "cancelled"] /\ UNCHANGED tickets
  BY <1>2 DEF cancel_request
<1>4. table[i].sd \in FD
  BY SocketTypes
<1>5. Frees(i)
  BY <1>3, <1>4, Close DEF Frees, Released, OnlySlot, IOInv, Sockets
<1> QED
  BY <1>3, <1>5 DEF Drops

LEMMA TransferKinds ==
  ASSUME IOInv, NEW i \in Slot, SendPacket(i) \/ NotReady(i) \/ ReadPacket(i)
  PROVE  UNCHANGED <<net, table, num_pending_requests>> \/ \E d : Transfers(i, d)
<1> DEFINE sd == table[i].sd
           e == table[i]
<1>0. Busy(i) /\ UNCHANGED num_pending_requests
  BY DEF SendPacket, NotReady, ReadPacket, Scans, InTransfer
<1>1. sd \in net.open /\ sd \in FD /\ (Sending(i) => sd \in net.writefds) /\ (Reading(i) => sd \in net.readfds)
      /\ Watches(net)
  BY <1>0, SocketTypes DEF IOInv, Sockets, SlotSocket
<1>2. FetchTypes /\ WireTypes
  BY DEF IOInv, Types
<1>3. CASE SendPacket(i)
  <2> DEFINE sent(k) == RequestPieces(e.ticket, Cursor(i), k)
  <2>1. PICK k \in 1 .. RequestLen - Cursor(i) :
          IF Cursor(i) + k < RequestLen
          THEN /\ table' = [table EXCEPT ![i].status = "SENDING_REQUEST", ![i].page = @ \o sent(k)]
               /\ UNCHANGED net
          ELSE /\ table' = [table EXCEPT ![i].status = "WAITING_FOR_RESPONSE"]
               /\ net' = set_read(net, table[i].sd)
    BY <1>3 DEF SendPacket
  <2>2. Sending(i)
    BY <1>3 DEF SendPacket
  <2>3. CASE table' = [table EXCEPT ![i].status = "SENDING_REQUEST", ![i].page = @ \o sent(k)] /\ UNCHANGED net
    <3> DEFINE p == e.page \o sent(k)
               d == [e EXCEPT !.status = "SENDING_REQUEST", !.page = p]
    <3>1. table' = [table EXCEPT ![i] = d]
      BY <2>3, <1>2 DEF FetchTypes, EntryRec
    <3>2. p \in Seq(Piece) /\ e \in EntryRec
      BY <1>2, EntryTypes, SentTypes, ConcatProperties
    <3> HIDE DEF p
    <3>3. /\ d \in EntryRec /\ d.status = "SENDING_REQUEST" /\ d.sd = e.sd
          /\ d.request_id = e.request_id /\ d.ticket = e.ticket
      BY <3>2 DEF EntryRec
    <3>4. Transfers(i, d)
      <4> HIDE DEF d
      <4> QED
        BY <3>1, <3>3, <1>0, <1>1, <2>2, <2>3 DEF Transfers, OnlySlot
    <3> QED
      BY <3>4
  <2>4. CASE table' = [table EXCEPT ![i].status = "WAITING_FOR_RESPONSE"] /\ net' = set_read(net, sd)
    <3> DEFINE d == [e EXCEPT !.status = "WAITING_FOR_RESPONSE"]
    <3>1. table' = [table EXCEPT ![i] = d]
      BY <2>4, <1>2 DEF FetchTypes, EntryRec
    <3>2. e \in EntryRec
      BY <1>2, EntryTypes
    <3>3. /\ d \in EntryRec /\ d.status = "WAITING_FOR_RESPONSE" /\ d.sd = e.sd
          /\ d.request_id = e.request_id /\ d.ticket = e.ticket
      BY <3>2 DEF EntryRec
    <3>4. NetIs(net', net.open, net.readfds \cup {sd}, net.writefds \ {sd})
      BY <2>4, <1>1, SetRead
    <3>5. Transfers(i, d)
      <4> HIDE DEF d
      <4> QED
        BY <3>1, <3>3, <3>4, <1>0, <1>1 DEF Transfers, OnlySlot, NetIs
    <3> QED
      BY <3>5
  <2> QED
    BY <2>1, <2>3, <2>4
<1>4. CASE NotReady(i)
  <2>1. CASE UNCHANGED <<net, wire, table>>
    BY <2>1, <1>0
  <2>2. CASE /\ net' = close_write(net, sd) /\ table' = [table EXCEPT ![i].status = "READING_RESPONSE"]
             /\ e.status = "WAITING_FOR_RESPONSE"
    <3> DEFINE d == [e EXCEPT !.status = "READING_RESPONSE"]
    <3>1. table' = [table EXCEPT ![i] = d]
      BY <2>2, <1>2 DEF FetchTypes, EntryRec
    <3>2. e \in EntryRec
      BY <1>2, EntryTypes
    <3>3. /\ d \in EntryRec /\ d.status = "READING_RESPONSE" /\ d.sd = e.sd
          /\ d.request_id = e.request_id /\ d.ticket = e.ticket
      BY <3>2 DEF EntryRec
    <3>4. NetIs(net', net.open, net.readfds, net.writefds \ {sd})
      BY <2>2, <1>1, CloseWrite
    <3>5. sd \in net.readfds
      BY <2>2, <1>1 DEF Reading
    <3>6. Transfers(i, d)
      <4> HIDE DEF d
      <4> QED
        BY <3>1, <3>3, <3>4, <3>5, <1>0, <1>1 DEF Transfers, OnlySlot, NetIs
    <3> QED
      BY <3>6
  <2> QED
    BY <1>4, <2>1, <2>2 DEF NotReady
<1>5. CASE ReadPacket(i)
  <2>1. PICK k \in ReadSizes(sd, Space(i)) :
          table' = [table EXCEPT ![i].status = "READING_RESPONSE", ![i].buf_size = NewSize(i),
                                 ![i].page = Grown(@, Received(sd, k))]
    BY <1>5 DEF ReadPacket
  <2>2. Reading(i) /\ UNCHANGED net
    BY <1>5 DEF ReadPacket
  <2> DEFINE n == NewSize(i)
             g == Grown(e.page, Received(sd, k))
             d == [e EXCEPT !.status = "READING_RESPONSE", !.buf_size = n, !.page = g]
  <2>3. table' = [table EXCEPT ![i] = d]
    BY <2>1, <1>2 DEF FetchTypes, EntryRec
  <2>4. e \in EntryRec /\ e.page \in Seq(Piece) /\ e.buf_size \in Nat
        /\ Len(e.page) \in Nat
    BY <1>2, EntryTypes
  <2>5. NewSize(i) \in Nat /\ Space(i) \in Int
    <3>1. NewSize(i) = 2 * e.buf_size \/ NewSize(i) = e.buf_size
      BY DEF NewSize
    <3>2. NewSize(i) \in Nat
      BY <2>4, <3>1
    <3> QED
      BY <2>4, <3>2 DEF Space, Cursor
  <2>6. Received(sd, k) \in Seq(Piece)
    BY <1>1, <1>2, <2>5, ReadTypes
  <2>7. g \in Seq(Piece)
    BY <2>4, <2>6, ConcatProperties DEF Grown
  <2>8. /\ d \in EntryRec /\ d.status = "READING_RESPONSE" /\ d.sd = e.sd
        /\ d.request_id = e.request_id /\ d.ticket = e.ticket
    <3>1. n \in Nat /\ g \in Seq(Piece)
      BY <2>5, <2>7
    <3> HIDE DEF n, g
    <3> QED
      BY <2>4, <3>1 DEF EntryRec
  <2>9. Transfers(i, d)
    <3> HIDE DEF d
    <3> QED
      BY <2>3, <2>8, <1>0, <1>1, <2>2 DEF Transfers, OnlySlot
  <2> QED
    BY <2>9
<1> QED
  BY <1>3, <1>4, <1>5

-----------------------------------------------------------------------------
(* These steps keep the sockets apart and the ids in their slots. *)

BusySlots == { i \in Slot : Busy(i) }

LEMMA FiniteSlots == IsFiniteSet(Slot) /\ IsFiniteSet(BusySlots)
<1>1. 0 \in Int /\ MAX_PENDING_REQUESTS - 1 \in Int
  BY FetchAssumption
<1>2. IsFiniteSet(Slot)
  BY <1>1, FS_Interval DEF Slot
<1>3. BusySlots \subseteq Slot
  BY DEF BusySlots
<1> QED
  BY <1>2, <1>3, FS_Subset

LEMMA NewEntryIs ==
  ASSUME NEW id, NEW sd, NEW t
  PROVE  /\ Entry(id, sd, t).request_id = id /\ Entry(id, sd, t).sd = sd
         /\ Entry(id, sd, t).status = "CONNECTING_TO_SERVER" /\ Entry(id, sd, t).ticket = t
         /\ Entry(id, sd, t).start_time = get_time(0) /\ Entry(id, sd, t).age = 0
         /\ Entry(id, sd, t).page = << >> /\ Entry(id, sd, t).buf_size = INITIAL_BUFFER_SIZE
         /\ FreeSlot.request_id = 0
BY DEF Entry, FreeSlot

LEMMA TableIs ==
  ASSUME IOInv, NEW i \in Slot, NEW e, OnlySlot(i, e)
  PROVE  table'[i] = e /\ \A j \in Slot : j # i => table'[j] = table[j]
BY DEF OnlySlot, IOInv, Types, FetchTypes

LEMMA SubmitKeeps ==
  ASSUME IOInv, SameCommand, SameReport, NEW s, NEW sd, NEW id, Submits(s, sd, id)
  PROVE  Sockets' /\ IdNamesSlot'
<1> DEFINE e == Entry(id, sd, tickets + 1)
<1>1. /\ s \in Slot /\ ~Busy(s) /\ table'[s] = e /\ \A j \in Slot : j # s => table'[j] = table[j]
      /\ id \in 1 .. MaxInt /\ id % MAX_PENDING_REQUESTS = s /\ sd \in FD \ net.open
      /\ NetIs(net', net.open \cup {sd}, net.readfds, net.writefds \cup {sd})
      /\ num_pending_requests' = num_pending_requests + 1
  BY TableIs DEF Submits, OnlySlot
<1>2. e.request_id = id /\ e.sd = sd /\ e.status = "CONNECTING_TO_SERVER" /\ id # 0 /\ id > 0
  BY <1>1, NewEntryIs, FetchAssumption
<1>3. main_sd \in net.open /\ (report_sd # None => report_sd \in net.open)
      /\ (request_status # "NONE" => request_sd \in net.open) /\ None \notin FD
  BY SocketTypes DEF IOInv, Sockets, MainSocket, ReportSocket, CommandSocket
<1> HIDE DEF e
<1>4. \A j \in Slot : j # s => SlotSocket(j)'
  BY <1>1, <1>2, <1>3
     DEF IOInv, Sockets, SlotSocket, NetIs, SameCommand, SameReport, Busy, Sending, Reading
<1>5. SlotSocket(s)'
  BY <1>1, <1>2, <1>3
     DEF IOInv, Sockets, SlotSocket, NetIs, SameCommand, SameReport, Busy, Sending, Reading
<1>6. CommandSocket' /\ ReportSocket' /\ MainSocket'
  BY <1>1 DEF IOInv, Sockets, CommandSocket, ReportSocket, MainSocket, NetIs, SameCommand, SameReport, main_sd
<1>7. NoOtherSocket'
  <2>1. \A i \in Slot : Busy(i) => table'[i] = table[i]
    BY <1>1
  <2> QED
    BY <1>1, <1>2, <2>1
       DEF IOInv, Sockets, NoOtherSocket, NetIs, SameCommand, SameReport, Busy, main_sd
<1>8. IdNamesSlot'
  <2>1. BusySlots' = BusySlots \cup {s} /\ s \notin BusySlots
    BY <1>1, <1>2 DEF BusySlots, Busy
  <2>2. Cardinality(BusySlots \cup {s}) = Cardinality(BusySlots) + 1
    BY <2>1, FiniteSlots, FS_AddElement
  <2>3. num_pending_requests' = Cardinality(BusySlots')
    BY <1>1, <2>1, <2>2 DEF IOInv, IdNamesSlot, BusySlots
  <2>4. \A i \in Slot : Busy(i)' =>
          table'[i].request_id > 0 /\ table'[i].request_id % MAX_PENDING_REQUESTS = i
    BY <1>1, <1>2 DEF IOInv, IdNamesSlot, Busy
  <2> QED
    BY <2>3, <2>4 DEF IdNamesSlot, BusySlots
<1> QED
  BY <1>1, <1>4, <1>5, <1>6, <1>7, <1>8 DEF Sockets, NetIs

LEMMA FreeKeeps ==
  ASSUME IOInv, SameCommand, SameReport, NEW i, Frees(i)
  PROVE  Sockets' /\ IdNamesSlot'
<1> DEFINE sd == table[i].sd
<1>1. /\ i \in Slot /\ Busy(i) /\ table'[i] = FreeSlot /\ \A j \in Slot : j # i => table'[j] = table[j]
      /\ NetIs(net', net.open \ {sd}, net.readfds \ {sd}, net.writefds \ {sd})
      /\ num_pending_requests' = num_pending_requests - 1
  BY TableIs DEF Frees, OnlySlot
<1>2. FreeSlot.request_id = 0
  BY DEF FreeSlot
<1>3. sd \notin {main_sd, report_sd} /\ (request_status # "NONE" => request_sd # sd)
      /\ \A j \in Slot : Busy(j) /\ j # i => table[j].sd # sd
  BY <1>1 DEF IOInv, Sockets, SlotSocket
<1> HIDE DEF sd
<1>4. \A j \in Slot : SlotSocket(j)'
  BY <1>1, <1>2, <1>3
     DEF IOInv, Sockets, SlotSocket, NetIs, SameCommand, SameReport, Busy, Sending, Reading
<1>5. CommandSocket' /\ ReportSocket' /\ MainSocket'
  BY <1>1, <1>3
     DEF IOInv, Sockets, CommandSocket, ReportSocket, MainSocket, NetIs, SameCommand, SameReport, main_sd
<1>6. NoOtherSocket'
  BY <1>1, <1>2, <1>3
     DEF IOInv, Sockets, NoOtherSocket, NetIs, SameCommand, SameReport, Busy, main_sd, sd
<1>7. IdNamesSlot'
  <2>1. BusySlots' = BusySlots \ {i} /\ i \in BusySlots
    BY <1>1, <1>2 DEF BusySlots, Busy
  <2>2. Cardinality(BusySlots \ {i}) = Cardinality(BusySlots) - 1
    BY <2>1, FiniteSlots, FS_RemoveElement
  <2>3. num_pending_requests' = Cardinality(BusySlots')
    BY <1>1, <2>1, <2>2 DEF IOInv, IdNamesSlot, BusySlots
  <2>4. \A j \in Slot : Busy(j)' =>
          table'[j].request_id > 0 /\ table'[j].request_id % MAX_PENDING_REQUESTS = j
    BY <1>1, <1>2 DEF IOInv, IdNamesSlot, Busy
  <2> QED
    BY <2>3, <2>4 DEF IdNamesSlot, BusySlots
<1> QED
  BY <1>1, <1>4, <1>5, <1>6, <1>7 DEF Sockets, NetIs

LEMMA ReplaceKeeps ==
  ASSUME IOInv, SameCommand, SameReport, NEW i, NEW s, NEW sd, NEW id, Replaces(i, s, sd, id)
  PROVE  Sockets' /\ IdNamesSlot'
<1> DEFINE e == Entry(id, sd, tickets + 1)
           old == table[i].sd
<1>1. /\ i \in Slot /\ Busy(i) /\ s \in Slot /\ ~Busy(s) /\ i # s
      /\ table'[i] = FreeSlot /\ table'[s] = e
      /\ \A j \in Slot : j # i /\ j # s => table'[j] = table[j]
      /\ id \in 1 .. MaxInt /\ id % MAX_PENDING_REQUESTS = s /\ sd \in FD \ net.open
      /\ UNCHANGED num_pending_requests
  BY DEF Replaces, IOInv, Types, FetchTypes
<1>2. e.request_id = id /\ e.sd = sd /\ e.status = "CONNECTING_TO_SERVER" /\ id # 0 /\ id > 0
      /\ FreeSlot.request_id = 0
  BY <1>1, NewEntryIs, FetchAssumption
<1>3. main_sd \in net.open /\ (report_sd # None => report_sd \in net.open)
      /\ (request_status # "NONE" => request_sd \in net.open) /\ None \notin FD
  BY SocketTypes DEF IOInv, Sockets, MainSocket, ReportSocket, CommandSocket
<1>4. /\ old \in net.open \ {main_sd, report_sd} /\ (request_status # "NONE" => request_sd # old)
      /\ \A j \in Slot : Busy(j) /\ j # i => table[j].sd # old
  BY <1>1 DEF IOInv, Sockets, SlotSocket
<1> DEFINE O == (net.open \cup {sd}) \ {old}
           R == net.readfds \ {old}
           W == (net.writefds \cup {sd}) \ {old}
<1>5. NetIs(net', O, R, W)
  BY DEF Replaces
<1>6. sd # old /\ sd \in O /\ sd \in W /\ \A x \in net.open : x # old => x \in O /\ x # sd
  <2>1. sd \notin net.open /\ old \in net.open
    BY <1>1, <1>4
  <2> HIDE DEF old
  <2>2. sd # old /\ \A x \in net.open : x # sd
    BY <2>1
  <2> QED
    BY <2>2
<1>7. /\ \A x \in net.readfds : x # old => x \in R
      /\ \A x \in net.writefds : x # old => x \in W
      /\ \A x \in O : x = sd \/ (x \in net.open /\ x # old)
  OBVIOUS
<1> HIDE DEF e, old, O, R, W
<1>8. \A j \in Slot : j # s => SlotSocket(j)'
  BY <1>1, <1>2, <1>3, <1>4, <1>5, <1>6, <1>7
     DEF IOInv, Sockets, SlotSocket, NetIs, SameCommand, SameReport, Busy, Sending, Reading
<1>9. SlotSocket(s)'
  BY <1>1, <1>2, <1>3, <1>5, <1>6
     DEF IOInv, Sockets, SlotSocket, NetIs, SameCommand, SameReport, Busy, Sending, Reading
<1>10. CommandSocket' /\ ReportSocket' /\ MainSocket'
  BY <1>3, <1>4, <1>5, <1>6, <1>7
     DEF IOInv, Sockets, CommandSocket, ReportSocket, MainSocket, NetIs, SameCommand, SameReport, main_sd
<1>11. NoOtherSocket'
  <2>1. SUFFICES ASSUME NEW x \in O, x \notin {main_sd, report_sd},
                        ~(request_status # "NONE" /\ x = request_sd)
                 PROVE  \E j \in Slot : Busy(j)' /\ table'[j].sd = x
    BY <1>5 DEF NoOtherSocket, NetIs, SameCommand, SameReport, main_sd
  <2>2. CASE x = sd
    BY <1>1, <1>2, <2>2 DEF Busy
  <2>3. CASE x # sd
    <3>1. x \in net.open /\ x # old
      BY <1>7, <2>3
    <3>2. PICK j \in Slot : Busy(j) /\ table[j].sd = x
      BY <2>1, <3>1 DEF IOInv, Sockets, NoOtherSocket
    <3>3. j # i /\ j # s
      BY <1>1, <3>1, <3>2 DEF old
    <3> QED
      BY <1>1, <3>2, <3>3 DEF Busy
  <2> QED
    BY <2>2, <2>3
<1>12. IdNamesSlot'
  <2>1. BusySlots' = (BusySlots \cup {s}) \ {i} /\ s \notin BusySlots /\ i \in BusySlots \cup {s}
    BY <1>1, <1>2 DEF BusySlots, Busy
  <2>2. Cardinality(BusySlots \cup {s}) = Cardinality(BusySlots) + 1 /\ IsFiniteSet(BusySlots \cup {s})
    BY <2>1, FiniteSlots, FS_AddElement
  <2>3. Cardinality((BusySlots \cup {s}) \ {i}) = Cardinality(BusySlots \cup {s}) - 1
    BY <2>1, <2>2, FS_RemoveElement
  <2>4. num_pending_requests' = Cardinality(BusySlots')
    <3>1. Cardinality(BusySlots) \in Nat
      BY FiniteSlots, FS_CardinalityType
    <3>2. Cardinality(BusySlots') = Cardinality(BusySlots)
      BY <2>1, <2>2, <2>3, <3>1
    <3>3. num_pending_requests = Cardinality(BusySlots)
      BY DEF IOInv, IdNamesSlot, BusySlots
    <3> QED
      BY <1>1, <3>2, <3>3
  <2>5. \A j \in Slot : Busy(j)' =>
          table'[j].request_id > 0 /\ table'[j].request_id % MAX_PENDING_REQUESTS = j
    BY <1>1, <1>2 DEF IOInv, IdNamesSlot, Busy
  <2> QED
    BY <2>4, <2>5 DEF IdNamesSlot, BusySlots
<1> QED
  BY <1>5, <1>8, <1>9, <1>10, <1>11, <1>12 DEF Sockets, NetIs

LEMMA TransferKeeps ==
  ASSUME IOInv, SameCommand, SameReport, NEW i, NEW d, Transfers(i, d)
  PROVE  Sockets' /\ IdNamesSlot'
<1> DEFINE sd == table[i].sd
<1>1. /\ i \in Slot /\ Busy(i) /\ table'[i] = d /\ \A j \in Slot : j # i => table'[j] = table[j]
      /\ d.request_id = table[i].request_id /\ d.sd = sd /\ UNCHANGED num_pending_requests
  BY TableIs DEF Transfers, OnlySlot
<1>2. /\ Watches(net') /\ net'.open = net.open
      /\ net'.readfds \ {sd} = net.readfds \ {sd} /\ net'.writefds \ {sd} = net.writefds \ {sd}
      /\ \/ d.status \in {"CONNECTING_TO_SERVER", "SENDING_REQUEST"} /\ sd \in net'.writefds
         \/ d.status \in {"WAITING_FOR_RESPONSE", "READING_RESPONSE"} /\ sd \in net'.readfds
  BY <1>1 DEF Transfers
<1>3. sd \notin {main_sd, report_sd} /\ (request_status # "NONE" => request_sd # sd) /\ sd \in net.open
      /\ \A j \in Slot : Busy(j) /\ j # i => table[j].sd # sd
  BY <1>1 DEF IOInv, Sockets, SlotSocket
<1> HIDE DEF sd
<1>4. \A x : x # sd => (x \in net.readfds => x \in net'.readfds) /\ (x \in net.writefds => x \in net'.writefds)
  BY <1>2
<1>5. \A j \in Slot : j # i => SlotSocket(j)'
  BY <1>1, <1>2, <1>3, <1>4
     DEF IOInv, Sockets, SlotSocket, SameCommand, SameReport, Busy, Sending, Reading
<1>6. SlotSocket(i)'
  BY <1>1, <1>2, <1>3
     DEF IOInv, Sockets, SlotSocket, SameCommand, SameReport, Busy, Sending, Reading
<1>7. CommandSocket' /\ ReportSocket' /\ MainSocket'
  BY <1>2, <1>3, <1>4
     DEF IOInv, Sockets, CommandSocket, ReportSocket, MainSocket, SameCommand, SameReport, main_sd
<1>8. NoOtherSocket'
  BY <1>1, <1>2 DEF IOInv, Sockets, NoOtherSocket, SameCommand, SameReport, Busy, main_sd, sd
<1>9. IdNamesSlot'
  <2>1. BusySlots' = BusySlots
    BY <1>1 DEF BusySlots, Busy
  <2> QED
    BY <1>1, <2>1 DEF IOInv, IdNamesSlot, Busy, BusySlots
<1> QED
  BY <1>2, <1>5, <1>6, <1>7, <1>8, <1>9 DEF Sockets

-----------------------------------------------------------------------------
(* Every step keeps the types: the commands. *)

LEMMA PartTypes ==
  ASSUME NEW S, NEW s \in Seq(S), NEW m \in Nat \ {0}, NEW n \in Int, n <= Len(s)
  PROVE  /\ SubSeq(s, m, n) \in Seq(S)
         /\ Len(SubSeq(s, m, n)) = (IF m <= n THEN n - m + 1 ELSE 0)
         /\ \A i \in 1 .. n - m + 1 : SubSeq(s, m, n)[i] = s[m + i - 1]
<1>1. Len(s) \in Nat /\ \A i \in 1 .. Len(s) : s[i] \in S
  BY ElementOfSeq
<1>2. \A i \in m .. n : s[i] \in S
  BY <1>1
<1> QED
  BY <1>1, <1>2, SubSeqProperties

LEMMA RestTypes ==
  ASSUME NEW S, NEW s \in Seq(S), NEW cursor \in Nat
  PROVE  /\ Rest(s, cursor) \in Seq(S) /\ Len(Rest(s, cursor)) \in Nat
         /\ \A k \in 0 .. Len(Rest(s, cursor)) : SubSeq(Rest(s, cursor), 1, k) \in Seq(S)
<1>1. Len(s) \in Nat /\ cursor + 1 \in Nat \ {0}
  OBVIOUS
<1>2. Rest(s, cursor) \in Seq(S)
  BY <1>1, PartTypes DEF Rest
<1>3. Len(Rest(s, cursor)) \in Nat
  BY <1>2
<1>4. ASSUME NEW k \in 0 .. Len(Rest(s, cursor)) PROVE SubSeq(Rest(s, cursor), 1, k) \in Seq(S)
  <2>1. k \in Int /\ k <= Len(Rest(s, cursor)) /\ 1 \in Nat \ {0}
    BY <1>3
  <2> QED
    BY <1>2, <2>1, PartTypes
<1> QED
  BY <1>2, <1>3, <1>4

LEMMA TextTypes ==
  /\ \A m \in Name : Text(m) \in Seq(Piece) /\ Response(m) \in Seq(Piece)
  /\ \A r \in Report : Text(r) \in Seq(Report \X Nat)
  /\ \A m : Len(Text(m)) = Size /\ Len(Response(m)) = Size
  /\ \A m, i : i \in 1 .. Size => Text(m)[i] = <<m, i>> /\ Response(m)[i] = <<m, Size + i>>
<1>1. ASSUME NEW S, NEW f, f \in [1 .. 2 -> S] PROVE f \in Seq(S) /\ Len(f) = 2
  <2>1. f \in UNION { [1 .. n -> S] : n \in Nat }
    BY <1>1
  <2>2. f \in Seq(S)
    BY <2>1, SeqDef
  <2>3. Len(f) \in Nat /\ DOMAIN f = 1 .. Len(f) /\ DOMAIN f = 1 .. 2
    BY <1>1, <2>2, LenProperties
  <2>4. 2 \in 1 .. Len(f)
    BY <2>3
  <2>5. Len(f) \in 1 .. 2
    <3>1. Len(f) \in 1 .. Len(f)
      BY <2>3, <2>4
    <3>2. Len(f) \in DOMAIN f
      BY <2>3, <3>1
    <3> QED
      BY <2>3, <3>2
  <2> QED
    BY <2>2, <2>4, <2>5
<1>2. \A m \in Name : Text(m) \in [1 .. 2 -> Piece] /\ Response(m) \in [1 .. 2 -> Piece]
  BY DEF Text, Response, Size, Piece
<1>3. \A r \in Report : Text(r) \in [1 .. 2 -> Report \X Nat]
  BY DEF Text, Size
<1>4. \A m : Text(m) \in [1 .. 2 -> {m} \X Nat] /\ Response(m) \in [1 .. 2 -> {m} \X Nat]
  BY DEF Text, Response, Size
<1>5. \A m : Len(Text(m)) = Size /\ Len(Response(m)) = Size
  BY <1>1, <1>4 DEF Size
<1>6. \A m, i : i \in 1 .. Size => Text(m)[i] = <<m, i>> /\ Response(m)[i] = <<m, Size + i>>
  BY DEF Text, Response
<1>7. \A m \in Name : Text(m) \in Seq(Piece) /\ Response(m) \in Seq(Piece)
  BY <1>1, <1>2
<1>8. \A r \in Report : Text(r) \in Seq(Report \X Nat)
  BY <1>1, <1>3
<1> QED
  BY <1>5, <1>6, <1>7, <1>8

LEMMA WireUpdate ==
  ASSUME WireTypes, NEW sd, NEW r \in WireRec
  PROVE  [wire EXCEPT ![sd] = r] \in [FD -> WireRec]
BY DEF WireTypes

LEMMA FreshTypes ==
  /\ Closed \in WireRec
  /\ \A state \in {"closed", "connecting", "up", "broken"},
        peer \in Command \cup {"nobody", "listen", "manager"} :
          Fresh(state, peer) \in WireRec /\ Fresh(state, peer).to # "web"
  /\ \A state \in {"closed", "connecting", "up", "broken"}, t \in Ticket :
          [Fresh(state, "web") EXCEPT !.ticket = t] \in WireRec
<1>1. << >> \in Seq(Piece) /\ "web" \notin Command \cup {"nobody", "listen", "manager"}
  BY EmptySeq, CommAssumption
<1>2. Ticket \subseteq Nat
  BY FetchAssumption DEF Ticket
<1> QED
  BY <1>1, <1>2 DEF Closed, Fresh, WireRec

LEMMA ReadWire ==
  ASSUME WireTypes, NEW sd \in FD, NEW space \in Int, NEW k \in ReadSizes(sd, space)
  PROVE  AfterRead(sd, k) \in [FD -> WireRec]
<1> DEFINE rest == SubSeq(wire[sd].unread, k + 1, Len(wire[sd].unread))
           r == [wire[sd] EXCEPT !.unread = rest]
<1>1. AfterRead(sd, k) = [wire EXCEPT ![sd].unread = rest] /\ rest \in Seq(Piece)
  BY ReadTypes
<1> HIDE DEF rest
<1>2. AfterRead(sd, k) = [wire EXCEPT ![sd] = r]
  BY <1>1 DEF WireTypes
<1>3. r \in WireRec
  BY <1>1 DEF WireTypes, WireRec
<1> QED
  BY <1>2, <1>3, WireUpdate

\* A client's record with one field changed.
LEMMA ClientUpdate ==
  ASSUME client \in [Command -> ClientRec], NEW c
  PROVE  /\ [client EXCEPT ![c].gone = TRUE] \in [Command -> ClientRec]
         /\ [client EXCEPT ![c].fin = TRUE] \in [Command -> ClientRec]
         /\ \A part \in Seq(Piece) : [client EXCEPT ![c].got = @ \o part] \in [Command -> ClientRec]
         /\ \A piece \in Piece : [client EXCEPT ![c].pieces = Append(@, piece)] \in [Command -> ClientRec]
<1>1. [client EXCEPT ![c].gone = TRUE] \in [Command -> ClientRec]
  BY DEF ClientRec
<1>2. [client EXCEPT ![c].fin = TRUE] \in [Command -> ClientRec]
  BY DEF ClientRec
<1>3. ASSUME NEW part \in Seq(Piece)
      PROVE  [client EXCEPT ![c].got = @ \o part] \in [Command -> ClientRec]
  <2>1. \A d \in Command : client[d].got \o part \in Seq(Piece)
    BY ConcatProperties DEF ClientRec
  <2> QED
    BY <2>1 DEF ClientRec
<1>4. ASSUME NEW piece \in Piece
      PROVE  [client EXCEPT ![c].pieces = Append(@, piece)] \in [Command -> ClientRec]
  <2>1. \A d \in Command : Append(client[d].pieces, piece) \in Seq(Piece)
    BY AppendProperties DEF ClientRec
  <2> QED
    BY <2>1 DEF ClientRec
<1> QED
  BY <1>1, <1>2, <1>3, <1>4

LEMMA HangUpTypes ==
  ASSUME IOInv, HangUp
  PROVE  WireTypes' /\ request_status' = "NONE"
BY WireUpdate, FreshTypes DEF IOInv, Types, HangUp, WireTypes

LEMMA CommandTyped ==
  ASSUME IOInv, CommandPart
  PROVE  WireTypes' /\ CommandTypes'
<1>0. WireTypes /\ CommandTypes /\ client \in [Command -> ClientRec]
  BY DEF IOInv, Types, CommandTypes
<1>1. CASE AcceptCommand
  <2> DEFINE c == Head(backlog)
             sd == NewFD(net)
             r == [Fresh("up", c) EXCEPT !.unread = client[c].pieces, !.fin = client[c].fin]
  <2>1. c \in Command /\ Tail(backlog) \in Seq(Command)
    BY <1>0, <1>1, HeadTailProperties DEF AcceptCommand, CommandTypes
  <2>2. sd \in FD
    BY <1>1, LowestDescriptor DEF AcceptCommand
  <2>3. client[c] \in ClientRec /\ Fresh("up", c) \in WireRec /\ Fresh("up", c).to # "web"
    BY <1>0, <2>1, FreshTypes
  <2> HIDE DEF c
  <2>4. r \in WireRec
    BY <2>3 DEF ClientRec, WireRec
  <2>5. wire' = [wire EXCEPT ![sd] = r]
    BY <1>1 DEF AcceptCommand, c
  <2> HIDE DEF r, sd
  <2>6. WireTypes'
    BY <1>0, <2>4, <2>5, WireUpdate DEF WireTypes
  <2>7. CommandTypes'
    BY <1>0, <1>1, <2>1, <2>2, EmptySeq DEF AcceptCommand, CommandTypes, sd
  <2> QED
    BY <2>6, <2>7
<1>2. CASE ReadCommandFails
  <2>1. client' \in [Command -> ClientRec]
    BY <1>0, <1>2, ClientUpdate DEF ReadCommandFails
  <2> QED
    BY <1>0, <1>2, <2>1, HangUpTypes DEF ReadCommandFails, CommandTypes
<1>3. CASE ReadCommand
  <2>1. PICK k \in ReadSizes(request_sd, Size) :
          /\ buffer' = buffer \o Received(request_sd, k)
          /\ buffer_cursor' = Len(buffer \o Received(request_sd, k))
          /\ wire' = AfterRead(request_sd, k)
          /\ request_status' = "REQUEST_READY" \/ UNCHANGED request_status
    BY <1>3 DEF ReadCommand
  <2>2. request_sd \in FD /\ Size \in Int
    BY <1>3, SocketTypes DEF ReadCommand, Size
  <2>3. Received(request_sd, k) \in Seq(Piece)
    BY <1>0, <2>2, ReadTypes
  <2>4. buffer' \in Seq(Piece) /\ buffer_cursor' \in Nat
    <3>1. buffer \o Received(request_sd, k) \in Seq(Piece)
      BY <1>0, <2>3, ConcatProperties DEF CommandTypes
    <3> QED
      BY <2>1, <3>1
  <2>5. WireTypes'
    BY <1>0, <2>1, <2>2, ReadWire DEF WireTypes
  <2> QED
    BY <1>0, <1>3, <2>1, <2>4, <2>5 DEF ReadCommand, CommandTypes
<1>4. CASE ReadCommandEof
  <2>1. PICK k \in 0 .. Len(buffer) : buffer' = SubSeq(buffer, 1, k)
    BY <1>4 DEF ReadCommandEof
  <2>2. buffer' \in Seq(Piece)
    <3>1. buffer \in Seq(Piece) /\ Len(buffer) \in Nat /\ k \in Int /\ k <= Len(buffer) /\ 1 \in Nat \ {0}
      BY <1>0 DEF CommandTypes
    <3> QED
      BY <2>1, <3>1, PartTypes
  <2>3. buffer_cursor' \in Nat
    BY <1>4 DEF ReadCommandEof, Size
  <2> QED
    BY <1>0, <1>4, <2>2, <2>3 DEF ReadCommandEof, CommandTypes, WireTypes
<1>5. CASE WriteResponse
  <2> DEFINE rest == Rest(buffer, buffer_cursor)
             c == wire[request_sd].to
  <2>1. \A k \in 0 .. Len(rest) : SubSeq(rest, 1, k) \in Seq(Piece)
    BY <1>0, RestTypes DEF CommandTypes
  <2>2. Len(rest) \in Nat
    BY <1>0, RestTypes DEF CommandTypes
  <2>3. CASE /\ HangUp /\ buffer' = << >> /\ buffer_cursor' = 0
             /\ client' = [client EXCEPT ![c].gone = TRUE]
    <3>1. client' \in [Command -> ClientRec]
      BY <1>0, <2>3, ClientUpdate
    <3> QED
      BY <1>0, <1>5, <2>3, <3>1, HangUpTypes, EmptySeq DEF WriteResponse, CommandTypes
  <2>4. ASSUME NEW k \in 1 .. Len(rest), client' = [client EXCEPT ![c].got = @ \o SubSeq(rest, 1, k)],
               \/ HangUp /\ buffer' = << >> /\ buffer_cursor' = 0
               \/ buffer_cursor' = buffer_cursor + k /\ UNCHANGED <<net, wire, request_status, buffer>>
        PROVE  WireTypes' /\ CommandTypes'
    <3>1. k \in 0 .. Len(rest) /\ k \in Nat
      BY <2>2
    <3> HIDE DEF rest, c
    <3>2. client' \in [Command -> ClientRec]
      BY <1>0, <2>1, <2>4, <3>1, ClientUpdate
    <3>3. CASE HangUp /\ buffer' = << >> /\ buffer_cursor' = 0
      BY <1>0, <1>5, <3>2, <3>3, HangUpTypes, EmptySeq DEF WriteResponse, CommandTypes
    <3>4. CASE buffer_cursor' = buffer_cursor + k /\ UNCHANGED <<net, wire, request_status, buffer>>
      BY <1>0, <1>5, <3>1, <3>2, <3>4 DEF WriteResponse, CommandTypes, WireTypes
    <3> QED
      BY <2>4, <3>3, <3>4
  <2> QED
    BY <1>5, <2>3, <2>4 DEF WriteResponse
<1> QED
  BY <1>1, <1>2, <1>3, <1>4, <1>5 DEF CommandPart

LEMMA AnswerTyped ==
  ASSUME IOInv, get_request \/ send_response
  PROVE  WireTypes' /\ CommandTypes'
<1>0. WireTypes /\ CommandTypes
  BY DEF IOInv, Types
<1>1. CASE get_request
  BY <1>0, <1>1, EmptySeq DEF get_request, CommandTypes, WireTypes
<1>2. CASE send_response
  <2>1. buffer' \in Seq(Piece)
    <3>1. CASE packet = << >>
      <4>1. <<"unknown", Size + 1>> \in Piece
        BY DEF Piece, Name, Size
      <4>2. << <<"unknown", Size + 1>> >> \in Seq(Piece)
        BY <4>1
      <4> QED
        BY <1>2, <3>1, <4>2 DEF send_response
    <3>2. CASE packet # << >>
      <4>1. packet[1] \in Piece
        <5>1. packet \in Seq(Piece) /\ Len(packet) \in Nat \ {0}
          BY <1>0, <3>2, EmptySeq DEF CommandTypes
        <5>2. 1 \in 1 .. Len(packet)
          BY <5>1
        <5> QED
          BY <5>1, <5>2, ElementOfSeq
      <4>2. packet[1][1] \in Name
        BY <4>1 DEF Piece
      <4> QED
        BY <1>2, <3>2, <4>2, TextTypes DEF send_response
    <3> QED
      BY <3>1, <3>2
  <2> QED
    BY <1>0, <1>2, <2>1, EmptySeq DEF send_response, CommandTypes, WireTypes
<1> QED
  BY <1>1, <1>2

\* What the clients do to their connections.
LEMMA ClientTyped ==
  ASSUME IOInv, NEW c \in Command, ClientConnects(c) \/ ClientSends(c) \/ ClientCloses(c)
  PROVE  WireTypes' /\ CommandTypes'
<1>0. WireTypes /\ CommandTypes /\ client \in [Command -> ClientRec]
  BY DEF IOInv, Types, CommandTypes
<1>1. CASE ClientConnects(c)
  <2>1. backlog' \in Seq(Command)
    BY <1>0, <1>1, AppendProperties DEF ClientConnects, CommandTypes
  <2> QED
    BY <1>0, <1>1, <2>1 DEF ClientConnects, CommandTypes, WireTypes
<1>2. CASE ClientSends(c)
  <2> DEFINE piece == Text(c)[Len(client[c].pieces) + 1]
  <2>1. piece \in Piece
    <3>1. Len(client[c].pieces) + 1 \in 1 .. Size
      BY <1>0, <1>2 DEF ClientSends, ClientRec, Size
    <3>2. piece = <<c, Len(client[c].pieces) + 1>>
      BY <3>1, TextTypes
    <3> QED
      BY <3>1, <3>2 DEF Piece, Name, Size
  <2>2. /\ client' = [client EXCEPT ![c].pieces = Append(@, piece)]
        /\ wire' = [sd \in FD |-> IF sd \in SocketOf(c)
                                  THEN [wire[sd] EXCEPT !.unread = Append(@, piece)] ELSE wire[sd]]
    BY <1>2 DEF ClientSends
  <2> HIDE DEF piece
  <2>3. client' \in [Command -> ClientRec]
    BY <1>0, <2>1, <2>2, ClientUpdate
  <2>4. ASSUME NEW sd \in FD PROVE [wire[sd] EXCEPT !.unread = Append(@, piece)] \in WireRec
    <3>1. wire[sd] \in WireRec /\ Append(wire[sd].unread, piece) \in Seq(Piece)
      BY <1>0, <2>1, AppendProperties DEF WireTypes, WireRec
    <3> QED
      BY <3>1 DEF WireRec
  <2>5. WireTypes'
    BY <1>0, <2>2, <2>4 DEF WireTypes
  <2> QED
    BY <1>0, <1>2, <2>3, <2>5 DEF ClientSends, CommandTypes
<1>3. CASE ClientCloses(c)
  <2>1. client' \in [Command -> ClientRec]
    BY <1>0, <1>3, ClientUpdate DEF ClientCloses
  <2>2. \A sd \in FD : [wire[sd] EXCEPT !.fin = TRUE] \in WireRec
    BY <1>0 DEF WireTypes, WireRec
  <2>3. WireTypes'
    BY <1>0, <1>3, <2>2 DEF ClientCloses, WireTypes
  <2> QED
    BY <1>0, <1>3, <2>1, <2>3 DEF ClientCloses, CommandTypes
<1> QED
  BY <1>1, <1>2, <1>3

-----------------------------------------------------------------------------
(* Every step keeps the types: the reports. *)

LEMMA NewReportWire ==
  ASSUME WireTypes, NEW sd
  PROVE  [wire EXCEPT ![sd] = Fresh("connecting", "manager")] \in [FD -> WireRec]
BY FreshTypes, WireUpdate

LEMMA NewLog ==
  ASSUME NEW log \in Seq(Seq(Report \X Nat))
  PROVE  Append(log, << >>) \in Seq(Seq(Report \X Nat))
BY EmptySeq, AppendProperties

LEMMA ExceptOutside ==
  ASSUME NEW T, NEW s \in Seq(T), NEW x, x \notin 1 .. Len(s), NEW v
  PROVE  [s EXCEPT ![x] = v] = s
<1>1. s \in [1 .. Len(s) -> T]
  BY LenProperties
<1> DEFINE D == 1 .. Len(s)
           t == [s EXCEPT ![x] = v]
<1>2. s \in [D -> T] /\ x \notin D
  BY <1>1
<1> HIDE DEF D
<1>3. t = [i \in D |-> s[i]]
  BY <1>2
<1> QED
  BY <1>2, <1>3

LEMMA CloseReportTyped ==
  ASSUME IOInv, report # << >>, NEW done, NEW log \in Seq(Seq(Report \X Nat)),
         CloseReport(done, log), UNCHANGED reported
  PROVE  WireTypes' /\ ReportTypes'
<1> DEFINE closed == close(net, report_sd)
           wired == [wire EXCEPT ![report_sd] = Closed]
<1>0. WireTypes /\ ReportTypes
  BY DEF IOInv, Types
<1>1. wired \in [FD -> WireRec]
  BY <1>0, FreshTypes, WireUpdate
<1>2. report' \in Seq(Report)
  BY <1>0, HeadTailProperties DEF CloseReport, AfterReport, ReportTypes
<1>3. CASE /\ CanOpen(closed) /\ report_sd' = NewFD(closed)
           /\ wire' = [wired EXCEPT ![NewFD(closed)] = Fresh("connecting", "manager")]
           /\ written' = Append(log, << >>)
  <2>1. NewFD(closed) \in FD
    BY <1>3, LowestDescriptor
  <2>2. wire' \in [FD -> WireRec]
    <3> HIDE DEF wired, closed
    <3> QED
      BY <1>1, <1>3, FreshTypes
  <2>3. written' \in Seq(Seq(Report \X Nat))
    BY <1>3, NewLog
  <2> QED
    BY <1>0, <1>2, <1>3, <2>1, <2>2, <2>3 DEF CloseReport, ReportTypes, WireTypes
<1>4. CASE report_sd' = None /\ wire' = wired /\ written' = log
  BY <1>0, <1>1, <1>2, <1>4 DEF CloseReport, ReportTypes, WireTypes
<1> QED
  BY <1>3, <1>4 DEF CloseReport

LEMMA ReportTyped ==
  ASSUME IOInv, \/ ReportConnect \/ ConnectFails \/ WriteReport \/ ReportQuiet
                \/ \E r \in Report : send_report(r)
  PROVE  WireTypes' /\ ReportTypes'
<1>0. WireTypes /\ ReportTypes
  BY DEF IOInv, Types
<1>1. CASE ReportConnect
  <2>1. NewFD(net) \in FD
    BY <1>1, LowestDescriptor DEF ReportConnect
  <2> QED
    BY <1>0, <1>1, <2>1, NewReportWire, NewLog DEF ReportConnect, ReportTypes, WireTypes
<1>2. CASE ConnectFails \/ ReportQuiet
  BY <1>0, <1>2 DEF ConnectFails, ReportQuiet, report_vars, ReportTypes, WireTypes
<1>3. CASE WriteReport
  <2> DEFINE text == Text(Head(report))
             rest == Rest(text, report_cursor)
             log(k) == [written EXCEPT ![Len(written)] = @ \o SubSeq(rest, 1, k)]
  <2>1. report # << >> /\ UNCHANGED reported
    BY <1>3 DEF WriteReport
  <2>2. text \in Seq(Report \X Nat)
    <3>1. Head(report) \in Report
      BY <1>0, <2>1, HeadTailProperties DEF ReportTypes
    <3> QED
      BY <3>1, TextTypes
  <2>3. /\ Len(rest) \in Nat
        /\ \A k \in 0 .. Len(rest) : SubSeq(rest, 1, k) \in Seq(Report \X Nat)
    <3> HIDE DEF text
    <3> QED
      BY <1>0, <2>2, RestTypes DEF ReportTypes
  <2> HIDE DEF rest
  <2>4. ASSUME NEW k \in 0 .. Len(rest) PROVE log(k) \in Seq(Seq(Report \X Nat))
    <3>1. written \in Seq(Seq(Report \X Nat)) /\ Len(written) \in Nat
      BY <1>0 DEF ReportTypes
    <3>2. CASE written = << >>
      <4>1. Len(written) \notin 1 .. Len(written)
        BY <3>1, <3>2, EmptySeq
      <4> QED
        BY <3>1, <4>1, ExceptOutside
    <3>3. CASE written # << >>
      <4>1. Len(written) \in 1 .. Len(written)
        BY <3>1, <3>3, EmptySeq
      <4>2. written[Len(written)] \in Seq(Report \X Nat)
        BY <3>1, <4>1, ElementOfSeq
      <4>3. written[Len(written)] \o SubSeq(rest, 1, k) \in Seq(Report \X Nat)
        BY <2>3, <4>2, ConcatProperties
      <4> QED
        BY <3>1, <4>1, <4>3, ExceptSeq
    <3> QED
      BY <3>2, <3>3
  <2>5. CASE CloseReport(FALSE, written)
    BY <1>0, <2>1, <2>5, CloseReportTyped DEF ReportTypes
  <2>6. ASSUME NEW k \in 0 .. Len(rest),
               IF k = Len(rest) THEN CloseReport(TRUE, log(k))
               ELSE /\ report_cursor' = report_cursor + k /\ written' = log(k)
                    /\ UNCHANGED <<net, wire, report, report_sd>>
        PROVE  WireTypes' /\ ReportTypes'
    <3>1. CASE CloseReport(TRUE, log(k))
      BY <2>1, <2>4, <3>1, CloseReportTyped
    <3>2. CASE /\ report_cursor' = report_cursor + k /\ written' = log(k)
               /\ UNCHANGED <<net, wire, report, report_sd>>
      <4>1. written' \in Seq(Seq(Report \X Nat)) /\ k \in Nat
        BY <2>3, <2>4, <3>2
      <4> QED
        BY <1>0, <2>1, <3>2, <4>1 DEF ReportTypes, WireTypes
    <3> QED
      BY <2>6, <3>1, <3>2
  <2> QED
    BY <1>3, <2>5, <2>6 DEF WriteReport, rest
<1>4. CASE \E r \in Report : send_report(r)
  <2>1. PICK r \in Report : send_report(r)
    BY <1>4
  <2>2. report' \in Seq(Report) /\ reported' \in Seq(Report)
    BY <1>0, <2>1, AppendProperties DEF send_report, ReportTypes
  <2>3. CASE /\ CanOpen(net) /\ report_sd' = NewFD(net) /\ report_cursor' = 0
             /\ wire' = [wire EXCEPT ![NewFD(net)] = Fresh("connecting", "manager")]
             /\ written' = Append(written, << >>)
    <3>1. NewFD(net) \in FD
      BY <2>3, LowestDescriptor
    <3> QED
      BY <1>0, <2>2, <2>3, <3>1, NewReportWire, NewLog DEF ReportTypes, WireTypes
  <2>4. CASE UNCHANGED <<report_sd, net, wire, report_cursor, written>>
    BY <1>0, <2>2, <2>4 DEF ReportTypes, WireTypes
  <2> QED
    BY <2>1, <2>3, <2>4 DEF send_report
<1> QED
  BY <1>1, <1>2, <1>3, <1>4

-----------------------------------------------------------------------------
(* Every step keeps the types: the requests to Web servers. *)

LEMMA WrapTypes ==
  ASSUME NEW t \in Int
  PROVE  Wrap(t) \in Ticks
<1> DEFINE b == 2 * HalfRange
           a == t + HalfRange
<1>1. HalfRange \in Nat \ {0} /\ b \in Nat \ {0} /\ a \in Int
  BY NetAssumption
<1>2. a % b \in 0 .. b - 1
  <2> HIDE DEF a, b
  <2> QED
    BY <1>1, Division
<1>3. Wrap(t) = (a % b) - HalfRange
  BY DEF Wrap
<1> DEFINE r == a % b
<1>4. r \in 0 .. (2 * HalfRange) - 1 /\ Wrap(t) = r - HalfRange
  BY <1>2, <1>3
<1> HIDE DEF r
<1> QED
  BY <1>1, <1>4 DEF Ticks

LEMMA EntryIsRec ==
  ASSUME now \in Ticks, NEW id \in 0 .. MaxInt, NEW sd \in FD, NEW t \in Nat
  PROVE  Entry(id, sd, t) \in EntryRec /\ FreeSlot \in EntryRec
<1>1. now \in Int /\ get_time(0) \in Ticks /\ 0 \in Ticks
  <2>1. now \in Int /\ now + 0 \in Int
    BY NetAssumption DEF Ticks
  <2>2. 0 \in Ticks
    BY NetAssumption DEF Ticks
  <2> QED
    BY <2>1, <2>2, WrapTypes DEF get_time
<1>2. << >> \in Seq(Piece)
  BY EmptySeq
<1>3. INITIAL_BUFFER_SIZE \in Nat /\ 0 \in 0 .. MAX_WAIT + 1 /\ 0 \in 0 .. MaxInt
  BY FetchAssumption
<1>4. FreeSlot \in EntryRec
  BY <1>1, <1>2, <1>3 DEF FreeSlot, EntryRec
<1> DEFINE g == get_time(0)
<1>5. g \in Ticks
  BY <1>1
<1>6. Entry(id, sd, t) =
        [FreeSlot EXCEPT !.request_id = id, !.status = "CONNECTING_TO_SERVER", !.sd = sd,
                         !.start_time = g, !.ticket = t, !.buf_size = INITIAL_BUFFER_SIZE]
  BY DEF Entry
<1> HIDE DEF g
<1>7. Entry(id, sd, t) \in EntryRec
  BY <1>3, <1>4, <1>5, <1>6 DEF EntryRec
<1> QED
  BY <1>4, <1>7

LEMMA FateUpdate ==
  ASSUME fate \in [Ticket -> FateRec], NEW t,
         NEW state \in {"unused", "pending", "done", "cancelled"}
  PROVE  [fate EXCEPT ![t].state = state] \in [Ticket -> FateRec]
BY DEF FateRec

\* What a request that ended leaves in its history.
LEMMA OutcomeTypes ==
  ASSUME NEW f \in FateRec, NEW e \in EntryRec, started.now \in Ticks,
         NEW rc \in {"OK", "TIMEOUT", "CANNOT_WRITE_SOCKET", "CANNOT_READ_SOCKET"}
  PROVE  Outcome(f, e, rc) \in FateRec
<1> DEFINE calls == f.calls + 1
           page == e.page
           age == e.age
           at == started.now
<1>1. /\ calls \in Nat /\ page \in Seq(Piece) /\ age \in 0 .. MAX_WAIT + 1
      /\ at \in Ticks
  BY DEF FateRec, EntryRec
<1>2. Outcome(f, e, rc) =
        [f EXCEPT !.state = "done", !.calls = calls, !.rc = rc, !.page = page,
                  !.age = age, !.at = at]
  BY DEF Outcome
<1> HIDE DEF calls, page, age, at
<1> QED
  BY <1>1, <1>2 DEF FateRec

LEMMA ToldTypes ==
  ASSUME FetchTypes, NEW i \in Slot,
         NEW rc \in {"OK", "TIMEOUT", "CANNOT_WRITE_SOCKET", "CANNOT_READ_SOCKET"}
  PROVE  Told(i, rc) \in [Ticket -> FateRec]
<1> DEFINE t == table[i].ticket
<1>1. Told(i, rc) = [fate EXCEPT ![t] = Outcome(fate[t], table[i], rc)]
  BY DEF Told
<1>2. fate \in [Ticket -> FateRec] /\ table[i] \in EntryRec /\ started.now \in Ticks
  BY EntryTypes DEF FetchTypes
<1> HIDE DEF t
<1>3. t \in Ticket => Outcome(fate[t], table[i], rc) \in FateRec
  BY <1>2, OutcomeTypes
<1> QED
  BY <1>1, <1>2, <1>3

LEMMA NextEntryTypes ==
  ASSUME scan \in Slot, NextEntry
  PROVE  scan' \in Slot \cup {-1}
BY FetchAssumption DEF NextEntry, Slot

LEMMA OpenedWire ==
  ASSUME WireTypes, NEW t \in Ticket, NEW sd
  PROVE  [wire EXCEPT ![sd] = [Fresh("connecting", "web") EXCEPT !.ticket = t]] \in [FD -> WireRec]
<1>1. [Fresh("connecting", "web") EXCEPT !.ticket = t] \in WireRec
  BY FreshTypes
<1> QED
  BY <1>1, WireUpdate

\* What is left of FetchTypes after table, fate and tickets.
LEMMA SubmitTyped ==
  ASSUME IOInv, NEW max \in 0 .. MaxTickets, request_page(max)
  PROVE  WireTypes' /\ FetchTypes'
<1>0. WireTypes /\ FetchTypes /\ now \in Ticks
  BY DEF IOInv, Types, LoopTypes
<1>1. PICK s, sd, id : Appends(s, sd, id)
  BY AppendedIs DEF request_page
<1>2. s \in Slot /\ sd \in FD /\ id \in 0 .. MaxInt /\ tickets + 1 \in 1 .. MaxTickets
  <2>1. tickets < max /\ tickets \in Nat /\ MaxTickets \in Nat
    BY <1>0, FetchAssumption DEF request_page, MaySubmit, FetchTypes
  <2>2. id \in 0 .. MaxInt
    BY <1>1, FetchAssumption DEF Appends
  <2> QED
    BY <1>1, <2>1, <2>2 DEF Appends
<1>3. Entry(id, sd, tickets + 1) \in EntryRec
  BY <1>0, <1>2, EntryIsRec
<1>4. table' \in [Slot -> EntryRec]
  BY <1>0, <1>1, <1>2, <1>3 DEF request_page, Appends, FetchTypes
<1>5. WireTypes'
  BY <1>0, <1>1, <1>2, OpenedWire DEF request_page, Appends, WireTypes, Ticket
<1>6. fate' \in [Ticket -> FateRec]
  BY <1>0, FateUpdate DEF request_page, FetchTypes
<1>7. num_pending_requests' \in Int /\ tickets' \in 0 .. MaxTickets /\ cur_request_id' \in 0 .. MaxInt
      /\ UNCHANGED <<scan, started>>
  BY <1>0, <1>1, <1>2 DEF request_page, Appends, FetchTypes
<1> QED
  BY <1>0, <1>4, <1>5, <1>6, <1>7 DEF FetchTypes

LEMMA CancelTyped ==
  ASSUME IOInv, NEW id, cancel_request(id)
  PROVE  WireTypes' /\ FetchTypes'
<1>0. WireTypes /\ FetchTypes /\ now \in Ticks
  BY DEF IOInv, Types, LoopTypes
<1>1. PICK i \in Cancelled(id) :
        /\ table' = Released(table, i) /\ num_pending_requests' = num_pending_requests - 1
        /\ wire' = [wire EXCEPT ![table[i].sd] = Closed]
        /\ fate' = [fate EXCEPT ![table[i].ticket].state = "cancelled"]
  BY DEF cancel_request
<1>2. FreeSlot \in EntryRec
  <2>1. 1 \in FD /\ 0 \in 0 .. MaxInt /\ 0 \in Nat
    BY NetAssumption, FetchAssumption DEF FD
  <2> QED
    BY <1>0, <2>1, EntryIsRec
<1>3. table' \in [Slot -> EntryRec]
  BY <1>0, <1>1, <1>2 DEF Released, FetchTypes
<1>4. fate' \in [Ticket -> FateRec]
  BY <1>0, <1>1, FateUpdate DEF FetchTypes
<1>5. WireTypes'
  BY <1>0, <1>1, FreshTypes, WireUpdate DEF WireTypes
<1> QED
  BY <1>0, <1>1, <1>3, <1>4, <1>5 DEF cancel_request, FetchTypes

LEMMA FreeSlotTypes ==
  ASSUME now \in Ticks
  PROVE  FreeSlot \in EntryRec
<1>1. 1 \in FD /\ 0 \in 0 .. MaxInt /\ 0 \in Nat
  BY NetAssumption, FetchAssumption DEF FD
<1> QED
  BY <1>1, EntryIsRec

LEMMA FinishTyped ==
  ASSUME IOInv, NEW i \in Slot, NEW max \in 0 .. MaxTickets,
         NEW rc \in {"OK", "TIMEOUT", "CANNOT_WRITE_SOCKET", "CANNOT_READ_SOCKET"},
         finish_request(i, rc, max), scan \in Slot, NextEntry
  PROVE  WireTypes' /\ FetchTypes'
<1>0. WireTypes /\ FetchTypes /\ now \in Ticks /\ FreeSlot \in EntryRec
  BY FreeSlotTypes DEF IOInv, Types, LoopTypes
<1>1. scan' \in Slot \cup {-1} /\ UNCHANGED started
  BY NextEntryTypes DEF finish_request
<1>2. Told(i, rc) \in [Ticket -> FateRec]
  BY <1>0, ToldTypes
<1>3. CASE /\ table' = Released(table, i) /\ num_pending_requests' = num_pending_requests - 1
           /\ wire' = [wire EXCEPT ![table[i].sd] = Closed] /\ fate' = Told(i, rc)
           /\ UNCHANGED <<cur_request_id, tickets>>
  <2>1. table' \in [Slot -> EntryRec]
    BY <1>0, <1>3 DEF Released, FetchTypes
  <2>2. WireTypes'
    BY <1>0, <1>3, FreshTypes, WireUpdate DEF WireTypes
  <2> QED
    BY <1>0, <1>1, <1>2, <1>3, <2>1, <2>2 DEF FetchTypes
<1>4. CASE /\ MaySubmit(max) /\ table' = Released(Appended.table, i)
           /\ cur_request_id' = Appended.id
           /\ wire' = [Appended.wire EXCEPT ![table[i].sd] = Closed] /\ tickets' = tickets + 1
           /\ fate' = [Told(i, rc) EXCEPT ![tickets + 1].state = "pending"]
           /\ UNCHANGED num_pending_requests
  <2>1. PICK s, sd, id : Appends(s, sd, id)
    BY <1>4, AppendedIs
  <2>2. s \in Slot /\ sd \in FD /\ id \in 0 .. MaxInt /\ tickets + 1 \in 1 .. MaxTickets
    <3>1. tickets < max /\ tickets \in Nat /\ MaxTickets \in Nat
      BY <1>0, <1>4, FetchAssumption DEF MaySubmit, FetchTypes
    <3>2. id \in 0 .. MaxInt
      BY <2>1, FetchAssumption DEF Appends
    <3> QED
      BY <2>1, <3>1, <3>2 DEF Appends
  <2>3. Entry(id, sd, tickets + 1) \in EntryRec
    BY <1>0, <2>2, EntryIsRec
  <2>4. Appended.table \in [Slot -> EntryRec]
    BY <1>0, <2>1, <2>3 DEF Appends, FetchTypes
  <2>5. table' \in [Slot -> EntryRec]
    BY <1>0, <1>4, <2>4 DEF Released
  <2>6. Appended.wire \in [FD -> WireRec]
    BY <1>0, <2>1, <2>2, OpenedWire DEF Appends, Ticket
  <2>7. WireTypes'
    BY <1>4, <2>6, FreshTypes DEF WireTypes
  <2>8. fate' \in [Ticket -> FateRec]
    <3> DEFINE f == Told(i, rc)
    <3>1. f \in [Ticket -> FateRec] /\ fate' = [f EXCEPT ![tickets + 1].state = "pending"]
      BY <1>2, <1>4
    <3> HIDE DEF f
    <3> QED
      BY <3>1 DEF FateRec
  <2>9. cur_request_id' \in 0 .. MaxInt /\ tickets' \in 0 .. MaxTickets
    BY <1>4, <2>1, <2>2 DEF Appends
  <2> QED
    BY <1>0, <1>1, <1>4, <2>5, <2>7, <2>8, <2>9 DEF FetchTypes
<1> QED
  BY <1>3, <1>4 DEF finish_request

\* A connection with one field changed.
LEMMA WireFields ==
  ASSUME WireTypes, NEW sd
  PROVE  /\ [wire EXCEPT ![sd].shut = TRUE] \in [FD -> WireRec]
         /\ [wire EXCEPT ![sd].fin = TRUE] \in [FD -> WireRec]
         /\ \A k \in Nat : AfterWrite(sd, k) \in [FD -> WireRec]
         /\ \A state \in {"closed", "connecting", "up", "broken"} :
              [wire EXCEPT ![sd].state = state] \in [FD -> WireRec]
         /\ \A pieces \in Seq(Piece) : [wire EXCEPT ![sd].unread = pieces] \in [FD -> WireRec]
<1> DEFINE w == wire[sd]
<1>0. wire \in [FD -> WireRec] /\ (sd \in FD => w \in WireRec)
  BY DEF WireTypes
<1> HIDE DEF w
<1>1. [wire EXCEPT ![sd].shut = TRUE] \in [FD -> WireRec]
  <2>1. [wire EXCEPT ![sd].shut = TRUE] = [wire EXCEPT ![sd] = [w EXCEPT !.shut = TRUE]]
    BY DEF w
  <2>2. sd \in FD => [w EXCEPT !.shut = TRUE] \in WireRec
    BY <1>0 DEF WireRec
  <2> QED
    BY <1>0, <2>1, <2>2
<1>2. [wire EXCEPT ![sd].fin = TRUE] \in [FD -> WireRec]
  <2>1. [wire EXCEPT ![sd].fin = TRUE] = [wire EXCEPT ![sd] = [w EXCEPT !.fin = TRUE]]
    BY DEF w
  <2>2. sd \in FD => [w EXCEPT !.fin = TRUE] \in WireRec
    BY <1>0 DEF WireRec
  <2> QED
    BY <1>0, <2>1, <2>2
<1>3. ASSUME NEW k \in Nat PROVE AfterWrite(sd, k) \in [FD -> WireRec]
  <2>1. AfterWrite(sd, k) = [wire EXCEPT ![sd] = [w EXCEPT !.sent = w.sent + k]]
    BY DEF w, AfterWrite
  <2>2. sd \in FD => w.sent + k \in Nat
    BY <1>0 DEF WireRec
  <2>3. sd \in FD => [w EXCEPT !.sent = w.sent + k] \in WireRec
    BY <1>0, <2>2 DEF WireRec
  <2> QED
    BY <1>0, <2>1, <2>3
<1>4. ASSUME NEW state \in {"closed", "connecting", "up", "broken"}
      PROVE  [wire EXCEPT ![sd].state = state] \in [FD -> WireRec]
  <2>1. [wire EXCEPT ![sd].state = state] = [wire EXCEPT ![sd] = [w EXCEPT !.state = state]]
    BY DEF w
  <2>2. sd \in FD => [w EXCEPT !.state = state] \in WireRec
    BY <1>0 DEF WireRec
  <2> QED
    BY <1>0, <2>1, <2>2
<1>5. ASSUME NEW pieces \in Seq(Piece)
      PROVE  [wire EXCEPT ![sd].unread = pieces] \in [FD -> WireRec]
  <2>1. [wire EXCEPT ![sd].unread = pieces] = [wire EXCEPT ![sd] = [w EXCEPT !.unread = pieces]]
    BY DEF w
  <2>2. sd \in FD => [w EXCEPT !.unread = pieces] \in WireRec
    BY <1>0 DEF WireRec
  <2> QED
    BY <1>0, <2>1, <2>2
<1> QED
  BY <1>1, <1>2, <1>3, <1>4, <1>5

LEMMA SpaceIs ==
  ASSUME FetchTypes, NEW i \in Slot
  PROVE  NewSize(i) \in Nat /\ Space(i) \in Int /\ Cursor(i) \in Nat
         /\ Space(i) = NewSize(i) - Cursor(i) - 1
<1>1. table[i].buf_size \in Nat /\ Cursor(i) \in Nat
  BY EntryTypes DEF Cursor
<1>2. NewSize(i) = 2 * table[i].buf_size \/ NewSize(i) = table[i].buf_size
  BY DEF NewSize
<1>3. NewSize(i) \in Nat
  BY <1>1, <1>2
<1> QED
  BY <1>1, <1>3 DEF Space

LEMMA PassTyped ==
  ASSUME IOInv, ProcessBegins
  PROVE  WireTypes' /\ FetchTypes'
<1>0. WireTypes /\ FetchTypes /\ now \in Int
  BY NetAssumption DEF IOInv, Types, LoopTypes, Ticks
<1>1. get_time(0) \in Ticks /\ get_time(-MAX_WAIT) \in Ticks
  <2>1. now + 0 \in Int /\ now + (-MAX_WAIT) \in Int
    BY <1>0, FetchAssumption
  <2> QED
    BY <2>1, WrapTypes DEF get_time
<1>2. started' \in [ now : Ticks, kill_before : Ticks ]
  BY <1>1 DEF ProcessBegins
<1>3. scan' \in Slot
  BY FetchAssumption DEF ProcessBegins, Slot
<1> QED
  BY <1>0, <1>2, <1>3 DEF ProcessBegins, FetchTypes, WireTypes

LEMMA TransferTyped ==
  ASSUME IOInv, NEW i \in Slot, SendPacket(i) \/ NotReady(i) \/ ReadPacket(i) \/ SkipFree(i)
  PROVE  WireTypes' /\ FetchTypes'
<1>0. WireTypes /\ FetchTypes
  BY DEF IOInv, Types
<1>1. scan' \in Slot \cup {-1} /\ InTransfer
  BY NextEntryTypes DEF SendPacket, NotReady, ReadPacket, SkipFree, Scans
<1>2. table' \in [Slot -> EntryRec] /\ UNCHANGED num_pending_requests
  <2>1. CASE SkipFree(i)
    BY <1>0, <2>1 DEF SkipFree, InTransfer, FetchTypes
  <2>2. CASE ~SkipFree(i)
    BY <1>0, <2>2, TransferKinds DEF Transfers, OnlySlot, FetchTypes
  <2> QED
    BY <2>1, <2>2
<1>3. WireTypes'
  <2>1. CASE SkipFree(i)
    BY <1>0, <2>1 DEF SkipFree, WireTypes
  <2>2. CASE NotReady(i)
    <3>1. wire' = wire \/ wire' = [wire EXCEPT ![table[i].sd].shut = TRUE]
      BY <2>2 DEF NotReady
    <3>2. [wire EXCEPT ![table[i].sd].shut = TRUE] \in [FD -> WireRec]
      BY <1>0, WireFields
    <3> QED
      BY <1>0, <3>1, <3>2 DEF WireTypes
  <2>3. CASE SendPacket(i)
    <3>1. PICK k \in 1 .. RequestLen - Cursor(i) : wire' = AfterWrite(table[i].sd, k)
      BY <2>3 DEF SendPacket
    <3>2. RequestLen - Cursor(i) \in Int
      BY <1>0, EntryTypes, FetchAssumption DEF Cursor
    <3>3. k \in Nat
      BY <3>2
    <3> QED
      BY <1>0, <3>1, <3>3, WireFields DEF WireTypes
  <2>4. CASE ReadPacket(i)
    <3>1. PICK k \in ReadSizes(table[i].sd, Space(i)) : wire' = AfterRead(table[i].sd, k)
      BY <2>4 DEF ReadPacket
    <3>2. table[i].sd \in FD
      BY <2>4, SocketTypes DEF ReadPacket, Scans
    <3>3. Space(i) \in Int
      BY <1>0, SpaceIs
    <3> QED
      BY <1>0, <3>1, <3>2, <3>3, ReadWire DEF WireTypes
  <2> QED
    BY <2>1, <2>2, <2>3, <2>4
<1> QED
  BY <1>0, <1>1, <1>2, <1>3 DEF InTransfer, FetchTypes

\* The other ends of the connections, and the clock.
LEMMA ServerTyped ==
  ASSUME IOInv, NEW sd \in FD, NEW max, ServerSends(sd, max) \/ ServerCloses(sd)
  PROVE  WireTypes' /\ FetchTypes'
<1>0. WireTypes /\ FetchTypes
  BY DEF IOInv, Types
<1>1. CASE ServerCloses(sd)
  <2>1. wire' = [wire EXCEPT ![sd].fin = TRUE] /\ UNCHANGED fetch_vars
    BY <1>1 DEF ServerCloses
  <2>2. WireTypes'
    BY <1>0, <2>1, WireFields DEF WireTypes
  <2> QED
    BY <1>0, <2>1, <2>2 DEF fetch_vars, FetchTypes
<1>2. CASE ServerSends(sd, max)
  <2> DEFINE t == wire[sd].ticket
             piece == <<t, fate[t].served + 1>>
             pieces == Append(wire[sd].unread, piece)
  <2>1. /\ wire' = [wire EXCEPT ![sd].unread = pieces]
        /\ fate' = [fate EXCEPT ![t].served = fate[t].served + 1]
        /\ UNCHANGED <<table, cur_request_id, num_pending_requests, scan, started, tickets>>
    BY <1>2 DEF ServerSends
  <2>2. wire[sd] \in WireRec /\ wire[sd].to = "web"
    BY <1>0, <1>2 DEF WireTypes, ServerSends
  <2>3. t \in Ticket /\ t \in Nat /\ wire[sd].unread \in Seq(Piece)
    BY <2>2, FetchAssumption DEF WireRec
  <2> HIDE DEF t
  <2>4. fate[t] \in FateRec
    BY <1>0, <2>3 DEF FetchTypes
  <2>5. fate[t].served + 1 \in Nat
    BY <2>4 DEF FateRec
  <2>6. piece \in Piece
    BY <2>3, <2>5 DEF Piece, Name
  <2>7. pieces \in Seq(Piece)
    <3> HIDE DEF piece
    <3> QED
      BY <2>3, <2>6, AppendProperties
  <2> HIDE DEF pieces
  <2>8. wire' \in [FD -> WireRec]
    BY <1>0, <2>1, <2>7, WireFields
  <2>9. fate' \in [Ticket -> FateRec]
    <3> DEFINE n == fate[t].served + 1
               f == [fate[t] EXCEPT !.served = n]
    <3>1. n \in Nat /\ fate' = [fate EXCEPT ![t] = f]
      BY <2>1, <2>5
    <3> HIDE DEF n
    <3>2. f \in FateRec
      BY <2>4, <3>1 DEF FateRec
    <3> HIDE DEF f
    <3> QED
      BY <1>0, <3>1, <3>2 DEF FetchTypes
  <2> QED
    BY <1>0, <2>1, <2>8, <2>9 DEF WireTypes, FetchTypes
<1> QED
  BY <1>1, <1>2

\* The entry after a tick; the smaller of two is one of them.
LEMMA OlderEntry ==
  ASSUME FetchTypes, NEW i \in Slot
  PROVE  [table[i] EXCEPT !.age = Min({table[i].age + 1, MAX_WAIT + 1})] \in EntryRec
<1> DEFINE age == Min({table[i].age + 1, MAX_WAIT + 1})
<1>1. table[i] \in EntryRec /\ table[i].age \in 0 .. MAX_WAIT + 1 /\ MAX_WAIT \in Nat
  BY EntryTypes, FetchAssumption
<1>2. age \in 0 .. MAX_WAIT + 1
  <2>1. PICK a \in Nat, b \in Nat : a = table[i].age + 1 /\ b = MAX_WAIT + 1
    BY <1>1
  <2>2. Min({a, b}) = IF a <= b THEN a ELSE b
    BY <2>1, MinOfTwo
  <2>3. age = Min({a, b})
    BY <2>1
  <2> QED
    BY <1>1, <2>1, <2>2, <2>3
<1>3. [table[i] EXCEPT !.age = Min({table[i].age + 1, MAX_WAIT + 1})] = [table[i] EXCEPT !.age = age]
  OBVIOUS
<1> HIDE DEF age
<1>4. [table[i] EXCEPT !.age = age] \in EntryRec
  BY <1>1, <1>2 DEF EntryRec
<1> QED
  BY <1>3, <1>4

LEMMA TickTyped ==
  ASSUME IOInv, Tick
  PROVE  WireTypes' /\ FetchTypes' /\ now' \in Ticks
<1>0. WireTypes /\ FetchTypes /\ now \in Int
  BY NetAssumption DEF IOInv, Types, LoopTypes, Ticks
<1>1. now' \in Ticks
  BY <1>0, WrapTypes DEF Tick
<1>2. table' \in [Slot -> EntryRec]
  <2>1. \A i \in Slot : table[i] \in EntryRec
          /\ [table[i] EXCEPT !.age = Min({table[i].age + 1, MAX_WAIT + 1})] \in EntryRec
    BY <1>0, EntryTypes, OlderEntry
  <2> QED
    BY <2>1 DEF Tick
<1> QED
  BY <1>0, <1>1, <1>2 DEF Tick, WireTypes, FetchTypes

\* What happens to a connection.
LEMMA ConnectionTyped ==
  ASSUME IOInv, NEW sd, ConnectionUp(sd) \/ ConnectionBreaks(sd)
  PROVE  WireTypes' /\ UNCHANGED net
<1>1. \/ wire' = [wire EXCEPT ![sd].state = "up"]
      \/ wire' = [wire EXCEPT ![sd].state = "broken"]
  BY DEF ConnectionUp, ConnectionBreaks
<1>2. \A state \in {"closed", "connecting", "up", "broken"} :
        [wire EXCEPT ![sd].state = state] \in [FD -> WireRec]
  BY WireFields DEF IOInv, Types
<1> QED
  BY <1>1, <1>2 DEF ConnectionUp, ConnectionBreaks, WireTypes

\* An entry is walked by process().
LEMMA EntryTyped ==
  ASSUME IOInv, NEW i \in Slot, NEW max \in 0 .. MaxTickets, ProcessEntry(i, max)
  PROVE  WireTypes' /\ FetchTypes'
<1>1. CASE SkipFree(i) \/ SendPacket(i) \/ NotReady(i) \/ ReadPacket(i)
  BY <1>1, TransferTyped
<1>2. CASE TimeOut(i, max)
  <2>1. finish_request(i, "TIMEOUT", max) /\ scan \in Slot /\ NextEntry
    BY <1>2 DEF TimeOut
  <2> QED
    BY <2>1, FinishTyped
<1>3. CASE SendFails(i, max)
  <2>1. finish_request(i, "CANNOT_WRITE_SOCKET", max) /\ scan \in Slot /\ NextEntry
    BY <1>3 DEF SendFails, Scans
  <2> QED
    BY <2>1, FinishTyped
<1>4. CASE ReadEnds(i, max)
  <2>1. finish_request(i, "OK", max) /\ scan \in Slot /\ NextEntry
    BY <1>4 DEF ReadEnds, Scans
  <2> QED
    BY <2>1, FinishTyped
<1>5. CASE ReadFails(i, max)
  <2>1. finish_request(i, "CANNOT_READ_SOCKET", max) /\ scan \in Slot /\ NextEntry
    BY <1>5 DEF ReadFails, Scans
  <2> QED
    BY <2>1, FinishTyped
<1> QED
  BY <1>1, <1>2, <1>3, <1>4, <1>5 DEF ProcessEntry

-----------------------------------------------------------------------------
(* The types of all variables, step by step *)

LEMMA LoadIs ==
  ASSUME IOInv
  PROVE  /\ load.pages \in 0 .. MaxTickets /\ load.commands \subseteq Command
         /\ load.reports \subseteq Report /\ load.start \in Ticks /\ load.cursor \in Nat
BY IOAssumption DEF IOInv, Types, LoopTypes

LEMMA InitTyped == Init => Types
<1> SUFFICES ASSUME Init PROVE Types
  OBVIOUS
<1>1. load \in Loads /\ load.start \in Ticks /\ load.cursor \in Nat
  BY IOAssumption DEF Init
<1>2. << >> \in Seq(Piece) /\ << >> \in Seq(Command) /\ << >> \in Seq(Report)
      /\ << >> \in Seq(Seq(Report \X Nat))
  BY EmptySeq
<1>3. WireTypes
  <2>1. Fresh("up", "listen") \in WireRec /\ Closed \in WireRec
    BY FreshTypes
  <2> QED
    BY <2>1 DEF Init, NetInit, WireTypes
<1>4. CommandTypes
  <2>1. Absent \in ClientRec
    BY <1>2 DEF Absent, ClientRec
  <2> QED
    BY <1>2, <2>1 DEF Init, CommInit, CommandTypes
<1>5. ReportTypes
  BY <1>1, <1>2 DEF Init, CommInit, ReportTypes
<1>6. LoopTypes
  BY <1>1 DEF Init, LoopTypes
<1>7. FetchTypes
  <2>1. FreeSlot \in EntryRec
    BY <1>6, FreeSlotTypes DEF LoopTypes
  <2>2. 0 \in Ticks /\ 0 \in 0 .. MAX_WAIT + 1 /\ 0 \in 0 .. MaxInt /\ 0 \in 0 .. MaxTickets
    BY NetAssumption, FetchAssumption DEF Ticks
  <2>3. NoFate \in FateRec
    BY <1>2, <2>2 DEF NoFate, FateRec
  <2> QED
    BY <2>1, <2>2, <2>3 DEF Init, FetchInit, FetchTypes
<1> QED
  BY <1>3, <1>4, <1>5, <1>6, <1>7 DEF Types

LEMMA FetchStays ==
  ASSUME IOInv, UNCHANGED fetch_vars
  PROVE  FetchTypes' /\ IdNamesSlot' /\ SameSlots
<1>1. FetchTypes'
  BY DEF IOInv, Types, FetchTypes, fetch_vars
<1>2. IdNamesSlot' /\ SameSlots
  BY DEF IOInv, IdNamesSlot, Busy, fetch_vars, SameSlots
<1> QED
  BY <1>1, <1>2

LEMMA CommandStays ==
  ASSUME IOInv, UNCHANGED command_vars
  PROVE  CommandTypes' /\ SameCommand
BY DEF IOInv, Types, CommandTypes, command_vars, SameCommand

LEMMA ReportStays ==
  ASSUME IOInv, UNCHANGED report_vars
  PROVE  ReportTypes' /\ SameReport
BY DEF IOInv, Types, ReportTypes, report_vars, SameReport

LEMMA WireStays ==
  ASSUME IOInv, UNCHANGED wire
  PROVE  WireTypes'
BY DEF IOInv, Types, WireTypes

\* The state of the loop itself.
LEMMA LoopMoves ==
  ASSUME IOInv, UNCHANGED <<now, peers>>,
         pc' \in {"poll", "command", "report", "fetch", "scan", "get", "answer", "select", "dead"}
  PROVE  LoopTypes'
BY DEF IOInv, Types, LoopTypes, peers

\* What a step on the requests to Web servers does to the sockets, whatever it is.
LEMMA RequestSockets ==
  ASSUME IOInv, SameCommand, SameReport,
         \/ \E s, sd, id : Submits(s, sd, id)
         \/ \E i : Frees(i)
         \/ \E i, s, sd, id : Replaces(i, s, sd, id)
         \/ \E i, d : Transfers(i, d)
         \/ UNCHANGED <<net, table, num_pending_requests>>
  PROVE  Sockets' /\ IdNamesSlot'
<1>1. CASE UNCHANGED <<net, table, num_pending_requests>>
  <2>1. Sockets'
    BY <1>1, SocketsStay DEF SameSlots
  <2>2. IdNamesSlot'
    BY <1>1 DEF IOInv, IdNamesSlot, Busy
  <2> QED
    BY <2>1, <2>2
<1> QED
  BY <1>1, SubmitKeeps, FreeKeeps, ReplaceKeeps, TransferKeeps

LEMMA EntrySockets ==
  ASSUME IOInv, SameCommand, SameReport, NEW i \in Slot, NEW max, ProcessEntry(i, max)
  PROVE  Sockets' /\ IdNamesSlot'
<1>1. CASE SkipFree(i)
  BY <1>1, RequestSockets DEF SkipFree, InTransfer
<1>2. CASE SendPacket(i) \/ NotReady(i) \/ ReadPacket(i)
  BY <1>2, TransferKinds, RequestSockets
<1>3. CASE TimeOut(i, max) \/ SendFails(i, max) \/ ReadEnds(i, max) \/ ReadFails(i, max)
  <2>1. Busy(i) /\ \E rc : finish_request(i, rc, max)
    BY <1>3 DEF TimeOut, SendFails, ReadEnds, ReadFails, Scans
  <2> QED
    BY <2>1, FinishKinds, RequestSockets DEF Tells, TellsAndAsks
<1> QED
  BY <1>1, <1>2, <1>3 DEF ProcessEntry

LEMMA PassHolds ==
  ASSUME IOInv, Poll \/ ProcessCommand \/ ServerAborts \/ ProcessReport
  PROVE  IOInv'
<1>1. CASE Poll
  <2>1. UNCHANGED <<net, wire, command_vars, report_vars, fetch_vars>> /\ LoopTypes'
    BY <1>1, LoopMoves DEF Poll, At, comm_vars
  <2> QED
    BY <2>1, FetchStays, CommandStays, ReportStays, WireStays, SocketsStay DEF IOInv, Types
<1>2. CASE ProcessCommand
  <2>1. UNCHANGED <<report_vars, fetch_vars>> /\ LoopTypes'
    BY <1>2, LoopMoves DEF ProcessCommand, At
  <2>2. FetchTypes' /\ IdNamesSlot' /\ SameSlots /\ ReportTypes' /\ SameReport
    BY <2>1, FetchStays, ReportStays
  <2>3. CASE CommandPart
    BY <2>1, <2>2, <2>3, CommandTyped, CommandSockets DEF IOInv, Types
  <2>4. CASE CommandQuiet
    <3>1. UNCHANGED <<net, wire, command_vars>>
      BY <2>4 DEF CommandQuiet
    <3> QED
      BY <2>1, <2>2, <3>1, CommandStays, WireStays, SocketsStay DEF IOInv, Types
  <2> QED
    BY <1>2, <2>3, <2>4 DEF ProcessCommand
<1>3. CASE ServerAborts
  <2>1. UNCHANGED <<net, wire, command_vars, report_vars, fetch_vars>> /\ LoopTypes'
    BY <1>3, LoopMoves DEF ServerAborts, At, EofThrows
  <2> QED
    BY <2>1, FetchStays, CommandStays, ReportStays, WireStays, SocketsStay DEF IOInv, Types
<1>4. CASE ProcessReport
  <2>1. UNCHANGED <<command_vars, fetch_vars>> /\ LoopTypes'
    BY <1>4, LoopMoves DEF ProcessReport
  <2>2. FetchTypes' /\ IdNamesSlot' /\ SameSlots /\ CommandTypes' /\ SameCommand
    BY <2>1, FetchStays, CommandStays
  <2>3. ReportConnect \/ ConnectFails \/ WriteReport \/ ReportQuiet
    BY <1>4 DEF ProcessReport
  <2> QED
    BY <2>1, <2>2, <2>3, ReportTyped, ReportSockets DEF IOInv, Types
<1> QED
  BY <1>1, <1>2, <1>3, <1>4

LEMMA SelectHolds ==
  ASSUME IOInv, SelectQueue
  PROVE  IOInv'
<1>1. LoopTypes' /\ load.pages \in 0 .. MaxTickets /\ load.reports \subseteq Report
  <2>1. UNCHANGED <<now, peers>> /\ pc' = "poll"
    BY DEF SelectQueue, At
  <2> QED
    BY <2>1, LoopMoves, LoadIs
<1>2. CASE (\E r \in load.reports : send_report(r)) /\ UNCHANGED <<now, command_vars, fetch_vars>>
  <2>1. FetchTypes' /\ IdNamesSlot' /\ SameSlots /\ CommandTypes' /\ SameCommand
    BY <1>2, FetchStays, CommandStays
  <2>2. \E r \in Report : send_report(r)
    BY <1>1, <1>2
  <2> QED
    BY <1>1, <2>1, <2>2, ReportTyped, ReportSockets DEF IOInv, Types
<1>3. CASE request_page(load.pages) /\ UNCHANGED <<now, comm_vars>>
  <2>1. CommandTypes' /\ SameCommand /\ ReportTypes' /\ SameReport
    BY <1>3, CommandStays, ReportStays DEF comm_vars
  <2>2. WireTypes' /\ FetchTypes'
    BY <1>1, <1>3, SubmitTyped
  <2>3. Sockets' /\ IdNamesSlot'
    BY <1>3, <2>1, SubmitKinds, RequestSockets DEF Asks
  <2> QED
    BY <1>1, <2>1, <2>2, <2>3 DEF IOInv, Types
<1>4. CASE \E i \in Slot : /\ Busy(i) /\ cancel_request(table[i].request_id)
                           /\ UNCHANGED <<now, comm_vars>>
  <2>1. CommandTypes' /\ SameCommand /\ ReportTypes' /\ SameReport
    BY <1>4, CommandStays, ReportStays DEF comm_vars
  <2>2. WireTypes' /\ FetchTypes'
    BY <1>4, CancelTyped
  <2>3. Sockets' /\ IdNamesSlot'
    BY <1>4, <2>1, CancelKinds, RequestSockets DEF Drops
  <2> QED
    BY <1>1, <2>1, <2>2, <2>3 DEF IOInv, Types
<1>5. CASE UNCHANGED <<net, wire, now, comm_vars, fetch_vars>>
  BY <1>1, <1>5, FetchStays, CommandStays, ReportStays, WireStays, SocketsStay
     DEF IOInv, Types, comm_vars
<1> QED
  BY <1>2, <1>3, <1>4, <1>5 DEF SelectQueue

LEMMA ServiceHolds ==
  ASSUME IOInv, BeginFetch \/ Scan \/ GetRequest \/ AnswerCommand
  PROVE  IOInv'
<1>1. CASE BeginFetch
  <2>1. LoopTypes' /\ UNCHANGED <<net, table, num_pending_requests>>
    BY <1>1, LoopMoves DEF BeginFetch, At, ProcessBegins
  <2>2. CommandTypes' /\ SameCommand /\ ReportTypes' /\ SameReport
    BY <1>1, CommandStays, ReportStays DEF BeginFetch, comm_vars
  <2> QED
    BY <1>1, <2>1, <2>2, PassTyped, RequestSockets DEF BeginFetch, IOInv, Types
<1>2. CASE Scan
  <2>1. LoopTypes' /\ load.pages \in 0 .. MaxTickets
    BY <1>2, LoopMoves, LoadIs DEF Scan
  <2>2. CommandTypes' /\ SameCommand /\ ReportTypes' /\ SameReport
    BY <1>2, CommandStays, ReportStays DEF Scan, comm_vars
  <2>3. PICK i \in Slot : ProcessEntry(i, load.pages)
    BY <1>2 DEF Scan
  <2> QED
    BY <2>1, <2>2, <2>3, EntryTyped, EntrySockets DEF IOInv, Types
<1>3. CASE GetRequest
  <2>1. LoopTypes' /\ UNCHANGED <<report_vars, fetch_vars>>
    BY <1>3, LoopMoves DEF GetRequest
  <2>2. FetchTypes' /\ IdNamesSlot' /\ SameSlots /\ ReportTypes' /\ SameReport
    BY <2>1, FetchStays, ReportStays
  <2>3. CASE get_request
    BY <2>1, <2>2, <2>3, AnswerTyped, AnswerSockets DEF IOInv, Types
  <2>4. CASE UNCHANGED <<net, wire, command_vars>>
    BY <2>1, <2>2, <2>4, CommandStays, WireStays, SocketsStay DEF IOInv, Types
  <2> QED
    BY <1>3, <2>3, <2>4 DEF GetRequest
<1>4. CASE AnswerCommand
  <2>1. LoopTypes' /\ UNCHANGED <<report_vars, fetch_vars>> /\ send_response
    BY <1>4, LoopMoves DEF AnswerCommand, At
  <2>2. FetchTypes' /\ IdNamesSlot' /\ SameSlots /\ ReportTypes' /\ SameReport
    BY <2>1, FetchStays, ReportStays
  <2> QED
    BY <2>1, <2>2, AnswerTyped, AnswerSockets DEF IOInv, Types
<1> QED
  BY <1>1, <1>2, <1>3, <1>4

\* A tick makes entries older and changes nothing else of theirs.
LEMMA TickSockets ==
  ASSUME IOInv, Tick, SameCommand, SameReport
  PROVE  Sockets' /\ IdNamesSlot'
<1>1. \A i \in Slot : /\ table'[i].request_id = table[i].request_id /\ table'[i].sd = table[i].sd
                      /\ table'[i].status = table[i].status
  <2>1. \A i \in Slot : table[i] \in EntryRec
    BY EntryTypes DEF IOInv, Types
  <2> QED
    BY <2>1 DEF Tick, EntryRec
<1>2. \A i \in Slot : /\ Busy(i)' = Busy(i) /\ Sending(i)' = Sending(i)
                      /\ Reading(i)' = Reading(i)
  BY <1>1 DEF Busy, Sending, Reading
<1>3. UNCHANGED <<net, num_pending_requests>>
  BY DEF Tick
<1>4. \A i \in Slot : SlotSocket(i)'
  BY <1>1, <1>2, <1>3 DEF IOInv, Sockets, SlotSocket, SameCommand, SameReport, main_sd
<1>5. Watches(net)' /\ CommandSocket' /\ ReportSocket' /\ MainSocket'
  BY <1>3 DEF IOInv, Sockets, CommandSocket, ReportSocket, MainSocket, Watches, SameCommand, SameReport
<1>6. NoOtherSocket'
  BY <1>1, <1>2, <1>3 DEF IOInv, Sockets, NoOtherSocket, SameCommand, SameReport, main_sd
<1>7. IdNamesSlot'
  <2>1. { i \in Slot : Busy(i) }' = { i \in Slot : Busy(i) }
    BY <1>2
  <2> QED
    BY <1>1, <1>2, <1>3, <2>1 DEF IOInv, IdNamesSlot
<1> QED
  BY <1>4, <1>5, <1>6, <1>7 DEF Sockets

LEMMA PeersHold ==
  ASSUME IOInv, Peers
  PROVE  IOInv'
<1>0. net.open \subseteq FD /\ load.commands \subseteq Command
  BY SocketTypes, LoadIs
<1>1. CASE ClientActs
  <2>1. LoopTypes' /\ UNCHANGED <<report_vars, fetch_vars>>
    BY <1>1, LoopMoves DEF ClientActs, IOInv, Types, LoopTypes
  <2>2. PICK c \in Command : ClientConnects(c) \/ ClientSends(c) \/ ClientCloses(c)
    BY <1>0, <1>1 DEF ClientActs
  <2>3. UNCHANGED net /\ SameCommand
    BY <2>2 DEF ClientConnects, ClientSends, ClientCloses, SameCommand
  <2> QED
    BY <2>1, <2>2, <2>3, ClientTyped, FetchStays, ReportStays, SocketsStay DEF IOInv, Types
<1>2. CASE ServerActs
  <2>1. LoopTypes' /\ UNCHANGED <<command_vars, report_vars>>
    BY <1>2, LoopMoves DEF ServerActs, IOInv, Types, LoopTypes, comm_vars
  <2>2. PICK sd \in FD : ServerSends(sd, load.answers) \/ ServerCloses(sd)
    BY <1>0, <1>2 DEF ServerActs
  <2>3. UNCHANGED <<net, table, num_pending_requests>>
    BY <2>2 DEF ServerSends, ServerCloses, fetch_vars
  <2> QED
    BY <2>1, <2>2, <2>3, ServerTyped, CommandStays, ReportStays, RequestSockets DEF IOInv, Types
<1>3. CASE Connects \/ Breaks
  <2>1. LoopTypes' /\ UNCHANGED <<command_vars, report_vars, fetch_vars>>
    BY <1>3, LoopMoves DEF Connects, Breaks, IOInv, Types, LoopTypes, comm_vars, peers
  <2>2. PICK sd : ConnectionUp(sd) \/ ConnectionBreaks(sd)
    BY <1>3 DEF Connects, Breaks
  <2> QED
    BY <2>1, <2>2, ConnectionTyped, FetchStays, CommandStays, ReportStays, SocketsStay DEF IOInv, Types
<1>4. CASE TimePasses
  <2>1. Tick /\ UNCHANGED <<command_vars, report_vars, pc, load, breaks>> /\ ticks' = ticks + 1
    BY <1>4 DEF TimePasses, comm_vars
  <2>2. LoopTypes'
    BY <2>1, TickTyped DEF IOInv, Types, LoopTypes
  <2> QED
    BY <2>1, <2>2, TickTyped, TickSockets, CommandStays, ReportStays DEF IOInv, Types
<1> QED
  BY <1>1, <1>2, <1>3, <1>4 DEF Peers

-----------------------------------------------------------------------------
(* The invariant *)

LEMMA InitHolds == Init => IOInv
<1> SUFFICES ASSUME Init PROVE IOInv
  OBVIOUS
<1>1. Types
  BY InitTyped
<1> DEFINE none == [open |-> {main_sd}, readfds |-> {}, writefds |-> {}, max_socket |-> -1]
<1>2. main_sd \in FD /\ None \notin FD
  BY NetAssumption DEF FD, main_sd, None
<1>3. Watches(none)
  BY <1>2 DEF Watches, NetRec
<1>4. NetIs(net, {main_sd}, {main_sd}, {})
  <2>1. net = set_read(none, main_sd)
    BY DEF Init, NetInit
  <2>2. NetIs(net, none.open, none.readfds \cup {main_sd}, none.writefds \ {main_sd})
    <3>1. main_sd \in none.open
      OBVIOUS
    <3> HIDE DEF none
    <3> QED
      BY <1>2, <1>3, <2>1, <3>1, SetRead
  <2> QED
    BY <2>2 DEF NetIs
<1>5. \A i \in Slot : ~Busy(i)
  BY DEF Init, FetchInit, Busy, FreeSlot
<1>6. request_status = "NONE" /\ report_sd = None
  BY DEF Init, CommInit
<1>7. Sockets
  BY <1>2, <1>4, <1>5, <1>6
     DEF Sockets, SlotSocket, CommandSocket, ReportSocket, MainSocket, NoOtherSocket, NetIs
<1>8. IdNamesSlot
  <2>1. { i \in Slot : Busy(i) } = {}
    BY <1>5
  <2>2. num_pending_requests = 0
    BY DEF Init, FetchInit
  <2> QED
    BY <1>5, <2>1, <2>2, FS_EmptySet DEF IdNamesSlot
<1> QED
  BY <1>1, <1>7, <1>8 DEF IOInv

LEMMA StutterHolds ==
  ASSUME IOInv, UNCHANGED io_vars
  PROVE  IOInv'
<1>1. UNCHANGED <<net, wire, now, command_vars, report_vars, fetch_vars, pc, load, breaks, ticks>>
  BY DEF io_vars, comm_vars
<1>2. LoopTypes'
  BY <1>1 DEF IOInv, Types, LoopTypes
<1> QED
  BY <1>1, <1>2, FetchStays, CommandStays, ReportStays, WireStays, SocketsStay DEF IOInv, Types

LEMMA NextHolds ==
  ASSUME IOInv, [Next]_io_vars
  PROVE  IOInv'
<1>1. CASE Loop
  BY <1>1, PassHolds, ServiceHolds, SelectHolds DEF Loop
<1>2. CASE Peers
  BY <1>2, PeersHold
<1>3. CASE UNCHANGED io_vars
  BY <1>3, StutterHolds
<1> QED
  BY <1>1, <1>2, <1>3 DEF Next

\* The types of all variables, the owner of every socket and the ids of the entries
\* are as the code takes for granted, in every state.
THEOREM IOHolds == Spec => []IOInv
<1>1. IOInv /\ [Next]_io_vars => IOInv'
  BY NextHolds
<1> QED
  BY InitHolds, <1>1, PTL DEF Spec

\* The asserts of net_mod::read and net_mod::write never fail: whoever will read or write
\* a socket has it in the set it needs, and select does not pass over it.
THEOREM SocketsReady == Spec => []SocketsWatched
<1>1. IOInv => SocketsWatched
  <2> SUFFICES ASSUME IOInv PROVE SocketsWatched
    OBVIOUS
  <2>1. \A i \in Slot : Busy(i) => IF Sending(i) THEN MayWrite(table[i].sd) ELSE MayRead(table[i].sd)
    BY DEF IOInv, Sockets, SlotSocket, Watches, MayRead, MayWrite
  <2>2. /\ request_status = "READING_REQUEST" => MayRead(request_sd)
        /\ request_status = "SENDING_RESPONSE" => MayWrite(request_sd)
    BY DEF IOInv, Sockets, CommandSocket, Watches, MayRead, MayWrite
  <2>3. (report_sd # None => MayWrite(report_sd)) /\ MayRead(main_sd)
    BY DEF IOInv, Sockets, ReportSocket, MainSocket, Watches, MayRead, MayWrite
  <2> QED
    BY <2>1, <2>2, <2>3 DEF SocketsWatched
<1> QED
  BY <1>1, IOHolds, PTL
=============================================================================
