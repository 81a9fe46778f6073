------------------------------ MODULE CrawlComm ------------------------------
(***************************************************************************)
(* crawl_comm.cc: commands and reports.  A site manager connects, sends a  *)
(* command and reads the response; one such connection is served at a      *)
(* time, the others wait in the backlog of main_sd.  A report leaves on a  *)
(* connection of its own, which the server opens and closes; one that      *)
(* could not be written whole is written again from its start.  One that   *)
(* was is forgotten: if TCP then drops it, it is lost (CrawlBuddy's        *)
(* LoseReport).                                                            *)
(*                                                                         *)
(* A command, a response and a report are two pieces each; the blank line  *)
(* that ends a command is in its second piece.                             *)
(***************************************************************************)
EXTENDS NetMod

CONSTANTS
  Command,      \* the commands of this instance, one connection each
  Report        \* the reports of this instance

\* A connection's `to' tells a command from the other peers.
ASSUME CommAssumption == Command \cap {"nobody", "listen", "web", "manager"} = {}

VARIABLES
  request_status, request_sd, buffer, buffer_cursor,
  packet,         \* what get_request handed to the main loop
  report, report_sd, report_cursor,
  backlog,        \* clients that connected to main_sd and were not accepted yet
  client,         \* what each client has sent and got
  reported,       \* the reports handed to send_report, in order
  written         \* what the server wrote on each report connection, in order (history)

command_vars == <<request_status, request_sd, buffer, buffer_cursor, packet, backlog, client>>
report_vars == <<report, report_sd, report_cursor, reported, written>>
comm_vars == <<command_vars, report_vars>>

main_sd == 1
Size == 2
Text(m) == [i \in 1 .. Size |-> <<m, i>>]
Response(m) == [i \in 1 .. Size |-> <<m, Size + i>>]
Rest(pieces, cursor) == SubSeq(pieces, cursor + 1, Len(pieces))
Terminated(pieces) == \E i \in DOMAIN pieces : pieces[i][2] = Size
Absent == [pieces |-> << >>, fin |-> FALSE, got |-> << >>, gone |-> FALSE]

\* The constructor leaves report_cursor uninitialised: it holds some number.
CommInit(cursor) ==
  /\ request_status = "NONE" /\ request_sd = None /\ buffer = << >> /\ buffer_cursor = 0
  /\ packet = << >>
  /\ report = << >> /\ report_sd = None /\ report_cursor = cursor
  /\ backlog = << >> /\ client = [c \in Command |-> Absent]
  /\ reported = << >> /\ written = << >>

-----------------------------------------------------------------------------
(* crawl_comm::process, first part: the connection of a command *)

AcceptCommand ==
  /\ request_status = "NONE" /\ backlog # << >> /\ CanOpen(net)
  /\ LET c == Head(backlog)
         sd == NewFD(net)
     IN /\ request_sd' = sd
        /\ net' = accept(net)
        /\ wire' = [wire EXCEPT ![sd] = [Fresh("up", c) EXCEPT !.unread = client[c].pieces,
                                                               !.fin = client[c].fin]]
  /\ backlog' = Tail(backlog)
  /\ buffer' = << >> /\ buffer_cursor' = 0
  /\ request_status' = "READING_REQUEST"
  /\ UNCHANGED <<packet, client>>

\* nm->close(request_sd), and the next command may be accepted.
HangUp_StaysBusy ==
  net' = close(net, request_sd) /\ wire' = [wire EXCEPT ![request_sd] = Closed]
  /\ UNCHANGED request_status
HangUp ==
  /\ net' = close(net, request_sd)
  /\ wire' = [wire EXCEPT ![request_sd] = Closed]
  /\ request_status' = "NONE"

ReadCommandFails ==
  /\ request_status = "READING_REQUEST" /\ ready(net, request_sd) /\ ReadBroken(request_sd)
  /\ HangUp
  /\ client' = [client EXCEPT ![wire[request_sd].to].gone = TRUE]
  /\ UNCHANGED <<request_sd, buffer, buffer_cursor, packet, backlog>>

\* The whole command is in the buffer: stop reading, what follows it is dropped.
Complete(got) == Terminated(got)
ReadCommand ==
  /\ request_status = "READING_REQUEST" /\ ready(net, request_sd)
  /\ \E k \in ReadSizes(request_sd, Size) :
       LET got == buffer \o Received(request_sd, k)
       IN /\ buffer' = got
          /\ buffer_cursor' = Len(got)
          /\ wire' = AfterRead(request_sd, k)
          /\ IF Complete(got)
             THEN net' = suspend(net, request_sd) /\ request_status' = "REQUEST_READY"
             ELSE UNCHANGED <<net, request_status>>
  /\ UNCHANGED <<request_sd, packet, backlog, client>>

\* The client closed first.  request_end is read uninitialised: the buffer is kept
\* whole or cut anywhere; erase() beyond its end throws and ends the process.
ReadCommandEof ==
  /\ request_status = "READING_REQUEST" /\ ready(net, request_sd) /\ ReadEof(request_sd)
  /\ \E k \in 0 .. Len(buffer) : buffer' = SubSeq(buffer, 1, k)
  /\ buffer_cursor' \in 0 .. Size
  /\ net' = suspend(net, request_sd)
  /\ request_status' = "REQUEST_READY"
  /\ UNCHANGED <<wire, request_sd, packet, backlog, client>>

EofThrows ==
  /\ request_status = "READING_REQUEST" /\ ready(net, request_sd) /\ ReadEof(request_sd)
  /\ UNCHANGED <<net, wire, command_vars>>

\* The response went whole or cannot go: close.  Otherwise send the rest later.
WriteResponse ==
  /\ request_status = "SENDING_RESPONSE" /\ ready(net, request_sd)
  /\ LET rest == Rest(buffer, buffer_cursor)
         c == wire[request_sd].to
     IN \/ /\ WriteBroken(request_sd)
           /\ HangUp /\ buffer' = << >> /\ buffer_cursor' = 0
           /\ client' = [client EXCEPT ![c].gone = TRUE]
        \/ \E k \in 1 .. Len(rest) :
             /\ ~WriteBroken(request_sd)
             /\ client' = [client EXCEPT ![c].got = @ \o SubSeq(rest, 1, k)]
             /\ IF k = Len(rest)
                THEN HangUp /\ buffer' = << >> /\ buffer_cursor' = 0
                ELSE /\ buffer_cursor' = buffer_cursor + k
                     /\ UNCHANGED <<net, wire, request_status, buffer>>
  /\ UNCHANGED <<request_sd, packet, backlog>>

CommandPart == AcceptCommand \/ ReadCommandFails \/ ReadCommand \/ ReadCommandEof \/ WriteResponse

\* Nothing to do for the command connection.
CommandQuiet ==
  /\ request_status = "NONE" => backlog = << >> \/ ~CanOpen(net)
  /\ request_status \in {"READING_REQUEST", "SENDING_RESPONSE"} => ~ready(net, request_sd)
  /\ UNCHANGED <<net, wire, command_vars>>

-----------------------------------------------------------------------------
(* crawl_comm::process, second part: the reports *)

\* nm->connect fails at once, or the connection is on its way.
ReportConnect ==
  /\ report # << >> /\ report_sd = None /\ CanOpen(net)
  /\ report_sd' = NewFD(net)
  /\ net' = connect(net)
  /\ wire' = [wire EXCEPT ![NewFD(net)] = Fresh("connecting", "manager")]
  /\ written' = Append(written, << >>)
  /\ UNCHANGED <<report, report_cursor, reported>>

ConnectFails ==
  /\ report # << >> /\ report_sd = None
  /\ UNCHANGED <<net, wire, report_vars>>

\* The report at the head leaves the queue when its last byte was written.
AfterReport_DropOnError(done) == Tail(report)
AfterReport(done) == IF done THEN Tail(report) ELSE report

\* The connection is closed; the next report, or this one again, gets a new one.
CloseReport(done, log) ==
  LET closed == close(net, report_sd)
      wired == [wire EXCEPT ![report_sd] = Closed]
  IN /\ report' = AfterReport(done)
     /\ report_cursor' = 0
     /\ \/ /\ report' # << >> /\ CanOpen(closed)
           /\ report_sd' = NewFD(closed)
           /\ net' = connect(closed)
           /\ wire' = [wired EXCEPT ![NewFD(closed)] = Fresh("connecting", "manager")]
           /\ written' = Append(log, << >>)
        \/ /\ report_sd' = None
           /\ net' = closed /\ wire' = wired /\ written' = log

\* A cursor beyond the report makes a length no write accepts.
WriteReport ==
  /\ report # << >> /\ report_sd # None /\ ready(net, report_sd)
  /\ LET rest == Rest(Text(Head(report)), report_cursor)
     IN \/ /\ WriteBroken(report_sd) \/ report_cursor > Size
           /\ CloseReport(FALSE, written)
        \/ \E k \in 0 .. Len(rest) :
             /\ ~WriteBroken(report_sd) /\ report_cursor <= Size
             /\ k = 0 => rest = << >>
             /\ LET log == [written EXCEPT ![Len(written)] = @ \o SubSeq(rest, 1, k)]
                IN IF k = Len(rest)
                   THEN CloseReport(TRUE, log)
                   ELSE /\ report_cursor' = report_cursor + k
                        /\ written' = log
                        /\ UNCHANGED <<net, wire, report, report_sd>>
  /\ UNCHANGED reported

ReportQuiet ==
  /\ report # << >> => report_sd # None /\ ~ready(net, report_sd)
  /\ UNCHANGED <<net, wire, report_vars>>

-----------------------------------------------------------------------------
(* Calls of the main loop *)

get_request ==
  /\ request_status = "REQUEST_READY"
  /\ packet' = buffer
  /\ request_status' = "REQUEST_READ"
  /\ buffer' = << >> /\ buffer_cursor' = 0
  /\ UNCHANGED <<net, wire, request_sd, backlog, client>>

\* What the main loop answers, whatever the command: `packet' may be cut or empty.
send_response ==
  /\ request_status = "REQUEST_READ"
  /\ buffer' = IF packet = << >> THEN << <<"unknown", Size + 1>> >> ELSE Response(packet[1][1])
  /\ buffer_cursor' = 0
  /\ packet' = << >>
  /\ net' = set_write(net, request_sd)
  /\ request_status' = "SENDING_RESPONSE"
  /\ UNCHANGED <<wire, request_sd, backlog, client>>

send_report(r) ==
  /\ \A i \in DOMAIN reported : reported[i] # r
  /\ report' = Append(report, r) /\ reported' = Append(reported, r)
  /\ \/ /\ report_sd = None /\ CanOpen(net)
        /\ report_sd' = NewFD(net)
        /\ net' = connect(net)
        /\ wire' = [wire EXCEPT ![NewFD(net)] = Fresh("connecting", "manager")]
        /\ report_cursor' = 0
        /\ written' = Append(written, << >>)
     \/ UNCHANGED <<report_sd, net, wire, report_cursor, written>>

-----------------------------------------------------------------------------
(* The site manager *)

ClientConnects(c) ==
  /\ client[c] = Absent /\ \A i \in DOMAIN backlog : backlog[i] # c
  /\ \A sd \in net.open : wire[sd].to # c
  /\ backlog' = Append(backlog, c)
  /\ UNCHANGED <<net, wire, request_status, request_sd, buffer, buffer_cursor, packet, client>>

\* The connection of c, if the server has accepted it; else the kernel keeps the data.
SocketOf(c) == { sd \in net.open : wire[sd].to = c }
Waiting(c) == \E i \in DOMAIN backlog : backlog[i] = c

ClientSends(c) ==
  /\ Waiting(c) \/ SocketOf(c) # {}
  /\ Len(client[c].pieces) < Size /\ ~client[c].fin
  /\ LET piece == Text(c)[Len(client[c].pieces) + 1]
     IN /\ client' = [client EXCEPT ![c].pieces = Append(@, piece)]
        /\ wire' = [sd \in FD |-> IF sd \in SocketOf(c)
                                  THEN [wire[sd] EXCEPT !.unread = Append(@, piece)]
                                  ELSE wire[sd]]
  /\ UNCHANGED <<net, request_status, request_sd, buffer, buffer_cursor, packet, backlog>>

ClientCloses(c) ==
  /\ Waiting(c) \/ SocketOf(c) # {}
  /\ ~client[c].fin
  /\ client' = [client EXCEPT ![c].fin = TRUE]
  /\ wire' = [sd \in FD |-> IF sd \in SocketOf(c) THEN [wire[sd] EXCEPT !.fin = TRUE] ELSE wire[sd]]
  /\ UNCHANGED <<net, request_status, request_sd, buffer, buffer_cursor, packet, backlog>>
=============================================================================
