------------------------------ MODULE ServerIO ------------------------------
(***************************************************************************)
(* The I/O of the crawl server: crawl_comm and fetch_module on one         *)
(* net_mod, called by the loop of manager.cc in the order                  *)
(*     poll, comm->process, fm->process, get_request, select_queue.        *)
(* What the manager decides (which page to ask for, which site to report)  *)
(* is CrawlServer's; here it submits, cancels and reports at will.         *)
(***************************************************************************)
EXTENDS CrawlComm, FetchModule, SequencesExt

CONSTANTS
  Loads          \* what is asked of the server: bounds on each kind of event

ASSUME IOAssumption ==
  Loads \subseteq [ commands : SUBSET Command, reports : SUBSET Report, cursor : Nat,
                   pages : 0 .. MaxTickets, answers : Nat, breaks : Nat, ticks : Nat,
                   start : Ticks ]

VARIABLES pc, load, breaks, ticks

io_vars == <<net, wire, now, comm_vars, fetch_vars, pc, load, breaks, ticks>>
peers == <<load, breaks, ticks>>

Init ==
  /\ NetInit(main_sd)
  /\ load \in Loads /\ breaks = 0 /\ ticks = 0
  /\ now = load.start              \* the tick counter when the server starts
  /\ CommInit(load.cursor)         \* what the uninitialised report_cursor holds
  /\ FetchInit
  /\ pc = "poll"

-----------------------------------------------------------------------------
(* The loop *)

At(here, there) == pc = here /\ pc' = there

Poll ==
  /\ At("poll", "command")
  /\ UNCHANGED <<net, wire, now, comm_vars, fetch_vars, peers>>

ProcessCommand ==
  /\ At("command", "report")
  /\ CommandPart \/ CommandQuiet
  /\ UNCHANGED <<now, report_vars, fetch_vars, peers>>

ServerAborts ==
  /\ At("command", "dead")
  /\ EofThrows
  /\ UNCHANGED <<now, report_vars, fetch_vars, peers>>

\* A connection made here is written to in the same pass, if it is ready.
ProcessReport ==
  /\ pc = "report"
  /\ \/ ReportConnect /\ pc' = "report"
     \/ (ConnectFails \/ WriteReport \/ ReportQuiet) /\ pc' = "fetch"
  /\ UNCHANGED <<now, command_vars, fetch_vars, peers>>

BeginFetch ==
  /\ At("fetch", "scan")
  /\ ProcessBegins
  /\ UNCHANGED <<now, comm_vars, peers>>

Scan ==
  /\ pc = "scan"
  /\ \E i \in Slot : ProcessEntry(i, load.pages)
  /\ pc' = IF scan' = -1 THEN "get" ELSE "scan"
  /\ UNCHANGED <<now, comm_vars, peers>>

GetRequest ==
  /\ pc = "get"
  /\ \/ get_request /\ pc' = "answer"
     \/ /\ request_status # "REQUEST_READY" /\ pc' = "select"
        /\ UNCHANGED <<net, wire, command_vars>>
  /\ UNCHANGED <<now, report_vars, fetch_vars, peers>>

AnswerCommand ==
  /\ At("answer", "select")
  /\ send_response
  /\ UNCHANGED <<now, report_vars, fetch_vars, peers>>

SelectQueue ==
  /\ At("select", "poll")
  /\ \/ (\E r \in load.reports : send_report(r)) /\ UNCHANGED <<now, command_vars, fetch_vars>>
     \/ request_page(load.pages) /\ UNCHANGED <<now, comm_vars>>
     \/ \E i \in Slot : /\ Busy(i) /\ cancel_request(table[i].request_id)
                        /\ UNCHANGED <<now, comm_vars>>
     \/ UNCHANGED <<net, wire, now, comm_vars, fetch_vars>>
  /\ UNCHANGED peers

Loop ==
  \/ Poll \/ ProcessCommand \/ ServerAborts \/ ProcessReport \/ BeginFetch \/ Scan
  \/ GetRequest \/ AnswerCommand \/ SelectQueue

-----------------------------------------------------------------------------
(* The peers act while the loop is in poll: ready() polls again, so that what happens later *)
(* in a pass is as if it had happened before the socket was looked at.                      *)

ClientActs ==
  /\ pc = "poll"
  /\ \E c \in load.commands : ClientConnects(c) \/ ClientSends(c) \/ ClientCloses(c)
  /\ UNCHANGED <<now, report_vars, fetch_vars, pc, peers>>

ServerActs ==
  /\ pc = "poll"
  /\ \E sd \in net.open : ServerSends(sd, load.answers) \/ ServerCloses(sd)
  /\ UNCHANGED <<now, comm_vars, pc, peers>>

Connects ==
  /\ pc \in {"poll", "report"}
  /\ \E sd \in net.open : ConnectionUp(sd)
  /\ UNCHANGED <<now, comm_vars, fetch_vars, pc, peers>>

Breaks ==
  /\ pc = "poll" /\ breaks < load.breaks /\ breaks' = breaks + 1
  /\ \E sd \in net.open : ConnectionBreaks(sd)
  /\ UNCHANGED <<now, comm_vars, fetch_vars, pc, load, ticks>>

TimePasses ==
  /\ pc = "poll" /\ ticks < load.ticks /\ ticks' = ticks + 1
  /\ Tick
  /\ UNCHANGED <<comm_vars, pc, load, breaks>>

Peers == ClientActs \/ ServerActs \/ Connects \/ Breaks \/ TimePasses

Next == Loop \/ Peers
Spec == Init /\ [][Next]_io_vars

\* poll returns when a socket is ready; nothing else is sure to wake the loop.
Woken ==
  pc = "poll" => \/ backlog # << >> /\ main_sd \in net.readfds /\ main_sd <= net.max_socket
                 \/ \E sd \in net.open : ready(net, sd)

\* A client that connected goes on until its command is sent, and the network delivers.
Fairness ==
  /\ WF_io_vars(Loop /\ Woken)
  /\ SF_io_vars(Connects)
  /\ SF_io_vars(\E c \in load.commands : ClientSends(c) /\ ClientActs)

FairSpec == Spec /\ Fairness

-----------------------------------------------------------------------------
(* Properties *)

\* Types.
TypeOK ==
  /\ NetTypeOK
  /\ request_status \in {"NONE", "READING_REQUEST", "REQUEST_READY", "REQUEST_READ",
                         "SENDING_RESPONSE"}
  /\ request_sd \in FD \cup {None} /\ report_sd \in FD \cup {None}
  /\ report \in Seq(Report) /\ reported \in Seq(Report)
  /\ cur_request_id \in 0 .. MaxInt /\ num_pending_requests \in 0 .. MAX_PENDING_REQUESTS
  /\ \A i \in Slot : table[i].request_id \in 0 .. MaxInt
  /\ pc \in {"poll", "command", "report", "fetch", "scan", "get", "answer", "select", "dead"}

\* The asserts of net_mod::read and net_mod::write: whoever will read or write a socket
\* has it in the set it needs, and select does not pass over it.
SocketsWatched ==
  /\ \A i \in Slot : Busy(i) => IF Sending(i) THEN MayWrite(table[i].sd) ELSE MayRead(table[i].sd)
  /\ request_status = "READING_REQUEST" => MayRead(request_sd)
  /\ request_status = "SENDING_RESPONSE" => MayWrite(request_sd)
  /\ report_sd # None => MayWrite(report_sd)
  /\ MayRead(main_sd)

\* No socket has two owners, and none is left open without one.
SocketsOwned ==
  LET owners == { table[i].sd : i \in { j \in Slot : Busy(j) } }
      command == IF request_status = "NONE" THEN {} ELSE {request_sd}
      reports == { report_sd } \ {None}
  IN /\ net.open = {main_sd} \cup owners \cup command \cup reports
     /\ Cardinality(net.open) = 1 + Cardinality({ i \in Slot : Busy(i) })
                                  + Cardinality(command) + Cardinality(reports)

\* A client gets the response to its own command, in order, and only after the server
\* read the whole command or the client closed.
ResponseToItsCommand ==
  \A c \in Command :
    LET got == client[c].got
    IN /\ got # << >> => Len(client[c].pieces) = Size \/ client[c].fin
       /\ IsPrefix(got, Response(c)) \/ (client[c].fin /\ got = << <<"unknown", Size + 1>> >>)

\* Each report that has left the queue was written once, over a connection of its own,
\* by[i], in the order of send_report, and whole; no other connection got to the end of a
\* report, so that one that is written again was not complete before.  (crawler/TODO:59
\* says that a report whose sending fails is lost; the code tries again until all is
\* written, and only what TCP loses after that is lost.)  The first may lack what an
\* uninitialised cursor skipped, which is all of it if the cursor is its length.
Ended(log) == log # << >> /\ log[Len(log)][2] = Size
ReportsOnceInOrder ==
  LET sent == Len(reported) - Len(report)
  IN /\ sent >= 0 /\ report = Rest(reported, sent)
     /\ \E by \in [1 .. sent -> DOMAIN written] :
          /\ \A i, j \in 1 .. sent : i < j => by[i] < by[j]
          /\ \A i \in 1 .. sent :
               \/ written[by[i]] = Text(reported[i])
               \/ /\ i = 1 /\ load.cursor \in 1 .. Size
                  /\ written[by[i]] = Rest(Text(reported[i]), load.cursor)
          /\ \A k \in DOMAIN written : Ended(written[k]) => \E i \in 1 .. sent : by[i] = k

\* An id finds its entry (id modulo the size of the table), is never 0, which marks a
\* free entry, and is nobody else's, also after the ids have wrapped around; and
\* num_pending_requests counts the entries in use, so that append_request, which asserts
\* it, finds a free one whenever request_page lets it search.
IdNamesSlot ==
  /\ \A i \in Slot : Busy(i) =>
       /\ table[i].request_id > 0
       /\ table[i].request_id % MAX_PENDING_REQUESTS = i
  /\ num_pending_requests = Cardinality({ i \in Slot : Busy(i) })

\* A request is called back once, unless it was cancelled; a cancelled or finished one
\* holds no entry, and one that is pending does.
CalledOnce ==
  \A t \in Ticket :
    /\ fate[t].calls = (IF fate[t].state = "done" THEN 1 ELSE 0)
    /\ (fate[t].state = "pending") <=> \E i \in Slot : Busy(i) /\ table[i].ticket = t

\* Every request has an entry, an id, a socket and one call of its callback.
RequestsServedOnce == TypeOK /\ SocketsOwned /\ IdNamesSlot /\ CalledOnce

\* Whatever breaks meanwhile, responses and reports are written where they belong, once.
DeliveredInOrder == ResponseToItsCommand /\ ReportsOnceInOrder

\* The page a callback gets with code 0 is the first h pieces of the request, if that was
\* sent in parts, and then what this request's server sent, from its first piece on and
\* without a gap; it is cut only where the buffer ends.  (That the page begins with the
\* answer, as PageContainer.h:45 and the test for "HTTP/" in callback.cc:154 have it,
\* holds for h = 0 only.)
PageEndsInAnswer ==
  \A t \in Ticket : fate[t].rc = "OK" =>
    LET n == Len(fate[t].page)
    IN \E h \in 0 .. RequestLen - 1 :
         /\ h <= n
         /\ fate[t].page = [k \in 1 .. n |-> IF k <= h THEN <<t, -k>> ELSE <<t, k - h>>]
         /\ n - h < fate[t].served => n = MAX_PAGE_SIZE - 1

\* A request times out when it is older than MAX_WAIT at a pass, no sooner and no later,
\* as long as the tick counter has not wrapped around meanwhile: up to MAX_WAIT after it
\* wraps new requests time out at once, and those made before it never do.
JustWrapped(t) == t < -HalfRange + MAX_WAIT
TimeoutExact ==
  /\ \A t \in Ticket : fate[t].rc = "TIMEOUT" => fate[t].age > MAX_WAIT \/ JustWrapped(fate[t].at)
  /\ pc = "get" => \A i \in Slot : Busy(i) /\ table[i].start_time <= now => table[i].age <= MAX_WAIT

\* Every client that sent its command and waits is answered, unless its connection breaks
\* or the end of another client's data kills the server (see EofThrows).
CommandsAnswered ==
  \A c \in Command :
    Len(client[c].pieces) = Size ~>
      client[c].got = Response(c) \/ client[c].gone \/ client[c].fin \/ pc = "dead"

\* A report that has a connection leaves over it, or loses it; only a report without one,
\* because connect failed, waits until something else wakes the loop.
ReportsLeave ==
  \A r \in Report :
    (\E i \in DOMAIN report : report[i] = r) ~>
      (\A i \in DOMAIN report : report[i] # r) \/ report_sd = None \/ pc = "dead"

\* No connection is left waiting.
EverythingLeaves == CommandsAnswered /\ ReportsLeave
=============================================================================
