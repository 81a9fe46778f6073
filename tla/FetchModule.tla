----------------------------- MODULE FetchModule -----------------------------
(***************************************************************************)
(* fetch.cc: the table of connections to Web servers.  The manager submits *)
(* a request and gets an id; process() is called on every pass of its loop *)
(* and walks the table: it sends requests, reads responses, ends what has  *)
(* taken too long, and calls back, once, for each request that ended.  The *)
(* callback may submit again.  A request may be cancelled by its id.       *)
(*                                                                         *)
(* A page is a ticket here: the n-th submission of this instance.  The     *)
(* buffer first holds the request, then the response; both travel in       *)
(* pieces, and buf_size counts pieces: <<t, -k>> is the k-th piece of the  *)
(* request of ticket t, <<t, k>> of its answer.                            *)
(***************************************************************************)
EXTENDS NetMod

CONSTANTS
  MAX_PENDING_REQUESTS,
  MaxInt,            \* 2^31 - 1: ids beyond it are negative
  MAX_WAIT, WAIT_UNTIL_CLOSE,               \* in ticks
  RequestLen,        \* pieces of a request
  INITIAL_BUFFER_SIZE, MAX_PAGE_SIZE, LowSpace,
  MaxTickets         \* bound on the requests ever submitted

ASSUME FetchAssumption ==
  /\ MAX_PENDING_REQUESTS \in Nat \ {0} /\ MaxInt \in Nat /\ MaxInt >= 2 * MAX_PENDING_REQUESTS - 1
  /\ MAX_WAIT \in Nat \ {0} /\ WAIT_UNTIL_CLOSE \in Nat \ {0} /\ MAX_WAIT < HalfRange
  /\ RequestLen \in Nat \ {0} /\ LowSpace \in Nat \ {0} /\ MaxTickets \in Nat
  /\ INITIAL_BUFFER_SIZE \in Nat /\ INITIAL_BUFFER_SIZE >= RequestLen
  /\ MAX_PAGE_SIZE \in Nat /\ MAX_PAGE_SIZE >= INITIAL_BUFFER_SIZE

\* A buffer that is doubled, 16 KB at first, comes to 1 MB exactly.
ASSUME BufferAssumption ==
  \E sizes \in SUBSET (1 .. MAX_PAGE_SIZE) :
    /\ INITIAL_BUFFER_SIZE \in sizes
    /\ \A b \in sizes : b < MAX_PAGE_SIZE => 2 * b \in sizes

VARIABLES
  table, cur_request_id, num_pending_requests,
  scan,        \* the entry process() looks at, or None
  started,     \* `now' and `kill_before' of this pass
  fate,        \* of each ticket: what became of it (history)
  tickets      \* the number of submissions

fetch_vars == <<table, cur_request_id, num_pending_requests, scan, started, fate, tickets>>

Slot == 0 .. MAX_PENDING_REQUESTS - 1
Ticket == 1 .. MaxTickets
Busy(i) == table[i].request_id # 0

\* age: the ticks that really passed since start_time (history, up to MAX_WAIT + 1).
\* page: the buffer up to buf_cursor, which is Len(page).  A request that is sent in parts
\* moves the cursor on: its first pieces stay there, and the answer is read behind them.
FreeSlot == [request_id |-> 0, status |-> "DONE", sd |-> None, start_time |-> 0, ticket |-> 0,
             page |-> << >>, buf_size |-> 0, age |-> 0]
NoFate == [state |-> "unused", calls |-> 0, rc |-> "none", page |-> << >>,
           served |-> 0, age |-> 0, at |-> 0]

FetchInit ==
  /\ table = [i \in Slot |-> FreeSlot]
  /\ cur_request_id = 0 /\ num_pending_requests = 0
  /\ scan = -1 /\ started = [now |-> 0, kill_before |-> 0]
  /\ fate = [t \in Ticket |-> NoFate] /\ tickets = 0

-----------------------------------------------------------------------------
(* request_page, append_request *)

\* The first free slot after that of the last id, cyclically.
FreeAfter(tab, start) ==
  LET At(d) == (start + d) % MAX_PENDING_REQUESTS
      d == Min({ k \in 1 .. MAX_PENDING_REQUESTS : tab[At(k)].request_id = 0 })
  IN [slot |-> At(d), distance |-> d]

\* cur_request_id moves to the next id of the slot; past MaxInt it starts again.
NextId_NoSkip(id, f) ==
  IF id + 1 > MaxInt THEN f.slot + MAX_PENDING_REQUESTS ELSE id + 1
NextId(id, f) ==
  IF id + f.distance > MaxInt THEN f.slot + MAX_PENDING_REQUESTS ELSE id + f.distance

Entry(id, sd, t) ==
  [FreeSlot EXCEPT !.request_id = id, !.status = "CONNECTING_TO_SERVER", !.sd = sd,
                   !.start_time = get_time(0), !.ticket = t, !.buf_size = INITIAL_BUFFER_SIZE]

\* Refused when the table is full, or the connection cannot be made.
\* max bounds the submissions of the instance.
MaySubmit(max) ==
  num_pending_requests < MAX_PENDING_REQUESTS /\ CanOpen(net) /\ tickets < max

\* The state after append_request; the caller may still release an entry.
Appended ==
  LET f == FreeAfter(table, cur_request_id % MAX_PENDING_REQUESTS)
      id == NextId(cur_request_id, f)
      sd == NewFD(net)
  IN [ id |-> id, slot |-> f.slot, net |-> connect(net),
       table |-> [table EXCEPT ![f.slot] = Entry(id, sd, tickets + 1)],
       wire |-> [wire EXCEPT ![sd] = [Fresh("connecting", "web") EXCEPT !.ticket = tickets + 1]] ]

request_page(max) ==
  /\ MaySubmit(max)
  /\ table' = Appended.table /\ cur_request_id' = Appended.id
  /\ num_pending_requests' = num_pending_requests + 1
  /\ net' = Appended.net /\ wire' = Appended.wire
  /\ tickets' = tickets + 1
  /\ fate' = [fate EXCEPT ![tickets + 1].state = "pending"]
  /\ UNCHANGED <<scan, started>>

-----------------------------------------------------------------------------
(* release_resources, cancel_request, finish_request *)

Released(tab, i) == [tab EXCEPT ![i] = FreeSlot]

\* The manager cancels a request that it still waits for.
Cancelled(id) ==
  LET i == id % MAX_PENDING_REQUESTS
  IN IF table[i].request_id = id THEN {i} ELSE {}

cancel_request(id) ==
  /\ \E i \in Cancelled(id) :
       /\ table' = Released(table, i)
       /\ num_pending_requests' = num_pending_requests - 1
       /\ net' = close(net, table[i].sd)
       /\ wire' = [wire EXCEPT ![table[i].sd] = Closed]
       /\ fate' = [fate EXCEPT ![table[i].ticket].state = "cancelled"]
  /\ UNCHANGED <<cur_request_id, scan, started, tickets>>

\* What the callback is told about the request of entry e: the page is the buffer from
\* its start, with whatever of the request is in front of the answer.
Outcome(f, e, rc) ==
  [f EXCEPT !.state = "done", !.calls = f.calls + 1, !.rc = rc, !.page = e.page,
            !.age = e.age, !.at = started.now]
Told(i, rc) ==
  [fate EXCEPT ![table[i].ticket] = Outcome(fate[table[i].ticket], table[i], rc)]

\* The callback runs first, while the entry is in the table; it may submit again.
finish_request(i, rc, max) ==
  /\ \/ /\ table' = Released(table, i)
        /\ num_pending_requests' = num_pending_requests - 1
        /\ net' = close(net, table[i].sd)
        /\ wire' = [wire EXCEPT ![table[i].sd] = Closed]
        /\ fate' = Told(i, rc)
        /\ UNCHANGED <<cur_request_id, tickets>>
     \/ /\ MaySubmit(max)
        /\ table' = Released(Appended.table, i)
        /\ cur_request_id' = Appended.id
        /\ net' = close(Appended.net, table[i].sd)
        /\ wire' = [Appended.wire EXCEPT ![table[i].sd] = Closed]
        /\ tickets' = tickets + 1
        /\ fate' = [Told(i, rc) EXCEPT ![tickets + 1].state = "pending"]
        /\ UNCHANGED num_pending_requests
  /\ UNCHANGED started

-----------------------------------------------------------------------------
(* process *)

ProcessBegins ==
  /\ started' = [now |-> get_time(0), kill_before |-> get_time(-MAX_WAIT)]
  /\ scan' = 0
  /\ UNCHANGED <<net, wire, table, cur_request_id, num_pending_requests, fate, tickets>>

NextEntry == scan' = IF scan = MAX_PENDING_REQUESTS - 1 THEN -1 ELSE scan + 1
TooOld_NotYet(i) == table[i].start_time <= started.kill_before
TooOld(i) == table[i].start_time < started.kill_before
Scans(i) == scan = i /\ Busy(i) /\ ~TooOld(i)
InTransfer == UNCHANGED <<cur_request_id, num_pending_requests, started, fate, tickets>>

SkipFree(i) ==
  /\ scan = i /\ ~Busy(i)
  /\ NextEntry
  /\ UNCHANGED <<net, wire, table>> /\ InTransfer

TimeOut(i, max) ==
  /\ scan = i /\ Busy(i) /\ TooOld(i)
  /\ finish_request(i, "TIMEOUT", max)
  /\ NextEntry

\* send_packet: what remains of the request, from buf_cursor on.  The write that ends it
\* does not move the cursor.
Cursor(i) == Len(table[i].page)
RequestPieces(t, cursor, k) == [j \in 1 .. k |-> <<t, -(cursor + j)>>]
Sending(i) == table[i].status \in {"CONNECTING_TO_SERVER", "SENDING_REQUEST"}
SendPacket(i) ==
  /\ Scans(i) /\ Sending(i) /\ ready(net, table[i].sd) /\ ~WriteBroken(table[i].sd)
  /\ \E k \in 1 .. RequestLen - Cursor(i) :
       /\ wire' = AfterWrite(table[i].sd, k)
       /\ IF Cursor(i) + k < RequestLen
          THEN /\ table' = [table EXCEPT ![i].status = "SENDING_REQUEST",
                              ![i].page = @ \o RequestPieces(table[i].ticket, Cursor(i), k)]
               /\ UNCHANGED net
          ELSE /\ table' = [table EXCEPT ![i].status = "WAITING_FOR_RESPONSE"]
               /\ net' = set_read(net, table[i].sd)
  /\ NextEntry /\ InTransfer

SendFails(i, max) ==
  /\ Scans(i) /\ Sending(i) /\ ready(net, table[i].sd) /\ WriteBroken(table[i].sd)
  /\ finish_request(i, "CANNOT_WRITE_SOCKET", max)
  /\ NextEntry

\* The arguments of time_diff are in this order in the code.
WaitedEnough(i) == time_diff(table[i].start_time, started.now) >= WAIT_UNTIL_CLOSE
NotReady(i) ==
  /\ Scans(i) /\ ~ready(net, table[i].sd)
  /\ IF table[i].status = "WAITING_FOR_RESPONSE" /\ WaitedEnough(i)
     THEN /\ net' = close_write(net, table[i].sd)
          /\ wire' = [wire EXCEPT ![table[i].sd].shut = TRUE]
          /\ table' = [table EXCEPT ![i].status = "READING_RESPONSE"]
     ELSE UNCHANGED <<net, wire, table>>
  /\ NextEntry /\ InTransfer

\* read_packet: double the buffer when little room is left, then read what fits.
Reading(i) == table[i].status \in {"WAITING_FOR_RESPONSE", "READING_RESPONSE"}
NewSize(i) ==
  IF table[i].buf_size - Cursor(i) - 1 < LowSpace /\ table[i].buf_size < MAX_PAGE_SIZE
  THEN 2 * table[i].buf_size ELSE table[i].buf_size
Space(i) == NewSize(i) - Cursor(i) - 1

Grown_Overwritten(page, pieces) == pieces
Grown(page, pieces) == page \o pieces
ReadPacket(i) ==
  /\ Scans(i) /\ Reading(i) /\ ready(net, table[i].sd)
  /\ \E k \in ReadSizes(table[i].sd, Space(i)) :
       /\ wire' = AfterRead(table[i].sd, k)
       /\ table' = [table EXCEPT ![i].status = "READING_RESPONSE", ![i].buf_size = NewSize(i),
                                 ![i].page = Grown(@, Received(table[i].sd, k))]
  /\ UNCHANGED net
  /\ NextEntry /\ InTransfer

\* A read into no space returns 0, which net_mod takes for the end of the response.
ReadEnds(i, max) ==
  /\ Scans(i) /\ Reading(i) /\ ready(net, table[i].sd)
  /\ ReadEof(table[i].sd) \/ (Space(i) = 0 /\ ~ReadBroken(table[i].sd))
  /\ finish_request(i, "OK", max)
  /\ NextEntry

ReadFails(i, max) ==
  /\ Scans(i) /\ Reading(i) /\ ready(net, table[i].sd) /\ ReadBroken(table[i].sd)
  /\ finish_request(i, "CANNOT_READ_SOCKET", max)
  /\ NextEntry

ProcessEntry(i, max) ==
  \/ SkipFree(i) \/ TimeOut(i, max) \/ SendPacket(i) \/ SendFails(i, max) \/ NotReady(i)
  \/ ReadPacket(i) \/ ReadEnds(i, max) \/ ReadFails(i, max)

-----------------------------------------------------------------------------
(* The Web server at the other end, and the clock *)

ServerSends(sd, max) ==
  /\ wire[sd].to = "web" /\ wire[sd].state = "up" /\ ~wire[sd].fin
  /\ wire[sd].sent = RequestLen /\ fate[wire[sd].ticket].served < max
  /\ LET t == wire[sd].ticket
     IN /\ wire' = [wire EXCEPT ![sd].unread = Append(@, <<t, fate[t].served + 1>>)]
        /\ fate' = [fate EXCEPT ![t].served = @ + 1]
  /\ UNCHANGED <<net, table, cur_request_id, num_pending_requests, scan, started, tickets>>

ServerCloses(sd) ==
  /\ wire[sd].to = "web" /\ wire[sd].state = "up" /\ ~wire[sd].fin
  /\ wire' = [wire EXCEPT ![sd].fin = TRUE]
  /\ UNCHANGED <<net, fetch_vars>>

\* No entry grows older while the pass runs; time passes while the loop is in poll.
Tick ==
  /\ now' = Wrap(now + 1)
  /\ table' = [i \in Slot |-> IF Busy(i) THEN [table[i] EXCEPT !.age = Min({@ + 1, MAX_WAIT + 1})]
                              ELSE table[i]]
  /\ UNCHANGED <<net, wire, cur_request_id, num_pending_requests, scan, started, fate, tickets>>
=============================================================================
