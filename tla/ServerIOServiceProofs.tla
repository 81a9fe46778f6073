----------------------- MODULE ServerIOServiceProofs ------------------------
(***************************************************************************)
(* What the peers of the crawl server get, for every value of the          *)
(* constants of ServerIO.  Requests: each has one entry, one id, one       *)
(* socket and one callback (RequestsServedOnce); the page the callback     *)
(* gets ends in what the host wrote (PageEndsInAnswer); it is timed out by *)
(* the clock, never before its time (TimeoutExact).  Commands and reports: *)
(* each client gets the response to its own command, and each report is    *)
(* written once, in order (DeliveredInOrder).                              *)
(***************************************************************************)
EXTENDS ServerIOProofs

-----------------------------------------------------------------------------
(* An entry and the history of its request agree. *)

Holds(i, t) == Busy(i) /\ table[i].ticket = t
SlotTicket(i) ==
  Busy(i) => /\ table[i].ticket \in 1 .. tickets
             /\ \A j \in Slot : Holds(j, table[i].ticket) => j = i
FateInv(t) ==
  /\ fate[t].calls = (IF fate[t].state = "done" THEN 1 ELSE 0)
  /\ fate[t].state = "pending" => \E i \in Slot : Holds(i, t)
  /\ \A i \in Slot : Holds(i, t) => fate[t].state = "pending"
  /\ t > tickets => fate[t].state = "unused"
  /\ fate[t].state \in {"unused", "pending"} => fate[t].rc = "none"
TicketInv == (\A i \in Slot : SlotTicket(i)) /\ \A t \in Ticket : FateInv(t)

-----------------------------------------------------------------------------
(* What the steps do to the history *)

LEMMA StateSet ==
  ASSUME NEW f \in [Ticket -> FateRec], NEW u, NEW state, NEW g, g = [f EXCEPT ![u].state = state]
  PROVE  \A t \in Ticket :
           /\ t # u => g[t] = f[t]
           /\ t = u => g[t].state = state
           /\ g[t].calls = f[t].calls /\ g[t].rc = f[t].rc /\ g[t].page = f[t].page
           /\ g[t].served = f[t].served /\ g[t].age = f[t].age /\ g[t].at = f[t].at
BY DEF FateRec

LEMMA OutcomeIs ==
  ASSUME NEW f \in FateRec, NEW e, NEW rc
  PROVE  /\ Outcome(f, e, rc).state = "done" /\ Outcome(f, e, rc).calls = f.calls + 1
         /\ Outcome(f, e, rc).rc = rc
         /\ Outcome(f, e, rc).page = e.page /\ Outcome(f, e, rc).age = e.age
         /\ Outcome(f, e, rc).at = started.now /\ Outcome(f, e, rc).served = f.served
<1> DEFINE calls == f.calls + 1
           page == e.page
           age == e.age
           at == started.now
<1>1. Outcome(f, e, rc) =
        [f EXCEPT !.state = "done", !.calls = calls, !.rc = rc, !.page = page,
                  !.age = age, !.at = at]
  BY DEF Outcome
<1> HIDE DEF calls, page, age, at
<1>2. /\ Outcome(f, e, rc).state = "done" /\ Outcome(f, e, rc).calls = calls
      /\ Outcome(f, e, rc).rc = rc
      /\ Outcome(f, e, rc).page = page /\ Outcome(f, e, rc).age = age
      /\ Outcome(f, e, rc).at = at /\ Outcome(f, e, rc).served = f.served
  BY <1>1 DEF FateRec
<1> QED
  BY <1>2 DEF calls, page, age, at

LEMMA ToldIs ==
  ASSUME IOInv, NEW i \in Slot, NEW rc
  PROVE  \A t \in Ticket :
           Told(i, rc)[t] = IF t = table[i].ticket THEN Outcome(fate[t], table[i], rc) ELSE fate[t]
BY DEF Told, IOInv, Types, FetchTypes

LEMMA NextTicket ==
  ASSUME IOInv, IOInv', tickets' = tickets + 1
  PROVE  tickets + 1 \in Ticket /\ tickets \in Nat
<1>1. tickets \in Nat /\ tickets' \in 0 .. MaxTickets
  BY FetchAssumption DEF IOInv, Types, FetchTypes
<1> QED
  BY <1>1, FetchAssumption DEF Ticket

-----------------------------------------------------------------------------
(* These steps keep the tickets. *)

LEMMA AskTickets ==
  ASSUME IOInv, IOInv', TicketInv, NEW s, NEW sd, NEW id, Asks(s, sd, id)
  PROVE  TicketInv'
<1>0. PICK u : u = tickets + 1
  OBVIOUS
<1>1. u \in Ticket /\ u \in Nat /\ tickets \in Nat /\ tickets' = u /\ u = tickets + 1
  BY <1>0, NextTicket DEF Asks
<1>2. /\ s \in Slot /\ ~Busy(s) /\ \A j \in Slot : j # s => table'[j] = table[j]
      /\ Busy(s)' /\ table'[s].ticket = u
  <2>1. id # 0 /\ OnlySlot(s, Entry(id, sd, u)) /\ ~Busy(s) /\ s \in Slot
    BY <1>0, FetchAssumption DEF Asks, Submits, OnlySlot
  <2> QED
    BY <2>1, TableIs, NewEntryIs DEF Busy
<1>3. \A i \in Slot : \A t : /\ i # s => (Holds(i, t)' <=> Holds(i, t))
                             /\ i = s => ((Holds(i, t))' <=> t = u) /\ ~Holds(i, t)
  BY <1>2 DEF Holds, Busy
<1>4. \A i \in Slot : Busy(i) => table[i].ticket # u /\ table[i].ticket \in 1 .. tickets
  BY <1>1 DEF TicketInv, SlotTicket
<1>5. ASSUME NEW i \in Slot PROVE SlotTicket(i)'
  <2>1. CASE i = s
    <3>1. \A j \in Slot : Holds(j, u)' => j = s
      BY <1>3, <1>4 DEF Holds
    <3> QED
      BY <1>1, <1>2, <2>1, <3>1 DEF SlotTicket
  <2>2. CASE i # s
    <3>1. Busy(i)' => Busy(i) /\ table'[i].ticket = table[i].ticket
      BY <1>2, <2>2 DEF Busy
    <3>2. SlotTicket(i)
      BY DEF TicketInv
    <3> QED
      BY <1>1, <1>2, <1>3, <1>4, <3>1, <3>2 DEF SlotTicket
  <2> QED
    BY <2>1, <2>2
<1>6. ASSUME NEW t \in Ticket PROVE FateInv(t)'
  <2>1. fate \in [Ticket -> FateRec] /\ fate' = [fate EXCEPT ![u].state = "pending"]
    BY <1>0 DEF IOInv, Types, FetchTypes, Asks
  <2>2. /\ t # u => fate'[t] = fate[t]
        /\ t = u => fate'[t].state = "pending"
        /\ fate'[t].calls = fate[t].calls /\ fate'[t].rc = fate[t].rc
    BY <2>1, StateSet
  <2>3. FateInv(t) /\ t \in Nat
    BY FetchAssumption DEF TicketInv, Ticket
  <2>4. CASE t = u
    <3>1. fate[t].state = "unused" /\ fate[t].calls = 0 /\ fate[t].rc = "none"
      BY <1>1, <2>3, <2>4 DEF FateInv
    <3>2. Holds(s, t)'
      BY <1>2, <1>3, <2>4
    <3>3. ~(t > tickets')
      BY <1>1, <2>4
    <3> QED
      BY <1>2, <2>2, <2>4, <3>1, <3>2, <3>3 DEF FateInv
  <2>5. CASE t # u
    <3>1. \A i \in Slot : Holds(i, t)' <=> Holds(i, t)
      BY <1>3, <2>5
    <3>2. t > tickets' => t > tickets
      BY <1>1, <2>3
    <3> QED
      BY <2>2, <2>3, <2>5, <3>1, <3>2 DEF FateInv
  <2> QED
    BY <2>4, <2>5
<1> QED
  BY <1>5, <1>6 DEF TicketInv

\* The request of the slot that is freed ends: it was cancelled, or called back.
Ends(g, f) ==
  \/ g.state = "cancelled" /\ g.calls = f.calls
  \/ g.state = "done" /\ g.calls = f.calls + 1

LEMMA FreeTickets ==
  ASSUME IOInv, TicketInv, NEW i, Frees(i), UNCHANGED tickets, NEW u, u = table[i].ticket,
         \A t \in Ticket : IF t = u THEN Ends(fate'[t], fate[t]) ELSE fate'[t] = fate[t]
  PROVE  TicketInv'
<1>1. /\ i \in Slot /\ Busy(i) /\ ~Busy(i)' /\ \A j \in Slot : j # i => table'[j] = table[j]
  <2>1. /\ i \in Slot /\ Busy(i) /\ table'[i] = FreeSlot
        /\ \A j \in Slot : j # i => table'[j] = table[j]
    BY TableIs DEF Frees, OnlySlot
  <2>2. FreeSlot.request_id = 0
    BY DEF FreeSlot
  <2> QED
    BY <2>1, <2>2 DEF Busy
<1>2. \A j \in Slot : \A t : /\ j # i => (Holds(j, t)' <=> Holds(j, t))
                             /\ ~Holds(i, t)' /\ (Holds(i, t) <=> t = u)
  BY <1>1 DEF Holds, Busy
<1>3. ASSUME NEW j \in Slot PROVE SlotTicket(j)'
  <2>1. CASE j = i
    BY <1>1, <2>1 DEF SlotTicket
  <2>2. CASE j # i
    <3>1. Busy(j)' => Busy(j) /\ table'[j].ticket = table[j].ticket
      BY <1>1, <2>2 DEF Busy
    <3> QED
      BY <1>2, <3>1 DEF TicketInv, SlotTicket
  <2> QED
    BY <2>1, <2>2
<1>4. ASSUME NEW t \in Ticket PROVE FateInv(t)'
  <2>1. FateInv(t)
    BY DEF TicketInv
  <2>2. CASE t = u
    <3>1. fate[t].state = "pending" /\ fate[t].calls = 0 /\ ~(t > tickets)
      BY <1>1, <1>2, <2>1, <2>2 DEF FateInv
    <3>2. \A j \in Slot : ~Holds(j, t)'
      BY <1>1, <1>2, <2>2 DEF TicketInv, SlotTicket
    <3>3. Ends(fate'[t], fate[t])
      BY <2>2
    <3> QED
      BY <3>1, <3>2, <3>3 DEF FateInv, Ends
  <2>3. CASE t # u
    <3>1. \A j \in Slot : Holds(j, t)' <=> Holds(j, t)
      BY <1>2, <2>3
    <3>2. fate'[t] = fate[t]
      BY <2>3
    <3> QED
      BY <2>1, <3>1, <3>2 DEF FateInv
  <2> QED
    BY <2>2, <2>3
<1> QED
  BY <1>3, <1>4 DEF TicketInv

LEMMA DropTickets ==
  ASSUME IOInv, TicketInv, NEW i, Drops(i)
  PROVE  TicketInv'
<1>1. PICK u : u = table[i].ticket
  OBVIOUS
<1>2. fate \in [Ticket -> FateRec] /\ fate' = [fate EXCEPT ![u].state = "cancelled"]
  BY <1>1 DEF IOInv, Types, FetchTypes, Drops
<1>3. \A t \in Ticket : IF t = u THEN Ends(fate'[t], fate[t]) ELSE fate'[t] = fate[t]
  BY <1>2, StateSet DEF Ends
<1> QED
  BY <1>1, <1>3, FreeTickets DEF Drops

LEMMA ToldEnds ==
  ASSUME IOInv, NEW i \in Slot, NEW rc, NEW u, u = table[i].ticket
  PROVE  \A t \in Ticket : IF t = u THEN Ends(Told(i, rc)[t], fate[t]) ELSE Told(i, rc)[t] = fate[t]
<1>1. \A t \in Ticket : fate[t] \in FateRec
  BY DEF IOInv, Types, FetchTypes
<1>2. \A t \in Ticket : Outcome(fate[t], table[i], rc).state = "done"
                        /\ Outcome(fate[t], table[i], rc).calls = fate[t].calls + 1
  BY <1>1, OutcomeIs
<1> QED
  BY <1>2, ToldIs DEF Ends

LEMMA TellTickets ==
  ASSUME IOInv, TicketInv, NEW i, NEW rc, Tells(i, rc)
  PROVE  TicketInv'
<1>1. PICK u : u = table[i].ticket
  OBVIOUS
<1>2. \A t \in Ticket : IF t = u THEN Ends(fate'[t], fate[t]) ELSE fate'[t] = fate[t]
  BY <1>1, ToldEnds DEF Tells, Frees, OnlySlot
<1> QED
  BY <1>1, <1>2, FreeTickets DEF Tells

LEMMA TellAskTickets ==
  ASSUME IOInv, IOInv', TicketInv, NEW i, NEW rc, NEW s, NEW sd, NEW id,
         rc \in {"OK", "TIMEOUT", "CANNOT_WRITE_SOCKET", "CANNOT_READ_SOCKET"},
         TellsAndAsks(i, rc, s, sd, id)
  PROVE  TicketInv'
<1>0. PICK u, v : u = tickets + 1 /\ v = table[i].ticket
  OBVIOUS
<1>1. u \in Ticket /\ u \in Nat /\ tickets \in Nat /\ tickets' = u /\ u = tickets + 1
  BY <1>0, NextTicket DEF TellsAndAsks
<1>2. /\ i \in Slot /\ s \in Slot /\ s # i /\ ~Busy(s) /\ Busy(i)
      /\ \A j \in Slot : j # s /\ j # i => table'[j] = table[j]
      /\ Busy(s)' /\ ~Busy(i)' /\ table'[s].ticket = u
  <2>1. /\ id # 0 /\ ~Busy(s) /\ s \in Slot /\ i \in Slot /\ Busy(i) /\ i # s
        /\ table' = [table EXCEPT ![s] = Entry(id, sd, u), ![i] = FreeSlot]
    BY <1>0, FetchAssumption DEF TellsAndAsks, Replaces
  <2>2. table'[s] = Entry(id, sd, u) /\ table'[i] = FreeSlot
        /\ \A j \in Slot : j # s /\ j # i => table'[j] = table[j]
    BY <2>1 DEF IOInv, Types, FetchTypes
  <2>3. Entry(id, sd, u).request_id = id /\ Entry(id, sd, u).ticket = u /\ FreeSlot.request_id = 0
    BY NewEntryIs
  <2> QED
    BY <2>1, <2>2, <2>3 DEF Busy
<1>3. \A j \in Slot : \A t : /\ j # s /\ j # i => (Holds(j, t)' <=> Holds(j, t))
                             /\ j = s => ((Holds(j, t))' <=> t = u) /\ ~Holds(j, t)
                             /\ ~Holds(i, t)' /\ (Holds(i, t) <=> t = v)
  BY <1>0, <1>2 DEF Holds, Busy
<1>4. \A j \in Slot : Busy(j) => table[j].ticket # u /\ table[j].ticket \in 1 .. tickets
  BY <1>1 DEF TicketInv, SlotTicket
<1>5. ASSUME NEW j \in Slot PROVE SlotTicket(j)'
  <2>1. CASE j = s
    <3>1. \A k \in Slot : Holds(k, u)' => k = s
      BY <1>3, <1>4 DEF Holds
    <3> QED
      BY <1>1, <1>2, <2>1, <3>1 DEF SlotTicket
  <2>2. CASE j = i
    BY <1>2, <2>2 DEF SlotTicket
  <2>3. CASE j # s /\ j # i
    <3>1. Busy(j)' => Busy(j) /\ table'[j].ticket = table[j].ticket
      BY <1>2, <2>3 DEF Busy
    <3>2. SlotTicket(j)
      BY DEF TicketInv
    <3> QED
      BY <1>1, <1>2, <1>3, <1>4, <3>1, <3>2 DEF SlotTicket
  <2> QED
    BY <2>1, <2>2, <2>3
<1>6. ASSUME NEW t \in Ticket PROVE FateInv(t)'
  <2> DEFINE told == Told(i, rc)
  <2>0. u # v
    BY <1>0, <1>2, <1>4
  <2>1. told \in [Ticket -> FateRec] /\ fate' = [told EXCEPT ![u].state = "pending"]
    <3>1. FetchTypes
      BY DEF IOInv, Types
    <3> QED
      BY <1>0, <1>2, <3>1, ToldTypes DEF TellsAndAsks
  <2>2. IF t = v THEN Ends(told[t], fate[t]) ELSE told[t] = fate[t]
    BY <1>0, <1>2, ToldEnds
  <2>3. /\ t # u => fate'[t] = told[t]
        /\ t = u => fate'[t].state = "pending"
        /\ fate'[t].calls = told[t].calls /\ fate'[t].rc = told[t].rc
    <3> HIDE DEF told
    <3> QED
      BY <2>1, StateSet
  <2> HIDE DEF told
  <2>4. FateInv(t) /\ t \in Nat
    BY FetchAssumption DEF TicketInv, Ticket
  <2>5. CASE t = u
    <3>1. fate[t].state = "unused" /\ fate[t].calls = 0 /\ fate[t].rc = "none" /\ told[t] = fate[t]
      BY <1>1, <2>0, <2>2, <2>4, <2>5 DEF FateInv
    <3>2. Holds(s, t)'
      BY <1>2, <1>3, <2>5
    <3>3. ~(t > tickets')
      BY <1>1, <2>5
    <3> QED
      BY <1>2, <2>3, <2>5, <3>1, <3>2, <3>3 DEF FateInv
  <2>6. CASE t = v
    <3>1. fate[t].state = "pending" /\ fate[t].calls = 0 /\ ~(t > tickets')
      BY <1>1, <1>2, <1>3, <1>4, <2>4, <2>6 DEF FateInv
    <3>2. \A j \in Slot : ~Holds(j, t)'
      <4>1. \A j \in Slot : Holds(j, v) => j = i
        BY <1>0, <1>2 DEF TicketInv, SlotTicket
      <4> QED
        BY <1>3, <2>0, <2>6, <4>1
    <3>3. Ends(fate'[t], fate[t])
      BY <2>0, <2>2, <2>3, <2>6
    <3> QED
      BY <3>1, <3>2, <3>3 DEF FateInv, Ends
  <2>7. CASE t # u /\ t # v
    <3>1. \A j \in Slot : Holds(j, t)' <=> Holds(j, t)
      BY <1>3, <2>7
    <3>2. t > tickets' => t > tickets
      BY <1>1, <2>4
    <3>3. fate'[t] = fate[t]
      BY <2>2, <2>3, <2>7
    <3> QED
      BY <2>4, <3>1, <3>2, <3>3 DEF FateInv
  <2> QED
    BY <2>5, <2>6, <2>7
<1> QED
  BY <1>5, <1>6 DEF TicketInv

\* A step that leaves the requests to whom they are.
GoesOn ==
  /\ UNCHANGED tickets
  /\ \A i \in Slot : table'[i].request_id = table[i].request_id /\ table'[i].ticket = table[i].ticket
  /\ \A t \in Ticket : /\ fate'[t].state = fate[t].state /\ fate'[t].calls = fate[t].calls
                       /\ fate'[t].rc = fate[t].rc

LEMMA OtherTickets ==
  ASSUME TicketInv, GoesOn
  PROVE  TicketInv'
<1>1. \A j \in Slot : /\ (Busy(j)' <=> Busy(j)) /\ (\A t : Holds(j, t)' <=> Holds(j, t))
                      /\ table'[j].ticket = table[j].ticket
  BY DEF GoesOn, Holds, Busy
<1>2. tickets' = tickets
  BY DEF GoesOn
<1>3. ASSUME NEW j \in Slot PROVE SlotTicket(j)'
  BY <1>1, <1>2 DEF TicketInv, SlotTicket
<1>4. ASSUME NEW t \in Ticket PROVE FateInv(t)'
  BY <1>1, <1>2 DEF TicketInv, FateInv, GoesOn
<1> QED
  BY <1>3, <1>4 DEF TicketInv

-----------------------------------------------------------------------------
(* Every step is of one of these kinds. *)

ReturnCodes == {"OK", "TIMEOUT", "CANNOT_WRITE_SOCKET", "CANNOT_READ_SOCKET"}
RequestStep ==
  \/ \E s, sd, id : Asks(s, sd, id)
  \/ \E i : Drops(i)
  \/ \E i, rc : rc \in ReturnCodes /\ Tells(i, rc)
  \/ \E i, rc, s, sd, id : rc \in ReturnCodes /\ TellsAndAsks(i, rc, s, sd, id)
  \/ GoesOn

LEMMA SameRequestsGoOn ==
  ASSUME UNCHANGED <<table, fate, tickets>>
  PROVE  GoesOn
BY DEF GoesOn

LEMMA EntryGoesOn ==
  ASSUME IOInv, NEW i \in Slot, SendPacket(i) \/ NotReady(i) \/ ReadPacket(i) \/ SkipFree(i)
  PROVE  GoesOn
<1>1. UNCHANGED <<fate, tickets>>
  BY DEF SendPacket, NotReady, ReadPacket, SkipFree, InTransfer
<1>2. CASE UNCHANGED table
  BY <1>1, <1>2, SameRequestsGoOn
<1>3. CASE table' # table
  <2>1. PICK d : Transfers(i, d)
    BY <1>3, TransferKinds DEF SkipFree
  <2>2. /\ table'[i] = d /\ \A j \in Slot : j # i => table'[j] = table[j]
        /\ d.request_id = table[i].request_id /\ d.ticket = table[i].ticket
    BY <2>1, TableIs DEF Transfers
  <2> QED
    BY <1>1, <2>2 DEF GoesOn
<1> QED
  BY <1>2, <1>3

LEMMA EntryKinds ==
  ASSUME IOInv, NEW i \in Slot, NEW max, ProcessEntry(i, max)
  PROVE  RequestStep
<1>1. CASE SkipFree(i) \/ SendPacket(i) \/ NotReady(i) \/ ReadPacket(i)
  BY <1>1, EntryGoesOn DEF RequestStep
<1>2. CASE TimeOut(i, max) \/ SendFails(i, max) \/ ReadEnds(i, max) \/ ReadFails(i, max)
  <2>1. Busy(i) /\ \E rc \in ReturnCodes : finish_request(i, rc, max)
    BY <1>2 DEF TimeOut, SendFails, ReadEnds, ReadFails, Scans, ReturnCodes
  <2> QED
    BY <2>1, FinishKinds DEF RequestStep
<1> QED
  BY <1>1, <1>2 DEF ProcessEntry

LEMMA ServerGoesOn ==
  ASSUME IOInv, NEW sd, NEW max, ServerSends(sd, max) \/ ServerCloses(sd)
  PROVE  GoesOn
<1>1. CASE ServerCloses(sd)
  BY <1>1, SameRequestsGoOn DEF ServerCloses, fetch_vars
<1>2. CASE ServerSends(sd, max)
  <2>1. PICK u, n : fate' = [fate EXCEPT ![u].served = n]
    BY <1>2 DEF ServerSends
  <2>2. \A t \in Ticket : fate[t] \in FateRec
    BY DEF IOInv, Types, FetchTypes
  <2>3. \A t \in Ticket : /\ fate'[t].state = fate[t].state /\ fate'[t].calls = fate[t].calls
                          /\ fate'[t].rc = fate[t].rc
    BY <2>1, <2>2 DEF IOInv, Types, FetchTypes, FateRec
  <2> QED
    BY <1>2, <2>3 DEF ServerSends, GoesOn
<1> QED
  BY <1>1, <1>2

LEMMA TickGoesOn ==
  ASSUME IOInv, Tick
  PROVE  GoesOn
<1>1. \A i \in Slot : table[i] \in EntryRec
  BY EntryTypes DEF IOInv, Types
<1>2. \A i \in Slot : table'[i].request_id = table[i].request_id /\ table'[i].ticket = table[i].ticket
  BY <1>1 DEF Tick, EntryRec
<1> QED
  BY <1>2 DEF Tick, GoesOn

LEMMA NextKinds ==
  ASSUME IOInv, [Next]_io_vars
  PROVE  RequestStep
<1>1. CASE UNCHANGED fetch_vars
  BY <1>1, SameRequestsGoOn DEF fetch_vars, RequestStep
<1>2. CASE Scan
  BY <1>2, EntryKinds DEF Scan
<1>3. CASE BeginFetch
  BY <1>3, SameRequestsGoOn DEF BeginFetch, ProcessBegins, RequestStep
<1>4. CASE SelectQueue
  <2>1. CASE UNCHANGED fetch_vars
    BY <1>1, <2>1
  <2>2. CASE request_page(load.pages)
    BY <2>2, SubmitKinds DEF RequestStep
  <2>3. CASE \E i \in Slot : Busy(i) /\ cancel_request(table[i].request_id)
    BY <2>3, CancelKinds DEF RequestStep
  <2> QED
    BY <1>4, <2>1, <2>2, <2>3 DEF SelectQueue
<1>5. CASE ServerActs
  BY <1>5, ServerGoesOn DEF ServerActs, RequestStep
<1>6. CASE TimePasses
  BY <1>6, TickGoesOn DEF TimePasses, RequestStep
<1>7. CASE Poll \/ ProcessCommand \/ ServerAborts \/ ProcessReport \/ GetRequest \/ AnswerCommand
  <2>1. UNCHANGED fetch_vars
    BY <1>7 DEF Poll, ProcessCommand, ServerAborts, ProcessReport, GetRequest, AnswerCommand
  <2> QED
    BY <1>1, <2>1
<1>8. CASE ClientActs \/ Connects \/ Breaks
  <2>1. UNCHANGED fetch_vars
    BY <1>8 DEF ClientActs, Connects, Breaks
  <2> QED
    BY <1>1, <2>1
<1>9. CASE UNCHANGED io_vars
  BY <1>1, <1>9 DEF io_vars
<1> QED
  BY <1>2, <1>3, <1>4, <1>5, <1>6, <1>7, <1>8, <1>9 DEF Next, Loop, Peers

LEMMA NextTickets ==
  ASSUME IOInv, TicketInv, [Next]_io_vars
  PROVE  TicketInv'
<1>1. IOInv' /\ RequestStep
  BY NextHolds, NextKinds
<1>2. CASE \E s, sd, id : Asks(s, sd, id)
  BY <1>1, <1>2, AskTickets
<1>3. CASE \E i : Drops(i)
  BY <1>3, DropTickets
<1>4. CASE \E i, rc : rc \in ReturnCodes /\ Tells(i, rc)
  BY <1>4, TellTickets
<1>5. CASE \E i, rc, s, sd, id : rc \in ReturnCodes /\ TellsAndAsks(i, rc, s, sd, id)
  BY <1>1, <1>5, TellAskTickets DEF ReturnCodes
<1>6. CASE GoesOn
  BY <1>6, OtherTickets
<1> QED
  BY <1>1, <1>2, <1>3, <1>4, <1>5, <1>6 DEF RequestStep

LEMMA InitTickets == Init => TicketInv
<1> SUFFICES ASSUME Init PROVE TicketInv
  OBVIOUS
<1>1. \A i \in Slot : ~Busy(i)
  BY DEF Init, FetchInit, Busy, FreeSlot
<1>2. \A t \in Ticket : fate[t] = NoFate
  BY DEF Init, FetchInit
<1> QED
  BY <1>1, <1>2 DEF TicketInv, SlotTicket, FateInv, Holds, NoFate

-----------------------------------------------------------------------------
(* Each request has one entry, one id, one socket and one callback. *)

\* There are as many sockets of entries as entries.
LEMMA SocketPerSlot ==
  ASSUME IOInv
  PROVE  /\ IsFiniteSet({ table[i].sd : i \in BusySlots })
         /\ Cardinality({ table[i].sd : i \in BusySlots }) = Cardinality(BusySlots)
<1> DEFINE T == { table[i].sd : i \in BusySlots }
           f == [i \in BusySlots |-> table[i].sd]
<1>1. f \in [BusySlots -> T] /\ \A x \in T : \E i \in BusySlots : f[i] = x
  OBVIOUS
<1>2. \A i, j \in BusySlots : f[i] = f[j] => i = j
  BY DEF IOInv, Sockets, SlotSocket, BusySlots
<1> HIDE DEF f, T
<1>3. f \in Bijection(BusySlots, T)
  BY <1>1, <1>2 DEF Bijection, Injection, Surjection, IsInjective
<1>4. ExistsBijection(BusySlots, T)
  BY <1>3 DEF ExistsBijection
<1>5. IsFiniteSet(T) /\ Cardinality(T) = Cardinality(BusySlots)
  BY <1>4, FiniteSlots, FS_Bijection
<1> QED
  BY <1>5 DEF T

\* A set with at most one more element.
LEMMA AddOne ==
  ASSUME NEW S, IsFiniteSet(S), NEW T, T = {} \/ \E x : x \notin S /\ T = {x}
  PROVE  /\ IsFiniteSet(S \cup T) /\ Cardinality(S \cup T) = Cardinality(S) + Cardinality(T)
         /\ Cardinality(S) \in Nat /\ Cardinality(T) \in Nat
<1>1. Cardinality(S) \in Nat /\ Cardinality({}) = 0 /\ \A x : Cardinality({x}) = 1
  BY FS_CardinalityType, FS_EmptySet, FS_Singleton
<1>2. CASE T = {}
  <2>1. S \cup T = S
    BY <1>2
  <2> QED
    BY <1>1, <1>2, <2>1
<1>3. ASSUME NEW x, x \notin S, T = {x}
      PROVE  /\ IsFiniteSet(S \cup T) /\ Cardinality(S \cup T) = Cardinality(S) + Cardinality(T)
             /\ Cardinality(T) \in Nat
  <2>1. IsFiniteSet(S \cup {x}) /\ Cardinality(S \cup {x}) = Cardinality(S) + 1
    BY <1>3, FS_AddElement
  <2>2. S \cup T = S \cup {x} /\ Cardinality(T) = 1
    BY <1>1, <1>3
  <2> QED
    BY <2>1, <2>2
<1> QED
  BY <1>1, <1>2, <1>3

LEMMA SocketsAreOwned == IOInv => SocketsOwned
<1> SUFFICES ASSUME IOInv PROVE SocketsOwned
  OBVIOUS
<1> DEFINE owners == { table[i].sd : i \in BusySlots }
           command == IF request_status = "NONE" THEN {} ELSE {request_sd}
           reports == {report_sd} \ {None}
           A == owners \cup {main_sd}
           B == A \cup command
           C == B \cup reports
<1>1. /\ \A i \in BusySlots : /\ table[i].sd \in net.open \ {main_sd, report_sd}
                              /\ request_status # "NONE" => table[i].sd # request_sd
      /\ request_status # "NONE" => request_sd \in net.open \ {main_sd, report_sd}
      /\ report_sd # None => report_sd \in net.open \ {main_sd}
      /\ main_sd \in net.open
  BY DEF IOInv, Sockets, SlotSocket, CommandSocket, ReportSocket, MainSocket, BusySlots
<1>2. \A sd \in net.open :
        \/ sd \in {main_sd, report_sd}
        \/ request_status # "NONE" /\ sd = request_sd
        \/ \E i \in BusySlots : table[i].sd = sd
  BY DEF IOInv, Sockets, NoOtherSocket, BusySlots
<1>3. None \notin net.open
  BY SocketTypes
<1>4. net.open = C
  <2>1. ASSUME NEW sd \in net.open PROVE sd \in C
    BY <1>2, <1>3
  <2>2. ASSUME NEW sd \in C PROVE sd \in net.open
    BY <1>1
  <2> QED
    BY <2>1, <2>2
<1>5. IsFiniteSet(owners) /\ Cardinality(owners) = Cardinality(BusySlots)
  BY SocketPerSlot
<1>6. main_sd \notin owners /\ Cardinality({main_sd}) = 1
  BY <1>1, FS_Singleton
<1>7. (request_status # "NONE" => request_sd \notin A)
  BY <1>1
<1>8. (report_sd # None => report_sd \notin B)
  BY <1>1
<1>9. command = {} \/ (request_status # "NONE" /\ command = {request_sd})
  OBVIOUS
<1>10. reports = {} \/ (report_sd # None /\ reports = {report_sd})
  OBVIOUS
<1> HIDE DEF owners, command, reports, A, B, C
<1>11. IsFiniteSet(A) /\ Cardinality(A) = Cardinality(BusySlots) + 1
  BY <1>5, <1>6, AddOne DEF A
<1>12. IsFiniteSet(B) /\ Cardinality(B) = Cardinality(A) + Cardinality(command)
  BY <1>7, <1>9, <1>11, AddOne DEF B
<1>13. IsFiniteSet(C) /\ Cardinality(C) = Cardinality(B) + Cardinality(reports)
  BY <1>8, <1>10, <1>12, AddOne DEF C
<1>14. Cardinality(C) = 1 + Cardinality(BusySlots) + Cardinality(command) + Cardinality(reports)
  <2>1. /\ Cardinality(BusySlots) \in Nat /\ Cardinality(command) \in Nat
        /\ Cardinality(reports) \in Nat
    BY <1>7, <1>8, <1>9, <1>10, <1>11, <1>12, FiniteSlots, FS_CardinalityType, AddOne
  <2> QED
    BY <2>1, <1>11, <1>12, <1>13
<1>15. C = {main_sd} \cup owners \cup command \cup reports
  BY DEF A, B, C
<1> QED
  BY <1>4, <1>14, <1>15 DEF SocketsOwned, owners, command, reports, BusySlots

LEMMA TypesHold == IOInv => TypeOK
<1> SUFFICES ASSUME IOInv PROVE TypeOK
  OBVIOUS
<1>1. NetTypeOK
  BY DEF IOInv, Types, WireTypes, LoopTypes, Sockets, Watches, NetRec, NetTypeOK
<1>2. num_pending_requests \in 0 .. MAX_PENDING_REQUESTS
  <2>1. Cardinality(BusySlots) \in Nat
    BY FiniteSlots, FS_CardinalityType
  <2>2. BusySlots \subseteq Slot
    BY DEF BusySlots
  <2>3. Cardinality(BusySlots) <= Cardinality(Slot)
    BY <2>2, FiniteSlots, FS_Subset
  <2>4. Cardinality(Slot) = MAX_PENDING_REQUESTS
    <3>1. 0 \in Int /\ MAX_PENDING_REQUESTS - 1 \in Int /\ 0 <= MAX_PENDING_REQUESTS - 1
      BY FetchAssumption
    <3>2. Cardinality(0 .. MAX_PENDING_REQUESTS - 1) = (MAX_PENDING_REQUESTS - 1) - 0 + 1
      BY <3>1, FS_Interval
    <3> QED
      BY <3>2, FetchAssumption DEF Slot
  <2> QED
    BY <2>1, <2>3, <2>4, FetchAssumption DEF IOInv, IdNamesSlot, BusySlots
<1>3. \A i \in Slot : table[i].request_id \in 0 .. MaxInt
  BY EntryTypes DEF IOInv, Types
<1> QED
  BY <1>1, <1>2, <1>3
     DEF IOInv, Types, CommandTypes, ReportTypes, FetchTypes, LoopTypes, TypeOK

LEMMA CallsAreOnce == TicketInv => CalledOnce
BY DEF TicketInv, FateInv, Holds, CalledOnce

\* Every request has one entry, one id, one socket and one call of its callback, however
\* it ends, also when the callback submits the next and when the ids have wrapped around;
\* every open socket has one owner; and num_pending_requests counts the entries in use.
THEOREM EachRequestOnce == Spec => []RequestsServedOnce
<1>1. Init => IOInv /\ TicketInv
  BY InitHolds, InitTickets
<1>2. (IOInv /\ TicketInv) /\ [Next]_io_vars => (IOInv /\ TicketInv)'
  BY NextHolds, NextTickets
<1>3. IOInv /\ TicketInv => RequestsServedOnce
  BY SocketsAreOwned, TypesHold, CallsAreOnce DEF IOInv, RequestsServedOnce
<1> QED
  BY <1>1, <1>2, <1>3, PTL DEF Spec

-----------------------------------------------------------------------------
(* The page of a request ends in what its server sent. *)

\* The sizes a buffer may come to.
BufferSizes ==
  CHOOSE sizes \in SUBSET (1 .. MAX_PAGE_SIZE) :
    /\ INITIAL_BUFFER_SIZE \in sizes
    /\ \A b \in sizes : b < MAX_PAGE_SIZE => 2 * b \in sizes

\* These are pieces of ticket t, in order, after the first ones.
Numbered(pieces, t, first) == \A n \in 1 .. Len(pieces) : pieces[n] = <<t, first + n>>

\* The first h pieces of a page are the request's, the others its answer's.
Heads == 0 .. RequestLen - 1
PieceAt(t, h, k) == IF k <= h THEN <<t, -k>> ELSE <<t, k - h>>
Laid(page, t, h) == h <= Len(page) /\ \A k \in 1 .. Len(page) : page[k] = PieceAt(t, h, k)

\* Entry e, on connection w, has read a part of the pieces that its server sent, and the
\* rest of them is unread.
ReadsBehind(h, e, w, served) ==
  /\ w.to = "web" /\ w.ticket = e.ticket
  /\ Laid(e.page, e.ticket, h)
  /\ Numbered(w.unread, e.ticket, Len(e.page) - h)
  /\ served = Len(e.page) - h + Len(w.unread)
  /\ e.status \in {"CONNECTING_TO_SERVER", "SENDING_REQUEST"} => served = 0 /\ w.sent = h
  /\ e.buf_size \in BufferSizes /\ e.buf_size >= RequestLen
  /\ Len(e.page) < e.buf_size
Reads(e, w, served) == \E h \in Heads : ReadsBehind(h, e, w, served)
SlotPage(i) == Busy(i) => Reads(table[i], wire[table[i].sd], fate[table[i].ticket].served)

\* The other sockets are not connections to Web servers.
OtherEnds ==
  /\ wire[main_sd].to = "listen"
  /\ report_sd # None => wire[report_sd].to = "manager"
  /\ request_status # "NONE" => wire[request_sd].to \in Command
FatePage(t) ==
  /\ fate[t].state = "unused" => fate[t].served = 0
  /\ fate[t].rc = "OK" =>
       \E h \in Heads :
         /\ Laid(fate[t].page, t, h)
         /\ Len(fate[t].page) - h < fate[t].served => Len(fate[t].page) = MAX_PAGE_SIZE - 1
PageInv ==
  /\ OtherEnds
  /\ \A i \in Slot : SlotPage(i)
  /\ \A t \in Ticket : FatePage(t)

LEMMA BufferSizesAre ==
  /\ BufferSizes \subseteq 1 .. MAX_PAGE_SIZE /\ INITIAL_BUFFER_SIZE \in BufferSizes
  /\ \A b \in BufferSizes : b < MAX_PAGE_SIZE => 2 * b \in BufferSizes
BY BufferAssumption DEF BufferSizes

\* The socket of an entry, and who else has it: nobody.
LEMMA SlotSocketIs ==
  ASSUME IOInv, NEW i \in Slot, Busy(i)
  PROVE  /\ table[i].sd \in net.open /\ table[i].sd \in FD
         /\ table[i].sd # main_sd /\ table[i].sd # report_sd
         /\ request_status # "NONE" => table[i].sd # request_sd
         /\ \A j \in Slot : Busy(j) /\ j # i => table[j].sd # table[i].sd
BY SocketTypes DEF IOInv, Sockets, SlotSocket

LEMMA SlotTicketIs ==
  ASSUME IOInv, TicketInv, NEW i \in Slot, Busy(i)
  PROVE  /\ table[i].ticket \in Ticket /\ table[i].ticket \in 1 .. tickets
         /\ fate[table[i].ticket].state = "pending" /\ fate[table[i].ticket].rc = "none"
         /\ \A j \in Slot : Busy(j) /\ j # i => table[j].ticket # table[i].ticket
<1>1. table[i].ticket \in 1 .. tickets /\ \A j \in Slot : Holds(j, table[i].ticket) => j = i
  BY DEF TicketInv, SlotTicket
<1>2. table[i].ticket \in Ticket
  BY <1>1, FetchAssumption DEF Ticket, IOInv, Types, FetchTypes
<1>3. FateInv(table[i].ticket)
  BY <1>2 DEF TicketInv
<1>4. fate[table[i].ticket].state = "pending"
  BY <1>3 DEF FateInv, Holds
<1> QED
  BY <1>1, <1>2, <1>3, <1>4 DEF FateInv, Holds

\* The other ends of a command's and of a report's connection.
LEMMA CommandEnds ==
  ASSUME IOInv, OtherEnds, CommandPart, SameSlots, SameReport
  PROVE  OtherEnds' /\ \A i \in Slot : Busy(i) => wire'[table[i].sd] = wire[table[i].sd]
<1>0. /\ wire \in [FD -> WireRec] /\ main_sd \in net.open /\ main_sd \in FD
      /\ (report_sd # None => report_sd \in net.open /\ report_sd \in FD)
      /\ (request_status # "NONE" => request_sd \in FD /\ request_sd \notin {main_sd, report_sd})
  BY SocketTypes DEF IOInv, Types, WireTypes, Sockets, MainSocket, ReportSocket, CommandSocket
<1>1. CASE AcceptCommand
  <2> DEFINE sd == NewFD(net)
             c == Head(backlog)
             r == [Fresh("up", c) EXCEPT !.unread = client[c].pieces, !.fin = client[c].fin]
  <2>1. sd \in FD \ net.open
    BY <1>1, LowestDescriptor DEF AcceptCommand
  <2>2. wire' = [wire EXCEPT ![sd] = r] /\ request_sd' = sd
    BY <1>1 DEF AcceptCommand
  <2>3. c \in Command
    BY <1>1, HeadTailProperties DEF AcceptCommand, IOInv, Types, CommandTypes
  <2>4. r.to = c
    BY DEF Fresh, Closed
  <2> HIDE DEF sd, c, r
  <2> QED
    BY <1>0, <2>1, <2>2, <2>3, <2>4, SlotSocketIs DEF OtherEnds, SameReport, main_sd
<1>2. ASSUME wire' = [wire EXCEPT ![request_sd] = Closed], request_status # "NONE",
             request_status' = "NONE"
      PROVE  OtherEnds' /\ \A i \in Slot : Busy(i) => wire'[table[i].sd] = wire[table[i].sd]
  BY <1>0, <1>2, SlotSocketIs DEF OtherEnds, SameReport, main_sd
<1>3. ASSUME UNCHANGED <<wire, request_sd>>, request_status # "NONE"
      PROVE  OtherEnds' /\ \A i \in Slot : Busy(i) => wire'[table[i].sd] = wire[table[i].sd]
  BY <1>3 DEF OtherEnds, SameReport, main_sd
<1>4. CASE ReadCommandFails
  BY <1>2, <1>4 DEF ReadCommandFails, HangUp
<1>5. CASE ReadCommandEof
  BY <1>3, <1>5 DEF ReadCommandEof
<1>6. CASE ReadCommand
  <2>1. PICK k : wire' = AfterRead(request_sd, k) /\ UNCHANGED request_sd /\ request_status # "NONE"
    BY <1>6 DEF ReadCommand
  <2>2. PICK rest : wire' = [wire EXCEPT ![request_sd].unread = rest]
    BY <2>1 DEF AfterRead
  <2>3. /\ \A x \in FD : x # request_sd => wire'[x] = wire[x]
        /\ wire'[request_sd].to = wire[request_sd].to
    BY <1>0, <2>1, <2>2 DEF WireRec
  <2> QED
    BY <1>0, <2>1, <2>3, SlotSocketIs DEF OtherEnds, SameReport, main_sd
<1>7. CASE WriteResponse
  <2>1. HangUp \/ UNCHANGED <<wire, request_status>>
    BY <1>7 DEF WriteResponse
  <2>2. request_status # "NONE" /\ UNCHANGED request_sd
    BY <1>7 DEF WriteResponse
  <2> QED
    BY <1>2, <1>3, <2>1, <2>2 DEF HangUp
<1> QED
  BY <1>1, <1>4, <1>5, <1>6, <1>7 DEF CommandPart

LEMMA ReportEnds ==
  ASSUME IOInv, OtherEnds, SameSlots, SameCommand,
         \/ ReportConnect \/ ConnectFails \/ WriteReport \/ ReportQuiet
         \/ \E r \in Report : send_report(r)
  PROVE  OtherEnds' /\ \A i \in Slot : Busy(i) => wire'[table[i].sd] = wire[table[i].sd]
<1>0. /\ wire \in [FD -> WireRec] /\ main_sd \in net.open /\ main_sd \in FD
      /\ (report_sd # None => report_sd \in net.open /\ report_sd \in FD /\ report_sd # main_sd)
      /\ (request_status # "NONE" => request_sd \in FD /\ request_sd \in net.open
                                     /\ request_sd \notin {main_sd, report_sd})
  BY SocketTypes DEF IOInv, Types, WireTypes, Sockets, MainSocket, ReportSocket, CommandSocket
<1>1. ASSUME NEW sd \in FD \ net.open, report_sd' = sd,
             wire' = [wire EXCEPT ![sd] = Fresh("connecting", "manager")]
      PROVE  OtherEnds' /\ \A i \in Slot : Busy(i) => wire'[table[i].sd] = wire[table[i].sd]
  <2>1. Fresh("connecting", "manager").to = "manager"
    BY DEF Fresh, Closed
  <2> QED
    BY <1>0, <1>1, <2>1, SlotSocketIs DEF OtherEnds, SameCommand, main_sd
<1>2. ASSUME UNCHANGED <<wire, report_sd>>
      PROVE  OtherEnds' /\ \A i \in Slot : Busy(i) => wire'[table[i].sd] = wire[table[i].sd]
  BY <1>2 DEF OtherEnds, SameCommand, main_sd
<1>3. CASE ReportConnect
  <2>1. NewFD(net) \in FD \ net.open
    BY <1>3, LowestDescriptor DEF ReportConnect
  <2> QED
    BY <1>1, <1>3, <2>1 DEF ReportConnect
<1>4. CASE ConnectFails \/ ReportQuiet
  BY <1>2, <1>4 DEF ConnectFails, ReportQuiet, report_vars
<1>5. CASE WriteReport
  <2>1. report_sd # None
    BY <1>5 DEF WriteReport
  <2>2. ASSUME NEW done, NEW log, CloseReport(done, log)
        PROVE  OtherEnds' /\ \A i \in Slot : Busy(i) => wire'[table[i].sd] = wire[table[i].sd]
    <3> DEFINE closed == close(net, report_sd)
               wired == [wire EXCEPT ![report_sd] = Closed]
    <3>1. CASE /\ CanOpen(closed) /\ report_sd' = NewFD(closed)
               /\ wire' = [wired EXCEPT ![NewFD(closed)] = Fresh("connecting", "manager")]
      <4> DEFINE sd == NewFD(closed)
      <4>1. closed.open = net.open \ {report_sd}
        BY <1>0, <2>1, Close DEF IOInv, Sockets, NetIs
      <4>2. sd \in FD \ closed.open
        <5> HIDE DEF closed
        <5> QED
          BY <3>1, LowestDescriptor
      <4>3. sd \in FD /\ \A x \in net.open : x # report_sd => x # sd
        <5> HIDE DEF sd, closed
        <5> QED
          BY <4>1, <4>2
      <4>4. Fresh("connecting", "manager").to = "manager"
        BY DEF Fresh, Closed
      <4>5. report_sd' = sd /\ wire' = [wired EXCEPT ![sd] = Fresh("connecting", "manager")]
        BY <3>1
      <4> HIDE DEF sd, closed
      <4> QED
        BY <1>0, <2>1, <4>3, <4>4, <4>5, SlotSocketIs DEF OtherEnds, SameCommand, main_sd
    <3>2. CASE report_sd' = None /\ wire' = wired
      BY <1>0, <2>1, <3>2, SlotSocketIs DEF OtherEnds, SameCommand, main_sd
    <3> QED
      BY <2>2, <3>1, <3>2 DEF CloseReport
  <2> QED
    BY <1>2, <1>5, <2>2 DEF WriteReport
<1>6. CASE \E r \in Report : send_report(r)
  <2>1. CASE UNCHANGED <<wire, report_sd>>
    BY <1>2, <2>1
  <2>2. CASE /\ CanOpen(net) /\ report_sd' = NewFD(net)
             /\ wire' = [wire EXCEPT ![NewFD(net)] = Fresh("connecting", "manager")]
    <3>1. NewFD(net) \in FD \ net.open
      BY <2>2, LowestDescriptor
    <3> QED
      BY <1>1, <2>2, <3>1
  <2> QED
    BY <1>6, <2>1, <2>2 DEF send_report
<1> QED
  BY <1>3, <1>4, <1>5, <1>6

LEMMA ClientEnds ==
  ASSUME IOInv, PageInv, SameSlots, SameReport, NEW c \in Command,
         ClientConnects(c) \/ ClientSends(c) \/ ClientCloses(c)
  PROVE  OtherEnds' /\ \A i \in Slot : Busy(i) => wire'[table[i].sd] = wire[table[i].sd]
<1>0. /\ wire \in [FD -> WireRec] /\ main_sd \in FD
      /\ (report_sd # None => report_sd \in FD) /\ (request_status # "NONE" => request_sd \in FD)
      /\ \A i \in Slot : Busy(i) => table[i].sd \in FD
  BY SocketTypes DEF IOInv, Types, WireTypes
<1>1. UNCHANGED <<report_sd, request_sd, request_status>>
  BY DEF ClientConnects, ClientSends, ClientCloses, SameReport
<1>2. \A sd \in FD : /\ wire'[sd].to = wire[sd].to
                     /\ wire[sd].to # c => wire'[sd] = wire[sd]
  <2>1. CASE ClientConnects(c)
    BY <2>1 DEF ClientConnects
  <2>2. CASE ClientCloses(c)
    <3>1. \A sd \in FD : wire'[sd] = IF sd \in SocketOf(c) THEN [wire[sd] EXCEPT !.fin = TRUE] ELSE wire[sd]
      BY <2>2 DEF ClientCloses
    <3> QED
      BY <1>0, <3>1 DEF SocketOf, WireRec
  <2>3. CASE ClientSends(c)
    <3> DEFINE piece == Text(c)[Len(client[c].pieces) + 1]
    <3>1. wire' = [sd \in FD |-> IF sd \in SocketOf(c)
                                 THEN [wire[sd] EXCEPT !.unread = Append(@, piece)]
                                 ELSE wire[sd]]
      BY <2>3 DEF ClientSends
    <3> HIDE DEF piece
    <3>2. ASSUME NEW sd \in FD
          PROVE  wire'[sd].to = wire[sd].to /\ (wire[sd].to # c => wire'[sd] = wire[sd])
      <4> DEFINE more == Append(wire[sd].unread, piece)
      <4>1. wire'[sd] = IF sd \in SocketOf(c) THEN [wire[sd] EXCEPT !.unread = more] ELSE wire[sd]
        BY <3>1
      <4> HIDE DEF more
      <4> QED
        BY <1>0, <4>1 DEF SocketOf, WireRec
    <3> QED
      BY <3>2
  <2> QED
    BY <2>1, <2>2, <2>3
<1>3. \A i \in Slot : Busy(i) => wire[table[i].sd].to = "web" /\ "web" # c
  BY CommAssumption DEF PageInv, SlotPage, Reads, ReadsBehind
<1>4. OtherEnds'
  BY <1>0, <1>1, <1>2 DEF PageInv, OtherEnds, main_sd
<1> QED
  BY <1>0, <1>2, <1>3, <1>4

\* What a step leaves alone.
LEMMA EndsKept ==
  ASSUME IOInv, OtherEnds, SameCommand, SameReport, NEW X,
         \A x \in FD \ X : wire'[x].to = wire[x].to,
         main_sd \notin X, report_sd \notin X, request_status # "NONE" => request_sd \notin X
  PROVE  OtherEnds'
<1>1. /\ main_sd \in FD /\ (report_sd # None => report_sd \in FD)
      /\ (request_status # "NONE" => request_sd \in FD)
  BY SocketTypes
<1> QED
  BY <1>1 DEF OtherEnds, SameCommand, SameReport, main_sd

LEMMA SlotKept ==
  ASSUME NEW j \in Slot, SlotPage(j), table'[j] = table[j],
         Busy(j) => /\ wire'[table[j].sd] = wire[table[j].sd]
                    /\ fate'[table[j].ticket].served = fate[table[j].ticket].served
  PROVE  SlotPage(j)'
BY DEF SlotPage, Busy

LEMMA FateKept ==
  ASSUME NEW t \in Ticket, FatePage(t),
         fate'[t].state = "unused" => fate[t].state = "unused",
         fate'[t].rc = fate[t].rc, fate'[t].page = fate[t].page,
         fate'[t].served = fate[t].served
  PROVE  FatePage(t)'
BY DEF FatePage

\* A new entry has read nothing, and nothing was sent to it.
LEMMA NewSlotReads ==
  ASSUME NEW s \in Slot, NEW sd, NEW id, NEW u, table'[s] = Entry(id, sd, u),
         wire'[sd] = [Fresh("connecting", "web") EXCEPT !.ticket = u], fate'[u].served = 0
  PROVE  SlotPage(s)'
<1> DEFINE e == Entry(id, sd, u)
           w == [Fresh("connecting", "web") EXCEPT !.ticket = u]
<1>1. /\ e.page = << >> /\ e.buf_size = INITIAL_BUFFER_SIZE /\ e.sd = sd /\ e.ticket = u
  BY NewEntryIs
<1>2. w.to = "web" /\ w.ticket = u /\ w.unread = << >> /\ w.sent = 0
  BY DEF Fresh, Closed
<1>3. /\ INITIAL_BUFFER_SIZE \in BufferSizes /\ INITIAL_BUFFER_SIZE >= RequestLen
      /\ INITIAL_BUFFER_SIZE \in Nat /\ RequestLen \in Nat \ {0}
  BY BufferSizesAre, FetchAssumption
<1> HIDE DEF e, w
<1>4. ReadsBehind(0, e, w, 0)
  BY <1>1, <1>2, <1>3 DEF ReadsBehind, Laid, Numbered
<1>5. Reads(e, w, 0)
  BY <1>3, <1>4 DEF Reads, Heads
<1>6. table'[s] = e /\ wire'[table'[s].sd] = w /\ fate'[table'[s].ticket].served = 0
  BY <1>1 DEF e, w
<1> QED
  BY <1>5, <1>6 DEF SlotPage

\* The request of slot i may be called back with code 0.
PageDone(i) ==
  \E h \in Heads :
    /\ Laid(table[i].page, table[i].ticket, h)
    /\ Len(table[i].page) - h < fate[table[i].ticket].served =>
         Len(table[i].page) = MAX_PAGE_SIZE - 1

LEMMA FateTold ==
  ASSUME IOInv, NEW i \in Slot, Busy(i), NEW rc, rc = "OK" => PageDone(i),
         NEW u \in Ticket, u = table[i].ticket, NEW f, f = Outcome(fate[u], table[i], rc),
         fate'[u].state = f.state, fate'[u].rc = f.rc,
         fate'[u].page = f.page, fate'[u].served = f.served
  PROVE  FatePage(u)'
<1>1. fate[u] \in FateRec
  BY DEF IOInv, Types, FetchTypes
<1>2. /\ f.state = "done" /\ f.rc = rc /\ f.page = table[i].page /\ f.served = fate[u].served
  BY <1>1, OutcomeIs
<1> QED
  BY <1>2 DEF FatePage, PageDone

\* These steps keep the pages.  No socket that they open or close is someone else's.
LEMMA SocketsApart ==
  ASSUME IOInv, NEW x, x \in FD \ net.open \/ \E i \in Slot : Busy(i) /\ x = table[i].sd
  PROVE  x # main_sd /\ x # report_sd /\ (request_status # "NONE" => x # request_sd)
<1>1. /\ main_sd \in net.open /\ (report_sd # None => report_sd \in net.open) /\ None \notin FD
      /\ (request_status # "NONE" => request_sd \in net.open)
  BY SocketTypes DEF IOInv, Sockets, MainSocket, ReportSocket, CommandSocket
<1> QED
  BY <1>1, SlotSocketIs

LEMMA AskPages ==
  ASSUME IOInv, IOInv', TicketInv, PageInv, SameCommand, SameReport,
         NEW s, NEW sd, NEW id, Asks(s, sd, id)
  PROVE  PageInv'
<1>0. PICK u : u = tickets + 1
  OBVIOUS
<1>1. u \in Ticket /\ fate[u].state = "unused" /\ \A j \in Slot : Busy(j) => table[j].ticket # u
  <2>1. u \in Ticket /\ tickets \in Nat
    BY <1>0, NextTicket DEF Asks
  <2> QED
    BY <1>0, <2>1 DEF TicketInv, FateInv, SlotTicket
<1>2. /\ s \in Slot /\ ~Busy(s) /\ sd \in FD \ net.open /\ OnlySlot(s, Entry(id, sd, u))
      /\ wire' = [wire EXCEPT ![sd] = [Fresh("connecting", "web") EXCEPT !.ticket = u]]
      /\ fate' = [fate EXCEPT ![u].state = "pending"]
  BY <1>0 DEF Asks, Submits, OnlySlot, OpenedFor
<1>3. /\ table'[s] = Entry(id, sd, u) /\ \A j \in Slot : j # s => table'[j] = table[j]
      /\ wire'[sd] = [Fresh("connecting", "web") EXCEPT !.ticket = u]
      /\ \A x \in FD \ {sd} : wire'[x] = wire[x]
  BY <1>2, TableIs DEF IOInv, Types, WireTypes
<1>4. \A t \in Ticket : /\ t # u => fate'[t] = fate[t]
                        /\ t = u => fate'[t].state = "pending"
                        /\ fate'[t].rc = fate[t].rc /\ fate'[t].page = fate[t].page
                        /\ fate'[t].served = fate[t].served
  BY <1>2, StateSet DEF IOInv, Types, FetchTypes
<1>5. OtherEnds'
  BY <1>2, <1>3, SocketsApart, EndsKept DEF PageInv
<1>6. ASSUME NEW j \in Slot PROVE SlotPage(j)'
  <2>1. CASE j = s
    <3>1. fate'[u].served = 0
      BY <1>1, <1>4 DEF PageInv, FatePage
    <3> QED
      BY <1>3, <2>1, <3>1, NewSlotReads
  <2>2. CASE j # s
    <3>1. Busy(j) => wire'[table[j].sd] = wire[table[j].sd]
      BY <1>2, <1>3, SlotSocketIs
    <3>2. Busy(j) => fate'[table[j].ticket].served = fate[table[j].ticket].served
      BY <1>4, SlotTicketIs
    <3> QED
      BY <1>3, <2>2, <3>1, <3>2, SlotKept DEF PageInv
  <2> QED
    BY <2>1, <2>2
<1>7. ASSUME NEW t \in Ticket PROVE FatePage(t)'
  BY <1>4, FateKept DEF PageInv
<1> QED
  BY <1>5, <1>6, <1>7 DEF PageInv

\* One entry is released.
LEMMA FreePages ==
  ASSUME IOInv, TicketInv, PageInv, SameCommand, SameReport, NEW i, Frees(i),
         wire' = [wire EXCEPT ![table[i].sd] = Closed],
         \A t \in Ticket : t # table[i].ticket => fate'[t] = fate[t],
         \A t \in Ticket : t = table[i].ticket => FatePage(t)'
  PROVE  PageInv'
<1>1. i \in Slot /\ Busy(i) /\ OnlySlot(i, FreeSlot)
  BY DEF Frees, OnlySlot
<1>2. ~Busy(i)' /\ \A j \in Slot : j # i => table'[j] = table[j]
  <2>1. table'[i] = FreeSlot /\ \A j \in Slot : j # i => table'[j] = table[j]
    BY <1>1, TableIs
  <2> QED
    BY <2>1 DEF Busy, FreeSlot
<1>3. \A x \in FD \ {table[i].sd} : wire'[x] = wire[x]
  BY DEF IOInv, Types, WireTypes
<1>4. OtherEnds'
  BY <1>1, <1>3, SocketsApart, EndsKept DEF PageInv
<1>5. ASSUME NEW j \in Slot PROVE SlotPage(j)'
  <2>1. CASE j = i
    BY <1>2, <2>1 DEF SlotPage
  <2>2. CASE j # i
    <3>1. Busy(j) => wire'[table[j].sd] = wire[table[j].sd]
      BY <1>1, <1>3, <2>2, SlotSocketIs
    <3>2. Busy(j) => fate'[table[j].ticket].served = fate[table[j].ticket].served
      BY <1>1, <2>2, SlotTicketIs
    <3> QED
      BY <1>2, <2>2, <3>1, <3>2, SlotKept DEF PageInv
  <2> QED
    BY <2>1, <2>2
<1>6. ASSUME NEW t \in Ticket PROVE FatePage(t)'
  <2>1. CASE t # table[i].ticket
    BY <2>1, FateKept DEF PageInv
  <2> QED
    BY <2>1
<1> QED
  BY <1>4, <1>5, <1>6 DEF PageInv

LEMMA DropPages ==
  ASSUME IOInv, TicketInv, PageInv, SameCommand, SameReport, NEW i, Drops(i)
  PROVE  PageInv'
<1>1. Frees(i) /\ i \in Slot /\ Busy(i) /\ wire' = [wire EXCEPT ![table[i].sd] = Closed]
  BY DEF Drops, Frees, OnlySlot
<1>2. PICK u : u = table[i].ticket
  OBVIOUS
<1>3. fate' = [fate EXCEPT ![u].state = "cancelled"] /\ fate \in [Ticket -> FateRec]
  BY <1>2 DEF Drops, IOInv, Types, FetchTypes
<1>4. \A t \in Ticket : /\ t # u => fate'[t] = fate[t]
                        /\ t = u => fate'[t].state = "cancelled"
                        /\ fate'[t].rc = fate[t].rc /\ fate'[t].page = fate[t].page
                        /\ fate'[t].served = fate[t].served
  BY <1>3, StateSet
<1>5. ASSUME NEW t \in Ticket, t = u PROVE FatePage(t)'
  BY <1>4, <1>5, FateKept DEF PageInv
<1> QED
  BY <1>1, <1>2, <1>4, <1>5, FreePages

LEMMA TellPages ==
  ASSUME IOInv, TicketInv, PageInv, SameCommand, SameReport, NEW i, NEW rc, Tells(i, rc),
         rc = "OK" => PageDone(i)
  PROVE  PageInv'
<1>1. /\ Frees(i) /\ i \in Slot /\ Busy(i) /\ wire' = [wire EXCEPT ![table[i].sd] = Closed]
      /\ fate' = Told(i, rc)
  BY DEF Tells, Frees, OnlySlot
<1>2. \A t \in Ticket : fate'[t] = IF t = table[i].ticket THEN Outcome(fate[t], table[i], rc) ELSE fate[t]
  BY <1>1, ToldIs
<1>3. ASSUME NEW t \in Ticket, t = table[i].ticket PROVE FatePage(t)'
  <2>1. fate'[t] = Outcome(fate[t], table[i], rc) /\ SlotPage(i)
    BY <1>1, <1>2, <1>3 DEF PageInv
  <2> QED
    BY <1>1, <1>3, <2>1, FateTold
<1> QED
  BY <1>1, <1>2, <1>3, FreePages

LEMMA TellAskPages ==
  ASSUME IOInv, IOInv', TicketInv, PageInv, SameCommand, SameReport,
         NEW i, NEW rc, NEW s, NEW sd, NEW id, rc \in ReturnCodes,
         TellsAndAsks(i, rc, s, sd, id), rc = "OK" => PageDone(i)
  PROVE  PageInv'
<1>0. PICK u, v, x : u = tickets + 1 /\ v = table[i].ticket /\ x = table[i].sd
  OBVIOUS
<1>1. /\ i \in Slot /\ s \in Slot /\ s # i /\ ~Busy(s) /\ Busy(i) /\ sd \in FD \ net.open
      /\ table' = [table EXCEPT ![s] = Entry(id, sd, u), ![i] = FreeSlot]
      /\ wire' = [OpenedFor(wire, sd) EXCEPT ![x] = Closed]
      /\ fate' = [Told(i, rc) EXCEPT ![u].state = "pending"]
  BY <1>0 DEF TellsAndAsks, Replaces
<1>2. u \in Ticket /\ fate[u].state = "unused" /\ \A j \in Slot : Busy(j) => table[j].ticket # u
  <2>1. u \in Ticket /\ tickets \in Nat
    BY <1>0, NextTicket DEF TellsAndAsks
  <2> QED
    BY <1>0, <2>1 DEF TicketInv, FateInv, SlotTicket
<1>3. x # sd /\ x \in FD
  BY <1>0, <1>1, SlotSocketIs
<1>4. /\ table'[s] = Entry(id, sd, u) /\ ~Busy(i)' /\ \A j \in Slot : j # s /\ j # i => table'[j] = table[j]
  <2>1. table'[s] = Entry(id, sd, u) /\ table'[i] = FreeSlot
        /\ \A j \in Slot : j # s /\ j # i => table'[j] = table[j]
    BY <1>1 DEF IOInv, Types, FetchTypes
  <2> QED
    BY <2>1 DEF Busy, FreeSlot
<1>5. /\ wire'[sd] = [Fresh("connecting", "web") EXCEPT !.ticket = u]
      /\ \A y \in FD \ {sd, x} : wire'[y] = wire[y]
  <2> DEFINE w == [Fresh("connecting", "web") EXCEPT !.ticket = u]
  <2>1. wire' = [[wire EXCEPT ![sd] = w] EXCEPT ![x] = Closed] /\ wire \in [FD -> WireRec]
    BY <1>0, <1>1 DEF OpenedFor, IOInv, Types, WireTypes
  <2> HIDE DEF w
  <2>2. wire'[sd] = w /\ \A y \in FD \ {sd, x} : wire'[y] = wire[y]
    BY <1>1, <1>3, <2>1
  <2> QED
    BY <2>2 DEF w
<1>6. \A t \in Ticket : /\ t # u /\ t # v => fate'[t] = fate[t]
                        /\ t = u => fate'[t].rc = "none" /\ fate'[t].served = fate[t].served
                        /\ t = u => fate'[t].state = "pending"
  <2>1. FetchTypes
    BY DEF IOInv, Types
  <2>2. PICK told : told = Told(i, rc)
    OBVIOUS
  <2>3. told \in [Ticket -> FateRec] /\ fate' = [told EXCEPT ![u].state = "pending"]
    BY <1>1, <2>1, <2>2, ToldTypes DEF ReturnCodes
  <2>4. \A t \in Ticket : t # v => told[t] = fate[t]
    BY <1>0, <1>1, <2>2, ToldIs
  <2>5. \A t \in Ticket : /\ t # u => fate'[t] = told[t]
                          /\ t = u => fate'[t].state = "pending"
                          /\ fate'[t].rc = told[t].rc /\ fate'[t].served = told[t].served
    BY <2>3, StateSet
  <2>6. u # v /\ fate[u].rc = "none"
    BY <1>0, <1>1, <1>2 DEF TicketInv, FateInv
  <2> QED
    BY <2>4, <2>5, <2>6
<1>7. OtherEnds'
  <2>1. \A y \in FD \ {sd, x} : wire'[y].to = wire[y].to
    BY <1>5
  <2>2. sd # main_sd /\ sd # report_sd /\ (request_status # "NONE" => sd # request_sd)
    BY <1>1, SocketsApart
  <2>3. x # main_sd /\ x # report_sd /\ (request_status # "NONE" => x # request_sd)
    BY <1>0, <1>1, SlotSocketIs
  <2>4. OtherEnds
    BY DEF PageInv
  <2> QED
    BY <2>1, <2>2, <2>3, <2>4, EndsKept
<1>8. ASSUME NEW j \in Slot PROVE SlotPage(j)'
  <2>1. CASE j = s
    <3>1. fate'[u].served = 0
      BY <1>2, <1>6 DEF PageInv, FatePage
    <3> QED
      BY <1>4, <1>5, <2>1, <3>1, NewSlotReads
  <2>2. CASE j = i
    BY <1>4, <2>2 DEF SlotPage
  <2>3. CASE j # s /\ j # i
    <3>1. Busy(j) => wire'[table[j].sd] = wire[table[j].sd]
      BY <1>0, <1>1, <1>5, <2>3, SlotSocketIs
    <3>2. Busy(j) => fate'[table[j].ticket].served = fate[table[j].ticket].served
      BY <1>0, <1>1, <1>2, <1>6, <2>3, SlotTicketIs
    <3> QED
      BY <1>4, <2>3, <3>1, <3>2, SlotKept DEF PageInv
  <2> QED
    BY <2>1, <2>2, <2>3
<1>9. ASSUME NEW t \in Ticket PROVE FatePage(t)'
  <2>1. CASE t = u
    BY <1>6, <2>1 DEF FatePage
  <2>2. CASE t = v
    <3>1. fate'[t] = Outcome(fate[t], table[i], rc)
      <4>1. FetchTypes /\ u # v
        BY <1>0, <1>1, <1>2 DEF IOInv, Types
      <4>2. PICK told : told = Told(i, rc)
        OBVIOUS
      <4>3. told \in [Ticket -> FateRec] /\ fate' = [told EXCEPT ![u].state = "pending"]
        BY <1>1, <4>1, <4>2, ToldTypes DEF ReturnCodes
      <4>4. fate'[t] = told[t]
        BY <2>2, <4>1, <4>3
      <4>5. told[t] = Outcome(fate[t], table[i], rc)
        BY <1>0, <1>1, <2>2, <4>2, ToldIs
      <4> QED
        BY <4>4, <4>5
    <3>2. SlotPage(i) /\ t = table[i].ticket
      BY <1>0, <1>1, <2>2 DEF PageInv
    <3> QED
      BY <1>1, <3>1, <3>2, FateTold
  <2>3. CASE t # u /\ t # v
    BY <1>6, <2>3, FateKept DEF PageInv
  <2> QED
    BY <2>1, <2>2, <2>3
<1> QED
  BY <1>7, <1>8, <1>9 DEF PageInv

\* A response ends with all of its pieces in the buffer, or with a buffer that is full and
\* as large as one gets.
LEMMA EndsWithPage ==
  ASSUME IOInv, PageInv, NEW i \in Slot, NEW max, ReadEnds(i, max)
  PROVE  PageDone(i)
<1> DEFINE e == table[i]
           w == wire[e.sd]
<1>1. Busy(i) /\ Reads(e, w, fate[e.ticket].served) /\ e.sd \in FD
  BY SocketTypes DEF ReadEnds, Scans, PageInv, SlotPage
<1>2. FetchTypes /\ WireTypes
  BY DEF IOInv, Types
<1>0. PICK h \in Heads : ReadsBehind(h, e, w, fate[e.ticket].served)
  BY <1>1 DEF Reads
<1>3. /\ Len(e.page) \in Nat /\ e.buf_size \in Nat /\ Len(w.unread) \in Nat
      /\ e.buf_size \in 1 .. MAX_PAGE_SIZE /\ Len(e.page) < e.buf_size
      /\ Laid(e.page, e.ticket, h) /\ fate[e.ticket].served = Len(e.page) - h + Len(w.unread)
  <2>1. e.buf_size \in 1 .. MAX_PAGE_SIZE
    BY <1>0, BufferSizesAre DEF ReadsBehind
  <2>2. w.unread \in Seq(Piece)
    BY <1>1, <1>2 DEF WireTypes, WireRec
  <2> QED
    BY <1>0, <1>2, <2>1, <2>2, EntryTypes DEF ReadsBehind
<1>4. CASE ReadEof(e.sd)
  <2>1. PICK p \in Nat, g \in Int : p = Len(e.page) /\ g = h
    BY <1>3, FetchAssumption DEF Heads
  <2>2. Len(w.unread) = 0
    BY <1>4 DEF ReadEof
  <2>3. fate[e.ticket].served = p - g /\ ~(p - g < p - g)
    BY <1>3, <2>1, <2>2
  <2>4. ~(Len(e.page) - h < fate[e.ticket].served)
    BY <2>1, <2>3
  <2> QED
    BY <1>3, <2>1, <2>4 DEF PageDone
<1>5. CASE Space(i) = 0
  <2> DEFINE cursor == Len(e.page)
  <2>1. Cursor(i) = cursor /\ Space(i) = NewSize(i) - cursor - 1
    BY DEF Cursor, Space
  <2>2. NewSize(i) = IF e.buf_size - cursor - 1 < LowSpace /\ e.buf_size < MAX_PAGE_SIZE
                     THEN 2 * e.buf_size ELSE e.buf_size
    BY <2>1 DEF NewSize
  <2>3. cursor \in Nat /\ cursor < e.buf_size /\ LowSpace \in Nat \ {0} /\ MAX_PAGE_SIZE \in Nat
    <3>1. LowSpace \in Nat \ {0} /\ MAX_PAGE_SIZE \in Nat
      BY FetchAssumption
    <3> HIDE DEF e
    <3> QED
      BY <1>3, <3>1
  <2> HIDE DEF cursor
  <2>4. cursor = MAX_PAGE_SIZE - 1
    BY <1>3, <1>5, <2>1, <2>2, <2>3
  <2> QED
    BY <1>3, <2>4 DEF cursor, PageDone
<1> QED
  BY <1>4, <1>5 DEF ReadEnds

-----------------------------------------------------------------------------
(* The transfers *)

LEMMA SlotReads ==
  ASSUME NEW i \in Slot, NEW d, NEW w, NEW served, Reads(d, w, served), table'[i] = d,
         wire'[d.sd] = w, fate'[d.ticket].served = served
  PROVE  SlotPage(i)'
BY DEF SlotPage

\* Only slot i and its connection change.
LEMMA TransferPages ==
  ASSUME IOInv, PageInv, SameCommand, SameReport, UNCHANGED fate, NEW i \in Slot, Busy(i),
         \A j \in Slot : j # i => table'[j] = table[j],
         \A x \in FD : x # table[i].sd => wire'[x] = wire[x],
         SlotPage(i)'
  PROVE  PageInv'
<1>1. OtherEnds'
  <2>1. \A x \in FD \ {table[i].sd} : wire'[x].to = wire[x].to
    OBVIOUS
  <2> QED
    BY <2>1, SlotSocketIs, EndsKept DEF PageInv
<1>2. ASSUME NEW j \in Slot PROVE SlotPage(j)'
  <2>1. CASE j = i
    BY <2>1
  <2>2. CASE j # i
    <3>1. Busy(j) => wire'[table[j].sd] = wire[table[j].sd]
      BY <2>2, SlotSocketIs
    <3> QED
      BY <2>2, <3>1, SlotKept DEF PageInv
  <2> QED
    BY <2>1, <2>2
<1>3. ASSUME NEW t \in Ticket PROVE FatePage(t)'
  BY FateKept DEF PageInv
<1> QED
  BY <1>1, <1>2, <1>3 DEF PageInv

LEMMA SlotFacts ==
  ASSUME IOInv, PageInv, NEW i \in Slot, Busy(i)
  PROVE  /\ table[i] \in EntryRec /\ wire[table[i].sd] \in WireRec /\ table[i].sd \in FD
         /\ wire \in [FD -> WireRec] /\ table \in [Slot -> EntryRec]
         /\ table[i].page \in Seq(Piece) /\ Len(table[i].page) \in Nat
         /\ wire[table[i].sd].unread \in Seq(Piece) /\ Len(wire[table[i].sd].unread) \in Nat
         /\ wire[table[i].sd].sent \in Nat /\ table[i].buf_size \in 1 .. MAX_PAGE_SIZE
         /\ \E h \in Heads : ReadsBehind(h, table[i], wire[table[i].sd], fate[table[i].ticket].served)
         /\ table[i].buf_size \in BufferSizes /\ RequestLen \in Nat \ {0} /\ Heads \subseteq Nat
<1>1. FetchTypes /\ WireTypes /\ table[i].sd \in FD
  BY SocketTypes DEF IOInv, Types
<1>2. \E h \in Heads : ReadsBehind(h, table[i], wire[table[i].sd], fate[table[i].ticket].served)
  BY DEF PageInv, SlotPage, Reads
<1>3. wire[table[i].sd] \in WireRec /\ wire \in [FD -> WireRec] /\ table \in [Slot -> EntryRec]
  BY <1>1 DEF WireTypes, FetchTypes
<1>4. wire[table[i].sd].unread \in Seq(Piece) /\ wire[table[i].sd].sent \in Nat
  BY <1>3 DEF WireRec
<1>5. table[i].buf_size \in BufferSizes /\ table[i].buf_size \in 1 .. MAX_PAGE_SIZE
  BY <1>2, BufferSizesAre DEF ReadsBehind
<1>6. RequestLen \in Nat \ {0} /\ Heads \subseteq Nat
  BY FetchAssumption DEF Heads
<1> QED
  BY <1>1, <1>2, <1>3, <1>4, <1>5, <1>6, EntryTypes

LEMMA SendPages ==
  ASSUME IOInv, PageInv, SameCommand, SameReport, NEW i \in Slot, SendPacket(i)
  PROVE  PageInv'
<1> DEFINE e == table[i]
           w == wire[e.sd]
<1>1. Busy(i) /\ Sending(i) /\ UNCHANGED fate
  BY DEF SendPacket, Scans, InTransfer
<1>0. PICK h \in Heads : ReadsBehind(h, e, w, fate[e.ticket].served)
  BY <1>1, SlotFacts
<1>2. PICK k \in 1 .. RequestLen - Cursor(i) :
        /\ wire' = AfterWrite(e.sd, k)
        /\ IF Cursor(i) + k < RequestLen
           THEN table' = [table EXCEPT ![i].status = "SENDING_REQUEST",
                                       ![i].page = @ \o RequestPieces(e.ticket, Cursor(i), k)]
           ELSE table' = [table EXCEPT ![i].status = "WAITING_FOR_RESPONSE"]
  BY DEF SendPacket
<1>3. /\ e \in EntryRec /\ w \in WireRec /\ e.sd \in FD /\ wire \in [FD -> WireRec]
      /\ table \in [Slot -> EntryRec] /\ w.sent \in Nat /\ h \in Nat
      /\ e.page \in Seq(Piece) /\ e.buf_size \in Nat /\ RequestLen \in Nat
      /\ Len(e.page) \in Nat /\ Len(w.unread) \in Nat
  BY <1>1, SlotFacts
<1>4. k \in Nat \ {0} /\ fate[e.ticket].served = 0 /\ w.sent = h /\ Len(e.page) = h /\ Len(w.unread) = 0
  <2>1. RequestLen - Cursor(i) \in Int
    BY <1>3 DEF Cursor
  <2>2. k \in Nat \ {0}
    BY <2>1
  <2>3. e.status \in {"CONNECTING_TO_SERVER", "SENDING_REQUEST"}
    BY <1>1 DEF Sending
  <2> HIDE DEF e, w
  <2>4. fate[e.ticket].served = 0 /\ w.sent = h
    BY <1>0, <2>3 DEF ReadsBehind
  <2>5. PICK a \in Nat, b \in Nat, c \in Nat : a = Len(e.page) /\ b = Len(w.unread) /\ c = h
    BY <1>3
  <2>6. a - c + b = 0 /\ c <= a
    BY <1>0, <2>4, <2>5 DEF ReadsBehind, Laid
  <2>7. a = c /\ b = 0
    BY <2>6
  <2> QED
    BY <2>2, <2>4, <2>5, <2>7
<1> DEFINE sent == w.sent + k
           r == [w EXCEPT !.sent = sent]
<1>5. wire' = [wire EXCEPT ![e.sd] = r]
  BY <1>2, <1>3 DEF AfterWrite
<1>6. /\ r.to = w.to /\ r.ticket = w.ticket /\ r.unread = w.unread /\ r.sent = sent
  BY <1>3 DEF WireRec
<1>7. \A x \in FD : x # e.sd => wire'[x] = wire[x]
  <2> HIDE DEF r
  <2> QED
    BY <1>3, <1>5
<1>8. wire'[e.sd] = r
  <2> HIDE DEF r
  <2> QED
    BY <1>3, <1>5
<1>9. CASE Cursor(i) + k < RequestLen
  <2> DEFINE page == e.page \o RequestPieces(e.ticket, Cursor(i), k)
             d == [e EXCEPT !.status = "SENDING_REQUEST", !.page = page]
  <2>1. table' = [table EXCEPT ![i] = d]
    BY <1>2, <1>3, <1>9 DEF EntryRec
  <2>2. table'[i] = d /\ \A j \in Slot : j # i => table'[j] = table[j]
    <3> HIDE DEF d
    <3> QED
      BY <1>3, <2>1
  <2>3. Len(page) = h + k /\ Laid(page, e.ticket, h + k)
    <3>1. RequestPieces(e.ticket, Cursor(i), k) \in Seq(Piece)
      BY <1>2, SentTypes DEF IOInv, Types
    <3>2. PICK s, n : s = RequestPieces(e.ticket, Cursor(i), k) /\ n = e.page
      OBVIOUS
    <3>3. Len(s) = k /\ \A j \in 1 .. k : s[j] = <<e.ticket, -(h + j)>>
      BY <1>4, <3>2 DEF RequestPieces, Cursor
    <3>4. n \in Seq(Piece) /\ Len(n) = h /\ \A j \in 1 .. h : n[j] = <<e.ticket, -j>>
      BY <1>0, <1>3, <1>4, <3>2 DEF ReadsBehind, Laid, PieceAt
    <3>5. Len(n \o s) = h + k /\ \A j \in 1 .. h + k : (n \o s)[j] = IF j <= h THEN n[j] ELSE s[j - h]
      <4>1. /\ Len(n \o s) = Len(n) + Len(s)
            /\ \A j \in 1 .. Len(n) + Len(s) :
                  (n \o s)[j] = IF j <= Len(n) THEN n[j] ELSE s[j - Len(n)]
        <5>1. s \in Seq(Piece) /\ n \in Seq(Piece)
          BY <3>1, <3>2, <3>4
        <5> HIDE DEF page, d, r
        <5> QED
          BY ONLY <5>1, ConcatProperties
      <4> QED
        BY <3>3, <3>4, <4>1
    <3>6. ASSUME NEW j \in 1 .. h + k PROVE (n \o s)[j] = <<e.ticket, -j>>
      <4>1. CASE j <= h
        <5>1. j \in 1 .. h
          BY <1>3, <1>4, <4>1
        <5> QED
          BY <3>4, <3>5, <4>1, <5>1
      <4>2. CASE ~(j <= h)
        <5>1. PICK a \in Nat, b \in Nat, m \in Nat : a = h /\ b = k /\ m = j /\ m \in 1 .. a + b /\ ~(m <= a)
          BY <1>3, <1>4, <4>2
        <5>2. m - a \in 1 .. b /\ a + (m - a) = m
          BY <5>1
        <5>3. j - h \in 1 .. k /\ h + (j - h) = j
          BY <5>1, <5>2
        <5>4. s[j - h] = <<e.ticket, -(h + (j - h))>>
          BY <3>3, <5>3
        <5> QED
          BY <3>5, <4>2, <5>3, <5>4
      <4> QED
        BY <4>1, <4>2
    <3>7. page = n \o s
      BY <3>2
    <3> HIDE DEF page
    <3>8. Len(page) = h + k /\ \A j \in 1 .. h + k : j <= h + k /\ page[j] = <<e.ticket, -j>>
      <4>1. \A j \in 1 .. h + k : page[j] = <<e.ticket, -j>>
        BY <3>6, <3>7
      <4>2. \A j \in 1 .. h + k : j <= h + k
        BY <1>3, <1>4
      <4> QED
        BY <3>5, <3>7, <4>1, <4>2
    <3> QED
      BY <1>3, <1>4, <3>8 DEF Laid, PieceAt
  <2> HIDE DEF page
  <2>4. /\ d.page = page /\ d.ticket = e.ticket /\ d.buf_size = e.buf_size
        /\ d.sd = e.sd /\ d.status = "SENDING_REQUEST"
    BY <1>3 DEF EntryRec
  <2>7. h + k \in Heads /\ h + k = sent /\ h + k < RequestLen /\ Len(page) < e.buf_size
    <3>1. PICK a \in Nat, b \in Nat, n \in Nat : a = h /\ b = k /\ n = RequestLen
      BY <1>3, <1>4
    <3>2. a + b < n /\ a + b \in 0 .. n - 1
      BY <1>4, <1>9, <3>1 DEF Cursor
    <3>3. e.buf_size >= n
      BY <1>0, <3>1 DEF ReadsBehind
    <3> QED
      BY <1>3, <1>4, <2>3, <3>1, <3>2, <3>3 DEF Heads
  <2> HIDE DEF d, r, sent
  <2>5. Reads(d, r, 0)
    <3> HIDE DEF e, w
    <3>1. PICK g \in Heads : g = h + k
      BY <2>7
    <3>2. g \in Nat /\ Len(page) = g
      BY <1>3, <1>4, <2>3, <3>1
    <3>3. Len(page) - g = 0 /\ 0 = Len(page) - g + Len(r.unread) /\ Len(r.unread) = 0
      BY <1>4, <1>6, <3>2
    <3>4. r.to = "web" /\ r.ticket = d.ticket /\ d.buf_size \in BufferSizes /\ d.buf_size >= RequestLen
      BY <1>0, <1>6, <2>4 DEF ReadsBehind
    <3>5. Laid(d.page, d.ticket, g) /\ r.sent = g /\ Len(d.page) < d.buf_size
      BY <1>6, <2>3, <2>4, <2>7, <3>1
    <3>6. Numbered(r.unread, d.ticket, Len(d.page) - g)
      BY <3>3 DEF Numbered
    <3> QED
      BY <2>4, <3>3, <3>4, <3>5, <3>6 DEF Reads, ReadsBehind
  <2>6. SlotPage(i)'
    <3>1. wire'[d.sd] = r /\ fate'[d.ticket].served = 0
      BY <1>1, <1>4, <1>8, <2>4
    <3> QED
      BY <2>2, <2>5, <3>1, SlotReads
  <2> QED
    BY <1>1, <1>7, <2>2, <2>6, TransferPages
<1>10. CASE ~(Cursor(i) + k < RequestLen)
  <2> DEFINE d == [e EXCEPT !.status = "WAITING_FOR_RESPONSE"]
  <2>1. table' = [table EXCEPT ![i] = d]
    BY <1>2, <1>3, <1>10 DEF EntryRec
  <2>2. table'[i] = d /\ \A j \in Slot : j # i => table'[j] = table[j]
    <3> HIDE DEF d
    <3> QED
      BY <1>3, <2>1
  <2>3. /\ d.page = e.page /\ d.ticket = e.ticket /\ d.buf_size = e.buf_size
        /\ d.sd = e.sd /\ d.status = "WAITING_FOR_RESPONSE"
    BY <1>3 DEF EntryRec
  <2> HIDE DEF d, r, sent
  <2>4. Reads(d, r, fate[e.ticket].served)
    <3> HIDE DEF e, w
    <3> QED
      BY <1>0, <1>3, <1>6, <2>3 DEF Reads, ReadsBehind
  <2>5. SlotPage(i)'
    <3>1. wire'[d.sd] = r /\ fate'[d.ticket].served = fate[e.ticket].served
      BY <1>1, <1>8, <2>3
    <3> QED
      BY <2>2, <2>4, <3>1, SlotReads
  <2> QED
    BY <1>1, <1>7, <2>2, <2>5, TransferPages
<1> QED
  BY <1>9, <1>10

LEMMA NotReadyPages ==
  ASSUME IOInv, PageInv, SameCommand, SameReport, NEW i \in Slot, NotReady(i)
  PROVE  PageInv'
<1> DEFINE e == table[i]
           w == wire[e.sd]
           r == [w EXCEPT !.shut = TRUE]
           d == [e EXCEPT !.status = "READING_RESPONSE"]
<1>1. Busy(i) /\ UNCHANGED fate
  BY DEF NotReady, Scans, InTransfer
<1>2. /\ e \in EntryRec /\ w \in WireRec /\ e.sd \in FD /\ wire \in [FD -> WireRec]
      /\ table \in [Slot -> EntryRec] /\ Reads(e, w, fate[e.ticket].served)
  BY <1>1, SlotFacts DEF Reads
<1>3. CASE UNCHANGED <<wire, table>>
  <2>1. SlotPage(i)'
    BY <1>1, <1>3, SlotKept DEF PageInv
  <2> QED
    BY <1>1, <1>3, <2>1, TransferPages
<1>4. CASE /\ wire' = [wire EXCEPT ![e.sd].shut = TRUE]
           /\ table' = [table EXCEPT ![i].status = "READING_RESPONSE"]
  <2>1. wire' = [wire EXCEPT ![e.sd] = r] /\ table' = [table EXCEPT ![i] = d]
    BY <1>2, <1>4 DEF WireRec, EntryRec
  <2>2. /\ d.page = e.page /\ d.ticket = e.ticket /\ d.buf_size = e.buf_size
        /\ d.sd = e.sd /\ d.status = "READING_RESPONSE"
        /\ r.to = w.to /\ r.ticket = w.ticket /\ r.unread = w.unread
    BY <1>2 DEF WireRec, EntryRec
  <2> HIDE DEF r, d
  <2>3. /\ table'[i] = d /\ \A j \in Slot : j # i => table'[j] = table[j]
        /\ wire'[e.sd] = r /\ \A x \in FD : x # e.sd => wire'[x] = wire[x]
    BY <1>2, <2>1
  <2>4. Reads(d, r, fate[e.ticket].served)
    <3> HIDE DEF e, w
    <3> QED
      BY <1>2, <2>2 DEF Reads, ReadsBehind
  <2>5. SlotPage(i)'
    <3>1. wire'[d.sd] = r /\ fate'[d.ticket].served = fate[e.ticket].served
      BY <1>1, <2>2, <2>3
    <3> QED
      BY <2>3, <2>4, <3>1, SlotReads
  <2> QED
    BY <1>1, <2>3, <2>5, TransferPages
<1> QED
  BY <1>3, <1>4 DEF NotReady

\* A read moves k pieces of ticket t from the connection to the page: what it got.
Moves(page, unread, k, t, first, got, more, rest) ==
  /\ page \in Seq(Piece) /\ unread \in Seq(Piece) /\ k \in 1 .. Len(unread)
  /\ first \in Nat /\ Numbered(unread, t, first)
  /\ got \in Seq(Piece) /\ Len(got) = k /\ \A n \in 1 .. k : got[n] = unread[n]
  /\ more = page \o got /\ rest = SubSeq(unread, k + 1, Len(unread))

LEMMA PiecesMove ==
  ASSUME NEW page, NEW unread, NEW k, NEW t, NEW first, NEW got, NEW more, NEW rest,
         Moves(page, unread, k, t, first, got, more, rest)
  PROVE  /\ Len(more) = Len(page) + k /\ Len(rest) = Len(unread) - k
         /\ \A n \in 1 .. Len(more) :
              more[n] = IF n <= Len(page) THEN page[n] ELSE <<t, first + (n - Len(page))>>
         /\ Numbered(rest, t, first + k)
<1> page \in Seq(Piece) /\ unread \in Seq(Piece) /\ k \in 1 .. Len(unread)
  BY DEF Moves
<1>a. got \in Seq(Piece) /\ Len(got) = k /\ \A n \in 1 .. k : got[n] = unread[n]
  BY DEF Moves
<1>b. more = page \o got /\ rest = SubSeq(unread, k + 1, Len(unread))
  BY DEF Moves
<1>0. first \in Nat /\ \A n \in 1 .. Len(unread) : unread[n] = <<t, first + n>>
  BY DEF Moves, Numbered
<1>1. Len(page) \in Nat /\ Len(unread) \in Nat /\ k \in Nat /\ k <= Len(unread)
  OBVIOUS
<1>2. /\ Len(more) = Len(page) + k
      /\ \A n \in 1 .. Len(page) + k : more[n] = IF n <= Len(page) THEN page[n] ELSE got[n - Len(page)]
  <2>1. /\ Len(page \o got) = Len(page) + Len(got)
        /\ \A n \in 1 .. Len(page) + Len(got) :
             (page \o got)[n] = IF n <= Len(page) THEN page[n] ELSE got[n - Len(page)]
    BY <1>a, ConcatProperties
  <2> QED
    BY <1>a, <1>b, <2>1
<1>3. ASSUME NEW n \in 1 .. Len(more)
      PROVE  more[n] = IF n <= Len(page) THEN page[n] ELSE <<t, first + (n - Len(page))>>
  <2>1. CASE n <= Len(page)
    BY <1>1, <1>2, <2>1
  <2>2. CASE ~(n <= Len(page))
    <3>1. n - Len(page) \in 1 .. k /\ n - Len(page) \in 1 .. Len(unread)
      BY <1>1, <1>2, <2>2
    <3>2. unread[n - Len(page)] = <<t, first + (n - Len(page))>>
      BY <1>0, <3>1
    <3> QED
      BY <1>a, <1>2, <2>2, <3>1, <3>2
  <2> QED
    BY <2>1, <2>2
<1>4. /\ Len(rest) = Len(unread) - k
      /\ \A n \in 1 .. Len(unread) - k : rest[n] = unread[k + n]
  <2>1. \A n \in k + 1 .. Len(unread) : unread[n] \in Piece
    BY <1>1, ElementOfSeq
  <2>2. k + 1 \in Int /\ Len(unread) \in Int
    BY <1>1
  <2>3. /\ Len(rest) = (IF k + 1 <= Len(unread) THEN Len(unread) - (k + 1) + 1 ELSE 0)
        /\ \A n \in 1 .. Len(unread) - (k + 1) + 1 : rest[n] = unread[k + 1 + n - 1]
    BY <1>b, <2>1, <2>2, SubSeqProperties
  <2>4. Len(unread) - (k + 1) + 1 = Len(unread) - k
    BY <1>1
  <2>5. Len(rest) = Len(unread) - k
    <3>1. CASE k + 1 <= Len(unread)
      BY <2>3, <2>4, <3>1
    <3>2. CASE ~(k + 1 <= Len(unread))
      <4>1. PICK n \in Nat, m \in Nat : n = Len(unread) /\ m = k
        BY <1>1
      <4>2. m <= n /\ ~(m + 1 <= n)
        BY <1>1, <3>2, <4>1
      <4>3. n - m = 0
        BY <4>2
      <4> QED
        BY <2>3, <3>2, <4>1, <4>3
    <3> QED
      BY <3>1, <3>2
  <2>6. ASSUME NEW n \in 1 .. Len(unread) - k PROVE rest[n] = unread[k + n]
    <3>1. k + 1 + n - 1 = k + n
      BY <1>1
    <3>2. rest[n] = unread[k + 1 + n - 1]
      BY <2>3, <2>4
    <3> QED
      BY <3>1, <3>2
  <2> QED
    BY <2>5, <2>6
<1>5. ASSUME NEW n \in 1 .. Len(rest) PROVE rest[n] = <<t, (first + k) + n>>
  <2>1. k + n \in 1 .. Len(unread) /\ n \in 1 .. Len(unread) - k
    BY <1>1, <1>4
  <2>2. first + (k + n) = (first + k) + n
    BY <1>0, <1>1, <1>4
  <2>3. unread[k + n] = <<t, (first + k) + n>>
    BY <1>0, <2>1, <2>2
  <2> QED
    BY <1>4, <2>1, <2>3
<1> QED
  BY <1>2, <1>3, <1>4, <1>5 DEF Numbered

\* All pieces of the page are read ones.
LEMMA ReadMoves ==
  ASSUME NEW page, NEW unread, NEW k, NEW t, NEW got, NEW more, NEW rest,
         Moves(page, unread, k, t, Len(page), got, more, rest), Numbered(page, t, 0)
  PROVE  /\ Len(more) = Len(page) + k /\ Len(rest) = Len(unread) - k
         /\ Numbered(more, t, 0) /\ Numbered(rest, t, Len(more))
<1>1. /\ Len(more) = Len(page) + k /\ Len(rest) = Len(unread) - k
      /\ \A n \in 1 .. Len(more) :
           more[n] = IF n <= Len(page) THEN page[n] ELSE <<t, Len(page) + (n - Len(page))>>
      /\ Numbered(rest, t, Len(page) + k)
  BY PiecesMove
<1>2. Len(page) \in Nat /\ k \in Nat
  BY DEF Moves
<1>3. ASSUME NEW n \in 1 .. Len(more) PROVE more[n] = <<t, 0 + n>>
  <2>1. CASE n <= Len(page)
    BY <1>1, <1>2, <2>1 DEF Numbered
  <2>2. CASE ~(n <= Len(page))
    <3>1. Len(page) + (n - Len(page)) = 0 + n
      BY <1>1, <1>2
    <3> QED
      BY <1>1, <2>2, <3>1
  <2> QED
    BY <2>1, <2>2
<1> QED
  BY <1>1, <1>3 DEF Numbered

\* The page begins with h pieces of the request.
LEMMA LaidMoves ==
  ASSUME NEW page, NEW unread, NEW k, NEW t, NEW h \in Nat, NEW got, NEW more, NEW rest,
         Moves(page, unread, k, t, Len(page) - h, got, more, rest), Laid(page, t, h)
  PROVE  /\ Len(more) = Len(page) + k /\ Len(rest) = Len(unread) - k
         /\ Laid(more, t, h) /\ Numbered(rest, t, Len(more) - h)
<1>1. /\ Len(more) = Len(page) + k /\ Len(rest) = Len(unread) - k
      /\ \A n \in 1 .. Len(more) :
           more[n] = IF n <= Len(page) THEN page[n] ELSE <<t, (Len(page) - h) + (n - Len(page))>>
      /\ Numbered(rest, t, (Len(page) - h) + k)
  BY PiecesMove
<1>2. PICK a \in Nat, b \in Nat : a = Len(page) /\ b = k /\ h <= a /\ Len(more) = a + b
  BY <1>1 DEF Moves, Laid
<1>3. (a - h) + b = (a + b) - h /\ h <= a + b
  BY <1>2
<1>4. ASSUME NEW n \in 1 .. Len(more) PROVE more[n] = PieceAt(t, h, n)
  <2>1. CASE n <= Len(page)
    <3>1. n \in 1 .. Len(page)
      BY <1>2, <2>1
    <3> QED
      BY <1>1, <2>1, <3>1 DEF Laid
  <2>2. CASE ~(n <= Len(page))
    <3>1. (a - h) + (n - a) = n - h /\ ~(n <= h)
      BY <1>2, <2>2
    <3> QED
      BY <1>1, <1>2, <2>2, <3>1 DEF PieceAt
  <2> QED
    BY <2>1, <2>2
<1>5. Numbered(rest, t, Len(more) - h)
  BY <1>1, <1>2, <1>3
<1> QED
  BY <1>1, <1>2, <1>3, <1>4, <1>5 DEF Laid

LEMMA ReadPages ==
  ASSUME IOInv, PageInv, SameCommand, SameReport, NEW i \in Slot, ReadPacket(i)
  PROVE  PageInv'
<1> DEFINE e == table[i]
           w == wire[e.sd]
<1>1. Busy(i) /\ UNCHANGED fate
  BY DEF ReadPacket, Scans, InTransfer
<1>2. PICK k \in ReadSizes(e.sd, Space(i)) :
        /\ wire' = AfterRead(e.sd, k)
        /\ table' = [table EXCEPT ![i].status = "READING_RESPONSE", ![i].buf_size = NewSize(i),
                                  ![i].page = Grown(@, Received(e.sd, k))]
  BY DEF ReadPacket
<1>0. PICK h \in Heads : ReadsBehind(h, e, w, fate[e.ticket].served)
  BY <1>1, SlotFacts
<1>3. /\ e \in EntryRec /\ w \in WireRec /\ e.sd \in FD /\ wire \in [FD -> WireRec]
      /\ table \in [Slot -> EntryRec] /\ e.page \in Seq(Piece)
      /\ w.unread \in Seq(Piece) /\ h \in Nat
      /\ Len(e.page) \in Nat /\ Len(w.unread) \in Nat
      /\ e.buf_size \in BufferSizes /\ e.buf_size \in 1 .. MAX_PAGE_SIZE
  BY <1>1, SlotFacts
<1>4. /\ NewSize(i) \in Nat /\ Space(i) \in Int /\ Space(i) = NewSize(i) - Cursor(i) - 1
  BY SpaceIs DEF IOInv, Types
<1> DEFINE size == NewSize(i)
           got == Received(e.sd, k)
           more == e.page \o got
           rest == SubSeq(w.unread, k + 1, Len(w.unread))
           d == [e EXCEPT !.status = "READING_RESPONSE", !.buf_size = size, !.page = more]
           r == [w EXCEPT !.unread = rest]
<1>5. /\ k \in 1 .. Len(w.unread) /\ k <= Space(i) /\ got \in Seq(Piece) /\ Len(got) = k
      /\ (\A n \in 1 .. k : got[n] = w.unread[n])
      /\ AfterRead(e.sd, k) = [wire EXCEPT ![e.sd].unread = rest]
  <2>1. WireTypes /\ e.sd \in FD /\ Space(i) \in Int
    BY <1>3, <1>4 DEF IOInv, Types
  <2>2. PICK x, n : x = e.sd /\ n = Space(i)
    OBVIOUS
  <2>3. x \in FD /\ n \in Int /\ k \in ReadSizes(x, n)
    BY <2>1, <2>2
  <2>4. /\ k \in 1 .. Len(wire[x].unread) /\ k <= n
        /\ Received(x, k) \in Seq(Piece) /\ Len(Received(x, k)) = k
        /\ \A j \in 1 .. k : Received(x, k)[j] = wire[x].unread[j]
        /\ AfterRead(x, k) = [wire EXCEPT ![x].unread = SubSeq(wire[x].unread, k + 1, Len(wire[x].unread))]
    BY <2>1, <2>3, ReadTypes
  <2> QED
    BY <2>2, <2>4
<1>6. size \in BufferSizes /\ size >= e.buf_size /\ size \in Nat
  <2>1. size = e.buf_size \/ (e.buf_size < MAX_PAGE_SIZE /\ size = 2 * e.buf_size)
    BY DEF NewSize
  <2> HIDE DEF size, e
  <2>2. e.buf_size \in Nat
    BY <1>3
  <2> QED
    BY <1>3, <2>1, <2>2, BufferSizesAre
<1>7. Space(i) = size - Len(e.page) - 1
  BY <1>4 DEF Cursor
<1>8. wire' = [wire EXCEPT ![e.sd] = r]
  BY <1>2, <1>3, <1>5 DEF WireRec
<1>9. table' = [table EXCEPT ![i] = d]
  BY <1>2, <1>3 DEF EntryRec, Grown
<1>10. /\ Len(more) = Len(e.page) + k /\ Len(rest) = Len(w.unread) - k
       /\ Laid(more, e.ticket, h) /\ Numbered(rest, e.ticket, Len(more) - h)
  <2>1. Laid(e.page, e.ticket, h) /\ Numbered(w.unread, e.ticket, Len(e.page) - h)
    <3> HIDE DEF e, w
    <3> QED
      BY <1>0 DEF ReadsBehind
  <2>2. more = e.page \o got /\ rest = SubSeq(w.unread, k + 1, Len(w.unread))
    OBVIOUS
  <2> HIDE DEF e, w, got, more, rest
  <2>3. /\ e.page \in Seq(Piece) /\ w.unread \in Seq(Piece) /\ k \in 1 .. Len(w.unread)
        /\ got \in Seq(Piece) /\ Len(got) = k /\ \A n \in 1 .. k : got[n] = w.unread[n]
    BY <1>3, <1>5
  <2>4. PICK p, u, t, g, m, q : /\ p = e.page /\ u = w.unread /\ t = e.ticket
                                /\ g = got /\ m = more /\ q = rest
    OBVIOUS
  <2>5. /\ p \in Seq(Piece) /\ u \in Seq(Piece) /\ k \in 1 .. Len(u)
        /\ g \in Seq(Piece) /\ Len(g) = k /\ \A n \in 1 .. k : g[n] = u[n]
    BY <2>3, <2>4
  <2>6. Laid(p, t, h) /\ Numbered(u, t, Len(p) - h)
    BY <2>1, <2>4
  <2>7. m = p \o g /\ q = SubSeq(u, k + 1, Len(u))
    BY <2>2, <2>4
  <2>8. /\ Len(m) = Len(p) + k /\ Len(q) = Len(u) - k
        /\ Laid(m, t, h) /\ Numbered(q, t, Len(m) - h)
    <3>1. PICK a \in Nat : a = Len(p) /\ h <= a
      BY <1>3, <2>5, <2>6 DEF Laid
    <3>2. Len(p) - h \in Nat
      BY <1>3, <3>1
    <3>3. Moves(p, u, k, t, Len(p) - h, g, m, q)
      BY <2>5, <2>6, <2>7, <3>2 DEF Moves
    <3> QED
      BY <1>3, <2>6, <3>3, LaidMoves
  <2> QED
    BY <2>4, <2>8
<1> HIDE DEF more, rest, size, got
<1>11. /\ d.page = more /\ d.ticket = e.ticket /\ d.buf_size = size
       /\ d.sd = e.sd /\ d.status = "READING_RESPONSE"
       /\ r.to = w.to /\ r.ticket = w.ticket /\ r.unread = rest
  BY <1>3 DEF WireRec, EntryRec
<1> HIDE DEF r, d
<1>12. /\ table'[i] = d /\ \A j \in Slot : j # i => table'[j] = table[j]
       /\ wire'[e.sd] = r /\ \A x \in FD : x # e.sd => wire'[x] = wire[x]
  BY <1>3, <1>8, <1>9
<1>13. Reads(d, r, fate[e.ticket].served)
  <2> HIDE DEF e, w
  <2>1. k \in Nat /\ e.buf_size \in Nat /\ RequestLen \in Nat
    BY <1>3, <1>5, FetchAssumption
  <2>2. Len(more) < size /\ size >= RequestLen
    <3>1. e.buf_size >= RequestLen
      BY <1>0 DEF ReadsBehind
    <3>2. PICK a \in Nat, n \in Nat, z \in Nat : a = Len(e.page) /\ n = k /\ z = size
      BY <1>3, <1>6, <2>1
    <3>3. n <= z - a - 1 /\ Len(more) = a + n
      BY <1>5, <1>7, <1>10, <3>2
    <3>4. a + n < z
      BY <3>3
    <3>5. Len(more) < size
      BY <3>2, <3>3, <3>4
    <3>6. size >= RequestLen
      BY <1>6, <2>1, <3>1
    <3> QED
      BY <3>5, <3>6
  <2>3. fate[e.ticket].served = Len(more) - h + Len(rest)
    <3>1. fate[e.ticket].served = Len(e.page) - h + Len(w.unread)
      BY <1>0 DEF ReadsBehind
    <3>2. PICK a \in Nat, b \in Nat, n \in Nat, g \in Nat :
            a = Len(e.page) /\ b = Len(w.unread) /\ n = k /\ g = h
      BY <1>3, <2>1
    <3>3. Len(more) = a + n /\ Len(rest) = b - n
      BY <1>10, <3>2
    <3>4. (a + n) - g + (b - n) = a - g + b
      OBVIOUS
    <3> QED
      BY <3>1, <3>2, <3>3, <3>4
  <2>4. w.to = "web" /\ w.ticket = e.ticket
    BY <1>0 DEF ReadsBehind
  <2>5. ReadsBehind(h, d, r, fate[e.ticket].served)
    BY <1>6, <1>10, <1>11, <2>2, <2>3, <2>4 DEF ReadsBehind
  <2> QED
    BY <2>5 DEF Reads
<1>14. SlotPage(i)'
  <2>1. wire'[d.sd] = r /\ fate'[d.ticket].served = fate[e.ticket].served
    BY <1>1, <1>11, <1>12
  <2> QED
    BY <1>12, <1>13, <2>1, SlotReads
<1> QED
  BY <1>1, <1>12, <1>14, TransferPages

-----------------------------------------------------------------------------
(* The servers send and close, connections come up and break, time passes. *)

\* A connection to a Web server belongs to an entry.
LEMMA WebSocketIs ==
  ASSUME IOInv, PageInv, NEW sd \in net.open, wire[sd].to = "web"
  PROVE  \E i \in Slot : Busy(i) /\ table[i].sd = sd
<1>1. sd # main_sd /\ (report_sd # None => sd # report_sd) /\ (request_status # "NONE" => sd # request_sd)
  BY CommAssumption DEF PageInv, OtherEnds
<1>2. sd # None
  BY SocketTypes
<1> QED
  BY <1>1, <1>2 DEF IOInv, Sockets, NoOtherSocket

LEMMA ServerSendsPages ==
  ASSUME IOInv, TicketInv, PageInv, SameCommand, SameReport,
         NEW sd \in net.open, NEW max, ServerSends(sd, max)
  PROVE  PageInv'
<1>1. PICK i \in Slot : Busy(i) /\ table[i].sd = sd
  BY WebSocketIs DEF ServerSends
<1> DEFINE e == table[i]
           w == wire[sd]
<1>2. PICK t : t = e.ticket
  OBVIOUS
<1>3. /\ e \in EntryRec /\ w \in WireRec /\ sd \in FD /\ wire \in [FD -> WireRec]
      /\ w.unread \in Seq(Piece) /\ Len(w.unread) \in Nat /\ Len(e.page) \in Nat /\ w.sent \in Nat
  BY <1>1, <1>2, SlotFacts
<1>0. PICK h \in Heads : ReadsBehind(h, e, w, fate[t].served) /\ h \in Nat
  BY <1>1, <1>2, SlotFacts
<1>4. /\ t \in Ticket /\ t \in 1 .. tickets /\ fate[t].state = "pending" /\ fate[t].rc = "none"
      /\ \A j \in Slot : Busy(j) /\ j # i => table[j].ticket # t
  BY <1>1, <1>2, SlotTicketIs
<1>5. w.ticket = t /\ w.sent = RequestLen
  BY <1>0, <1>2 DEF ReadsBehind, ServerSends
<1> DEFINE n == fate[t].served + 1
           piece == <<t, n>>
           pieces == Append(w.unread, piece)
           r == [w EXCEPT !.unread = pieces]
<1>6. /\ wire' = [wire EXCEPT ![sd] = r] /\ UNCHANGED table
      /\ fate' = [fate EXCEPT ![t].served = n]
  BY <1>3, <1>5 DEF ServerSends
<1>7. /\ fate \in [Ticket -> FateRec] /\ fate[t] \in FateRec /\ n \in Nat /\ piece \in Piece
  <2>1. fate \in [Ticket -> FateRec]
    BY DEF IOInv, Types, FetchTypes
  <2>2. fate[t] \in FateRec
    BY <1>4, <2>1
  <2>3. n \in Nat
    BY <2>2 DEF FateRec
  <2>4. t \in Name
    BY <1>4, FetchAssumption DEF Name, Ticket
  <2> HIDE DEF n
  <2> QED
    BY <2>1, <2>2, <2>3, <2>4 DEF Piece
<1>8. /\ \A u \in Ticket : u # t => fate'[u] = fate[u]
      /\ fate'[t].served = n /\ fate'[t].rc = "none" /\ fate'[t].state = "pending"
  <2> HIDE DEF n
  <2> QED
    BY <1>4, <1>6, <1>7 DEF FateRec
<1>9. /\ Len(pieces) = Len(w.unread) + 1 /\ pieces[Len(w.unread) + 1] = piece
      /\ \A k \in 1 .. Len(w.unread) : pieces[k] = w.unread[k]
  <2> HIDE DEF piece
  <2> QED
    BY <1>3, <1>7, AppendProperties
<1>10. r.to = w.to /\ r.ticket = w.ticket /\ r.sent = w.sent /\ r.unread = pieces
  <2> HIDE DEF pieces
  <2> QED
    BY <1>3 DEF WireRec
<1>11. wire'[sd] = r /\ \A x \in FD : x # sd => wire'[x] = wire[x]
  <2> HIDE DEF r
  <2> QED
    BY <1>3, <1>6
<1>12. Reads(e, r, n)
  <2> HIDE DEF e, w, r, n, pieces
  <2>1. fate[t].served = Len(e.page) - h + Len(w.unread) /\ w.to = "web" /\ h <= Len(e.page)
    BY <1>0 DEF ReadsBehind, Laid
  <2>2. PICK a \in Nat, b \in Nat : a = Len(e.page) - h /\ b = Len(w.unread)
    <3>1. PICK p \in Nat, g \in Nat : p = Len(e.page) /\ g = h /\ g <= p
      BY <1>0, <1>3, <2>1
    <3>2. p - g \in Nat
      BY <3>1
    <3> QED
      BY <1>3, <3>1, <3>2
  <2>3. PICK c \in Nat : c = b + 1 /\ n = a + c /\ Len(pieces) = c
    <3>1. n = (a + b) + 1 /\ Len(pieces) = b + 1
      BY <1>9, <2>1, <2>2 DEF n
    <3>2. (a + b) + 1 = a + (b + 1) /\ b + 1 \in Nat
      OBVIOUS
    <3> QED
      BY <3>1, <3>2
  <2>4. Numbered(pieces, t, a)
    <3> SUFFICES ASSUME NEW k \in 1 .. Len(pieces) PROVE pieces[k] = <<t, a + k>>
      BY DEF Numbered
    <3>1. CASE k \in 1 .. b
      BY <1>0, <1>2, <1>9, <2>2, <3>1 DEF ReadsBehind, Numbered
    <3>2. CASE k = c
      <4>1. a + k = n
        BY <2>3, <3>2
      <4> QED
        BY <1>9, <2>2, <2>3, <3>2, <4>1
    <3> QED
      BY <2>2, <2>3, <3>1, <3>2
  <2>5. e.status \notin {"CONNECTING_TO_SERVER", "SENDING_REQUEST"}
    <3>1. w.sent # h
      <4>1. PICK m \in Nat : m = RequestLen
        BY FetchAssumption
      <4>2. h \in 0 .. m - 1
        BY <4>1 DEF Heads
      <4> QED
        BY <1>5, <4>1, <4>2
    <3> QED
      BY <1>0, <3>1 DEF ReadsBehind
  <2>6. n = Len(e.page) - h + Len(pieces)
    BY <2>2, <2>3
  <2>7. ReadsBehind(h, e, r, n)
    BY <1>0, <1>2, <1>5, <1>10, <2>2, <2>4, <2>5, <2>6 DEF ReadsBehind
  <2> QED
    BY <2>7 DEF Reads
<1>13. OtherEnds'
  <2>1. \A x \in FD \ {sd} : wire'[x].to = wire[x].to
    BY <1>11
  <2> QED
    BY <1>1, <2>1, SlotSocketIs, EndsKept DEF PageInv
<1>14. ASSUME NEW j \in Slot PROVE SlotPage(j)'
  <2>1. CASE j = i
    <3> HIDE DEF n, r
    <3>1. table'[j] = e /\ wire'[e.sd] = r /\ fate'[e.ticket].served = n
      BY <1>1, <1>2, <1>6, <1>8, <1>11, <2>1
    <3> QED
      BY <1>12, <3>1, SlotReads
  <2>2. CASE j # i
    <3>1. Busy(j) => wire'[table[j].sd] = wire[table[j].sd]
      BY <1>1, <1>11, <2>2, SlotSocketIs
    <3>2. Busy(j) => fate'[table[j].ticket].served = fate[table[j].ticket].served
      BY <1>4, <1>8, <2>2, SlotTicketIs
    <3> QED
      BY <1>6, <3>1, <3>2, SlotKept DEF PageInv
  <2> QED
    BY <2>1, <2>2
<1>15. ASSUME NEW u \in Ticket PROVE FatePage(u)'
  <2>1. CASE u = t
    BY <1>8, <2>1 DEF FatePage
  <2>2. CASE u # t
    BY <1>8, <2>2, FateKept DEF PageInv
  <2> QED
    BY <2>1, <2>2
<1> QED
  BY <1>13, <1>14, <1>15 DEF PageInv

\* Steps that touch nothing the pages are made of.
LEMMA SameDataPages ==
  ASSUME IOInv, PageInv, SameCommand, SameReport, UNCHANGED fate,
         \A x \in FD : /\ wire'[x].to = wire[x].to /\ wire'[x].ticket = wire[x].ticket
                       /\ wire'[x].unread = wire[x].unread /\ wire'[x].sent = wire[x].sent,
         \A i \in Slot : /\ table'[i].request_id = table[i].request_id /\ table'[i].sd = table[i].sd
                         /\ table'[i].ticket = table[i].ticket /\ table'[i].page = table[i].page
                         /\ table'[i].status = table[i].status
                         /\ table'[i].buf_size = table[i].buf_size
  PROVE  PageInv'
<1>1. OtherEnds'
  <2>1. PICK none : none = {}
    OBVIOUS
  <2>2. \A x \in FD \ none : wire'[x].to = wire[x].to
    OBVIOUS
  <2>3. OtherEnds /\ main_sd \notin none /\ report_sd \notin none /\ request_sd \notin none
    BY <2>1 DEF PageInv
  <2> QED
    BY <2>2, <2>3, EndsKept
<1>2. ASSUME NEW j \in Slot PROVE SlotPage(j)'
  <2>1. CASE ~Busy(j)
    BY <2>1 DEF SlotPage, Busy
  <2>2. CASE Busy(j)
    <3>1. table[j].sd \in FD /\ SlotPage(j)
      BY <2>2, SocketTypes DEF PageInv
    <3>2. /\ wire'[table[j].sd].to = wire[table[j].sd].to
          /\ wire'[table[j].sd].ticket = wire[table[j].sd].ticket
          /\ wire'[table[j].sd].unread = wire[table[j].sd].unread
          /\ wire'[table[j].sd].sent = wire[table[j].sd].sent
      BY <3>1
    <3>3. Reads(table[j], wire[table[j].sd], fate[table[j].ticket].served)
      BY <2>2, <3>1 DEF SlotPage
    <3>4. PICK r : r = wire'[table[j].sd]
      OBVIOUS
    <3>5. Reads(table'[j], r, fate[table[j].ticket].served)
      BY <3>2, <3>3, <3>4 DEF Reads, ReadsBehind
    <3>6. wire'[table'[j].sd] = r /\ fate'[table'[j].ticket].served = fate[table[j].ticket].served
      BY <3>4
    <3> QED
      BY <3>5, <3>6, SlotReads
  <2> QED
    BY <2>1, <2>2
<1>3. ASSUME NEW t \in Ticket PROVE FatePage(t)'
  BY FateKept DEF PageInv
<1> QED
  BY <1>1, <1>2, <1>3 DEF PageInv

LEMMA OwnSocketsPages ==
  ASSUME PageInv, OtherEnds', SameSlots, UNCHANGED fate,
         \A i \in Slot : Busy(i) => wire'[table[i].sd] = wire[table[i].sd]
  PROVE  PageInv'
<1>1. ASSUME NEW j \in Slot PROVE SlotPage(j)'
  BY SlotKept DEF PageInv, SameSlots
<1>2. ASSUME NEW t \in Ticket PROVE FatePage(t)'
  BY FateKept DEF PageInv
<1> QED
  BY <1>1, <1>2 DEF PageInv

LEMMA QuietPages ==
  ASSUME IOInv, PageInv, SameCommand, SameReport, UNCHANGED <<wire, table, fate>>
  PROVE  PageInv'
BY SameDataPages

LEMMA ConnectionPages ==
  ASSUME IOInv, PageInv, SameCommand, SameReport, UNCHANGED <<table, fate>>, NEW sd,
         ServerCloses(sd) \/ ConnectionUp(sd) \/ ConnectionBreaks(sd)
  PROVE  PageInv'
<1>0. wire \in [FD -> WireRec]
  BY DEF IOInv, Types, WireTypes
<1>1. \/ wire' = [wire EXCEPT ![sd].fin = TRUE]
      \/ wire' = [wire EXCEPT ![sd].state = "up"]
      \/ wire' = [wire EXCEPT ![sd].state = "broken"]
  BY DEF ServerCloses, ConnectionUp, ConnectionBreaks
<1>2. ASSUME NEW x \in FD
      PROVE  /\ wire'[x].to = wire[x].to /\ wire'[x].ticket = wire[x].ticket
             /\ wire'[x].unread = wire[x].unread /\ wire'[x].sent = wire[x].sent
  <2>1. \/ wire'[x] = wire[x] \/ wire'[x] = [wire[x] EXCEPT !.fin = TRUE]
        \/ \E state : wire'[x] = [wire[x] EXCEPT !.state = state]
    BY <1>0, <1>1
  <2>2. wire[x] \in WireRec
    BY <1>0
  <2> QED
    BY <2>1, <2>2 DEF WireRec
<1> QED
  BY <1>2, SameDataPages

LEMMA TickPages ==
  ASSUME IOInv, PageInv, SameCommand, SameReport, Tick
  PROVE  PageInv'
<1>1. \A i \in Slot : table[i] \in EntryRec
  BY EntryTypes DEF IOInv, Types
<1>2. ASSUME NEW i \in Slot
      PROVE  /\ table'[i].request_id = table[i].request_id /\ table'[i].sd = table[i].sd
             /\ table'[i].ticket = table[i].ticket /\ table'[i].page = table[i].page
             /\ table'[i].status = table[i].status
             /\ table'[i].buf_size = table[i].buf_size
  <2>1. PICK age : table'[i] = [table[i] EXCEPT !.age = age] \/ table'[i] = table[i]
    BY DEF Tick
  <2> QED
    BY <1>1, <2>1 DEF EntryRec
<1>3. UNCHANGED <<wire, fate>>
  BY DEF Tick
<1> QED
  BY <1>2, <1>3, SameDataPages

LEMMA AnswerPages ==
  ASSUME IOInv, PageInv, SameSlots, SameReport, UNCHANGED fate, get_request \/ send_response
  PROVE  PageInv'
<1>1. UNCHANGED <<wire, request_sd>> /\ request_status # "NONE"
  BY DEF get_request, send_response
<1>2. OtherEnds'
  BY <1>1 DEF PageInv, OtherEnds, SameReport, main_sd
<1> QED
  BY <1>1, <1>2, OwnSocketsPages

LEMMA EntryPages ==
  ASSUME IOInv, IOInv', TicketInv, PageInv, SameCommand, SameReport, NEW i \in Slot, NEW max,
         ProcessEntry(i, max)
  PROVE  PageInv'
<1>1. CASE SkipFree(i)
  BY <1>1, QuietPages DEF SkipFree, InTransfer
<1>2. CASE SendPacket(i) \/ NotReady(i) \/ ReadPacket(i)
  BY <1>2, SendPages, NotReadyPages, ReadPages
<1>3. CASE TimeOut(i, max) \/ SendFails(i, max) \/ ReadEnds(i, max) \/ ReadFails(i, max)
  <2>1. Busy(i) /\ \E rc \in ReturnCodes : finish_request(i, rc, max) /\ (rc = "OK" => PageDone(i))
    BY <1>3, EndsWithPage DEF TimeOut, SendFails, ReadEnds, ReadFails, Scans, ReturnCodes
  <2>2. PICK rc \in ReturnCodes : finish_request(i, rc, max) /\ (rc = "OK" => PageDone(i))
    BY <2>1
  <2> QED
    BY <2>1, <2>2, FinishKinds, TellPages, TellAskPages
<1> QED
  BY <1>1, <1>2, <1>3 DEF ProcessEntry

-----------------------------------------------------------------------------
(* The invariant of the pages *)

LEMMA NextPages ==
  ASSUME IOInv, TicketInv, PageInv, [Next]_io_vars
  PROVE  PageInv'
<1>0. IOInv' /\ OtherEnds /\ net.open \subseteq FD /\ load.commands \subseteq Command
      /\ load.reports \subseteq Report
  BY NextHolds, SocketTypes, LoadIs DEF PageInv
<1>1. CASE Poll \/ ServerAborts \/ BeginFetch \/ UNCHANGED io_vars
  <2>1. UNCHANGED <<wire, table, fate, command_vars, report_vars>>
    BY <1>1 DEF Poll, ServerAborts, BeginFetch, EofThrows, ProcessBegins, io_vars, comm_vars, fetch_vars
  <2> QED
    BY <2>1, CommandStays, ReportStays, QuietPages
<1>2. CASE ProcessCommand
  <2>1. SameSlots /\ SameReport /\ UNCHANGED fate
    BY <1>2 DEF ProcessCommand, fetch_vars, report_vars, SameSlots, SameReport
  <2>2. CASE CommandPart
    BY <1>0, <2>1, <2>2, CommandEnds, OwnSocketsPages
  <2>3. CASE CommandQuiet
    BY <2>1, <2>3, CommandStays, QuietPages DEF CommandQuiet, SameSlots
  <2> QED
    BY <1>2, <2>2, <2>3 DEF ProcessCommand
<1>3. CASE ProcessReport
  <2>1. SameSlots /\ SameCommand /\ UNCHANGED fate
    BY <1>3, CommandStays DEF ProcessReport, fetch_vars, SameSlots
  <2>2. ReportConnect \/ ConnectFails \/ WriteReport \/ ReportQuiet
    BY <1>3 DEF ProcessReport
  <2> QED
    BY <1>0, <2>1, <2>2, ReportEnds, OwnSocketsPages
<1>4. CASE Scan
  <2>1. UNCHANGED <<command_vars, report_vars>>
    BY <1>4 DEF Scan, comm_vars
  <2> QED
    BY <1>0, <1>4, <2>1, CommandStays, ReportStays, EntryPages DEF Scan
<1>5. CASE GetRequest \/ AnswerCommand
  <2>1. SameSlots /\ SameReport /\ UNCHANGED fate
    BY <1>5 DEF GetRequest, AnswerCommand, fetch_vars, report_vars, SameSlots, SameReport
  <2>2. CASE get_request \/ send_response
    BY <2>1, <2>2, AnswerPages
  <2>3. CASE UNCHANGED <<net, wire, command_vars>>
    BY <2>1, <2>3, CommandStays, QuietPages DEF SameSlots
  <2> QED
    BY <1>5, <2>2, <2>3 DEF GetRequest, AnswerCommand
<1>6. CASE SelectQueue
  <2>1. CASE UNCHANGED comm_vars
    <3>1. SameCommand /\ SameReport
      BY <2>1, CommandStays, ReportStays DEF comm_vars
    <3>2. CASE request_page(load.pages)
      BY <1>0, <3>1, <3>2, SubmitKinds, AskPages
    <3>3. CASE \E i \in Slot : Busy(i) /\ cancel_request(table[i].request_id)
      BY <3>1, <3>3, CancelKinds, DropPages
    <3>4. CASE UNCHANGED <<wire, fetch_vars>>
      BY <3>1, <3>4, QuietPages DEF fetch_vars
    <3>5. CASE (\E r \in load.reports : send_report(r)) /\ UNCHANGED <<now, command_vars, fetch_vars>>
      <4>1. SameSlots /\ SameCommand /\ UNCHANGED fate
        BY <3>5, CommandStays DEF fetch_vars, SameSlots
      <4> QED
        BY <1>0, <3>5, <4>1, ReportEnds, OwnSocketsPages
    <3> QED
      BY <1>6, <3>2, <3>3, <3>4, <3>5 DEF SelectQueue
  <2>2. CASE (\E r \in load.reports : send_report(r)) /\ UNCHANGED <<now, command_vars, fetch_vars>>
    <3>1. SameSlots /\ SameCommand /\ UNCHANGED fate
      BY <2>2, CommandStays DEF fetch_vars, SameSlots
    <3> QED
      BY <1>0, <2>2, <3>1, ReportEnds, OwnSocketsPages
  <2> QED
    BY <1>6, <2>1, <2>2 DEF SelectQueue
<1>7. CASE ClientActs
  <2>1. SameSlots /\ SameReport /\ UNCHANGED fate
    BY <1>7 DEF ClientActs, fetch_vars, report_vars, SameSlots, SameReport
  <2>2. PICK c \in Command : ClientConnects(c) \/ ClientSends(c) \/ ClientCloses(c)
    BY <1>0, <1>7 DEF ClientActs
  <2> QED
    BY <2>1, <2>2, ClientEnds, OwnSocketsPages
<1>8. CASE ServerActs \/ Connects \/ Breaks
  <2>1. SameCommand /\ SameReport
    BY <1>8, CommandStays, ReportStays DEF ServerActs, Connects, Breaks, comm_vars
  <2>2. CASE \E sd \in net.open : ServerSends(sd, load.answers)
    BY <2>1, <2>2, ServerSendsPages
  <2>3. CASE \E sd : ServerCloses(sd) /\ UNCHANGED fetch_vars
    BY <2>1, <2>3, ConnectionPages DEF fetch_vars
  <2>4. CASE (\E sd : ConnectionUp(sd) \/ ConnectionBreaks(sd)) /\ UNCHANGED fetch_vars
    BY <2>1, <2>4, ConnectionPages DEF fetch_vars
  <2> QED
    BY <1>8, <2>2, <2>3, <2>4 DEF ServerActs, Connects, Breaks, ServerCloses
<1>9. CASE TimePasses
  <2>1. SameCommand /\ SameReport /\ Tick
    BY <1>9, CommandStays, ReportStays DEF TimePasses, comm_vars
  <2> QED
    BY <2>1, TickPages
<1> QED
  BY <1>1, <1>2, <1>3, <1>4, <1>5, <1>6, <1>7, <1>8, <1>9 DEF Next, Loop, Peers

LEMMA InitPages == Init => PageInv
<1> SUFFICES ASSUME Init PROVE PageInv
  OBVIOUS
<1>1. \A i \in Slot : SlotPage(i)
  BY DEF Init, FetchInit, Busy, FreeSlot, SlotPage
<1>2. \A t \in Ticket : FatePage(t)
  BY DEF Init, FetchInit, FatePage, NoFate
<1>3. request_status = "NONE" /\ report_sd = None
  BY DEF Init, CommInit
<1>4. wire[main_sd].to = "listen"
  <2>1. main_sd \in FD
    BY NetAssumption DEF FD, main_sd
  <2> QED
    BY <2>1 DEF Init, NetInit, Fresh, Closed
<1> QED
  BY <1>1, <1>2, <1>3, <1>4 DEF PageInv, OtherEnds

LEMMA PagesAreAnswers ==
  ASSUME IOInv, PageInv
  PROVE  PageEndsInAnswer
<1> SUFFICES ASSUME NEW t \in Ticket, fate[t].rc = "OK", NEW p, p = fate[t].page,
                    NEW n, n = Len(p)
             PROVE  \E h \in 0 .. RequestLen - 1 :
                      /\ h <= n
                      /\ p = [k \in 1 .. n |-> IF k <= h THEN <<t, -k>> ELSE <<t, k - h>>]
                      /\ n - h < fate[t].served => n = MAX_PAGE_SIZE - 1
  BY DEF PageEndsInAnswer
<1>1. PICK h \in Heads : Laid(p, t, h) /\ (n - h < fate[t].served => n = MAX_PAGE_SIZE - 1)
  BY DEF PageInv, FatePage
<1>2. p \in Seq(Piece)
  BY DEF IOInv, Types, FetchTypes, FateRec
<1>3. p = [k \in 1 .. n |-> p[k]]
  BY <1>2
<1>4. p = [k \in 1 .. n |-> PieceAt(t, h, k)]
  BY <1>1, <1>3 DEF Laid
<1> QED
  BY <1>1, <1>4 DEF Laid, Heads, PieceAt

\* The page a callback gets with code 0 is the pieces that were sent of its request before
\* the last write, and then what its server sent, from the first piece on and without a
\* gap, and it lacks only what a full buffer had no room for, whatever other requests,
\* commands and reports the server has meanwhile (send_packet, read_packet and
\* finish_request of fetch.cc).
THEOREM PageExact == Spec => []PageEndsInAnswer
<1>1. Init => IOInv /\ TicketInv /\ PageInv
  BY InitHolds, InitTickets, InitPages
<1>2. (IOInv /\ TicketInv /\ PageInv) /\ [Next]_io_vars => (IOInv /\ TicketInv /\ PageInv)'
  BY NextHolds, NextTickets, NextPages
<1>3. IOInv /\ PageInv => PageEndsInAnswer
  BY PagesAreAnswers
<1> QED
  BY <1>1, <1>2, <1>3, PTL DEF Spec

-----------------------------------------------------------------------------
(* Time *)

\* An entry was made d ticks ago.
MadeAgo(i, d) ==
  /\ now = Wrap(table[i].start_time + d) /\ d <= ticks
  /\ table[i].age = IF d <= MAX_WAIT THEN d ELSE MAX_WAIT + 1
Made(i) == Busy(i) => \E d \in Nat : MadeAgo(i, d)
PassTime ==
  pc = "scan" => scan \in Slot /\ started.now = now /\ started.kill_before = Wrap(now - MAX_WAIT)
FateTime(t) == fate[t].rc = "TIMEOUT" => fate[t].age > MAX_WAIT \/ JustWrapped(fate[t].at)
ClockInv ==
  /\ ticks \in 0 .. load.ticks
  /\ \A i \in Slot : Made(i)
  /\ PassTime
  /\ \A t \in Ticket : FateTime(t)

LEMMA WrapIs ==
  ASSUME NEW t \in Int
  PROVE  /\ -HalfRange <= t /\ t < HalfRange => Wrap(t) = t
         /\ HalfRange <= t /\ t < 3 * HalfRange => Wrap(t) = t - 2 * HalfRange
         /\ -3 * HalfRange <= t /\ t < -HalfRange => Wrap(t) = t + 2 * HalfRange
<1> DEFINE turn == 2 * HalfRange
<1>1. HalfRange \in Nat /\ turn \in Nat \ {0}
  BY NetAssumption
<1>2. CASE -HalfRange <= t /\ t < HalfRange
  <2>1. t + HalfRange \in 0 .. turn - 1 /\ turn * 0 + (t + HalfRange) = t + HalfRange
    BY <1>1, <1>2
  <2>2. (t + HalfRange) % turn = t + HalfRange
    <3> HIDE DEF turn
    <3> QED
      BY <1>1, <2>1, Remainder
  <2> QED
    BY <1>1, <1>2, <2>2 DEF Wrap
<1>3. CASE HalfRange <= t /\ t < 3 * HalfRange
  <2>1. t - HalfRange \in 0 .. turn - 1 /\ turn * 1 + (t - HalfRange) = t + HalfRange
    BY <1>1, <1>3
  <2>2. (t + HalfRange) % turn = t - HalfRange
    <3> HIDE DEF turn
    <3> QED
      BY <1>1, <2>1, Remainder
  <2> QED
    BY <1>1, <1>3, <2>2 DEF Wrap
<1>4. CASE -3 * HalfRange <= t /\ t < -HalfRange
  <2>1. t + 3 * HalfRange \in 0 .. turn - 1 /\ turn * (-1) + (t + 3 * HalfRange) = t + HalfRange
    BY <1>1, <1>4
  <2>2. (t + HalfRange) % turn = t + 3 * HalfRange
    <3> HIDE DEF turn
    <3> QED
      BY <1>1, <2>1, Remainder
  <2> QED
    BY <1>1, <1>4, <2>2 DEF Wrap
<1> QED
  BY <1>1, <1>2, <1>3, <1>4

\* A wrapped time goes on as if it had not wrapped.
LEMMA WrapAgain ==
  ASSUME NEW t \in Int
  PROVE  Wrap(Wrap(t) + 1) = Wrap(t + 1)
<1> DEFINE turn == 2 * HalfRange
           q == (t + HalfRange) \div turn
           r == (t + HalfRange) % turn
<1>1. HalfRange \in Nat /\ turn \in Nat \ {0} /\ t + HalfRange \in Int
  BY NetAssumption
<1>2. q \in Int /\ r \in Int /\ t + HalfRange = turn * q + r
  <2>1. PICK a \in Int : a = t + HalfRange
    BY <1>1
  <2>2. a \div turn \in Int /\ a % turn \in 0 .. turn - 1 /\ a = turn * (a \div turn) + (a % turn)
    <3> HIDE DEF turn
    <3> QED
      BY <1>1, Division
  <2> QED
    BY <1>1, <2>1, <2>2
<1>3. Wrap(t) = r - HalfRange
  BY DEF Wrap
<1> HIDE DEF q, r
<1>4. (Wrap(t) + 1) + HalfRange = r + 1
  BY <1>1, <1>2, <1>3
<1>5. (t + 1) + HalfRange = turn * q + (r + 1)
  <2>1. PICK a \in Int : a = turn * q
    BY <1>1, <1>2
  <2>2. t + HalfRange = a + r
    BY <1>2, <2>1
  <2>3. (t + 1) + HalfRange = a + (r + 1)
    BY <1>1, <1>2, <2>2
  <2> QED
    BY <2>1, <2>3
<1>6. (turn * q + (r + 1)) % turn = (r + 1) % turn
  <2>1. r + 1 \in Int
    BY <1>2
  <2> HIDE DEF turn
  <2> QED
    BY <1>1, <1>2, <2>1, AddMultiple
<1>7. ((Wrap(t) + 1) + HalfRange) % turn = ((t + 1) + HalfRange) % turn
  BY <1>4, <1>5, <1>6
<1>8. Wrap(Wrap(t) + 1) = (((Wrap(t) + 1) + HalfRange) % turn) - HalfRange
  BY DEF Wrap
<1>9. Wrap(t + 1) = (((t + 1) + HalfRange) % turn) - HalfRange
  BY DEF Wrap
<1> QED
  BY <1>7, <1>8, <1>9

\* What is found too old is, unless the counter has just wrapped around; and what is not,
\* is not, unless it was made before the counter wrapped or a full turn ago.
LEMMA LateIsOld ==
  ASSUME NEW s \in Ticks, NEW n \in Ticks, NEW d \in Nat, n = Wrap(s + d),
         s < Wrap(n - MAX_WAIT), ~JustWrapped(n)
  PROVE  d > MAX_WAIT
<1>1. /\ HalfRange \in Nat \ {0} /\ MAX_WAIT \in Nat /\ MAX_WAIT < HalfRange
      /\ s \in Int /\ n \in Int /\ -HalfRange <= s /\ s < HalfRange /\ -HalfRange <= n /\ n < HalfRange
  BY NetAssumption, FetchAssumption DEF Ticks
<1>2. Wrap(n - MAX_WAIT) = n - MAX_WAIT
  <2>1. n - MAX_WAIT \in Int /\ -HalfRange <= n - MAX_WAIT /\ n - MAX_WAIT < HalfRange
    BY <1>1 DEF JustWrapped
  <2> QED
    BY <2>1, WrapIs
<1>3. SUFFICES ASSUME d <= MAX_WAIT PROVE FALSE
  BY <1>1
<1>4. s + d \in Int /\ -HalfRange <= s + d /\ s + d < 3 * HalfRange
  BY <1>1, <1>3
<1>5. n = s + d \/ n = s + d - 2 * HalfRange
  BY <1>1, <1>4, WrapIs
<1> QED
  BY <1>1, <1>2, <1>3, <1>5

LEMMA InTimeIsYoung ==
  ASSUME NEW s \in Ticks, NEW n \in Ticks, NEW d \in Nat, d < 2 * HalfRange, n = Wrap(s + d),
         s <= n, ~(s < Wrap(n - MAX_WAIT))
  PROVE  d <= MAX_WAIT
<1>1. /\ HalfRange \in Nat \ {0} /\ MAX_WAIT \in Nat /\ MAX_WAIT < HalfRange
      /\ s \in Int /\ n \in Int /\ -HalfRange <= s /\ s < HalfRange /\ -HalfRange <= n /\ n < HalfRange
  BY NetAssumption, FetchAssumption DEF Ticks
<1>2. n - MAX_WAIT \in Int /\ -3 * HalfRange <= n - MAX_WAIT /\ n - MAX_WAIT < HalfRange
  BY <1>1
<1>3. Wrap(n - MAX_WAIT) = n - MAX_WAIT
  <2>1. CASE n - MAX_WAIT < -HalfRange
    <3>1. Wrap(n - MAX_WAIT) = (n - MAX_WAIT) + 2 * HalfRange
      BY <1>2, <2>1, WrapIs
    <3> QED
      BY <1>1, <3>1
  <2>2. CASE ~(n - MAX_WAIT < -HalfRange)
    BY <1>1, <1>2, <2>2, WrapIs
  <2> QED
    BY <2>1, <2>2
<1>4. s + d \in Int /\ -HalfRange <= s + d /\ s + d < 3 * HalfRange
  BY <1>1
<1>5. n = s + d \/ n = s + d - 2 * HalfRange
  BY <1>1, <1>4, WrapIs
<1> QED
  BY <1>1, <1>3, <1>5

-----------------------------------------------------------------------------
(* What the steps do to the times: an entry is new or keeps its time, and the outcome of a *)
(* request is that of the entry.                                                           *)

SameTime(i) ==
  Busy(i) /\ table'[i].start_time = table[i].start_time /\ table'[i].age = table[i].age
EntryTimes ==
  \A i \in Slot : Busy(i)' => SameTime(i) \/ (table'[i].start_time = now /\ table'[i].age = 0)
SameFateTime(t) ==
  fate'[t].rc = fate[t].rc /\ fate'[t].age = fate[t].age /\ fate'[t].at = fate[t].at
FateTimes(i, rc) ==
  \A t \in Ticket :
    \/ SameFateTime(t)
    \/ fate'[t].rc = rc /\ fate'[t].age = table[i].age /\ fate'[t].at = started.now

LEMMA NowIs == ASSUME IOInv PROVE get_time(0) = now /\ now \in Ticks /\ now \in Int
<1>1. now \in Ticks /\ now \in Int /\ -HalfRange <= now /\ now < HalfRange
  BY NetAssumption DEF IOInv, Types, LoopTypes, Ticks
<1>2. now + 0 = now
  BY <1>1
<1> QED
  BY <1>1, <1>2, WrapIs DEF get_time

LEMMA AskTimes ==
  ASSUME IOInv, NEW s, NEW sd, NEW id, Asks(s, sd, id)
  PROVE  EntryTimes /\ \A t \in Ticket : SameFateTime(t)
<1>1. s \in Slot /\ OnlySlot(s, Entry(id, sd, tickets + 1))
  BY DEF Asks, Submits, OnlySlot
<1>2. table'[s] = Entry(id, sd, tickets + 1) /\ \A j \in Slot : j # s => table'[j] = table[j]
  BY <1>1, TableIs
<1>3. table'[s].start_time = now /\ table'[s].age = 0
  BY <1>2, NewEntryIs, NowIs
<1>4. fate' = [fate EXCEPT ![tickets + 1].state = "pending"] /\ fate \in [Ticket -> FateRec]
  BY DEF Asks, IOInv, Types, FetchTypes
<1>5. \A t \in Ticket : SameFateTime(t)
  BY <1>4, StateSet DEF SameFateTime
<1> QED
  BY <1>2, <1>3, <1>5 DEF EntryTimes, SameTime, Busy

LEMMA FreeTimes ==
  ASSUME IOInv, NEW i, Frees(i)
  PROVE  EntryTimes /\ ~Busy(i)'
<1>1. i \in Slot /\ OnlySlot(i, FreeSlot)
  BY DEF Frees, OnlySlot
<1>2. table'[i] = FreeSlot /\ \A j \in Slot : j # i => table'[j] = table[j]
  BY <1>1, TableIs
<1>3. ~Busy(i)'
  BY <1>2 DEF Busy, FreeSlot
<1> QED
  BY <1>2, <1>3 DEF EntryTimes, SameTime, Busy

LEMMA ToldTimes ==
  ASSUME IOInv, NEW i \in Slot, NEW rc, NEW told, told = Told(i, rc)
  PROVE  \A t \in Ticket :
           \/ told[t] = fate[t]
           \/ told[t].rc = rc /\ told[t].age = table[i].age /\ told[t].at = started.now
<1>1. \A t \in Ticket : fate[t] \in FateRec
  BY DEF IOInv, Types, FetchTypes
<1> QED
  BY <1>1, ToldIs, OutcomeIs

LEMMA DropTimes ==
  ASSUME IOInv, NEW i, Drops(i)
  PROVE  EntryTimes /\ \A t \in Ticket : SameFateTime(t)
<1>1. PICK u : fate' = [fate EXCEPT ![u].state = "cancelled"]
  BY DEF Drops
<1>2. \A t \in Ticket : SameFateTime(t)
  BY <1>1, StateSet DEF SameFateTime, IOInv, Types, FetchTypes
<1> QED
  BY <1>2, FreeTimes DEF Drops

LEMMA TellTimes ==
  ASSUME IOInv, NEW i, NEW rc, Tells(i, rc)
  PROVE  EntryTimes /\ ~Busy(i)' /\ FateTimes(i, rc)
<1>1. i \in Slot /\ Frees(i) /\ fate' = Told(i, rc)
  BY DEF Tells, Frees, OnlySlot
<1>2. FateTimes(i, rc)
  BY <1>1, ToldTimes DEF FateTimes, SameFateTime
<1> QED
  BY <1>1, <1>2, FreeTimes

LEMMA TellAskTimes ==
  ASSUME IOInv, NEW i, NEW rc \in ReturnCodes, NEW s, NEW sd, NEW id, TellsAndAsks(i, rc, s, sd, id)
  PROVE  EntryTimes /\ ~Busy(i)' /\ FateTimes(i, rc)
<1>1. PICK u, told : u = tickets + 1 /\ told = Told(i, rc)
  OBVIOUS
<1>2. /\ i \in Slot /\ s \in Slot /\ s # i
      /\ table' = [table EXCEPT ![s] = Entry(id, sd, u), ![i] = FreeSlot]
      /\ fate' = [told EXCEPT ![u].state = "pending"]
  BY <1>1 DEF TellsAndAsks, Replaces
<1>3. /\ table'[s] = Entry(id, sd, u) /\ table'[i] = FreeSlot
      /\ \A j \in Slot : j # s /\ j # i => table'[j] = table[j]
  BY <1>2 DEF IOInv, Types, FetchTypes
<1>4. table'[s].start_time = now /\ table'[s].age = 0 /\ ~Busy(i)'
  BY <1>3, NewEntryIs, NowIs DEF Busy
<1>5. told \in [Ticket -> FateRec]
  BY <1>1, <1>2, ToldTypes DEF IOInv, Types, ReturnCodes
<1>6. \A t \in Ticket : fate'[t].rc = told[t].rc /\ fate'[t].age = told[t].age /\ fate'[t].at = told[t].at
  BY <1>2, <1>5, StateSet
<1>7. FateTimes(i, rc)
  BY <1>1, <1>2, <1>6, ToldTimes DEF FateTimes, SameFateTime
<1> QED
  BY <1>3, <1>4, <1>7 DEF EntryTimes, SameTime, Busy

\* Only entry i changes, and not in its times.
KeepsTimes(i) ==
  /\ \A j \in Slot : j # i => table'[j] = table[j]
  /\ table'[i].request_id = table[i].request_id
  /\ table'[i].start_time = table[i].start_time /\ table'[i].age = table[i].age

LEMMA KeptTimes ==
  ASSUME NEW i \in Slot, KeepsTimes(i)
  PROVE  EntryTimes /\ (Busy(i)' => SameTime(i))
BY DEF KeepsTimes, EntryTimes, SameTime, Busy

LEMMA TransferKeepsTimes ==
  ASSUME IOInv, NEW i \in Slot, SendPacket(i) \/ NotReady(i) \/ ReadPacket(i) \/ SkipFree(i)
  PROVE  KeepsTimes(i)
<1>2. table \in [Slot -> EntryRec] /\ table[i] \in EntryRec
  BY DEF IOInv, Types, FetchTypes
<1>3. ASSUME UNCHANGED table PROVE KeepsTimes(i)
  BY <1>3 DEF KeepsTimes
<1>4. ASSUME NEW status, table' = [table EXCEPT ![i].status = status] PROVE KeepsTimes(i)
  BY <1>2, <1>4 DEF EntryRec, KeepsTimes
<1>5. CASE SendPacket(i)
  <2>1. PICK s : \/ table' = [table EXCEPT ![i].status = "SENDING_REQUEST", ![i].page = @ \o s]
                 \/ table' = [table EXCEPT ![i].status = "WAITING_FOR_RESPONSE"]
    BY <1>5 DEF SendPacket
  <2>2. CASE table' = [table EXCEPT ![i].status = "SENDING_REQUEST", ![i].page = @ \o s]
    BY <1>2, <2>2 DEF EntryRec, KeepsTimes
  <2> QED
    BY <1>4, <2>1, <2>2
<1>6. CASE ReadPacket(i)
  <2>1. PICK k : table' = [table EXCEPT ![i].status = "READING_RESPONSE", ![i].buf_size = NewSize(i),
                                        ![i].page = Grown(@, Received(table[i].sd, k))]
    BY <1>6 DEF ReadPacket
  <2> DEFINE size == NewSize(i)
             page == Grown(table[i].page, Received(table[i].sd, k))
  <2>2. table' = [table EXCEPT ![i] = [table[i] EXCEPT !.status = "READING_RESPONSE",
                                                       !.buf_size = size, !.page = page]]
    BY <1>2, <2>1
  <2> HIDE DEF size, page
  <2> QED
    BY <1>2, <2>2 DEF EntryRec, KeepsTimes
<1>7. CASE NotReady(i)
  BY <1>3, <1>4, <1>7 DEF NotReady
<1> QED
  BY <1>3, <1>5, <1>6, <1>7 DEF SkipFree

LEMMA TransferTimes ==
  ASSUME IOInv, NEW i \in Slot, SendPacket(i) \/ NotReady(i) \/ ReadPacket(i) \/ SkipFree(i)
  PROVE  EntryTimes /\ (Busy(i)' => SameTime(i)) /\ UNCHANGED <<fate, started>>
<1>1. UNCHANGED <<fate, started>>
  BY DEF SendPacket, NotReady, ReadPacket, SkipFree, InTransfer
<1> QED
  BY <1>1, KeptTimes, TransferKeepsTimes

-----------------------------------------------------------------------------
(* The invariant of the times *)

LEMMA FinishTimes ==
  ASSUME IOInv, NEW i \in Slot, Busy(i), NEW rc \in ReturnCodes, NEW max,
         finish_request(i, rc, max)
  PROVE  EntryTimes /\ ~Busy(i)' /\ FateTimes(i, rc) /\ UNCHANGED started
<1>1. UNCHANGED started
  BY DEF finish_request
<1>2. Tells(i, rc) \/ \E s, sd, id : TellsAndAsks(i, rc, s, sd, id)
  BY FinishKinds
<1> QED
  BY <1>1, <1>2, TellTimes, TellAskTimes

\* What the look at an entry does to the times.
TimesLookedAt(i) ==
  /\ scan = i /\ NextEntry /\ EntryTimes /\ UNCHANGED started
  /\ Busy(i)' => ~TooOld(i) /\ SameTime(i)
  /\ \/ \A t \in Ticket : SameFateTime(t)
     \/ \E rc \in ReturnCodes : /\ FateTimes(i, rc) /\ Busy(i)
                                /\ rc = "TIMEOUT" => TooOld(i)

LEMMA EntryScans ==
  ASSUME IOInv, NEW i \in Slot, NEW max, ProcessEntry(i, max)
  PROVE  TimesLookedAt(i)
<1>1. CASE SkipFree(i) \/ SendPacket(i) \/ NotReady(i) \/ ReadPacket(i)
  <2>1. EntryTimes /\ (Busy(i)' => SameTime(i)) /\ UNCHANGED <<fate, started>>
    BY <1>1, TransferTimes
  <2>2. scan = i /\ NextEntry /\ (Busy(i) => ~TooOld(i))
    BY <1>1 DEF SkipFree, SendPacket, NotReady, ReadPacket, Scans
  <2>3. \A t \in Ticket : SameFateTime(t)
    BY <2>1 DEF SameFateTime
  <2> QED
    BY <2>1, <2>2, <2>3 DEF TimesLookedAt, SameTime
<1>2. CASE TimeOut(i, max) \/ SendFails(i, max) \/ ReadEnds(i, max) \/ ReadFails(i, max)
  <2>1. /\ scan = i /\ NextEntry /\ Busy(i)
        /\ \E rc \in ReturnCodes : finish_request(i, rc, max) /\ (rc = "TIMEOUT" => TooOld(i))
    BY <1>2 DEF TimeOut, SendFails, ReadEnds, ReadFails, Scans, ReturnCodes
  <2>2. PICK rc \in ReturnCodes : finish_request(i, rc, max) /\ (rc = "TIMEOUT" => TooOld(i))
    BY <2>1
  <2>3. EntryTimes /\ ~Busy(i)' /\ FateTimes(i, rc) /\ UNCHANGED started
    BY <2>1, <2>2, FinishTimes
  <2> QED
    BY <2>1, <2>2, <2>3 DEF TimesLookedAt
<1> QED
  BY <1>1, <1>2 DEF ProcessEntry

\* While the clock stands, an entry is as old as it was; a new one was made now.
LEMMA SlotsKeepTime ==
  ASSUME IOInv, \A i \in Slot : Made(i), EntryTimes, UNCHANGED <<now, ticks>>
  PROVE  \A i \in Slot : Made(i)'
<1> SUFFICES ASSUME NEW i \in Slot, Busy(i)' PROVE \E d \in Nat : MadeAgo(i, d)'
  BY DEF Made
<1>1. CASE SameTime(i)
  <2>1. PICK d \in Nat : MadeAgo(i, d)
    BY <1>1 DEF Made, SameTime
  <2>2. MadeAgo(i, d)'
    BY <1>1, <2>1 DEF MadeAgo, SameTime
  <2> QED
    BY <2>2
<1>2. CASE table'[i].start_time = now /\ table'[i].age = 0
  <2>1. now = Wrap(now + 0) /\ ticks \in Nat /\ MAX_WAIT \in Nat
    BY NowIs, FetchAssumption DEF get_time, IOInv, Types, LoopTypes
  <2>2. MadeAgo(i, 0)'
    BY <1>2, <2>1 DEF MadeAgo
  <2> QED
    BY <2>2
<1> QED
  BY <1>1, <1>2 DEF EntryTimes

\* A tick makes every entry a tick older.
LEMMA SlotsGrowOld ==
  ASSUME IOInv, \A i \in Slot : Made(i), Tick, ticks' = ticks + 1
  PROVE  \A i \in Slot : Made(i)'
<1> SUFFICES ASSUME NEW i \in Slot, Busy(i)' PROVE \E d \in Nat : MadeAgo(i, d)'
  BY DEF Made
<1>1. table[i] \in EntryRec /\ ticks \in Nat /\ MAX_WAIT \in Nat
  BY FetchAssumption DEF IOInv, Types, FetchTypes, LoopTypes
<1>2. PICK s \in Int, age \in Nat : s = table[i].start_time /\ age = table[i].age
  BY <1>1, NetAssumption DEF EntryRec, Ticks
<1>3. table'[i] = IF Busy(i) THEN [table[i] EXCEPT !.age = Min({@ + 1, MAX_WAIT + 1})] ELSE table[i]
  BY DEF Tick
<1>4. Busy(i)
  BY <1>3 DEF Busy
<1>5. /\ table'[i].start_time = s
      /\ table'[i].age = IF age + 1 <= MAX_WAIT + 1 THEN age + 1 ELSE MAX_WAIT + 1
  <2> DEFINE older == Min({age + 1, MAX_WAIT + 1})
  <2>1. table'[i] = [table[i] EXCEPT !.age = older]
    BY <1>2, <1>3, <1>4
  <2>2. older = IF age + 1 <= MAX_WAIT + 1 THEN age + 1 ELSE MAX_WAIT + 1
    <3>1. age + 1 \in Int /\ MAX_WAIT + 1 \in Int
      BY <1>1, <1>2
    <3> QED
      BY <3>1, MinOfTwo
  <2> HIDE DEF older
  <2>3. table'[i].start_time = table[i].start_time /\ table'[i].age = older
    BY <1>1, <2>1 DEF EntryRec
  <2> QED
    BY <1>2, <2>2, <2>3
<1>6. PICK d \in Nat : MadeAgo(i, d)
  BY <1>4 DEF Made
<1>7. now' = Wrap(s + (d + 1))
  <2>1. s + d \in Int /\ (s + d) + 1 = s + (d + 1)
    BY <1>2, <1>6
  <2>2. now = Wrap(s + d) /\ now' = Wrap(now + 1)
    BY <1>2, <1>6 DEF MadeAgo, Tick
  <2>3. Wrap(Wrap(s + d) + 1) = Wrap((s + d) + 1)
    BY <2>1, WrapAgain
  <2> QED
    BY <2>1, <2>2, <2>3
<1>8. d + 1 <= ticks' /\ d + 1 \in Nat
  BY <1>1, <1>6 DEF MadeAgo
<1>9. table'[i].age = IF d + 1 <= MAX_WAIT THEN d + 1 ELSE MAX_WAIT + 1
  <2>1. age = IF d <= MAX_WAIT THEN d ELSE MAX_WAIT + 1
    BY <1>2, <1>6 DEF MadeAgo
  <2> QED
    BY <1>1, <1>2, <1>5, <2>1
<1>10. MadeAgo(i, d + 1)'
  BY <1>5, <1>7, <1>8, <1>9 DEF MadeAgo
<1> QED
  BY <1>8, <1>10

\* Nothing younger than MAX_WAIT is told that it timed out, unless the counter has just wrapped.
LEMMA FatesToldInTime ==
  ASSUME IOInv, ClockInv, pc = "scan", NEW i \in Slot, TimesLookedAt(i)
  PROVE  \A t \in Ticket : FateTime(t)'
<1> SUFFICES ASSUME NEW t \in Ticket PROVE FateTime(t)'
  OBVIOUS
<1>1. FateTime(t) /\ Made(i) /\ PassTime
  BY DEF ClockInv
<1>2. CASE SameFateTime(t)
  BY <1>1, <1>2 DEF FateTime, SameFateTime, JustWrapped
<1>3. CASE /\ ~SameFateTime(t) /\ Busy(i) /\ TooOld(i)
           /\ fate'[t].age = table[i].age /\ fate'[t].at = started.now
  <2>1. PICK d \in Nat : MadeAgo(i, d)
    BY <1>1, <1>3 DEF Made
  <2>2. PICK s \in Ticks, n \in Ticks : s = table[i].start_time /\ n = now
    BY DEF IOInv, Types, FetchTypes, LoopTypes, EntryRec
  <2>3. n = Wrap(s + d) /\ s < Wrap(n - MAX_WAIT) /\ fate'[t].at = n
    BY <1>1, <1>3, <2>1, <2>2 DEF PassTime, MadeAgo, TooOld
  <2>4. d > MAX_WAIT \/ JustWrapped(n)
    BY <2>3, LateIsOld
  <2>5. CASE d > MAX_WAIT
    <3>1. ~(d <= MAX_WAIT) /\ MAX_WAIT + 1 > MAX_WAIT
      BY <2>5, FetchAssumption
    <3>2. fate'[t].age = MAX_WAIT + 1
      BY <1>3, <2>1, <3>1 DEF MadeAgo
    <3> QED
      BY <3>1, <3>2 DEF FateTime
  <2> QED
    BY <2>3, <2>4, <2>5 DEF FateTime, JustWrapped
<1>4. CASE ~SameFateTime(t) /\ \E rc \in ReturnCodes \ {"TIMEOUT"} : fate'[t].rc = rc
  BY <1>4 DEF FateTime
<1> QED
  BY <1>2, <1>3, <1>4 DEF TimesLookedAt, FateTimes

\* Most steps let the clock stand and are not a look at an entry.
LEMMA ClockKept ==
  ASSUME IOInv, ClockInv, UNCHANGED <<now, ticks, load>>, EntryTimes,
         \A t \in Ticket : SameFateTime(t), pc' # "scan"
  PROVE  ClockInv'
<1>1. \A i \in Slot : Made(i)'
  BY SlotsKeepTime DEF ClockInv
<1>2. \A t \in Ticket : FateTime(t)'
  BY DEF ClockInv, FateTime, SameFateTime, JustWrapped
<1> QED
  BY <1>1, <1>2 DEF ClockInv, PassTime

LEMMA QuietTimes ==
  ASSUME UNCHANGED <<table, fate>>
  PROVE  EntryTimes /\ \A t \in Ticket : SameFateTime(t)
BY DEF EntryTimes, SameTime, SameFateTime, Busy

LEMMA ServerSendsTimes ==
  ASSUME IOInv, NEW sd, NEW max, ServerSends(sd, max)
  PROVE  EntryTimes /\ \A t \in Ticket : SameFateTime(t)
<1>1. PICK u, n : fate' = [fate EXCEPT ![u].served = n]
  BY DEF ServerSends
<1>2. \A t \in Ticket : fate[t] \in FateRec
  BY DEF IOInv, Types, FetchTypes
<1>3. \A t \in Ticket : SameFateTime(t)
  BY <1>1, <1>2 DEF IOInv, Types, FetchTypes, FateRec, SameFateTime
<1>4. EntryTimes
  BY DEF ServerSends, EntryTimes, SameTime, Busy
<1> QED
  BY <1>3, <1>4

LEMMA BeginClock ==
  ASSUME IOInv, ClockInv, BeginFetch
  PROVE  ClockInv'
<1>1. UNCHANGED <<now, ticks, load, table, fate>>
  BY DEF BeginFetch, ProcessBegins, peers
<1>2. \A i \in Slot : Made(i)'
  BY <1>1, QuietTimes, SlotsKeepTime DEF ClockInv
<1>3. \A t \in Ticket : FateTime(t)'
  BY <1>1 DEF ClockInv, FateTime, JustWrapped
<1>4. scan' = 0 /\ 0 \in Slot
  BY FetchAssumption DEF BeginFetch, ProcessBegins, Slot
<1>5. started'.now = now /\ started'.kill_before = Wrap(now - MAX_WAIT)
  <2>1. now + (-MAX_WAIT) = now - MAX_WAIT
    BY NowIs, FetchAssumption
  <2> QED
    BY <2>1, NowIs DEF BeginFetch, ProcessBegins, get_time
<1> QED
  BY <1>1, <1>2, <1>3, <1>4, <1>5 DEF ClockInv, PassTime

LEMMA ScanClock ==
  ASSUME IOInv, IOInv', ClockInv, Scan
  PROVE  ClockInv'
<1>1. PICK i \in Slot : ProcessEntry(i, load.pages)
  BY DEF Scan
<1>2. TimesLookedAt(i) /\ pc = "scan" /\ UNCHANGED <<now, ticks, load>>
  BY <1>1, EntryScans DEF Scan, peers
<1>3. \A j \in Slot : Made(j)'
  BY <1>2, SlotsKeepTime DEF ClockInv, TimesLookedAt
<1>4. \A t \in Ticket : FateTime(t)'
  BY <1>2, FatesToldInTime
<1>5. pc' = "scan" => scan' \in Slot
  BY DEF Scan, IOInv, Types, FetchTypes
<1>6. UNCHANGED started
  BY <1>2 DEF TimesLookedAt
<1> QED
  BY <1>2, <1>3, <1>4, <1>5, <1>6 DEF ClockInv, PassTime

LEMMA SelectClock ==
  ASSUME IOInv, ClockInv, SelectQueue
  PROVE  ClockInv'
<1>1. UNCHANGED <<now, ticks, load>> /\ pc' # "scan"
  BY DEF SelectQueue, peers, At
<1>2. EntryTimes /\ \A t \in Ticket : SameFateTime(t)
  <2>1. CASE request_page(load.pages)
    BY <2>1, SubmitKinds, AskTimes
  <2>2. CASE \E i \in Slot : Busy(i) /\ cancel_request(table[i].request_id)
    BY <2>2, CancelKinds, DropTimes
  <2>3. CASE UNCHANGED fetch_vars
    BY <2>3, QuietTimes DEF fetch_vars
  <2> QED
    BY <2>1, <2>2, <2>3 DEF SelectQueue
<1> QED
  BY <1>1, <1>2, ClockKept

LEMMA NextClock ==
  ASSUME IOInv, IOInv', ClockInv, [Next]_io_vars
  PROVE  ClockInv'
<1>1. CASE Poll \/ ProcessCommand \/ ServerAborts \/ ProcessReport \/ GetRequest \/ AnswerCommand
  <2>1. UNCHANGED <<now, ticks, load, table, fate>> /\ pc' # "scan"
    BY <1>1 DEF Poll, ProcessCommand, ServerAborts, ProcessReport, GetRequest, AnswerCommand,
                At, peers, fetch_vars
  <2> QED
    BY <2>1, QuietTimes, ClockKept
<1>2. CASE ClientActs \/ Connects \/ Breaks
  <2>1. UNCHANGED <<now, ticks, load, table, fate>> /\ pc' # "scan"
    BY <1>2 DEF ClientActs, Connects, Breaks, peers, fetch_vars
  <2> QED
    BY <2>1, QuietTimes, ClockKept
<1>3. CASE ServerActs
  <2>1. UNCHANGED <<now, ticks, load>> /\ pc' # "scan"
    BY <1>3 DEF ServerActs, peers
  <2>2. PICK sd : ServerSends(sd, load.answers) \/ ServerCloses(sd)
    BY <1>3 DEF ServerActs
  <2>3. EntryTimes /\ \A t \in Ticket : SameFateTime(t)
    BY <2>2, ServerSendsTimes, QuietTimes DEF ServerCloses, fetch_vars
  <2> QED
    BY <2>1, <2>3, ClockKept
<1>4. CASE TimePasses
  <2>1. Tick /\ ticks' = ticks + 1 /\ ticks < load.ticks /\ pc' = "poll" /\ UNCHANGED <<load, fate>>
    BY <1>4 DEF TimePasses, Tick
  <2>2. \A i \in Slot : Made(i)'
    BY <2>1, SlotsGrowOld DEF ClockInv
  <2>3. \A t \in Ticket : FateTime(t)'
    BY <2>1 DEF ClockInv, FateTime, JustWrapped
  <2>4. load.ticks \in Nat
    BY IOAssumption DEF IOInv, Types, LoopTypes
  <2>5. ticks' \in 0 .. load'.ticks
    BY <2>1, <2>4 DEF ClockInv
  <2> QED
    BY <2>1, <2>2, <2>3, <2>5 DEF ClockInv, PassTime
<1>5. CASE UNCHANGED io_vars
  BY <1>5 DEF io_vars, fetch_vars, ClockInv, PassTime, FateTime, JustWrapped, Made, MadeAgo, Busy
<1> QED
  BY <1>1, <1>2, <1>3, <1>4, <1>5, BeginClock, ScanClock, SelectClock DEF Next, Loop, Peers

LEMMA InitClock == Init => ClockInv
<1> SUFFICES ASSUME Init PROVE ClockInv
  OBVIOUS
<1>1. \A i \in Slot : Made(i)
  BY DEF Init, FetchInit, Busy, FreeSlot, Made
<1>2. \A t \in Ticket : FateTime(t)
  BY DEF Init, FetchInit, FateTime, NoFate
<1>3. ticks = 0 /\ load.ticks \in Nat /\ pc = "poll"
  BY IOAssumption DEF Init
<1> QED
  BY <1>1, <1>2, <1>3 DEF ClockInv, PassTime

-----------------------------------------------------------------------------
(* What a pass leaves behind *)

\* No run makes the tick counter turn around once whole.
OneTurn == \A l \in Loads : l.ticks < 2 * HalfRange

\* An entry that the counter has not passed by is not older than MAX_WAIT.
NotLate(i) == Busy(i) /\ table[i].start_time <= now => table[i].age <= MAX_WAIT
ScannedInv ==
  /\ pc = "scan" => \A i \in Slot : i < scan => NotLate(i)
  /\ pc = "get" => \A i \in Slot : NotLate(i)

\* What the pass has looked at and left is in time.
LEMMA LeftInTime ==
  ASSUME OneTurn, IOInv, ClockInv, pc = "scan", NEW i \in Slot, TimesLookedAt(i), now' = now
  PROVE  NotLate(i)'
<1> SUFFICES ASSUME Busy(i)', table'[i].start_time <= now PROVE table'[i].age <= MAX_WAIT
  BY DEF NotLate
<1>1. /\ Busy(i) /\ ~TooOld(i)
      /\ table'[i].start_time = table[i].start_time /\ table'[i].age = table[i].age
  BY DEF TimesLookedAt, SameTime
<1>2. PICK d \in Nat : MadeAgo(i, d)
  BY <1>1 DEF ClockInv, Made
<1>3. PICK s \in Ticks, n \in Ticks : s = table[i].start_time /\ n = now
  BY DEF IOInv, Types, FetchTypes, LoopTypes, EntryRec
<1>4. d < 2 * HalfRange
  <2>1. ticks \in Nat /\ load.ticks \in Nat /\ load.ticks < 2 * HalfRange /\ ticks <= load.ticks
    BY IOAssumption DEF IOInv, Types, LoopTypes, OneTurn, ClockInv
  <2>2. d <= ticks /\ HalfRange \in Nat
    BY <1>2, NetAssumption DEF MadeAgo
  <2> QED
    BY <2>1, <2>2
<1>5. n = Wrap(s + d) /\ s <= n /\ ~(s < Wrap(n - MAX_WAIT))
  BY <1>1, <1>2, <1>3 DEF MadeAgo, ClockInv, PassTime, TooOld
<1>6. d <= MAX_WAIT
  BY <1>4, <1>5, InTimeIsYoung
<1> QED
  BY <1>1, <1>2, <1>6 DEF MadeAgo

LEMMA NextScanned ==
  ASSUME OneTurn, IOInv, IOInv', ClockInv, ScannedInv, [Next]_io_vars
  PROVE  ScannedInv'
<1>1. CASE Scan
  <2>1. PICK i \in Slot : TimesLookedAt(i)
    BY <1>1, EntryScans DEF Scan
  <2>2. pc = "scan" /\ now' = now /\ scan = i
    BY <1>1, <2>1 DEF Scan, TimesLookedAt
  <2>3. NotLate(i)'
    BY <2>1, <2>2, LeftInTime
  <2>4. ASSUME NEW j \in Slot, j < i PROVE NotLate(j)'
    <3>1. NotLate(j) /\ (Busy(j)' => SameTime(j) \/ table'[j].age = 0)
      BY <2>1, <2>2, <2>4 DEF ScannedInv, TimesLookedAt, EntryTimes
    <3>2. 0 <= MAX_WAIT
      BY FetchAssumption
    <3> QED
      BY <2>2, <3>1, <3>2 DEF NotLate, SameTime
  <2>5. MAX_PENDING_REQUESTS \in Nat /\ \A j \in Slot : j \in Int /\ j <= MAX_PENDING_REQUESTS - 1 /\ 0 <= j
    BY FetchAssumption DEF Slot
  <2>6. CASE scan' = -1
    <3>1. i = MAX_PENDING_REQUESTS - 1
      BY <2>1, <2>2, <2>5, <2>6 DEF TimesLookedAt, NextEntry
    <3>2. \A j \in Slot : j < i \/ j = i
      BY <2>5, <3>1
    <3> QED
      BY <1>1, <2>3, <2>4, <2>6, <3>2 DEF Scan, ScannedInv
  <2>7. CASE scan' # -1
    <3>1. scan' = i + 1
      BY <2>1, <2>2, <2>7 DEF TimesLookedAt, NextEntry
    <3>2. \A j \in Slot : j < scan' => j < i \/ j = i
      BY <2>5, <3>1
    <3> QED
      BY <1>1, <2>3, <2>4, <2>7, <3>2 DEF Scan, ScannedInv
  <2> QED
    BY <2>6, <2>7
<1>2. CASE BeginFetch
  <2>1. pc' = "scan" /\ scan' = 0 /\ \A i \in Slot : ~(i < 0)
    BY <1>2, FetchAssumption DEF BeginFetch, At, ProcessBegins, Slot
  <2> QED
    BY <2>1 DEF ScannedInv
<1>3. CASE UNCHANGED io_vars
  BY <1>3 DEF io_vars, fetch_vars, ScannedInv, NotLate, Busy
<1>4. CASE \/ Poll \/ ProcessCommand \/ ServerAborts \/ ProcessReport \/ GetRequest \/ AnswerCommand
           \/ SelectQueue \/ ClientActs \/ ServerActs \/ Connects \/ Breaks \/ TimePasses
  <2>1. pc' \notin {"scan", "get"}
    BY <1>4 DEF Poll, ProcessCommand, ServerAborts, ProcessReport, GetRequest, AnswerCommand,
                SelectQueue, ClientActs, ServerActs, Connects, Breaks, TimePasses, At
  <2> QED
    BY <2>1 DEF ScannedInv
<1> QED
  BY <1>1, <1>2, <1>3, <1>4 DEF Next, Loop, Peers

\* Nothing is called back with TIMEOUT before it is older than MAX_WAIT, however long the
\* server runs, except within MAX_WAIT of the moment the tick counter wraps around.
THEOREM NoEarlyTimeout == Spec => [](\A t \in Ticket : FateTime(t))
<1>1. Init => IOInv /\ ClockInv
  BY InitHolds, InitClock
<1>2. (IOInv /\ ClockInv) /\ [Next]_io_vars => (IOInv /\ ClockInv)'
  BY NextHolds, NextClock
<1>3. ClockInv => \A t \in Ticket : FateTime(t)
  BY DEF ClockInv
<1> QED
  BY <1>1, <1>2, <1>3, PTL DEF Spec

\* A request times out when it is older than MAX_WAIT at a pass, no sooner and no later,
\* whatever wraps around, as far as the two comparisons of process (fetch.cc) can tell: a
\* run that turns the tick counter around once whole makes an old entry look new again.
THEOREM TimeoutsExact == ASSUME OneTurn PROVE Spec => []TimeoutExact
<1>1. Init => IOInv /\ ClockInv /\ ScannedInv
  BY InitHolds, InitClock DEF Init, ScannedInv
<1>2. (IOInv /\ ClockInv /\ ScannedInv) /\ [Next]_io_vars => (IOInv /\ ClockInv /\ ScannedInv)'
  BY OneTurn, NextHolds, NextClock, NextScanned
<1>3. ClockInv /\ ScannedInv => TimeoutExact
  BY DEF ClockInv, ScannedInv, FateTime, NotLate, TimeoutExact
<1> QED
  BY <1>1, <1>2, <1>3, PTL DEF Spec

-----------------------------------------------------------------------------
(* Commands and reports.  The text of a report, and what is left of it.      *)

LEMMA PartsOfTwo ==
  ASSUME NEW S, NEW x \in S, NEW y \in S
  PROVE  /\ SubSeq(<<x, y>>, 1, 2) = <<x, y>> /\ SubSeq(<<x, y>>, 2, 2) = <<y>>
         /\ SubSeq(<<x, y>>, 3, 2) = << >> /\ SubSeq(<<x, y>>, 1, 1) = <<x>>
         /\ SubSeq(<<y>>, 1, 1) = <<y>> /\ Len(<<x, y>>) = 2 /\ Len(<<y>>) = 1
<1>1. <<x, y>> \in Seq(S) /\ <<y>> \in Seq(S)
  OBVIOUS
<1>2. Len(<<x, y>>) = 2 /\ Len(<<y>>) = 1
  OBVIOUS
<1>3. ASSUME NEW s \in Seq(S), Len(s) = 2, s[1] = x, s[2] = y
      PROVE  SubSeq(s, 1, 2) = s /\ SubSeq(s, 2, 2) = <<y>> /\ SubSeq(s, 3, 2) = << >>
             /\ SubSeq(s, 1, 1) = <<x>>
  <2>1. SubSeq(s, 2, 2) \in Seq(S) /\ Len(SubSeq(s, 2, 2)) = 1 /\ SubSeq(s, 2, 2)[1] = y
    BY <1>3
  <2>2. SubSeq(s, 1, 1) \in Seq(S) /\ Len(SubSeq(s, 1, 1)) = 1 /\ SubSeq(s, 1, 1)[1] = x
    BY <1>3
  <2>3. \A u \in Seq(S) : /\ Len(u) = 1 /\ u[1] = y => u = <<y>>
                          /\ Len(u) = 1 /\ u[1] = x => u = <<x>>
    OBVIOUS
  <2>4. SubSeq(s, 1, 2) = s
    BY <1>3, SubSeqFull
  <2>5. SubSeq(s, 3, 2) = << >>
    BY SubSeqEmpty
  <2> QED
    BY <2>1, <2>2, <2>3, <2>4, <2>5
<1>4. SubSeq(<<y>>, 1, 1) = <<y>>
  BY <1>1, <1>2, SubSeqFull
<1>5. <<x, y>>[1] = x /\ <<x, y>>[2] = y
  OBVIOUS
<1> QED
  BY <1>1, <1>2, <1>3, <1>4, <1>5

LEMMA JoinsOfTwo ==
  ASSUME NEW S, NEW x \in S, NEW y \in S
  PROVE  /\ << >> \o <<x, y>> = <<x, y>> /\ << >> \o <<x>> = <<x>> /\ << >> \o <<y>> = <<y>>
         /\ <<x>> \o <<y>> = <<x, y>> /\ << >> \o << >> = << >>
         /\ <<x, y>> \in Seq(S) /\ <<x>> \in Seq(S) /\ <<y>> \in Seq(S) /\ << >> \in Seq(S)
<1>1. <<x, y>> \in Seq(S) /\ <<x>> \in Seq(S) /\ <<y>> \in Seq(S) /\ << >> \in Seq(S)
  OBVIOUS
<1>2. \A s \in Seq(S) : << >> \o s = s
  BY ConcatEmptySeq
<1>3. <<x>> \o <<y>> = <<x, y>>
  <2>1. PICK s \in Seq(S), t \in Seq(S) : s = <<x>> /\ t = <<y>>
    BY <1>1
  <2>2. Len(s) = 1 /\ Len(t) = 1 /\ s[1] = x /\ t[1] = y
    BY <2>1
  <2>3. s \o t \in Seq(S) /\ Len(s \o t) = 2 /\ (s \o t)[1] = x /\ (s \o t)[2] = y
    <3>1. PICK a \in Nat, b \in Nat : a = Len(s) /\ b = Len(t)
      OBVIOUS
    <3>2. /\ s \o t \in Seq(S) /\ Len(s \o t) = a + b
          /\ \A i \in 1 .. a + b : (s \o t)[i] = IF i <= a THEN s[i] ELSE t[i - a]
      BY <3>1, ConcatProperties
    <3>3. a = 1 /\ b = 1
      BY <2>2, <3>1
    <3>4. a + b = 2 /\ 1 \in 1 .. a + b /\ 2 \in 1 .. a + b /\ 1 <= a /\ ~(2 <= a) /\ 2 - a = 1
      BY <3>3
    <3>5. (s \o t)[1] = s[1] /\ (s \o t)[2] = t[1]
      BY <3>2, <3>4
    <3> QED
      BY <2>2, <3>2, <3>4, <3>5
  <2>4. \A u \in Seq(S) : Len(u) = 2 /\ u[1] = x /\ u[2] = y => u = <<x, y>>
    OBVIOUS
  <2> QED
    BY <2>1, <2>3, <2>4
<1> QED
  BY <1>1, <1>2, <1>3

LEMMA TextIs ==
  ASSUME NEW m
  PROVE  /\ Text(m) = << <<m, 1>>, <<m, 2>> >> /\ Len(Text(m)) = 2
         /\ Rest(Text(m), 0) = << <<m, 1>>, <<m, 2>> >>
         /\ Rest(Text(m), 1) = << <<m, 2>> >>
         /\ Rest(Text(m), 2) = << >>
<1>1. PICK S : <<m, 1>> \in S /\ <<m, 2>> \in S
  <2>1. <<m, 1>> \in {<<m, 1>>, <<m, 2>>} /\ <<m, 2>> \in {<<m, 1>>, <<m, 2>>}
    OBVIOUS
  <2> QED
    BY <2>1
<1>0. PICK x \in S, y \in S : x = <<m, 1>> /\ y = <<m, 2>>
  BY <1>1
<1>2. Text(m) = <<x, y>>
  BY <1>0 DEF Text, Size
<1>3. Len(Text(m)) = 2
  BY <1>2, PartsOfTwo
<1>4. /\ Rest(Text(m), 0) = SubSeq(<<x, y>>, 1, 2) /\ Rest(Text(m), 1) = SubSeq(<<x, y>>, 2, 2)
      /\ Rest(Text(m), 2) = SubSeq(<<x, y>>, 3, 2)
  BY <1>2, <1>3 DEF Rest
<1>5. /\ SubSeq(<<x, y>>, 1, 2) = <<x, y>> /\ SubSeq(<<x, y>>, 2, 2) = <<y>>
      /\ SubSeq(<<x, y>>, 3, 2) = << >>
  BY PartsOfTwo
<1>6. /\ Rest(Text(m), 0) = <<x, y>> /\ Rest(Text(m), 1) = <<y>> /\ Rest(Text(m), 2) = << >>
  BY <1>4, <1>5
<1> QED
  BY <1>0, <1>2, <1>3, <1>6

-----------------------------------------------------------------------------
(* Which connection carried which report *)

Log == Seq(Report \X Nat)

\* The first n reports came over the connections by[1], ..., by[n].
Arrived(log, r, i, cursor) ==
  log = Text(r) \/ (i = 1 /\ cursor \in 1 .. Size /\ log = Rest(Text(r), cursor))
Carried(logs, reports, cursor, by, n) ==
  /\ by \in [1 .. n -> 1 .. Len(logs)] /\ n <= Len(reports)
  /\ \A i, j \in 1 .. n : i < j => by[i] < by[j]
  /\ \A i \in 1 .. n : Arrived(logs[by[i]], reports[i], i, cursor)
  /\ \A k \in 1 .. Len(logs) : Ended(logs[k]) => \E i \in 1 .. n : by[i] = k

LEMMA CarriedOnNewConnection ==
  ASSUME NEW logs \in Seq(Log), NEW reports, NEW cursor, NEW by, NEW n \in Nat,
         Carried(logs, reports, cursor, by, n)
  PROVE  /\ Carried(Append(logs, << >>), reports, cursor, by, n)
         /\ \A i \in 1 .. n : by[i] < Len(Append(logs, << >>))
<1> DEFINE more == Append(logs, << >>)
<1>1. /\ Len(more) = Len(logs) + 1 /\ Len(logs) \in Nat /\ more[Len(logs) + 1] = << >>
      /\ \A k \in 1 .. Len(logs) : more[k] = logs[k]
  OBVIOUS
<1> HIDE DEF more
<1>2. PICK a \in Nat : a = Len(logs)
  BY <1>1
<1>3. /\ by \in [1 .. n -> 1 .. a] /\ Len(more) = a + 1
      /\ \A i \in 1 .. n : by[i] \in 1 .. a /\ more[by[i]] = logs[by[i]]
  BY <1>1, <1>2 DEF Carried
<1>4. by \in [1 .. n -> 1 .. a + 1] /\ \A i \in 1 .. n : by[i] < a + 1
  BY <1>2, <1>3
<1>5. \A k \in 1 .. a + 1 : Ended(more[k]) => k \in 1 .. a /\ Ended(logs[k])
  <2>1. ~Ended(more[a + 1])
    BY <1>1, <1>2 DEF Ended
  <2>2. \A k \in 1 .. a + 1 : k = a + 1 \/ k \in 1 .. a
    BY <1>2
  <2> QED
    BY <1>1, <1>2, <2>1, <2>2
<1>6. Carried(more, reports, cursor, by, n)
  BY <1>2, <1>3, <1>4, <1>5 DEF Carried
<1> QED
  BY <1>3, <1>4, <1>6 DEF more

LEMMA CarriedWithNewReport ==
  ASSUME NEW logs, NEW reports \in Seq(Report), NEW r \in Report, NEW cursor, NEW by, NEW n \in Nat,
         Carried(logs, reports, cursor, by, n)
  PROVE  Carried(logs, Append(reports, r), cursor, by, n)
<1> DEFINE more == Append(reports, r)
<1>1. /\ Len(more) = Len(reports) + 1 /\ Len(reports) \in Nat
      /\ \A k \in 1 .. Len(reports) : more[k] = reports[k]
  OBVIOUS
<1> HIDE DEF more
<1>2. PICK a \in Nat : a = Len(reports)
  BY <1>1
<1>3. n <= a /\ n <= a + 1 /\ \A i \in 1 .. n : i \in 1 .. a
  BY <1>2 DEF Carried
<1>4. Carried(logs, more, cursor, by, n)
  BY <1>1, <1>2, <1>3 DEF Carried
<1> QED
  BY <1>4 DEF more

\* The last connection goes on, and is not one that carried a report.
LEMMA CarriedWhileWriting ==
  ASSUME NEW logs \in Seq(Log), NEW reports, NEW cursor, NEW by, NEW n \in Nat,
         Carried(logs, reports, cursor, by, n),
         \A i \in 1 .. n : by[i] < Len(logs), NEW log \in Log, ~Ended(log)
  PROVE  Carried([logs EXCEPT ![Len(logs)] = log], reports, cursor, by, n)
<1> DEFINE longer == [logs EXCEPT ![Len(logs)] = log]
<1>1. PICK a \in Nat : a = Len(logs)
  OBVIOUS
<1>2. /\ Len(longer) = a /\ \A k \in 1 .. a : k # a => longer[k] = logs[k]
      /\ \A k \in 1 .. a : k = a => longer[k] = log
  BY <1>1
<1> HIDE DEF longer
<1>3. by \in [1 .. n -> 1 .. a] /\ \A i \in 1 .. n : by[i] # a /\ longer[by[i]] = logs[by[i]]
  BY <1>1, <1>2 DEF Carried
<1>4. \A k \in 1 .. a : Ended(longer[k]) => Ended(logs[k])
  BY <1>2
<1>5. Carried(longer, reports, cursor, by, n)
  BY <1>1, <1>2, <1>3, <1>4 DEF Carried
<1> QED
  BY <1>5 DEF longer

\* The last connection ends with the whole of the next report.
LEMMA CarriedOneMore ==
  ASSUME NEW logs \in Seq(Log), NEW reports, NEW cursor, NEW by, NEW n \in Nat,
         Carried(logs, reports, cursor, by, n), n < Len(reports), Len(reports) \in Nat,
         logs # << >>, \A i \in 1 .. n : by[i] < Len(logs),
         NEW log \in Log, Arrived(log, reports[n + 1], n + 1, cursor)
  PROVE  \E on : Carried([logs EXCEPT ![Len(logs)] = log], reports, cursor, on, n + 1)
<1> DEFINE longer == [logs EXCEPT ![Len(logs)] = log]
<1>1. PICK a \in Nat : a = Len(logs) /\ a > 0
  OBVIOUS
<1>2. /\ Len(longer) = a /\ \A k \in 1 .. a : k # a => longer[k] = logs[k]
      /\ \A k \in 1 .. a : k = a => longer[k] = log
  BY <1>1
<1> HIDE DEF longer
<1>3. /\ by \in [1 .. n -> 1 .. a] /\ \A i \in 1 .. n : by[i] < a /\ by[i] \in 1 .. a
      /\ \A i, j \in 1 .. n : i < j => by[i] < by[j]
      /\ \A i \in 1 .. n : Arrived(logs[by[i]], reports[i], i, cursor)
      /\ \A k \in 1 .. a : Ended(logs[k]) => \E i \in 1 .. n : by[i] = k
  BY <1>1 DEF Carried
<1> DEFINE on == [i \in 1 .. n + 1 |-> IF i = n + 1 THEN a ELSE by[i]]
<1>4. \A i \in 1 .. n + 1 : i \in 1 .. n \/ i = n + 1
  OBVIOUS
<1>5. n + 1 \in 1 .. n + 1 /\ on[n + 1] = a /\ \A i \in 1 .. n : i \in 1 .. n + 1 /\ on[i] = by[i]
  OBVIOUS
<1>6. on \in [1 .. n + 1 -> 1 .. a]
  BY <1>1, <1>3, <1>4
<1> HIDE DEF on
<1>7. \A i, j \in 1 .. n + 1 : i < j => on[i] < on[j]
  <2> SUFFICES ASSUME NEW i \in 1 .. n + 1, NEW j \in 1 .. n + 1, i < j PROVE on[i] < on[j]
    OBVIOUS
  <2>1. i \in 1 .. n
    OBVIOUS
  <2>2. CASE j \in 1 .. n
    BY <1>3, <1>5, <2>1, <2>2
  <2>3. CASE j = n + 1
    BY <1>3, <1>5, <2>1, <2>3
  <2> QED
    BY <1>4, <2>2, <2>3
<1>8. \A i \in 1 .. n + 1 : Arrived(longer[on[i]], reports[i], i, cursor)
  <2>1. \A i \in 1 .. n : longer[on[i]] = logs[by[i]]
    <3> SUFFICES ASSUME NEW i \in 1 .. n PROVE longer[on[i]] = logs[by[i]]
      OBVIOUS
    <3>1. by[i] \in 1 .. a /\ by[i] # a
      BY <1>1, <1>3
    <3> QED
      BY <1>2, <1>5, <3>1
  <2>2. longer[on[n + 1]] = log
    BY <1>1, <1>2, <1>5
  <2> QED
    BY <1>3, <1>4, <2>1, <2>2
<1>9. \A k \in 1 .. a : Ended(longer[k]) => \E i \in 1 .. n + 1 : on[i] = k
  <2> SUFFICES ASSUME NEW k \in 1 .. a, Ended(longer[k]) PROVE \E i \in 1 .. n + 1 : on[i] = k
    OBVIOUS
  <2>1. CASE k = a
    BY <1>5, <2>1
  <2>2. CASE k # a
    <3>1. PICK i \in 1 .. n : by[i] = k
      BY <1>2, <1>3, <2>2
    <3> QED
      BY <1>5, <3>1
  <2> QED
    BY <2>1, <2>2
<1>10. n + 1 <= Len(reports)
  <2>1. PICK b \in Nat : b = Len(reports)
    OBVIOUS
  <2>2. n < b
    BY <2>1
  <2> QED
    BY <2>1, <2>2
<1>11. Carried(longer, reports, cursor, on, n + 1)
  BY <1>2, <1>6, <1>7, <1>8, <1>9, <1>10 DEF Carried
<1> QED
  BY <1>11 DEF longer

-----------------------------------------------------------------------------
(* The connection of the report at the head of the queue *)

\* `log' written on it so far, after `done' reports.  `first' is what an uninitialised
\* cursor held.
Writing(log, r, cursor, done, first) ==
  \/ log = << >> /\ (cursor = 0 \/ (done = 0 /\ cursor = first))
  \/ log = << <<r, 1>> >> /\ cursor = 1

\* A write of k more pieces.
Writes(log, r, cursor, done, first, rest, k, more) ==
  /\ Writing(log, r, cursor, done, first) /\ cursor <= Size
  /\ rest = Rest(Text(r), cursor) /\ k \in 0 .. Len(rest) /\ (k = 0 => rest = << >>)
  /\ more = log \o SubSeq(rest, 1, k)

LEMMA WritesOn ==
  ASSUME NEW r \in Report, NEW log, NEW cursor \in Nat, NEW done \in Nat, NEW first \in Nat,
         NEW rest, NEW k, NEW more, Writes(log, r, cursor, done, first, rest, k, more)
  PROVE  /\ more \in Log
         /\ k = Len(rest) => Arrived(more, r, done + 1, first)
         /\ k # Len(rest) => Writing(more, r, cursor + k, done, first) /\ ~Ended(more)
<1> USE DEF Writes
<1>1. PICK x \in Report \X Nat, y \in Report \X Nat : x = <<r, 1>> /\ y = <<r, 2>>
  BY <<r, 1>> \in Report \X Nat, <<r, 2>> \in Report \X Nat
<1>2. /\ SubSeq(<<x, y>>, 1, 2) = <<x, y>> /\ SubSeq(<<x, y>>, 1, 1) = <<x>>
      /\ SubSeq(<<y>>, 1, 1) = <<y>> /\ Len(<<x, y>>) = 2 /\ Len(<<y>>) = 1
  BY PartsOfTwo
<1>3. /\ Text(r) = <<x, y>> /\ Rest(Text(r), 0) = <<x, y>> /\ Rest(Text(r), 1) = <<y>>
      /\ Rest(Text(r), 2) = << >>
  BY <1>1, TextIs
<1>4. /\ << >> \o <<x, y>> = <<x, y>> /\ << >> \o <<x>> = <<x>> /\ << >> \o <<y>> = <<y>>
      /\ <<x>> \o <<y>> = <<x, y>> /\ <<x, y>> \in Log /\ <<x>> \in Log /\ <<y>> \in Log
      /\ << >> \in Log /\ << >> \o << >> = << >>
  BY JoinsOfTwo DEF Log
<1>5. CASE cursor = 0
  <2>1. log = << >> /\ rest = <<x, y>> /\ Len(rest) = 2 /\ (k = 1 \/ k = 2)
    <3>1. log = << >>
      BY <1>5 DEF Writing
    <3>2. rest = <<x, y>> /\ Len(rest) = 2
      BY <1>2, <1>3, <1>5
    <3>3. rest # << >>
      BY <3>2
    <3> QED
      BY <3>1, <3>2, <3>3
  <2>2. CASE k = 2
    BY <1>2, <1>3, <1>4, <2>1, <2>2 DEF Arrived
  <2>3. CASE k = 1
    <3>1. more = <<x>>
      BY <1>2, <1>4, <2>1, <2>3
    <3>3. k # Len(rest) /\ cursor + k = 1
      <4>1. Len(rest) = 2
        BY <2>1
      <4>2. 0 + 1 = 1 /\ 1 # 2
        OBVIOUS
      <4> QED
        BY <1>5, <2>3, <4>1, <4>2
    <3>2. ~Ended(<<x>>)
      <4>1. Len(<<x>>) = 1 /\ <<x>>[1] = x /\ x[2] = 1
        BY <1>1
      <4> QED
        BY <4>1 DEF Ended, Size
    <3> QED
      BY <1>1, <1>4, <3>1, <3>2, <3>3 DEF Writing
  <2> QED
    BY <2>1, <2>2, <2>3
<1>6. CASE cursor = 1
  <2>1. rest = <<y>> /\ k = 1 /\ k = Len(rest)
    <3>1. rest = <<y>>
      BY <1>3, <1>6
    <3>2. rest # << >>
      BY <1>2, <3>1
    <3> QED
      BY <1>2, <3>1, <3>2
  <2>2. CASE log = <<x>>
    BY <1>2, <1>3, <1>4, <2>1, <2>2 DEF Arrived
  <2>3. CASE log = << >> /\ done = 0 /\ first = 1
    <3>1. more = <<y>> /\ done + 1 = 1 /\ first \in 1 .. Size
      BY <1>2, <1>4, <2>1, <2>3 DEF Size
    <3> QED
      BY <1>3, <1>4, <2>1, <2>3, <3>1 DEF Arrived
  <2>4. log = <<x>> \/ (log = << >> /\ done = 0 /\ first = 1)
    <3>1. (log = << >> /\ (cursor = 0 \/ (done = 0 /\ cursor = first))) \/ log = << <<r, 1>> >>
      BY DEF Writing
    <3> QED
      BY <1>1, <1>6, <3>1
  <2> QED
    BY <2>2, <2>3, <2>4
<1>7. CASE cursor = 2
  <2>1. rest = << >> /\ k = 0 /\ Len(rest) = 0
    <3>1. rest = << >>
      BY <1>3, <1>7
    <3>2. Len(rest) = 0
      BY <3>1
    <3> QED
      BY <3>1, <3>2
  <2>2. log = << >> /\ done + 1 = 1 /\ first = 2 /\ first \in 1 .. Size
    BY <1>7 DEF Writing, Size
  <2>3. more = << >>
    BY <2>1, <2>2
  <2> QED
    BY <1>3, <1>4, <2>1, <2>2, <2>3 DEF Arrived
<1> QED
  BY <1>5, <1>6, <1>7 DEF Size

-----------------------------------------------------------------------------
(* The reports: n have left, the others wait in order *)

Queue(n) ==
  n + Len(report) = Len(reported) /\ \A i \in 1 .. Len(report) : report[i] = reported[n + i]
StartsAt(n) == report_cursor = 0 \/ (n = 0 /\ report_cursor = load.cursor)
Connection(by, n) ==
  report_sd # None =>
    /\ report # << >> /\ written # << >> /\ \A i \in 1 .. n : by[i] < Len(written)
    /\ Writing(written[Len(written)], Head(report), report_cursor, n, load.cursor)
ReportsAre(by, n) ==
  /\ Queue(n) /\ Carried(written, reported, load.cursor, by, n)
  /\ report_sd = None => StartsAt(n)
  /\ Connection(by, n)
ReportInv == \E n \in Nat : \E by : ReportsAre(by, n)

LEMMA ReportFacts ==
  ASSUME IOInv
  PROVE  /\ written \in Seq(Log) /\ report \in Seq(Report) /\ reported \in Seq(Report)
         /\ report_cursor \in Nat /\ load.cursor \in Nat
BY IOAssumption DEF IOInv, Types, ReportTypes, LoopTypes, Log

LEMMA OpensConnection ==
  ASSUME NEW logs \in Seq(Log), NEW n \in Nat, NEW by,
         Carried(logs, reported', load'.cursor, by, n), written' = Append(logs, << >>),
         report' # << >>, Queue(n)', StartsAt(n)'
  PROVE  ReportInv'
<1> DEFINE more == Append(logs, << >>)
<1>1. Carried(more, reported', load'.cursor, by, n) /\ \A i \in 1 .. n : by[i] < Len(more)
  BY CarriedOnNewConnection
<1>2. more # << >> /\ more[Len(more)] = << >>
  OBVIOUS
<1> HIDE DEF more
<1>3. written' = more
  BY DEF more
<1>4. Writing(written'[Len(written')], Head(report'), report_cursor', n, load'.cursor)
  BY <1>2, <1>3 DEF Writing, StartsAt
<1>5. ReportsAre(by, n)'
  BY <1>1, <1>2, <1>3, <1>4 DEF ReportsAre, Connection
<1> QED
  BY <1>5 DEF ReportInv

LEMMA ClosesConnection ==
  ASSUME NEW n \in Nat, NEW by, Carried(written', reported', load'.cursor, by, n),
         report_sd' = None, Queue(n)', StartsAt(n)'
  PROVE  ReportInv'
<1>1. ReportsAre(by, n)'
  BY DEF ReportsAre, Connection
<1> QED
  BY <1>1 DEF ReportInv

\* After close: the next report, or the same again, on a new connection or none.
LEMMA ReportClosed ==
  ASSUME NEW done, NEW logs \in Seq(Log), NEW n \in Nat, NEW by, CloseReport(done, logs),
         Carried(logs, reported', load'.cursor, by, n), Queue(n)'
  PROVE  ReportInv'
<1>1. StartsAt(n)'
  BY DEF CloseReport, StartsAt
<1>2. \/ report' # << >> /\ written' = Append(logs, << >>)
      \/ report_sd' = None /\ written' = logs
  BY DEF CloseReport
<1> QED
  BY <1>1, <1>2, OpensConnection, ClosesConnection

LEMMA ReportQueued ==
  ASSUME IOInv, ReportInv, UNCHANGED load, NEW r \in Report, send_report(r)
  PROVE  ReportInv'
<1>0. PICK n \in Nat : \E by : ReportsAre(by, n)
  BY DEF ReportInv
<1>1. PICK by : ReportsAre(by, n)
  BY <1>0
<1>2. report' = Append(report, r) /\ reported' = Append(reported, r)
  BY DEF send_report
<1>3. /\ written \in Seq(Log) /\ report \in Seq(Report) /\ reported \in Seq(Report)
  BY ReportFacts
<1>4. Carried(written, reported', load'.cursor, by, n)
  <2>1. Carried(written, Append(reported, r), load.cursor, by, n)
    BY <1>1, <1>3, CarriedWithNewReport DEF ReportsAre
  <2> QED
    BY <1>2, <2>1
<1>5. Queue(n)'
  <2>1. PICK a \in Nat, b \in Nat : a = Len(report) /\ b = Len(reported)
    BY <1>3
  <2>2. n + a = b /\ \A i \in 1 .. a : report[i] = reported[n + i]
    BY <1>1, <2>1 DEF ReportsAre, Queue
  <2>3. /\ Len(report') = a + 1 /\ report'[a + 1] = r /\ \A i \in 1 .. a : report'[i] = report[i]
        /\ Len(reported') = b + 1 /\ reported'[b + 1] = r /\ \A i \in 1 .. b : reported'[i] = reported[i]
    BY <1>2, <1>3, <2>1
  <2>4. n + (a + 1) = b + 1 /\ \A i \in 1 .. a : n + i \in 1 .. b
    BY <2>2
  <2>5. \A i \in 1 .. a + 1 : i \in 1 .. a \/ (i = a + 1 /\ n + i = b + 1)
    BY <2>2
  <2>6. \A i \in 1 .. a + 1 : report'[i] = reported'[n + i]
    BY <2>2, <2>3, <2>4, <2>5
  <2> QED
    BY <2>3, <2>4, <2>6 DEF Queue
<1>6. report' # << >>
  <2>1. Len(report') = Len(report) + 1 /\ Len(report) \in Nat
    BY <1>2, <1>3
  <2> QED
    BY <2>1
<1>7. CASE /\ report_cursor' = 0 /\ written' = Append(written, << >>)
  BY <1>3, <1>4, <1>5, <1>6, <1>7, OpensConnection DEF StartsAt
<1>8. CASE UNCHANGED <<report_sd, report_cursor, written>>
  <2>1. report # << >> => Head(report') = Head(report)
    BY <1>2, <1>3
  <2>2. Connection(by, n)'
    BY <1>1, <1>6, <1>8, <2>1 DEF ReportsAre, Connection
  <2>3. ReportsAre(by, n)'
    BY <1>1, <1>4, <1>5, <1>8, <2>2 DEF ReportsAre, StartsAt
  <2> QED
    BY <2>3 DEF ReportInv
<1> QED
  BY <1>7, <1>8 DEF send_report

\* One report less in the queue.
LEMMA QueueMoves ==
  ASSUME IOInv, NEW n \in Nat, Queue(n), report # << >>, report' = Tail(report), UNCHANGED reported
  PROVE  Queue(n + 1)' /\ n < Len(reported) /\ Head(report) = reported[n + 1]
<1>1. report \in Seq(Report) /\ reported \in Seq(Report)
  BY ReportFacts
<1>2. PICK a \in Nat, b \in Nat : a = Len(report) /\ b = Len(reported) /\ a > 0
  BY <1>1
<1>3. n + a = b /\ \A i \in 1 .. a : report[i] = reported[n + i]
  BY <1>2 DEF Queue
<1>4. /\ Len(report') = a - 1 /\ \A i \in 1 .. a - 1 : report'[i] = report[i + 1]
      /\ Head(report) = report[1]
  BY <1>1, <1>2, HeadTailProperties
<1>5. (n + 1) + (a - 1) = b /\ n < b /\ 1 \in 1 .. a
      /\ \A i \in 1 .. a - 1 : i + 1 \in 1 .. a /\ n + (i + 1) = (n + 1) + i
  BY <1>2, <1>3
<1>6. \A i \in 1 .. a - 1 : report'[i] = reported'[(n + 1) + i]
  <2> SUFFICES ASSUME NEW i \in 1 .. a - 1 PROVE report'[i] = reported'[(n + 1) + i]
    OBVIOUS
  <2>1. report'[i] = report[i + 1] /\ report[i + 1] = reported[n + (i + 1)]
    BY <1>3, <1>4, <1>5
  <2> QED
    BY <1>5, <2>1
<1>7. (n + 1) + Len(report') = Len(reported')
  BY <1>2, <1>4, <1>5
<1>8. Queue(n + 1)'
  BY <1>4, <1>6, <1>7 DEF Queue
<1> QED
  BY <1>2, <1>3, <1>4, <1>5, <1>8

LEMMA ReportWritten ==
  ASSUME IOInv, ReportInv, UNCHANGED load, WriteReport
  PROVE  ReportInv'
<1>0. PICK n \in Nat : \E by : ReportsAre(by, n)
  BY DEF ReportInv
<1>1. PICK by : ReportsAre(by, n)
  BY <1>0
<1>2. /\ written \in Seq(Log) /\ report \in Seq(Report) /\ reported \in Seq(Report)
      /\ report_cursor \in Nat /\ load.cursor \in Nat
  BY ReportFacts
<1>3. /\ report # << >> /\ report_sd # None /\ UNCHANGED <<reported, load>>
      /\ Head(report) \in Report
  BY <1>2, HeadTailProperties DEF WriteReport
<1>4. /\ Queue(n) /\ Carried(written, reported, load.cursor, by, n)
      /\ written # << >> /\ \A i \in 1 .. n : by[i] < Len(written)
      /\ Writing(written[Len(written)], Head(report), report_cursor, n, load.cursor)
  BY <1>1, <1>3 DEF ReportsAre, Connection
<1>5. CASE CloseReport(FALSE, written)
  <2>1. Queue(n)'
    BY <1>3, <1>4, <1>5 DEF CloseReport, AfterReport, Queue
  <2> QED
    BY <1>2, <1>3, <1>4, <1>5, <2>1, ReportClosed
<1>6. CASE ~CloseReport(FALSE, written)
  <2> DEFINE rest == Rest(Text(Head(report)), report_cursor)
             last == written[Len(written)]
             Longer(k) == [written EXCEPT ![Len(written)] = @ \o SubSeq(rest, 1, k)]
  <2>1. PICK k \in 0 .. Len(rest) :
          /\ report_cursor <= Size /\ (k = 0 => rest = << >>)
          /\ IF k = Len(rest)
             THEN CloseReport(TRUE, Longer(k))
             ELSE /\ report_cursor' = report_cursor + k /\ written' = Longer(k)
                  /\ UNCHANGED <<report, report_sd>>
    BY <1>6 DEF WriteReport
  <2>2. PICK r, more, s : r = Head(report) /\ more = last \o SubSeq(rest, 1, k) /\ s = rest
    OBVIOUS
  <2>3. PICK logs : logs = Longer(k)
    OBVIOUS
  <2>4. logs = [written EXCEPT ![Len(written)] = more]
    BY <1>2, <2>2, <2>3
  <2>5. /\ r \in Report /\ Writing(last, r, report_cursor, n, load.cursor)
        /\ s = Rest(Text(r), report_cursor) /\ k \in 0 .. Len(s) /\ (k = 0 => s = << >>)
        /\ more = last \o SubSeq(s, 1, k)
    BY <1>3, <1>4, <2>1, <2>2
  <2> HIDE DEF rest, last, Longer
  <2>6. /\ more \in Log
        /\ k = Len(s) => Arrived(more, r, n + 1, load.cursor)
        /\ k # Len(s) => Writing(more, r, report_cursor + k, n, load.cursor) /\ ~Ended(more)
    <3>0. PICK c \in Nat, f \in Nat : c = report_cursor /\ f = load.cursor
      BY <1>2
    <3>1. PICK log : log = last
      OBVIOUS
    <3>2. r \in Report /\ Writes(log, r, c, n, f, s, k, more)
      BY <2>1, <2>2, <2>5, <3>0, <3>1 DEF Writes
    <3>3. /\ more \in Log
          /\ k = Len(s) => Arrived(more, r, n + 1, f)
          /\ k # Len(s) => Writing(more, r, c + k, n, f) /\ ~Ended(more)
      BY <3>2, WritesOn
    <3> QED
      BY <3>0, <3>3
  <2>7. logs \in Seq(Log) /\ Len(logs) = Len(written) /\ logs # << >> /\ logs[Len(logs)] = more
    BY <1>2, <1>4, <2>4, <2>6
  <2>8. CASE k = Len(s)
    <3>1. CloseReport(TRUE, logs)
      BY <2>1, <2>2, <2>3, <2>8
    <3>2. report' = Tail(report)
      BY <3>1 DEF CloseReport, AfterReport
    <3>3. Queue(n + 1)' /\ n < Len(reported) /\ Head(report) = reported[n + 1]
      BY <1>3, <1>4, <3>2, QueueMoves
    <3>4. Len(reported) \in Nat /\ Arrived(more, reported[n + 1], n + 1, load.cursor)
      BY <1>2, <2>2, <2>6, <2>8, <3>3
    <3>5. PICK on : Carried(logs, reported, load.cursor, on, n + 1)
      <4>1. \E on : Carried([written EXCEPT ![Len(written)] = more], reported, load.cursor, on, n + 1)
        BY <1>2, <1>4, <2>6, <3>3, <3>4, CarriedOneMore
      <4> QED
        BY <2>4, <4>1
    <3>6. PICK m \in Nat : m = n + 1
      OBVIOUS
    <3>7. Queue(m)' /\ Carried(logs, reported', load'.cursor, on, m)
      BY <1>3, <3>3, <3>5, <3>6
    <3> QED
      BY <2>7, <3>1, <3>7, ReportClosed
  <2>9. CASE k # Len(s)
    <3>1. report_cursor' = report_cursor + k /\ written' = logs /\ UNCHANGED <<report, report_sd>>
      BY <2>1, <2>2, <2>3, <2>9
    <3>2. Carried(logs, reported, load.cursor, by, n)
      <4>1. Carried([written EXCEPT ![Len(written)] = more], reported, load.cursor, by, n)
        BY <1>2, <1>4, <2>6, <2>9, CarriedWhileWriting
      <4> QED
        BY <2>4, <4>1
    <3>3. Connection(by, n)'
      BY <1>3, <1>4, <2>2, <2>6, <2>7, <2>9, <3>1 DEF Connection
    <3>4. ReportsAre(by, n)'
      BY <1>3, <1>4, <3>1, <3>2, <3>3 DEF ReportsAre, Queue
    <3> QED
      BY <3>4 DEF ReportInv
  <2> QED
    BY <2>8, <2>9
<1> QED
  BY <1>5, <1>6

LEMMA SameReports ==
  ASSUME ReportInv, UNCHANGED <<load, report_vars>>
  PROVE  ReportInv'
<1>0. PICK n \in Nat : \E by : ReportsAre(by, n)
  BY DEF ReportInv
<1>1. PICK by : ReportsAre(by, n)
  BY <1>0
<1>2. ReportsAre(by, n)'
  BY <1>1 DEF ReportsAre, Queue, StartsAt, Connection, report_vars
<1> QED
  BY <1>2 DEF ReportInv

LEMMA ReportConnects ==
  ASSUME IOInv, ReportInv, UNCHANGED load, ReportConnect
  PROVE  ReportInv'
<1>0. PICK n \in Nat : \E by : ReportsAre(by, n)
  BY DEF ReportInv
<1>1. PICK by : ReportsAre(by, n)
  BY <1>0
<1>2. /\ report # << >> /\ report_sd = None /\ UNCHANGED <<report, report_cursor, reported>>
      /\ written' = Append(written, << >>) /\ written \in Seq(Log)
  BY ReportFacts DEF ReportConnect
<1>3. Queue(n)' /\ StartsAt(n)' /\ Carried(written, reported', load'.cursor, by, n)
  BY <1>1, <1>2 DEF ReportsAre, Queue, StartsAt
<1> QED
  BY <1>2, <1>3, OpensConnection

LEMMA NextReports ==
  ASSUME IOInv, ReportInv, [Next]_io_vars
  PROVE  ReportInv'
<1>1. load.reports \subseteq Report
  BY LoadIs
<1>2. CASE ProcessReport
  <2>1. UNCHANGED load
    BY <1>2 DEF ProcessReport, peers
  <2>2. CASE ReportConnect
    BY <2>1, <2>2, ReportConnects
  <2>3. CASE WriteReport
    BY <2>1, <2>3, ReportWritten
  <2>4. CASE ConnectFails \/ ReportQuiet
    BY <2>1, <2>4, SameReports DEF ConnectFails, ReportQuiet
  <2> QED
    BY <1>2, <2>2, <2>3, <2>4 DEF ProcessReport
<1>3. CASE SelectQueue
  <2>1. UNCHANGED load
    BY <1>3 DEF SelectQueue, peers
  <2>2. CASE \E r \in load.reports : send_report(r)
    BY <1>1, <2>1, <2>2, ReportQueued
  <2>3. CASE UNCHANGED comm_vars
    BY <2>1, <2>3, SameReports DEF comm_vars
  <2> QED
    BY <1>3, <2>2, <2>3 DEF SelectQueue
<1>4. CASE \/ Poll \/ ProcessCommand \/ ServerAborts \/ BeginFetch \/ Scan \/ GetRequest
           \/ AnswerCommand \/ Peers \/ UNCHANGED io_vars
  <2>1. UNCHANGED <<load, report_vars>>
    BY <1>4 DEF Poll, ProcessCommand, ServerAborts, BeginFetch, Scan, GetRequest, AnswerCommand,
                Peers, ClientActs, ServerActs, Connects, Breaks, TimePasses, io_vars, comm_vars, peers
  <2> QED
    BY <2>1, SameReports
<1> QED
  BY <1>2, <1>3, <1>4 DEF Next, Loop

LEMMA InitReports == Init => ReportInv
<1> SUFFICES ASSUME Init PROVE ReportInv
  OBVIOUS
<1>1. /\ report = << >> /\ reported = << >> /\ written = << >> /\ report_sd = None
      /\ report_cursor = load.cursor
  BY DEF Init, CommInit
<1>2. Len(report) = 0 /\ Len(reported) = 0 /\ Len(written) = 0
  BY <1>1
<1>3. PICK by : by \in [1 .. 0 -> 1 .. 0]
  <2>1. [i \in 1 .. 0 |-> i] \in [1 .. 0 -> 1 .. 0]
    OBVIOUS
  <2> QED
    BY <2>1
<1>4. Carried(written, reported, load.cursor, by, 0)
  BY <1>2, <1>3 DEF Carried
<1>5. ReportsAre(by, 0)
  BY <1>1, <1>2, <1>4 DEF ReportsAre, Queue, StartsAt, Connection
<1> QED
  BY <1>5 DEF ReportInv

LEMMA ReportsInOrder ==
  ASSUME IOInv, ReportInv
  PROVE  ReportsOnceInOrder
<1>0. PICK n \in Nat : \E by : ReportsAre(by, n)
  BY DEF ReportInv
<1>1. PICK by : ReportsAre(by, n)
  BY <1>0
<1>2. written \in Seq(Log) /\ report \in Seq(Report) /\ reported \in Seq(Report)
  BY ReportFacts
<1>3. PICK a \in Nat, b \in Nat : a = Len(report) /\ b = Len(reported)
  BY <1>2
<1>4. n + a = b /\ \A i \in 1 .. a : report[i] = reported[n + i]
  BY <1>1, <1>3 DEF ReportsAre, Queue
<1>5. Len(reported) - Len(report) = n
  <2>1. b - a = n
    BY <1>4
  <2> QED
    BY <1>3, <2>1
<1>6. report = Rest(reported, n)
  <2>1. \A i \in n + 1 .. b : reported[i] \in Report
    BY <1>2, <1>3
  <2>2. /\ SubSeq(reported, n + 1, b) \in Seq(Report)
        /\ Len(SubSeq(reported, n + 1, b)) = IF n + 1 <= b THEN b - (n + 1) + 1 ELSE 0
        /\ \A i \in 1 .. b - (n + 1) + 1 : SubSeq(reported, n + 1, b)[i] = reported[(n + 1) + i - 1]
    BY <2>1, SubSeqProperties
  <2>3. PICK s \in Seq(Report) : s = SubSeq(reported, n + 1, b)
    BY <2>2
  <2>4. Len(s) = a
    <3>1. (IF n + 1 <= b THEN b - (n + 1) + 1 ELSE 0) = a
      BY <1>4
    <3> QED
      BY <2>2, <2>3, <3>1
  <2>5. \A i \in 1 .. a : s[i] = report[i]
    <3> SUFFICES ASSUME NEW i \in 1 .. a PROVE s[i] = report[i]
      OBVIOUS
    <3>1. i \in 1 .. b - (n + 1) + 1 /\ (n + 1) + i - 1 = n + i
      BY <1>4
    <3>2. s[i] = reported[(n + 1) + i - 1]
      BY <2>2, <2>3, <3>1
    <3> QED
      BY <1>4, <3>1, <3>2
  <2>6. s = report
    BY <1>2, <1>3, <2>4, <2>5, SeqEqual
  <2> QED
    BY <1>3, <2>3, <2>6 DEF Rest
<1>7. /\ by \in [1 .. n -> DOMAIN written]
      /\ \A i, j \in 1 .. n : i < j => by[i] < by[j]
      /\ \A i \in 1 .. n :
           \/ written[by[i]] = Text(reported[i])
           \/ /\ i = 1 /\ load.cursor \in 1 .. Size
              /\ written[by[i]] = Rest(Text(reported[i]), load.cursor)
      /\ \A k \in DOMAIN written : Ended(written[k]) => \E i \in 1 .. n : by[i] = k
  <2>1. DOMAIN written = 1 .. Len(written)
    BY <1>2
  <2> QED
    BY <1>1, <2>1 DEF ReportsAre, Carried, Arrived
<1> QED
  BY <1>5, <1>6, <1>7 DEF ReportsOnceInOrder

-----------------------------------------------------------------------------
(* The commands: what each client has sent, what of it the server has, and what came back *)

\* The connection that is served is that of client c.
Serving(c) == request_status # "NONE" /\ wire[request_sd].to = c
\* Client c sent its whole command, or closed.
HasAsked(c) == Len(client[c].pieces) = Size \/ client[c].fin
\* text answers client c.
Unknown == << <<"unknown", Size + 1>> >>
Answers(text, c) == text = Response(c) \/ (client[c].fin /\ text = Unknown)

\* What is in the buffers while c is served.
Request(text, c) == Numbered(text, c, 0) /\ HasAsked(c) /\ (text = << >> => client[c].fin)
Stage(c) ==
  /\ request_status = "READING_REQUEST" =>
       /\ Numbered(buffer, c, 0) /\ Numbered(wire[request_sd].unread, c, Len(buffer))
       /\ Len(buffer) + Len(wire[request_sd].unread) = Len(client[c].pieces)
       /\ wire[request_sd].fin => client[c].fin
  /\ request_status = "REQUEST_READY" => Request(buffer, c)
  /\ request_status = "REQUEST_READ" => Request(packet, c)
  /\ request_status = "SENDING_RESPONSE" =>
       /\ HasAsked(c) /\ Answers(buffer, c) /\ buffer_cursor < Len(buffer)
       /\ client[c].got = SubSeq(buffer, 1, buffer_cursor)
  /\ request_status # "SENDING_RESPONSE" => client[c].got = << >>

\* What c got is the beginning of an answer to c.
Got(c) ==
  \E text \in {Response(c), Unknown} :
    Answers(text, c) /\ \E k \in 0 .. Len(text) : client[c].got = SubSeq(text, 1, k)
ClientInv(c) ==
  /\ Numbered(client[c].pieces, c, 0) /\ Len(client[c].pieces) <= Size
  /\ client[c].got # << >> => HasAsked(c)
  /\ Got(c)
  /\ Waiting(c) => client[c].got = << >> /\ ~Serving(c)
  /\ Serving(c) => Stage(c)
CommandInv ==
  /\ \A i, j \in 1 .. Len(backlog) : backlog[i] = backlog[j] => i = j
  /\ \A c \in Command : ClientInv(c)

LEMMA CommandFacts ==
  ASSUME IOInv
  PROVE  /\ wire \in [FD -> WireRec] /\ client \in [Command -> ClientRec]
         /\ backlog \in Seq(Command) /\ buffer \in Seq(Piece) /\ packet \in Seq(Piece)
         /\ buffer_cursor \in Nat
         /\ \A c \in Command : /\ client[c] \in ClientRec /\ client[c].pieces \in Seq(Piece)
                               /\ client[c].got \in Seq(Piece)
         /\ request_status # "NONE" => request_sd \in FD /\ request_sd \in net.open
                                       /\ wire[request_sd] \in WireRec
                                       /\ wire[request_sd].unread \in Seq(Piece)
<1>1. /\ wire \in [FD -> WireRec] /\ client \in [Command -> ClientRec]
      /\ backlog \in Seq(Command) /\ buffer \in Seq(Piece) /\ packet \in Seq(Piece)
      /\ buffer_cursor \in Nat
  BY DEF IOInv, Types, WireTypes, CommandTypes
<1>2. request_status # "NONE" => request_sd \in FD /\ request_sd \in net.open
  BY SocketTypes DEF IOInv, Sockets, CommandSocket
<1>3. \A w \in WireRec : w.unread \in Seq(Piece)
  BY DEF WireRec
<1>4. \A r \in ClientRec : r.pieces \in Seq(Piece) /\ r.got \in Seq(Piece)
  BY DEF ClientRec
<1> QED
  BY <1>1, <1>2, <1>3, <1>4

LEMMA Served ==
  ASSUME IOInv, PageInv, CommandInv, request_status # "NONE"
  PROVE  \E c \in Command : /\ Serving(c) /\ Stage(c) /\ ClientInv(c)
                            /\ \A d \in Command : Serving(d) => d = c
BY DEF PageInv, OtherEnds, CommandInv, ClientInv, Serving

\* What a client sent, got and closed is as it was.
SameClient(d) ==
  /\ client'[d].pieces = client[d].pieces /\ client'[d].got = client[d].got
  /\ client'[d].fin = client[d].fin

\* A client that is not served after the step, and of which it changes nothing.
LEMMA ClientRests ==
  ASSUME NEW d \in Command, ClientInv(d), SameClient(d), Waiting(d)' => Waiting(d), ~Serving(d)'
  PROVE  ClientInv(d)'
<1>1. HasAsked(d) => HasAsked(d)'
  BY DEF HasAsked, SameClient
<1>2. Got(d)'
  BY DEF ClientInv, Got, Answers, SameClient
<1> QED
  BY <1>1, <1>2 DEF ClientInv, SameClient

\* A step that changes something of c at most.
LEMMA OthersRest ==
  ASSUME CommandInv, NEW c \in Command, ClientInv(c)',
         \A i, j \in 1 .. Len(backlog') : backlog'[i] = backlog'[j] => i = j,
         \A d \in Command : d # c => SameClient(d) /\ (Waiting(d)' => Waiting(d)) /\ ~Serving(d)'
  PROVE  CommandInv'
<1>1. ASSUME NEW d \in Command PROVE ClientInv(d)'
  <2>1. CASE d # c
    BY <2>1, ClientRests DEF CommandInv
  <2> QED
    BY <2>1
<1> QED
  BY <1>1 DEF CommandInv

\* The sockets over which a client sends.
LEMMA SocketOfIs ==
  ASSUME IOInv, PageInv, NEW c \in Command
  PROVE  SocketOf(c) = IF Serving(c) THEN {request_sd} ELSE {}
<1>1. c \notin {"nobody", "listen", "web", "manager"}
  BY CommAssumption
<1>2. /\ wire[main_sd].to = "listen" /\ (report_sd # None => wire[report_sd].to = "manager")
      /\ \A i \in Slot : Busy(i) => wire[table[i].sd].to = "web"
  BY DEF PageInv, OtherEnds, SlotPage, Reads, ReadsBehind
<1>3. ASSUME NEW sd \in net.open, wire[sd].to = c PROVE request_status # "NONE" /\ sd = request_sd
  <2>1. sd # main_sd /\ sd # report_sd /\ \A i \in Slot : Busy(i) => sd # table[i].sd
    <3>1. None \notin net.open
      BY SocketTypes
    <3> QED
      BY <1>1, <1>2, <1>3, <3>1
  <2> QED
    BY <2>1, <1>3 DEF IOInv, Sockets, NoOtherSocket
<1>4. request_status # "NONE" => request_sd \in net.open
  BY CommandFacts
<1> QED
  BY <1>3, <1>4 DEF SocketOf, Serving

-----------------------------------------------------------------------------
(* Every step keeps what is known of the commands. *)

LEMMA CommandAcceptedInv ==
  ASSUME IOInv, CommandInv, AcceptCommand
  PROVE  CommandInv'
<1>1. PICK c, sd : c = Head(backlog) /\ sd = NewFD(net)
  OBVIOUS
<1>2. PICK r : r = [Fresh("up", c) EXCEPT !.unread = client[c].pieces, !.fin = client[c].fin]
  OBVIOUS
<1>3. r.to = c /\ r.unread = client[c].pieces /\ r.fin = client[c].fin
  BY <1>2 DEF Fresh, Closed
<1>4. /\ backlog # << >> /\ backlog' = Tail(backlog) /\ buffer' = << >>
      /\ request_status' = "READING_REQUEST" /\ request_sd' = sd /\ UNCHANGED client
      /\ wire' = [wire EXCEPT ![sd] = r] /\ sd \in FD
  BY <1>1, <1>2, LowestDescriptor DEF AcceptCommand
<1>5. wire'[request_sd'] = r
  BY <1>4, CommandFacts
<1>6. PICK n \in Nat : n = Len(backlog) /\ n > 0
  BY <1>4, CommandFacts
<1>7. /\ c \in Command /\ c = backlog[1] /\ Len(backlog') = n - 1
      /\ \A i \in 1 .. n - 1 : backlog'[i] = backlog[i + 1]
      /\ backlog' \in Seq(Command)
  BY <1>1, <1>4, <1>6, CommandFacts, HeadTailProperties
<1>8. \A i \in 1 .. n - 1 : i + 1 \in 1 .. n /\ i + 1 # 1
  BY <1>6
<1>9. \A i, j \in 1 .. Len(backlog') : backlog'[i] = backlog'[j] => i = j
  <2> SUFFICES ASSUME NEW i \in 1 .. n - 1, NEW j \in 1 .. n - 1, backlog'[i] = backlog'[j] PROVE i = j
    BY <1>7
  <2>1. backlog[i + 1] = backlog[j + 1] /\ i + 1 \in 1 .. n /\ j + 1 \in 1 .. n
    BY <1>7, <1>8
  <2>2. i + 1 = j + 1
    BY <1>6, <2>1 DEF CommandInv
  <2> QED
    BY <2>2
<1>10. ~Waiting(c)'
  <2> SUFFICES ASSUME NEW i \in 1 .. n - 1, backlog'[i] = c PROVE FALSE
    BY <1>7 DEF Waiting
  <2>1. backlog[i + 1] = backlog[1] /\ i + 1 \in 1 .. n /\ 1 \in 1 .. n /\ i + 1 # 1
    BY <1>6, <1>7, <1>8
  <2> QED
    BY <1>6, <2>1 DEF CommandInv
<1>11. \A d : Waiting(d)' => Waiting(d)
  <2> SUFFICES ASSUME NEW d, NEW i \in 1 .. n - 1, backlog'[i] = d PROVE Waiting(d)
    BY <1>7 DEF Waiting
  <2>1. backlog[i + 1] = d /\ i + 1 \in DOMAIN backlog
    BY <1>6, <1>7, <1>8, CommandFacts
  <2> QED
    BY <2>1 DEF Waiting
<1>12. ClientInv(c) /\ Waiting(c)
  <2>1. 1 \in DOMAIN backlog
    BY <1>6, CommandFacts
  <2> QED
    BY <1>7, <2>1 DEF CommandInv, Waiting
<1>13. Stage(c)'
  <2>1. /\ Numbered(client[c].pieces, c, 0) /\ client[c].got = << >>
        /\ Len(client[c].pieces) \in Nat /\ Len(<< >>) = 0
    BY <1>7, <1>12, CommandFacts, EmptySeq DEF ClientInv
  <2>2. Numbered(buffer', c, 0) /\ Len(buffer') = 0
    BY <1>4, <2>1 DEF Numbered
  <2>3. /\ Numbered(wire'[request_sd'].unread, c, Len(buffer'))
        /\ Len(buffer') + Len(wire'[request_sd'].unread) = Len(client'[c].pieces)
        /\ wire'[request_sd'].fin => client'[c].fin
    BY <1>3, <1>4, <1>5, <2>1, <2>2
  <2> QED
    BY <1>4, <2>1, <2>2, <2>3 DEF Stage
<1>14. ClientInv(c)'
  BY <1>4, <1>10, <1>12, <1>13 DEF ClientInv, HasAsked, Got, Answers
<1>15. \A d \in Command : d # c => SameClient(d) /\ ~Serving(d)'
  BY <1>3, <1>4, <1>5 DEF SameClient, Serving
<1> QED
  BY <1>7, <1>9, <1>11, <1>14, <1>15, OthersRest

\* The connection of a client that is served is closed.
LEMMA HungUpInv ==
  ASSUME CommandInv, request_status' = "NONE", UNCHANGED backlog,
         \A d \in Command : SameClient(d)
  PROVE  CommandInv'
<1>1. \A d \in Command : ~Serving(d)' /\ (Waiting(d)' => Waiting(d))
  BY DEF Serving, Waiting
<1> QED
  BY <1>1, ClientRests DEF CommandInv

LEMMA CommandFailsInv ==
  ASSUME IOInv, CommandInv, ReadCommandFails
  PROVE  CommandInv'
<1>1. PICK c : client' = [client EXCEPT ![c].gone = TRUE]
  BY DEF ReadCommandFails
<1>2. \A d \in Command : SameClient(d)
  BY <1>1, CommandFacts DEF SameClient, ClientRec
<1> QED
  BY <1>2, HungUpInv DEF ReadCommandFails, HangUp

\* A step of the connection of c, which stays open.
LEMMA ServedMoves ==
  ASSUME IOInv, PageInv, CommandInv, NEW c \in Command, Serving(c),
         UNCHANGED <<request_sd, backlog>>, wire'[request_sd].to = c,
         \A d \in Command : d # c => SameClient(d), ClientInv(c)'
  PROVE  CommandInv'
<1>1. \A d \in Command : d # c => (Waiting(d)' => Waiting(d)) /\ ~Serving(d)'
  BY DEF Serving, Waiting
<1>2. \A i, j \in 1 .. Len(backlog') : backlog'[i] = backlog'[j] => i = j
  BY DEF CommandInv
<1> QED
  BY <1>1, <1>2, OthersRest

\* c itself, if it did nothing.
LEMMA ServedStays ==
  ASSUME NEW c \in Command, ClientInv(c), Serving(c), SameClient(c), UNCHANGED backlog, Stage(c)'
  PROVE  ClientInv(c)'
<1>1. ~Waiting(c)'
  BY DEF ClientInv, Waiting
<1>2. Got(c)'
  BY DEF ClientInv, Got, Answers, SameClient
<1> QED
  BY <1>1, <1>2 DEF ClientInv, HasAsked, SameClient

\* The read takes the first pieces that c sent; a whole command is all of them.
LEMMA CommandReadInv ==
  ASSUME IOInv, PageInv, CommandInv, ReadCommand
  PROVE  CommandInv'
<1>0. request_status = "READING_REQUEST" /\ UNCHANGED <<request_sd, packet, backlog, client>>
  BY DEF ReadCommand
<1>1. PICK c \in Command : Serving(c) /\ Stage(c) /\ ClientInv(c)
  BY <1>0, Served
<1>2. PICK k \in ReadSizes(request_sd, Size) :
        /\ buffer' = buffer \o Received(request_sd, k)
        /\ wire' = AfterRead(request_sd, k)
        /\ IF Complete(buffer') THEN request_status' = "REQUEST_READY" ELSE UNCHANGED request_status
  BY DEF ReadCommand
<1>3. PICK unread, got, rest : /\ unread = wire[request_sd].unread /\ got = Received(request_sd, k)
                               /\ rest = SubSeq(unread, k + 1, Len(unread))
  OBVIOUS
<1>4. /\ request_sd \in FD /\ wire \in [FD -> WireRec] /\ wire[request_sd] \in WireRec
      /\ unread \in Seq(Piece) /\ buffer \in Seq(Piece) /\ Size \in Int
      /\ Len(client[c].pieces) \in Nat
  BY <1>0, <1>3, CommandFacts DEF Size
<1>5. /\ Moves(buffer, unread, k, c, Len(buffer), got, buffer', rest) /\ Numbered(buffer, c, 0)
      /\ wire' = [wire EXCEPT ![request_sd].unread = rest]
  <2>1. /\ k \in 1 .. Len(unread) /\ got \in Seq(Piece) /\ Len(got) = k
        /\ \A n \in 1 .. k : got[n] = unread[n]
        /\ wire' = [wire EXCEPT ![request_sd].unread = rest]
    BY <1>2, <1>3, <1>4, ReadTypes DEF WireTypes
  <2>2. Numbered(buffer, c, 0) /\ Numbered(unread, c, Len(buffer))
    BY <1>0, <1>1, <1>3 DEF Stage
  <2> QED
    BY <1>2, <1>3, <1>4, <2>1, <2>2 DEF Moves
<1>6. /\ Len(buffer') = Len(buffer) + k /\ Len(rest) = Len(unread) - k
      /\ Numbered(buffer', c, 0) /\ Numbered(rest, c, Len(buffer'))
  BY <1>5, ReadMoves
<1>7. wire'[request_sd].unread = rest /\ wire'[request_sd].to = c /\ wire'[request_sd].fin = wire[request_sd].fin
  BY <1>1, <1>4, <1>5 DEF WireRec, Serving
<1>8. PICK a \in Nat, b \in Nat, p \in Nat :
        /\ a = Len(buffer') /\ b = Len(rest) /\ p = Len(client[c].pieces) /\ a + b = p
        /\ p <= Size /\ a > 0
  <2>1. PICK m \in Nat, u \in Nat, q \in Nat :
          m = Len(buffer) /\ u = Len(unread) /\ q = Len(client[c].pieces)
    BY <1>4
  <2>2. m + u = q /\ k \in 1 .. u /\ q <= Size
    BY <1>0, <1>1, <1>3, <1>5, <2>1 DEF Stage, ClientInv, Moves
  <2>3. (m + k) + (u - k) = q /\ m + k \in Nat /\ u - k \in Nat /\ m + k > 0
    BY <2>2
  <2> QED
    BY <1>6, <2>1, <2>2, <2>3
<1>9. ASSUME Complete(buffer') PROVE Request(buffer', c)
  <2>1. buffer' \in Seq(Piece)
    BY <1>5, ConcatProperties DEF Moves
  <2>2. PICK i \in 1 .. a : buffer'[i][2] = Size
    BY <1>8, <1>9, <2>1 DEF Complete, Terminated
  <2>3. buffer'[i] = <<c, 0 + i>>
    BY <1>6, <1>8, <2>2 DEF Numbered
  <2>4. i = Size
    BY <2>2, <2>3
  <2>5. p = Size
    <3>1. a + b = p /\ p <= 2 /\ 2 <= a
      BY <1>8, <2>2, <2>4 DEF Size
    <3>2. p = 2
      BY <3>1
    <3> QED
      BY <3>2 DEF Size
  <2>6. buffer' # << >>
    BY <1>8, <2>1
  <2> QED
    BY <1>6, <1>8, <2>5, <2>6 DEF Request, HasAsked
<1>10. Stage(c)'
  <2>1. client'[c].got = << >> /\ (wire'[request_sd'].fin => client'[c].fin)
    BY <1>0, <1>1, <1>7 DEF Stage
  <2>2. CASE Complete(buffer')
    <3>1. Request(buffer, c)'
      BY <1>0, <1>9, <2>2 DEF Request, HasAsked
    <3> QED
      BY <1>2, <2>1, <2>2, <3>1 DEF Stage
  <2>3. CASE ~Complete(buffer')
    BY <1>0, <1>2, <1>6, <1>7, <1>8, <2>1, <2>3 DEF Stage
  <2> QED
    BY <2>2, <2>3
<1>11. \A d \in Command : SameClient(d)
  BY <1>0 DEF SameClient
<1> QED
  BY <1>0, <1>1, <1>7, <1>10, <1>11, ServedStays, ServedMoves

\* The end of the data stands for the end of the command, whatever part of it came.
LEMMA CommandEofInv ==
  ASSUME IOInv, PageInv, CommandInv, ReadCommandEof
  PROVE  CommandInv'
<1>0. /\ request_status = "READING_REQUEST" /\ request_status' = "REQUEST_READY"
      /\ wire[request_sd].fin /\ UNCHANGED <<wire, request_sd, packet, backlog, client>>
  BY DEF ReadCommandEof, ReadEof
<1>1. PICK c \in Command : Serving(c) /\ Stage(c) /\ ClientInv(c)
  BY <1>0, Served
<1>2. PICK k \in 0 .. Len(buffer) : buffer' = SubSeq(buffer, 1, k)
  BY DEF ReadCommandEof
<1>3. buffer \in Seq(Piece) /\ Numbered(buffer, c, 0) /\ client[c].fin /\ client[c].got = << >>
  BY <1>0, <1>1, CommandFacts DEF Stage
<1>4. Numbered(buffer', c, 0)
  <2>1. PICK n \in Nat : n = Len(buffer)
    BY <1>3
  <2>2. k \in Int /\ k <= Len(buffer) /\ 1 \in Nat \ {0} /\ k - 1 + 1 = k /\ (k # 0 => 1 <= k)
    BY <1>2, <2>1
  <2>3. /\ Len(buffer') = (IF 1 <= k THEN k - 1 + 1 ELSE 0)
        /\ \A i \in 1 .. k - 1 + 1 : buffer'[i] = buffer[1 + i - 1]
    BY <1>2, <1>3, <2>2, PartTypes
  <2>4. Len(buffer') = k /\ \A i \in 1 .. k : buffer'[i] = buffer[1 + i - 1]
    BY <2>2, <2>3
  <2>5. \A i \in 1 .. k : i \in 1 .. n /\ 1 + i - 1 = i
    BY <1>2, <2>1
  <2>6. \A i \in 1 .. k : buffer'[i] = buffer[i] /\ i \in 1 .. Len(buffer)
    BY <2>1, <2>4, <2>5
  <2> QED
    BY <1>3, <2>4, <2>6 DEF Numbered
<1>5. Stage(c)'
  BY <1>0, <1>3, <1>4 DEF Stage, Request, HasAsked
<1>6. wire'[request_sd].to = c /\ \A d \in Command : SameClient(d)
  BY <1>0, <1>1 DEF Serving, SameClient
<1> QED
  BY <1>0, <1>1, <1>5, <1>6, ServedStays, ServedMoves

\* What was sent so far, and k pieces more.
Extends(s, m, k, rest) ==
  m < Len(s) /\ rest = Rest(s, m) /\ k \in 1 .. Len(rest)

LEMMA SentAndMore ==
  ASSUME NEW S, NEW s \in Seq(S), NEW m \in Nat, NEW k, NEW rest, Extends(s, m, k, rest)
  PROVE  /\ SubSeq(s, 1, m) \o SubSeq(rest, 1, k) = SubSeq(s, 1, m + k)
         /\ Len(rest) = Len(s) - m /\ m + k <= Len(s)
<1>0. rest = SubSeq(s, m + 1, Len(s)) /\ k \in 1 .. Len(rest) /\ m < Len(s)
  BY DEF Extends, Rest
<1>1. PICK n \in Nat : n = Len(s) /\ m < n
  BY <1>0
<1>2. rest \in Seq(S) /\ Len(rest) = n - m /\ \A i \in 1 .. n - m : rest[i] = s[m + i]
  <2>1. m + 1 \in Nat \ {0} /\ n <= Len(s) /\ n \in Int /\ m + 1 <= n /\ n - (m + 1) + 1 = n - m
    BY <1>1
  <2>2. /\ rest \in Seq(S)
        /\ Len(rest) = (IF m + 1 <= n THEN n - (m + 1) + 1 ELSE 0)
        /\ \A i \in 1 .. n - (m + 1) + 1 : rest[i] = s[(m + 1) + i - 1]
    BY <1>0, <1>1, <2>1, PartTypes
  <2>3. \A i \in 1 .. n - m : (m + 1) + i - 1 = m + i
    OBVIOUS
  <2>4. \A i \in 1 .. n - m : rest[i] = s[(m + 1) + i - 1]
    BY <2>1, <2>2
  <2> QED
    BY <2>1, <2>2, <2>3, <2>4
<1>3. k \in 1 .. n - m /\ k \in Nat /\ m + k <= n
  <2>1. k \in 1 .. n - m
    BY <1>0, <1>2
  <2> QED
    BY <1>1, <2>1
<1>4. PICK x, y, z : x = SubSeq(s, 1, m) /\ y = SubSeq(rest, 1, k) /\ z = SubSeq(s, 1, m + k)
  OBVIOUS
<1>5. x \in Seq(S) /\ Len(x) = m /\ \A i \in 1 .. m : x[i] = s[i]
  <2>1. m \in Int /\ m <= Len(s) /\ 1 \in Nat \ {0} /\ m - 1 + 1 = m /\ (IF 1 <= m THEN m - 1 + 1 ELSE 0) = m
    BY <1>1
  <2>2. /\ x \in Seq(S) /\ Len(x) = (IF 1 <= m THEN m - 1 + 1 ELSE 0)
        /\ \A i \in 1 .. m - 1 + 1 : x[i] = s[1 + i - 1]
    BY <1>4, <2>1, PartTypes
  <2>3. \A i \in 1 .. m : 1 + i - 1 = i
    OBVIOUS
  <2> QED
    BY <2>1, <2>2, <2>3
<1>6. y \in Seq(S) /\ Len(y) = k /\ \A i \in 1 .. k : y[i] = rest[i]
  <2>1. k \in Int /\ k <= Len(rest) /\ 1 \in Nat \ {0} /\ k - 1 + 1 = k /\ (IF 1 <= k THEN k - 1 + 1 ELSE 0) = k
    BY <1>2, <1>3
  <2>2. /\ y \in Seq(S) /\ Len(y) = (IF 1 <= k THEN k - 1 + 1 ELSE 0)
        /\ \A i \in 1 .. k - 1 + 1 : y[i] = rest[1 + i - 1]
    BY <1>2, <1>4, <2>1, PartTypes
  <2>3. \A i \in 1 .. k : 1 + i - 1 = i
    BY <1>3
  <2> QED
    BY <2>1, <2>2, <2>3
<1>7. z \in Seq(S) /\ Len(z) = m + k /\ \A i \in 1 .. m + k : z[i] = s[i]
  <2>1. /\ m + k \in Int /\ m + k <= Len(s) /\ 1 \in Nat \ {0} /\ (m + k) - 1 + 1 = m + k
        /\ (IF 1 <= m + k THEN (m + k) - 1 + 1 ELSE 0) = m + k
    BY <1>1, <1>3
  <2>2. /\ z \in Seq(S) /\ Len(z) = (IF 1 <= m + k THEN (m + k) - 1 + 1 ELSE 0)
        /\ \A i \in 1 .. (m + k) - 1 + 1 : z[i] = s[1 + i - 1]
    BY <1>4, <2>1, PartTypes
  <2>3. \A i \in 1 .. m + k : 1 + i - 1 = i
    BY <1>3
  <2> QED
    BY <2>1, <2>2, <2>3
<1>8. x \o y \in Seq(S) /\ Len(x \o y) = m + k
      /\ \A i \in 1 .. m + k : (x \o y)[i] = IF i <= m THEN x[i] ELSE y[i - m]
  <2>1. /\ x \o y \in Seq(S) /\ Len(x \o y) = Len(x) + Len(y)
        /\ \A i \in 1 .. Len(x) + Len(y) :
             (x \o y)[i] = IF i <= Len(x) THEN x[i] ELSE y[i - Len(x)]
    BY <1>5, <1>6, ConcatProperties
  <2> QED
    BY <1>5, <1>6, <2>1
<1>9. \A i \in 1 .. m + k : (x \o y)[i] = z[i]
  <2> SUFFICES ASSUME NEW i \in 1 .. m + k PROVE (x \o y)[i] = z[i]
    OBVIOUS
  <2>1. CASE i <= m
    <3>1. i \in 1 .. m
      BY <1>3, <2>1
    <3> QED
      BY <1>5, <1>7, <1>8, <2>1, <3>1
  <2>2. CASE ~(i <= m)
    <3>1. i - m \in 1 .. k /\ i - m \in 1 .. n - m /\ m + (i - m) = i
      BY <1>3, <2>2
    <3>2. (x \o y)[i] = rest[i - m]
      BY <1>6, <1>8, <2>2, <3>1
    <3> QED
      BY <1>2, <1>7, <3>1, <3>2
  <2> QED
    BY <2>1, <2>2
<1>10. x \o y = z
  BY <1>7, <1>8, <1>9, SeqEqual
<1> QED
  BY <1>1, <1>2, <1>3, <1>4, <1>10

\* The client gets the next k pieces of the answer in the buffer.
LEMMA ResponseWrittenInv ==
  ASSUME IOInv, PageInv, CommandInv, WriteResponse
  PROVE  CommandInv'
<1>0. request_status = "SENDING_RESPONSE" /\ UNCHANGED <<request_sd, packet, backlog>>
  BY DEF WriteResponse
<1>1. PICK c \in Command : Serving(c) /\ Stage(c) /\ ClientInv(c)
  BY <1>0, Served
<1>2. wire[request_sd].to = c
  BY <1>1 DEF Serving
<1>3. PICK rest : rest = Rest(buffer, buffer_cursor)
  OBVIOUS
<1>4. CASE HangUp /\ client' = [client EXCEPT ![c].gone = TRUE]
  <2>1. \A d \in Command : SameClient(d)
    BY <1>4, CommandFacts DEF SameClient, ClientRec
  <2> QED
    BY <1>0, <1>4, <2>1, HungUpInv DEF HangUp
<1>5. ASSUME NEW k \in 1 .. Len(rest),
             client' = [client EXCEPT ![c].got = @ \o SubSeq(rest, 1, k)],
             \/ k = Len(rest) /\ HangUp
             \/ /\ k # Len(rest) /\ buffer_cursor' = buffer_cursor + k
                /\ UNCHANGED <<wire, request_status, buffer>>
      PROVE  CommandInv'
  <2>0. PICK more, all : more = client[c].got \o SubSeq(rest, 1, k) /\ all = SubSeq(buffer, 1, buffer_cursor + k)
    OBVIOUS
  <2>1. /\ buffer \in Seq(Piece) /\ buffer_cursor \in Nat /\ client[c].got = SubSeq(buffer, 1, buffer_cursor)
        /\ HasAsked(c) /\ Answers(buffer, c) /\ buffer_cursor < Len(buffer)
    BY <1>0, <1>1, CommandFacts DEF Stage
  <2>2. Extends(buffer, buffer_cursor, k, rest)
    BY <1>3, <1>5, <2>1 DEF Extends
  <2>3. /\ more = all /\ Len(rest) = Len(buffer) - buffer_cursor
        /\ buffer_cursor + k <= Len(buffer)
    <3>1. PICK s \in Seq(Piece) : s = buffer
      BY <2>1
    <3>2. PICK m \in Nat : m = buffer_cursor
      BY <2>1
    <3>3. Extends(s, m, k, rest)
      BY <2>2, <3>1, <3>2
    <3>4. /\ SubSeq(s, 1, m) \o SubSeq(rest, 1, k) = SubSeq(s, 1, m + k)
          /\ Len(rest) = Len(s) - m /\ m + k <= Len(s)
      BY <3>3, SentAndMore
    <3> QED
      BY <2>0, <2>1, <3>1, <3>2, <3>4
  <2>4. /\ \A d \in Command : d # c => SameClient(d)
        /\ client'[c].got = more /\ client'[c].pieces = client[c].pieces
        /\ client'[c].fin = client[c].fin
    <3>1. client' = [client EXCEPT ![c].got = more]
      BY <1>5, <2>0, CommandFacts
    <3> QED
      BY <3>1, CommandFacts DEF SameClient, ClientRec
  <2>5. PICK m \in Nat, n \in Nat : m = buffer_cursor /\ n = Len(buffer) /\ m + k <= n /\ m + k \in Nat
    <3>0. buffer_cursor \in Nat /\ Len(buffer) \in Nat
      BY CommandFacts
    <3>1. PICK m \in Nat, n \in Nat : m = buffer_cursor /\ n = Len(buffer)
      BY <3>0
    <3>2. m + k <= n
      BY <2>3, <3>1
    <3>3. k \in Nat
      <4>1. Len(rest) = n - m
        BY <2>3, <3>1
      <4> QED
        BY <1>5, <4>1
    <3> QED
      BY <3>1, <3>2, <3>3
  <2>6. client'[c].got = SubSeq(buffer, 1, m + k) /\ m + k \in 0 .. Len(buffer)
    BY <2>0, <2>3, <2>4, <2>5
  <2>7. HasAsked(c)'
    BY <2>1, <2>4 DEF HasAsked
  <2>8. Got(c)'
    <3>1. buffer \in {Response(c), Unknown} /\ (client[c].fin \/ buffer = Response(c))
      BY <2>1 DEF Answers
    <3>2. PICK text : text = buffer
      OBVIOUS
    <3>3. text \in {Response(c), Unknown} /\ (text = Response(c) \/ (client'[c].fin /\ text = Unknown))
      BY <2>1, <2>4, <3>1, <3>2 DEF Answers
    <3>4. \E j \in 0 .. Len(text) : client'[c].got = SubSeq(text, 1, j)
      BY <2>6, <3>2
    <3> QED
      BY <3>3, <3>4 DEF Got, Answers
  <2>9. ~Waiting(c)'
    BY <1>0, <1>1 DEF ClientInv, Waiting
  <2>10. CASE k = Len(rest) /\ HangUp
    <3>1. ~Serving(c)' /\ \A d \in Command : ~Serving(d)' /\ (Waiting(d)' => Waiting(d))
      BY <1>0, <2>10 DEF HangUp, Serving, Waiting
    <3>2. ClientInv(c)'
      BY <1>1, <2>4, <2>7, <2>8, <2>9, <3>1 DEF ClientInv
    <3>3. \A i, j \in 1 .. Len(backlog') : backlog'[i] = backlog'[j] => i = j
      BY <1>0 DEF CommandInv
    <3> QED
      BY <2>4, <3>1, <3>2, <3>3, OthersRest
  <2>11. CASE /\ k # Len(rest) /\ buffer_cursor' = buffer_cursor + k
              /\ UNCHANGED <<wire, request_status, buffer>>
    <3>1. m + k # n
      <4>1. Len(rest) = n - m
        BY <2>3, <2>5
      <4>2. k # n - m
        BY <2>11, <4>1
      <4> QED
        BY <2>5, <4>2
    <3>2. buffer_cursor' = m + k /\ buffer_cursor' < Len(buffer')
      BY <2>5, <2>11, <3>1
    <3>3. Answers(buffer, c)'
      <4>1. buffer' = buffer /\ client'[c].fin = client[c].fin /\ Answers(buffer, c)
        BY <2>1, <2>4, <2>11
      <4> QED
        BY <4>1 DEF Answers
    <3>4. Stage(c)'
      BY <1>0, <2>6, <2>7, <2>11, <3>2, <3>3 DEF Stage
    <3>5. ClientInv(c)'
      BY <1>1, <2>4, <2>7, <2>8, <2>9, <3>4 DEF ClientInv
    <3>6. wire'[request_sd].to = c
      BY <1>2, <2>11
    <3> QED
      BY <1>0, <1>1, <2>4, <3>5, <3>6, ServedMoves
  <2> QED
    BY <1>5, <2>10, <2>11
<1> QED
  BY <1>2, <1>3, <1>4, <1>5 DEF WriteResponse

LEMMA CommandPartInv ==
  ASSUME IOInv, PageInv, CommandInv, CommandPart
  PROVE  CommandInv'
BY CommandAcceptedInv, CommandFailsInv, CommandReadInv, CommandEofInv, ResponseWrittenInv DEF CommandPart

\* get_request hands over what was read, and send_response answers it.
LEMMA AnswerInv ==
  ASSUME IOInv, PageInv, CommandInv, get_request \/ send_response
  PROVE  CommandInv'
<1>0. /\ request_status \in {"REQUEST_READY", "REQUEST_READ"}
      /\ UNCHANGED <<wire, request_sd, backlog, client>>
  BY DEF get_request, send_response
<1>1. PICK c \in Command : Serving(c) /\ Stage(c) /\ ClientInv(c)
  BY <1>0, Served
<1>2. client[c].got = << >>
  BY <1>0, <1>1 DEF Stage
<1>3. CASE get_request
  <2>1. /\ request_status' = "REQUEST_READ" /\ Request(buffer, c) /\ packet' = buffer
    BY <1>1, <1>3 DEF get_request, Stage
  <2>2. Request(packet, c)'
    BY <1>0, <2>1 DEF Request, HasAsked
  <2>3. Stage(c)'
    BY <1>0, <1>2, <2>1, <2>2 DEF Stage
  <2> QED
    BY <1>0, <1>1, <2>3, ServedStays, ServedMoves DEF Serving, SameClient
<1>4. CASE send_response
  <2>1. /\ request_status' = "SENDING_RESPONSE" /\ Request(packet, c) /\ buffer_cursor' = 0
        /\ buffer' = IF packet = << >> THEN Unknown ELSE Response(packet[1][1])
    BY <1>1, <1>4 DEF send_response, Stage, Unknown
  <2>2. Answers(buffer, c)' /\ 0 < Len(buffer')
    <3>1. CASE packet = << >>
      <4>1. Len(Unknown) = 1
        BY DEF Unknown
      <4> QED
        BY <1>0, <2>1, <3>1, <4>1 DEF Answers, Request
    <3>2. CASE packet # << >>
      <4>1. packet[1] = <<c, 0 + 1>>
        <5>1. Len(packet) \in Nat \ {0}
          BY <3>2, CommandFacts
        <5>2. 1 \in 1 .. Len(packet)
          BY <5>1
        <5> QED
          BY <2>1, <5>2 DEF Request, Numbered
      <4>2. buffer' = Response(c)
        BY <2>1, <3>2, <4>1
      <4>3. Len(Response(c)) = 2
        BY TextTypes DEF Size
      <4> QED
        BY <4>2, <4>3 DEF Answers
    <3> QED
      BY <3>1, <3>2
  <2>3. client'[c].got = SubSeq(buffer', 1, buffer_cursor')
    <3>1. buffer' \in Seq(Piece)
      <4>1. CommandTypes'
        BY <1>4, AnswerTyped
      <4> QED
        BY <4>1 DEF CommandTypes
    <3>2. SubSeq(buffer', 1, 0) = << >>
      BY <3>1, SubSeqEmpty
    <3> QED
      BY <1>0, <1>2, <2>1, <3>2
  <2>4. HasAsked(c)'
    BY <1>0, <2>1 DEF Request, HasAsked
  <2>5. Stage(c)'
    BY <2>1, <2>2, <2>3, <2>4 DEF Stage
  <2> QED
    BY <1>0, <1>1, <2>5, ServedStays, ServedMoves DEF Serving, SameClient
<1> QED
  BY <1>3, <1>4

\* The step leaves the commands alone, and the data of the connection that is served.
SameService ==
  request_status # "NONE" =>
    /\ wire'[request_sd].to = wire[request_sd].to
    /\ wire'[request_sd].unread = wire[request_sd].unread
    /\ wire'[request_sd].fin = wire[request_sd].fin

LEMMA SameCommands ==
  ASSUME CommandInv, UNCHANGED command_vars, SameService
  PROVE  CommandInv'
<1>0. UNCHANGED <<request_status, request_sd, buffer, buffer_cursor, packet, backlog, client>>
  BY DEF command_vars
<1>1. ASSUME NEW c \in Command PROVE ClientInv(c)'
  <2>0. ClientInv(c)
    BY DEF CommandInv
  <2>1. Serving(c)' <=> Serving(c)
    BY <1>0 DEF Serving, SameService
  <2>2. Serving(c) => Stage(c)'
    <3>1. Serving(c) => Stage(c) /\ request_status # "NONE"
      BY <2>0 DEF ClientInv, Serving
    <3> QED
      BY <1>0, <3>1 DEF SameService, Stage, Request, HasAsked, Answers
  <2> QED
    BY <1>0, <2>0, <2>1, <2>2 DEF ClientInv, Got, Answers, HasAsked, Waiting
<1> QED
  BY <1>0, <1>1 DEF CommandInv

\* A client that another one's step leaves as it was.
SameReading == UNCHANGED <<request_status, request_sd, buffer, buffer_cursor, packet>>

LEMMA ClientStays ==
  ASSUME NEW d \in Command, ClientInv(d), SameClient(d), Waiting(d)' => Waiting(d), SameReading,
         Serving(d)' => Serving(d),
         Serving(d) => /\ wire'[request_sd].unread = wire[request_sd].unread
                       /\ wire'[request_sd].fin = wire[request_sd].fin
  PROVE  ClientInv(d)'
<1>1. Serving(d)' => Stage(d)'
  <2>1. Serving(d) => Stage(d) /\ request_status # "NONE"
    BY DEF ClientInv, Serving
  <2> QED
    BY <2>1 DEF SameReading, SameClient, Stage, Request, HasAsked, Answers
<1> QED
  BY <1>1 DEF ClientInv, SameClient, Got, Answers, HasAsked

\* The next piece, behind those that are numbered.
LEMMA NumberedMore ==
  ASSUME NEW S, NEW s \in Seq(S), NEW t, NEW first \in Nat, Numbered(s, t, first),
         NEW piece \in S, NEW next, piece = <<t, next>>, next = first + Len(s) + 1
  PROVE  Numbered(Append(s, piece), t, first) /\ Len(Append(s, piece)) = Len(s) + 1
<1>1. PICK n \in Nat : n = Len(s)
  OBVIOUS
<1>2. /\ Len(Append(s, piece)) = n + 1 /\ Append(s, piece)[n + 1] = piece
      /\ \A i \in 1 .. n : Append(s, piece)[i] = s[i]
  BY <1>1
<1>3. \A i \in 1 .. n : s[i] = <<t, first + i>>
  BY <1>1 DEF Numbered
<1>4. piece = <<t, first + (n + 1)>>
  <2>1. next = first + (n + 1)
    BY <1>1
  <2> QED
    BY <2>1
<1>5. \A i \in 1 .. n + 1 : i \in 1 .. n \/ i = n + 1
  BY <1>1
<1>6. \A i \in 1 .. n + 1 : Append(s, piece)[i] = <<t, first + i>>
  BY <1>2, <1>3, <1>4, <1>5
<1> QED
  BY <1>1, <1>2, <1>6 DEF Numbered

LEMMA ClientConnectsInv ==
  ASSUME IOInv, CommandInv, NEW c \in Command, ClientConnects(c)
  PROVE  CommandInv'
<1>0. /\ client[c] = Absent /\ backlog' = Append(backlog, c) /\ SameReading /\ UNCHANGED <<wire, client>>
      /\ \A i \in DOMAIN backlog : backlog[i] # c
      /\ \A sd \in net.open : wire[sd].to # c
  BY DEF ClientConnects, SameReading
<1>1. PICK n \in Nat : n = Len(backlog)
  BY CommandFacts
<1>2. /\ backlog' \in Seq(Command) /\ Len(backlog') = n + 1 /\ backlog'[n + 1] = c
      /\ \A i \in 1 .. n : backlog'[i] = backlog[i] /\ backlog[i] # c
      /\ \A i \in 1 .. n + 1 : i \in 1 .. n \/ i = n + 1
  <2>1. backlog \in Seq(Command) /\ DOMAIN backlog = 1 .. n
    BY <1>1, CommandFacts
  <2>2. PICK s \in Seq(Command) : s = backlog
    BY <2>1
  <2>3. /\ Append(s, c) \in Seq(Command) /\ Len(Append(s, c)) = n + 1 /\ Append(s, c)[n + 1] = c
        /\ \A i \in 1 .. n : Append(s, c)[i] = s[i]
    BY <1>1, <2>2
  <2>4. \A i \in 1 .. n + 1 : i \in 1 .. n \/ i = n + 1
    OBVIOUS
  <2> QED
    BY <1>0, <2>1, <2>2, <2>3, <2>4
<1>3. \A i, j \in 1 .. Len(backlog') : backlog'[i] = backlog'[j] => i = j
  <2>1. \A i, j \in 1 .. n : backlog[i] = backlog[j] => i = j
    BY <1>1 DEF CommandInv
  <2> QED
    BY <1>2, <2>1
<1>4. \A d : d # c => (Waiting(d)' => Waiting(d))
  <2> SUFFICES ASSUME NEW d, d # c, NEW i \in 1 .. n + 1, backlog'[i] = d PROVE Waiting(d)
    BY <1>2 DEF Waiting
  <2>1. backlog[i] = d /\ i \in DOMAIN backlog
    BY <1>1, <1>2, CommandFacts
  <2> QED
    BY <2>1 DEF Waiting
<1>5. ASSUME NEW d \in Command, d # c PROVE ClientInv(d)'
  BY <1>0, <1>4, <1>5, ClientStays DEF CommandInv, SameClient, SameReading, Serving
<1>6. ClientInv(c)'
  <2>1. ~Serving(c) /\ ~Serving(c)'
    BY <1>0, CommandFacts DEF Serving, SameReading
  <2>2. client'[c].got = << >>
    BY <1>0 DEF Absent
  <2> QED
    BY <1>0, <2>1, <2>2 DEF CommandInv, ClientInv, Got, Answers, HasAsked
<1> QED
  BY <1>3, <1>5, <1>6 DEF CommandInv


\* c's step reaches the connection that is served if it is c's, and no other.
LEMMA OthersUnreached ==
  ASSUME IOInv, PageInv, CommandInv, NEW c \in Command, SameReading, UNCHANGED backlog,
         \A d \in Command : d # c => SameClient(d),
         Serving(c) => wire'[request_sd].to = c,
         ~Serving(c) => (request_status # "NONE" => wire'[request_sd] = wire[request_sd]),
         ClientInv(c)'
  PROVE  CommandInv'
<1>1. ASSUME NEW d \in Command, d # c PROVE ClientInv(d)'
  <2>1. Serving(d)' => Serving(d)
    BY <1>1 DEF Serving, SameReading
  <2>2. Serving(d) => ~Serving(c) /\ request_status # "NONE"
    BY <1>1 DEF Serving
  <2>3. ClientInv(d) /\ (Waiting(d)' => Waiting(d))
    BY DEF CommandInv, Waiting
  <2> QED
    BY <1>1, <2>1, <2>2, <2>3, ClientStays
<1> QED
  BY <1>1 DEF CommandInv

LEMMA ClientClosesInv ==
  ASSUME IOInv, PageInv, CommandInv, NEW c \in Command, ClientCloses(c)
  PROVE  CommandInv'
<1>0. /\ client' = [client EXCEPT ![c].fin = TRUE] /\ SameReading /\ UNCHANGED backlog
      /\ wire' = [sd \in FD |-> IF sd \in SocketOf(c) THEN [wire[sd] EXCEPT !.fin = TRUE] ELSE wire[sd]]
  BY DEF ClientCloses, SameReading
<1>1. /\ client'[c].fin = TRUE /\ client'[c].pieces = client[c].pieces /\ client'[c].got = client[c].got
      /\ \A d \in Command : d # c => SameClient(d)
  BY <1>0, CommandFacts DEF SameClient, ClientRec
<1>2. /\ Serving(c) => wire'[request_sd] = [wire[request_sd] EXCEPT !.fin = TRUE]
      /\ ~Serving(c) => (request_status # "NONE" => wire'[request_sd] = wire[request_sd])
  BY <1>0, SocketOfIs, CommandFacts DEF Serving
<1>3. Serving(c) => wire'[request_sd].to = c /\ wire'[request_sd].unread = wire[request_sd].unread
  BY <1>2, CommandFacts DEF Serving, WireRec
<1>4. Serving(c)' <=> Serving(c)
  BY <1>0, <1>2, <1>3 DEF Serving, SameReading
<1>5. ClientInv(c) /\ HasAsked(c)'
  BY <1>1 DEF CommandInv, HasAsked
<1>6. Serving(c) => Stage(c)'
  <2>1. Serving(c) => Stage(c)
    BY <1>5 DEF ClientInv
  <2> QED
    BY <1>0, <1>1, <1>3, <1>5, <2>1 DEF Stage, Request, Answers, SameReading
<1>7. ClientInv(c)'
  BY <1>0, <1>1, <1>4, <1>5, <1>6 DEF ClientInv, Got, Answers, Waiting
<1> QED
  BY <1>0, <1>1, <1>2, <1>3, <1>7, OthersUnreached

LEMMA ClientSendsInv ==
  ASSUME IOInv, PageInv, CommandInv, NEW c \in Command, ClientSends(c)
  PROVE  CommandInv'
<1>1. PICK s \in Seq(Piece) : s = client[c].pieces
  BY CommandFacts
<1>2. PICK n \in Nat : n = Len(s)
  OBVIOUS
<1>3. PICK piece : piece = Text(c)[Len(client[c].pieces) + 1]
  OBVIOUS
<1>4. n < Size /\ ~client[c].fin
  BY <1>1, <1>2 DEF ClientSends
<1>5. piece = <<c, n + 1>> /\ piece \in Piece
  <2>1. n + 1 \in 1 .. Size
    BY <1>4 DEF Size
  <2>2. piece = <<c, n + 1>>
    BY <1>1, <1>2, <1>3, <2>1, TextTypes
  <2> QED
    BY <2>2 DEF Piece, Name
<1>6. /\ client' = [client EXCEPT ![c].pieces = Append(@, piece)] /\ SameReading /\ UNCHANGED backlog
      /\ wire' = [sd \in FD |-> IF sd \in SocketOf(c)
                                THEN [wire[sd] EXCEPT !.unread = Append(@, piece)] ELSE wire[sd]]
  BY <1>3 DEF ClientSends, SameReading
<1>7. /\ client'[c].pieces = Append(s, piece) /\ client'[c].fin = client[c].fin
      /\ client'[c].got = client[c].got
      /\ \A d \in Command : d # c => SameClient(d)
  <2>1. PICK more : more = Append(s, piece)
    OBVIOUS
  <2>2. client' = [client EXCEPT ![c].pieces = more]
    BY <1>1, <1>6, <2>1, CommandFacts
  <2> QED
    BY <2>1, <2>2, CommandFacts DEF SameClient, ClientRec
<1>8. PICK unread : unread = wire[request_sd].unread
  OBVIOUS
<1>9. /\ Serving(c) => wire'[request_sd] = [wire[request_sd] EXCEPT !.unread = Append(unread, piece)]
      /\ ~Serving(c) => (request_status # "NONE" => wire'[request_sd] = wire[request_sd])
  BY <1>6, <1>8, SocketOfIs, CommandFacts DEF Serving
<1>10. Serving(c) => /\ wire'[request_sd].to = c /\ wire'[request_sd].unread = Append(unread, piece)
                     /\ wire'[request_sd].fin = wire[request_sd].fin
  <2>1. PICK more : more = Append(unread, piece)
    OBVIOUS
  <2> QED
    BY <1>9, <2>1, CommandFacts DEF Serving, WireRec
<1>11. Serving(c)' <=> Serving(c)
  BY <1>6, <1>9, <1>10 DEF Serving, SameReading
<1>12. ClientInv(c) /\ ~HasAsked(c)
  <2>1. n # Size
    BY <1>4 DEF Size
  <2> QED
    BY <1>1, <1>2, <1>4, <2>1 DEF CommandInv, HasAsked
<1>13. client[c].got = << >>
  BY <1>12 DEF ClientInv
<1>14. Numbered(Append(s, piece), c, 0) /\ Len(Append(s, piece)) = n + 1 /\ n + 1 <= Size
  <2>1. Numbered(s, c, 0)
    BY <1>1, <1>12 DEF ClientInv
  <2>2. n + 1 = 0 + Len(s) + 1 /\ n + 1 <= Size
    BY <1>2, <1>4 DEF Size
  <2> QED
    BY <1>2, <1>5, <2>1, <2>2, NumberedMore
<1>15. Got(c)'
  <2>1. SubSeq(Response(c), 1, 0) = << >> /\ 0 \in 0 .. Len(Response(c))
    <3>1. Response(c) \in Seq(Piece)
      BY TextTypes DEF Name
    <3> QED
      BY <3>1, SubSeqEmpty
  <2>2. client'[c].got = SubSeq(Response(c), 1, 0)
    BY <1>7, <1>13, <2>1
  <2> QED
    BY <2>1, <2>2 DEF Got, Answers
<1>16. Serving(c) => Stage(c)'
  <2> SUFFICES ASSUME Serving(c) PROVE Stage(c)'
    OBVIOUS
  <2>0. Stage(c) /\ request_status # "NONE"
    BY <1>12 DEF ClientInv, Serving
  <2>1. request_status = "READING_REQUEST"
    BY <1>12, <2>0, CommandFacts DEF Stage, Request, IOInv, Types, CommandTypes
  <2>2. /\ Numbered(buffer, c, 0) /\ Numbered(unread, c, Len(buffer)) /\ Len(buffer) + Len(unread) = n
        /\ (wire[request_sd].fin => client[c].fin) /\ unread \in Seq(Piece) /\ buffer \in Seq(Piece)
    BY <1>1, <1>2, <1>8, <2>0, <2>1, CommandFacts DEF Stage
  <2>3. PICK a \in Nat, b \in Nat : a = Len(buffer) /\ b = Len(unread) /\ a + b = n
    <3>1. Len(buffer) \in Nat /\ Len(unread) \in Nat
      BY <2>2
    <3> QED
      BY <2>2, <3>1
  <2>4. Numbered(Append(unread, piece), c, a) /\ Len(Append(unread, piece)) = b + 1
    <3>1. PICK u \in Seq(Piece) : u = unread
      BY <2>2
    <3>2. Numbered(u, c, a) /\ Len(u) = b
      BY <2>2, <2>3, <3>1
    <3>3. n + 1 = a + b + 1
      BY <2>3
    <3>4. PICK next : next = n + 1 /\ next = a + Len(u) + 1
      BY <3>2, <3>3
    <3>5. piece = <<c, next>>
      BY <1>5, <3>4
    <3>6. Numbered(Append(u, piece), c, a) /\ Len(Append(u, piece)) = Len(u) + 1
      BY <1>5, <3>2, <3>4, <3>5, NumberedMore
    <3> QED
      BY <3>1, <3>2, <3>6
  <2>5. a + (b + 1) = n + 1
    BY <2>3
  <2>6. /\ Numbered(buffer', c, 0) /\ Numbered(wire'[request_sd'].unread, c, Len(buffer'))
        /\ Len(buffer') + Len(wire'[request_sd'].unread) = Len(client'[c].pieces)
        /\ (wire'[request_sd'].fin => client'[c].fin)
    BY <1>6, <1>7, <1>10, <1>14, <2>2, <2>3, <2>4, <2>5 DEF SameReading
  <2> QED
    BY <1>6, <1>7, <1>13, <2>1, <2>6 DEF Stage, SameReading
<1>17. ClientInv(c)'
  BY <1>6, <1>7, <1>11, <1>12, <1>13, <1>14, <1>15, <1>16 DEF ClientInv, Waiting
<1> QED
  BY <1>6, <1>7, <1>9, <1>10, <1>17, OthersUnreached

\* The other sockets are not the one that is served.
LEMMA ElsewhereOnly ==
  ASSUME IOInv, NEW X, \A x \in FD \ X : wire'[x] = wire[x],
         request_status # "NONE" => request_sd \notin X
  PROVE  SameService
BY CommandFacts DEF SameService

LEMMA RequestsElsewhere ==
  ASSUME IOInv, NEW s, NEW sd, NEW id, NEW i, NEW rc,
         Asks(s, sd, id) \/ Drops(i) \/ Tells(i, rc) \/ TellsAndAsks(i, rc, s, sd, id)
  PROVE  SameService
<1>0. wire \in [FD -> WireRec]
  BY CommandFacts
<1>1. CASE Asks(s, sd, id)
  <2>1. sd \in FD \ net.open /\ \A x \in FD \ {sd} : wire'[x] = wire[x]
    BY <1>0, <1>1 DEF Asks, Submits, OpenedFor
  <2> QED
    BY <2>1, SocketsApart, ElsewhereOnly
<1>2. CASE Drops(i) \/ Tells(i, rc)
  <2>1. i \in Slot /\ Busy(i) /\ \A x \in FD \ {table[i].sd} : wire'[x] = wire[x]
    BY <1>0, <1>2 DEF Drops, Tells, Frees, OnlySlot
  <2> QED
    BY <2>1, SocketsApart, ElsewhereOnly
<1>3. CASE TellsAndAsks(i, rc, s, sd, id)
  <2>1. i \in Slot /\ Busy(i) /\ sd \in FD \ net.open
    BY <1>3 DEF TellsAndAsks, Replaces
  <2>2. \A x \in FD \ {sd, table[i].sd} : wire'[x] = wire[x]
    BY <1>0, <1>3 DEF TellsAndAsks, OpenedFor
  <2>3. request_status # "NONE" => request_sd \notin {sd, table[i].sd}
    BY <2>1, SocketsApart
  <2> QED
    BY <2>2, <2>3, ElsewhereOnly
<1> QED
  BY <1>1, <1>2, <1>3

LEMMA PassElsewhere ==
  ASSUME IOInv, NEW i \in Slot, NEW max, ProcessEntry(i, max)
  PROVE  SameService
<1>0. wire \in [FD -> WireRec]
  BY CommandFacts
<1>1. CASE SkipFree(i)
  BY <1>1 DEF SkipFree, SameService
<1>2. CASE SendPacket(i) \/ NotReady(i) \/ ReadPacket(i)
  <2>1. Busy(i)
    BY <1>2 DEF SendPacket, NotReady, ReadPacket, Scans
  <2>2. \A x \in FD \ {table[i].sd} : wire'[x] = wire[x]
    <3>1. CASE SendPacket(i)
      <4>1. PICK k : wire' = AfterWrite(table[i].sd, k)
        BY <3>1 DEF SendPacket
      <4> QED
        BY <1>0, <4>1 DEF AfterWrite
    <3>2. CASE ReadPacket(i)
      <4>1. PICK k : wire' = AfterRead(table[i].sd, k)
        BY <3>2 DEF ReadPacket
      <4> QED
        BY <1>0, <4>1 DEF AfterRead
    <3>3. CASE NotReady(i)
      BY <1>0, <3>3 DEF NotReady
    <3> QED
      BY <1>2, <3>1, <3>2, <3>3
  <2> QED
    BY <2>1, <2>2, SocketsApart, ElsewhereOnly
<1>3. CASE TimeOut(i, max) \/ SendFails(i, max) \/ ReadEnds(i, max) \/ ReadFails(i, max)
  <2>1. Busy(i) /\ \E rc : finish_request(i, rc, max)
    BY <1>3 DEF TimeOut, SendFails, ReadEnds, ReadFails, Scans
  <2> QED
    BY <2>1, FinishKinds, RequestsElsewhere
<1> QED
  BY <1>1, <1>2, <1>3 DEF ProcessEntry

\* A report's connections.
LEMMA ReportElsewhere ==
  ASSUME IOInv, \/ ReportConnect \/ ConnectFails \/ WriteReport \/ ReportQuiet
                \/ \E r \in Report : send_report(r)
  PROVE  SameService
<1>0. /\ wire \in [FD -> WireRec] /\ (report_sd # None => report_sd \in FD)
      /\ (request_status # "NONE" => request_sd \in net.open /\ request_sd # report_sd)
  BY CommandFacts, SocketTypes DEF IOInv, Sockets, CommandSocket
<1>1. CASE UNCHANGED wire
  BY <1>1 DEF SameService
<1>2. CASE CanOpen(net) /\ wire' = [wire EXCEPT ![NewFD(net)] = Fresh("connecting", "manager")]
  <2>1. PICK sd : sd = NewFD(net)
    OBVIOUS
  <2>2. sd \in FD \ net.open /\ wire' = [wire EXCEPT ![sd] = Fresh("connecting", "manager")]
    BY <1>2, <2>1, LowestDescriptor
  <2>3. \A x \in FD \ {sd} : wire'[x] = wire[x]
    BY <1>0, <2>2
  <2> QED
    BY <2>2, <2>3, SocketsApart, ElsewhereOnly
<1>3. CASE report_sd # None /\ \E done, log : CloseReport(done, log)
  <2> DEFINE closed == close(net, report_sd)
             wired == [wire EXCEPT ![report_sd] = Closed]
  <2>1. CASE /\ CanOpen(closed)
             /\ wire' = [wired EXCEPT ![NewFD(closed)] = Fresh("connecting", "manager")]
    <3>1. PICK sd : sd = NewFD(closed)
      OBVIOUS
    <3>2. closed.open = net.open \ {report_sd}
      BY <1>0, <1>3, Close DEF IOInv, Sockets, NetIs
    <3>3. sd \in FD \ closed.open
      <4> HIDE DEF closed
      <4> QED
        BY <2>1, <3>1, LowestDescriptor
    <3>4. \A x \in FD \ {sd, report_sd} : wire'[x] = wire[x]
      <4>1. wire' = [wired EXCEPT ![sd] = Fresh("connecting", "manager")]
        BY <2>1, <3>1
      <4> QED
        BY <1>0, <4>1
    <3>5. request_status # "NONE" => request_sd \notin {sd, report_sd}
      <4> HIDE DEF closed
      <4> QED
        BY <1>0, <3>2, <3>3
    <3> QED
      BY <3>4, <3>5, ElsewhereOnly
  <2>2. CASE wire' = wired
    <3>1. \A x \in FD \ {report_sd} : wire'[x] = wire[x]
      BY <1>0, <2>2
    <3>2. request_status # "NONE" => request_sd \notin {report_sd}
      BY <1>0
    <3> QED
      BY <3>1, <3>2, ElsewhereOnly
  <2> QED
    BY <1>3, <2>1, <2>2 DEF CloseReport
<1>4. CASE ReportConnect
  BY <1>2, <1>4 DEF ReportConnect
<1>5. CASE WriteReport
  <2>1. report_sd # None /\ ((\E done, log : CloseReport(done, log)) \/ UNCHANGED wire)
    BY <1>5 DEF WriteReport
  <2> QED
    BY <1>1, <1>3, <2>1
<1>6. CASE \E r \in Report : send_report(r)
  BY <1>1, <1>2, <1>6 DEF send_report
<1>7. CASE ConnectFails \/ ReportQuiet
  BY <1>1, <1>7 DEF ConnectFails, ReportQuiet
<1> QED
  BY <1>4, <1>5, <1>6, <1>7

\* What the network and the Web servers do.
LEMMA PeersElsewhere ==
  ASSUME IOInv, PageInv, NEW sd, NEW max,
         ServerSends(sd, max) \/ ServerCloses(sd) \/ ConnectionUp(sd) \/ ConnectionBreaks(sd)
  PROVE  SameService
<1>0. wire \in [FD -> WireRec]
  BY CommandFacts
<1>1. CASE ServerSends(sd, max) \/ ServerCloses(sd)
  <2>1. wire[sd].to = "web"
    BY <1>1 DEF ServerSends, ServerCloses
  <2>2. request_status # "NONE" => request_sd \notin {sd}
    BY <2>1, CommAssumption DEF PageInv, OtherEnds
  <2>3. \A x \in FD \ {sd} : wire'[x] = wire[x]
    <3>1. CASE ServerCloses(sd)
      BY <1>0, <3>1 DEF ServerCloses
    <3>2. CASE ServerSends(sd, max)
      <4>1. PICK pieces : wire' = [wire EXCEPT ![sd].unread = pieces]
        BY <3>2 DEF ServerSends
      <4> QED
        BY <1>0, <4>1
    <3> QED
      BY <1>1, <3>1, <3>2
  <2> QED
    BY <2>2, <2>3, ElsewhereOnly
<1>2. CASE ConnectionUp(sd) \/ ConnectionBreaks(sd)
  <2>1. \E state : wire' = [wire EXCEPT ![sd].state = state]
    BY <1>2 DEF ConnectionUp, ConnectionBreaks
  <2> QED
    BY <1>0, <2>1, CommandFacts DEF SameService, WireRec
<1> QED
  BY <1>1, <1>2

LEMMA NextCommands ==
  ASSUME IOInv, PageInv, CommandInv, [Next]_io_vars
  PROVE  CommandInv'
<1>0. load.commands \subseteq Command /\ load.reports \subseteq Report
  BY LoadIs
<1>1. CASE ProcessCommand \/ ServerAborts
  <2>1. CASE CommandPart
    BY <2>1, CommandPartInv
  <2>2. CASE CommandQuiet \/ EofThrows
    BY <2>2, SameCommands DEF CommandQuiet, EofThrows, SameService
  <2> QED
    BY <1>1, <2>1, <2>2 DEF ProcessCommand, ServerAborts
<1>2. CASE GetRequest \/ AnswerCommand
  <2>1. CASE get_request \/ send_response
    BY <2>1, AnswerInv
  <2>2. CASE UNCHANGED <<net, wire, command_vars>>
    BY <2>2, SameCommands DEF SameService
  <2> QED
    BY <1>2, <2>1, <2>2 DEF GetRequest, AnswerCommand
<1>3. CASE ClientActs
  BY <1>0, <1>3, ClientConnectsInv, ClientSendsInv, ClientClosesInv DEF ClientActs
<1>4. CASE ProcessReport \/ Scan \/ SelectQueue
  <2>1. UNCHANGED command_vars
    <3>1. CASE SelectQueue
      BY <3>1 DEF SelectQueue, comm_vars
    <3> QED
      BY <1>4, <3>1 DEF ProcessReport, Scan, comm_vars
  <2>2. SameService
    <3>1. CASE ProcessReport
      BY <3>1, ReportElsewhere DEF ProcessReport
    <3>2. CASE Scan
      BY <3>2, PassElsewhere DEF Scan
    <3>3. CASE SelectQueue
      <4>1. CASE \E r \in load.reports : send_report(r)
        BY <1>0, <4>1, ReportElsewhere
      <4>2. CASE request_page(load.pages)
        BY <4>2, SubmitKinds, RequestsElsewhere
      <4>3. CASE \E i \in Slot : Busy(i) /\ cancel_request(table[i].request_id)
        BY <4>3, CancelKinds, RequestsElsewhere
      <4>4. CASE UNCHANGED wire
        BY <4>4 DEF SameService
      <4> QED
        BY <3>3, <4>1, <4>2, <4>3, <4>4 DEF SelectQueue
    <3> QED
      BY <1>4, <3>1, <3>2, <3>3
  <2> QED
    BY <2>1, <2>2, SameCommands
<1>5. CASE ServerActs \/ Connects \/ Breaks
  <2>1. UNCHANGED command_vars
    BY <1>5 DEF ServerActs, Connects, Breaks, comm_vars
  <2>2. SameService
    BY <1>5, PeersElsewhere DEF ServerActs, Connects, Breaks
  <2> QED
    BY <2>1, <2>2, SameCommands
<1>6. CASE Poll \/ BeginFetch \/ TimePasses \/ UNCHANGED io_vars
  <2>1. UNCHANGED <<wire, command_vars>>
    BY <1>6 DEF Poll, BeginFetch, TimePasses, ProcessBegins, Tick, comm_vars, io_vars
  <2> QED
    BY <2>1, SameCommands DEF SameService
<1> QED
  BY <1>1, <1>2, <1>3, <1>4, <1>5, <1>6 DEF Next, Loop, Peers

LEMMA InitCommands == Init => CommandInv
<1> SUFFICES ASSUME Init PROVE CommandInv
  OBVIOUS
<1>1. /\ request_status = "NONE" /\ backlog = << >> /\ client = [c \in Command |-> Absent]
  BY DEF Init, CommInit
<1>2. \A c \in Command : client[c].pieces = << >> /\ client[c].got = << >>
  BY <1>1 DEF Absent
<1>3. Len(<< >>) = 0 /\ 0 <= Size
  BY DEF Size
<1>4. ASSUME NEW c \in Command PROVE Got(c)
  <2>1. SubSeq(Response(c), 1, 0) = << >> /\ 0 \in 0 .. Len(Response(c))
    <3>1. Response(c) \in Seq(Piece)
      BY TextTypes DEF Name
    <3> QED
      BY <3>1, SubSeqEmpty
  <2> QED
    BY <1>2, <2>1 DEF Got, Answers
<1>5. \A c \in Command : ~Serving(c) /\ ~Waiting(c)
  BY <1>1 DEF Serving, Waiting
<1>6. \A c \in Command : Numbered(client[c].pieces, c, 0) /\ Len(client[c].pieces) <= Size
  BY <1>2, <1>3 DEF Numbered
<1> QED
  BY <1>1, <1>2, <1>4, <1>5, <1>6 DEF CommandInv, ClientInv

LEMMA BeginningIs ==
  ASSUME NEW S, NEW t \in Seq(S), NEW k \in 0 .. Len(t)
  PROVE  IsPrefix(SubSeq(t, 1, k), t) /\ (k = 0 => SubSeq(t, 1, k) = << >>)
         /\ (k = Len(t) => SubSeq(t, 1, k) = t)
<1>1. PICK s : s = SubSeq(t, 1, k)
  OBVIOUS
<1>2. s \in Seq(S) /\ Len(s) = k
  <2>1. k \in Int /\ k <= Len(t) /\ 1 \in Nat \ {0} /\ (IF 1 <= k THEN k - 1 + 1 ELSE 0) = k
    OBVIOUS
  <2> QED
    BY <1>1, <2>1, PartTypes
<1>3. SubSeq(s, 1, Len(s)) = s
  BY <1>2, SubSeqFull
<1>4. IsPrefix(s, t)
  BY <1>1, <1>2, <1>3 DEF IsPrefix
<1>5. k = 0 => s = << >>
  BY <1>2
<1>6. k = Len(t) => s = t
  BY <1>1, SubSeqFull
<1> QED
  BY <1>1, <1>4, <1>5, <1>6

LEMMA EachGetsItsResponse ==
  ASSUME IOInv, CommandInv
  PROVE  ResponseToItsCommand
<1> SUFFICES ASSUME NEW c \in Command
             PROVE  /\ client[c].got # << >> => HasAsked(c)
                    /\ \/ IsPrefix(client[c].got, Response(c))
                       \/ client[c].fin /\ client[c].got = Unknown
  BY DEF ResponseToItsCommand, HasAsked, Unknown
<1>1. client[c].got # << >> => HasAsked(c)
  BY DEF CommandInv, ClientInv
<1>2. Got(c)
  BY DEF CommandInv, ClientInv
<1>3. PICK text : Answers(text, c) /\ \E k \in 0 .. Len(text) : client[c].got = SubSeq(text, 1, k)
  BY <1>2 DEF Got
<1>4. PICK k \in 0 .. Len(text) : client[c].got = SubSeq(text, 1, k)
  BY <1>3
<1>5. Response(c) \in Seq(Piece) /\ Unknown \in Seq(Piece) /\ Len(Unknown) = 1
  <2>1. <<"unknown", Size + 1>> \in Piece
    BY DEF Piece, Name, Size
  <2> QED
    BY <2>1, TextTypes DEF Name, Unknown
<1>6. CASE text = Response(c)
  BY <1>1, <1>4, <1>5, <1>6, BeginningIs
<1>7. CASE client[c].fin /\ text = Unknown
  <2>1. k = 0 \/ k = Len(Unknown)
    <3>1. PICK n \in Nat : n = Len(text) /\ n = 1
      BY <1>5, <1>7
    <3>2. k \in 0 .. n
      BY <3>1
    <3>3. k = 0 \/ k = 1
      BY <3>1, <3>2
    <3> QED
      BY <1>5, <3>3
  <2>2. CASE k = 0
    <3>1. client[c].got = << >>
      BY <1>4, <1>5, <1>7, <2>2, BeginningIs
    <3>2. 0 \in 0 .. Len(Response(c))
      BY <1>5
    <3>3. PICK zero : zero = 0 /\ zero \in 0 .. Len(Response(c))
      BY <3>2
    <3>4. IsPrefix(SubSeq(Response(c), 1, zero), Response(c)) /\ SubSeq(Response(c), 1, zero) = << >>
      BY <1>5, <3>3, BeginningIs
    <3> QED
      BY <1>1, <3>1, <3>4
  <2>3. CASE k = Len(Unknown)
    BY <1>1, <1>4, <1>5, <1>7, <2>3, BeginningIs
  <2> QED
    BY <2>1, <2>2, <2>3
<1> QED
  BY <1>1, <1>3, <1>6, <1>7 DEF Answers

-----------------------------------------------------------------------------
(* The theorems *)

\* Whatever connections break and whatever the cursor held at first, a client gets the
\* response to its own command, from its beginning, after the server has read the whole
\* command or seen its end; each report that has left the queue was written once and whole, on
\* a connection of its own, in the order of send_report (crawl_comm::process, get_request,
\* send_response and send_report of crawl_comm.cc).
THEOREM Delivered == Spec => []DeliveredInOrder
<1> DEFINE Inv == IOInv /\ TicketInv /\ PageInv /\ ReportInv /\ CommandInv
<1>1. Init => Inv
  BY InitHolds, InitTickets, InitPages, InitReports, InitCommands
<1>2. Inv /\ [Next]_io_vars => Inv'
  <2>1. ASSUME IOInv, TicketInv, PageInv, ReportInv, CommandInv, [Next]_io_vars
        PROVE  IOInv' /\ TicketInv' /\ PageInv' /\ ReportInv' /\ CommandInv'
    BY <2>1, NextHolds, NextTickets, NextPages, NextReports, NextCommands
  <2> QED
    BY <2>1
<1>3. Inv => DeliveredInOrder
  BY ReportsInOrder, EachGetsItsResponse DEF DeliveredInOrder
<1> HIDE DEF Inv
<1> QED
  BY <1>1, <1>2, <1>3, PTL DEF Spec
=============================================================================
