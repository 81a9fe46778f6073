------------------------- MODULE CrawlServerProofs --------------------------
(***************************************************************************)
(* Theorems about CrawlServer, for every value of its constants: its types *)
(* and its tables, which site a request belongs to, and the counters,      *)
(* which rest on them.                                                     *)
(***************************************************************************)
EXTENDS CrawlServer, FiniteSetTheorems, TLAPS

-----------------------------------------------------------------------------
(* The operators on an entry of the queue table return an entry. *)

LEMMA FieldTypes ==
  ASSUME NEW e \in QueueInfo
  PROVE  /\ e.urls_to_crawl \in Seq(UrlInfo) /\ e.urls_seen \subseteq HashValue
         /\ e.prefix_filter \subseteq Url /\ e.url_count_per_seed \in [SeedId -> Nat]
         /\ e.pending_request_count \in Int /\ e.success_count \in Nat
         /\ e.error_count \in Nat /\ e.consecutive_errors \in Nat /\ e.due \in Nat
         /\ e.queue_id \in Nat /\ e.site \in Site \cup {None} /\ e.status \in QueueStatus
BY DEF QueueInfo

LEMMA SetField ==
  ASSUME NEW e \in QueueInfo
  PROVE  /\ \A x \in Nat : [e EXCEPT !.queue_id = x] \in QueueInfo
         /\ \A x \in Site : [e EXCEPT !.site = x] \in QueueInfo
         /\ \A x \in Seq(UrlInfo) : [e EXCEPT !.urls_to_crawl = x] \in QueueInfo
         /\ \A x \in SUBSET HashValue : [e EXCEPT !.urls_seen = x] \in QueueInfo
         /\ \A x \in SUBSET Url : [e EXCEPT !.prefix_filter = x] \in QueueInfo
         /\ \A x \in [SeedId -> Nat] : [e EXCEPT !.url_count_per_seed = x] \in QueueInfo
         /\ \A x \in Int : [e EXCEPT !.pending_request_count = x] \in QueueInfo
         /\ \A x \in Nat : [e EXCEPT !.success_count = x] \in QueueInfo
         /\ \A x \in Nat : [e EXCEPT !.error_count = x] \in QueueInfo
         /\ \A x \in Nat : [e EXCEPT !.consecutive_errors = x] \in QueueInfo
         /\ \A x \in Nat : [e EXCEPT !.due = x] \in QueueInfo
         /\ \A x \in QueueStatus : [e EXCEPT !.status = x] \in QueueInfo
<1>1. \A x \in Nat : [e EXCEPT !.queue_id = x] \in QueueInfo
  BY DEF QueueInfo
<1>2. \A x \in Site : [e EXCEPT !.site = x] \in QueueInfo
  BY DEF QueueInfo
<1>3. \A x \in Seq(UrlInfo) : [e EXCEPT !.urls_to_crawl = x] \in QueueInfo
  BY DEF QueueInfo
<1>4. \A x \in SUBSET HashValue : [e EXCEPT !.urls_seen = x] \in QueueInfo
  BY DEF QueueInfo
<1>5. \A x \in SUBSET Url : [e EXCEPT !.prefix_filter = x] \in QueueInfo
  BY DEF QueueInfo
<1>6. \A x \in [SeedId -> Nat] : [e EXCEPT !.url_count_per_seed = x] \in QueueInfo
  BY DEF QueueInfo
<1>7. \A x \in Int : [e EXCEPT !.pending_request_count = x] \in QueueInfo
  BY DEF QueueInfo
<1>8. \A x \in Nat : [e EXCEPT !.success_count = x] \in QueueInfo
  BY DEF QueueInfo
<1>9. \A x \in Nat : [e EXCEPT !.error_count = x] \in QueueInfo
  BY DEF QueueInfo
<1>10. \A x \in Nat : [e EXCEPT !.consecutive_errors = x] \in QueueInfo
  BY DEF QueueInfo
<1>11. \A x \in Nat : [e EXCEPT !.due = x] \in QueueInfo
  BY DEF QueueInfo
<1>12. \A x \in QueueStatus : [e EXCEPT !.status = x] \in QueueInfo
  BY DEF QueueInfo
<1> QED
  BY <1>1, <1>2, <1>3, <1>4, <1>5, <1>6, <1>7, <1>8, <1>9, <1>10, <1>11, <1>12

LEMMA PushType ==
  ASSUME NEW e \in QueueInfo, NEW info \in UrlInfo
  PROVE  push_url(e, info) \in QueueInfo
<1>1. info.u \in Url
  BY DEF UrlInfo
<1> DEFINE todo == Append(e.urls_to_crawl, info)
           seen == e.urls_seen \cup {Hash[info.u]}
           d == [e EXCEPT !.urls_to_crawl = todo]
<1>2. todo \in Seq(UrlInfo) /\ seen \in SUBSET HashValue
  BY <1>1, FieldTypes, UrlAssumption
<1>3. d \in QueueInfo
  BY <1>2, SetField
<1>4. [d EXCEPT !.urls_seen = seen] \in QueueInfo
  BY <1>2, <1>3, SetField
<1>5. [e EXCEPT !.urls_to_crawl = todo, !.urls_seen = seen] = [d EXCEPT !.urls_seen = seen]
  OBVIOUS
<1> QED
  BY <1>4, <1>5 DEF push_url

LEMMA PopType ==
  ASSUME NEW e \in QueueInfo, e.urls_to_crawl # << >>
  PROVE  pop_url(e) \in QueueInfo /\ Head(e.urls_to_crawl) \in UrlInfo
<1>1. Tail(e.urls_to_crawl) \in Seq(UrlInfo) /\ Head(e.urls_to_crawl) \in UrlInfo
  BY FieldTypes
<1> QED
  BY <1>1, SetField DEF pop_url

LEMMA OfferedType ==
  ASSUME NEW e \in QueueInfo, NEW info \in UrlInfo, NEW verdict
  PROVE  Offered(e, info, verdict) \in QueueInfo
<1> DEFINE d == push_url(e, info)
           counts == [d.url_count_per_seed EXCEPT ![info.seed_id] = @ + 1]
<1>1. d \in QueueInfo
  BY PushType
<1>2. counts \in [SeedId -> Nat]
  <2>1. d.url_count_per_seed \in [SeedId -> Nat]
    BY <1>1, FieldTypes
  <2>2. info.seed_id \in SeedId
    BY DEF UrlInfo
  <2> QED
    BY <2>1, <2>2
<1>3. [d EXCEPT !.url_count_per_seed = counts] \in QueueInfo
  BY <1>1, <1>2, SetField
<1>4. [d EXCEPT !.url_count_per_seed[info.seed_id] = @ + 1]
        = [d EXCEPT !.url_count_per_seed = counts]
  OBVIOUS
<1>5. /\ [e EXCEPT !.status = "Max Level"] \in QueueInfo
      /\ [e EXCEPT !.status = "Max Count"] \in QueueInfo
  BY SetField DEF QueueStatus
<1> QED
  BY <1>1, <1>3, <1>4, <1>5 DEF Offered

LEMMA RequestedType ==
  ASSUME NEW e \in QueueInfo
  PROVE  Requested(e) \in QueueInfo /\ Refused(e) \in QueueInfo
<1> DEFINE pending == e.pending_request_count + 1
           errors == e.error_count + 1
           inRow == e.consecutive_errors + 1
           p == [e EXCEPT !.pending_request_count = pending]
           n == [e EXCEPT !.error_count = errors]
           m == [n EXCEPT !.consecutive_errors = inRow]
<1>1. pending \in Int /\ errors \in Nat /\ inRow \in Nat /\ Delay \in Nat
  BY FieldTypes, SizeAssumption
<1> HIDE DEF pending, errors, inRow
<1>2. p \in QueueInfo /\ n \in QueueInfo
  BY <1>1, SetField
<1>3. m \in QueueInfo
  BY <1>1, <1>2, SetField
<1>4. [p EXCEPT !.due = Delay] \in QueueInfo /\ [m EXCEPT !.due = Delay] \in QueueInfo
  BY <1>1, <1>2, <1>3, SetField
<1>5. /\ [e EXCEPT !.pending_request_count = pending, !.due = Delay]
           = [p EXCEPT !.due = Delay]
      /\ [e EXCEPT !.error_count = errors, !.consecutive_errors = inRow, !.due = Delay]
           = [m EXCEPT !.due = Delay]
  OBVIOUS
<1> QED
  BY <1>4, <1>5 DEF Requested, Refused, pending, errors, inRow

LEMMA CountedType ==
  ASSUME NEW e \in QueueInfo, NEW valid \in BOOLEAN
  PROVE  Counted(e, valid) \in QueueInfo
<1> DEFINE pending == e.pending_request_count - 1
           good == e.success_count + 1
           errors == e.error_count + 1
           inRow == e.consecutive_errors + 1
           p == [e EXCEPT !.pending_request_count = pending]
           n == [p EXCEPT !.success_count = good]
           m == [p EXCEPT !.error_count = errors]
<1>1. pending \in Int /\ good \in Nat /\ errors \in Nat /\ inRow \in Nat /\ 0 \in Nat
  BY FieldTypes
<1> HIDE DEF pending, good, errors, inRow
<1>2. p \in QueueInfo
  BY <1>1, SetField
<1>3. n \in QueueInfo /\ m \in QueueInfo
  BY <1>1, <1>2, SetField
<1>4. /\ [n EXCEPT !.consecutive_errors = 0] \in QueueInfo
      /\ [m EXCEPT !.consecutive_errors = inRow] \in QueueInfo
  BY <1>1, <1>3, SetField
<1>5. /\ [e EXCEPT !.pending_request_count = pending, !.success_count = good,
                   !.consecutive_errors = 0]
           = [n EXCEPT !.consecutive_errors = 0]
      /\ [e EXCEPT !.pending_request_count = pending, !.error_count = errors,
                   !.consecutive_errors = inRow]
           = [m EXCEPT !.consecutive_errors = inRow]
  OBVIOUS
<1> QED
  BY <1>4, <1>5 DEF Counted, pending, good, errors, inRow

LEMMA SavedType ==
  ASSUME NEW e \in QueueInfo
  PROVE  SavedInfo(e) \in QueueInfo
<1> DEFINE d1 == [e EXCEPT !.queue_id = 0]
           d2 == [d1 EXCEPT !.pending_request_count = 0]
           d3 == [d2 EXCEPT !.consecutive_errors = 0]
           d4 == [d3 EXCEPT !.due = 0]
<1>0. 0 \in Nat /\ 0 \in Int
  OBVIOUS
<1>1. d1 \in QueueInfo
  BY <1>0, SetField
<1> HIDE DEF d1
<1>2. d2 \in QueueInfo
  BY <1>0, <1>1, SetField
<1> HIDE DEF d2
<1>3. d3 \in QueueInfo
  BY <1>0, <1>2, SetField
<1> HIDE DEF d3
<1>4. d4 \in QueueInfo
  BY <1>0, <1>3, SetField
<1> HIDE DEF d4
<1>5. [d4 EXCEPT !.status = "Done"] \in QueueInfo
  BY <1>4, SetField DEF QueueStatus
<1>6. [e EXCEPT !.queue_id = 0, !.pending_request_count = 0, !.consecutive_errors = 0,
                !.due = 0, !.status = "Done"]
        = [d4 EXCEPT !.status = "Done"]
  BY DEF d1, d2, d3, d4
<1> QED
  BY <1>5, <1>6 DEF SavedInfo

LEMMA EmptyType == EmptyQueue \in QueueInfo
BY DEF EmptyQueue, QueueInfo, QueueStatus

LEMMA NewQueueType ==
  ASSUME NEW s \in Site
  PROVE  NewQueue(s) \in QueueInfo
<1>1. [EmptyQueue EXCEPT !.site = s] \in QueueInfo
  BY EmptyType, SetField
<1>2. /\ [u |-> Robots[s], seed_id |-> 0, level |-> 0] \in UrlInfo
      /\ [u |-> Home[s], seed_id |-> 1, level |-> 0] \in UrlInfo
  BY UrlAssumption DEF UrlInfo, SeedId
<1> QED
  BY <1>1, <1>2, PushType DEF NewQueue

-----------------------------------------------------------------------------
(* Types, and the agreement of the two request tables that they rest on: a    *)
(* callback finds its request through callback_param.                         *)

TInv == TypeOK /\ TablesAgree

LEMMA WithRequestType ==
  ASSUME NEW reqs \in [Slot -> RequestInfo], NEW s \in Slot, NEW f \in FmSlot,
         NEW q \in Queues, NEW info \in UrlInfo, NEW trials \in Nat
  PROVE  WithRequest(reqs, s, f, q, info, trials) \in [Slot -> RequestInfo]
BY DEF WithRequest, RequestInfo, UrlInfo

LEMMA WithEntryType ==
  ASSUME NEW tab \in [FmSlot -> TableEntry], NEW f \in FmSlot, NEW s \in Slot, NEW u \in Url
  PROVE  WithEntry(tab, f, s, u) \in [FmSlot -> TableEntry]
BY DEF WithEntry, TableEntry

LEMMA FreeTypes ==
  FreeEntry \in TableEntry /\ FreeRequest \in RequestInfo
<1>1. 0 \in Queues
  BY SizeAssumption DEF Queues
<1> QED
  BY <1>1 DEF FreeEntry, FreeRequest, TableEntry, RequestInfo, SeedId

LEMMA InitTyped == Init => TInv
<1> SUFFICES ASSUME Init PROVE TInv
  OBVIOUS
<1>1. 0 \in Queues
  BY SizeAssumption DEF Queues
<1>2. TypeOK
  <2>1. queue_info_table \in [Queues -> QueueInfo] /\ queue_info_table_cursor \in Queues
    BY <1>1, EmptyType DEF Init
  <2>2. request_info_table \in [Slot -> RequestInfo] /\ table \in [FmSlot -> TableEntry]
    BY FreeTypes DEF Init
  <2>3. queue_count \in Int /\ numsites \in Int /\ cur_queue_id \in Nat
    BY DEF Init
  <2>4. request_count \in Int /\ num_pending_requests \in Int /\ wait_until \in Int
    BY DEF Init
  <2>5. callback \in [entry : FmSlot \cup {None}, valid : BOOLEAN] /\ paused \in BOOLEAN
    BY DEF Init
  <2>6. pc \in {"poll", "fm", "parse", "finish", "command", "dispatch", "select", "dead"}
    BY DEF Init
  <2>7. inbox \in Commands \cup {"none"} /\ reports = {} /\ saved = {}
    BY DEF Init
  <2> QED
    BY <2>1, <2>2, <2>3, <2>4, <2>5, <2>6, <2>7 DEF TypeOK
<1>3. TablesAgree
  BY DEF Init, TablesAgree, Live, Busy, FreeEntry, FreeRequest
<1> QED
  BY <1>2, <1>3 DEF TInv

LEMMA Typing ==
  ASSUME TInv
  PROVE  /\ queue_info_table \in [Queues -> QueueInfo]
         /\ request_info_table \in [Slot -> RequestInfo]
         /\ table \in [FmSlot -> TableEntry]
BY DEF TInv, TypeOK

LEMMA Counters ==
  ASSUME TInv
  PROVE  /\ queue_count \in Int /\ numsites \in Int /\ cur_queue_id \in Nat
         /\ request_count \in Int /\ num_pending_requests \in Int /\ wait_until \in Int
BY DEF TInv, TypeOK

\* A request of the manager leads to its entry of the fetch table.
LEMMA RequestContext ==
  ASSUME TInv, NEW s \in Slot, request_info_table[s].request_id # None
  PROVE  /\ request_info_table[s].request_id \in FmSlot
         /\ table[request_info_table[s].request_id].url # None
         /\ table[request_info_table[s].request_id].callback_param = s
         /\ request_info_table[s].queue_entry \in Queues
<1>1. request_info_table[s] \in RequestInfo
  BY Typing
<1>2. request_info_table[s].request_id \in FmSlot /\ request_info_table[s].queue_entry \in Queues
  BY <1>1 DEF RequestInfo
<1> QED
  BY <1>2 DEF TInv, TablesAgree, Live, Busy

\* A request in the fetch table leads to its slot, its site and its URL.
LEMMA CallbackContext ==
  ASSUME TInv, NEW f \in FmSlot, Busy(f)
  PROVE  /\ table[f].callback_param \in Slot
         /\ request_info_table[table[f].callback_param] \in RequestInfo
         /\ request_info_table[table[f].callback_param].queue_entry \in Queues
         /\ request_info_table[table[f].callback_param].seed_id \in SeedId
         /\ request_info_table[table[f].callback_param].level \in Nat
         /\ request_info_table[table[f].callback_param].num_trials \in Nat
         /\ table[f].url \in Url
<1>1. table[f].callback_param \in Slot
  BY DEF TInv, TablesAgree
<1>2. request_info_table[table[f].callback_param] \in RequestInfo
  BY <1>1 DEF TInv, TypeOK
<1>3. table[f] \in TableEntry
  BY DEF TInv, TypeOK
<1> QED
  BY <1>1, <1>2, <1>3 DEF RequestInfo, TableEntry, Busy

\* The steps that leave the tables alone.
Quiet == \/ ParseEnd \/ StoreFails \/ FmProcessed \/ NoCommand \/ RejectCommand
         \/ SuspendUnknown \/ SetPaused \/ AnswerStatus \/ Die \/ Dispatch \/ PollReturns
         \/ \E c \in Commands : SendCommand(c)

LEMMA DispatchWait == ASSUME wait_until \in Int, Dispatch PROVE wait_until' \in Int
BY DEF Dispatch

LEMMA QuietTyped == ASSUME TInv, Quiet PROVE TInv'
<1> USE DEF TInv, TypeOK, TablesAgree, Busy, Live, manager_vars, site_vars, request_vars
<1>1. CASE ParseEnd
  BY <1>1 DEF ParseEnd
<1>2. CASE StoreFails
  BY <1>2 DEF StoreFails
<1>3. CASE FmProcessed
  BY <1>3 DEF FmProcessed
<1>4. CASE NoCommand
  BY <1>4 DEF NoCommand
<1>5. CASE SetPaused
  BY <1>5 DEF SetPaused, Handled
<1>6. CASE AnswerStatus
  BY <1>6 DEF AnswerStatus, Handled
<1>7. CASE Die
  BY <1>7 DEF Die
<1>8. CASE RejectCommand
  BY <1>8 DEF RejectCommand, Handled
<1>9. CASE SuspendUnknown
  BY <1>9 DEF SuspendUnknown
<1>10. CASE Dispatch
  <2>1. pc' \in {"poll", "select"}
    BY <1>10, Zenon DEF Dispatch
  <2>2. wait_until' \in Int
    BY <1>10, DispatchWait
  <2>3. UNCHANGED <<queue_info_table, request_vars, manager_vars, site_vars, callback, inbox>>
    BY <1>10 DEF Dispatch
  <2> QED
    BY <2>1, <2>2, <2>3
<1>11. CASE PollReturns
  BY <1>11 DEF PollReturns
<1>12. CASE \E c \in Commands : SendCommand(c)
  BY <1>12 DEF SendCommand
<1> QED
  BY <1>1, <1>2, <1>3, <1>4, <1>5, <1>6, <1>7, <1>8, <1>9, <1>10, <1>11, <1>12 DEF Quiet

LEMMA CallbackTyped == ASSUME TInv, Callback PROVE TInv'
<1>1. ASSUME NEW f \in FmSlot, NEW valid \in BOOLEAN,
             CallbackPage(f, valid) \/ CallbackRefused(f)
                \/ \E target \in Url : CallbackRedirect(f, valid, target)
      PROVE  TInv'
  <2> DEFINE req == request_info_table[table[f].callback_param]
             q == req.queue_entry
  <2>1. PICK v \in BOOLEAN : BeginCallback(f, v)
    BY <1>1, Zenon DEF CallbackPage, CallbackRefused, CallbackRedirect
  <2>2. /\ Busy(f) /\ callback' \in [entry : FmSlot \cup {None}, valid : BOOLEAN]
        /\ callback'.entry = f
        /\ UNCHANGED <<request_vars, manager_vars, site_vars, wait_until, inbox>>
    BY <2>1 DEF BeginCallback
  <2>3. q \in Queues /\ req.seed_id \in SeedId /\ req.level \in Nat
    BY <2>2, CallbackContext
  <2>4. queue_info_table[q] \in QueueInfo
    BY <2>3 DEF TInv, TypeOK
  <2>5. pc' \in {"parse", "finish"}
    BY <1>1 DEF CallbackPage, CallbackRefused, CallbackRedirect
  <2>6. queue_info_table' \in [Queues -> QueueInfo]
    <3>1. CASE CallbackPage(f, valid)
      <4> DEFINE allowed == queue_info_table[q].prefix_filter
                              \cup { u \in Disallowed : is_same_server(u, q) }
      <4>1. allowed \in SUBSET Url
        BY <2>4, FieldTypes, UrlAssumption
      <4>2. [queue_info_table[q] EXCEPT !.prefix_filter = allowed] \in QueueInfo
        BY <2>4, <4>1, SetField
      <4>3. \/ queue_info_table' = queue_info_table
            \/ queue_info_table' = [queue_info_table EXCEPT
                   ![q] = [queue_info_table[q] EXCEPT !.prefix_filter = allowed]]
        BY <3>1 DEF CallbackPage
      <4> QED
        BY <2>3, <4>2, <4>3 DEF TInv, TypeOK
    <3>2. CASE CallbackRefused(f)
      BY <3>2 DEF CallbackRefused, TInv, TypeOK
    <3>3. CASE \E target \in Url : CallbackRedirect(f, valid, target)
      <4>1. PICK target \in Url : CallbackRedirect(f, valid, target)
        BY <3>3
      <4> DEFINE info == [u |-> target, seed_id |-> req.seed_id, level |-> req.level]
      <4>2. info \in UrlInfo
        BY <2>3 DEF UrlInfo
      <4>3. PICK verdict : queue_info_table' =
                [queue_info_table EXCEPT ![q] = Offered(queue_info_table[q], info, verdict)]
        BY <4>1 DEF CallbackRedirect
      <4> QED
        BY <2>3, <2>4, <4>2, <4>3, OfferedType DEF TInv, TypeOK
    <3> QED
      BY <1>1, <3>1, <3>2, <3>3
  <2> QED
    BY <2>2, <2>5, <2>6
    DEF TInv, TypeOK, TablesAgree, Busy, Live, request_vars, manager_vars, site_vars
<1>2. ASSUME NEW link \in Url, ParseLink(link) PROVE TInv'
  <2> DEFINE f == callback.entry
             req == request_info_table[table[f].callback_param]
             q == req.queue_entry
             info == [u |-> link, seed_id |-> req.seed_id, level |-> req.level + 1]
  <2>1. f \in FmSlot /\ Busy(f)
    BY <1>2 DEF ParseLink, TInv, TablesAgree
  <2>2. q \in Queues /\ req.seed_id \in SeedId /\ req.level \in Nat
    BY <2>1, CallbackContext
  <2>3. queue_info_table[q] \in QueueInfo
    BY <2>2 DEF TInv, TypeOK
  <2>4. info \in UrlInfo
    BY <2>2 DEF UrlInfo
  <2>5. PICK verdict : queue_info_table' =
            [queue_info_table EXCEPT ![q] = Offered(queue_info_table[q], info, verdict)]
    BY <1>2 DEF ParseLink
  <2>6. queue_info_table' \in [Queues -> QueueInfo]
    BY <2>2, <2>3, <2>4, <2>5, OfferedType DEF TInv, TypeOK
  <2> QED
    BY <1>2, <2>6
    DEF ParseLink, TInv, TypeOK, TablesAgree, Busy, Live, request_vars, manager_vars, site_vars
<1>3. CASE FinishRequest
  <2> DEFINE f == callback.entry
             s == table[f].callback_param
             r == request_info_table[s]
             q == r.queue_entry
             info == [u |-> table[f].url, seed_id |-> r.seed_id, level |-> r.level]
             reqs == [request_info_table EXCEPT ![s] = FreeRequest]
             e == Counted(queue_info_table[q], callback.valid)
  <2>1. f \in FmSlot /\ Busy(f)
    BY <1>3 DEF FinishRequest, TInv, TablesAgree
  <2>2. /\ s \in Slot /\ q \in Queues /\ r.seed_id \in SeedId /\ r.level \in Nat
        /\ r.num_trials \in Nat /\ table[f].url \in Url
    BY <2>1, CallbackContext
  <2>3. e \in QueueInfo
    BY <2>2, CountedType DEF TInv, TypeOK
  <2>4. info \in UrlInfo
    BY <2>2 DEF UrlInfo
  <2>5. reqs \in [Slot -> RequestInfo]
    BY <2>2, FreeTypes DEF TInv, TypeOK
  <2>6. queue_info_table' \in [Queues -> QueueInfo]
    <3>1. \E d \in {Requested(e), Refused(e), e} :
             queue_info_table' = [queue_info_table EXCEPT ![q] = d]
      BY <1>3 DEF FinishRequest
    <3>2. PICK d \in {Requested(e), Refused(e), e} :
             queue_info_table' = [queue_info_table EXCEPT ![q] = d]
      BY <3>1
    <3>3. Requested(e) \in QueueInfo /\ Refused(e) \in QueueInfo
      BY <2>3, RequestedType
    <3>4. d \in QueueInfo
      BY <2>3, <3>3
    <3>5. queue_info_table \in [Queues -> QueueInfo]
      BY Typing
    <3> HIDE DEF q, e
    <3> QED
      BY <2>2, <3>2, <3>4, <3>5
  <2>7. /\ callback' = [entry |-> None, valid |-> FALSE] /\ pc' = "fm"
        /\ UNCHANGED <<manager_vars, site_vars, wait_until, inbox>>
    BY <1>3 DEF FinishRequest
  <2>counts. request_count' \in Int /\ num_pending_requests' \in Int
    <3>1. request_count' = request_count \/ request_count' = request_count - 1
      BY <1>3, Zenon DEF FinishRequest
    <3>2. \/ num_pending_requests' = num_pending_requests
          \/ num_pending_requests' = num_pending_requests - 1
      BY <1>3, Zenon DEF FinishRequest
    <3>3. request_count \in Int /\ num_pending_requests \in Int
      BY DEF TInv, TypeOK
    <3> QED
      BY <3>1, <3>2, <3>3
  <2>reqs. \A x \in Slot : x # s => reqs[x] = request_info_table[x]
    BY DEF TInv, TypeOK
  <2>mine. request_info_table[s].request_id = f /\ table[f].callback_param = s
    BY <2>1 DEF TInv, TablesAgree
  <2>8. CASE \E s2 \in Slot, f2 \in FmSlot :
                /\ reqs[s2].request_id = None /\ table[f2].url = None
                /\ request_info_table' = WithRequest(reqs, s2, f2, q, info, r.num_trials + 1)
                /\ table' = [WithEntry(table, f2, s2, info.u) EXCEPT ![f] = FreeEntry]
    <3>1. PICK s2 \in Slot, f2 \in FmSlot :
                /\ reqs[s2].request_id = None /\ table[f2].url = None
                /\ request_info_table' = WithRequest(reqs, s2, f2, q, info, r.num_trials + 1)
                /\ table' = [WithEntry(table, f2, s2, info.u) EXCEPT ![f] = FreeEntry]
      BY <2>8
    <3>2. request_info_table' \in [Slot -> RequestInfo]
      <4>1. r.num_trials + 1 \in Nat
        BY <2>2
      <4> HIDE DEF r, q, info, reqs
      <4> QED
        BY <2>2, <2>4, <2>5, <3>1, <4>1, WithRequestType
    <3>3. table' \in [FmSlot -> TableEntry]
      BY <2>1, <2>2, <3>1, WithEntryType, FreeTypes DEF TInv, TypeOK
    <3>4. TablesAgree'
      <4> HIDE DEF f, s, r, q, info
      <4>1. \A x \in Slot : request_info_table'[x].request_id =
               IF x = s2 THEN f2 ELSE IF x = s THEN None ELSE request_info_table[x].request_id
        BY <2>2, <3>1 DEF TInv, TypeOK, WithRequest, FreeRequest
      <4>2. f # f2
        BY <2>1, <3>1 DEF Busy
      <4>3. /\ table'[f] = FreeEntry
            /\ table'[f2].url = table[f].url /\ table'[f2].callback_param = s2
            /\ \A g \in FmSlot \ {f, f2} : table'[g] = table[g]
        BY <2>1, <3>1, <4>2 DEF TInv, TypeOK, WithEntry, info
      <4>4. ASSUME NEW x \in Slot, Live(x)'
            PROVE  table'[request_info_table'[x].request_id].url # None
                     /\ table'[request_info_table'[x].request_id].callback_param = x
        <5>1. CASE x = s2
          <6>1. request_info_table'[x].request_id = f2
            BY <5>1, <4>1
          <6>2. table'[f2].url # None /\ table'[f2].callback_param = x
            BY <5>1, <2>1, <4>3 DEF Busy
          <6> QED
            BY <6>1, <6>2
        <5>2. CASE x # s2
          <6>1. x # s /\ request_info_table'[x].request_id = request_info_table[x].request_id
            BY <5>2, <4>1, <4>4 DEF Live
          <6>2. LET g == request_info_table[x].request_id
                IN  g \in FmSlot /\ Busy(g) /\ table[g].callback_param = x
            BY <4>4, <6>1, RequestContext DEF Live, Busy
          <6>3. request_info_table[x].request_id \notin {f, f2}
            BY <6>1, <6>2, <2>mine, <3>1 DEF Busy
          <6> QED
            BY <6>1, <6>2, <6>3, <4>3 DEF Busy
        <5> QED
          BY <5>1, <5>2
      <4>5. ASSUME NEW g \in FmSlot, Busy(g)'
            PROVE  table'[g].callback_param \in Slot
                     /\ request_info_table'[table'[g].callback_param].request_id = g
        <5>1. g # f
          BY <4>3, <4>5 DEF Busy, FreeEntry
        <5>2. CASE g = f2
          BY <5>2, <3>1, <4>1, <4>3
        <5>3. CASE g # f2
          <6>1. Busy(g) /\ table'[g] = table[g]
            BY <4>3, <4>5, <5>1, <5>3 DEF Busy
          <6>2. /\ table[g].callback_param \in Slot
                /\ request_info_table[table[g].callback_param].request_id = g
            BY <6>1 DEF TInv, TablesAgree
          <6>3. table[g].callback_param # s
            BY <5>1, <6>2, <2>mine
          <6>4. table[g].callback_param # s2
            BY <6>2, <6>3, <3>1, <2>reqs, UrlAssumption
          <6> QED
            BY <6>1, <6>2, <6>3, <6>4, <4>1
        <5> QED
          BY <5>2, <5>3
      <4> QED
        BY <2>7, <4>4, <4>5 DEF TablesAgree, Live, Busy
    <3> QED
      BY <2>6, <2>7, <2>counts, <3>2, <3>3, <3>4 DEF TInv, TypeOK, manager_vars, site_vars
  <2>9. CASE request_info_table' = reqs /\ table' = [table EXCEPT ![f] = FreeEntry]
    <3>1. table' \in [FmSlot -> TableEntry]
      BY <2>1, <2>9, FreeTypes DEF TInv, TypeOK
    <3>2. TablesAgree'
      <4> HIDE DEF f, s, r, q, info
      <4>1. \A x \in Slot : request_info_table'[x].request_id =
               IF x = s THEN None ELSE request_info_table[x].request_id
        BY <2>2, <2>9 DEF TInv, TypeOK, FreeRequest
      <4>2. table'[f] = FreeEntry /\ \A g \in FmSlot \ {f} : table'[g] = table[g]
        BY <2>1, <2>9 DEF TInv, TypeOK
      <4>3. ASSUME NEW x \in Slot, Live(x)'
            PROVE  table'[request_info_table'[x].request_id].url # None
                     /\ table'[request_info_table'[x].request_id].callback_param = x
        <5>1. x # s /\ request_info_table'[x].request_id = request_info_table[x].request_id
          BY <4>1, <4>3 DEF Live
        <5>2. LET g == request_info_table[x].request_id
              IN  g \in FmSlot /\ Busy(g) /\ table[g].callback_param = x
          BY <4>3, <5>1, RequestContext DEF Live, Busy
        <5> QED
          BY <5>1, <5>2, <2>mine, <4>2 DEF Busy
      <4>4. ASSUME NEW g \in FmSlot, Busy(g)'
            PROVE  table'[g].callback_param \in Slot
                     /\ request_info_table'[table'[g].callback_param].request_id = g
        <5>1. g # f /\ table'[g] = table[g] /\ Busy(g)
          BY <4>2, <4>4 DEF Busy, FreeEntry
        <5>2. /\ table[g].callback_param \in Slot
              /\ request_info_table[table[g].callback_param].request_id = g
          BY <5>1 DEF TInv, TablesAgree
        <5> QED
          BY <5>1, <5>2, <2>mine, <4>1
      <4> QED
        BY <2>7, <4>3, <4>4 DEF TablesAgree, Live, Busy
    <3> QED
      BY <2>5, <2>6, <2>7, <2>counts, <2>9, <3>1, <3>2 DEF TInv, TypeOK, manager_vars, site_vars
  <2> QED
    BY <1>3, <2>8, <2>9 DEF FinishRequest
<1>4. CASE ParseEnd \/ StoreFails
  BY <1>4, QuietTyped DEF Quiet
<1> QED
  BY <1>1, <1>2, <1>3, <1>4 DEF Callback

\* A new entry of the queue table.
LEMMA LoadTyped ==
  ASSUME TInv, NEW e \in QueueInfo, pc = "command", LoadEntry(e)
  PROVE  TInv'
<1>1. cur_queue_id' \in Nat /\ queue_count' \in Int /\ numsites' \in Int
  <2>1. /\ cur_queue_id' = cur_queue_id + 1 /\ queue_count' = queue_count + 1
        /\ numsites' = numsites + 1
    BY DEF LoadEntry
  <2> QED
    BY <2>1, Counters
<1>2. queue_info_table' \in [Queues -> QueueInfo]
  <2>1. PICK q \in Queues : queue_info_table' =
            [queue_info_table EXCEPT ![q] = [e EXCEPT !.queue_id = cur_queue_id']]
    BY DEF LoadEntry
  <2>2. [e EXCEPT !.queue_id = cur_queue_id'] \in QueueInfo
    BY <1>1, SetField
  <2> QED
    BY <2>1, <2>2 DEF TInv, TypeOK
<1>3. /\ pc' = "dispatch" /\ inbox' = "none"
      /\ UNCHANGED <<request_vars, queue_info_table_cursor, paused, reports, saved,
                     callback, wait_until>>
  BY DEF LoadEntry, Handled
<1> QED
  BY <1>1, <1>2, <1>3 DEF TInv, TypeOK, TablesAgree, Busy, Live, request_vars

\* Cancelling the requests of a site takes them out of both tables.
LEMMA CancelTyped ==
  ASSUME TInv, NEW q \in Queues, CancelRequests(q), pc' \notin {"parse", "finish"}
  PROVE  /\ request_info_table' \in [Slot -> RequestInfo]
         /\ table' \in [FmSlot -> TableEntry]
         /\ request_count' \in Int /\ num_pending_requests' \in Int
         /\ TablesAgree'
<1> DEFINE mine == RequestsOf(q)
           ids == { request_info_table[s].request_id : s \in mine }
           gone == { f \in ids : Busy(f) }
<1>1. ids \subseteq FmSlot
  BY RequestContext DEF RequestsOf, Live
<1>2. /\ request_info_table' =
           [s \in Slot |-> IF s \in mine THEN FreeRequest ELSE request_info_table[s]]
      /\ table' = [f \in FmSlot |-> IF f \in ids THEN FreeEntry ELSE table[f]]
  BY DEF CancelRequests
<1>3. request_info_table' \in [Slot -> RequestInfo] /\ table' \in [FmSlot -> TableEntry]
  BY <1>2, FreeTypes DEF TInv, TypeOK
<1>4. request_count' \in Int /\ num_pending_requests' \in Int
  <2>1. mine \subseteq Slot /\ gone \subseteq FmSlot
    BY <1>1 DEF RequestsOf
  <2>2. Cardinality(mine) \in Nat /\ Cardinality(gone) \in Nat
    BY <2>1, SizeAssumption, FS_Subset, FS_CardinalityType
  <2>3. /\ request_count' = request_count - Cardinality(mine)
        /\ num_pending_requests' = num_pending_requests - Cardinality(gone)
    BY DEF CancelRequests
  <2> QED
    BY <2>2, <2>3, Counters
<1>5. ASSUME NEW x \in Slot, request_info_table'[x].request_id # None
      PROVE  /\ table'[request_info_table'[x].request_id].url # None
             /\ table'[request_info_table'[x].request_id].callback_param = x
  <2>1. x \notin mine /\ request_info_table'[x] = request_info_table[x]
    BY <1>2, <1>5 DEF FreeRequest
  <2> DEFINE g == request_info_table[x].request_id
  <2>2. g \in FmSlot /\ Busy(g) /\ table[g].callback_param = x
    BY <1>5, <2>1, RequestContext DEF Busy
  <2>3. g \notin ids
    BY <2>1, <2>2 DEF TInv, TablesAgree, RequestsOf
  <2> QED
    BY <1>2, <2>1, <2>2, <2>3 DEF Busy
<1>6. ASSUME NEW g \in FmSlot, table'[g].url # None
      PROVE  /\ table'[g].callback_param \in Slot
             /\ request_info_table'[table'[g].callback_param].request_id = g
  <2>1. g \notin ids /\ table'[g] = table[g] /\ Busy(g)
    BY <1>2, <1>6 DEF FreeEntry, Busy
  <2>2. /\ table[g].callback_param \in Slot
        /\ request_info_table[table[g].callback_param].request_id = g
    BY <2>1 DEF TInv, TablesAgree
  <2> QED
    BY <1>2, <2>1, <2>2
<1> QED
  BY <1>3, <1>4, <1>5, <1>6 DEF TablesAgree, Live, Busy

LEMMA DeleteTyped ==
  ASSUME TInv, NEW q \in Queues, delete_queue(q), pc' \notin {"parse", "finish"}
  PROVE  /\ queue_info_table' \in [Queues -> QueueInfo]
         /\ queue_count' \in Int /\ numsites' \in Int
         /\ request_info_table' \in [Slot -> RequestInfo]
         /\ table' \in [FmSlot -> TableEntry]
         /\ request_count' \in Int /\ num_pending_requests' \in Int
         /\ TablesAgree'
<1>1. CancelRequests(q) /\ queue_info_table' = [queue_info_table EXCEPT ![q] = EmptyQueue]
  BY DEF delete_queue
<1>2. queue_count' \in Int /\ numsites' \in Int
  <2>1. queue_count' = queue_count - 1 /\ numsites' = numsites - 1
    BY DEF delete_queue
  <2> QED
    BY <2>1, Counters
<1>3. queue_info_table' \in [Queues -> QueueInfo]
  BY <1>1, EmptyType DEF TInv, TypeOK
<1> QED
  BY <1>1, <1>2, <1>3, CancelTyped

LEMMA CommandTyped == ASSUME TInv, Command PROVE TInv'
<1>1. ASSUME NEW s \in Site, request_crawl(s) PROVE TInv'
  BY <1>1, NewQueueType, LoadTyped DEF request_crawl
<1>2. ASSUME NEW r \in saved, load_queue(r) PROVE TInv'
  <2>1. r.info \in QueueInfo
    BY DEF TInv, TypeOK
  <2> QED
    BY <1>2, <2>1, LoadTyped DEF load_queue
<1>3. ASSUME NEW q \in Queues, suspend_crawl(q) PROVE TInv'
  <2>1. queue_info_table[q] \in QueueInfo
    BY DEF TInv, TypeOK
  <2>2. [queue_id |-> queue_info_table[q].queue_id, info |-> SavedInfo(queue_info_table[q])]
          \in [queue_id : Nat, info : QueueInfo]
    BY <2>1, FieldTypes, SavedType
  <2>3. saved' \subseteq [queue_id : Nat, info : QueueInfo]
    BY <1>3, <2>2 DEF suspend_crawl, TInv, TypeOK
  <2>4. /\ delete_queue(q) /\ pc' = "dispatch" /\ inbox' = "none"
        /\ UNCHANGED <<manager_vars, reports, callback, wait_until>>
    BY <1>3 DEF suspend_crawl, Handled
  <2> QED
    BY <2>3, <2>4, DeleteTyped DEF TInv, TypeOK, manager_vars
<1>4. CASE NoCommand \/ RejectCommand \/ SuspendUnknown \/ SetPaused \/ AnswerStatus \/ Die
  BY <1>4, QuietTyped DEF Quiet
<1> QED
  BY <1>1, <1>2, <1>3, <1>4 DEF Command

LEMMA SelectTyped == ASSUME TInv, Select PROVE TInv'
<1>1. ASSUME NEW q \in Queues, ReportSite(q) PROVE TInv'
  <2>1. queue_info_table[q] \in QueueInfo
    BY DEF TInv, TypeOK
  <2>2. /\ queue_info_table[q].queue_id \in Nat
        /\ ReportStatus(queue_info_table[q]) \in QueueStatus \cup {"Too many Errors"}
    BY <2>1, FieldTypes DEF ReportStatus
  <2>3. reports' \subseteq [queue_id : Nat, status : QueueStatus \cup {"Too many Errors"}]
    <3> DEFINE told == [queue_id |-> queue_info_table[q].queue_id,
                        status |-> ReportStatus(queue_info_table[q])]
    <3>1. reports' = reports \cup {told}
      BY <1>1 DEF ReportSite
    <3>3. told \in [queue_id : Nat, status : QueueStatus \cup {"Too many Errors"}]
      BY <2>2
    <3> HIDE DEF told
    <3>2. reports \subseteq [queue_id : Nat, status : QueueStatus \cup {"Too many Errors"}]
      BY DEF TInv, TypeOK
    <3> QED
      BY <3>1, <3>2, <3>3
  <2>4. /\ delete_queue(q) /\ pc' = "select" /\ queue_info_table_cursor' = q
        /\ UNCHANGED <<cur_queue_id, paused, saved, callback, wait_until, inbox>>
    BY <1>1 DEF ReportSite
  <2> QED
    BY <2>3, <2>4, DeleteTyped DEF TInv, TypeOK
<1>2. ASSUME NEW q \in Queues, HoldBack(q) PROVE TInv'
  <2>1. /\ pc' = "poll" /\ wait_until' \in Int /\ queue_info_table_cursor' \in Queues
        /\ UNCHANGED <<queue_info_table, request_vars, cur_queue_id, paused, site_vars,
                       callback, inbox>>
    BY <1>2 DEF HoldBack, SelectReady
  <2> QED
    <3>1. TypeOK'
      BY <2>1 DEF TInv, TypeOK, request_vars, site_vars
    <3>2. TablesAgree'
      BY <2>1 DEF TInv, TablesAgree, Busy, Live, request_vars
    <3> QED
      BY <3>1, <3>2 DEF TInv
<1>3. ASSUME NEW q \in Queues, FetchNext(q) PROVE TInv'
  <2> DEFINE e == queue_info_table[q]
             info == Head(e.urls_to_crawl)
  <2>1. /\ e.urls_to_crawl # << >> /\ pc' = "poll" /\ wait_until' \in Int
        /\ queue_info_table_cursor' \in Queues
        /\ UNCHANGED <<cur_queue_id, paused, site_vars, callback, inbox>>
    BY <1>3 DEF FetchNext, SelectReady, Selected, Stops, IsDone, IsReady
  <2>2. pop_url(e) \in QueueInfo /\ info \in UrlInfo
    BY <2>1, PopType DEF TInv, TypeOK
  <2>3. queue_info_table' \in [Queues -> QueueInfo]
    <3>1. \/ queue_info_table' = [queue_info_table EXCEPT ![q] = Requested(pop_url(e))]
          \/ queue_info_table' = [queue_info_table EXCEPT ![q] = Refused(pop_url(e))]
      BY <1>3 DEF FetchNext
    <3> QED
      BY <2>2, <3>1, RequestedType DEF TInv, TypeOK
  <2>4. CASE UNCHANGED request_vars
    BY <2>1, <2>3, <2>4 DEF TInv, TypeOK, TablesAgree, Busy, Live, request_vars, site_vars
  <2>5. CASE /\ \E s \in Slot, f \in FmSlot :
                  /\ ~Live(s) /\ ~Busy(f)
                  /\ request_info_table' = WithRequest(request_info_table, s, f, q, info, 0)
                  /\ table' = WithEntry(table, f, s, info.u)
             /\ request_count' = request_count + 1
             /\ num_pending_requests' = num_pending_requests + 1
    <3>1. PICK s \in Slot, f \in FmSlot :
             /\ ~Live(s) /\ ~Busy(f)
             /\ request_info_table' = WithRequest(request_info_table, s, f, q, info, 0)
             /\ table' = WithEntry(table, f, s, info.u)
      BY <2>5
    <3>2. info.u \in Url
      BY <2>2 DEF UrlInfo
    <3>3. /\ request_info_table \in [Slot -> RequestInfo]
          /\ table \in [FmSlot -> TableEntry] /\ 0 \in Nat
      BY DEF TInv, TypeOK
    <3> HIDE DEF info, e
    <3>4. request_info_table' \in [Slot -> RequestInfo] /\ table' \in [FmSlot -> TableEntry]
      BY <2>2, <3>1, <3>2, <3>3, WithRequestType, WithEntryType
    <3>5. request_count' \in Int /\ num_pending_requests' \in Int
      BY <2>5, Counters
    <3>6. /\ request_info_table'[s].request_id = f
          /\ \A x \in Slot \ {s} : request_info_table'[x] = request_info_table[x]
          /\ table'[f].url = info.u /\ table'[f].callback_param = s
          /\ \A g \in FmSlot \ {f} : table'[g] = table[g]
      BY <3>1, <3>3 DEF WithRequest, WithEntry
    <3>7. ASSUME NEW x \in Slot, request_info_table'[x].request_id # None
          PROVE  /\ table'[request_info_table'[x].request_id].url # None
                 /\ table'[request_info_table'[x].request_id].callback_param = x
      <4>1. CASE x = s
        BY <4>1, <3>2, <3>6, UrlAssumption
      <4>2. CASE x # s
        <5> DEFINE g == request_info_table[x].request_id
        <5>1. g \in FmSlot /\ Busy(g) /\ table[g].callback_param = x
          BY <4>2, <3>6, <3>7, RequestContext DEF Busy
        <5> QED
          BY <4>2, <5>1, <3>1, <3>6 DEF Busy
      <4> QED
        BY <4>1, <4>2
    <3>8. ASSUME NEW g \in FmSlot, table'[g].url # None
          PROVE  /\ table'[g].callback_param \in Slot
                 /\ request_info_table'[table'[g].callback_param].request_id = g
      <4>1. CASE g = f
        BY <4>1, <3>6
      <4>2. CASE g # f
        <5>1. table'[g] = table[g] /\ Busy(g)
          BY <4>2, <3>6, <3>8 DEF Busy
        <5>2. /\ table[g].callback_param \in Slot
              /\ request_info_table[table[g].callback_param].request_id = g
          BY <5>1 DEF TInv, TablesAgree
        <5>3. table[g].callback_param # s
          BY <5>2, <3>1, UrlAssumption DEF Live
        <5> QED
          BY <5>1, <5>2, <5>3, <3>6
      <4> QED
        BY <4>1, <4>2
    <3>9. TablesAgree'
      BY <2>1, <3>7, <3>8 DEF TablesAgree, Live, Busy
    <3> QED
      BY <2>1, <2>3, <3>4, <3>5, <3>9 DEF TInv, TypeOK, site_vars
  <2> QED
    BY <1>3, <2>4, <2>5 DEF FetchNext
<1>4. CASE SelectNone
  <2>1. wait_until' \in Int
    <3>1. \A w \in Waits : w \in Int
      BY Typing, FieldTypes DEF Waits
    <3> QED
      BY <1>4, <3>1 DEF SelectNone
  <2>2. pc' = "poll" /\ UNCHANGED <<queue_info_table, request_vars, manager_vars,
                                    site_vars, callback, inbox>>
    BY <1>4 DEF SelectNone
  <2> QED
    BY <2>1, <2>2 DEF TInv, TypeOK, TablesAgree, Busy, Live, request_vars, manager_vars, site_vars
<1>5. CASE Dispatch
  BY <1>5, QuietTyped DEF Quiet
<1> QED
  BY <1>1, <1>2, <1>3, <1>4, <1>5 DEF Select

LEMMA PeersTyped == ASSUME TInv, Peers PROVE TInv'
<1>1. ASSUME NEW f \in FmSlot, ServerAnswers(f) \/ RequestExpires(f) PROVE TInv'
  <2>1. \/ table' = [table EXCEPT ![f].ready = TRUE]
        \/ table' = [table EXCEPT ![f].expired = TRUE]
    BY <1>1 DEF ServerAnswers, RequestExpires
  <2>2. table \in [FmSlot -> TableEntry]
    BY Typing
  <2>3. table' \in [FmSlot -> TableEntry]
    BY <2>1, <2>2 DEF TableEntry
  <2>4. \A g \in FmSlot : /\ table'[g].url = table[g].url
                          /\ table'[g].callback_param = table[g].callback_param
    BY <2>1, <2>2 DEF TableEntry
  <2>5. UNCHANGED <<queue_info_table, request_info_table, request_count, num_pending_requests,
                   manager_vars, site_vars, callback, wait_until, pc, inbox>>
    BY <1>1 DEF ServerAnswers, RequestExpires
  <2>6. TypeOK'
    BY <2>3, <2>5 DEF TInv, TypeOK, manager_vars, site_vars
  <2>7. ASSUME NEW x \in Slot, request_info_table'[x].request_id # None
        PROVE  /\ table'[request_info_table'[x].request_id].url # None
               /\ table'[request_info_table'[x].request_id].callback_param = x
    BY <2>4, <2>5, <2>7, RequestContext
  <2>8. ASSUME NEW g \in FmSlot, table'[g].url # None
        PROVE  /\ table'[g].callback_param \in Slot
               /\ request_info_table'[table'[g].callback_param].request_id = g
    BY <2>4, <2>5, <2>8 DEF TInv, TablesAgree, Busy
  <2>9. pc' \in {"parse", "finish"}
           => callback'.entry \in FmSlot /\ table'[callback'.entry].url # None
    BY <2>4, <2>5 DEF TInv, TablesAgree, Busy
  <2> QED
    BY <2>6, <2>7, <2>8, <2>9 DEF TInv, TablesAgree, Live, Busy
<1>2. CASE \E c \in Commands : SendCommand(c)
  BY <1>2, QuietTyped DEF Quiet
<1> QED
  BY <1>1, <1>2 DEF Peers

LEMMA TickTyped == ASSUME TInv, Tick PROVE TInv'
<1>1. \A t \in Nat : Sooner(t) \in Nat
  BY DEF Sooner
<1>2. \A t \in Int : Sooner(t) \in Int
  BY DEF Sooner
<1>3. wait_until' \in Int
  BY <1>2, Counters DEF Tick
<1>4. queue_info_table' \in [Queues -> QueueInfo]
  <2>1. queue_info_table' =
          [q \in Queues |-> [queue_info_table[q] EXCEPT !.due = Sooner(queue_info_table[q].due)]]
    BY DEF Tick
  <2>2. ASSUME NEW q \in Queues
        PROVE  [queue_info_table[q] EXCEPT !.due = Sooner(queue_info_table[q].due)] \in QueueInfo
    <3>1. queue_info_table[q] \in QueueInfo
      BY Typing
    <3>2. Sooner(queue_info_table[q].due) \in Nat
      BY <1>1, <3>1, FieldTypes
    <3> QED
      BY <3>1, <3>2, SetField
  <2> QED
    BY <2>1, <2>2
<1>5. UNCHANGED <<request_vars, manager_vars, site_vars, callback, pc, inbox>>
  BY DEF Tick
<1> QED
  BY <1>3, <1>4, <1>5
  DEF TInv, TypeOK, TablesAgree, Busy, Live, request_vars, manager_vars, site_vars

LEMMA StepTyped == TInv /\ [Next]_vars => TInv'
<1> SUFFICES ASSUME TInv, [Next]_vars PROVE TInv'
  OBVIOUS
<1>1. CASE UNCHANGED vars \/ Stopped
  <2>1. UNCHANGED vars
    BY <1>1 DEF Stopped
  <2> QED
    BY <2>1
    DEF vars, TInv, TypeOK, TablesAgree, Busy, Live, request_vars, manager_vars, site_vars
<1>2. CASE Loop
  <2>1. CASE PollReturns \/ FmProcessed
    BY <2>1, QuietTyped DEF Quiet
  <2> QED
    BY <1>2, <2>1, CallbackTyped, CommandTyped, SelectTyped DEF Loop
<1> QED
  BY <1>1, <1>2, PeersTyped, TickTyped DEF Next

\* Every variable keeps its type, the counters of slots and sites included, for
\* any number of sites, entries and slots.
THEOREM TypeCorrect == Spec => []TypeOK
<1>1. Spec => []TInv
  BY InitTyped, StepTyped, PTL DEF Spec
<1>2. TInv => TypeOK
  BY DEF TInv
<1> QED
  BY <1>1, <1>2, PTL

\* The manager and the fetch module never disagree about the requests in flight:
\* whatever is cancelled, retried or reused, callback_param leads to the slot
\* whose request_id leads back.
THEOREM TablesCorrect == Spec => []TablesAgree
<1>1. Spec => []TInv
  BY InitTyped, StepTyped, PTL DEF Spec
<1>2. TInv => TablesAgree
  BY DEF TInv
<1> QED
  BY <1>1, <1>2, PTL

-----------------------------------------------------------------------------
(* A request answers to the site that asked for it (RequestBelongsToSite). *)

\* The URLs that wait in an entry are of its site.
UrlsOfSite(e) == \A i \in DOMAIN e.urls_to_crawl : SiteOf[e.urls_to_crawl[i].u] = e.site

\* An entry without a site is blank, so that no request can point to it: the
\* request's URL has a site.
SiteInv ==
  /\ \A q \in Queues : ~Loaded(q) => queue_info_table[q].site = None
  /\ \A q \in Queues : UrlsOfSite(queue_info_table[q])
  /\ \A r \in saved : UrlsOfSite(r.info)
  /\ RequestBelongsToSite

-----------------------------------------------------------------------------
(* What the operators on an entry keep. *)

Same(d, e) == d.queue_id = e.queue_id /\ d.site = e.site
Alike(d, e) == Same(d, e) /\ d.urls_to_crawl = e.urls_to_crawl

LEMMA RequestedKeeps ==
  ASSUME NEW e \in QueueInfo
  PROVE  Alike(Requested(e), e) /\ Alike(Refused(e), e)
BY DEF Alike, Same, Requested, Refused, QueueInfo

LEMMA CountedKeeps ==
  ASSUME NEW e \in QueueInfo, NEW valid \in BOOLEAN
  PROVE  Alike(Counted(e, valid), e)
BY DEF Alike, Same, Counted, QueueInfo

LEMMA PushKeeps ==
  ASSUME NEW e \in QueueInfo, NEW info \in UrlInfo, UrlsOfSite(e), SiteOf[info.u] = e.site
  PROVE  Same(push_url(e, info), e) /\ UrlsOfSite(push_url(e, info))
<1>1. CASE push_url(e, info) = e
  BY <1>1 DEF Same
<1>2. CASE push_url(e, info) # e
  <2> DEFINE d == push_url(e, info)
  <2>1. /\ d.site = e.site /\ d.queue_id = e.queue_id
        /\ d.urls_to_crawl = Append(e.urls_to_crawl, info)
    BY <1>2 DEF push_url, QueueInfo
  <2>2. e.urls_to_crawl \in Seq(UrlInfo)
    BY FieldTypes
  <2>3. ASSUME NEW i \in DOMAIN Append(e.urls_to_crawl, info)
        PROVE  SiteOf[Append(e.urls_to_crawl, info)[i].u] = e.site
    BY <2>2 DEF UrlsOfSite
  <2> QED
    BY <2>1, <2>3 DEF Same, UrlsOfSite
<1> QED
  BY <1>1, <1>2

LEMMA PopKeeps ==
  ASSUME NEW e \in QueueInfo, UrlsOfSite(e), e.urls_to_crawl # << >>
  PROVE  /\ Same(pop_url(e), e) /\ UrlsOfSite(pop_url(e))
         /\ SiteOf[Head(e.urls_to_crawl).u] = e.site
<1>1. e.urls_to_crawl \in Seq(UrlInfo)
  BY FieldTypes
<1>2. /\ pop_url(e).site = e.site /\ pop_url(e).queue_id = e.queue_id
      /\ pop_url(e).urls_to_crawl = Tail(e.urls_to_crawl)
  BY DEF pop_url, QueueInfo
<1>3. SiteOf[Head(e.urls_to_crawl).u] = e.site
  BY <1>1 DEF UrlsOfSite
<1>4. ASSUME NEW i \in DOMAIN Tail(e.urls_to_crawl)
      PROVE  SiteOf[Tail(e.urls_to_crawl)[i].u] = e.site
  BY <1>1 DEF UrlsOfSite
<1> QED
  BY <1>2, <1>3, <1>4 DEF Same, UrlsOfSite

LEMMA OfferedKeeps ==
  ASSUME NEW e \in QueueInfo, NEW info \in UrlInfo, NEW verdict, UrlsOfSite(e),
         SiteOf[info.u] = e.site
  PROVE  Same(Offered(e, info, verdict), e) /\ UrlsOfSite(Offered(e, info, verdict))
<1> DEFINE d == push_url(e, info)
<1>1. d \in QueueInfo /\ Same(d, e) /\ UrlsOfSite(d)
  BY PushType, PushKeeps
<1>2. LET c == [d EXCEPT !.url_count_per_seed[info.seed_id] = @ + 1]
      IN  Same(c, e) /\ UrlsOfSite(c)
  <2> HIDE DEF d
  <2> QED
    BY <1>1 DEF Same, UrlsOfSite, QueueInfo
<1>3. /\ Alike([e EXCEPT !.status = "Max Level"], e)
      /\ Alike([e EXCEPT !.status = "Max Count"], e)
  BY DEF Alike, Same, QueueInfo
<1>4. \A c : Alike(c, e) => Same(c, e) /\ UrlsOfSite(c)
  BY DEF Alike, Same, UrlsOfSite
<1>5. Same(e, e)
  BY DEF Same
<1> QED
  BY <1>1, <1>2, <1>3, <1>4, <1>5 DEF Offered

-----------------------------------------------------------------------------
(* Steps that leave every site in its entry. *)

\* The requests in flight after the step, with the sites before it.
AskedBySite ==
  \A x \in Slot : request_info_table'[x].request_id # None =>
    /\ request_info_table'[x].queue_entry \in Queues
    /\ SiteOf[table'[request_info_table'[x].request_id].url]
         = queue_info_table[request_info_table'[x].queue_entry].site

LEMMA SitesStay ==
  ASSUME TInv, SiteInv, saved' = saved, AskedBySite,
         \A p \in Queues : /\ Same(queue_info_table'[p], queue_info_table[p])
                          /\ UrlsOfSite(queue_info_table'[p])
  PROVE  SiteInv'
<1>1. \A p \in Queues : queue_info_table'[p].queue_id = 0 => queue_info_table'[p].site = None
  BY DEF SiteInv, Same, Loaded
<1>2. \A r \in saved' : UrlsOfSite(r.info)
  BY DEF SiteInv
<1>3. \A x \in Slot : request_info_table'[x].request_id # None =>
         SiteOf[table'[request_info_table'[x].request_id].url]
           = queue_info_table'[request_info_table'[x].queue_entry].site
  BY DEF AskedBySite, Same
<1> QED
  BY <1>1, <1>2, <1>3 DEF SiteInv, Loaded, Live, RequestBelongsToSite, UrlsOfSite

\* One entry changes, the requests do not.
LEMMA OneEntry ==
  ASSUME TInv, SiteInv, NEW q \in Queues, NEW d, Same(d, queue_info_table[q]), UrlsOfSite(d),
         queue_info_table' = [queue_info_table EXCEPT ![q] = d]
  PROVE  \A p \in Queues : /\ Same(queue_info_table'[p], queue_info_table[p])
                          /\ UrlsOfSite(queue_info_table'[p])
<1>1. queue_info_table \in [Queues -> QueueInfo]
  BY Typing
<1> TAKE p \in Queues
<1>2. CASE p = q
  BY <1>1, <1>2
<1>3. CASE p # q
  <2>1. queue_info_table'[p] = queue_info_table[p]
    BY <1>1, <1>3
  <2> QED
    BY <2>1 DEF SiteInv, Same
<1> QED
  BY <1>2, <1>3

LEMMA AskedBySiteStays ==
  ASSUME TInv, SiteInv, UNCHANGED <<request_info_table, table>>
  PROVE  AskedBySite
BY RequestContext DEF SiteInv, RequestBelongsToSite, Live, AskedBySite

LEMMA InitSites == Init => SiteInv
<1> SUFFICES ASSUME Init PROVE SiteInv
  OBVIOUS
<1>1. /\ queue_info_table = [q \in Queues |-> EmptyQueue]
      /\ request_info_table = [s \in Slot |-> FreeRequest] /\ saved = {}
  BY DEF Init
<1> QED
  BY <1>1 DEF SiteInv, UrlsOfSite, Live, RequestBelongsToSite, EmptyQueue, FreeRequest

LEMMA QuietSites ==
  ASSUME TInv, SiteInv, UNCHANGED <<queue_info_table, request_info_table, table, saved>>
  PROVE  SiteInv'
<1>1. AskedBySite
  BY AskedBySiteStays
<1>2. \A p \in Queues : /\ Same(queue_info_table'[p], queue_info_table[p])
                        /\ UrlsOfSite(queue_info_table'[p])
  BY DEF SiteInv, Same
<1> QED
  BY <1>1, <1>2, SitesStay

LEMMA CallbackSites == ASSUME TInv, SiteInv, Callback PROVE SiteInv'
<1>1. ASSUME NEW f \in FmSlot, NEW valid \in BOOLEAN, CallbackPage(f, valid) PROVE SiteInv'
  <2> DEFINE q == request_info_table[table[f].callback_param].queue_entry
             e == queue_info_table[q]
             allowed == e.prefix_filter \cup { u \in Disallowed : is_same_server(u, q) }
  <2>1. Busy(f) /\ UNCHANGED <<request_info_table, table, saved>>
    BY <1>1 DEF CallbackPage, BeginCallback, request_vars, site_vars
  <2>2. q \in Queues
    BY <2>1, CallbackContext
  <2>3. e \in QueueInfo
    BY <2>2, Typing
  <2>4. CASE queue_info_table' = queue_info_table
    BY <2>1, <2>4, QuietSites
  <2>5. CASE queue_info_table' = [queue_info_table EXCEPT ![q] =
                                    [e EXCEPT !.prefix_filter = allowed]]
    <3>1. /\ Same([e EXCEPT !.prefix_filter = allowed], e)
          /\ UrlsOfSite([e EXCEPT !.prefix_filter = allowed])
      <4>1. UrlsOfSite(e)
        BY <2>2 DEF SiteInv
      <4> HIDE DEF e, allowed
      <4> QED
        BY <2>3, <4>1 DEF Same, UrlsOfSite, QueueInfo
    <3> HIDE DEF q, allowed
    <3>2. AskedBySite
      BY <2>1, AskedBySiteStays
    <3> QED
      BY <2>1, <2>2, <2>5, <3>1, <3>2, OneEntry, SitesStay
  <2> QED
    BY <1>1, <2>4, <2>5 DEF CallbackPage
<1>2. ASSUME NEW f \in FmSlot, CallbackRefused(f) PROVE SiteInv'
  BY <1>2, QuietSites DEF CallbackRefused, BeginCallback, request_vars, site_vars
<1>3. ASSUME NEW f \in FmSlot, NEW valid \in BOOLEAN, NEW target \in Url,
             CallbackRedirect(f, valid, target)
      PROVE  SiteInv'
  <2> DEFINE req == request_info_table[table[f].callback_param]
             q == req.queue_entry
             e == queue_info_table[q]
             info == [u |-> target, seed_id |-> req.seed_id, level |-> req.level]
  <2>1. Busy(f) /\ UNCHANGED <<request_info_table, table, saved>>
    BY <1>3 DEF CallbackRedirect, BeginCallback, request_vars, site_vars
  <2>2. q \in Queues /\ req.seed_id \in SeedId /\ req.level \in Nat
    BY <2>1, CallbackContext
  <2>3. e \in QueueInfo /\ UrlsOfSite(e)
    BY <2>2, Typing DEF SiteInv
  <2>4. info \in UrlInfo /\ SiteOf[info.u] = e.site
    BY <1>3, <2>2 DEF UrlInfo, CallbackRedirect, is_same_server
  <2>5. PICK verdict : queue_info_table' =
            [queue_info_table EXCEPT ![q] = Offered(e, info, verdict)]
    BY <1>3 DEF CallbackRedirect
  <2> HIDE DEF req, q, info
  <2>6. Same(Offered(e, info, verdict), e) /\ UrlsOfSite(Offered(e, info, verdict))
    BY <2>3, <2>4, OfferedKeeps
  <2>7. AskedBySite
    BY <2>1, AskedBySiteStays
  <2> QED
    BY <2>1, <2>2, <2>5, <2>6, <2>7, OneEntry, SitesStay
<1>4. ASSUME NEW link \in Url, ParseLink(link) PROVE SiteInv'
  <2> DEFINE f == callback.entry
             req == request_info_table[table[f].callback_param]
             q == req.queue_entry
             e == queue_info_table[q]
             info == [u |-> link, seed_id |-> req.seed_id, level |-> req.level + 1]
  <2>1. f \in FmSlot /\ Busy(f) /\ UNCHANGED <<request_info_table, table, saved>>
    BY <1>4 DEF ParseLink, TInv, TablesAgree, request_vars, site_vars
  <2>2. q \in Queues /\ req.seed_id \in SeedId /\ req.level \in Nat
    BY <2>1, CallbackContext
  <2>3. e \in QueueInfo /\ UrlsOfSite(e)
    BY <2>2, Typing DEF SiteInv
  <2>4. info \in UrlInfo /\ SiteOf[info.u] = e.site
    <3>1. SiteOf[link] = e.site
      BY <1>4 DEF ParseLink, is_same_server
    <3>2. req.level + 1 \in Nat
      BY <2>2
    <3> HIDE DEF req, e
    <3> QED
      BY <2>2, <3>1, <3>2 DEF UrlInfo
  <2>5. PICK verdict : queue_info_table' =
            [queue_info_table EXCEPT ![q] = Offered(e, info, verdict)]
    BY <1>4 DEF ParseLink
  <2> HIDE DEF req, q, info
  <2>6. Same(Offered(e, info, verdict), e) /\ UrlsOfSite(Offered(e, info, verdict))
    BY <2>3, <2>4, OfferedKeeps
  <2>7. AskedBySite
    BY <2>1, AskedBySiteStays
  <2> QED
    BY <2>1, <2>2, <2>5, <2>6, <2>7, OneEntry, SitesStay
<1>5. CASE ParseEnd \/ StoreFails
  BY <1>5, QuietSites DEF ParseEnd, StoreFails, request_vars, site_vars
<1>6. CASE FinishRequest
  <2> DEFINE f == callback.entry
             s == table[f].callback_param
             r == request_info_table[s]
             q == r.queue_entry
             e == queue_info_table[q]
             info == [u |-> table[f].url, seed_id |-> r.seed_id, level |-> r.level]
             reqs == [request_info_table EXCEPT ![s] = FreeRequest]
             c == Counted(e, callback.valid)
  <2>1. f \in FmSlot /\ Busy(f) /\ saved' = saved
    BY <1>6 DEF FinishRequest, TInv, TablesAgree, site_vars
  <2>2. s \in Slot /\ q \in Queues /\ r.request_id = f
    BY <2>1, CallbackContext DEF TInv, TablesAgree
  <2>3. e \in QueueInfo /\ UrlsOfSite(e)
    BY <2>2, Typing DEF SiteInv
  <2>4. \A p \in Queues : /\ Same(queue_info_table'[p], queue_info_table[p])
                          /\ UrlsOfSite(queue_info_table'[p])
    <3>1. callback.valid \in BOOLEAN
      BY DEF TInv, TypeOK
    <3>2. c \in QueueInfo /\ Alike(c, e)
      BY <2>3, <3>1, CountedType, CountedKeeps
    <3>3. Alike(Requested(c), c) /\ Alike(Refused(c), c)
      BY <3>2, RequestedKeeps
    <3>4. \A d \in {c, Requested(c), Refused(c)} : Same(d, e) /\ UrlsOfSite(d)
      BY <2>3, <3>2, <3>3 DEF Alike, Same, UrlsOfSite
    <3>5. PICK d \in {c, Requested(c), Refused(c)} :
              queue_info_table' = [queue_info_table EXCEPT ![q] = d]
      BY <1>6 DEF FinishRequest
    <3> HIDE DEF q, c
    <3> QED
      BY <2>2, <3>4, <3>5, OneEntry
  <2>5. SiteOf[table[f].url] = e.site
    BY <2>1, <2>2, UrlAssumption DEF SiteInv, RequestBelongsToSite, Live
  <2>6. request_info_table \in [Slot -> RequestInfo] /\ table \in [FmSlot -> TableEntry]
    BY Typing
  <2>7. ASSUME NEW x \in Slot, x # s, request_info_table[x].request_id # None
        PROVE  LET g == request_info_table[x].request_id
               IN  /\ g \in FmSlot /\ g # f /\ table[g].url # None
                   /\ request_info_table[x].queue_entry \in Queues
                   /\ SiteOf[table[g].url]
                        = queue_info_table[request_info_table[x].queue_entry].site
    BY <2>7, RequestContext DEF SiteInv, RequestBelongsToSite, Live
  <2>8. CASE \E s2 \in Slot, f2 \in FmSlot :
                /\ reqs[s2].request_id = None /\ table[f2].url = None
                /\ request_info_table' = WithRequest(reqs, s2, f2, q, info, r.num_trials + 1)
                /\ table' = [WithEntry(table, f2, s2, info.u) EXCEPT ![f] = FreeEntry]
    <3>1. PICK s2 \in Slot, f2 \in FmSlot :
                /\ reqs[s2].request_id = None /\ table[f2].url = None
                /\ request_info_table' = WithRequest(reqs, s2, f2, q, info, r.num_trials + 1)
                /\ table' = [WithEntry(table, f2, s2, info.u) EXCEPT ![f] = FreeEntry]
      BY <2>8
    <3>2. f # f2
      BY <2>1, <3>1 DEF Busy
    <3> HIDE DEF f, s, r, q
    <3>3. /\ request_info_table'[s2].request_id = f2 /\ request_info_table'[s2].queue_entry = q
          /\ \A x \in Slot \ {s, s2} : request_info_table'[x] = request_info_table[x]
          /\ s # s2 => request_info_table'[s].request_id = None
      BY <2>2, <2>6, <3>1 DEF WithRequest, FreeRequest
    <3>4. /\ table'[f2].url = table[f].url
          /\ \A g \in FmSlot \ {f, f2} : table'[g] = table[g]
      BY <2>1, <2>6, <3>1, <3>2 DEF WithEntry
    <3>5. ASSUME NEW x \in Slot, request_info_table'[x].request_id # None
          PROVE  /\ request_info_table'[x].queue_entry \in Queues
                 /\ SiteOf[table'[request_info_table'[x].request_id].url]
                      = queue_info_table[request_info_table'[x].queue_entry].site
      <4>1. CASE x = s2
        BY <2>2, <2>5, <3>3, <3>4, <4>1
      <4>2. CASE x # s2
        <5>1. x # s /\ request_info_table'[x] = request_info_table[x]
          BY <3>3, <3>5, <4>2
        <5>2. request_info_table[x].request_id \in FmSlot \ {f, f2}
          BY <2>7, <3>1, <3>5, <5>1
        <5> QED
          BY <2>7, <3>4, <3>5, <5>1, <5>2
      <4> QED
        BY <4>1, <4>2
    <3> QED
      BY <2>1, <2>4, <3>5, SitesStay DEF AskedBySite
  <2>9. CASE request_info_table' = reqs /\ table' = [table EXCEPT ![f] = FreeEntry]
    <3> HIDE DEF f, s, r, q
    <3>1. /\ request_info_table'[s].request_id = None
          /\ \A x \in Slot \ {s} : request_info_table'[x] = request_info_table[x]
          /\ \A g \in FmSlot \ {f} : table'[g] = table[g]
      BY <2>1, <2>2, <2>6, <2>9 DEF FreeRequest
    <3>2. AskedBySite
      BY <2>7, <3>1 DEF AskedBySite
    <3> QED
      BY <2>1, <2>4, <3>2, SitesStay
  <2> QED
    BY <1>6, <2>8, <2>9 DEF FinishRequest
<1> QED
  BY <1>1, <1>2, <1>3, <1>4, <1>5, <1>6 DEF Callback

-----------------------------------------------------------------------------
(* Sites come, and go with their requests. *)

\* The entry given to a new site had none: no request in flight points to it.
LEMMA LoadSites ==
  ASSUME TInv, SiteInv, NEW e \in QueueInfo, UrlsOfSite(e), LoadEntry(e)
  PROVE  SiteInv'
<1> DEFINE d == [e EXCEPT !.queue_id = cur_queue_id']
<1>1. PICK q \in Queues : ~Loaded(q) /\ queue_info_table' = [queue_info_table EXCEPT ![q] = d]
  BY DEF LoadEntry, FirstFree
<1>2. d.queue_id # 0
  <2>1. cur_queue_id' = cur_queue_id + 1
    BY DEF LoadEntry
  <2>2. cur_queue_id' # 0
    BY <2>1, Counters
  <2> QED
    BY <2>2 DEF QueueInfo
<1>3. UrlsOfSite(d)
  BY DEF UrlsOfSite, QueueInfo
<1>4. UNCHANGED <<request_info_table, table, saved>>
  BY DEF LoadEntry, request_vars
<1> HIDE DEF d
<1>5. /\ queue_info_table'[q] = d
      /\ \A p \in Queues \ {q} : queue_info_table'[p] = queue_info_table[p]
  BY <1>1, Typing
<1>6. \A p \in Queues : /\ queue_info_table'[p].queue_id = 0 => queue_info_table'[p].site = None
                        /\ UrlsOfSite(queue_info_table'[p])
  BY <1>2, <1>3, <1>5 DEF SiteInv, Loaded
<1>7. ASSUME NEW x \in Slot, request_info_table[x].request_id # None
      PROVE  SiteOf[table[request_info_table[x].request_id].url]
               = queue_info_table'[request_info_table[x].queue_entry].site
  <2> DEFINE g == request_info_table[x].request_id
             p == request_info_table[x].queue_entry
  <2>1. g \in FmSlot /\ Busy(g) /\ p \in Queues
    BY <1>7, RequestContext DEF Busy
  <2>2. SiteOf[table[g].url] = queue_info_table[p].site
    BY <1>7 DEF SiteInv, RequestBelongsToSite, Live
  <2>3. SiteOf[table[g].url] # None
    BY <2>1, CallbackContext, UrlAssumption
  <2>4. p # q
    BY <1>1, <2>2, <2>3 DEF SiteInv
  <2> QED
    BY <1>5, <2>1, <2>2, <2>4
<1> QED
  BY <1>4, <1>6, <1>7 DEF SiteInv, RequestBelongsToSite, Live, Loaded, UrlsOfSite

LEMMA DeleteSites ==
  ASSUME TInv, SiteInv, NEW q \in Queues, delete_queue(q),
         \A r \in saved' : UrlsOfSite(r.info)
  PROVE  SiteInv'
<1> DEFINE mine == RequestsOf(q)
           ids == { request_info_table[s].request_id : s \in mine }
<1>1. /\ queue_info_table'[q] = EmptyQueue
      /\ \A p \in Queues \ {q} : queue_info_table'[p] = queue_info_table[p]
  BY Typing DEF delete_queue
<1>2. /\ request_info_table' =
           [s \in Slot |-> IF s \in mine THEN FreeRequest ELSE request_info_table[s]]
      /\ table' = [f \in FmSlot |-> IF f \in ids THEN FreeEntry ELSE table[f]]
  BY DEF delete_queue, CancelRequests
<1>3. UrlsOfSite(EmptyQueue) /\ EmptyQueue.queue_id = 0 /\ EmptyQueue.site = None
  BY DEF UrlsOfSite, EmptyQueue
<1>4. \A p \in Queues : /\ queue_info_table'[p].queue_id = 0 => queue_info_table'[p].site = None
                        /\ UrlsOfSite(queue_info_table'[p])
  BY <1>1, <1>3 DEF SiteInv, Loaded
<1>5. ASSUME NEW x \in Slot, request_info_table'[x].request_id # None
      PROVE  SiteOf[table'[request_info_table'[x].request_id].url]
               = queue_info_table'[request_info_table'[x].queue_entry].site
  <2>1. x \notin mine /\ request_info_table'[x] = request_info_table[x]
    BY <1>2, <1>5 DEF FreeRequest
  <2> DEFINE g == request_info_table[x].request_id
             p == request_info_table[x].queue_entry
  <2>2. g \in FmSlot /\ p \in Queues /\ table[g].callback_param = x
    BY <1>5, <2>1, RequestContext
  <2>3. g \notin ids
    BY <2>1, <2>2 DEF TInv, TablesAgree, RequestsOf
  <2>4. p # q
    BY <1>5, <2>1 DEF RequestsOf, Live
  <2>5. SiteOf[table[g].url] = queue_info_table[p].site
    BY <1>5, <2>1 DEF SiteInv, RequestBelongsToSite, Live
  <2>6. table'[g] = table[g] /\ queue_info_table'[p] = queue_info_table[p]
    BY <1>1, <1>2, <2>2, <2>3, <2>4
  <2> QED
    BY <2>1, <2>5, <2>6
<1> QED
  BY <1>4, <1>5 DEF SiteInv, RequestBelongsToSite, Live, Loaded, UrlsOfSite

\* A new site starts from two URLs of its own.
LEMMA NewQueueSites == ASSUME NEW s \in Site PROVE UrlsOfSite(NewQueue(s))
<1> DEFINE e == [EmptyQueue EXCEPT !.site = s]
           first == [u |-> Robots[s], seed_id |-> 0, level |-> 0]
           second == [u |-> Home[s], seed_id |-> 1, level |-> 0]
<1>1. e \in QueueInfo /\ UrlsOfSite(e) /\ e.site = s
  <2>1. e \in QueueInfo
    BY EmptyType, SetField
  <2>2. e.site = s /\ e.urls_to_crawl = << >>
    BY DEF EmptyQueue
  <2> QED
    BY <2>1, <2>2 DEF UrlsOfSite
<1>2. /\ first \in UrlInfo /\ SiteOf[first.u] = s
      /\ second \in UrlInfo /\ SiteOf[second.u] = s
  BY UrlAssumption DEF UrlInfo, SeedId
<1> HIDE DEF e, first, second
<1>3. push_url(e, first) \in QueueInfo
  BY <1>1, <1>2, PushType
<1>4. UrlsOfSite(push_url(e, first)) /\ push_url(e, first).site = s
  BY <1>1, <1>2, PushKeeps DEF Same
<1>5. UrlsOfSite(push_url(push_url(e, first), second))
  BY <1>2, <1>3, <1>4, PushKeeps
<1> QED
  BY <1>5 DEF NewQueue, e, first, second

LEMMA CommandSites == ASSUME TInv, SiteInv, Command PROVE SiteInv'
<1>1. ASSUME NEW s \in Site, request_crawl(s) PROVE SiteInv'
  BY <1>1, NewQueueType, NewQueueSites, LoadSites DEF request_crawl
<1>2. ASSUME NEW r \in saved, load_queue(r) PROVE SiteInv'
  <2>1. r.info \in QueueInfo
    BY DEF TInv, TypeOK
  <2>2. UrlsOfSite(r.info)
    BY DEF SiteInv
  <2> QED
    BY <1>2, <2>1, <2>2, LoadSites DEF load_queue
<1>3. ASSUME NEW q \in Queues, suspend_crawl(q) PROVE SiteInv'
  <2> DEFINE e == queue_info_table[q]
  <2>1. e \in QueueInfo /\ UrlsOfSite(e)
    BY Typing DEF SiteInv
  <2>2. UrlsOfSite(SavedInfo(e))
    <3> HIDE DEF e
    <3>1. SavedInfo(e).urls_to_crawl = e.urls_to_crawl /\ SavedInfo(e).site = e.site
      BY <2>1 DEF SavedInfo, QueueInfo
    <3> QED
      BY <2>1, <3>1 DEF UrlsOfSite
  <2>3. saved' = saved \cup { [queue_id |-> e.queue_id, info |-> SavedInfo(e)] }
    BY <1>3 DEF suspend_crawl
  <2>4. \A r \in saved' : UrlsOfSite(r.info)
    BY <2>2, <2>3 DEF SiteInv
  <2> QED
    BY <1>3, <2>4, DeleteSites DEF suspend_crawl
<1>4. CASE NoCommand \/ RejectCommand \/ SuspendUnknown \/ SetPaused \/ AnswerStatus \/ Die
  BY <1>4, QuietSites DEF NoCommand, RejectCommand, SuspendUnknown, SetPaused, AnswerStatus,
     Die, request_vars, site_vars
<1> QED
  BY <1>1, <1>2, <1>3, <1>4 DEF Command

LEMMA SelectSites == ASSUME TInv, SiteInv, Select PROVE SiteInv'
<1>1. ASSUME NEW q \in Queues, ReportSite(q) PROVE SiteInv'
  <2>1. delete_queue(q) /\ saved' = saved
    BY <1>1 DEF ReportSite
  <2> QED
    BY <2>1, DeleteSites DEF SiteInv
<1>2. ASSUME NEW q \in Queues, FetchNext(q) PROVE SiteInv'
  <2> DEFINE e == queue_info_table[q]
             info == Head(e.urls_to_crawl)
             d == pop_url(e)
  <2>1. e.urls_to_crawl # << >> /\ saved' = saved
    BY <1>2 DEF FetchNext, SelectReady, Selected, Stops, IsDone, IsReady, site_vars
  <2>2. e \in QueueInfo /\ UrlsOfSite(e)
    BY Typing DEF SiteInv
  <2>3. d \in QueueInfo /\ info \in UrlInfo
    BY <2>1, <2>2, PopType
  <2>4. Same(d, e) /\ UrlsOfSite(d) /\ SiteOf[info.u] = e.site
    BY <2>1, <2>2, PopKeeps
  <2>5. \A p \in Queues : /\ Same(queue_info_table'[p], queue_info_table[p])
                          /\ UrlsOfSite(queue_info_table'[p])
    <3>1. PICK c \in {Requested(d), Refused(d)} :
             queue_info_table' = [queue_info_table EXCEPT ![q] = c]
      BY <1>2 DEF FetchNext
    <3> HIDE DEF d
    <3>2. Same(c, e) /\ UrlsOfSite(c)
      BY <2>3, <2>4, RequestedKeeps DEF Alike, Same, UrlsOfSite
    <3> QED
      BY <3>1, <3>2, OneEntry
  <2>6. CASE UNCHANGED request_vars
    <3>1. AskedBySite
      BY <2>6, AskedBySiteStays DEF request_vars
    <3> QED
      BY <2>1, <2>5, <3>1, SitesStay
  <2>7. CASE \E s \in Slot, f \in FmSlot :
                /\ ~Live(s) /\ ~Busy(f)
                /\ request_info_table' = WithRequest(request_info_table, s, f, q, info, 0)
                /\ table' = WithEntry(table, f, s, info.u)
    <3>1. PICK s \in Slot, f \in FmSlot :
             /\ ~Live(s) /\ ~Busy(f)
             /\ request_info_table' = WithRequest(request_info_table, s, f, q, info, 0)
             /\ table' = WithEntry(table, f, s, info.u)
      BY <2>7
    <3> HIDE DEF info, d
    <3>2. /\ request_info_table'[s].request_id = f /\ request_info_table'[s].queue_entry = q
          /\ \A x \in Slot \ {s} : request_info_table'[x] = request_info_table[x]
          /\ table'[f].url = info.u
          /\ \A g \in FmSlot \ {f} : table'[g] = table[g]
      BY <3>1, Typing DEF WithRequest, WithEntry
    <3>3. ASSUME NEW x \in Slot, request_info_table'[x].request_id # None
          PROVE  /\ request_info_table'[x].queue_entry \in Queues
                 /\ SiteOf[table'[request_info_table'[x].request_id].url]
                      = queue_info_table[request_info_table'[x].queue_entry].site
      <4>1. CASE x = s
        BY <2>4, <3>2, <4>1
      <4>2. CASE x # s
        <5>1. /\ request_info_table'[x] = request_info_table[x]
              /\ request_info_table[x].request_id # None
          BY <3>2, <3>3, <4>2
        <5>2. /\ request_info_table[x].request_id \in FmSlot \ {f}
              /\ request_info_table[x].queue_entry \in Queues
          BY <3>1, <5>1, RequestContext DEF Busy
        <5>3. SiteOf[table[request_info_table[x].request_id].url]
                = queue_info_table[request_info_table[x].queue_entry].site
          BY <5>1 DEF SiteInv, RequestBelongsToSite, Live
        <5> QED
          BY <3>2, <5>1, <5>2, <5>3
      <4> QED
        BY <4>1, <4>2
    <3> QED
      BY <2>1, <2>5, <3>3, SitesStay DEF AskedBySite
  <2> QED
    BY <1>2, <2>6, <2>7 DEF FetchNext
<1>3. ASSUME NEW q \in Queues, HoldBack(q) PROVE SiteInv'
  BY <1>3, QuietSites DEF HoldBack, SelectReady, request_vars, site_vars
<1>4. CASE SelectNone \/ Dispatch
  BY <1>4, QuietSites DEF SelectNone, Dispatch, request_vars, site_vars
<1> QED
  BY <1>1, <1>2, <1>3, <1>4 DEF Select

LEMMA PeersSites == ASSUME TInv, SiteInv, Peers PROVE SiteInv'
<1>1. ASSUME NEW f \in FmSlot, ServerAnswers(f) \/ RequestExpires(f) PROVE SiteInv'
  <2>1. \/ table' = [table EXCEPT ![f].ready = TRUE]
        \/ table' = [table EXCEPT ![f].expired = TRUE]
    BY <1>1 DEF ServerAnswers, RequestExpires
  <2>2. \A g \in FmSlot : table'[g].url = table[g].url
    BY <2>1, Typing DEF TableEntry
  <2>3. UNCHANGED <<queue_info_table, request_info_table, saved>>
    BY <1>1 DEF ServerAnswers, RequestExpires, site_vars
  <2>4. AskedBySite
    BY <2>2, <2>3, RequestContext DEF AskedBySite, SiteInv, RequestBelongsToSite, Live
  <2>5. \A p \in Queues : /\ Same(queue_info_table'[p], queue_info_table[p])
                          /\ UrlsOfSite(queue_info_table'[p])
    BY <2>3 DEF SiteInv, Same
  <2> QED
    BY <2>3, <2>4, <2>5, SitesStay
<1>2. CASE \E c \in Commands : SendCommand(c)
  BY <1>2, QuietSites DEF SendCommand, request_vars, site_vars
<1> QED
  BY <1>1, <1>2 DEF Peers

LEMMA TickSites == ASSUME TInv, SiteInv, Tick PROVE SiteInv'
<1>1. UNCHANGED <<request_info_table, table, saved>>
  BY DEF Tick, request_vars, site_vars
<1>2. queue_info_table' =
        [q \in Queues |-> [queue_info_table[q] EXCEPT !.due = Sooner(queue_info_table[q].due)]]
  BY DEF Tick
<1>3. ASSUME NEW p \in Queues
      PROVE  /\ Same(queue_info_table'[p], queue_info_table[p])
             /\ UrlsOfSite(queue_info_table'[p])
  <2>1. queue_info_table[p] \in QueueInfo /\ UrlsOfSite(queue_info_table[p])
    BY Typing DEF SiteInv
  <2>2. Alike(queue_info_table'[p], queue_info_table[p])
    BY <1>2, <2>1 DEF Alike, Same, QueueInfo
  <2> QED
    BY <2>1, <2>2 DEF Alike, Same, UrlsOfSite
<1>4. AskedBySite
  BY <1>1, AskedBySiteStays
<1> QED
  BY <1>1, <1>3, <1>4, SitesStay

LEMMA StepSites == TInv /\ SiteInv /\ [Next]_vars => SiteInv'
<1> SUFFICES ASSUME TInv, SiteInv, [Next]_vars PROVE SiteInv'
  OBVIOUS
<1>1. CASE UNCHANGED vars \/ Stopped
  BY <1>1, QuietSites DEF Stopped, vars, request_vars, site_vars
<1>2. CASE PollReturns \/ FmProcessed
  BY <1>2, QuietSites DEF PollReturns, FmProcessed, request_vars, site_vars
<1> QED
  BY <1>1, <1>2, CallbackSites, CommandSites, SelectSites, PeersSites, TickSites DEF Next, Loop

\* Every request in flight is for a URL of the site its callback will be counted
\* for, however often entries and slots are given to other sites in between.
THEOREM SitesCorrect == Spec => []RequestBelongsToSite
<1>1. Spec => [](TInv /\ SiteInv)
  BY InitTyped, StepTyped, InitSites, StepSites, PTL DEF Spec
<1>2. SiteInv => RequestBelongsToSite
  BY DEF SiteInv
<1> QED
  BY <1>1, <1>2, PTL

-----------------------------------------------------------------------------
(***************************************************************************)
(* The counters of the crawl server: RequestAccounting, QueueAccounting,   *)
(* NoLostWakeup, which rests on them, and EverySiteAccountedFor.  First,   *)
(* what a step does to the queues, the requests in flight and the sites:   *)
(* whatever the action, it is one of eight kinds, and the proofs from here *)
(* on and in CrawlServerUrlProofs distinguish these and not the actions.   *)
(***************************************************************************)

LiveSlots == { s \in Slot : Live(s) }
BusyEntries == { f \in FmSlot : Busy(f) }
UrlOf(s) == table[request_info_table[s].request_id].url

\* The requests in flight after the step: these slots and entries, n more.
Requests(live, busy, n) ==
  /\ LiveSlots' = live /\ BusyEntries' = busy
  /\ request_count' = request_count + n
  /\ num_pending_requests' = num_pending_requests + n

\* The request of slot s after the step is that of slot x before it.
Carries(s, x) ==
  /\ request_info_table'[s].queue_entry = request_info_table[x].queue_entry
  /\ request_info_table'[s].seed_id = request_info_table[x].seed_id
  /\ request_info_table'[s].level = request_info_table[x].level
  /\ UrlOf(s)' = UrlOf(x)

SameRequests == Requests(LiveSlots, BusyEntries, 0) /\ \A x \in LiveSlots : Carries(x, x)
SameSites == UNCHANGED <<queue_count, numsites, cur_queue_id, reports, saved>>

\* Entry q becomes d; no other entry changes.
Becomes(q, d) ==
  /\ queue_info_table'[q] = d
  /\ \A p \in Queues \ {q} : queue_info_table'[p] = queue_info_table[p]

\* d is e with n more requests pending: only counters and `due' differ besides.
Recounted(d, e, n) ==
  /\ d.queue_id = e.queue_id /\ d.site = e.site /\ d.status = e.status
  /\ d.urls_to_crawl = e.urls_to_crawl /\ d.urls_seen = e.urls_seen
  /\ d.url_count_per_seed = e.url_count_per_seed
  /\ d.pending_request_count = e.pending_request_count + n

-----------------------------------------------------------------------------
(* The eight kinds of steps *)

\* Nothing but counters, deadlines and the main loop moves.  A blank entry stays
\* blank unless a request in flight belongs to it.
Rests ==
  /\ SameRequests /\ SameSites
  /\ \A p \in Queues :
       /\ Recounted(queue_info_table'[p], queue_info_table[p], 0)
       /\ queue_info_table[p] = EmptyQueue /\ queue_info_table'[p] # EmptyQueue
            => RequestsOf(p) # {}

\* The page of request s names a URL.
Offers(s, info, verdict) ==
  LET q == request_info_table[s].queue_entry
  IN  /\ SameRequests /\ SameSites
      /\ s \in LiveSlots /\ verdict \in check(queue_info_table[q], info)
      /\ info.seed_id = request_info_table[s].seed_id
      /\ \/ info.level = request_info_table[s].level
         \/ pc = "parse" /\ s = table[callback.entry].callback_param
      /\ Becomes(q, Offered(queue_info_table[q], info, verdict))

\* Request s is over.
Ends(s) ==
  LET q == request_info_table[s].queue_entry
      f == request_info_table[s].request_id
  IN  /\ SameSites
      /\ s \in LiveSlots /\ f \in BusyEntries
      /\ Requests(LiveSlots \ {s}, BusyEntries \ {f}, -1)
      /\ \A x \in LiveSlots \ {s} : Carries(x, x)
      /\ \E d \in QueueInfo : Recounted(d, queue_info_table[q], -1) /\ Becomes(q, d)

\* Request s is retried with slot s2 and entry f2.
Resumes(s, s2, f2) ==
  LET q == request_info_table[s].queue_entry
      f == request_info_table[s].request_id
  IN  /\ SameSites
      /\ s \in LiveSlots /\ f \in BusyEntries /\ s2 \notin LiveSlots \ {s} /\ f2 \notin BusyEntries
      /\ Requests((LiveSlots \ {s}) \cup {s2}, (BusyEntries \ {f}) \cup {f2}, 0)
      /\ \A x \in LiveSlots \ {s} : Carries(x, x)
      /\ Carries(s2, s)
      /\ \E d \in QueueInfo : Recounted(d, queue_info_table[q], 0) /\ Becomes(q, d)

\* The first URL of entry q is requested with slot s and entry f.
Launches(q, s, f) ==
  LET e == queue_info_table[q]
      info == Head(e.urls_to_crawl)
  IN  /\ SameSites
      /\ Loaded(q) /\ IsReady(e) /\ ~paused
      /\ s \notin LiveSlots /\ f \notin BusyEntries
      /\ Requests(LiveSlots \cup {s}, BusyEntries \cup {f}, 1)
      /\ \A x \in LiveSlots : Carries(x, x)
      /\ request_info_table'[s].queue_entry = q /\ request_info_table'[s].seed_id = info.seed_id
      /\ request_info_table'[s].level = info.level /\ UrlOf(s)' = info.u
      /\ \E d \in QueueInfo : Recounted(d, pop_url(e), 1) /\ Becomes(q, d)

\* The first URL of entry q is lost: its request cannot be made.
Loses(q) ==
  LET e == queue_info_table[q]
  IN  /\ SameRequests /\ SameSites
      /\ Loaded(q) /\ IsReady(e)
      /\ \E d \in QueueInfo : Recounted(d, pop_url(e), 0) /\ Becomes(q, d)

\* A site comes: a new one or one that was suspended.
Comes(q, e) ==
  /\ SameRequests
  /\ ~Loaded(q)
  /\ (\E s \in Site : e = NewQueue(s)) \/ (\E r \in saved : e = r.info)
  /\ cur_queue_id' = cur_queue_id + 1
  /\ Becomes(q, [e EXCEPT !.queue_id = cur_queue_id + 1])
  /\ queue_count' = queue_count + 1 /\ numsites' = numsites + 1
  /\ UNCHANGED <<reports, saved>>

\* A site goes, with its requests: it is reported or handed back.
Goes(q) ==
  LET e == queue_info_table[q]
      ids == { request_info_table[s].request_id : s \in RequestsOf(q) }
  IN  /\ Loaded(q)
      /\ LiveSlots' = LiveSlots \ RequestsOf(q) /\ BusyEntries' = BusyEntries \ ids
      /\ request_count' = request_count - Cardinality(RequestsOf(q))
      /\ num_pending_requests' = num_pending_requests - Cardinality(BusyEntries \cap ids)
      /\ \A x \in LiveSlots \ RequestsOf(q) : Carries(x, x)
      /\ Becomes(q, EmptyQueue)
      /\ queue_count' = queue_count - 1 /\ numsites' = numsites - 1
      /\ UNCHANGED cur_queue_id
      /\ \/ /\ \E status \in QueueStatus \cup {"Too many Errors"} :
                 reports' = reports \cup {[queue_id |-> e.queue_id, status |-> status]}
            /\ UNCHANGED saved
         \/ /\ saved' = saved \cup {[queue_id |-> e.queue_id, info |-> SavedInfo(e)]}
            /\ UNCHANGED reports

Kinds ==
  \/ Rests
  \/ \E s \in Slot, info \in UrlInfo, verdict \in Verdicts : Offers(s, info, verdict)
  \/ \E s \in Slot : Ends(s)
  \/ \E s, s2 \in Slot, f2 \in FmSlot : Resumes(s, s2, f2)
  \/ \E q \in Queues, s \in Slot, f \in FmSlot : Launches(q, s, f)
  \/ \E q \in Queues : Loses(q)
  \/ \E q \in Queues, e \in QueueInfo : Comes(q, e)
  \/ \E q \in Queues : Goes(q)

-----------------------------------------------------------------------------
(* How the two tables carry the requests over a step. *)

LEMMA KeptRequests ==
  ASSUME TInv, UNCHANGED <<request_info_table, request_count, num_pending_requests>>,
         \A f \in FmSlot : table'[f].url = table[f].url
  PROVE  SameRequests
<1>1. LiveSlots' = LiveSlots
  BY DEF LiveSlots, Live
<1>2. BusyEntries' = BusyEntries
  BY DEF BusyEntries, Busy
<1>3. ASSUME NEW x \in LiveSlots PROVE Carries(x, x)
  <2>1. request_info_table[x].request_id \in FmSlot
    BY <1>3, RequestContext DEF LiveSlots, Live
  <2> QED
    BY <2>1 DEF Carries, UrlOf
<1>4. /\ request_count' = request_count + 0
      /\ num_pending_requests' = num_pending_requests + 0
  BY Counters
<1> QED
  BY <1>1, <1>2, <1>3, <1>4 DEF SameRequests, Requests

LEMMA EntryBecomes ==
  ASSUME TInv, NEW q \in Queues, NEW d, queue_info_table' = [queue_info_table EXCEPT ![q] = d]
  PROVE  Becomes(q, d)
BY Typing DEF Becomes

LEMMA Recounting ==
  ASSUME NEW e \in QueueInfo, NEW valid \in BOOLEAN
  PROVE  /\ Recounted(e, e, 0)
         /\ Recounted(Requested(e), e, 1) /\ Recounted(Refused(e), e, 0)
         /\ Recounted(Counted(e, valid), e, -1)
<1>1. Recounted(e, e, 0)
  BY FieldTypes DEF Recounted
<1>2. Recounted(Requested(e), e, 1)
  BY DEF Recounted, Requested, QueueInfo
<1>3. Recounted(Refused(e), e, 0)
  BY DEF Recounted, Refused, QueueInfo
<1>4. Recounted(Counted(e, valid), e, -1)
  BY DEF Recounted, Counted, QueueInfo
<1> QED
  BY <1>1, <1>2, <1>3, <1>4

LEMMA RecountedTwice ==
  ASSUME NEW c, NEW d, NEW e \in QueueInfo, NEW m \in Int, NEW n \in Int,
         Recounted(c, d, m), Recounted(d, e, n)
  PROVE  Recounted(c, e, n + m)
BY FieldTypes DEF Recounted

LEMMA TablesRest ==
  ASSUME TInv, UNCHANGED <<queue_info_table, request_info_table, request_count,
                           num_pending_requests>>,
         \A f \in FmSlot : table'[f].url = table[f].url, SameSites
  PROVE  Rests
<1>1. SameRequests
  BY KeptRequests
<1>2. \A p \in Queues : Recounted(queue_info_table'[p], queue_info_table[p], 0)
  <2>1. \A p \in Queues : queue_info_table[p] \in QueueInfo
    BY Typing
  <2>2. TRUE \in BOOLEAN
    OBVIOUS
  <2> QED
    BY <2>1, <2>2, Recounting
<1> QED
  BY <1>1, <1>2 DEF Rests

LEMMA QuietStep == ASSUME TInv, Quiet PROVE Rests
<1>1. /\ UNCHANGED <<queue_info_table, request_info_table, request_count,
                     num_pending_requests, table>>
      /\ SameSites
  BY DEF Quiet, ParseEnd, StoreFails, FmProcessed, NoCommand, RejectCommand, SuspendUnknown,
     SetPaused, AnswerStatus, Die, Dispatch, PollReturns, SendCommand, SameSites,
     request_vars, manager_vars, site_vars
<1> QED
  BY <1>1, TablesRest

\* The request a callback works on.
LEMMA CallbackLive ==
  ASSUME TInv, NEW f \in FmSlot, Busy(f)
  PROVE  /\ table[f].callback_param \in LiveSlots
         /\ request_info_table[table[f].callback_param].request_id = f
<1>1. table[f].callback_param \in Slot
  BY CallbackContext
<1>2. request_info_table[table[f].callback_param].request_id = f
  BY DEF TInv, TablesAgree
<1> QED
  BY <1>1, <1>2, UrlAssumption DEF LiveSlots, Live

LEMMA CheckVerdicts ==
  ASSUME NEW e, NEW info
  PROVE  check(e, info) \subseteq Verdicts
BY DEF check, SeedVerdict, Verdicts

LEMMA PageStep ==
  ASSUME TInv, NEW f \in FmSlot, NEW valid \in BOOLEAN, CallbackPage(f, valid)
  PROVE  Rests
<1> DEFINE s == table[f].callback_param
           q == request_info_table[s].queue_entry
           e == queue_info_table[q]
           allowed == e.prefix_filter \cup { u \in Disallowed : is_same_server(u, q) }
           d == [e EXCEPT !.prefix_filter = allowed]
<1>1. /\ Busy(f) /\ SameSites
      /\ UNCHANGED <<request_info_table, request_count, num_pending_requests, table>>
  BY DEF CallbackPage, BeginCallback, request_vars, manager_vars, site_vars, SameSites
<1>2. q \in Queues /\ s \in RequestsOf(q)
  BY <1>1, CallbackContext, CallbackLive DEF LiveSlots, RequestsOf
<1>3. e \in QueueInfo
  BY <1>2, Typing
<1>4. CASE queue_info_table' = queue_info_table
  BY <1>1, <1>4, TablesRest
<1>5. CASE queue_info_table' = [queue_info_table EXCEPT ![q] = d]
  <2>1. Recounted(d, e, 0)
    <3> HIDE DEF allowed, e
    <3> QED
      BY <1>3 DEF Recounted, QueueInfo
  <2> HIDE DEF d, q, s
  <2>2. Becomes(q, d)
    BY <1>2, <1>5, EntryBecomes
  <2>3. ASSUME NEW p \in Queues
        PROVE  /\ Recounted(queue_info_table'[p], queue_info_table[p], 0)
               /\ queue_info_table[p] = EmptyQueue /\ queue_info_table'[p] # EmptyQueue
                    => RequestsOf(p) # {}
    <3>1. CASE p = q
      BY <1>2, <2>1, <2>2, <3>1 DEF Becomes
    <3>2. CASE p # q
      <4>1. queue_info_table'[p] = queue_info_table[p] /\ queue_info_table[p] \in QueueInfo
        BY <2>2, <3>2, Typing DEF Becomes
      <4> QED
        BY <4>1, Recounting
    <3> QED
      BY <3>1, <3>2
  <2>4. SameRequests
    BY <1>1, KeptRequests
  <2> QED
    BY <1>1, <2>3, <2>4 DEF Rests
<1> QED
  BY <1>4, <1>5 DEF CallbackPage

LEMMA RedirectStep ==
  ASSUME TInv, NEW f \in FmSlot, NEW valid \in BOOLEAN, NEW target \in Url,
         CallbackRedirect(f, valid, target)
  PROVE  \E s \in Slot, info \in UrlInfo, verdict \in Verdicts : Offers(s, info, verdict)
<1> DEFINE s == table[f].callback_param
           req == request_info_table[s]
           q == req.queue_entry
           info == [u |-> target, seed_id |-> req.seed_id, level |-> req.level]
<1>1. /\ Busy(f) /\ SameSites
      /\ UNCHANGED <<request_info_table, request_count, num_pending_requests, table>>
  BY DEF CallbackRedirect, BeginCallback, request_vars, manager_vars, site_vars, SameSites
<1>2. q \in Queues /\ req.seed_id \in SeedId /\ req.level \in Nat
  BY <1>1, CallbackContext
<1>3. s \in LiveSlots /\ s \in Slot
  BY <1>1, CallbackLive DEF LiveSlots
<1>4. info \in UrlInfo
  BY <1>2 DEF UrlInfo
<1>5. PICK verdict \in check(queue_info_table[q], info) :
         queue_info_table' = [queue_info_table EXCEPT ![q] = Offered(@, info, verdict)]
  BY DEF CallbackRedirect
<1>6. info.seed_id = req.seed_id /\ info.level = req.level
  OBVIOUS
<1> HIDE DEF info
<1>7. verdict \in Verdicts
  BY <1>5, CheckVerdicts
<1>8. Becomes(q, Offered(queue_info_table[q], info, verdict))
  BY <1>2, <1>5, EntryBecomes
<1>9. SameRequests
  BY <1>1, KeptRequests
<1>10. Offers(s, info, verdict)
  BY <1>1, <1>3, <1>5, <1>6, <1>8, <1>9 DEF Offers
<1> QED
  BY <1>3, <1>4, <1>7, <1>10

LEMMA ParseStep ==
  ASSUME TInv, NEW link \in Url, ParseLink(link)
  PROVE  \E s \in Slot, info \in UrlInfo, verdict \in Verdicts : Offers(s, info, verdict)
<1> DEFINE f == callback.entry
           s == table[f].callback_param
           req == request_info_table[s]
           q == req.queue_entry
           info == [u |-> link, seed_id |-> req.seed_id, level |-> req.level + 1]
<1>1. /\ f \in FmSlot /\ Busy(f) /\ SameSites /\ pc = "parse"
      /\ UNCHANGED <<request_info_table, request_count, num_pending_requests, table>>
  BY DEF ParseLink, TInv, TablesAgree, request_vars, manager_vars, site_vars, SameSites
<1>2. q \in Queues /\ req.seed_id \in SeedId /\ req.level \in Nat
  BY <1>1, CallbackContext
<1>3. s \in LiveSlots /\ s \in Slot
  BY <1>1, CallbackLive DEF LiveSlots
<1>4. info \in UrlInfo
  <2>1. req.level + 1 \in Nat
    BY <1>2
  <2> HIDE DEF req
  <2> QED
    BY <1>2, <2>1 DEF UrlInfo
<1>5. PICK verdict \in check(queue_info_table[q], info) :
         queue_info_table' = [queue_info_table EXCEPT ![q] = Offered(@, info, verdict)]
  BY DEF ParseLink
<1>6. info.seed_id = req.seed_id
  OBVIOUS
<1> HIDE DEF info
<1>7. verdict \in Verdicts
  BY <1>5, CheckVerdicts
<1>8. Becomes(q, Offered(queue_info_table[q], info, verdict))
  BY <1>2, <1>5, EntryBecomes
<1>9. SameRequests
  BY <1>1, KeptRequests
<1>10. Offers(s, info, verdict)
  BY <1>1, <1>3, <1>5, <1>6, <1>8, <1>9 DEF Offers
<1> QED
  BY <1>3, <1>4, <1>7, <1>10

LEMMA FinishStep ==
  ASSUME TInv, FinishRequest
  PROVE  \/ \E s \in Slot : Ends(s)
         \/ \E s, s2 \in Slot, f2 \in FmSlot : Resumes(s, s2, f2)
<1> DEFINE f == callback.entry
           s == table[f].callback_param
           r == request_info_table[s]
           q == r.queue_entry
           e == queue_info_table[q]
           info == [u |-> table[f].url, seed_id |-> r.seed_id, level |-> r.level]
           reqs == [request_info_table EXCEPT ![s] = FreeRequest]
           c == Counted(e, callback.valid)
<1>1. f \in FmSlot /\ Busy(f) /\ SameSites
  BY DEF FinishRequest, TInv, TablesAgree, manager_vars, site_vars, SameSites
<1>2. /\ s \in LiveSlots /\ s \in Slot /\ r.request_id = f /\ q \in Queues
      /\ f \in BusyEntries
  BY <1>1, CallbackContext, CallbackLive DEF BusyEntries
<1>3. /\ c \in QueueInfo /\ Recounted(c, e, -1)
      /\ Requested(c) \in QueueInfo /\ Recounted(Requested(c), e, 0)
      /\ Refused(c) \in QueueInfo /\ Recounted(Refused(c), e, -1)
  <2>1. e \in QueueInfo /\ callback.valid \in BOOLEAN
    BY <1>2, Typing DEF TInv, TypeOK
  <2>2. c \in QueueInfo /\ Recounted(c, e, -1)
    BY <2>1, CountedType, Recounting
  <2> HIDE DEF c, e
  <2>3. /\ Requested(c) \in QueueInfo /\ Refused(c) \in QueueInfo
        /\ Recounted(Requested(c), c, 1) /\ Recounted(Refused(c), c, 0)
    BY <2>1, <2>2, RequestedType, Recounting
  <2>4. Recounted(Requested(c), e, -1 + 1) /\ Recounted(Refused(c), e, -1 + 0)
    BY <2>1, <2>2, <2>3, RecountedTwice
  <2> QED
    BY <2>2, <2>3, <2>4
<1>4. request_info_table \in [Slot -> RequestInfo] /\ table \in [FmSlot -> TableEntry]
  BY Typing
<1>5. \A x \in LiveSlots \ {s} :
         /\ x \in Slot /\ request_info_table[x].request_id \in FmSlot \ {f}
         /\ request_info_table[x].request_id \in BusyEntries
  BY <1>1, <1>2, RequestContext DEF LiveSlots, Live, BusyEntries, Busy
<1>6. CASE \E s2 \in Slot, f2 \in FmSlot :
              /\ reqs[s2].request_id = None /\ table[f2].url = None
              /\ request_info_table' = WithRequest(reqs, s2, f2, q, info, r.num_trials + 1)
              /\ table' = [WithEntry(table, f2, s2, info.u) EXCEPT ![f] = FreeEntry]
              /\ queue_info_table' = [queue_info_table EXCEPT ![q] = Requested(c)]
              /\ UNCHANGED <<request_count, num_pending_requests>>
  <2>1. PICK s2 \in Slot, f2 \in FmSlot :
              /\ reqs[s2].request_id = None /\ table[f2].url = None
              /\ request_info_table' = WithRequest(reqs, s2, f2, q, info, r.num_trials + 1)
              /\ table' = [WithEntry(table, f2, s2, info.u) EXCEPT ![f] = FreeEntry]
              /\ queue_info_table' = [queue_info_table EXCEPT ![q] = Requested(c)]
              /\ UNCHANGED <<request_count, num_pending_requests>>
    BY <1>6
  <2>2. f2 \notin BusyEntries /\ f2 # f
    BY <1>1, <2>1 DEF Busy, BusyEntries
  <2>3. \A x \in Slot : x # s => reqs[x] = request_info_table[x]
    BY <1>4
  <2>4. s2 \notin LiveSlots \ {s}
    BY <2>1, <2>3 DEF LiveSlots, Live
  <2>5. /\ info.u = table[f].url /\ info.seed_id = r.seed_id /\ info.level = r.level
        /\ reqs[s].request_id = None
    BY <1>2, <1>4 DEF FreeRequest
  <2>6. reqs \in [Slot -> RequestInfo]
    BY <1>2, <1>4, FreeTypes
  <2> HIDE DEF reqs, info
  <2>7. /\ request_info_table'[s2].request_id = f2 /\ request_info_table'[s2].queue_entry = q
        /\ request_info_table'[s2].seed_id = r.seed_id
        /\ request_info_table'[s2].level = r.level
        /\ \A x \in Slot \ {s2} : request_info_table'[x] = reqs[x]
    BY <2>1, <2>5, <2>6 DEF WithRequest
  <2>8. /\ table'[f2].url = table[f].url /\ table'[f].url = None
        /\ \A g \in FmSlot \ {f, f2} : table'[g] = table[g]
    BY <1>1, <1>4, <2>1, <2>2, <2>5 DEF WithEntry, FreeEntry
  <2> HIDE DEF f, s, r, q, e, c
  <2>9. LiveSlots' = (LiveSlots \ {s}) \cup {s2}
    <3>1. \A x \in Slot : Live(x)' <=> x = s2 \/ (x # s /\ Live(x))
      BY <2>3, <2>5, <2>7, UrlAssumption DEF Live
    <3> QED
      BY <3>1 DEF LiveSlots
  <2>10. BusyEntries' = (BusyEntries \ {f}) \cup {f2}
    <3>1. \A g \in FmSlot : Busy(g)' <=> g = f2 \/ (g # f /\ Busy(g))
      BY <1>1, <2>2, <2>8 DEF Busy
    <3> QED
      BY <2>2, <3>1 DEF BusyEntries
  <2>11. ASSUME NEW x \in LiveSlots \ {s} PROVE Carries(x, x)
    <3>1. request_info_table'[x] = request_info_table[x]
      BY <1>5, <2>3, <2>4, <2>7
    <3>2. table'[request_info_table[x].request_id] = table[request_info_table[x].request_id]
      BY <1>5, <2>2, <2>8
    <3> QED
      BY <3>1, <3>2 DEF Carries, UrlOf
  <2>12. Carries(s2, s)
    BY <1>2, <2>7, <2>8 DEF Carries, UrlOf, r, q
  <2>13. Becomes(q, Requested(c))
    BY <1>2, <2>1, EntryBecomes
  <2>14. request_count' = request_count + 0 /\ num_pending_requests' = num_pending_requests + 0
    BY <2>1, Counters
  <2>15. Resumes(s, s2, f2)
    BY <1>1, <1>2, <1>3, <2>2, <2>4, <2>9, <2>10, <2>11, <2>12, <2>13, <2>14
    DEF Resumes, Requests, r, q, e
  <2> QED
    BY <1>2, <2>15
<1>7. CASE /\ request_info_table' = reqs /\ table' = [table EXCEPT ![f] = FreeEntry]
           /\ \E d \in {c, Refused(c)} : queue_info_table' = [queue_info_table EXCEPT ![q] = d]
           /\ request_count' = request_count - 1
           /\ num_pending_requests' = num_pending_requests - 1
  <2>1. /\ request_info_table'[s].request_id = None
        /\ \A x \in Slot \ {s} : request_info_table'[x] = request_info_table[x]
    BY <1>2, <1>4, <1>7 DEF FreeRequest
  <2>2. table'[f].url = None /\ \A g \in FmSlot \ {f} : table'[g] = table[g]
    BY <1>1, <1>4, <1>7 DEF FreeEntry
  <2>3. PICK d \in {c, Refused(c)} : queue_info_table' = [queue_info_table EXCEPT ![q] = d]
    BY <1>7
  <2> HIDE DEF f, s, r, q, e, c
  <2>4. LiveSlots' = LiveSlots \ {s}
    BY <2>1 DEF LiveSlots, Live
  <2>5. BusyEntries' = BusyEntries \ {f}
    BY <2>2 DEF BusyEntries, Busy
  <2>6. ASSUME NEW x \in LiveSlots \ {s} PROVE Carries(x, x)
    BY <1>5, <2>1, <2>2 DEF Carries, UrlOf
  <2>7. Becomes(q, d)
    BY <1>2, <2>3, EntryBecomes
  <2>8. request_count' = request_count + (-1) /\ num_pending_requests' = num_pending_requests + (-1)
    BY <1>7, Counters
  <2>9. d \in QueueInfo /\ Recounted(d, e, -1)
    BY <1>3, <2>3
  <2>10. Ends(s)
    BY <1>1, <1>2, <2>4, <2>5, <2>6, <2>7, <2>8, <2>9 DEF Ends, Requests, r, q, e
  <2> QED
    BY <1>2, <2>10
<1> QED
  BY <1>6, <1>7 DEF FinishRequest

LEMMA CallbackStep == ASSUME TInv, Callback PROVE Kinds
<1>1. ASSUME NEW f \in FmSlot, NEW valid \in BOOLEAN, CallbackPage(f, valid) PROVE Kinds
  BY <1>1, PageStep DEF Kinds
<1>2. ASSUME NEW f \in FmSlot, CallbackRefused(f) PROVE Kinds
  BY <1>2, TablesRest DEF CallbackRefused, BeginCallback, request_vars, manager_vars, site_vars,
     SameSites, Kinds
<1>3. ASSUME NEW f \in FmSlot, NEW valid \in BOOLEAN, NEW target \in Url,
             CallbackRedirect(f, valid, target)
      PROVE  Kinds
  BY <1>3, RedirectStep DEF Kinds
<1>4. ASSUME NEW link \in Url, ParseLink(link) PROVE Kinds
  BY <1>4, ParseStep DEF Kinds
<1>5. CASE ParseEnd \/ StoreFails
  BY <1>5, QuietStep DEF Quiet, Kinds
<1>6. CASE FinishRequest
  BY <1>6, FinishStep DEF Kinds
<1> QED
  BY <1>1, <1>2, <1>3, <1>4, <1>5, <1>6 DEF Callback

-----------------------------------------------------------------------------
(* Commands: sites come and go. *)

LEMMA LoadStep ==
  ASSUME TInv, NEW e \in QueueInfo, LoadEntry(e),
         (\E s \in Site : e = NewQueue(s)) \/ (\E r \in saved : e = r.info)
  PROVE  \E q \in Queues : Comes(q, e)
<1> DEFINE d == [e EXCEPT !.queue_id = cur_queue_id + 1]
<1>1. PICK q \in Queues : ~Loaded(q) /\ queue_info_table' = [queue_info_table EXCEPT ![q] = d]
  BY DEF LoadEntry, FirstFree
<1> HIDE DEF d
<1>2. Becomes(q, d)
  BY <1>1, EntryBecomes
<1>3. UNCHANGED <<request_info_table, request_count, num_pending_requests, table, reports, saved>>
  BY DEF LoadEntry, request_vars
<1>4. SameRequests
  BY <1>3, KeptRequests
<1>5. Comes(q, e)
  BY <1>1, <1>2, <1>3, <1>4 DEF Comes, LoadEntry, d
<1> QED
  BY <1>5

LEMMA DeleteStep ==
  ASSUME TInv, NEW q \in Queues, Loaded(q), delete_queue(q), UNCHANGED cur_queue_id,
         \/ /\ \E status \in QueueStatus \cup {"Too many Errors"} :
                 reports' = reports \cup {[queue_id |-> queue_info_table[q].queue_id,
                                           status |-> status]}
            /\ UNCHANGED saved
         \/ /\ saved' = saved \cup {[queue_id |-> queue_info_table[q].queue_id,
                                     info |-> SavedInfo(queue_info_table[q])]}
            /\ UNCHANGED reports
  PROVE  Goes(q)
<1> DEFINE mine == RequestsOf(q)
           ids == { request_info_table[s].request_id : s \in mine }
<1>1. /\ request_info_table' =
           [s \in Slot |-> IF s \in mine THEN FreeRequest ELSE request_info_table[s]]
      /\ table' = [f \in FmSlot |-> IF f \in ids THEN FreeEntry ELSE table[f]]
      /\ request_count' = request_count - Cardinality(mine)
      /\ num_pending_requests' = num_pending_requests - Cardinality({ f \in ids : Busy(f) })
  BY DEF delete_queue, CancelRequests
<1>2. Becomes(q, EmptyQueue)
  BY EntryBecomes DEF delete_queue
<1>3. ASSUME NEW s \in mine PROVE request_info_table[s].request_id \in FmSlot
  BY RequestContext DEF RequestsOf, Live
<1>4. { f \in ids : Busy(f) } = BusyEntries \cap ids
  BY <1>3 DEF BusyEntries
<1> HIDE DEF mine, ids
<1>5. LiveSlots' = LiveSlots \ mine
  BY <1>1 DEF LiveSlots, Live, FreeRequest
<1>6. BusyEntries' = BusyEntries \ ids
  BY <1>1 DEF BusyEntries, Busy, FreeEntry
<1>7. ASSUME NEW x \in LiveSlots \ mine PROVE Carries(x, x)
  <2> DEFINE g == request_info_table[x].request_id
  <2>1. x \in Slot /\ g \in FmSlot /\ table[g].callback_param = x
    BY RequestContext DEF LiveSlots, Live
  <2>2. g \notin ids
    <3>1. ASSUME NEW s \in mine, request_info_table[s].request_id = g PROVE FALSE
      BY <2>1, <3>1, RequestContext DEF mine, RequestsOf, Live
    <3> QED
      BY <3>1 DEF ids
  <2>3. request_info_table'[x] = request_info_table[x]
    BY <1>1, <2>1
  <2>4. table'[g] = table[g]
    BY <1>1, <2>1, <2>2
  <2> QED
    BY <2>3, <2>4 DEF Carries, UrlOf
<1> QED
  BY <1>1, <1>2, <1>4, <1>5, <1>6, <1>7 DEF Goes, delete_queue, mine, ids

LEMMA CommandStep == ASSUME TInv, Command PROVE Kinds
<1>1. ASSUME NEW s \in Site, request_crawl(s) PROVE Kinds
  <2>1. NewQueue(s) \in QueueInfo
    BY NewQueueType
  <2>2. \E q \in Queues : Comes(q, NewQueue(s))
    BY <1>1, <2>1, LoadStep DEF request_crawl
  <2> QED
    BY <2>1, <2>2 DEF Kinds
<1>2. ASSUME NEW r \in saved, load_queue(r) PROVE Kinds
  <2>1. r.info \in QueueInfo
    BY DEF TInv, TypeOK
  <2>2. \E q \in Queues : Comes(q, r.info)
    BY <1>2, <2>1, LoadStep DEF load_queue
  <2> QED
    BY <2>1, <2>2 DEF Kinds
<1>3. ASSUME NEW q \in Queues, suspend_crawl(q) PROVE Kinds
  <2>1. Goes(q)
    BY <1>3, DeleteStep DEF suspend_crawl, manager_vars
  <2> QED
    BY <2>1 DEF Kinds
<1>4. CASE NoCommand \/ RejectCommand \/ SuspendUnknown \/ SetPaused \/ AnswerStatus \/ Die
  BY <1>4, QuietStep DEF Quiet, Kinds
<1> QED
  BY <1>1, <1>2, <1>3, <1>4 DEF Command

-----------------------------------------------------------------------------
(* The choice of a queue, the peers and the clock. *)

LEMMA ReportStep == ASSUME TInv, NEW q \in Queues, ReportSite(q) PROVE Goes(q)
<1> DEFINE e == queue_info_table[q]
           status == ReportStatus(e)
<1>1. status \in QueueStatus \cup {"Too many Errors"}
  BY Typing, FieldTypes DEF ReportStatus
<1>2. Loaded(q)
  BY DEF ReportSite, Selected, Stops
<1>3. /\ delete_queue(q) /\ UNCHANGED cur_queue_id /\ UNCHANGED saved
      /\ reports' = reports \cup {[queue_id |-> e.queue_id, status |-> status]}
  BY DEF ReportSite
<1> HIDE DEF status
<1> QED
  BY <1>1, <1>2, <1>3, DeleteStep

LEMMA FetchStep ==
  ASSUME TInv, NEW q \in Queues, FetchNext(q)
  PROVE  Loses(q) \/ \E s \in Slot, f \in FmSlot : Launches(q, s, f)
<1> DEFINE e == queue_info_table[q]
           info == Head(e.urls_to_crawl)
           d == pop_url(e)
<1>1. Loaded(q) /\ IsReady(e) /\ SameSites /\ ~paused
  BY DEF FetchNext, SelectReady, Selected, Stops, MayRequest, SameSites, site_vars
<1>2. e \in QueueInfo
  BY Typing
<1>3. d \in QueueInfo /\ info \in UrlInfo
  BY <1>1, <1>2, PopType DEF IsReady
<1>4. /\ Requested(d) \in QueueInfo /\ Recounted(Requested(d), d, 1)
      /\ Refused(d) \in QueueInfo /\ Recounted(Refused(d), d, 0)
  <2> HIDE DEF d
  <2> QED
    BY <1>3, RequestedType, Recounting
<1>5. CASE /\ queue_info_table' = [queue_info_table EXCEPT ![q] = Refused(d)]
           /\ UNCHANGED request_vars
  <2> HIDE DEF d
  <2>1. Becomes(q, Refused(d))
    BY <1>5, EntryBecomes
  <2>2. SameRequests
    BY <1>5, KeptRequests DEF request_vars
  <2> QED
    BY <1>1, <1>4, <2>1, <2>2 DEF Loses, d
<1>6. CASE /\ \E s \in Slot, f \in FmSlot :
                /\ ~Live(s) /\ ~Busy(f)
                /\ request_info_table' = WithRequest(request_info_table, s, f, q, info, 0)
                /\ table' = WithEntry(table, f, s, info.u)
           /\ request_count' = request_count + 1
           /\ num_pending_requests' = num_pending_requests + 1
           /\ queue_info_table' = [queue_info_table EXCEPT ![q] = Requested(d)]
  <2>1. PICK s \in Slot, f \in FmSlot :
           /\ ~Live(s) /\ ~Busy(f)
           /\ request_info_table' = WithRequest(request_info_table, s, f, q, info, 0)
           /\ table' = WithEntry(table, f, s, info.u)
    BY <1>6
  <2> HIDE DEF info, d
  <2>2. /\ request_info_table'[s].request_id = f /\ request_info_table'[s].queue_entry = q
        /\ request_info_table'[s].seed_id = info.seed_id
        /\ request_info_table'[s].level = info.level
        /\ \A x \in Slot \ {s} : request_info_table'[x] = request_info_table[x]
    BY <2>1, Typing DEF WithRequest
  <2>3. /\ table'[f].url = info.u /\ table'[f].url # None
        /\ \A g \in FmSlot \ {f} : table'[g] = table[g]
    BY <1>3, <2>1, Typing, UrlAssumption DEF WithEntry, UrlInfo
  <2>4. LiveSlots' = LiveSlots \cup {s} /\ s \notin LiveSlots
    BY <2>1, <2>2, UrlAssumption DEF LiveSlots, Live
  <2>5. BusyEntries' = BusyEntries \cup {f} /\ f \notin BusyEntries
    BY <2>1, <2>3 DEF BusyEntries, Busy
  <2>6. ASSUME NEW x \in LiveSlots PROVE Carries(x, x)
    <3>1. x \in Slot /\ request_info_table[x].request_id \in FmSlot \ {f}
      BY <2>1, RequestContext DEF LiveSlots, Live, Busy
    <3> QED
      BY <2>2, <2>3, <2>4, <3>1 DEF Carries, UrlOf
  <2>7. UrlOf(s)' = info.u
    BY <2>2, <2>3 DEF UrlOf
  <2>8. Becomes(q, Requested(d))
    BY <1>6, EntryBecomes
  <2>9. Launches(q, s, f)
    BY <1>1, <1>4, <1>6, <2>2, <2>4, <2>5, <2>6, <2>7, <2>8
    DEF Launches, Requests, info, d
  <2> QED
    BY <2>9
<1> QED
  BY <1>5, <1>6 DEF FetchNext

LEMMA SelectStep == ASSUME TInv, Select PROVE Kinds
<1>1. ASSUME NEW q \in Queues, ReportSite(q) PROVE Kinds
  BY <1>1, ReportStep DEF Kinds
<1>2. ASSUME NEW q \in Queues, FetchNext(q) PROVE Kinds
  BY <1>2, FetchStep DEF Kinds
<1>3. ASSUME NEW q \in Queues, HoldBack(q) PROVE Kinds
  BY <1>3, TablesRest
  DEF HoldBack, SelectReady, request_vars, manager_vars, site_vars, SameSites, Kinds
<1>4. CASE SelectNone
  BY <1>4, TablesRest DEF SelectNone, request_vars, manager_vars, site_vars, SameSites, Kinds
<1>5. CASE Dispatch
  BY <1>5, QuietStep DEF Quiet, Kinds
<1> QED
  BY <1>1, <1>2, <1>3, <1>4, <1>5 DEF Select

LEMMA PeersStep == ASSUME TInv, Peers PROVE Rests
<1>1. ASSUME NEW f \in FmSlot, ServerAnswers(f) \/ RequestExpires(f) PROVE Rests
  <2>1. \/ table' = [table EXCEPT ![f].ready = TRUE]
        \/ table' = [table EXCEPT ![f].expired = TRUE]
    BY <1>1 DEF ServerAnswers, RequestExpires
  <2>2. \A g \in FmSlot : table'[g].url = table[g].url
    BY <2>1, Typing DEF TableEntry
  <2> QED
    BY <1>1, <2>2, TablesRest
    DEF ServerAnswers, RequestExpires, manager_vars, site_vars, SameSites
<1>2. CASE \E c \in Commands : SendCommand(c)
  BY <1>2, QuietStep DEF Quiet
<1> QED
  BY <1>1, <1>2 DEF Peers

LEMMA TickStep == ASSUME TInv, Tick PROVE Rests
<1>1. SameRequests /\ SameSites
  BY KeptRequests DEF Tick, request_vars, manager_vars, site_vars, SameSites
<1>2. queue_info_table' =
        [q \in Queues |-> [queue_info_table[q] EXCEPT !.due = Sooner(queue_info_table[q].due)]]
  BY DEF Tick
<1>3. ASSUME NEW p \in Queues
      PROVE  Recounted(queue_info_table'[p], queue_info_table[p], 0)
  <2>1. queue_info_table[p] \in QueueInfo
    BY Typing
  <2> QED
    BY <1>2, <2>1 DEF Recounted, QueueInfo
<1>4. ASSUME NEW p \in Queues, queue_info_table[p] = EmptyQueue
      PROVE  queue_info_table'[p] = EmptyQueue
  BY <1>2, <1>4 DEF EmptyQueue, Sooner
<1> QED
  BY <1>1, <1>3, <1>4 DEF Rests

\* Every step is of one of the eight kinds.
LEMMA StepKinds == ASSUME TInv, [Next]_vars PROVE Kinds
<1>1. CASE UNCHANGED vars \/ Stopped
  BY <1>1, TablesRest DEF Stopped, vars, request_vars, manager_vars, site_vars, SameSites, Kinds
<1>2. CASE PollReturns \/ FmProcessed
  BY <1>2, QuietStep DEF Quiet, Kinds
<1>3. CASE Peers \/ Tick
  BY <1>3, PeersStep, TickStep DEF Kinds
<1> QED
  BY <1>1, <1>2, <1>3, CallbackStep, CommandStep, SelectStep DEF Next, Loop

-----------------------------------------------------------------------------
(* The counters *)

LoadedEntries == { q \in Queues : Loaded(q) }

RequestCounts ==
  /\ request_count = Cardinality(LiveSlots)
  /\ num_pending_requests = Cardinality(BusyEntries)

PendingCounts ==
  \A q \in Queues :
    /\ queue_info_table[q].pending_request_count = Cardinality(RequestsOf(q))
    /\ queue_info_table[q].pending_request_count <= MAX_QUEUE_PENDING_REQUESTS

BlankEntries == \A q \in Queues : ~Loaded(q) => queue_info_table[q] = EmptyQueue
SiteCounts == queue_count = Cardinality(LoadedEntries) /\ numsites = queue_count

\* A suspended site has no request in flight, or its entry would start with a
\* count of requests that nobody will answer.
SavedBlank == \A r \in saved : r.info.pending_request_count = 0

CountInv == RequestCounts /\ PendingCounts /\ BlankEntries /\ SiteCounts /\ SavedBlank

-----------------------------------------------------------------------------
(* Finite sets and their sizes *)

LEMMA FiniteTables ==
  /\ IsFiniteSet(LiveSlots) /\ IsFiniteSet(BusyEntries) /\ IsFiniteSet(LoadedEntries)
  /\ \A p : IsFiniteSet(RequestsOf(p))
<1>1. LiveSlots \subseteq Slot /\ BusyEntries \subseteq FmSlot /\ LoadedEntries \subseteq Queues
  BY DEF LiveSlots, BusyEntries, LoadedEntries
<1>2. IsFiniteSet(Slot) /\ IsFiniteSet(FmSlot)
  BY SizeAssumption
<1>3. IsFiniteSet(Queues)
  <2>1. 0 \in Int /\ MAX_NUM_QUEUES - 1 \in Int
    BY SizeAssumption
  <2> QED
    BY <2>1, FS_Interval DEF Queues
<1>4. \A p : RequestsOf(p) \subseteq Slot
  BY DEF RequestsOf
<1> QED
  BY <1>1, <1>2, <1>3, <1>4, FS_Subset

LEMMA OneMore ==
  ASSUME NEW S, IsFiniteSet(S), NEW x, x \notin S
  PROVE  Cardinality(S \cup {x}) = Cardinality(S) + 1 /\ Cardinality(S) \in Nat
BY FS_AddElement, FS_CardinalityType

LEMMA OneLess ==
  ASSUME NEW S, IsFiniteSet(S), NEW x \in S
  PROVE  /\ Cardinality(S \ {x}) = Cardinality(S) - 1 /\ Cardinality(S) \in Nat
         /\ IsFiniteSet(S \ {x})
BY FS_RemoveElement, FS_CardinalityType

LEMMA OneMoved ==
  ASSUME NEW S, IsFiniteSet(S), NEW x \in S, NEW y, y \notin S \ {x}
  PROVE  Cardinality((S \ {x}) \cup {y}) = Cardinality(S)
<1>1. IsFiniteSet(S \ {x}) /\ Cardinality(S \ {x}) = Cardinality(S) - 1 /\ Cardinality(S) \in Nat
  BY OneLess
<1>2. Cardinality((S \ {x}) \cup {y}) = Cardinality(S \ {x}) + 1
  BY <1>1, OneMore
<1> QED
  BY <1>1, <1>2

-----------------------------------------------------------------------------
(* What the kinds of steps share *)

LEMMA RequestsAgain ==
  ASSUME SameRequests
  PROVE  \A p : RequestsOf(p)' = RequestsOf(p)
<1> TAKE p
<1>1. RequestsOf(p) = { s \in LiveSlots : request_info_table[s].queue_entry = p }
  BY DEF RequestsOf, LiveSlots
<1>2. RequestsOf(p)' = { s \in LiveSlots' : request_info_table'[s].queue_entry = p }
  BY DEF RequestsOf, LiveSlots
<1> QED
  BY <1>1, <1>2 DEF SameRequests, Requests, Carries

LEMMA RequestCountsAgain ==
  ASSUME RequestCounts, SameRequests
  PROVE  RequestCounts'
<1>1. Cardinality(LiveSlots) \in Nat /\ Cardinality(BusyEntries) \in Nat
  BY FiniteTables, FS_CardinalityType
<1> QED
  BY <1>1 DEF RequestCounts, SameRequests, Requests

LEMMA SitesAgain ==
  ASSUME SiteCounts, SavedBlank, SameSites,
         \A p \in Queues : queue_info_table'[p].queue_id = queue_info_table[p].queue_id
  PROVE  SiteCounts' /\ SavedBlank'
<1>1. LoadedEntries' = LoadedEntries
  BY DEF LoadedEntries, Loaded
<1> QED
  BY <1>1 DEF SiteCounts, SavedBlank, SameSites

\* The requests of an entry are of a site that is being crawled.
LEMMA RequestOfSite ==
  ASSUME CountInv, NEW q \in Queues, RequestsOf(q) # {}
  PROVE  Loaded(q)
<1>1. Cardinality(RequestsOf(q)) # 0
  BY FiniteTables, FS_EmptySet
<1> QED
  BY <1>1 DEF CountInv, PendingCounts, BlankEntries, EmptyQueue

\* One entry changes its counters, and its requests with them.
LEMMA OneRecounted ==
  ASSUME TInv, CountInv, NEW q \in Queues, Loaded(q), SameSites, NEW d, Becomes(q, d),
         d.queue_id = queue_info_table[q].queue_id,
         d.pending_request_count = Cardinality(RequestsOf(q)'),
         d.pending_request_count <= MAX_QUEUE_PENDING_REQUESTS,
         \A p \in Queues \ {q} : RequestsOf(p)' = RequestsOf(p)
  PROVE  PendingCounts' /\ BlankEntries' /\ SiteCounts' /\ SavedBlank'
<1>1. PendingCounts'
  <2>1. ASSUME NEW p \in Queues
        PROVE  /\ queue_info_table'[p].pending_request_count = Cardinality(RequestsOf(p)')
               /\ queue_info_table'[p].pending_request_count <= MAX_QUEUE_PENDING_REQUESTS
    <3>1. CASE p = q
      BY <3>1 DEF Becomes
    <3>2. CASE p # q
      BY <3>2 DEF Becomes, CountInv, PendingCounts
    <3> QED
      BY <3>1, <3>2
  <2> QED
    BY <2>1 DEF PendingCounts
<1>2. BlankEntries'
  BY DEF BlankEntries, CountInv, Becomes, Loaded
<1>3. SiteCounts' /\ SavedBlank'
  BY SitesAgain DEF CountInv, Becomes
<1> QED
  BY <1>1, <1>2, <1>3

LEMMA RestsCounts == ASSUME TInv, CountInv, Rests PROVE CountInv'
<1>1. RequestCounts'
  BY RequestCountsAgain DEF CountInv, Rests
<1>2. \A p : RequestsOf(p)' = RequestsOf(p)
  BY RequestsAgain DEF Rests
<1>3. ASSUME NEW p \in Queues
      PROVE  /\ queue_info_table'[p].pending_request_count
                  = queue_info_table[p].pending_request_count
             /\ queue_info_table'[p].queue_id = queue_info_table[p].queue_id
             /\ queue_info_table'[p].queue_id = 0 => queue_info_table'[p] = EmptyQueue
  <2>1. Recounted(queue_info_table'[p], queue_info_table[p], 0)
    BY DEF Rests
  <2>2. queue_info_table[p] \in QueueInfo
    BY Typing
  <2>3. queue_info_table[p].pending_request_count \in Int
    BY <2>2, FieldTypes
  <2>4. ASSUME queue_info_table[p].queue_id = 0
        PROVE  queue_info_table'[p] = EmptyQueue
    <3>1. queue_info_table[p] = EmptyQueue
      BY <2>4 DEF CountInv, BlankEntries, Loaded
    <3>2. RequestsOf(p) = {}
      BY <2>4, RequestOfSite DEF Loaded
    <3> QED
      BY <3>1, <3>2 DEF Rests
  <2> QED
    BY <2>1, <2>3, <2>4 DEF Recounted
<1>4. PendingCounts' /\ BlankEntries'
  BY <1>2, <1>3 DEF CountInv, PendingCounts, BlankEntries, Loaded
<1>5. SiteCounts' /\ SavedBlank'
  BY <1>3, SitesAgain DEF CountInv, Rests
<1> QED
  BY <1>1, <1>4, <1>5 DEF CountInv

\* A link offered to an entry changes no counter of requests.
LEMMA OfferedCounts ==
  ASSUME NEW e \in QueueInfo, NEW info \in UrlInfo, NEW verdict
  PROVE  /\ Offered(e, info, verdict).queue_id = e.queue_id
         /\ Offered(e, info, verdict).pending_request_count = e.pending_request_count
<1> DEFINE d == push_url(e, info)
<1>1. /\ d \in QueueInfo /\ d.queue_id = e.queue_id
      /\ d.pending_request_count = e.pending_request_count
  BY PushType DEF push_url, QueueInfo
<1>2. LET c == [d EXCEPT !.url_count_per_seed[info.seed_id] = @ + 1]
      IN  c.queue_id = e.queue_id /\ c.pending_request_count = e.pending_request_count
  <2> HIDE DEF d
  <2> QED
    BY <1>1 DEF QueueInfo
<1>3. LET c == [e EXCEPT !.status = "Max Level"]
          b == [e EXCEPT !.status = "Max Count"]
      IN  /\ c.queue_id = e.queue_id /\ c.pending_request_count = e.pending_request_count
          /\ b.queue_id = e.queue_id /\ b.pending_request_count = e.pending_request_count
  BY DEF QueueInfo
<1> QED
  BY <1>1, <1>2, <1>3 DEF Offered

LEMMA OffersCounts ==
  ASSUME TInv, CountInv, NEW s \in Slot, NEW info \in UrlInfo, NEW verdict,
         Offers(s, info, verdict)
  PROVE  CountInv'
<1> DEFINE q == request_info_table[s].queue_entry
           e == queue_info_table[q]
           d == Offered(e, info, verdict)
<1>1. s \in LiveSlots /\ SameRequests /\ SameSites /\ Becomes(q, d)
  BY DEF Offers
<1>2. q \in Queues /\ s \in RequestsOf(q)
  BY <1>1, RequestContext DEF LiveSlots, RequestsOf, Live
<1>3. e \in QueueInfo /\ Loaded(q)
  BY <1>2, Typing, RequestOfSite
<1>4. d.queue_id = e.queue_id /\ d.pending_request_count = e.pending_request_count
  BY <1>3, OfferedCounts
<1>5. \A p : RequestsOf(p)' = RequestsOf(p)
  BY <1>1, RequestsAgain
<1> HIDE DEF q, d
<1>6. PendingCounts' /\ BlankEntries' /\ SiteCounts' /\ SavedBlank'
  BY <1>1, <1>2, <1>3, <1>4, <1>5, OneRecounted DEF CountInv, PendingCounts
<1> QED
  BY <1>1, <1>6, RequestCountsAgain DEF CountInv

LEMMA EndsCounts == ASSUME TInv, CountInv, NEW s \in Slot, Ends(s) PROVE CountInv'
<1>0. PICK q \in Queues : q = request_info_table[s].queue_entry
  BY RequestContext DEF Ends, LiveSlots, Live
<1> DEFINE f == request_info_table[s].request_id
           e == queue_info_table[q]
<1>1. /\ SameSites /\ s \in LiveSlots /\ f \in BusyEntries
      /\ Requests(LiveSlots \ {s}, BusyEntries \ {f}, -1)
      /\ \A x \in LiveSlots \ {s} : Carries(x, x)
  BY <1>0 DEF Ends
<1>2. PICK d \in QueueInfo : Recounted(d, e, -1) /\ Becomes(q, d)
  BY <1>0 DEF Ends
<1>3. q \in Queues /\ RequestsOf(q) # {} /\ s \in RequestsOf(q)
  BY <1>0, <1>1 DEF LiveSlots, RequestsOf
<1>4. RequestCounts'
  <2>1. /\ Cardinality(LiveSlots \ {s}) = Cardinality(LiveSlots) - 1
        /\ Cardinality(BusyEntries \ {f}) = Cardinality(BusyEntries) - 1
        /\ Cardinality(LiveSlots) \in Nat /\ Cardinality(BusyEntries) \in Nat
    BY <1>1, FiniteTables, OneLess
  <2> QED
    BY <1>1, <2>1 DEF RequestCounts, Requests, CountInv
<1>5. RequestsOf(q)' = RequestsOf(q) \ {s}
  BY <1>0, <1>1 DEF RequestsOf, LiveSlots, Requests, Carries
<1>6. \A p \in Queues \ {q} : RequestsOf(p)' = RequestsOf(p)
  BY <1>0, <1>1 DEF RequestsOf, LiveSlots, Requests, Carries
<1>7. /\ Cardinality(RequestsOf(q) \ {s}) = Cardinality(RequestsOf(q)) - 1
      /\ Cardinality(RequestsOf(q)) \in Nat
  BY <1>3, FiniteTables, OneLess
<1>8. e.pending_request_count = Cardinality(RequestsOf(q))
      /\ e.pending_request_count <= MAX_QUEUE_PENDING_REQUESTS
  BY <1>3 DEF CountInv, PendingCounts
<1>9. d.pending_request_count = Cardinality(RequestsOf(q)')
      /\ d.pending_request_count <= MAX_QUEUE_PENDING_REQUESTS
  BY <1>2, <1>5, <1>7, <1>8, SizeAssumption DEF Recounted
<1>10. PendingCounts' /\ BlankEntries' /\ SiteCounts' /\ SavedBlank'
  BY <1>1, <1>2, <1>3, <1>6, <1>9, OneRecounted, RequestOfSite DEF Recounted
<1> QED
  BY <1>4, <1>10 DEF CountInv

LEMMA ResumesCounts ==
  ASSUME TInv, CountInv, NEW s \in Slot, NEW s2 \in Slot, NEW f2 \in FmSlot, Resumes(s, s2, f2)
  PROVE  CountInv'
<1>0. PICK q \in Queues : q = request_info_table[s].queue_entry
  BY RequestContext DEF Resumes, LiveSlots, Live
<1> DEFINE f == request_info_table[s].request_id
           e == queue_info_table[q]
<1>1. /\ SameSites /\ s \in LiveSlots /\ f \in BusyEntries
      /\ s2 \notin LiveSlots \ {s} /\ f2 \notin BusyEntries
      /\ Requests((LiveSlots \ {s}) \cup {s2}, (BusyEntries \ {f}) \cup {f2}, 0)
      /\ \A x \in LiveSlots \ {s} : Carries(x, x)
      /\ Carries(s2, s)
  BY <1>0 DEF Resumes
<1>2. PICK d \in QueueInfo : Recounted(d, e, 0) /\ Becomes(q, d)
  BY <1>0 DEF Resumes
<1>3. q \in Queues /\ RequestsOf(q) # {} /\ s \in RequestsOf(q)
  BY <1>0, <1>1 DEF LiveSlots, RequestsOf
<1>4. RequestCounts'
  <2>1. /\ Cardinality((LiveSlots \ {s}) \cup {s2}) = Cardinality(LiveSlots)
        /\ Cardinality((BusyEntries \ {f}) \cup {f2}) = Cardinality(BusyEntries)
    BY <1>1, FiniteTables, OneMoved
  <2>2. Cardinality(LiveSlots) \in Nat /\ Cardinality(BusyEntries) \in Nat
    BY FiniteTables, FS_CardinalityType
  <2> QED
    BY <1>1, <2>1, <2>2 DEF RequestCounts, Requests, CountInv
<1>5. RequestsOf(q)' = (RequestsOf(q) \ {s}) \cup {s2} /\ s2 \notin RequestsOf(q) \ {s}
  BY <1>0, <1>1 DEF RequestsOf, LiveSlots, Requests, Carries
<1>6. \A p \in Queues \ {q} : RequestsOf(p)' = RequestsOf(p)
  BY <1>0, <1>1 DEF RequestsOf, LiveSlots, Requests, Carries
<1>7. Cardinality(RequestsOf(q)') = Cardinality(RequestsOf(q))
  BY <1>3, <1>5, FiniteTables, OneMoved
<1>8. e.pending_request_count = Cardinality(RequestsOf(q))
      /\ e.pending_request_count <= MAX_QUEUE_PENDING_REQUESTS
      /\ e.pending_request_count \in Int
  BY <1>3, Typing, FieldTypes DEF CountInv, PendingCounts
<1>9. d.pending_request_count = Cardinality(RequestsOf(q)')
      /\ d.pending_request_count <= MAX_QUEUE_PENDING_REQUESTS
  BY <1>2, <1>7, <1>8 DEF Recounted
<1>10. PendingCounts' /\ BlankEntries' /\ SiteCounts' /\ SavedBlank'
  BY <1>1, <1>2, <1>3, <1>6, <1>9, OneRecounted, RequestOfSite DEF Recounted
<1> QED
  BY <1>4, <1>10 DEF CountInv

LEMMA PoppedCounts ==
  ASSUME NEW e \in QueueInfo
  PROVE  /\ pop_url(e).queue_id = e.queue_id
         /\ pop_url(e).pending_request_count = e.pending_request_count
BY DEF pop_url, QueueInfo

LEMMA LaunchesCounts ==
  ASSUME TInv, CountInv, NEW q \in Queues, NEW s \in Slot, NEW f \in FmSlot, Launches(q, s, f)
  PROVE  CountInv'
<1> DEFINE e == queue_info_table[q]
<1>1. /\ SameSites /\ Loaded(q) /\ IsReady(e) /\ s \notin LiveSlots /\ f \notin BusyEntries
      /\ Requests(LiveSlots \cup {s}, BusyEntries \cup {f}, 1)
      /\ \A x \in LiveSlots : Carries(x, x)
      /\ request_info_table'[s].queue_entry = q
  BY DEF Launches
<1>2. PICK d \in QueueInfo : Recounted(d, pop_url(e), 1) /\ Becomes(q, d)
  BY DEF Launches
<1>3. RequestCounts'
  <2>1. /\ Cardinality(LiveSlots \cup {s}) = Cardinality(LiveSlots) + 1
        /\ Cardinality(BusyEntries \cup {f}) = Cardinality(BusyEntries) + 1
    BY <1>1, FiniteTables, OneMore
  <2> QED
    BY <1>1, <2>1 DEF RequestCounts, Requests, CountInv
<1>4. RequestsOf(q)' = RequestsOf(q) \cup {s} /\ s \notin RequestsOf(q)
  BY <1>1 DEF RequestsOf, LiveSlots, Requests, Carries
<1>5. \A p \in Queues \ {q} : RequestsOf(p)' = RequestsOf(p)
  BY <1>1 DEF RequestsOf, LiveSlots, Requests, Carries
<1>6. Cardinality(RequestsOf(q)') = Cardinality(RequestsOf(q)) + 1
  BY <1>4, FiniteTables, OneMore
<1>7. /\ pop_url(e).queue_id = e.queue_id
      /\ pop_url(e).pending_request_count = e.pending_request_count
      /\ e.pending_request_count \in Int
  BY Typing, FieldTypes, PoppedCounts
<1>8. d.queue_id = e.queue_id /\ d.pending_request_count = e.pending_request_count + 1
  BY <1>2, <1>7 DEF Recounted
<1>9. d.pending_request_count <= MAX_QUEUE_PENDING_REQUESTS
  <2>1. e.pending_request_count < MAX_QUEUE_PENDING_REQUESTS
    BY <1>1 DEF IsReady
  <2> QED
    BY <1>7, <1>8, <2>1, SizeAssumption
<1>10. d.pending_request_count = Cardinality(RequestsOf(q)')
  BY <1>6, <1>8 DEF CountInv, PendingCounts
<1>11. PendingCounts' /\ BlankEntries' /\ SiteCounts' /\ SavedBlank'
  BY <1>1, <1>2, <1>5, <1>8, <1>9, <1>10, OneRecounted
<1> QED
  BY <1>3, <1>11 DEF CountInv

LEMMA LosesCounts == ASSUME TInv, CountInv, NEW q \in Queues, Loses(q) PROVE CountInv'
<1> DEFINE e == queue_info_table[q]
<1>1. SameRequests /\ SameSites /\ Loaded(q)
  BY DEF Loses
<1>2. PICK d \in QueueInfo : Recounted(d, pop_url(e), 0) /\ Becomes(q, d)
  BY DEF Loses
<1>3. \A p : RequestsOf(p)' = RequestsOf(p)
  BY <1>1, RequestsAgain
<1>4. /\ pop_url(e).queue_id = e.queue_id
      /\ pop_url(e).pending_request_count = e.pending_request_count
      /\ e.pending_request_count \in Int
  BY Typing, FieldTypes, PoppedCounts
<1>5. d.queue_id = e.queue_id /\ d.pending_request_count = e.pending_request_count
  BY <1>2, <1>4 DEF Recounted
<1>6. PendingCounts' /\ BlankEntries' /\ SiteCounts' /\ SavedBlank'
  BY <1>1, <1>2, <1>3, <1>5, OneRecounted DEF CountInv, PendingCounts
<1> QED
  BY <1>1, <1>6, RequestCountsAgain DEF CountInv

\* The entry a new site is given was blank, hence without requests.
LEMMA ComesCounts ==
  ASSUME TInv, CountInv, NEW q \in Queues, NEW e \in QueueInfo, Comes(q, e)
  PROVE  CountInv'
<1> DEFINE d == [e EXCEPT !.queue_id = cur_queue_id + 1]
<1>1. SameRequests /\ ~Loaded(q) /\ Becomes(q, d)
  BY DEF Comes
<1>2. e.pending_request_count = 0
  <2>1. ASSUME NEW s \in Site, e = NewQueue(s) PROVE e.pending_request_count = 0
    BY <2>1 DEF NewQueue, push_url, EmptyQueue
  <2>2. ASSUME NEW r \in saved, e = r.info PROVE e.pending_request_count = 0
    BY <2>2 DEF CountInv, SavedBlank
  <2> QED
    BY <2>1, <2>2 DEF Comes
<1>3. d.queue_id = cur_queue_id + 1 /\ d.pending_request_count = 0
  BY <1>2 DEF QueueInfo
<1>4. cur_queue_id + 1 # 0
  BY Counters
<1>5. \A p : RequestsOf(p)' = RequestsOf(p)
  BY <1>1, RequestsAgain
<1>6. RequestsOf(q) = {}
  BY <1>1, RequestOfSite
<1>7. PendingCounts'
  <2>1. ASSUME NEW p \in Queues
        PROVE  /\ queue_info_table'[p].pending_request_count = Cardinality(RequestsOf(p)')
               /\ queue_info_table'[p].pending_request_count <= MAX_QUEUE_PENDING_REQUESTS
    <3> HIDE DEF d
    <3>1. CASE p = q
      BY <1>1, <1>3, <1>5, <1>6, <3>1, FS_EmptySet, SizeAssumption DEF Becomes
    <3>2. CASE p # q
      BY <1>1, <1>5, <3>2 DEF Becomes, CountInv, PendingCounts
    <3> QED
      BY <3>1, <3>2
  <2> QED
    BY <2>1 DEF PendingCounts
<1> HIDE DEF d
<1>8. BlankEntries'
  BY <1>1, <1>3, <1>4 DEF BlankEntries, CountInv, Becomes, Loaded
<1>9. SiteCounts'
  <2>1. LoadedEntries' = LoadedEntries \cup {q} /\ q \notin LoadedEntries
    BY <1>1, <1>3, <1>4 DEF LoadedEntries, Loaded, Becomes
  <2>2. Cardinality(LoadedEntries') = Cardinality(LoadedEntries) + 1
    BY <2>1, FiniteTables, OneMore
  <2> QED
    BY <2>2 DEF SiteCounts, CountInv, Comes
<1>10. SavedBlank'
  BY DEF SavedBlank, CountInv, Comes
<1> QED
  BY <1>1, <1>7, <1>8, <1>9, <1>10, RequestCountsAgain DEF CountInv

LEMMA GoesCounts == ASSUME TInv, CountInv, NEW q \in Queues, Goes(q) PROVE CountInv'
<1> DEFINE e == queue_info_table[q]
           mine == RequestsOf(q)
           ids == { request_info_table[s].request_id : s \in mine }
<1>1. /\ Loaded(q)
      /\ LiveSlots' = LiveSlots \ mine /\ BusyEntries' = BusyEntries \ ids
      /\ request_count' = request_count - Cardinality(mine)
      /\ num_pending_requests' = num_pending_requests - Cardinality(BusyEntries \cap ids)
      /\ \A x \in LiveSlots \ mine : Carries(x, x)
      /\ Becomes(q, EmptyQueue)
      /\ queue_count' = queue_count - 1 /\ numsites' = numsites - 1
  BY DEF Goes
<1>2. RequestCounts'
  <2> HIDE DEF mine, ids
  <2>1. /\ Cardinality(LiveSlots \ mine) = Cardinality(LiveSlots) - Cardinality(LiveSlots \cap mine)
        /\ Cardinality(BusyEntries \ ids)
             = Cardinality(BusyEntries) - Cardinality(BusyEntries \cap ids)
    BY FiniteTables, FS_Difference
  <2>2. LiveSlots \cap mine = mine
    BY DEF LiveSlots, mine, RequestsOf
  <2> QED
    BY <1>1, <2>1, <2>2 DEF RequestCounts, CountInv
<1>3. RequestsOf(q)' = {}
  BY <1>1 DEF RequestsOf, LiveSlots, Carries
<1>4. \A p \in Queues \ {q} : RequestsOf(p)' = RequestsOf(p)
  BY <1>1 DEF RequestsOf, LiveSlots, Carries
<1>5. EmptyQueue.queue_id = 0 /\ EmptyQueue.pending_request_count = 0
  BY DEF EmptyQueue
<1> HIDE DEF mine, ids
<1>6. PendingCounts'
  <2>1. /\ queue_info_table'[q].pending_request_count = Cardinality(RequestsOf(q)')
        /\ queue_info_table'[q].pending_request_count <= MAX_QUEUE_PENDING_REQUESTS
    BY <1>1, <1>3, <1>5, FS_EmptySet, SizeAssumption DEF Becomes
  <2>2. \A p \in Queues \ {q} :
          /\ queue_info_table'[p].pending_request_count = Cardinality(RequestsOf(p)')
          /\ queue_info_table'[p].pending_request_count <= MAX_QUEUE_PENDING_REQUESTS
    BY <1>1, <1>4 DEF Becomes, CountInv, PendingCounts
  <2> QED
    BY <2>1, <2>2 DEF PendingCounts
<1>7. BlankEntries'
  BY <1>1 DEF BlankEntries, CountInv, Becomes, Loaded
<1>8. SiteCounts'
  <2>1. LoadedEntries' = LoadedEntries \ {q} /\ q \in LoadedEntries
    BY <1>1, <1>5 DEF LoadedEntries, Loaded, Becomes
  <2>2. Cardinality(LoadedEntries') = Cardinality(LoadedEntries) - 1
    BY <2>1, FiniteTables, OneLess
  <2> QED
    BY <1>1, <2>2 DEF SiteCounts, CountInv
<1>9. SavedBlank'
  <2>1. e \in QueueInfo
    BY Typing
  <2>2. SavedInfo(e).pending_request_count = 0
    <3> HIDE DEF e
    <3> QED
      BY <2>1 DEF SavedInfo, QueueInfo
  <2>3. CASE saved' = saved
    BY <2>3 DEF SavedBlank, CountInv
  <2>4. CASE saved' = saved \cup {[queue_id |-> e.queue_id, info |-> SavedInfo(e)]}
    <3> HIDE DEF e
    <3> QED
      BY <2>2, <2>4 DEF SavedBlank, CountInv
  <2> QED
    BY <2>3, <2>4 DEF Goes
<1> QED
  BY <1>2, <1>6, <1>7, <1>8, <1>9 DEF CountInv

-----------------------------------------------------------------------------
LEMMA InitCounts == Init => CountInv
<1> SUFFICES ASSUME Init PROVE CountInv
  OBVIOUS
<1>1. LiveSlots = {} /\ BusyEntries = {} /\ LoadedEntries = {}
  BY DEF Init, LiveSlots, BusyEntries, LoadedEntries, Live, Busy, Loaded, FreeRequest,
     FreeEntry, EmptyQueue
<1>2. \A p : RequestsOf(p) = {}
  BY <1>1 DEF RequestsOf, LiveSlots
<1>3. \A q \in Queues : queue_info_table[q] = EmptyQueue
  BY DEF Init
<1>4. EmptyQueue.pending_request_count = 0
  BY DEF EmptyQueue
<1>5. PendingCounts
  BY <1>2, <1>3, <1>4, FS_EmptySet, SizeAssumption DEF PendingCounts
<1>6. RequestCounts /\ SiteCounts
  BY <1>1, FS_EmptySet DEF RequestCounts, SiteCounts, Init
<1>7. BlankEntries /\ SavedBlank
  BY <1>3 DEF BlankEntries, SavedBlank, Init
<1> QED
  BY <1>5, <1>6, <1>7 DEF CountInv

LEMMA StepCounts == TInv /\ CountInv /\ [Next]_vars => CountInv'
<1> SUFFICES ASSUME TInv, CountInv, [Next]_vars PROVE CountInv'
  OBVIOUS
<1> QED
  BY StepKinds, RestsCounts, OffersCounts, EndsCounts, ResumesCounts, LaunchesCounts,
     LosesCounts, ComesCounts, GoesCounts DEF Kinds

LEMMA CountsHold == Spec => [](TInv /\ CountInv)
BY InitTyped, StepTyped, InitCounts, StepCounts, PTL DEF Spec

\* The tables hold the same requests: as many in the one as in the other.
LEMMA SameNumber == ASSUME TInv PROVE Cardinality(LiveSlots) = Cardinality(BusyEntries)
<1> DEFINE entry == [s \in LiveSlots |-> request_info_table[s].request_id]
<1>1. ASSUME NEW s \in LiveSlots
      PROVE  /\ entry[s] \in BusyEntries /\ entry[s] = request_info_table[s].request_id
             /\ table[entry[s]].callback_param = s
  BY RequestContext DEF LiveSlots, Live, BusyEntries, Busy
<1>2. ASSUME NEW f \in BusyEntries
      PROVE  table[f].callback_param \in LiveSlots /\ entry[table[f].callback_param] = f
  BY CallbackLive DEF BusyEntries
<1>3. entry \in Bijection(LiveSlots, BusyEntries)
  <2>1. entry \in [LiveSlots -> BusyEntries]
    BY <1>1
  <2>2. \A s, t \in LiveSlots : entry[s] = entry[t] => s = t
    BY <1>1
  <2>3. \A f \in BusyEntries : \E s \in LiveSlots : entry[s] = f
    BY <1>2
  <2> HIDE DEF entry
  <2> QED
    BY <2>1, <2>2, <2>3 DEF Bijection, Injection, IsInjective, Surjection
<1>4. ExistsBijection(LiveSlots, BusyEntries)
  BY <1>3 DEF ExistsBijection
<1> QED
  BY <1>4, FiniteTables, FS_Bijection

\* request_count and num_pending_requests always count the slots in use of the
\* two tables, so request_page and append_request find room when they look for it.
THEOREM RequestsCounted == Spec => []RequestAccounting
<1>1. TInv /\ CountInv => RequestAccounting
  BY SameNumber DEF CountInv, RequestCounts, RequestAccounting, LiveSlots, BusyEntries
<1> QED
  BY <1>1, CountsHold, PTL

\* pending_request_count of an entry is the number of its requests in flight,
\* never more than MAX_QUEUE_PENDING_REQUESTS, and queue_count that of the sites.
THEOREM QueuesCounted == Spec => []QueueAccounting
<1>1. CountInv => QueueAccounting
  BY DEF CountInv, PendingCounts, BlankEntries, SiteCounts, QueueAccounting, LoadedEntries
<1> QED
  BY <1>1, CountsHold, PTL

-----------------------------------------------------------------------------
(* The loop never blocks without a deadline while it has something to do.     *)

LEMMA SomeoneAnswers ==
  ASSUME TInv, LiveSlots # {}
  PROVE  \E f \in FmSlot : Busy(f)
BY RequestContext DEF LiveSlots, Live, Busy

LEMMA FullTable ==
  ASSUME TInv, CountInv, request_count >= MAX_PENDING_REQUESTS
  PROVE  \E f \in FmSlot : Busy(f)
<1>1. Cardinality(Slot) # 0 /\ Cardinality(Slot) \in Nat
  BY SizeAssumption, FS_EmptySet, FS_CardinalityType
<1>2. Cardinality(LiveSlots) \in Nat
  BY FiniteTables, FS_CardinalityType
<1>3. Cardinality(LiveSlots) # 0
  BY <1>1, <1>2 DEF CountInv, RequestCounts, MAX_PENDING_REQUESTS
<1>4. LiveSlots # {}
  BY <1>3, FS_EmptySet
<1> QED
  BY <1>4, SomeoneAnswers

\* Steps after which the loop is elsewhere.
LEMMA NotInPoll ==
  ASSUME \/ Callback \/ FmProcessed \/ PollReturns \/ Command
         \/ \E q \in Queues : ReportSite(q)
  PROVE  pc' # "poll"
<1>1. CASE Callback
  BY <1>1 DEF Callback, CallbackPage, CallbackRefused, CallbackRedirect, ParseLink, ParseEnd,
     StoreFails, FinishRequest
<1>2. CASE FmProcessed \/ PollReturns
  BY <1>2 DEF FmProcessed, PollReturns
<1>3. CASE Command
  BY <1>3 DEF Command, NoCommand, request_crawl, load_queue, LoadEntry, RejectCommand,
     suspend_crawl, SuspendUnknown, SetPaused, AnswerStatus, Die, Handled
<1>4. CASE \E q \in Queues : ReportSite(q)
  BY <1>4 DEF ReportSite
<1> QED
  BY <1>1, <1>2, <1>3, <1>4

\* select_queue finds nothing to do and nothing to wait for: every site waits for
\* an answer.
LEMMA NothingToSelect ==
  ASSUME TInv, CountInv, SelectNone, wait_until' = -1, queue_count > 0
  PROVE  \E f \in FmSlot : Busy(f)
<1>1. Waits = {}
  <2>1. ASSUME NEW w \in Waits PROVE w > 0
    BY <2>1 DEF Waits
  <2>2. ~\E w \in Waits : wait_until' = w
    BY <2>1
  <2> QED
    BY <2>2 DEF SelectNone
<1>2. PICK q \in Queues : Loaded(q)
  <2>1. Cardinality(LoadedEntries) # 0
    BY DEF CountInv, SiteCounts
  <2>2. LoadedEntries # {}
    BY <2>1, FS_EmptySet
  <2> QED
    BY <2>2 DEF LoadedEntries
<1> DEFINE e == queue_info_table[q]
<1>3. e \in QueueInfo /\ e.pending_request_count \in Int /\ e.due \in Nat
  BY Typing, FieldTypes
<1>4. ~IsDone(e) /\ ~IsReady(e)
  BY <1>2 DEF SelectNone, Stops
<1>5. e.urls_to_crawl # << >> => e.due = 0
  <2>1. ASSUME e.urls_to_crawl # << >>, e.due # 0 PROVE FALSE
    <3>1. e.due > 0
      BY <1>3, <2>1
    <3>2. e.due \in Waits
      BY <1>2, <2>1, <3>1 DEF Waits
    <3> QED
      BY <1>1, <3>2
  <2> QED
    BY <2>1
<1> HIDE DEF e
<1>6. e.pending_request_count > 0
  BY <1>3, <1>4, <1>5, SizeAssumption DEF IsDone, IsReady
<1>7. Cardinality(RequestsOf(q)) # 0
  BY <1>6 DEF CountInv, PendingCounts, e
<1>8. RequestsOf(q) # {}
  BY <1>7, FS_EmptySet
<1>9. LiveSlots # {}
  BY <1>8 DEF RequestsOf, LiveSlots
<1> QED
  BY <1>9, SomeoneAnswers

LEMMA InitWakes == Init => NoLostWakeup
BY DEF Init, NoLostWakeup

LEMMA StepWakes == TInv /\ CountInv /\ NoLostWakeup /\ [Next]_vars => NoLostWakeup'
<1> SUFFICES ASSUME TInv, CountInv, NoLostWakeup, [Next]_vars PROVE NoLostWakeup'
  OBVIOUS
<1>1. CASE \/ Callback \/ FmProcessed \/ PollReturns \/ Command
           \/ \E q \in Queues : ReportSite(q)
  BY <1>1, NotInPoll DEF NoLostWakeup
<1>2. CASE Dispatch
  <2>1. UNCHANGED <<table, queue_count>>
    BY <1>2 DEF Dispatch, request_vars, site_vars
  <2>2. pc' = "poll" => request_count >= MAX_PENDING_REQUESTS \/ queue_count <= 0
    BY <1>2 DEF Dispatch
  <2>3. pc' = "poll" /\ queue_count > 0 => \E f \in FmSlot : Busy(f)
    BY <2>2, FullTable, Counters
  <2> QED
    BY <2>1, <2>3 DEF NoLostWakeup, Busy
<1>3. CASE SelectNone
  <2>1. UNCHANGED <<table, queue_count>>
    BY <1>3 DEF SelectNone, request_vars, site_vars
  <2> QED
    BY <1>3, <2>1, NothingToSelect DEF NoLostWakeup, Busy
<1>4. ASSUME NEW q \in Queues, HoldBack(q) PROVE NoLostWakeup'
  <2>1. UNCHANGED <<table, paused>> /\ ~MayRequest
    BY <1>4 DEF HoldBack, SelectReady, request_vars
  <2>2. ~paused => request_count >= MAX_PENDING_REQUESTS
    <3>1. MAX_PENDING_REQUESTS \in Nat
      BY SizeAssumption, FS_CardinalityType DEF MAX_PENDING_REQUESTS
    <3> QED
      BY <2>1, <3>1, Counters DEF MayRequest
  <2> QED
    BY <2>1, <2>2, FullTable DEF NoLostWakeup, Busy
<1>5. ASSUME NEW q \in Queues, FetchNext(q) PROVE NoLostWakeup'
  BY <1>5 DEF FetchNext, NoLostWakeup
<1>6. CASE Peers
  <2>1. Rests
    BY <1>6, PeersStep
  <2>2. \A f \in FmSlot : Busy(f)' <=> Busy(f)
    BY <2>1 DEF Rests, SameRequests, Requests, BusyEntries
  <2>3. UNCHANGED <<pc, wait_until, paused, queue_count>>
    BY <1>6 DEF Peers, ServerAnswers, RequestExpires, SendCommand, manager_vars, site_vars
  <2> QED
    BY <2>2, <2>3 DEF NoLostWakeup
<1>7. CASE Tick
  <2>1. UNCHANGED <<table, pc, paused, queue_count>> /\ wait_until' = Sooner(wait_until)
    BY <1>7 DEF Tick, request_vars, manager_vars, site_vars
  <2>2. wait_until' = -1 => wait_until = -1
    BY <2>1, Counters DEF Sooner
  <2> QED
    BY <2>1, <2>2 DEF NoLostWakeup, Busy
<1>8. CASE UNCHANGED vars \/ Stopped
  BY <1>8 DEF Stopped, vars, request_vars, manager_vars, site_vars, NoLostWakeup, Busy
<1> QED
  BY <1>1, <1>2, <1>3, <1>4, <1>5, <1>6, <1>7, <1>8 DEF Next, Loop, Select

\* The loop never waits for ever in poll() while it runs and holds sites: some
\* request is in flight, whose answer or time-out ends the wait.
THEOREM WakesUp == Spec => []NoLostWakeup
BY CountsHold, InitWakes, StepWakes, PTL DEF Spec

-----------------------------------------------------------------------------
(* Every site accepted is in one place. *)

Holders(id) == { q \in Queues : queue_info_table[q].queue_id = id }
Told(id) == { r \in reports : r.queue_id = id }
Returned(id) == { r \in saved : r.queue_id = id }

Nowhere(id) == Holders(id) = {} /\ Told(id) = {} /\ Returned(id) = {}
InOnePlace(id) ==
  \/ (\E q : Holders(id) = {q}) /\ Told(id) = {} /\ Returned(id) = {}
  \/ Holders(id) = {} /\ (\E r : Told(id) = {r}) /\ Returned(id) = {}
  \/ Holders(id) = {} /\ Told(id) = {} /\ (\E r : Returned(id) = {r})

\* An id that was never given out is nowhere, or the site that gets it would be
\* in two places.
IdInv ==
  \A id \in Nat \ {0} : IF id <= cur_queue_id THEN InOnePlace(id) ELSE Nowhere(id)

LEMMA IdsAgain ==
  ASSUME IdInv, SameSites,
         \A p \in Queues : queue_info_table'[p].queue_id = queue_info_table[p].queue_id
  PROVE  IdInv'
<1>1. \A id : Holders(id)' = Holders(id) /\ Told(id)' = Told(id) /\ Returned(id)' = Returned(id)
  BY DEF Holders, Told, Returned, SameSites
<1> QED
  BY <1>1 DEF IdInv, InOnePlace, Nowhere, SameSites

LEMMA OneEntryIds ==
  ASSUME IdInv, SameSites, NEW q \in Queues, NEW d, Becomes(q, d),
         d.queue_id = queue_info_table[q].queue_id
  PROVE  IdInv'
BY IdsAgain DEF Becomes

LEMMA ComesIds ==
  ASSUME TInv, IdInv, NEW q \in Queues, NEW e \in QueueInfo, Comes(q, e)
  PROVE  IdInv'
<1> DEFINE new == cur_queue_id + 1
           d == [e EXCEPT !.queue_id = new]
<1>1. /\ cur_queue_id' = new /\ UNCHANGED <<reports, saved>>
      /\ queue_info_table[q].queue_id = 0 /\ Becomes(q, d)
  BY DEF Comes, Loaded
<1>2. cur_queue_id \in Nat /\ d.queue_id = new
  BY Counters DEF QueueInfo
<1> HIDE DEF d
<1> SUFFICES ASSUME NEW id \in Nat \ {0}
             PROVE  (IF id <= cur_queue_id THEN InOnePlace(id) ELSE Nowhere(id))'
  BY DEF IdInv
<1>3. Told(id)' = Told(id) /\ Returned(id)' = Returned(id)
  BY <1>1 DEF Told, Returned
<1>4. CASE id = new
  <2>1. Nowhere(id)
    BY <1>2, <1>4 DEF IdInv
  <2>2. Holders(id)' = {q}
    BY <1>1, <1>2, <1>4, <2>1 DEF Holders, Nowhere, Becomes
  <2> QED
    BY <1>1, <1>2, <1>3, <1>4, <2>1, <2>2 DEF Nowhere, InOnePlace
<1>5. CASE id # new
  <2>1. Holders(id)' = Holders(id)
    BY <1>1, <1>2, <1>5 DEF Holders, Becomes
  <2>2. id <= new <=> id <= cur_queue_id
    BY <1>2, <1>5
  <2> QED
    BY <1>1, <1>3, <2>1, <2>2 DEF IdInv, InOnePlace, Nowhere
<1> QED
  BY <1>4, <1>5

LEMMA GoesIds == ASSUME TInv, IdInv, NEW q \in Queues, Goes(q) PROVE IdInv'
<1> DEFINE e == queue_info_table[q]
           old == e.queue_id
<1>1. e \in QueueInfo /\ old \in Nat \ {0} /\ UNCHANGED cur_queue_id /\ Becomes(q, EmptyQueue)
  BY Typing, FieldTypes DEF Goes, Loaded
<1>2. \/ /\ \E r : r.queue_id = old /\ reports' = reports \cup {r}
         /\ UNCHANGED saved
      \/ /\ \E r : r.queue_id = old /\ saved' = saved \cup {r}
         /\ UNCHANGED reports
  <2>1. ASSUME NEW status, reports' = reports \cup {[queue_id |-> old, status |-> status]}
        PROVE  \E r : r.queue_id = old /\ reports' = reports \cup {r}
    <3>1. [queue_id |-> old, status |-> status].queue_id = old
      OBVIOUS
    <3> QED
      BY <2>1, <3>1
  <2>2. ASSUME NEW info, saved' = saved \cup {[queue_id |-> old, info |-> info]}
        PROVE  \E r : r.queue_id = old /\ saved' = saved \cup {r}
    <3>1. [queue_id |-> old, info |-> info].queue_id = old
      OBVIOUS
    <3> QED
      BY <2>2, <3>1
  <2> QED
    BY <2>1, <2>2 DEF Goes
<1>3. EmptyQueue.queue_id = 0
  BY DEF EmptyQueue
<1> HIDE DEF e, old
<1>4. q \in Holders(old)
  BY DEF Holders, e, old
<1>5. InOnePlace(old) /\ old <= cur_queue_id
  BY <1>1, <1>4 DEF IdInv, Nowhere
<1>6. Holders(old) = {q} /\ Told(old) = {} /\ Returned(old) = {}
  BY <1>4, <1>5 DEF InOnePlace
<1> SUFFICES ASSUME NEW id \in Nat \ {0}
             PROVE  (IF id <= cur_queue_id THEN InOnePlace(id) ELSE Nowhere(id))'
  BY DEF IdInv
<1>7. Holders(id)' = Holders(id) \ {q}
  BY <1>1, <1>3 DEF Holders, Becomes
<1>8. CASE id = old
  <2>1. Holders(id)' = {}
    BY <1>6, <1>7, <1>8
  <2>2. \/ (\E r : Told(id)' = {r}) /\ Returned(id)' = {}
        \/ Told(id)' = {} /\ \E r : Returned(id)' = {r}
    <3>1. ASSUME NEW r, r.queue_id = old, reports' = reports \cup {r}, UNCHANGED saved
          PROVE  Told(id)' = {r} /\ Returned(id)' = {}
      BY <1>6, <1>8, <3>1 DEF Told, Returned
    <3>2. ASSUME NEW r, r.queue_id = old, saved' = saved \cup {r}, UNCHANGED reports
          PROVE  Told(id)' = {} /\ Returned(id)' = {r}
      BY <1>6, <1>8, <3>2 DEF Told, Returned
    <3> QED
      BY <1>2, <3>1, <3>2
  <2> QED
    BY <1>1, <1>5, <1>8, <2>1, <2>2 DEF InOnePlace
<1>9. CASE id # old
  <2>1. Holders(id)' = Holders(id)
    BY <1>6, <1>7, <1>9 DEF Holders
  <2>2. Told(id)' = Told(id) /\ Returned(id)' = Returned(id)
    BY <1>2, <1>9 DEF Told, Returned
  <2> QED
    BY <1>1, <2>1, <2>2 DEF IdInv, InOnePlace, Nowhere
<1> QED
  BY <1>8, <1>9

LEMMA InitIds == Init => IdInv
<1> SUFFICES ASSUME Init, NEW id \in Nat \ {0} PROVE Nowhere(id) /\ ~(id <= cur_queue_id)
  BY DEF IdInv
<1> QED
  BY DEF Init, Nowhere, Holders, Told, Returned, EmptyQueue

LEMMA StepIds == TInv /\ IdInv /\ [Next]_vars => IdInv'
<1> SUFFICES ASSUME TInv, IdInv, [Next]_vars PROVE IdInv'
  OBVIOUS
<1>1. CASE Rests
  BY <1>1, IdsAgain DEF Rests, Recounted
<1>2. ASSUME NEW s \in Slot, NEW info \in UrlInfo, NEW verdict, Offers(s, info, verdict)
      PROVE  IdInv'
  <2>1. PICK q \in Queues : q = request_info_table[s].queue_entry
    BY <1>2, RequestContext DEF Offers, LiveSlots, Live
  <2>2. queue_info_table[q] \in QueueInfo
    BY Typing
  <2> QED
    BY <1>2, <2>1, <2>2, OfferedCounts, OneEntryIds DEF Offers
<1>3. ASSUME NEW s \in Slot, Ends(s) \/ \E s2 \in Slot, f2 \in FmSlot : Resumes(s, s2, f2)
      PROVE  IdInv'
  <2>1. PICK q \in Queues : q = request_info_table[s].queue_entry
    BY <1>3, RequestContext DEF Ends, Resumes, LiveSlots, Live
  <2>2. SameSites /\ \E d : d.queue_id = queue_info_table[q].queue_id /\ Becomes(q, d)
    BY <1>3, <2>1 DEF Ends, Resumes, Recounted
  <2> QED
    BY <2>2, OneEntryIds
<1>4. ASSUME NEW q \in Queues, Loses(q) \/ \E s \in Slot, f \in FmSlot : Launches(q, s, f)
      PROVE  IdInv'
  <2>1. pop_url(queue_info_table[q]).queue_id = queue_info_table[q].queue_id
    BY Typing, PoppedCounts
  <2>2. SameSites /\ \E d : d.queue_id = queue_info_table[q].queue_id /\ Becomes(q, d)
    BY <1>4, <2>1 DEF Loses, Launches, Recounted
  <2> QED
    BY <2>2, OneEntryIds
<1> QED
  BY <1>1, <1>2, <1>3, <1>4, StepKinds, ComesIds, GoesIds DEF Kinds

\* A site is never lost and never told about twice: each one accepted is in the
\* queue table, or was reported once, or was handed back once by SUSPEND.
THEOREM SitesAccountedFor == Spec => []EverySiteAccountedFor
<1>1. Spec => [](TInv /\ IdInv)
  BY InitTyped, StepTyped, InitIds, StepIds, PTL DEF Spec
<1>2. ASSUME TInv, IdInv, NEW id \in 1 .. cur_queue_id
      PROVE  Cardinality(Holders(id)) + Cardinality(Told(id)) + Cardinality(Returned(id)) = 1
  <2>1. cur_queue_id \in Nat
    BY <1>2, Counters
  <2>2. InOnePlace(id)
    BY <1>2, <2>1 DEF IdInv
  <2> QED
    <3>1. Cardinality({}) = 0 /\ \A x : Cardinality({x}) = 1
      BY FS_EmptySet, FS_Singleton
    <3> DEFINE h == Cardinality(Holders(id))
               t == Cardinality(Told(id))
               b == Cardinality(Returned(id))
    <3>2. \/ h = 1 /\ t = 0 /\ b = 0
          \/ h = 0 /\ t = 1 /\ b = 0
          \/ h = 0 /\ t = 0 /\ b = 1
      <4>1. CASE (\E q : Holders(id) = {q}) /\ Told(id) = {} /\ Returned(id) = {}
        BY <3>1, <4>1
      <4>2. CASE Holders(id) = {} /\ (\E r : Told(id) = {r}) /\ Returned(id) = {}
        BY <3>1, <4>2
      <4>3. CASE Holders(id) = {} /\ Told(id) = {} /\ (\E r : Returned(id) = {r})
        BY <3>1, <4>3
      <4> QED
        BY <2>2, <4>1, <4>2, <4>3 DEF InOnePlace
    <3> HIDE DEF h, t, b
    <3>3. h + t + b = 1
      BY <3>2
    <3> QED
      BY <3>3 DEF h, t, b
<1>3. TInv /\ IdInv => EverySiteAccountedFor
  BY <1>2 DEF EverySiteAccountedFor, Holders, Told, Returned
<1> QED
  BY <1>1, <1>3, PTL
=============================================================================
