----------------------------- MODULE CrawlServer -----------------------------
(***************************************************************************)
(* The crawl server of crawler/crawl_server: one process, one thread.      *)
(* manager.cc owns a table of sites being crawled (queue_info_table) and   *)
(* a table of page requests (request_info_table); fetch.cc owns a table of *)
(* connections to Web servers and calls crawl_callback (callback.cc) when  *)
(* a connection ends; url_queue.cc and url_filter.cc decide which links    *)
(* are queued.  The loop is  poll -> fm->process -> command -> select.     *)
(*                                                                         *)
(* The peers are the actors: the Web servers, which answer or stay silent, *)
(* the site manager, which sends commands, and the clock.                  *)
(*                                                                         *)
(* A URL is a constant, its hash Hash[u] is what url_queue remembers of    *)
(* it.  A slot of the fetch table stands for the request id it carries     *)
(* (id modulo MAX_PENDING_REQUESTS is the slot).  last_crawl + delay is    *)
(* kept as the time left until it, `due'.                                  *)
(***************************************************************************)
EXTENDS Integers, Sequences, FiniteSets

CONSTANTS
  Site, Url,           \* the sites and the URLs of the modelled Web
  SiteOf,              \* SiteOf[u]: the site whose name is in u
  Robots, Home,        \* Robots[s], Home[s]: the two URLs every crawl starts from
  HashValue, Hash,     \* url_queue::hash_url
  Parseable, Storable, \* URLs of a type that is parsed, of a type that is stored
  Disallowed,          \* URLs under a prefix that robots.txt of their site excludes
  MAX_NUM_QUEUES, MAX_QUEUE_PENDING_REQUESTS, MAX_NUM_TRIALS,
  Slot,                \* the MAX_PENDING_REQUESTS slots of request_info_table
  FmSlot,              \* the MAX_PENDING_REQUESTS slots of the fetch table
  MinSample,           \* 10: requests after which the error rate counts
  MaxConsecutive,      \* 5: errors in a row that end a crawl
  MaxLevel, MaxCount,  \* the seed filter of a site (0: no limit)
  Delay,               \* the delay of a site, in clock ticks
  Commands,            \* the commands the site manager sends in this instance
  MaxSites,            \* bound on the sites ever accepted (cur_queue_id)
  None

ASSUME UrlAssumption ==
  /\ SiteOf \in [Url -> Site]
  /\ Hash \in [Url -> HashValue]
  /\ Robots \in [Site -> Url] /\ Home \in [Site -> Url]
  /\ \A s \in Site : SiteOf[Robots[s]] = s /\ SiteOf[Home[s]] = s
  /\ Parseable \subseteq Url /\ Storable \subseteq Url /\ Disallowed \subseteq Url
  /\ None \notin Url \cup Site \cup Slot \cup FmSlot

ASSUME SizeAssumption ==
  /\ MAX_NUM_QUEUES \in Nat \ {0}
  /\ MAX_QUEUE_PENDING_REQUESTS \in Nat \ {0}
  /\ MAX_NUM_TRIALS \in Nat \ {0}
  /\ MinSample \in Nat /\ MaxConsecutive \in Nat
  /\ MaxLevel \in Nat /\ MaxCount \in Nat /\ Delay \in Nat /\ MaxSites \in Nat
  /\ IsFiniteSet(Slot) /\ IsFiniteSet(FmSlot) /\ Slot # {}
  /\ Cardinality(Slot) = Cardinality(FmSlot)
  /\ Commands \subseteq {"CRAWL", "LOAD", "RELOAD", "SUSPEND", "PAUSE", "RESUME",
                         "STATUS", "DIE"}

MAX_PENDING_REQUESTS == Cardinality(Slot)
Queues == 0 .. MAX_NUM_QUEUES - 1

VARIABLES
  queue_info_table, queue_info_table_cursor, queue_count, cur_queue_id,
  request_info_table, request_count,
  table, num_pending_requests,   \* fetch_module
  callback,                      \* the finished request crawl_callback works on
  paused, wait_until, numsites,
  pc,                            \* where the main loop is
  inbox,                         \* the command that reached the server
  reports,                       \* the reports handed to comm->send_report
  saved                          \* the queues SUSPEND returned to the site manager

manager_vars == <<queue_info_table_cursor, cur_queue_id, paused>>
site_vars == <<queue_count, numsites, reports, saved>>
request_vars == <<request_info_table, request_count, table, num_pending_requests>>
vars == <<queue_info_table, request_vars, manager_vars, site_vars,
          callback, wait_until, pc, inbox>>

-----------------------------------------------------------------------------
(* The tables *)

SeedId == {0, 1}    \* 0: robots.txt, 1: the root of the site
UrlInfo == [u : Url, seed_id : SeedId, level : Nat]
QueueStatus == {"Done", "Max Level", "Max Count"}
Verdicts == {"ok", "extension", "prefix", "level", "count"}

QueueInfo ==
  [ queue_id : Nat, site : Site \cup {None},
    urls_to_crawl : Seq(UrlInfo), urls_seen : SUBSET HashValue,
    prefix_filter : SUBSET Url, url_count_per_seed : [SeedId -> Nat],
    pending_request_count : Int, success_count : Nat, error_count : Nat,
    consecutive_errors : Nat, due : Nat, status : QueueStatus ]

EmptyQueue ==
  [ queue_id |-> 0, site |-> None, urls_to_crawl |-> << >>, urls_seen |-> {},
    prefix_filter |-> {}, url_count_per_seed |-> [i \in SeedId |-> 0],
    pending_request_count |-> 0, success_count |-> 0, error_count |-> 0,
    consecutive_errors |-> 0, due |-> 0, status |-> "Done" ]

\* request_id is the slot of the fetch table that carries the id.
RequestInfo ==
  [ request_id : FmSlot \cup {None}, seed_id : SeedId, level : Nat,
    num_trials : Nat, queue_entry : Queues ]
FreeRequest ==
  [ request_id |-> None, seed_id |-> 0, level |-> 0, num_trials |-> 0, queue_entry |-> 0 ]

\* ready: the socket has something for fm->process; expired: MAX_WAIT has passed.
TableEntry ==
  [ url : Url \cup {None}, callback_param : Slot \cup {None},
    ready : BOOLEAN, expired : BOOLEAN ]
FreeEntry == [ url |-> None, callback_param |-> None, ready |-> FALSE, expired |-> FALSE ]

Loaded(q) == queue_info_table[q].queue_id # 0
Live(s) == request_info_table[s].request_id # None
Busy(f) == table[f].url # None
RequestsOf(q) == { s \in Slot : Live(s) /\ request_info_table[s].queue_entry = q }

Init ==
  /\ queue_info_table = [q \in Queues |-> EmptyQueue]
  /\ queue_info_table_cursor = 0
  /\ queue_count = 0
  /\ cur_queue_id = 0
  /\ request_info_table = [s \in Slot |-> FreeRequest]
  /\ request_count = 0
  /\ table = [f \in FmSlot |-> FreeEntry]
  /\ num_pending_requests = 0
  /\ callback = [entry |-> None, valid |-> FALSE]
  /\ paused = FALSE
  /\ wait_until = -1
  /\ numsites = 0
  /\ pc = "poll"
  /\ inbox = "none"
  /\ reports = {}
  /\ saved = {}

-----------------------------------------------------------------------------
(* url_queue and url_filter *)

\* (Operators whose names end in a word after an underscore, like this one, are
\* mutants: plausible mistakes that no action uses and that PROJECT.json pairs
\* with the property that must catch them.)
push_url_Unchecked(e, info) ==
  [e EXCEPT !.urls_to_crawl = Append(@, info), !.urls_seen = @ \cup {Hash[info.u]}]

push_url(e, info) ==
  IF Hash[info.u] \in e.urls_seen
  THEN e
  ELSE [e EXCEPT !.urls_to_crawl = Append(@, info),
                 !.urls_seen = @ \cup {Hash[info.u]}]

pop_url(e) == [e EXCEPT !.urls_to_crawl = Tail(@)]

SeedVerdict_OffByOne(info, count) ==
  IF info.seed_id # 1 THEN "ok"
  ELSE IF MaxLevel > 0 /\ MaxLevel < info.level THEN "level"
  ELSE IF MaxCount > 0 /\ MaxCount < count - 1 THEN "count"
  ELSE "ok"

SeedVerdict(info, count) ==
  IF info.seed_id # 1 THEN "ok"     \* the only seed filter is that of seed 1
  ELSE IF MaxLevel > 0 /\ MaxLevel < info.level THEN "level"
  ELSE IF MaxCount > 0 /\ MaxCount < count THEN "count"
  ELSE "ok"

\* url_filter::check compares prefixes with a path whose storage is already
\* freed: an excluded URL is recognised or, once overwritten, it is not.
check(e, info) ==
  LET count == IF info.seed_id > 0 THEN e.url_count_per_seed[info.seed_id] + 1 ELSE 0
  IN  IF info.u \notin Parseable \cup Storable THEN {"extension"}
      ELSE {SeedVerdict(info, count)}
           \cup (IF info.u \in e.prefix_filter THEN {"prefix"} ELSE {})

\* What crawl_callback does with a link or a redirection to the same server.
Offered(e, info, verdict) ==
  CASE verdict = "ok" /\ Hash[info.u] \notin e.urls_seen ->
         [push_url(e, info) EXCEPT !.url_count_per_seed[info.seed_id] = @ + 1]
    [] verdict = "ok" /\ Hash[info.u] \in e.urls_seen -> push_url(e, info)
    [] verdict = "level" -> [e EXCEPT !.status = "Max Level"]
    [] verdict = "count" -> [e EXCEPT !.status = "Max Count"]
    [] OTHER -> e

is_same_server(u, q) == SiteOf[u] = queue_info_table[q].site

-----------------------------------------------------------------------------
(* manager::request_page and fetch_module::append_request *)

WithRequest(reqs, s, f, q, info, trials) ==
  [reqs EXCEPT ![s] = [request_id |-> f, seed_id |-> info.seed_id, level |-> info.level,
                       num_trials |-> trials, queue_entry |-> q]]
WithEntry(tab, f, s, u) ==
  [tab EXCEPT ![f] = [url |-> u, callback_param |-> s, ready |-> FALSE, expired |-> FALSE]]

Requested(e) == [e EXCEPT !.pending_request_count = @ + 1, !.due = Delay]
Refused(e) ==
  [e EXCEPT !.error_count = @ + 1, !.consecutive_errors = @ + 1, !.due = Delay]

-----------------------------------------------------------------------------
(* fetch_module::process and crawl_callback *)

\* process() ends the request of slot f.  A request past MAX_WAIT fails, whatever
\* has arrived; a failed one may still have left part of a response behind.
BeginCallback(f, valid) ==
  /\ pc = "fm"
  /\ Busy(f) /\ (table[f].ready \/ table[f].expired)
  /\ table[f].expired => ~valid
  /\ callback' = [entry |-> f, valid |-> valid]
  /\ UNCHANGED <<request_vars, manager_vars, site_vars, wait_until, inbox>>

\* A response without a 3xx, 4xx or 5xx head.
CallbackPage(f, valid) ==
  LET req == request_info_table[table[f].callback_param]
      q == req.queue_entry
  IN  /\ BeginCallback(f, valid)
      /\ pc' = IF valid /\ req.seed_id # 0 /\ table[f].url \in Parseable
               THEN "parse" ELSE "finish"
      /\ queue_info_table' =
           IF valid /\ req.seed_id = 0
           THEN [queue_info_table EXCEPT ![q].prefix_filter =
                   @ \cup { u \in Disallowed : is_same_server(u, q) }]
           ELSE queue_info_table

\* 4xx, 5xx, or a redirection that leaves the server: only stored.
CallbackRefused(f) ==
  /\ BeginCallback(f, TRUE)
  /\ pc' = "finish"
  /\ UNCHANGED queue_info_table

\* A redirection takes the level and the seed of the redirected request.
CallbackRedirect(f, valid, target) ==
  LET req == request_info_table[table[f].callback_param]
      q == req.queue_entry
      info == [u |-> target, seed_id |-> req.seed_id, level |-> req.level]
  IN  /\ BeginCallback(f, valid)
      /\ is_same_server(target, q)
      /\ \E verdict \in check(queue_info_table[q], info) :
           queue_info_table' = [queue_info_table EXCEPT ![q] = Offered(@, info, verdict)]
      /\ pc' = "finish"

\* The parser returns the next link; one to another server is passed over.
ParseLink(link) ==
  LET req == request_info_table[table[callback.entry].callback_param]
      q == req.queue_entry
      info == [u |-> link, seed_id |-> req.seed_id, level |-> req.level + 1]
  IN  /\ pc = "parse"
      /\ is_same_server(link, q)
      /\ \E verdict \in check(queue_info_table[q], info) :
           queue_info_table' = [queue_info_table EXCEPT ![q] = Offered(@, info, verdict)]
      /\ UNCHANGED <<request_vars, manager_vars, site_vars, callback, wait_until, pc, inbox>>

ParseEnd ==
  /\ pc = "parse"
  /\ pc' = "finish"
  /\ UNCHANGED <<queue_info_table, request_vars, manager_vars, site_vars,
                 callback, wait_until, inbox>>

\* The repository refuses the page: finish_process() ends the program.
StoreFails ==
  /\ pc = "finish" /\ callback.valid /\ table[callback.entry].url \in Storable
  /\ pc' = "dead"
  /\ UNCHANGED <<queue_info_table, request_vars, manager_vars, site_vars,
                 callback, wait_until, inbox>>

Counted(e, valid) ==
  IF valid
  THEN [e EXCEPT !.pending_request_count = @ - 1, !.success_count = @ + 1,
                 !.consecutive_errors = 0]
  ELSE [e EXCEPT !.pending_request_count = @ - 1, !.error_count = @ + 1,
                 !.consecutive_errors = @ + 1]

Retries(r, valid) == ~valid /\ r.num_trials + 1 < MAX_NUM_TRIALS

\* The rest of crawl_callback and of finish_request.  The request is retried
\* before the fetch table gives back the entry that failed.
FinishRequest ==
  LET f == callback.entry
      s == table[f].callback_param
      r == request_info_table[s]
      q == r.queue_entry
      info == [u |-> table[f].url, seed_id |-> r.seed_id, level |-> r.level]
      reqs == [request_info_table EXCEPT ![s] = FreeRequest]
      e == Counted(queue_info_table[q], callback.valid)
  IN  /\ pc = "finish"
      /\ \/ /\ Retries(r, callback.valid)
            /\ \E s2 \in Slot, f2 \in FmSlot :
                 /\ reqs[s2].request_id = None /\ table[f2].url = None
                 /\ request_info_table' = WithRequest(reqs, s2, f2, q, info, r.num_trials + 1)
                 /\ table' = [WithEntry(table, f2, s2, info.u) EXCEPT ![f] = FreeEntry]
            /\ queue_info_table' = [queue_info_table EXCEPT ![q] = Requested(e)]
            /\ UNCHANGED <<request_count, num_pending_requests>>
         \/ /\ \/ /\ ~Retries(r, callback.valid)
                  /\ queue_info_table' = [queue_info_table EXCEPT ![q] = e]
               \/ /\ Retries(r, callback.valid)
                  /\ queue_info_table' = [queue_info_table EXCEPT ![q] = Refused(e)]
            /\ request_info_table' = reqs
            /\ table' = [table EXCEPT ![f] = FreeEntry]
            /\ request_count' = request_count - 1
            /\ num_pending_requests' = num_pending_requests - 1
      /\ callback' = [entry |-> None, valid |-> FALSE]
      /\ pc' = "fm"
      /\ UNCHANGED <<manager_vars, site_vars, wait_until, inbox>>

FmProcessed ==
  /\ pc = "fm"
  /\ \A f \in FmSlot : Busy(f) => ~table[f].ready /\ ~table[f].expired
  /\ pc' = "command"
  /\ UNCHANGED <<queue_info_table, request_vars, manager_vars, site_vars,
                 callback, wait_until, inbox>>

-----------------------------------------------------------------------------
(* Commands of the site manager *)

NoCommand ==
  /\ pc = "command" /\ inbox = "none"
  /\ pc' = "dispatch"
  /\ UNCHANGED <<queue_info_table, request_vars, manager_vars, site_vars,
                 callback, wait_until, inbox>>

Handled == pc' = "dispatch" /\ inbox' = "none"

FirstFree_Last(q) == \A p \in Queues : p < q => Loaded(p)
FirstFree(q) == ~Loaded(q) /\ \A p \in Queues : p < q => Loaded(p)

\* The new entry of request_crawl and of load_queue.
LoadEntry(e) ==
  /\ queue_count < MAX_NUM_QUEUES
  /\ cur_queue_id' = cur_queue_id + 1
  /\ \E q \in Queues :
       /\ FirstFree(q)
       /\ queue_info_table' = [queue_info_table EXCEPT ![q] = [e EXCEPT !.queue_id = cur_queue_id']]
  /\ queue_count' = queue_count + 1
  /\ numsites' = numsites + 1
  /\ Handled
  /\ UNCHANGED <<request_vars, queue_info_table_cursor, paused, reports, saved,
                 callback, wait_until>>

\* CRAWL, and the LOAD that crawl_buddy.pl composes for a new site.
NewQueue(s) ==
  push_url(push_url([EmptyQueue EXCEPT !.site = s],
                    [u |-> Robots[s], seed_id |-> 0, level |-> 0]),
           [u |-> Home[s], seed_id |-> 1, level |-> 0])

request_crawl(s) ==
  /\ pc = "command" /\ inbox \in {"CRAWL", "LOAD"}
  /\ LoadEntry(NewQueue(s))

\* LOAD of a queue that an earlier SUSPEND returned.
load_queue(r) ==
  /\ pc = "command" /\ inbox = "RELOAD"
  /\ LoadEntry(r.info)

\* The table is full, or the packet is malformed.
RejectCommand ==
  /\ pc = "command" /\ inbox \in {"CRAWL", "LOAD", "RELOAD"}
  /\ Handled
  /\ UNCHANGED <<queue_info_table, request_vars, manager_vars, site_vars,
                 callback, wait_until>>

CancelRequests_ManagerOnly(q) ==
  LET mine == RequestsOf(q)
  IN  /\ request_info_table' =
           [s \in Slot |-> IF s \in mine THEN FreeRequest ELSE request_info_table[s]]
      /\ request_count' = request_count - Cardinality(mine)
      /\ UNCHANGED <<table, num_pending_requests>>

\* Requests of q are cancelled in both tables.
CancelRequests(q) ==
  LET mine == RequestsOf(q)
      ids == { request_info_table[s].request_id : s \in mine }
  IN  /\ request_info_table' =
           [s \in Slot |-> IF s \in mine THEN FreeRequest ELSE request_info_table[s]]
      /\ table' = [f \in FmSlot |-> IF f \in ids THEN FreeEntry ELSE table[f]]
      /\ request_count' = request_count - Cardinality(mine)
      /\ num_pending_requests' =
           num_pending_requests - Cardinality({ f \in ids : Busy(f) })

delete_queue_KeepsRequests(q) ==
  /\ queue_info_table' = [queue_info_table EXCEPT ![q] = EmptyQueue]
  /\ queue_count' = queue_count - 1
  /\ numsites' = numsites - 1
  /\ UNCHANGED request_vars

delete_queue(q) ==
  /\ CancelRequests(q)
  /\ queue_info_table' = [queue_info_table EXCEPT ![q] = EmptyQueue]
  /\ queue_count' = queue_count - 1
  /\ numsites' = numsites - 1

SavedInfo_ForgetsSeen(e) ==
  [e EXCEPT !.queue_id = 0, !.pending_request_count = 0, !.consecutive_errors = 0,
            !.due = 0, !.status = "Done", !.urls_seen = {}]

\* queue_info::save keeps the counters of errors and successes, not the errors
\* in a row, the time of the last request or the requests in flight.
SavedInfo(e) ==
  [e EXCEPT !.queue_id = 0, !.pending_request_count = 0, !.consecutive_errors = 0,
            !.due = 0, !.status = "Done"]

suspend_crawl(q) ==
  /\ pc = "command" /\ inbox = "SUSPEND"
  /\ Loaded(q)
  /\ saved' = saved \cup { [queue_id |-> queue_info_table[q].queue_id,
                            info |-> SavedInfo(queue_info_table[q])] }
  /\ delete_queue(q)
  /\ Handled
  /\ UNCHANGED <<manager_vars, reports, callback, wait_until>>

\* An id out of range is refused.  An id whose queue is gone is searched for past
\* the end of the table: the entry read there does not match, or the read faults.
SuspendUnknown ==
  /\ pc = "command" /\ inbox = "SUSPEND"
  /\ inbox' = "none"
  /\ pc' \in (IF cur_queue_id > queue_count THEN {"dispatch", "dead"} ELSE {"dispatch"})
  /\ UNCHANGED <<queue_info_table, request_vars, manager_vars, site_vars,
                 callback, wait_until>>

SetPaused ==
  /\ pc = "command" /\ inbox \in {"PAUSE", "RESUME"}
  /\ paused' = (inbox = "PAUSE")
  /\ Handled
  /\ UNCHANGED <<queue_info_table, request_vars, queue_info_table_cursor, cur_queue_id,
                 site_vars, callback, wait_until>>

\* STATUS, and every unknown command, is answered and changes nothing.
AnswerStatus ==
  /\ pc = "command" /\ inbox = "STATUS"
  /\ Handled
  /\ UNCHANGED <<queue_info_table, request_vars, manager_vars, site_vars,
                 callback, wait_until>>

Die ==
  /\ pc = "command" /\ inbox = "DIE"
  /\ pc' = "dead" /\ inbox' = "none"
  /\ UNCHANGED <<queue_info_table, request_vars, manager_vars, site_vars,
                 callback, wait_until>>

-----------------------------------------------------------------------------
(* The rest of main_loop: manager::select_queue and what follows from it *)

Dispatch ==
  /\ pc = "dispatch"
  /\ IF request_count >= MAX_PENDING_REQUESTS \/ queue_count <= 0
     THEN pc' = "poll" /\ wait_until' = -1
     ELSE pc' = "select" /\ UNCHANGED wait_until
  /\ UNCHANGED <<queue_info_table, request_vars, manager_vars, site_vars, callback, inbox>>

TooManyErrors(e) ==
  \/ e.error_count + e.success_count >= MinSample /\ e.success_count < e.error_count
  \/ e.consecutive_errors >= MaxConsecutive
IsDone_Never(e) == e.urls_to_crawl = << >> /\ e.pending_request_count < 0
IsDone(e) == e.urls_to_crawl = << >> /\ e.pending_request_count <= 0
IsReady(e) ==
  /\ e.urls_to_crawl # << >>
  /\ e.due = 0
  /\ e.pending_request_count < MAX_QUEUE_PENDING_REQUESTS

\* The scan is round robin from the entry after the cursor to the cursor itself.
Stops(q) ==
  LET e == queue_info_table[q]
  IN  Loaded(q) /\ (TooManyErrors(e) \/ IsDone(e) \/ IsReady(e))
Turn(q) == (q + MAX_NUM_QUEUES - queue_info_table_cursor - 1) % MAX_NUM_QUEUES
Selected(q) == Stops(q) /\ \A p \in Queues : Stops(p) => Turn(q) <= Turn(p)

Waits_Forgotten == {}

\* The times select_queue waits for: the queues that are not empty and not due.
Waits == { queue_info_table[q].due :
             q \in { p \in Queues : /\ Loaded(p)
                                    /\ queue_info_table[p].urls_to_crawl # << >>
                                    /\ queue_info_table[p].due > 0 } }

ReportStatus(e) == IF TooManyErrors(e) THEN "Too many Errors" ELSE e.status

ReportSite(q) ==
  LET e == queue_info_table[q]
  IN  /\ pc = "select"
      /\ Selected(q)
      /\ TooManyErrors(e) \/ IsDone(e)
      /\ reports' = reports \cup { [queue_id |-> e.queue_id, status |-> ReportStatus(e)] }
      /\ delete_queue(q)
      /\ queue_info_table_cursor' = q
      /\ UNCHANGED <<cur_queue_id, paused, saved, callback, wait_until, pc, inbox>>

SelectNone ==
  /\ pc = "select"
  /\ \A q \in Queues : ~Stops(q)
  /\ \/ Waits = {} /\ wait_until' = -1
     \/ \E w \in Waits : (\A v \in Waits : w <= v) /\ wait_until' = w
  /\ pc' = "poll"
  /\ UNCHANGED <<queue_info_table, request_vars, manager_vars, site_vars, callback, inbox>>

SelectReady(q) ==
  /\ pc = "select"
  /\ Selected(q)
  /\ ~TooManyErrors(queue_info_table[q]) /\ ~IsDone(queue_info_table[q])
  /\ queue_info_table_cursor' = q
  /\ pc' = "poll"
  /\ UNCHANGED <<cur_queue_id, paused, site_vars, callback, inbox>>

MayRequest_Paused == request_count < MAX_PENDING_REQUESTS

MayRequest == ~paused /\ request_count < MAX_PENDING_REQUESTS

\* Paused, or no room: the selected queue waits for the next event.
HoldBack(q) ==
  /\ SelectReady(q)
  /\ ~MayRequest
  /\ wait_until' = -1
  /\ UNCHANGED <<queue_info_table, request_vars>>

\* The first URL of the queue is requested; it leaves the queue even when the
\* request fails (no socket to connect with, say).
FetchNext(q) ==
  LET e == queue_info_table[q]
      info == Head(e.urls_to_crawl)
  IN  /\ SelectReady(q)
      /\ MayRequest
      /\ wait_until' = 0
      /\ \/ /\ \E s \in Slot, f \in FmSlot :
                 /\ ~Live(s) /\ ~Busy(f)
                 /\ request_info_table' = WithRequest(request_info_table, s, f, q, info, 0)
                 /\ table' = WithEntry(table, f, s, info.u)
            /\ request_count' = request_count + 1
            /\ num_pending_requests' = num_pending_requests + 1
            /\ queue_info_table' = [queue_info_table EXCEPT ![q] = Requested(pop_url(e))]
         \/ /\ queue_info_table' = [queue_info_table EXCEPT ![q] = Refused(pop_url(e))]
            /\ UNCHANGED request_vars

-----------------------------------------------------------------------------
(* net_mod::poll returns when the wait is over or a socket is ready: never for  *)
(* a request that has expired.                                                  *)

PollReturns ==
  /\ pc = "poll"
  /\ wait_until = 0 \/ inbox # "none" \/ \E f \in FmSlot : Busy(f) /\ table[f].ready
  /\ pc' = "fm"
  /\ UNCHANGED <<queue_info_table, request_vars, manager_vars, site_vars,
                 callback, wait_until, inbox>>

(* The peers and the clock.  What they do while the loop is elsewhere is first *)
(* looked at by the next poll, except the clock, which select_queue reads.     *)

ServerAnswers(f) ==
  /\ pc = "poll"
  /\ Busy(f) /\ ~table[f].ready
  /\ table' = [table EXCEPT ![f].ready = TRUE]
  /\ UNCHANGED <<queue_info_table, request_info_table, request_count, num_pending_requests,
                 manager_vars, site_vars, callback, wait_until, pc, inbox>>

RequestExpires(f) ==
  /\ pc = "poll"
  /\ Busy(f) /\ ~table[f].expired
  /\ table' = [table EXCEPT ![f].expired = TRUE]
  /\ UNCHANGED <<queue_info_table, request_info_table, request_count, num_pending_requests,
                 manager_vars, site_vars, callback, wait_until, pc, inbox>>

SendCommand(c) ==
  /\ pc = "poll" /\ inbox = "none"
  /\ c \in {"CRAWL", "LOAD", "RELOAD"} => cur_queue_id < MaxSites
  /\ inbox' = c
  /\ UNCHANGED <<queue_info_table, request_vars, manager_vars, site_vars,
                 callback, wait_until, pc>>

Sooner_Below(t) == t - 1
Sooner(t) == IF t > 0 THEN t - 1 ELSE t

Tick ==
  /\ pc \in {"poll", "dispatch"}
  /\ wait_until > 0 \/ \E q \in Queues : queue_info_table[q].due > 0
  /\ wait_until' = Sooner(wait_until)
  /\ queue_info_table' = [q \in Queues |-> [queue_info_table[q] EXCEPT !.due = Sooner(@)]]
  /\ UNCHANGED <<request_vars, manager_vars, site_vars, callback, pc, inbox>>

-----------------------------------------------------------------------------
Callback ==
  \/ \E f \in FmSlot :
       \/ \E valid \in BOOLEAN :
            \/ CallbackPage(f, valid)
            \/ \E target \in Url : CallbackRedirect(f, valid, target)
       \/ CallbackRefused(f)
  \/ \E link \in Url : ParseLink(link)
  \/ ParseEnd
  \/ StoreFails
  \/ FinishRequest

Command ==
  \/ NoCommand
  \/ \E s \in Site : request_crawl(s)
  \/ \E r \in saved : load_queue(r)
  \/ RejectCommand
  \/ \E q \in Queues : suspend_crawl(q)
  \/ SuspendUnknown
  \/ SetPaused
  \/ AnswerStatus
  \/ Die

Select ==
  \/ Dispatch
  \/ \E q \in Queues : ReportSite(q) \/ HoldBack(q) \/ FetchNext(q)
  \/ SelectNone

Loop == PollReturns \/ Callback \/ FmProcessed \/ Command \/ Select

Peers ==
  \/ \E f \in FmSlot : ServerAnswers(f) \/ RequestExpires(f)
  \/ \E c \in Commands : SendCommand(c)

\* finish_process() or DIE: the process is gone.
Stopped == pc = "dead" /\ UNCHANGED vars

Next == Loop \/ Peers \/ Tick \/ Stopped

Spec == Init /\ [][Next]_vars

\* The loop runs whenever it is not blocked, a page has finitely many links and
\* time passes; nothing makes a Web server answer.  The fairness of the peers and
\* of the clock is strong because their actions are confined to the moments when
\* the loop is in poll, to which it keeps returning.
LoopFairness == WF_vars(Loop) /\ WF_vars(ParseEnd) /\ SF_vars(Tick)
AnswerFairness == \A f \in FmSlot : SF_vars(ServerAnswers(f))
ExpiryFairness == \A f \in FmSlot : SF_vars(RequestExpires(f))

FairSpec == Spec /\ LoopFairness /\ AnswerFairness
SilentSpec == Spec /\ LoopFairness /\ ExpiryFairness

-----------------------------------------------------------------------------
(* Properties *)

TypeOK ==
  /\ queue_info_table \in [Queues -> QueueInfo]
  /\ queue_info_table_cursor \in Queues
  /\ queue_count \in Int /\ numsites \in Int /\ cur_queue_id \in Nat
  /\ request_info_table \in [Slot -> RequestInfo]
  /\ request_count \in Int
  /\ table \in [FmSlot -> TableEntry]
  /\ num_pending_requests \in Int
  /\ callback \in [entry : FmSlot \cup {None}, valid : BOOLEAN]
  /\ paused \in BOOLEAN
  /\ wait_until \in Int
  /\ pc \in {"poll", "fm", "parse", "finish", "command", "dispatch", "select", "dead"}
  /\ inbox \in Commands \cup {"none"}
  /\ reports \subseteq [queue_id : Nat, status : QueueStatus \cup {"Too many Errors"}]
  /\ saved \subseteq [queue_id : Nat, info : QueueInfo]

\* The two request tables hold the same requests: every slot of the manager in
\* use names a fetch-table entry that calls back to that very slot, and every
\* entry is named.  So no callback reaches a slot that was cancelled or given to
\* another request (callback_param is a pointer into request_info_table),
\* cancel_request always finds its entry, and a callback works on a live one.
TablesAgree ==
  /\ \A s \in Slot : Live(s) =>
       LET f == request_info_table[s].request_id
       IN  Busy(f) /\ table[f].callback_param = s
  /\ \A f \in FmSlot : Busy(f) =>
       /\ table[f].callback_param \in Slot
       /\ request_info_table[table[f].callback_param].request_id = f
  /\ pc \in {"parse", "finish"} => callback.entry \in FmSlot /\ Busy(callback.entry)

\* request_count and num_pending_requests are the number of slots in use, hence
\* the asserts of request_page and append_request: when request_count leaves
\* room there is a free slot in either table.
RequestAccounting ==
  /\ request_count = Cardinality({ s \in Slot : Live(s) })
  /\ num_pending_requests = Cardinality({ f \in FmSlot : Busy(f) })
  /\ num_pending_requests = request_count

\* pending_request_count of a site is the number of its requests in flight and
\* stays within MAX_QUEUE_PENDING_REQUESTS, retries included; an entry of the
\* queue table without a site is blank and no request points to it.
QueueAccounting ==
  /\ \A q \in Queues :
       /\ queue_info_table[q].pending_request_count = Cardinality(RequestsOf(q))
       /\ queue_info_table[q].pending_request_count <= MAX_QUEUE_PENDING_REQUESTS
       /\ ~Loaded(q) => queue_info_table[q] = EmptyQueue
  /\ queue_count = Cardinality({ q \in Queues : Loaded(q) })
  /\ numsites = queue_count

\* The hashes of the URLs of q that wait and that are in flight.
Queued(q) ==
  { Hash[queue_info_table[q].urls_to_crawl[i].u] :
      i \in DOMAIN queue_info_table[q].urls_to_crawl }
InFlight(q) == { Hash[table[request_info_table[s].request_id].url] : s \in RequestsOf(q) }

\* A URL is in one place: nothing is queued twice, in flight twice, or queued
\* while it is in flight, and whatever waits or flies has been recorded as seen.
UrlInOnePlace ==
  \A q \in Queues :
    LET todo == queue_info_table[q].urls_to_crawl
    IN  /\ \A i, j \in DOMAIN todo : Hash[todo[i].u] = Hash[todo[j].u] => i = j
        /\ \A s, t \in RequestsOf(q) :
             Hash[table[request_info_table[s].request_id].url]
               = Hash[table[request_info_table[t].request_id].url] => s = t
        /\ Queued(q) \cap InFlight(q) = {}
        /\ Queued(q) \cup InFlight(q) \subseteq queue_info_table[q].urls_seen

\* The counters and the queues describe the requests in flight.
Accounting == RequestAccounting /\ QueueAccounting /\ UrlInOnePlace

\* A request answers to the site that asked for it, although its entry of the
\* queue table is reused by later sites: its URL is of the site of the entry.
RequestBelongsToSite ==
  \A s \in Slot : Live(s) =>
    SiteOf[table[request_info_table[s].request_id].url]
      = queue_info_table[request_info_table[s].queue_entry].site

\* No more than max_count URLs are accepted below the root of a site, and "Max
\* Count" is reported only when that many were, "Max Level" only under a limit.
PerSeedBound ==
  \A q \in Queues :
    LET e == queue_info_table[q]
    IN  /\ MaxCount > 0 => e.url_count_per_seed[1] <= MaxCount
        /\ e.status = "Max Count" => e.url_count_per_seed[1] >= MaxCount
        /\ MaxLevel > 0 => \A i \in DOMAIN e.urls_to_crawl : e.urls_to_crawl[i].level <= MaxLevel

\* The loop blocks without a deadline only if something will wake it: while it
\* runs and holds sites, some request is in flight.
NoLostWakeup ==
  pc = "poll" /\ wait_until = -1 /\ ~paused /\ queue_count > 0
    => \E f \in FmSlot : Busy(f)

\* Every site the server accepted is being crawled, or was reported once, or was
\* handed back by SUSPEND: exactly one of the three.
EverySiteAccountedFor ==
  \A id \in 1 .. cur_queue_id :
    LET holders == { q \in Queues : queue_info_table[q].queue_id = id }
        told == { r \in reports : r.queue_id = id }
        returned == { r \in saved : r.queue_id = id }
    IN  Cardinality(holders) + Cardinality(told) + Cardinality(returned) = 1

\* manager.cc: "PauseRequest: Stopped new requests"; crawl_config: "Interval in
\* milli-seconds between crawler's consecutive requests to a site".  While the
\* server is paused, or the interval of a site has not passed, a site asks for no
\* URL that it was not already asking for.  Retries heed neither.
OnlyRetriesGoOut ==
  [][\A q \in Queues :
       (paused /\ paused') \/ queue_info_table[q].due > 0
         => InFlight(q)' \subseteq InFlight(q)]_vars

\* CrawlServer implements UrlLifecycle.
Stage(q, k) ==
  IF k \in Queued(q) THEN "queued"
  ELSE IF k \in InFlight(q) THEN "in flight"
  ELSE IF k \in queue_info_table[q].urls_seen THEN "done"
  ELSE "unseen"

Lifecycle == INSTANCE UrlLifecycle WITH
  crawling <- { q \in Queues : Loaded(q) },
  stage <- [q \in Queues |-> [k \in HashValue |-> Stage(q, k)]]

ImplementsLifecycle == Lifecycle!Spec

\* Every site accepted is at last reported or suspended, if the Web servers
\* answer and the process lives.
EverySiteFinishes ==
  \A id \in 1 .. MaxSites :
    cur_queue_id >= id ~>
      \/ \E r \in reports : r.queue_id = id
      \/ \E r \in saved : r.queue_id = id
      \/ pc = "dead"

\* fetch.h: "wait at most 5 minutes".  A request whose time is over ends.
RequestsTimeOut ==
  \A f \in FmSlot : Busy(f) /\ table[f].expired ~> ~Busy(f) \/ pc = "dead"
=============================================================================
