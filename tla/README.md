# WebBase in TLA+

The repository holds two programs that share little but their authors' machine room.

*WebBase* is a Web crawler made of separate processes: a *site manager* (`crawl_buddy.pl` with a
PostgreSQL database) chooses sites, one or more *crawl servers* (`crawler/crawl_server`, C++) fetch
their pages, a *repository* (`feeders/repository_access`) stores the pages, and a *distribution daemon*
(`scripts/distribdaemon.pl`) streams them to clients. The release modelled is `Crawler/2003/WebBase`.

*Graph_Parallel* is the Parallel Boost Graph Library: distributed graphs and graph algorithms over a
process group, which implements supersteps on top of MPI. It is meant for the graph of the pages.

File names below are relative to these two, mostly to `crawler/crawl_server` and to
`include/boost/graph/distributed`.

## Inventory

| part | state | operations | talks to |
|---|---|---|---|
| `manager` (manager.cc) | `queue_info_table` of sites, `request_info_table` of page requests, round-robin cursor, `paused` | main loop, CRAWL, LOAD, SUSPEND, PAUSE, RESUME, STATUS, DIE, `select_queue`, `request_page`, `delete_queue` | calls `fetch_module` and `crawl_comm`; called back by `fetch_module` |
| `crawl_callback` (callback.cc) | none of its own: works on the manager's tables | redirection, link extraction, robots.txt, storing, counting, retry | manager, url_queue, url_filter, repository |
| `url_queue`, `url_filter` | FIFO of URLs and the set of hashes seen; prefix, extension and seed filters | `push_url`, `pop_url`, `check`, save, load | owned by a queue entry |
| `fetch_module` (fetch.cc) | table of connections, status per connection, request ids | `request_page`, `process`, `cancel_request`, `finish_request` | net_mod; calls back the manager |
| `net_mod` (net_mod.cc) | descriptor sets, `max_socket`, tick clock | `poll`, `accept`, `connect`, `read`, `write`, `close`, `time_add` | the operating system |
| `crawl_comm` (crawl_comm.cc) | one command connection with its status, a queue of reports and the connection they leave by | `get_request`, `send_response`, `send_report`, `process` | site manager |
| site manager (crawl_buddy.pl, crawl_ctl.pl, retry scripts, sql) | tables `uncrawled`, `crawling`, `crawled` | getsite, releasesite, LOAD to the server, resynchronisation | crawl servers; other buddies through the database |
| repository (feeders) | list file and chunk files of a container, read position | store, end_site, read, resync | callback; handlers |
| distribution daemon (scripts) | ports in use, children | accept, fork, reap | clients |
| process group (mpi_process_group) | outgoing batches, counts of batches and stages of `synchronize` per process | send, triggers, poll, synchronize | MPI; everything below |
| distributed graphs (adjacency_list, named_graph, redistribute) | per process its vertices, out-edges, in-edges or local edges, names | add and remove edges and vertices, clear, redistribute | process group |
| distributed algorithms | per process a view of every vertex it has met (colors, distances, parents), queues, buckets | one call each | process group, distributed queue, property maps |

What makes each correct, in short. *manager/callback/fetch*: a request is in both
tables or in neither; it is accounted to the site that made it although slots and
entries are reused; the counters equal what they count; a URL is fetched at most once;
a site is reported exactly once, or suspended; the loop never sleeps on work; the page given to a callback holds
what that request's server sent, without a gap. *crawl_comm*: a report is written whole or kept; one response per command, to its
client. *site manager*: a site is in one table; two sites of one address are not crawled together; after a crash
no site is lost. *repository*: a reader sees whole pages, in order. *process group*: `synchronize`
returns when every message of the superstep has been handled, and returns. *graphs*: both ends of an edge
agree, and redistribution loses nothing. *algorithms*: what is returned is a property of the graph, whatever way it
is spread over processes, and something is returned.

What is hard here. The crawl server is one thread, but its peers are not: an answer, a timeout,
a command and the clock interleave with a loop that blocks in `poll`. The fetch table holds
raw pointers into the manager's table while the manager cancels, retries and reuses its slots.
The retry happens *inside* the callback of the request it retries. Sites come and go in a table
whose indices are kept by requests in flight. Suspended queues come back, possibly elsewhere. A container is
read while it is written. In the graph library a process works on copies (ghost cells) of other
processes' values, messages cross, and a message handler may send. The full list, each with its line, is under `hazards` in PROJECT.json.

## Modules

| module | what it is |
|---|---|
| `CrawlServer` | manager, crawl_callback, url_queue, url_filter, and what they need of fetch_module (its slot table, append, cancel, finish, timeout) and of net_mod (when `poll` returns, time) |
| `UrlLifecycle` | the abstract promise: per site a URL goes unseen, queued, in flight, done, and never back |
| `MCCrawlServer` | two small Webs for TLC and the symmetries of the slots and sites |
| `CrawlServerProofs` | proofs: types and tables of `CrawlServer`; which site a request belongs to; the kinds of steps; the counts, the wake-ups, the sites |
| `CrawlServerUrlProofs` | the URLs, the limits of a seed, pausing and pacing, the refinement of `UrlLifecycle` |
| `CrawlBuddy` | the site manager: several `crawl_buddy.pl`, their transactions on the tables uncrawled, crawling and crawled, the crawl servers as they see them, crashes, the operator's scripts |
| `SiteTables` | the abstract promise of the tables: claim, release, restore; one visitor per address |
| `MCCrawlBuddy`, `CrawlBuddyProofs` | hosts with and without a shared address; types, table invariants and refinement, proved |
| `NetMod` | net_mod: descriptors and their sets, the TCP connection behind each, the tick counter |
| `CrawlComm`, `FetchModule` | the command connection and the reports; the table of connections to Web servers |
| `ServerIO`, `MCServerIO` | both on one NetMod, called by the main loop; loads for TLC |
| `ServerIOProofs`, `ServerIOServiceProofs` | proofs: types and sockets; requests, pages and timeouts, commands and reports |
| `Repository` | one container: a process that stores, one that reads, files that are seen as stdio flushes them |
| `RepositoryProofs` | proofs: types of the repository; what a reader returns is what was stored, in order |
| `ProcessGroup`, `MCProcessGroup` | mpi_process_group: batches, counts, stages of `synchronize` |
| `ProcessGroupProofs`, `ProcessGroupBatchProofs` | proofs: types and stages of the process group; its batches and messages |
| `Supersteps` | what a process group promises |
| `BSP` | the setting of the algorithms: programs of supersteps whose messages are handled as `Supersteps` says |
| `StConnected`, `BreadthFirst`, `DepthFirst` | st_connected, breadth_first_search over distributed_queue, tsin_depth_first_visit |
| `ShortestPaths` | eager Dijkstra, Crauser et al., delta-stepping |
| `Betweenness`, `PageRank` | both variants of brandes_betweenness_centrality, on top of `ShortestPaths`; page_rank |
| `Coloring`, `ComponentSearch`, `HookingComponents`, `StrongComponents`, `Bicomponents` | boman_et_al_graph_coloring, connected_components_ps, connected_components, strong_components, hohberg_biconnected_components |
| `SpanningTree` | the four algorithms of Dehne and Götz |
| `AdjacencyList`, `NamedGraph`, `Distributions` | the distributed adjacency list with its redistribution; vertices by name; which process an element belongs to, and where it is there |
| `Algorithms`, `MCAlgorithms` | a call of any of these on a graph spread over processes; the graphs, places and calls for TLC |

How they compose. `CrawlServer` and `CrawlBuddy` meet in the commands LOAD, STATUS and DIE and in the reports. `CrawlBuddy`
keeps of a crawl server what `CrawlServer` shows of it: it takes sites up to `MAX_NUM_QUEUES`
(`load_queue`, `RejectCommand`), answers STATUS with their number, and reports each accepted site exactly once
(`EverySiteAccountedFor`, `EverySiteFinishes`). `CrawlServer` keeps of the I/O what `ServerIO` shows of it: a request is
called back once, with the page of its own server (`RequestsServedOnce`, `PageEndsInAnswer`; the bytes of a request sent in parts that come before
it are nothing to `CrawlServer`, which takes a page for any outcome), commands are read and reports written whole
and once (`DeliveredInOrder`). The algorithms rest on `BSP`, whose supersteps are those of `Supersteps`, and
`ProcessGroup` is shown to implement `Supersteps`.

Operators whose names end in a word after an underscore (`Emitted_Always`, `RemoveRequest_Target`) are plausible mistakes in the
operator they are named after: with the mistake in place TLC finds the property that PROJECT.json pairs it with violated.

### How CrawlServer corresponds to the code

Variables carry the names of the C++ members. `pc` is the place in the loop: `poll` (blocked in
`nm->poll`), `fm` (in `fm->process`), `parse` and `finish` (inside `crawl_callback`), `command`,
`dispatch` (the tests before `queue_select_loop`), `select`, `dead`. One action is what runs between two
points where something else can be chosen: a callback is split where it reads a link, so that
a page has any number of links, and before the part that stores and counts; everything else of a handler,
the deletion of a site with the cancelling of its requests included, is one step.

| code | actions |
|---|---|
| `net_mod::poll` | `PollReturns` |
| `fetch_module::process`, `finish_request`, `crawl_callback` | `CallbackPage`, `CallbackRefused`, `CallbackRedirect`, `ParseLink`, `ParseEnd`, `StoreFails`, `FinishRequest`, `FmProcessed` |
| commands in `main_loop` | `NoCommand`, `request_crawl`, `load_queue`, `RejectCommand`, `suspend_crawl`, `SuspendUnknown`, `SetPaused`, `AnswerStatus`, `Die` |
| `queue_select_loop`, `select_queue`, `request_page` | `Dispatch`, `ReportSite`, `SelectNone`, `HoldBack`, `FetchNext` |
| peers | `ServerAnswers`, `RequestExpires`, `SendCommand`, `Tick` |

Abstractions. A URL is a constant with a site and a hash. The request id of a slot is the slot
itself (the id modulo the table size is the slot). `last_crawl + delay` is kept as `due`, the time that
is left. The search for a free slot in either table picks any free one. A connection is
`ready` when its response is complete or broken, and `expired` when MAX_WAIT is over. Peers act while the loop
is in `poll`: what happens while it is elsewhere is first seen at the next `poll`. The clock alone also moves at
`dispatch`, just before `select_queue` reads it. The prefix filter uses a pointer whose storage is gone: `check`
returns either verdict for an excluded URL. `SuspendUnknown` may kill the process: the search runs off the table.

### How CrawlBuddy corresponds to the code

`pc[b]` is the place of buddy b in its loop: `accept`, `release` (in `releasesite`), `check` (for a lost
server), `want`, `getsite`, `lock` and `claim` (in `getsite`), `request` (in `request_crawl`), `idle`, `finish`; `down` when there is
no such process. Each STATUS the loop asks for is a step of its own, because the answer may change between two of them.

| code | actions |
|---|---|
| `getsite` | `GetsiteBegin` (rollback, ask for the lock), `Select`, `SelectNothing`, `ClaimSite`, `ClaimFails` |
| `request_crawl` | `request_crawl` |
| `releasesite` | `releasesite`, `ReleaseFails` |
| main loop | `Start`, `Timeout`, `Receive`, `Check`, `Want`, `Idle`, `Finish` |
| crawl server | `SiteDone`, `SendReport`, `LoseReport`, `ServerCrash` |
| `crawl_ctl.pl` | `Start`, `SendOrder` |
| `crawl_unroll.pl`, `retry_one_crawling.pl` | `UnrollBegin`, `JobCommit` |
| `retry_one_crawled.pl` | `RetryBegin`, `JobCommit` |
| an operator's kill | `BuddyCrash`, `ServerCrash`, `KillOrphan` |

Abstractions. The tables are what is committed; a transaction runs at READ COMMITTED (PostgreSQL's default, DBI
with `AutoCommit => 0`), and its writes appear at its commit. `LOCK TABLE uncrawled IN SHARE ROW EXCLUSIVE MODE` excludes itself and
the scripts' INSERT into that table, and is granted in the order of the requests. A host stands for its row of Hosts with its
aliases and root URLs. A report is sent whole, or lost (`LoseReport`: written, hence out of the queue, and dropped by TCP); `accept` runs into its timeout only when no
report is on its way. `Careful` says that an operator runs `crawl_unroll.pl` for a crawler that has stopped: the
script means to test it and does not (see *What the code does otherwise*); `retry_one_crawling.pl` leaves it to the operator altogether. `MaxMishaps` bounds crashes, lost reports, orders and retries together, in any place.

### How the I/O modules correspond to the code

`NetMod` has one operator per method of `net_mod`; `net` is its descriptor sets and `max_socket`, `wire` the peers
and the kernel's buffers. Data travels in pieces: a command, a response and a report have two, a request line
`RequestLen`; a write takes any part. `CrawlComm` keeps `command_status` and its connection (NONE, READING, READY, READ,
SENDING), the report queue, `report_sd` and `report_cursor`. `FetchModule` keeps the table with request ids, sockets, buffers,
deadlines and states. `process()` walks the table entry by entry (`scan`), because a callback
may submit a request while it does. The buffer of a request is `page`: it begins with the pieces of the request that left
before its last write (`RequestPieces`), the answer is read behind them, and the callback gets all of it. `ServerIO` is the order in which the main loop calls them: `poll`, `comm->process`, `fm->process`,
`get_request`, `select_queue`. What the manager decides is arbitrary there. `poll` is blocked
until a descriptor it watches is ready (`Woken`); that it returns for any socket that is not watched is what `SocketsWatched` is about.
The tick counter and `cur_request_id` are signed integers of `HalfRange` and `MaxInt` instead of 2^31.

### How Repository corresponds to the code

`w` is the storing process's container (`FSPageContainer`, `FSBigFile`: chunk, position, what stdio has buffered), `r` the reading
one's (the chunk sizes it took when it opened, file number, position), `disk` and `listed` are what is on the disk. `store`,
`end_site` and the flushes are actions of the writer; opening the list, taking the size of each chunk in turn, reading a header, a body, seeking the next magic
code within `RESYNC_SEARCH_WINDOW` are the reader's. A reader is `torn` when the chunks it reads are not what the list said: one before the last was not all
written out when its size was taken, or the container was begun anew since. A file is a sequence of pieces
<<page, k>>, so that a spliced page is seen. Positions are exact, as the 64 bits of the code are, but for the one that `resync` keeps in
an `int` (`SyncTo`, `ToInt`): it wraps at `HalfRange`, which stands for 2^31. A reader to which that has happened is `cut`. Short writes and killed processes are `mishaps`.

### How ProcessGroup corresponds to the code

`impl[p]` carries the members of `mpi_process_group::impl`: `outgoing`, `number_sent_batches`,
`number_received_batches`, `synchronizing_stage`, `processors_synchronizing_stage`, `synchronizing_unfinished`,
`stage`, `no_new_messages`, `dest` (the local variables of `synchronize`). `pc[p]` is the place in `synchronize`. A message is its remaining route: its handler sends it
on to the next process. Batches are received by `MPI_Irecv` and counts by probing, so a batch and a count of one process
may be taken in either order. `poll` handles one message; it runs where the code calls it (`Polls`): while the program works, in the two loops that wait, and
between two counts only when the last one was sent to another process (`JustSent`). A batch is received whole and its
messages are handled one by one (`processing`, the loop of `process_batch`): what a handler sends may leave and arrive before the next one
runs. A batch that arrives meanwhile waits in `new_batches`, as in `receive_batch`.

### How the graph modules correspond to the code

A state of `BSP` is a call of one algorithm: `input` (graph, owner of each vertex, parameters), `data[p]`, the local
variables of process p, `mail`, the messages, and where each process is in its superstep. `Works` is a process's own work up to the next
`synchronize`, `Handles` the trigger of one message, `Resumes` what all processes do after `all_reduce`. Between two synchronizes a
process reads only its own variables, so one order of the processes stands for all (in `StrongComponents` it also asks other
owners for colors while they search: there the visits interleave); the handlers interleave in every way that
keeps messages between two processes in order. `DepthFirst` has no supersteps: its messages are out of band and interleave freely.
Operators carry the names of the C++ functions with a prefix for the algorithm (`st_`, `bfs_`, `dfs_`, `color_`, `ps_`,
`cc_`, `scc_`, `ho_`, `mst_`, `bc_`, `nd_`, `pr_`, `graph_`, `named_`, `dist_`). A graph is given as its out-edges `input.out[v]`, sequences of `[to, w]`; undirected
graphs have both directions. Property maps are functions per process over all vertices: own vertices, and ghost cells where the
code has them. Centralities and ranks are exact parts of a unit that all path counts and degrees of the small graphs divide.
`AdjacencyList` applies one operation at each of two processes at once, then redistributes; `NamedGraph` one or two requests by name.

## Runs

| run | instance | what it shows |
|---|---|---|
| `sites` | 2 sites, 2 entries, 2+2 slots, 1 request per site at a time, 2 trials, delay 1; all commands | TypeOK, TablesAgree, Accounting (counters, tables and queues account for every request and URL), RequestBelongsToSite, NoLostWakeup, EverySiteAccountedFor, OnlyRetriesGoOut |
| `urls` | 1 site, 5 URLs of which two share a hash, 2 requests at a time, level limit, page limit 1, retries | PerSeedBound, and that CrawlServer implements UrlLifecycle |
| `live` | 2 sites in 2 entries, delay 1, servers that answer | EverySiteFinishes |
| `silent` | 1 site whose server does not answer | RequestsTimeOut is violated |
| `buddies` | 2 crawlers of one site each, 3 hosts, two on one address, failing statements, 1 mishap | TypeOK, OneTable, OneVisitorPerAddress, and that CrawlBuddy implements SiteTables |
| `ends` | the same without failing statements | AllCrawled |
| `io` | descriptors up to 4; nine loads: two commands, two reports with a first cursor of 0 to 3 (a report has 2 pieces), pages beside a command and a report, long answers, ids that wrap, timeouts across the wrap of the ticks; at most 2 breaks | SocketsWatched, DeliveredInOrder, RequestsServedOnce, PageEndsInAnswer, TimeoutExact, EverythingLeaves |
| `store` | 2 pages with bodies of 0 or 4 pieces, chunks of at most 7 pieces, a window of 3, 2 openings, 2 mishaps, an `int` that ends at 5, compressed or not | RepositoryTypeOK, PagesWhole, Complete, ReaderEnds |
| `sync` | 2 processes, batches of 2, 2 messages each with routes of up to two hops, 2 supersteps | ProcessGroupTypeOK, StagesInStep, CountsMatch, ProcessGroup implements Supersteps, StepsEnd |
| `lostcount` | 3 processes, batches of 2, at most one message each, to process 0, whose handler passes it on to 2 | CountsMatch is violated |
| `graph` | 4 vertices (5 for strong components), 2 or 3 processes (4 for forests); 5999 calls of 21 algorithms and kinds of graph | each algorithm returns (AlgorithmsEnd), and what it returned is true of the graph |
| `inedges` | 3 in-edges of one vertex | EndsAgree is violated |

Bounds of the crawler. Two slots in either table are enough for a slot to be freed and given to another
request while the other is busy, and for the retry to meet a full table; two entries and two
sites, for an entry to change hands and for the round robin to choose. `MaxSites` bounds the
sites ever accepted (`cur_queue_id`), `MAX_NUM_TRIALS = 2` gives one retry, `MinSample` and `MaxConsecutive` (10 and 5 in
the code) are small so that the error limits are reached. In `urls` the pages link
and redirect to every URL of the site, so links in circles, to robots.txt, to oneself, and equal hashes
all occur. `CHECK_DEADLOCK FALSE` appears where the site manager may have nothing more to
send (an idle server rests in `poll`), where all loads are done (`io`), and where nobody opens the container again (`store`).

Bounds of the others. Three hosts on two addresses give a choice, a conflict and a host that must wait; two crawlers, a
contended lock, with one mishap at any of their steps. In `io` the load is a constant of the behaviour, so that each
behaviour needs few sockets; `MaxTickets` bounds submissions and is one more than the ids that exist. In `store`
`MAX_FILE_SIZE` is smaller than two pages, so that a page always crosses or begins a chunk. `HalfRange = 5` lies in the middle of where sync points occur:
those below it are kept, the others become negative. (With a `HalfRange` of 2 a sync point may also become a smaller one that is not negative: TLC then
shows that a reader goes round for ever, which `ReaderEnds` excepts.) In `sync` the real limits of a
batch (64K messages, 1 MB) become 2 messages, so a batch leaves both because it is full and because the superstep ends. Two processes: with three the
refinement has over 2 million states. In `graph`, three processes are used where a message can be
overtaken by a longer way round (depth first, components, bicomponents), and four where a merging step must leave
two (forests). Strong components get five vertices: it takes as many for a round with two sets to divide, and their searches meet. The weights make ties, detours that are shorter than an edge, and light and heavy edges.

Symmetry. Slots of a table are interchangeable, and so are the two sites; no symmetry is
used in `live` and `ends`. The crawlers are interchangeable in `buddies`; hosts are not, since `getsite` takes the lowest.

Fairness. *CrawlServer*: `LoopFairness` says that the loop runs whenever it is not blocked (one thread, nothing else to
wait for), a page has finitely many links (`WF(ParseEnd)`), and time passes (`SF(Tick)`, because `Tick` is enabled
only at some places of the loop, to which the loop keeps returning). `AnswerFairness` adds Web servers that answer or break the connection; it is an
assumption on them, used only by `live`. Without it (`silent`) the promise fails.
*CrawlBuddy*: each process runs (weak fairness of `Buddy`, `SendReport`, `JobCommit`), each site's crawl ends
(`EverySiteFinishes`, hence `WF(SiteDone)`), and an operator stops a server whose buddy is gone, unrolls a crawler that has stopped and starts
a crawler while hosts wait. Nothing in the code does the last three by itself: a crash leaves hosts in
crawling until somebody acts, and `ends` shows that these acts, at any time, are enough. Starting and unrolling get strong fairness because
the condition may come and go while others work. Statements do not fail there.
*ServerIO*: the loop runs when woken, connections that are being made are made or fail, and a client that connected sends its command.
*Repository*: the reader runs. *ProcessGroup* and *Algorithms*: a process that can go on does, and MPI delivers.

## Findings

1. `silent`: a request is not ended after MAX_WAIT (`fetch.h:52`, "wait at most 5 minutes") if the loop has
   nothing else to wake it; it blocks without a deadline whenever all slots are in use (`manager.cc:457`, as in the run, which has one) or
   every site waits for answers (`select_queue` returns -1, `manager.cc:678`).
2. `lostcount`: `synchronize` polls between two sends of the counts of batches (`mpi_process_group.cpp:826`); a batch that a handler fills
   there, for a process that has yet to be told or was told already -1, is counted in no stage (in the run process 0, polling after it told 1, passes
   the messages of 1 and 2 on to 2, and then tells 2 -1), and the assertion at 908 fails, or its messages are a superstep late.
3. `inedges`: `remove_in_edge` of a bidirectional graph (`adjacency_list.hpp:966`) stops at the first in-edge that is *not* the one
   sought and erases it.

### What the code does otherwise

Met while modelling; the models do what the code does, and the properties state what then holds.

*Crawl server.* The retry (`callback.cc:427`) goes out without the delay between requests to a site and while paused
(`OnlyRetriesGoOut`). The target of a redirected robots.txt belongs to seed 0, which has no limits, so more than
`MaxPage` pages can be fetched. `SUSPEND` of an unknown id reads past the table.
Half-closing a slow connection never happens in time: the arguments are swapped at `fetch.cc:177`. When a request goes out in parts,
all but the last stay in the buffer and the page that the callback gets begins with them (`fetch.cc:482`, 431): then it does not begin with the HTTP
header that the page to store includes (`PageContainer.h:45`), and the test for "HTTP/" fails (`callback.cc:154`). `PageEndsInAnswer` says what such a page is. `crawler/TODO:59` says that crawl_server
tries only once to send the message that a site is done, which is lost if the send fails. The code tries again after a connect or a write that failed
(`crawl_comm.cc:205`, 217-225), and `DeliveredInOrder` shows that what leaves the queue was written whole. What the TODO is right about is that nothing answers a report: one that TCP drops after it
was written is lost (`LoseReport` of `CrawlBuddy`), its host stays in crawling, and only an operator brings it back (`AllCrawled`). `RC_FM_TOO_LONG_RESPONSE` is never returned;
a page that is too long is cut and OK. A report whose connect failed waits for another wake-up. `report_cursor` is not initialised
before the first report. An EOF before the end of a command is parsed with an uninitialised `request_end`. A client that says
nothing blocks all commands. When the tick counter wraps, requests made within MAX_WAIT after it time out at once and those
made before it never (`TimeoutExact`).

*Site manager.* A buddy counts an idle round for each report it handles once its server is empty, and ends after 6 of them
with reports unread (`crawl_buddy.pl:330`). `crawl_unroll.pl:97` greps stdout for a message that goes to stderr, so it never
refuses to unroll a crawler that runs.

*Repository.* A short `fwrite` counts as a success. An empty page is stored and cannot be read. The list of chunks is emptied and
rewritten whenever one is added. A chunk is listed before the one before it is flushed, and a container may be begun anew while its list is being read: a reader may
then splice two pages of an uncompressed container, or be asked for a negative length
(`ReaderFaults`). A magic code across two search windows is missed. `FSBigFile` is there for files over 2 GB (`FSBigFile.h:56`), but `resync` keeps the place
of the magic code it found in an int (`FSPageContainer.cc:295`): one between 2 and 4 GB becomes negative, is refused by `seek`, and the reader ends early; one beyond 4 GB sends it
back, so that it returns pages again and may never end. `PagesWhole` (as to order), `Complete` and `ReaderEnds` therefore except a reader whose sync point was cut. (`FSPageContainer::tell`, 77, cuts what it returns likewise; tools such as `webcat.cc` print it.) Storing into a site that had ended truncates it (`repository.cc:182`).

*Graph library.* `st_connected` can miss a path (0-1-2-3 with owners 0,0,1,1), says false for s = t, and says true in a directed
graph for s→a←t. `connected_components_ps` can split a component (its collision map keeps one
entry per number), and does not survive a process without edges. `connected_components` can split one as well: the end of pointer jumping is tested on ghost cells of the round
before (`connected_components.hpp:525`; 7 vertices, edges 2-6, 2-4, 2-3, 6-4, 4-5, owners 0,0,0,1,1,2,2). `strong_components` searches from all its sets at once with one map of claims (`strong_components.hpp:405`), so that a component other than the first can be
split (0-1, 2-3, 4 on three processes, edges 1-0, 1-2, 1-4, 2-1, 0-3, 3-4, 4-3: 3 and 4 get different numbers);
reads a set that trimming emptied past its end (315, 321; the model gives the element that was there); and returns without
labels when no vertex has edges both ways (285), so that all get one number. Coloring returns the
largest local count of colors. `hohberg_biconnected_components` can join two bicomponents from five
vertices on (0-1, 0-2, 1-3, 2-3, 2-4, 3-4, owners 0,1,0,1,0), because only `find(M, parent)` is tested, and does not
end with an isolated leader. Delta-stepping and betweenness divide by zero without edges; the overload of eager
Dijkstra at 393-416 swaps `inf` and `zero`; its `min_distance + lookahead` may overflow. Zero weights make cycles of
predecessors, on which betweenness does not end; its edge centrality map is updated with a vertex as the key, and the call without
weights divides integers. `boruvka_then_merge` on one process converts an infinite number to an integer, and on two or three does no Boruvka step.
With parallel undirected edges `remove_edge` can remove another's entry in `local_edges`, or one edge at each end; removing a
self-loop leaves a copy; `remove_in_edge_if` with a local source may remove edges to a remote vertex of equal local
number; redistribution of bidirectional graphs does not compile (`redistribute.hpp:90`). `oned_block_cyclic::block_size` compares the number of
processes with the blocks that are left, where it should compare the process (`distribution.hpp:282`): unless the elements fill whole rounds of blocks, a
process makes room for fewer than are looked for there. `twod_block_cyclic` numbers blocks by column but with the blocks in a row as the step (420):
blocks share a number unless there are as many rows of blocks as columns; its `global` adds rows and columns as if they were places. `uneven_block` finds an element at an
empty block that begins where it is (226). `shuffled_distribution::global(i)` passes over the mapping (85). `remove_dangling_links` compares local
numbers of vertices without a `synchronize` (`page_rank.hpp:203`), so a process may end while removals of others are still on their way to it. The calls of `graph` leave these inputs out, so that each
algorithm's property can be stated; `NoFalseConnection` is the half of connectedness that always holds.

## Proofs

Theorems hold for every value of the constants that satisfies the named assumptions of the modules. TLC evaluates these
assumptions in every run, and every inductive invariant below was model-checked on the instances of the runs
before it was proved (of `Agreement`, which quantifies over histories, what it implies).

### CrawlServer

For any sites, URLs, entries, slots and limits that satisfy `UrlAssumption` and `SizeAssumption` (there is at least one entry and one
slot; the tables of the code have fixed sizes):

| theorem | says | invariant |
|---|---|---|
| `TypeCorrect`, `TablesCorrect` | TypeOK, TablesAgree | `TInv` |
| `SitesCorrect` | RequestBelongsToSite | `SiteInv` |
| `RequestsCounted`, `QueuesCounted`, `WakesUp` | the counters are the sizes of the sets they count; NoLostWakeup | `CountInv` |
| `SitesAccountedFor` | EverySiteAccountedFor | `IdInv` |
| `AccountsHold` | Accounting | `UrlInv` |
| `SeedsBounded` | PerSeedBound | `SeedInv` |
| `PausedAndPaced` | OnlyRetriesGoOut | the invariants above |
| `LifecycleImplemented` | CrawlServer implements UrlLifecycle | the invariants above |

The types alone are not inductive: a callback goes through `callback_param` to its slot and from there
to its site, so that the invariant must say that the pointer of a busy entry is a slot in use and that a
callback in progress works on a busy entry. `TInv == TypeOK /\ TablesAgree` is inductive. One lemma per group
of actions proves that a step preserves it; the lemmas before them give the type of what each operator on a
queue entry returns.

The properties speak of the tables and of what is in flight. A queue may have been saved by SUSPEND, though, and may be brought back by LOAD into
another entry, so that each invariant says the same of the saved queues:

* `SiteInv`: an entry without a site waits for nothing, the URLs that wait in an entry or in a saved queue are of its
  site, and so is the request of every slot in use. Deleting an entry keeps it because `CancelRequests` frees all slots that refer to it.
* `CountInv`: `num_pending_requests` and the `pending_request_count` of each entry are the sizes of the sets of
  slots they count, an entry without a site is blank, a saved queue counts no request. No request belongs to an entry without a site, so that a
  site that comes into an entry, new or saved, starts with a count that is right.
* `IdInv`: every id up to `cur_queue_id` is in exactly one place, and a larger one in none.
* `UrlInv`: what waits in an entry waits once and has been recorded as seen; what is in flight has been seen, does not wait, and
  is in flight once.
* `SeedInv`: levels and counts are within the limits in the entries, the saved queues and the requests; and only pages below
  the root are parsed, never robots.txt, whose links no filter would limit.

These invariants would need a proof per action and invariant. Instead `CrawlServerProofs` shows first that each action is one of eight kinds of
steps on the tables (`Kinds`: rests, offers a URL, ends a request, resumes it with a retry, launches one, loses, gets or gives up a site), stated
by what it does to one queue entry and one slot. Each invariant is then proved kind by kind. The refinement maps a URL to its
stage from the entry's list, the requests and the URLs seen; each kind is a step of `UrlLifecycle` or a stutter.

`CrawlBuddyProofs` proves, for any hosts, addresses, crawlers and limits that satisfy `HostAssumption` and `LimitAssumption`,

* `BuddyTypeCorrect`: `Spec => []TypeOK`;

and with `Careful`, an operator who unrolls only crawlers that have stopped,

* `TablesConsistent`: `Spec => []OneTable`;
* `OneVisitor`: `Spec => []OneVisitorPerAddress`;
* `TablesRefined`: `Spec => ImplementsSiteTables`.

Neither invariant is inductive. A report takes its host's row out of crawling whoever has it, so the invariant must say
that no second report of the host is anywhere. `Kept(b)` is the set of hosts on their way with crawler b, from the LOAD to the
release: in the server's table, in its report queue, in a message, in the buddy's hand. `Once` says that a host is
in one of these places, once; `HasRows`, that each has b's row in crawling; `Lost`, that a process that is gone has nothing,
which is what makes unrolling a stopped crawler safe; `Claims`, that a buddy between its SELECT and its COMMIT holds
the lock and that its host's address is still free; `JobInv`, that nobody keeps the host a script is moving. `MoveKeeps` covers every step
that only moves a host along its way; the four steps that change a table have a lemma each, which the
refinement uses again.

### ServerIO

For any descriptors, slots, commands, reports, sizes and loads that satisfy the assumptions of `NetMod`, `CrawlComm` (`CommAssumption`: no command has the
name of another end of a connection), `FetchModule` (`FetchAssumption`, `BufferAssumption`: the sizes a buffer grows through by doubling end
at `MAX_PAGE_SIZE`, as in `expand_buffer`) and `ServerIO` (`IOAssumption`: a load asks for no more pages than there are tickets):

| theorem | says | invariant |
|---|---|---|
| `IOHolds`, `SocketsReady` | the inductive invariant; SocketsWatched | `IOInv` |
| `EachRequestOnce` | RequestsServedOnce | `TicketInv` |
| `PageExact` | PageEndsInAnswer: request pieces, then the answer | `PageInv` |
| `NoEarlyTimeout`, `TimeoutsExact` | no early timeout; TimeoutExact | `ClockInv`, `ScannedInv` |
| `Delivered` | DeliveredInOrder | `ReportInv`, `CommandInv` |

* `IOInv` gives every open descriptor exactly one owner (a busy entry, the command connection, the report connection, the listener), in the set
  that its state needs and below `max_socket`; and ids that name their entries, modulo the size of the table, also after they wrapped around.
  The three modules share the descriptor sets, and closing a socket of one must not take another's. Ids and counts of the entries are part of it, because a
  callback that submits a request asks for a free entry before its own is released.
* `TicketInv` ties the history of a request to the entry it is in.
* `PageInv` says what is on its connection: the buffer is the request pieces sent before the last write and then the pieces of the page that were read, the first ones; those that are unread are the next ones,
  and both together are what was served; and what is in the buffer fits it.
* `ClockInv` says that the entry of a request was made some d ticks ago, d being no more than the ticks of the run, and that the time of a
  pass is the time it began. `ScannedInv` says that entries the pass has gone by are in time. `TimeoutsExact` has the hypothesis
  `OneTurn`: in no run the tick counter turns around once whole, or an entry of a whole turn ago would look new. (`process` looks at every
  entry at every pass, but nothing wakes the loop for it: the run `silent`.) `NoEarlyTimeout` needs no such hypothesis.
* `ReportInv` says by which connection each report that has left came, that these are in the order of the queue, and that the open connection has carried the
  report at its head up to `report_cursor`. The first report is an exception as far as the cursor that nobody initialised goes: when it equals the length of the
  report nothing of it is sent, and it counts as sent.
* `CommandInv` says of the client that is served that buffer, packet and unread data together are the numbered pieces it wrote, and what it has got is the
  beginning of the buffer that is sent; of one that waits, that it has got nothing; and that no client is in the backlog twice.

### ProcessGroup

For any number of processes, size of a batch, routes of messages and number of supersteps that satisfy `ProcessGroupAssumption` (processes
are numbered from 0; a batch holds a message at least; a message goes to somebody):

| theorem | says | invariant |
|---|---|---|
| `ProcessGroupTypesCorrect` | ProcessGroupTypeOK | `GroupTypes` |
| `OneStepApart` | nobody is more than a superstep ahead, and only of who is about to leave the barrier | `GroupInv` |
| `StagesInStepCorrect` | StagesInStep | `GroupInv /\ Agreement` |

Three things make the stages of `synchronize` work, none of which a process can see by itself:

* What q has told p is what p has heard and what is on its way (`Channel`). So a count belongs to the next stage although no stage is sent with
  it, and its superstep is known: a process that has left the barrier may tell of the next superstep those that are still in it, and `Polls` keeps them
  from reading it there.
* A stage is counted once for each process heard in it (`Heard`), so that a count of P processes is everybody's (`AllIn`).
* All leave or none does. `Agreement`: there is a history `said` of what each process says in each stage, once and to all, such that every number of
  unfinished processes is the number of those heard to say 1 (`Tally`), every word on its way is the one said (`OnWay`), and a process goes past
  a stage only if somebody said 1 there (`Passed`). A process that ends a stage has heard 0 from all: nobody goes on.

`KindOfStep` reduces the actions to six kinds by what they do to the stages (handles, goes on, tells, leaves, hears, starts a stage); what
the batches carry plays no part.

What the batches carry is the subject of `ProcessGroupBatchProofs`. The assertions at the end of `synchronize` fail in the run `lostcount`,
where a process tells another -1 (nothing new) although a batch has left for it since its last word. `TellsTruth` says
that no process ever does that. It holds in `sync`, and the theorems show that nothing else can go wrong:

| theorem | says | invariant |
|---|---|---|
| `Quieted` | with `[]TellsTruth`: batches are conserved, and who says 0 holds nothing, or somebody still says 1 | `GroupInv /\ Quietness` |
| `CountsMatchTold` | with `[]TellsTruth`: CountsMatch | the same |
| `CountsMatchSilent` | where handlers send nothing (`HandlersSendNothing`, on the routes alone): CountsMatch, in every run | `Silence` gives `TellsTruth` |
| `MessagesInTime`, `MessagesInTimeSilent` | under the same conditions: nobody has left the superstep of a message that is still held or on its way | `InStep` |

* `Conserved`: for every two processes, what q has counted and not told, and the counts it has told that are on their way, are together what p has received
  and not been told of, and what is on its way. The counts on their way are summed along the wire, in the order they will be read; a -1 adds nothing.
* `Quiet`: a process whose word in a stage is 0 is `Still` (it holds nothing and nothing is on its way to it from a process in its superstep), or there is a
  `Dirty` process that says, or will say, 1 in that stage. So when all said 0, which is the only way to leave (`Agreement`), nothing is left anywhere.
* `Left`: a process that is a superstep ahead takes nothing of the superstep it has left; hence `InStep`, that all messages a process holds are
  of its own superstep.

### Repository

For any sizes of chunks, bodies and the search window, and any number of pages, openings and mishaps that satisfy `RepositoryAssumption` (a page fits a
chunk, a magic code fits the window):

| theorem | says | invariant |
|---|---|---|
| `RepositoryTypesCorrect` | RepositoryTypeOK, in particular no chunk exceeds `MAX_FILE_SIZE` | `WriterInv` |
| `PagesAreWhole` | PagesWhole: pages as they were stored, and in order until a sync point is cut | `RepositoryInv` |

`RepositoryInv` has four parts.

* `WriterInv`: the position is the length of what is on the disk and in stdio's buffer together; the number of chunks is bounded by the parts of pages written; a
  chunk just made is empty; the list never names more chunks than there are (two steps before they are switched to).
* `TextInv` speaks of the text of a chunk, flushed or not. Headers of one opening come in the order the pages were stored in, over all chunks, stale ones included; the chunks
  up to the current one hold the current opening and no others do (`Frontier`); behind the header of a page that was written whole comes its body, or the beginning of the next chunk does
  (`Bodies`).
* `ListedSound`: when nobody stores, the chunks that the list names are of one opening, and a page that was written whole is cut at most at the end of what was flushed.
* `ReaderInv`: the sizes a reader took are those of the chunks (`Follows`, unless it is torn); headers ahead of it are of pages stored later than any it returned (`KnownInv`, until a sync point was cut),
  also when it gives a header up and goes back behind its beginning; the pieces it has just read before a body are the end of that page's header (`AtBody`).

The two processes share only the files, so that a step of the writer is shown to keep `ReaderInv` conjunct by conjunct: the text of the chunks a reader knows only grows, or the reader becomes
torn. A step of the reader is shown to go forward, or to cut a sync point (`SyncKeeps`): `SeekIs` (seek finds the chunk that holds a position, and the only one), `ReadIs` (a read gives what is on the disk
here, or here and in the next chunk, with padding where a chunk was shorter than recorded) and `ReadMoves` carry that. A body that is read for a whole page is that page's because
the recorded size is the end of the chunk, so that a read that goes over the end begins in the next one at its beginning.

### What is only model-checked

Liveness and everything that needs ENABLED is out of the prover's reach: `EverySiteFinishes`, `RequestsTimeOut`, `AllCrawled`,
`EverythingLeaves`, `ReaderEnds`, `StepsEnd`, `AlgorithmsEnd`. So is what a recursive definition computes, as induction over data cannot be
instantiated: what the graph algorithms return. `CountsMatch` does not hold for all constants (`lostcount`); the theorems above say when it does, and that
`TellsTruth` holds where handlers send on, as in `sync`, is checked there only through CountsMatch. The refinement of `Supersteps` (`KeepsPromise`) counts messages with recursive folds, and stays with
TLC; `MessagesInTime` is what it says of each message. `Complete` (nothing that reached the disk is left out) is model-checked.

## Not modelled

* Checksums, URL and HTML parsing, text of messages and logs: no state of the crawl depends on more than
  their result. `Crawler/2002` is an older copy; `Client` and `Crawler/2004` are archives. The seed
  scripts, PHP pages, DNS tools and the build are batch tools.
* `distribdaemon.pl`: what it starts (`RunHandlers`) is not in the repository. Read, not modelled: versions are compared
  as strings the wrong way round (220), a client that says nothing blocks the accept loop, the branch "Cannot kill" (299-303) cannot be
  reached, `ps | grep` finds itself, and the search for a port never ends when all are in use.
* Of crawl_comm, `send_new_site` (no configuration asks for it); of the repository, the map of sites, offsets from the command line and mode
  'a' (no caller).
* Of the process group: the pool of 250 send buffers, within whose wait `send_batch` polls; the limit in bytes;
  out-of-band messages that want a reply; blocks and tags; messages without a trigger kept for `receive`; `emit_on_synchronize`. A batch that fills
  early may in fact be handled a superstep before its end is reached by the receiver; `ProcessGroup` shows this and `BSP` leaves it out.
* Of the graphs: `commit()` with its replies, `find_vertex` of a remote name, vertices added to an unnamed graph, copying, serialisation. In
  `HookingComponents` a put still on its way when lists are merged is left out.
* Of strong components: the sequential filter of local components, which the build leaves out (`FILTER_LOCAL_COMPONENTS`). The 0.05 of the
  vertices below which the graph is filtered (340) is a parameter, so that small graphs reach both branches.
* Compressed sparse rows, layouts, generators: no module. Of page rank, the variant with one-sided MPI (not built by default) and
  `remove_dangling_links`; of the distributions, `global` of `twod_block_cyclic` and the serialisation of a mapping.
* Coverage: a large part of the C++ consists of declarations, overloads, named-parameter wrappers and comments, of the Perl and PHP of
  reports; none of that has state.

## Plan

1. Done: `CrawlServer`, `UrlLifecycle`, `CrawlBuddy`, `SiteTables` with their theorems; the I/O layer; the repository; the process
   group and its refinement; the distributed graphs and algorithms.
2. Done: the proofs of `CrawlServer`, `CrawlBuddy`, `ServerIO`, `ProcessGroup` and `Repository`. Next: `Complete`, lemmas about the
   operators of the distributed graphs.
3. Models: out-of-band replies of the process group with `commit()`; compressed sparse rows.
