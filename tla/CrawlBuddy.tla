------------------------------ MODULE CrawlBuddy ------------------------------
(***************************************************************************)
(* The site manager: one crawl_buddy.pl per crawler id, each with a crawl  *)
(* server of its own, all sharing the tables uncrawled, crawling and       *)
(* crawled of one database.  A buddy takes a host from uncrawled, has its  *)
(* server crawl it, and moves it to crawled when the report comes in.      *)
(*                                                                         *)
(* The tables hold what is committed.  A transaction works at READ         *)
(* COMMITTED: each statement sees what is committed when it runs.  Writers *)
(* of uncrawled wait for one another in the order of their requests        *)
(* (holder, waiting): getsite locks that table, and so do the scripts that *)
(* insert into it.  getsite leaves by three doors, and by the two that     *)
(* find no host its transaction, and the lock, stay open.                  *)
(*                                                                         *)
(* The crawl server is CrawlServer seen from here: it is given hosts and   *)
(* reports each of them.  A report fits in a socket buffer and is written  *)
(* whole; what has been written may still be lost, and is not sent again.  *)
(***************************************************************************)
EXTENDS Integers, Sequences, FiniteSets

CONSTANTS
  Host,                \* hids: getsite takes the lowest
  Addr, AddrOf,        \* the column ipaddr
  Crawler,             \* crawler ids
  Threads,             \* [starter] Threads: CONCURRENT_SITES
  MAX_NUM_QUEUES,      \* what a crawl server takes
  MaxKO,               \* 5: idle rounds after which a buddy ends
  QueriesFail,         \* TRUE: statements may fail
  Careful,             \* TRUE: crawl_unroll is run for a crawler that is not running
  MaxMishaps,          \* bound on crashes, lost reports, orders and retries
  Operator, None

ASSUME HostAssumption ==
  /\ Host \subseteq Nat
  /\ AddrOf \in [Host -> Addr]
  /\ Operator \notin Crawler /\ None \notin Crawler \cup Host \cup {Operator}
  /\ Crawler \cap {"uncrawled", "crawled"} = {}

ASSUME LimitAssumption ==
  /\ Threads \in Nat \ {0} /\ MAX_NUM_QUEUES \in Nat /\ MaxKO \in Nat /\ MaxMishaps \in Nat
  /\ QueriesFail \in BOOLEAN /\ Careful \in BOOLEAN

VARIABLES
  uncrawled, crawling, crawled,   \* crawling[h]: the column id, None without a row
  holder, waiting,                \* the lock on uncrawled and the queue for it
  pc, site, crawl, endcrawl_delay,\* each buddy: its place, the host in hand, $CRAWL
  booting,                        \* it has not reached its main loop
  up, loaded, report,             \* each server: alive, hosts it crawls, report queue
  mail,                           \* messages in the listen queue of each buddy
  job,                            \* the row an operator's script is moving
  mishaps

tables == <<uncrawled, crawling, crawled>>
lock == <<holder, waiting>>
buddy == <<pc, site, crawl, endcrawl_delay, booting>>
server == <<up, loaded, report>>
vars == <<tables, lock, buddy, server, mail, job, mishaps>>

-----------------------------------------------------------------------------
Report(h) == [cmd |-> "REPORT", host |-> h]
Order(c) == [cmd |-> c, host |-> None]
Message == { Report(h) : h \in Host } \cup { Order(c) : c \in {"DIE", "STOPNEW", "CRAWLNEW"} }
NoJob == [host |-> None, from |-> "crawling"]

Nothing == [h \in Host |-> 0]

\* The answer to STATUS: the hosts the server is crawling.
Sites(b) == Cardinality({ x \in Host \X (1 .. MAX_NUM_QUEUES) : x[2] <= loaded[b][x[1]] })
Status(b) == IF up[b] THEN Sites(b) ELSE -1

\* A rollback, a commit or a lost connection gives the lock back.
Freed(b) == IF holder = b THEN None ELSE holder
\* A buddy waits in one place at most.
Without(b) ==
  IF \E i \in DOMAIN waiting : waiting[i] = b
  THEN LET i == CHOOSE i \in DOMAIN waiting : waiting[i] = b
       IN  SubSeq(waiting, 1, i - 1) \o SubSeq(waiting, i + 1, Len(waiting))
  ELSE waiting

Goto(b, place) == pc' = [pc EXCEPT ![b] = place]

Init ==
  /\ uncrawled = Host
  /\ crawling = [h \in Host |-> None]
  /\ crawled = {}
  /\ holder = None /\ waiting = << >>
  /\ pc = [b \in Crawler |-> "down"]
  /\ site = [b \in Crawler |-> None]
  /\ crawl = [b \in Crawler |-> TRUE]
  /\ endcrawl_delay = [b \in Crawler |-> 0]
  /\ booting = [b \in Crawler |-> FALSE]
  /\ up = [b \in Crawler |-> FALSE]
  /\ loaded = [b \in Crawler |-> Nothing]
  /\ report = [b \in Crawler |-> << >>]
  /\ mail = [b \in Crawler |-> << >>]
  /\ job = NoJob
  /\ mishaps = 0

-----------------------------------------------------------------------------
(* getsite *)

\* (As in CrawlServer, an operator X_Word is a mutant of X that no action uses.)
GetsiteBegin_NoRollback(b) ==
  /\ pc[b] = "getsite"
  /\ waiting' = Append(waiting, b)
  /\ Goto(b, "lock")
  /\ UNCHANGED <<tables, holder, site, crawl, endcrawl_delay, booting, server, mail, job, mishaps>>

GetsiteBegin(b) ==
  /\ pc[b] = "getsite"
  /\ holder' = Freed(b)
  /\ waiting' = Append(waiting, b)
  /\ Goto(b, "lock")
  /\ UNCHANGED <<tables, site, crawl, endcrawl_delay, booting, server, mail, job, mishaps>>

Granted_Shared(b) ==
  /\ waiting # << >> /\ b = Head(waiting)
  /\ waiting' = Tail(waiting)

Granted(b) ==
  /\ holder = None
  /\ waiting # << >> /\ b = Head(waiting)
  /\ waiting' = Tail(waiting)

\* Hosts whose address no crawler is visiting.
Eligible_AnyAddress == uncrawled
Eligible ==
  { h \in uncrawled : \A g \in Host : crawling[g] # None => AddrOf[g] # AddrOf[h] }

Select(b) ==
  /\ pc[b] = "lock"
  /\ Granted(b)
  /\ holder' = b
  /\ \E h \in Eligible :
       /\ \A g \in Eligible : h <= g
       /\ site' = [site EXCEPT ![b] = h]
  /\ Goto(b, "claim")
  /\ UNCHANGED <<tables, crawl, endcrawl_delay, booting, server, mail, job, mishaps>>

\* No host remains, or none at a free address.  query() gives (undef), a list of one,
\* when its statement fails: the COUNT is then taken for 0.  The lock outlives the
\* statement, but not the connection.
SelectNothing(b) ==
  /\ pc[b] = "lock"
  /\ Granted(b)
  /\ \/ Eligible = {} /\ holder' = b
     \/ QueriesFail /\ holder' \in {b, None}
  /\ Goto(b, IF booting[b] THEN "accept" ELSE "idle")
  /\ booting' = [booting EXCEPT ![b] = FALSE]
  /\ UNCHANGED <<tables, site, crawl, endcrawl_delay, server, mail, job, mishaps>>

\* hid is the primary key of crawling.
ClaimSite(b) ==
  /\ pc[b] = "claim"
  /\ crawling[site[b]] = None
  /\ uncrawled' = uncrawled \ {site[b]}
  /\ crawling' = [crawling EXCEPT ![site[b]] = b]
  /\ holder' = None
  /\ Goto(b, "request")
  /\ UNCHANGED <<crawled, waiting, site, crawl, endcrawl_delay, booting, server, mail,
                 job, mishaps>>

ClaimFails(b) ==
  /\ pc[b] = "claim"
  /\ crawling[site[b]] # None \/ QueriesFail
  /\ Goto(b, "getsite")
  /\ UNCHANGED <<tables, lock, site, crawl, endcrawl_delay, booting, server, mail,
                 job, mishaps>>

\* LOAD.  The reply is not looked at, nor is it returned.
request_crawl(b) ==
  /\ pc[b] = "request"
  /\ loaded' = IF up[b] /\ Sites(b) < MAX_NUM_QUEUES
               THEN [loaded EXCEPT ![b][site[b]] = @ + 1]
               ELSE loaded
  /\ endcrawl_delay' = [endcrawl_delay EXCEPT ![b] = 0]
  /\ booting' = [booting EXCEPT ![b] = FALSE]
  /\ site' = [site EXCEPT ![b] = None]
  /\ Goto(b, "accept")
  /\ UNCHANGED <<tables, lock, crawl, up, report, mail, job, mishaps>>

-----------------------------------------------------------------------------
(* The main loop *)

\* crawl_buddy.pl is started; it dies at once if a server already runs on its port.
Start(b) ==
  /\ pc[b] = "down" /\ ~up[b]
  /\ up' = [up EXCEPT ![b] = TRUE]
  /\ crawl' = [crawl EXCEPT ![b] = TRUE]
  /\ endcrawl_delay' = [endcrawl_delay EXCEPT ![b] = 0]
  /\ booting' = [booting EXCEPT ![b] = TRUE]
  /\ Goto(b, "getsite")
  /\ UNCHANGED <<tables, lock, site, loaded, report, mail, job, mishaps>>

\* accept runs into its timeout (1 or 30 seconds): by then a report that waits
\* in the server would have come.
Timeout(b) ==
  /\ pc[b] = "accept" /\ mail[b] = << >>
  /\ up[b] => report[b] = << >>
  /\ Goto(b, "check")
  /\ UNCHANGED <<tables, lock, site, crawl, endcrawl_delay, booting, server, mail, job, mishaps>>

\* A message is answered before what it asks for is done.
Receive(b) ==
  /\ pc[b] = "accept" /\ mail[b] # << >>
  /\ LET m == Head(mail[b])
     IN  /\ site' = [site EXCEPT ![b] = m.host]
         /\ crawl' = [crawl EXCEPT ![b] = IF m.cmd \in {"STOPNEW", "CRAWLNEW"}
                                          THEN m.cmd = "CRAWLNEW" ELSE @]
         /\ Goto(b, CASE m.cmd = "REPORT" -> "release"
                      [] m.cmd = "DIE" -> "finish"
                      [] OTHER -> "check")
  /\ mail' = [mail EXCEPT ![b] = Tail(@)]
  /\ UNCHANGED <<tables, lock, endcrawl_delay, booting, server, job, mishaps>>

releasesite_KeepsRow(b) ==
  /\ pc[b] = "release"
  /\ site[b] \notin crawled
  /\ crawled' = crawled \cup {site[b]}
  /\ holder' = Freed(b)
  /\ site' = [site EXCEPT ![b] = None]
  /\ Goto(b, "check")
  /\ UNCHANGED <<uncrawled, crawling, waiting, crawl, endcrawl_delay, booting, server, mail,
                 job, mishaps>>

\* The row of crawling is deleted whoever has it; it may not be there.  A row that a
\* script is moving is waited for.
releasesite(b) ==
  /\ pc[b] = "release"
  /\ job.host # site[b]
  /\ site[b] \notin crawled
  /\ crawling' = [crawling EXCEPT ![site[b]] = None]
  /\ crawled' = crawled \cup {site[b]}
  /\ holder' = Freed(b)
  /\ site' = [site EXCEPT ![b] = None]
  /\ Goto(b, "check")
  /\ UNCHANGED <<uncrawled, waiting, crawl, endcrawl_delay, booting, server, mail, job, mishaps>>

\* hid is the primary key of crawled: the transaction is tried again, for ever.  It
\* begins with a rollback, also when it then waits for a row.
ReleaseFails(b) ==
  /\ pc[b] = "release"
  /\ site[b] \in crawled \cup {job.host} \/ QueriesFail
  /\ holder' = Freed(b)
  /\ UNCHANGED <<tables, waiting, buddy, server, mail, job, mishaps>>

\* "Crawler lost, aborting"
Check(b) ==
  /\ pc[b] = "check"
  /\ Goto(b, IF Status(b) = -1 THEN "finish" ELSE "want")
  /\ UNCHANGED <<tables, lock, site, crawl, endcrawl_delay, booting, server, mail, job, mishaps>>

Want(b) ==
  /\ pc[b] = "want"
  /\ Goto(b, IF crawl[b] /\ Status(b) < Threads THEN "getsite" ELSE "idle")
  /\ UNCHANGED <<tables, lock, site, crawl, endcrawl_delay, booting, server, mail, job, mishaps>>

Idle(b) ==
  /\ pc[b] = "idle"
  /\ endcrawl_delay' = [endcrawl_delay EXCEPT ![b] = IF Status(b) <= 0 THEN @ + 1 ELSE 0]
  /\ Goto(b, IF endcrawl_delay'[b] > MaxKO THEN "finish" ELSE "accept")
  /\ UNCHANGED <<tables, lock, site, crawl, booting, server, mail, job, mishaps>>

\* What becomes of a buddy that is gone: its transaction is rolled back and its
\* listen queue lost.
BuddyGone(b) ==
  /\ holder' = Freed(b) /\ waiting' = Without(b)
  /\ site' = [site EXCEPT ![b] = None]
  /\ booting' = [booting EXCEPT ![b] = FALSE]
  /\ mail' = [mail EXCEPT ![b] = << >>]
  /\ Goto(b, "down")

ServerGone(b) ==
  /\ up' = [up EXCEPT ![b] = FALSE]
  /\ loaded' = [loaded EXCEPT ![b] = Nothing]
  /\ report' = [report EXCEPT ![b] = << >>]

\* disconnect, DIE to the server, exit
Finish(b) ==
  /\ pc[b] = "finish"
  /\ BuddyGone(b)
  /\ ServerGone(b)
  /\ UNCHANGED <<tables, crawl, endcrawl_delay, job, mishaps>>

-----------------------------------------------------------------------------
(* The crawl server *)

SiteDone_Again(b, h) ==
  /\ up[b] /\ Len(report[b]) < MAX_NUM_QUEUES
  /\ loaded' = [loaded EXCEPT ![b][h] = @ - 1]
  /\ report' = [report EXCEPT ![b] = Append(@, h)]
  /\ UNCHANGED <<tables, lock, buddy, up, mail, job, mishaps>>

SiteDone(b, h) ==
  /\ up[b] /\ loaded[b][h] > 0
  /\ loaded' = [loaded EXCEPT ![b][h] = @ - 1]
  /\ report' = [report EXCEPT ![b] = Append(@, h)]
  /\ UNCHANGED <<tables, lock, buddy, up, mail, job, mishaps>>

\* The first report is forgotten once it is written to the socket.
SendReport(b) ==
  /\ up[b] /\ report[b] # << >> /\ pc[b] # "down"
  /\ mail' = [mail EXCEPT ![b] = Append(@, Report(Head(report[b])))]
  /\ report' = [report EXCEPT ![b] = Tail(@)]
  /\ UNCHANGED <<tables, lock, buddy, up, loaded, job, mishaps>>

-----------------------------------------------------------------------------
(* Crashes and operators *)

Mishap == mishaps < MaxMishaps /\ mishaps' = mishaps + 1

BuddyCrash(b) ==
  /\ Mishap
  /\ pc[b] # "down"
  /\ BuddyGone(b)
  /\ UNCHANGED <<tables, crawl, endcrawl_delay, server, job>>

ServerCrash(b) ==
  /\ Mishap
  /\ up[b]
  /\ ServerGone(b)
  /\ UNCHANGED <<tables, lock, buddy, mail, job>>

\* The report was written and forgotten, and TCP drops it: the buddy never hears of the
\* host, which stays in crawling (crawler/TODO:59).
LoseReport(b) ==
  /\ Mishap
  /\ up[b] /\ report[b] # << >> /\ pc[b] # "down"
  /\ report' = [report EXCEPT ![b] = Tail(@)]
  /\ UNCHANGED <<tables, lock, buddy, up, loaded, mail, job>>

\* crawl_ctl.pl kill, winddown, windup
SendOrder(b) ==
  /\ Mishap
  /\ pc[b] # "down"
  /\ \E c \in {"DIE", "STOPNEW", "CRAWLNEW"} : mail' = [mail EXCEPT ![b] = Append(@, Order(c))]
  /\ UNCHANGED <<tables, lock, buddy, server, job>>

\* A server whose buddy is gone answers no crawl_ctl order: it is killed.
KillOrphan(b) ==
  /\ pc[b] = "down" /\ up[b]
  /\ ServerGone(b)
  /\ UNCHANGED <<tables, lock, buddy, mail, job, mishaps>>

\* crawl_unroll.pl and retry_one_crawling.pl move a row of crawling to uncrawled,
\* retry_one_crawled.pl one of crawled: DELETE, INSERT into uncrawled, COMMIT.
UnrollBegin(h) ==
  /\ job = NoJob
  /\ crawling[h] # None
  /\ Careful => pc[crawling[h]] = "down" /\ ~up[crawling[h]]
  /\ job' = [host |-> h, from |-> "crawling"]
  /\ waiting' = Append(waiting, Operator)
  /\ UNCHANGED <<tables, holder, buddy, server, mail, mishaps>>

RetryBegin(h) ==
  /\ Mishap
  /\ job = NoJob
  /\ h \in crawled
  /\ job' = [host |-> h, from |-> "crawled"]
  /\ waiting' = Append(waiting, Operator)
  /\ UNCHANGED <<tables, holder, buddy, server, mail>>

\* hid is the primary key of uncrawled: the script dies if the row is there.
JobCommit ==
  /\ job # NoJob
  /\ Granted(Operator)
  /\ IF job.host \in uncrawled
     THEN UNCHANGED tables
     ELSE /\ uncrawled' = uncrawled \cup {job.host}
          /\ crawling' = IF job.from = "crawling"
                         THEN [crawling EXCEPT ![job.host] = None] ELSE crawling
          /\ crawled' = IF job.from = "crawled" THEN crawled \ {job.host} ELSE crawled
  /\ job' = NoJob
  /\ UNCHANGED <<holder, buddy, server, mail, mishaps>>

-----------------------------------------------------------------------------
Getsite(b) ==
  \/ GetsiteBegin(b) \/ Select(b) \/ SelectNothing(b) \/ ClaimSite(b) \/ ClaimFails(b)
  \/ request_crawl(b)
MainLoop(b) ==
  \/ Timeout(b) \/ Receive(b) \/ releasesite(b) \/ ReleaseFails(b)
  \/ Check(b) \/ Want(b) \/ Idle(b) \/ Finish(b)
Buddy(b) == Getsite(b) \/ MainLoop(b)

Server(b) == SendReport(b) \/ \E h \in Host : SiteDone(b, h)
Crashes(b) == BuddyCrash(b) \/ ServerCrash(b) \/ LoseReport(b)
Operators ==
  \/ \E b \in Crawler : Start(b) \/ SendOrder(b) \/ KillOrphan(b)
  \/ \E h \in Host : UnrollBegin(h) \/ RetryBegin(h)
  \/ JobCommit

Next == (\E b \in Crawler : Buddy(b) \/ Server(b) \/ Crashes(b)) \/ Operators

Spec == Init /\ [][Next]_vars

\* Where statements do not fail: processes run and crawls end (EverySiteFinishes of
\* CrawlServer); an operator clears up after a crawler that has stopped and starts
\* one while hosts wait.
FairSpec ==
  /\ Spec
  /\ \A b \in Crawler :
       /\ WF_vars(Buddy(b)) /\ WF_vars(SendReport(b))
       /\ \A h \in Host : WF_vars(SiteDone(b, h))
       /\ WF_vars(KillOrphan(b))
       /\ SF_vars(Start(b) /\ uncrawled # {})
  /\ SF_vars(\E h \in Host : UnrollBegin(h))
  /\ WF_vars(JobCommit)

-----------------------------------------------------------------------------
(* Properties *)

TypeOK ==
  /\ uncrawled \subseteq Host /\ crawled \subseteq Host
  /\ crawling \in [Host -> Crawler \cup {None}]
  /\ holder \in Crawler \cup {None}
  /\ waiting \in Seq(Crawler \cup {Operator})
  /\ pc \in [Crawler -> {"down", "accept", "release", "check", "want", "getsite", "lock",
                         "claim", "request", "idle", "finish"}]
  /\ site \in [Crawler -> Host \cup {None}]
  /\ crawl \in [Crawler -> BOOLEAN] /\ booting \in [Crawler -> BOOLEAN]
  /\ endcrawl_delay \in [Crawler -> Nat]
  /\ up \in [Crawler -> BOOLEAN]
  /\ loaded \in [Crawler -> [Host -> Nat]]
  /\ report \in [Crawler -> Seq(Host)]
  /\ mail \in [Crawler -> Seq(Message)]
  /\ job \in [host : Host \cup {None}, from : {"crawling", "crawled"}]
  /\ mishaps \in Nat

\* A host is in exactly one of the three tables, whatever crashes and is cleared up.
OneTable ==
  \A h \in Host :
    /\ h \in uncrawled <=> crawling[h] = None /\ h \notin crawled
    /\ crawling[h] # None => h \notin crawled

\* No two crawl servers, and no two crawls of one server, are on the same address.
OneVisitorPerAddress ==
  \A b, c \in Crawler, g, h \in Host :
    loaded[b][g] > 0 /\ loaded[c][h] > 0 /\ AddrOf[g] = AddrOf[h]
      => b = c /\ g = h /\ loaded[b][g] = 1

\* CrawlBuddy implements SiteTables.
Tables == INSTANCE SiteTables WITH
  place <- [h \in Host |-> IF crawling[h] # None THEN crawling[h]
                           ELSE IF h \in crawled THEN "crawled" ELSE "uncrawled"]
ImplementsSiteTables == Tables!Spec

\* Every host is crawled in the end, whatever crashes on the way.
AllCrawled == <>[](crawled = Host)
=============================================================================
