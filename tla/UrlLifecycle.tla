----------------------------- MODULE UrlLifecycle -----------------------------
(***************************************************************************)
(* What the crawl server promises about the URLs of one site: each URL     *)
(* (known by its hash) is found once, waits once, is with the fetch module *)
(* once (its retries included) and is never requested again; a site never  *)
(* has more than MAX_QUEUE_PENDING_REQUESTS URLs in flight.  Only the end  *)
(* of the crawl of the site forgets a URL.  CrawlServer implements this    *)
(* specification.                                                          *)
(***************************************************************************)
EXTENDS Naturals, FiniteSets

CONSTANTS Queues, HashValue, MAX_QUEUE_PENDING_REQUESTS

VARIABLES
  crawling,    \* the entries of the queue table that hold a site
  stage        \* stage[q][k]: how far URL k of the site in entry q has come

Stages == {"unseen", "queued", "in flight", "done"}
Nothing == [k \in HashValue |-> "unseen"]
InFlight(q) == { k \in HashValue : stage[q][k] = "in flight" }

Init == crawling = {} /\ stage = [q \in Queues |-> Nothing]

\* A new site, or one that was suspended: what it had in flight is done with.
Open(q) ==
  /\ q \notin crawling
  /\ crawling' = crawling \cup {q}
  /\ \E start \in [HashValue -> Stages \ {"in flight"}] :
       stage' = [stage EXCEPT ![q] = start]

Move(q, k, from, to) ==
  /\ q \in crawling
  /\ stage[q][k] = from
  /\ stage' = [stage EXCEPT ![q][k] = to]
  /\ UNCHANGED crawling

Find(q, k) == Move(q, k, "unseen", "queued")
Fetch(q, k) ==
  /\ Cardinality(InFlight(q)) < MAX_QUEUE_PENDING_REQUESTS
  /\ Move(q, k, "queued", "in flight")
Drop(q, k) == Move(q, k, "queued", "done")
Finish(q, k) == Move(q, k, "in flight", "done")

Close(q) ==
  /\ q \in crawling
  /\ crawling' = crawling \ {q}
  /\ stage' = [stage EXCEPT ![q] = Nothing]

Next ==
  \E q \in Queues :
    \/ Open(q) \/ Close(q)
    \/ \E k \in HashValue : Find(q, k) \/ Fetch(q, k) \/ Drop(q, k) \/ Finish(q, k)

Spec == Init /\ [][Next]_<<crawling, stage>>
=============================================================================
