------------------------------ MODULE SiteTables ------------------------------
(***************************************************************************)
(* What the site tables promise to the crawlers: a host is in one of the   *)
(* three tables, a crawler takes hosts that wait, and two hosts of one     *)
(* address are never being crawled together.  CrawlBuddy implements this   *)
(* specification.                                                          *)
(***************************************************************************)
CONSTANTS Host, Crawler, AddrOf

VARIABLE place    \* place[h]: "uncrawled", "crawled", or the crawler that has h

Init == place \in [Host -> {"uncrawled"}]

Claim(b, h) ==
  /\ place[h] = "uncrawled"
  /\ \A g \in Host : place[g] \in Crawler => AddrOf[g] # AddrOf[h]
  /\ place' = [place EXCEPT ![h] = b]

Release(h) == place[h] \in Crawler /\ place' = [place EXCEPT ![h] = "crawled"]

\* An operator has the host crawled again.
Restore(h) ==
  /\ place[h] \in Crawler \cup {"crawled"}
  /\ place' = [place EXCEPT ![h] = "uncrawled"]

Next == \E h \in Host : Release(h) \/ Restore(h) \/ \E b \in Crawler : Claim(b, h)

Spec == Init /\ [][Next]_place
=============================================================================
