----------------------------- MODULE MCCrawlBuddy -----------------------------
(* A few hosts for CrawlBuddy, two of which share an address. *)
EXTENDS CrawlBuddy, TLC

CONSTANTS x, y, z, b1, b2

SharedAddr == 1 :> x @@ 2 :> x @@ 3 :> y
OwnAddr == 1 :> x @@ 2 :> y @@ 3 :> z

\* The crawlers are interchangeable.
CrawlerSymmetry == Permutations({b1, b2})
=============================================================================
