---------------------------- MODULE MCCrawlServer ----------------------------
(* A small Web for CrawlServer: per site robots.txt, the root and a few pages. *)
EXTENDS CrawlServer, TLC

CONSTANTS s1, s2, robots1, home1, robots2, home2, a, b, c

\* One site with three pages below the root; b and c have the same hash.
OneSite == {s1}
OneUrl == {robots1, home1, a, b, c}
OneSiteOf == [u \in OneUrl |-> s1]
OneRobots == s1 :> robots1
OneHome == s1 :> home1
OneHash == [u \in OneUrl |-> IF u = c THEN b ELSE u]

\* Two sites, with nothing below the root.
TwoSites == {s1, s2}
TwoUrl == {robots1, home1, robots2, home2}
TwoSiteOf == [u \in TwoUrl |-> IF u \in {robots2, home2} THEN s2 ELSE s1]
TwoRobots == s1 :> robots1 @@ s2 :> robots2
TwoHome == s1 :> home1 @@ s2 :> home2
TwoHash == [u \in TwoUrl |-> u]

\* The slots of each table are interchangeable.
SlotSymmetry == Permutations(Slot) \cup Permutations(FmSlot)

\* So are the two sites.
SiteSwap == s1 :> s2 @@ s2 :> s1 @@ robots1 :> robots2 @@ robots2 :> robots1
            @@ home1 :> home2 @@ home2 :> home1
SiteSymmetry == SlotSymmetry \cup {SiteSwap}
=============================================================================
