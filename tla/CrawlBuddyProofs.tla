--------------------------- MODULE CrawlBuddyProofs ---------------------------
(***************************************************************************)
(* The site tables stay consistent and no address is visited twice at      *)
(* once, for any hosts, crawlers and limits, provided that operators       *)
(* unroll only crawlers that have stopped (Careful).                       *)
(***************************************************************************)
EXTENDS CrawlBuddy, SequenceTheorems, TLAPS

Place == {"down", "accept", "release", "check", "want", "getsite", "lock",
          "claim", "request", "idle", "finish"}

\* Where a buddy or a script works on a host, it has one.
InHand ==
  /\ \A b \in Crawler : pc[b] \in {"claim", "request", "release"} => site[b] \in Host
  /\ job = NoJob \/ job.host \in Host

TInv == TypeOK /\ InHand

-----------------------------------------------------------------------------
(* Types *)

LEMMA InitTyped == Init => TInv
<1> SUFFICES ASSUME Init PROVE TInv
  OBVIOUS
<1>1. TypeOK
  BY DEF Init, TypeOK, NoJob, Nothing
<1> QED
  BY <1>1 DEF Init, TInv, InHand

LEMMA GetsiteTyped ==
  ASSUME TInv, NEW b \in Crawler, Getsite(b)
  PROVE  TInv'
<1> USE DEF TInv, TypeOK, InHand, Goto, tables, lock, server
<1>1. CASE GetsiteBegin(b)
  BY <1>1 DEF GetsiteBegin, Freed
<1>2. CASE Select(b)
  BY <1>2 DEF Select, Granted, Eligible
<1>3. CASE SelectNothing(b)
  BY <1>3 DEF SelectNothing, Granted
<1>4. CASE ClaimSite(b)
  BY <1>4 DEF ClaimSite
<1>5. CASE ClaimFails(b)
  BY <1>5 DEF ClaimFails
<1>6. CASE request_crawl(b)
  <2>1. loaded' \in [Crawler -> [Host -> Nat]]
    BY <1>6 DEF request_crawl
  <2> QED
    BY <1>6, <2>1 DEF request_crawl
<1> QED
  BY <1>1, <1>2, <1>3, <1>4, <1>5, <1>6 DEF Getsite

LEMMA WithoutTyped ==
  ASSUME NEW b, waiting \in Seq(Crawler \cup {Operator})
  PROVE  Without(b) \in Seq(Crawler \cup {Operator})
BY DEF Without

LEMMA BuddyGoneTyped ==
  ASSUME TInv, NEW b \in Crawler, BuddyGone(b)
  PROVE  /\ holder' \in Crawler \cup {None}
         /\ waiting' \in Seq(Crawler \cup {Operator})
         /\ site' \in [Crawler -> Host \cup {None}]
         /\ booting' \in [Crawler -> BOOLEAN]
         /\ mail' \in [Crawler -> Seq(Message)]
         /\ pc' \in [Crawler -> Place]
         /\ \A c \in Crawler :
              pc'[c] \in {"claim", "request", "release"} => site'[c] \in Host
<1>1. waiting \in Seq(Crawler \cup {Operator}) /\ waiting' = Without(b)
  BY DEF BuddyGone, TInv, TypeOK
<1>2. waiting' \in Seq(Crawler \cup {Operator})
  BY <1>1, WithoutTyped
<1>3. /\ holder' \in Crawler \cup {None}
      /\ site' \in [Crawler -> Host \cup {None}]
      /\ booting' \in [Crawler -> BOOLEAN]
  BY DEF BuddyGone, TInv, TypeOK, Freed
<1>4. mail' \in [Crawler -> Seq(Message)]
  BY DEF BuddyGone, TInv, TypeOK
<1>5. pc' \in [Crawler -> Place]
  BY DEF BuddyGone, TInv, TypeOK, Goto, Place
<1>6. \A c \in Crawler :
        pc'[c] \in {"claim", "request", "release"} => site'[c] \in Host
  BY DEF BuddyGone, TInv, TypeOK, Goto, InHand
<1> QED
  BY <1>2, <1>3, <1>4, <1>5, <1>6

LEMMA ServerGoneTyped ==
  ASSUME TInv, NEW b \in Crawler, ServerGone(b)
  PROVE  /\ up' \in [Crawler -> BOOLEAN]
         /\ loaded' \in [Crawler -> [Host -> Nat]]
         /\ report' \in [Crawler -> Seq(Host)]
BY DEF ServerGone, TInv, TypeOK, Nothing

LEMMA MainLoopTyped ==
  ASSUME TInv, NEW b \in Crawler, MainLoop(b)
  PROVE  TInv'
<1> USE DEF TInv, TypeOK, InHand, Goto, tables, lock, server
<1>1. CASE Timeout(b)
  BY <1>1 DEF Timeout
<1>2. CASE Receive(b)
  <2> DEFINE m == Head(mail[b])
  <2>1. mail[b] \in Seq(Message) /\ mail[b] # << >>
    BY <1>2 DEF Receive
  <2>2. m \in Message
    BY <2>1
  <2>3. m.host \in Host \cup {None} /\ (m.cmd = "REPORT" => m.host \in Host)
    BY <2>2 DEF Message, Report, Order
  <2>4. /\ site' = [site EXCEPT ![b] = m.host]
        /\ crawl' \in [Crawler -> BOOLEAN]
        /\ mail' = [mail EXCEPT ![b] = Tail(@)]
        /\ UNCHANGED <<tables, lock, endcrawl_delay, booting, server, job, mishaps>>
    BY <1>2 DEF Receive
  <2>5. PICK d \in {"release", "finish", "check"} :
          pc' = [pc EXCEPT ![b] = d] /\ (d = "release" => m.cmd = "REPORT")
    BY <1>2 DEF Receive
  <2>6. mail' \in [Crawler -> Seq(Message)]
    BY <2>1, <2>4
  <2> HIDE DEF m
  <2>7. pc' \in [Crawler -> Place]
    BY <2>5 DEF Place
  <2>9. site' \in [Crawler -> Host \cup {None}]
    BY <2>3, <2>4
  <2>8. \A c \in Crawler : pc'[c] \in {"claim", "request", "release"} => site'[c] \in Host
    BY <2>3, <2>4, <2>5
  <2> QED
    BY <2>4, <2>6, <2>7, <2>8, <2>9 DEF Place
<1>3. CASE releasesite(b)
  BY <1>3 DEF releasesite, Freed
<1>4. CASE ReleaseFails(b)
  BY <1>4 DEF ReleaseFails, Freed, buddy
<1>5. CASE Check(b)
  BY <1>5 DEF Check
<1>6. CASE Want(b)
  BY <1>6 DEF Want
<1>7. CASE Idle(b)
  <2>1. endcrawl_delay' \in [Crawler -> Nat]
    BY <1>7 DEF Idle
  <2> QED
    BY <1>7, <2>1 DEF Idle
<1>8. CASE Finish(b)
  <2>1. BuddyGone(b) /\ ServerGone(b) /\ UNCHANGED <<tables, crawl, endcrawl_delay, job, mishaps>>
    BY <1>8 DEF Finish
  <2>2. TypeOK'
    BY <2>1, BuddyGoneTyped, ServerGoneTyped DEF Place
  <2> QED
    BY <2>1, <2>2, BuddyGoneTyped
<1> QED
  BY <1>1, <1>2, <1>3, <1>4, <1>5, <1>6, <1>7, <1>8 DEF MainLoop

LEMMA ServerTyped ==
  ASSUME TInv, NEW b \in Crawler, Server(b)
  PROVE  TInv'
<1> USE DEF TInv, TypeOK, InHand, tables, lock, buddy
<1>1. CASE SendReport(b)
  <2>1. report[b] \in Seq(Host) /\ report[b] # << >>
    BY <1>1 DEF SendReport
  <2>2. Report(Head(report[b])) \in Message
    BY <2>1 DEF Message
  <2>3. /\ mail' \in [Crawler -> Seq(Message)]
        /\ report' \in [Crawler -> Seq(Host)]
    BY <1>1, <2>1, <2>2 DEF SendReport
  <2> QED
    BY <1>1, <2>3 DEF SendReport
<1>2. ASSUME NEW h \in Host, SiteDone(b, h) PROVE TInv'
  <2>1. loaded' \in [Crawler -> [Host -> Nat]]
    BY <1>2 DEF SiteDone
  <2>2. report' \in [Crawler -> Seq(Host)]
    BY <1>2 DEF SiteDone
  <2> QED
    BY <1>2, <2>1, <2>2 DEF SiteDone
<1> QED
  BY <1>1, <1>2 DEF Server

LEMMA CrashesTyped ==
  ASSUME TInv, NEW b \in Crawler, Crashes(b)
  PROVE  TInv'
<1>1. CASE BuddyCrash(b)
  <2>1. BuddyGone(b) /\ mishaps' = mishaps + 1
    BY <1>1 DEF BuddyCrash, Mishap
  <2>2. UNCHANGED <<tables, crawl, endcrawl_delay, server, job>>
    BY <1>1 DEF BuddyCrash
  <2>3. /\ holder' \in Crawler \cup {None}
        /\ waiting' \in Seq(Crawler \cup {Operator})
        /\ site' \in [Crawler -> Host \cup {None}]
        /\ booting' \in [Crawler -> BOOLEAN]
        /\ mail' \in [Crawler -> Seq(Message)]
        /\ pc' \in [Crawler -> Place]
        /\ \A c \in Crawler :
             pc'[c] \in {"claim", "request", "release"} => site'[c] \in Host
    BY <2>1, BuddyGoneTyped
  <2>4. TypeOK'
    BY <2>1, <2>2, <2>3 DEF TInv, TypeOK, Place, tables, server
  <2> QED
    BY <2>2, <2>3, <2>4 DEF TInv, InHand
<1>2. CASE ServerCrash(b)
  <2>1. ServerGone(b) /\ mishaps' = mishaps + 1
    BY <1>2 DEF ServerCrash, Mishap
  <2>2. UNCHANGED <<tables, lock, buddy, mail, job>>
    BY <1>2 DEF ServerCrash
  <2>3. /\ up' \in [Crawler -> BOOLEAN]
        /\ loaded' \in [Crawler -> [Host -> Nat]]
        /\ report' \in [Crawler -> Seq(Host)]
    BY <2>1, ServerGoneTyped
  <2> QED
    BY <2>1, <2>2, <2>3 DEF TInv, TypeOK, InHand, tables, lock, buddy
<1>3. CASE LoseReport(b)
  <2>1. report' \in [Crawler -> Seq(Host)]
    BY <1>3 DEF LoseReport, TInv, TypeOK
  <2> QED
    BY <1>3, <2>1 DEF LoseReport, Mishap, TInv, TypeOK, InHand, tables, lock, buddy
<1> QED
  BY <1>1, <1>2, <1>3 DEF Crashes

LEMMA OperatorsTyped == ASSUME TInv, Operators PROVE TInv'
<1> USE DEF TInv, TypeOK, InHand, Mishap, Goto, tables, lock, buddy, server
<1>1. ASSUME NEW b \in Crawler, Start(b) PROVE TInv'
  BY <1>1 DEF Start
<1>2. ASSUME NEW b \in Crawler, SendOrder(b) PROVE TInv'
  <2>1. PICK c \in {"DIE", "STOPNEW", "CRAWLNEW"} :
          mail' = [mail EXCEPT ![b] = Append(@, Order(c))]
    BY <1>2 DEF SendOrder
  <2>2. Order(c) \in Message
    BY DEF Message
  <2>3. mail' \in [Crawler -> Seq(Message)]
    BY <2>1, <2>2
  <2> QED
    BY <1>2, <2>3 DEF SendOrder
<1>3. ASSUME NEW b \in Crawler, KillOrphan(b) PROVE TInv'
  <2>1. /\ up' \in [Crawler -> BOOLEAN]
        /\ loaded' \in [Crawler -> [Host -> Nat]]
        /\ report' \in [Crawler -> Seq(Host)]
    BY <1>3, ServerGoneTyped DEF KillOrphan
  <2> QED
    BY <1>3, <2>1 DEF KillOrphan
<1>4. ASSUME NEW h \in Host, UnrollBegin(h) PROVE TInv'
  BY <1>4 DEF UnrollBegin
<1>5. ASSUME NEW h \in Host, RetryBegin(h) PROVE TInv'
  BY <1>5 DEF RetryBegin
<1>6. CASE JobCommit
  <2>1. job.host \in Host
    BY <1>6 DEF JobCommit
  <2>2. /\ uncrawled' \subseteq Host /\ crawled' \subseteq Host
        /\ crawling' \in [Host -> Crawler \cup {None}]
    <3>1. CASE job.host \in uncrawled
      BY <1>6, <3>1 DEF JobCommit
    <3>2. CASE job.host \notin uncrawled
      <4>1. crawling' \in {crawling, [crawling EXCEPT ![job.host] = None]}
        BY <1>6, <3>2 DEF JobCommit
      <4>2. uncrawled' \subseteq Host /\ crawled' \subseteq Host
        BY <1>6, <2>1, <3>2 DEF JobCommit
      <4> QED
        BY <4>1, <4>2
    <3> QED
      BY <3>1, <3>2
  <2>3. waiting' \in Seq(Crawler \cup {Operator})
    BY <1>6 DEF JobCommit, Granted
  <2>4. job' = NoJob /\ UNCHANGED <<holder, buddy, server, mail, mishaps>>
    BY <1>6 DEF JobCommit
  <2> QED
    BY <2>2, <2>3, <2>4 DEF NoJob
<1> QED
  BY <1>1, <1>2, <1>3, <1>4, <1>5, <1>6 DEF Operators

LEMMA StepTyped == TInv /\ [Next]_vars => TInv'
<1> SUFFICES ASSUME TInv, [Next]_vars PROVE TInv'
  OBVIOUS
<1>1. CASE UNCHANGED vars
  BY <1>1 DEF vars, tables, lock, buddy, server, TInv, TypeOK, InHand
<1> QED
  BY <1>1, GetsiteTyped, MainLoopTyped, ServerTyped, CrashesTyped, OperatorsTyped DEF Next, Buddy

\* Every variable keeps its type, and a buddy never releases or asks for a host that
\* it does not have.
THEOREM BuddyTypeCorrect == Spec => []TypeOK
<1>1. Spec => []TInv
  BY InitTyped, StepTyped, PTL DEF Spec
<1> QED
  BY <1>1, PTL DEF TInv

-----------------------------------------------------------------------------
(* The invariant.  A host that a crawler keeps is on its way from the LOAD to *)
(* the release: in its server's table, in the report queue, in a message or   *)
(* in the buddy's hand.  It is there once, and has the crawler's row in       *)
(* crawling.                                                                  *)

Loaded(b) == { h \in Host : loaded[b][h] > 0 }
Reported(b) == { report[b][i] : i \in DOMAIN report[b] }
Mailed(b) == { h \in Host : \E i \in DOMAIN mail[b] : mail[b][i].host = h }
Hand(b) == { h \in Host : pc[b] \in {"request", "release"} /\ site[b] = h }
Kept(b) == Loaded(b) \cup Reported(b) \cup Mailed(b) \cup Hand(b)

Once(b) ==
  /\ \A h \in Host : loaded[b][h] <= 1
  /\ \A i, j \in DOMAIN report[b] : report[b][i] = report[b][j] => i = j
  /\ \A i, j \in DOMAIN mail[b] : mail[b][i].host = mail[b][j].host => i = j \/ mail[b][i].host = None
  /\ Loaded(b) \cap (Reported(b) \cup Mailed(b) \cup Hand(b)) = {}
  /\ Reported(b) \cap (Mailed(b) \cup Hand(b)) = {}
  /\ Mailed(b) \cap Hand(b) = {}

HasRows(b) == \A h \in Kept(b) : crawling[h] = b

\* A process that is gone has nothing.
Lost(b) ==
  /\ pc[b] = "down" => mail[b] = << >>
  /\ ~up[b] => loaded[b] = Nothing /\ report[b] = << >>

\* Between its SELECT and its COMMIT a buddy has the lock, and no other can take
\* a host of the address.
Claims(b) ==
  pc[b] = "claim" =>
    /\ holder = b
    /\ site[b] \in uncrawled
    /\ \A g \in Host : crawling[g] # None => AddrOf[g] # AddrOf[site[b]]

\* The row that a script has deleted, and not yet moved.
JobInv ==
  job # NoJob =>
    /\ job.from = "crawled" => job.host \in crawled
    /\ job.from = "crawling" => crawling[job.host] # None
    /\ \A b \in Crawler : job.host \notin Kept(b)

OneRowPerAddress ==
  \A g, h \in Host :
    crawling[g] # None /\ crawling[h] # None /\ AddrOf[g] = AddrOf[h] => g = h

KeepInv == \A b \in Crawler : Once(b) /\ HasRows(b) /\ Lost(b)
TableInv == OneTable /\ OneRowPerAddress /\ JobInv /\ \A b \in Crawler : Claims(b)
IInv == TInv /\ KeepInv /\ TableInv

LEMMA InitKept == Init => KeepInv /\ TableInv
<1> SUFFICES ASSUME Init PROVE KeepInv /\ TableInv
  OBVIOUS
<1>1. ASSUME NEW b \in Crawler PROVE Once(b) /\ HasRows(b) /\ Lost(b)
  <2>1. /\ Loaded(b) = {} /\ Reported(b) = {} /\ Mailed(b) = {} /\ Hand(b) = {}
    BY DEF Init, Loaded, Reported, Mailed, Hand, Nothing
  <2> QED
    BY <2>1 DEF Init, Once, HasRows, Lost, Kept, Nothing
<1> QED
  BY <1>1, HostAssumption
     DEF Init, KeepInv, TableInv, OneTable, OneRowPerAddress, JobInv, Claims

-----------------------------------------------------------------------------
(* Steps that leave the tables alone. *)

Same(b) ==
  /\ pc'[b] = pc[b] /\ site'[b] = site[b] /\ up'[b] = up[b]
  /\ loaded'[b] = loaded[b] /\ report'[b] = report[b] /\ mail'[b] = mail[b]

LEMMA SameKept ==
  ASSUME NEW b \in Crawler, Same(b)
  PROVE  /\ Kept(b)' = Kept(b)
         /\ Once(b) => Once(b)'
         /\ Lost(b) => Lost(b)'
<1>1. /\ Loaded(b)' = Loaded(b) /\ Reported(b)' = Reported(b)
      /\ Mailed(b)' = Mailed(b) /\ Hand(b)' = Hand(b)
  BY DEF Same, Loaded, Reported, Mailed, Hand
<1> QED
  BY <1>1 DEF Same, Kept, Once, Lost

\* A step of one crawler, its buddy or its server, that takes no host from the tables.
Moves(b) ==
  /\ UNCHANGED <<tables, job>>
  /\ \A c \in Crawler \ {b} : Same(c) /\ (holder = c => holder' = c)
  /\ pc'[b] = "claim" => pc[b] = "claim" /\ site'[b] = site[b] /\ (holder = b => holder' = b)

LEMMA MoveKeeps ==
  ASSUME IInv, NEW b \in Crawler, Moves(b), Once(b)', Lost(b)', Kept(b)' \subseteq Kept(b)
  PROVE  KeepInv' /\ TableInv'
<1>1. UNCHANGED <<uncrawled, crawling, crawled, job>>
  BY DEF Moves, tables
<1>2. \A c \in Crawler : Kept(c)' \subseteq Kept(c)
  BY SameKept DEF Moves
<1>3. KeepInv'
  <2> SUFFICES ASSUME NEW c \in Crawler PROVE Once(c)' /\ HasRows(c)' /\ Lost(c)'
    BY DEF KeepInv
  <2>1. HasRows(c)'
    BY <1>1, <1>2 DEF IInv, KeepInv, HasRows
  <2>2. Once(c)' /\ Lost(c)'
    BY SameKept DEF IInv, KeepInv, Moves
  <2> QED
    BY <2>1, <2>2
<1>4. JobInv'
  BY <1>1, <1>2 DEF IInv, TableInv, JobInv, NoJob
<1>5. ASSUME NEW c \in Crawler PROVE Claims(c)'
  BY <1>1 DEF IInv, TableInv, Claims, Moves, Same
<1> QED
  BY <1>1, <1>3, <1>4, <1>5 DEF IInv, TableInv, OneTable, OneRowPerAddress
\* Where b keeps what it has, in the same place.
LEMMA QuietKeeps ==
  ASSUME IInv, NEW b \in Crawler, Moves(b),
         loaded'[b] = loaded[b], report'[b] = report[b], mail'[b] = mail[b],
         Hand(b)' = Hand(b), pc'[b] # "down", up[b] => up'[b]
  PROVE  KeepInv' /\ TableInv'
<1>1. /\ Loaded(b)' = Loaded(b) /\ Reported(b)' = Reported(b) /\ Mailed(b)' = Mailed(b)
  BY DEF Loaded, Reported, Mailed
<1>2. Once(b)' /\ Kept(b)' = Kept(b)
  BY <1>1 DEF Once, Kept, IInv, KeepInv
<1>3. Lost(b)'
  BY DEF Lost, IInv, KeepInv
<1> QED
  BY <1>2, <1>3, MoveKeeps

LEMMA BuddyQuiet ==
  ASSUME IInv, NEW b \in Crawler,
         \/ GetsiteBegin(b) \/ SelectNothing(b) \/ ClaimFails(b) \/ Timeout(b)
         \/ ReleaseFails(b) \/ Check(b) \/ Want(b) \/ Idle(b) \/ Start(b)
  PROVE  KeepInv' /\ TableInv'
<1> USE DEF Goto, Moves, Same, Freed, lock, server, buddy, Hand
<1>1. pc \in [Crawler -> Place] /\ up \in [Crawler -> BOOLEAN]
  BY DEF IInv, TInv, TypeOK, Place
<1>2. CASE GetsiteBegin(b)
  BY <1>1, <1>2, QuietKeeps DEF GetsiteBegin
<1>3. CASE SelectNothing(b)
  <2>1. holder = None /\ holder' \in {b, None}
    BY <1>3 DEF SelectNothing, Granted
  <2>2. \A c \in Crawler : c # None
    BY HostAssumption
  <2> QED
    BY <1>1, <1>3, <2>1, <2>2, QuietKeeps DEF SelectNothing
<1>4. CASE ClaimFails(b)
  BY <1>1, <1>4, QuietKeeps DEF ClaimFails
<1>5. CASE Timeout(b)
  BY <1>1, <1>5, QuietKeeps DEF Timeout
<1>6. CASE ReleaseFails(b)
  BY <1>1, <1>6, QuietKeeps DEF ReleaseFails
<1>7. CASE Check(b)
  BY <1>1, <1>7, QuietKeeps DEF Check
<1>8. CASE Want(b)
  BY <1>1, <1>8, QuietKeeps DEF Want
<1>9. CASE Idle(b)
  BY <1>1, <1>9, QuietKeeps DEF Idle
<1>10. CASE Start(b)
  BY <1>1, <1>10, QuietKeeps DEF Start
<1> QED
  BY <1>2, <1>3, <1>4, <1>5, <1>6, <1>7, <1>8, <1>9, <1>10

-----------------------------------------------------------------------------
(* From the LOAD to the release. *)

LEMMA RequestKeeps ==
  ASSUME IInv, NEW b \in Crawler, request_crawl(b)
  PROVE  KeepInv' /\ TableInv'
<1> DEFINE h == site[b]
<1>1. /\ h \in Host /\ pc[b] = "request"
      /\ loaded \in [Crawler -> [Host -> Nat]] /\ up \in [Crawler -> BOOLEAN]
  BY DEF IInv, TInv, InHand, TypeOK, request_crawl
<1>2. pc \in [Crawler -> Place] /\ site \in [Crawler -> Host \cup {None}]
  BY DEF IInv, TInv, TypeOK, Place
<1>3. /\ UNCHANGED <<tables, lock, up, report, mail, job>>
      /\ pc' = [pc EXCEPT ![b] = "accept"] /\ site' = [site EXCEPT ![b] = None]
  BY DEF request_crawl, Goto
<1>4. \/ loaded' = loaded
      \/ up[b] /\ loaded' = [loaded EXCEPT ![b][h] = @ + 1]
  BY DEF request_crawl
<1>5. Once(b) /\ Lost(b)
  BY DEF IInv, KeepInv
<1>6. h \in Hand(b)
  BY <1>1 DEF Hand
<1>7. /\ Hand(b)' = {} /\ Reported(b)' = Reported(b) /\ Mailed(b)' = Mailed(b)
  BY <1>2, <1>3 DEF Hand, Reported, Mailed
<1>8. Loaded(b)' \subseteq Loaded(b) \cup {h} /\ \A g \in Host : loaded'[b][g] <= 1
  <2>1. loaded[b][h] = 0
    BY <1>1, <1>5, <1>6 DEF Once, Loaded
  <2> QED
    BY <1>1, <1>4, <1>5, <2>1 DEF Loaded, Once
<1>9. Kept(b)' \subseteq Kept(b)
  BY <1>6, <1>7, <1>8 DEF Kept
<1>10. Once(b)'
  BY <1>3, <1>5, <1>6, <1>7, <1>8 DEF Once
<1>11. Lost(b)'
  BY <1>2, <1>3, <1>4, <1>5 DEF Lost
<1>12. Moves(b)
  BY <1>1, <1>2, <1>3, <1>4 DEF Moves, Same, lock
<1> QED
  BY <1>9, <1>10, <1>11, <1>12, MoveKeeps

LEMMA DoneKeeps ==
  ASSUME IInv, NEW b \in Crawler, NEW h \in Host, SiteDone(b, h)
  PROVE  KeepInv' /\ TableInv'
<1>1. /\ loaded \in [Crawler -> [Host -> Nat]] /\ report \in [Crawler -> Seq(Host)]
      /\ loaded[b][h] > 0 /\ up[b]
  BY DEF IInv, TInv, TypeOK, SiteDone
<1>2. /\ loaded' = [loaded EXCEPT ![b][h] = @ - 1]
      /\ report' = [report EXCEPT ![b] = Append(@, h)]
      /\ UNCHANGED <<tables, lock, buddy, up, mail, job>>
  BY DEF SiteDone
<1>3. Once(b) /\ Lost(b)
  BY DEF IInv, KeepInv
<1>4. Loaded(b)' = Loaded(b) \ {h} /\ h \in Loaded(b) /\ \A g \in Host : loaded'[b][g] <= 1
  BY <1>1, <1>2, <1>3 DEF Loaded, Once
<1>5. /\ Reported(b)' = Reported(b) \cup {h}
      /\ \A i, j \in DOMAIN report'[b] : report'[b][i] = report'[b][j] => i = j
  <2>1. report'[b] = Append(report[b], h) /\ report[b] \in Seq(Host)
    BY <1>1, <1>2
  <2>2. \A i \in DOMAIN report[b] : report[b][i] # h
    BY <1>3, <1>4 DEF Once, Reported
  <2>3. Reported(b)' = Reported(b) \cup {h}
    BY <2>1 DEF Reported
  <2>4. ASSUME NEW i \in DOMAIN report'[b], NEW j \in DOMAIN report'[b],
               report'[b][i] = report'[b][j]
        PROVE  i = j
    BY <1>3, <2>1, <2>2, <2>4 DEF Once
  <2> QED
    BY <2>3, <2>4
<1>6. Mailed(b)' = Mailed(b) /\ Hand(b)' = Hand(b)
  BY <1>2 DEF Mailed, Hand, buddy
<1>7. Kept(b)' = Kept(b)
  BY <1>4, <1>5, <1>6 DEF Kept
<1>8. Once(b)'
  BY <1>2, <1>3, <1>4, <1>5, <1>6 DEF Once
<1>9. Lost(b)'
  BY <1>1, <1>2, <1>3 DEF Lost, buddy
<1>10. Moves(b)
  BY <1>1, <1>2 DEF Moves, Same, lock, buddy
<1> QED
  BY <1>7, <1>8, <1>9, <1>10, MoveKeeps

\* A report that leaves the queue is in it no more, and the others stay apart.
LEMMA HeadLeaves ==
  ASSUME NEW b \in Crawler, report \in [Crawler -> Seq(Host)], report[b] # << >>, Once(b),
         report' = [report EXCEPT ![b] = Tail(@)]
  PROVE  /\ Reported(b)' = Reported(b) \ {Head(report[b])}
         /\ \A i, j \in DOMAIN report'[b] : report'[b][i] = report'[b][j] => i = j
<1> DEFINE h == Head(report[b])
<1>1. /\ report[b] \in Seq(Host) /\ report'[b] = Tail(report[b])
      /\ h = report[b][1] /\ 1 \in DOMAIN report[b]
  OBVIOUS
<1> HIDE DEF h
<1>2. /\ DOMAIN report'[b] = 1 .. Len(report[b]) - 1
      /\ \A i \in DOMAIN report'[b] :
           i + 1 \in DOMAIN report[b] /\ report'[b][i] = report[b][i + 1]
  BY <1>1
<1>3. \A i \in DOMAIN report[b] : i # 1 => i - 1 \in DOMAIN report'[b] /\ i = (i - 1) + 1
  BY <1>1, <1>2
<1>4. Reported(b)' \subseteq Reported(b) \ {h}
  BY <1>1, <1>2 DEF Reported, Once
<1>5. Reported(b) \ {h} \subseteq Reported(b)'
  <2> SUFFICES ASSUME NEW i \in DOMAIN report[b], report[b][i] # h
               PROVE  report[b][i] \in Reported(b)'
    BY DEF Reported
  <2>1. i # 1
    BY <1>1
  <2>2. report'[b][i - 1] = report[b][i] /\ i - 1 \in DOMAIN report'[b]
    BY <1>2, <1>3, <2>1
  <2> QED
    BY <2>2 DEF Reported
<1>6. \A i, j \in DOMAIN report'[b] : report'[b][i] = report'[b][j] => i = j
  BY <1>1, <1>2 DEF Once
<1> QED
  BY <1>4, <1>5, <1>6 DEF h

LEMMA LoseKeeps ==
  ASSUME IInv, NEW b \in Crawler, LoseReport(b)
  PROVE  KeepInv' /\ TableInv'
<1>1. /\ report \in [Crawler -> Seq(Host)] /\ report[b] # << >> /\ up[b]
      /\ report' = [report EXCEPT ![b] = Tail(@)]
      /\ UNCHANGED <<tables, lock, buddy, up, loaded, mail, job>>
  BY DEF IInv, TInv, TypeOK, LoseReport
<1>2. Once(b) /\ Lost(b)
  BY DEF IInv, KeepInv
<1>3. /\ Reported(b)' \subseteq Reported(b)
      /\ \A i, j \in DOMAIN report'[b] : report'[b][i] = report'[b][j] => i = j
  BY <1>1, <1>2, HeadLeaves
<1>4. Loaded(b)' = Loaded(b) /\ Hand(b)' = Hand(b) /\ Mailed(b)' = Mailed(b)
  BY <1>1 DEF Loaded, Hand, Mailed, buddy
<1>5. Kept(b)' \subseteq Kept(b)
  BY <1>3, <1>4 DEF Kept
<1>6. Once(b)'
  BY <1>1, <1>2, <1>3, <1>4 DEF Once
<1>7. Lost(b)'
  BY <1>1, <1>2 DEF Lost, buddy
<1>8. Moves(b)
  BY <1>1 DEF Moves, Same, lock, buddy
<1> QED
  BY <1>5, <1>6, <1>7, <1>8, MoveKeeps

LEMMA SendKeeps ==
  ASSUME IInv, NEW b \in Crawler, SendReport(b)
  PROVE  KeepInv' /\ TableInv'
<1> DEFINE h == Head(report[b])
<1>1. /\ report \in [Crawler -> Seq(Host)] /\ mail \in [Crawler -> Seq(Message)]
      /\ report[b] \in Seq(Host) /\ report[b] # << >> /\ pc[b] # "down" /\ up[b]
  BY DEF IInv, TInv, TypeOK, SendReport
<1>2. /\ mail' = [mail EXCEPT ![b] = Append(@, Report(h))]
      /\ report' = [report EXCEPT ![b] = Tail(@)]
      /\ UNCHANGED <<tables, lock, buddy, up, loaded, job>>
  BY DEF SendReport
<1>3. Once(b) /\ Lost(b)
  BY DEF IInv, KeepInv
<1>4. h \in Host /\ h = report[b][1] /\ 1 \in DOMAIN report[b] /\ h \in Reported(b)
  BY <1>1 DEF Reported
<1>5. /\ Reported(b)' = Reported(b) \ {h}
      /\ \A i, j \in DOMAIN report'[b] : report'[b][i] = report'[b][j] => i = j
  BY <1>1, <1>2, <1>3, HeadLeaves
<1> HIDE DEF h
<1>6. /\ Mailed(b)' = Mailed(b) \cup {h}
      /\ \A i, j \in DOMAIN mail'[b] :
           mail'[b][i].host = mail'[b][j].host => i = j \/ mail'[b][i].host = None
  <2>1. mail'[b] = Append(mail[b], Report(h)) /\ mail[b] \in Seq(Message) /\ Report(h).host = h
    BY <1>1, <1>2 DEF Report
  <2>2. \A i \in DOMAIN mail[b] : mail[b][i].host # h
    BY <1>3, <1>4 DEF Once, Mailed
  <2>3. Mailed(b)' = Mailed(b) \cup {h}
    <3> DEFINE m == Append(mail[b], Report(h))
    <3>1. /\ DOMAIN m = 1 .. Len(mail[b]) + 1 /\ DOMAIN mail[b] = 1 .. Len(mail[b])
          /\ Len(mail[b]) \in Nat
          /\ \A i \in DOMAIN mail[b] : m[i] = mail[b][i]
          /\ m[Len(mail[b]) + 1].host = h
      BY <2>1
    <3> HIDE DEF m
    <3>2. mail'[b] = m
      BY <2>1 DEF m
    <3> QED
      BY <1>4, <3>1, <3>2 DEF Mailed
  <2>4. ASSUME NEW i \in DOMAIN mail'[b], NEW j \in DOMAIN mail'[b],
               mail'[b][i].host = mail'[b][j].host
        PROVE  i = j \/ mail'[b][i].host = None
    BY <1>3, <2>1, <2>2, <2>4 DEF Once
  <2> QED
    BY <2>3, <2>4
<1>7. Loaded(b)' = Loaded(b) /\ Hand(b)' = Hand(b)
  BY <1>2 DEF Loaded, Hand, buddy
<1>8. Kept(b)' = Kept(b)
  BY <1>4, <1>5, <1>6, <1>7 DEF Kept
<1>9. Once(b)'
  BY <1>2, <1>3, <1>4, <1>5, <1>6, <1>7 DEF Once
<1>10. Lost(b)'
  BY <1>1, <1>2 DEF Lost, buddy
<1>11. Moves(b)
  BY <1>1, <1>2 DEF Moves, Same, lock, buddy
<1> QED
  BY <1>8, <1>9, <1>10, <1>11, MoveKeeps

LEMMA ReceiveKeeps ==
  ASSUME IInv, NEW b \in Crawler, Receive(b)
  PROVE  KeepInv' /\ TableInv'
<1> DEFINE m == Head(mail[b])
           h == m.host
<1>1. /\ mail \in [Crawler -> Seq(Message)] /\ pc \in [Crawler -> Place]
      /\ site \in [Crawler -> Host \cup {None}]
      /\ mail[b] \in Seq(Message) /\ mail[b] # << >> /\ pc[b] = "accept"
  BY DEF IInv, TInv, TypeOK, Receive, Place
<1>2. PICK d \in {"release", "finish", "check"} :
        pc' = [pc EXCEPT ![b] = d] /\ (d = "release" => m.cmd = "REPORT")
  BY DEF Receive, Goto
<1>3. /\ site' = [site EXCEPT ![b] = h]
      /\ mail' = [mail EXCEPT ![b] = Tail(@)]
      /\ UNCHANGED <<tables, lock, up, loaded, report, job>>
  BY DEF Receive, server
<1>4. Once(b) /\ Lost(b)
  BY DEF IInv, KeepInv
<1>5. m \in Message /\ m = mail[b][1] /\ 1 \in DOMAIN mail[b]
  BY <1>1
<1>6. h \in Host \cup {None} /\ (m.cmd = "REPORT" => h \in Host)
  BY <1>5 DEF Message, Report, Order
<1>7. /\ Mailed(b)' \subseteq Mailed(b) \ {h}
      /\ \A i, j \in DOMAIN mail'[b] :
           mail'[b][i].host = mail'[b][j].host => i = j \/ mail'[b][i].host = None
  <2>1. mail'[b] = Tail(mail[b])
    BY <1>1, <1>3
  <2>2. \A i \in DOMAIN mail'[b] :
          i \in Nat \ {0} /\ i + 1 \in DOMAIN mail[b] /\ mail'[b][i] = mail[b][i + 1]
    BY <1>1, <2>1
  <2>3. ASSUME NEW g \in Mailed(b)' PROVE g \in Mailed(b) /\ g # h
    <3>1. PICK i \in DOMAIN mail'[b] : mail'[b][i].host = g /\ g \in Host
      BY DEF Mailed
    <3>2. i + 1 \in DOMAIN mail[b] /\ mail[b][i + 1].host = g /\ i + 1 # 1
      BY <2>2, <3>1
    <3>3. g # None
      BY <3>1, HostAssumption
    <3> QED
      BY <1>4, <1>5, <3>1, <3>2, <3>3 DEF Mailed, Once
  <2>4. ASSUME NEW i \in DOMAIN mail'[b], NEW j \in DOMAIN mail'[b],
               mail'[b][i].host = mail'[b][j].host, mail'[b][i].host # None
        PROVE  i = j
    <3>1. i + 1 = j + 1
      BY <1>4, <2>2, <2>4 DEF Once
    <3> QED
      BY <2>2, <3>1
  <2> QED
    BY <2>3, <2>4
<1>8. Loaded(b)' = Loaded(b) /\ Reported(b)' = Reported(b)
  BY <1>3 DEF Loaded, Reported
<1>9. h \in Host => h \in Mailed(b)
  BY <1>5 DEF Mailed
<1> HIDE DEF h, m
<1>10. Hand(b)' \subseteq {h} \cap Host
  BY <1>1, <1>2, <1>3 DEF Hand
<1>11. Kept(b)' \subseteq Kept(b)
  BY <1>7, <1>8, <1>9, <1>10 DEF Kept
<1>12. Once(b)'
  BY <1>3, <1>4, <1>7, <1>8, <1>9, <1>10 DEF Once
<1>13. Lost(b)'
  BY <1>1, <1>2, <1>3, <1>4 DEF Lost
<1>14. Moves(b)
  BY <1>1, <1>2, <1>3 DEF Moves, Same, lock
<1> QED
  BY <1>11, <1>12, <1>13, <1>14, MoveKeeps

LEMMA OrderKeeps ==
  ASSUME IInv, NEW b \in Crawler, SendOrder(b)
  PROVE  KeepInv' /\ TableInv'
<1>1. /\ mail \in [Crawler -> Seq(Message)] /\ mail[b] \in Seq(Message) /\ pc[b] # "down"
  BY DEF IInv, TInv, TypeOK, SendOrder
<1>2. PICK c \in {"DIE", "STOPNEW", "CRAWLNEW"} : mail' = [mail EXCEPT ![b] = Append(@, Order(c))]
  BY DEF SendOrder
<1>3. UNCHANGED <<tables, lock, buddy, server, job>>
  BY DEF SendOrder
<1>4. Once(b) /\ Lost(b)
  BY DEF IInv, KeepInv
<1>5. Order(c).host = None /\ None \notin Host
  BY HostAssumption DEF Order
<1>6. /\ DOMAIN mail'[b] = 1 .. Len(mail[b]) + 1 /\ DOMAIN mail[b] = 1 .. Len(mail[b])
      /\ Len(mail[b]) \in Nat
      /\ \A i \in DOMAIN mail[b] : mail'[b][i] = mail[b][i]
      /\ mail'[b][Len(mail[b]) + 1].host = None
  BY <1>1, <1>2, <1>5
<1>7. Mailed(b)' = Mailed(b)
  BY <1>5, <1>6 DEF Mailed
<1>8. \A i, j \in DOMAIN mail'[b] :
        mail'[b][i].host = mail'[b][j].host => i = j \/ mail'[b][i].host = None
  BY <1>4, <1>6 DEF Once
<1>9. /\ Loaded(b)' = Loaded(b) /\ Reported(b)' = Reported(b) /\ Hand(b)' = Hand(b)
  BY <1>3 DEF Loaded, Reported, Hand, buddy, server
<1>10. Kept(b)' = Kept(b)
  BY <1>7, <1>9 DEF Kept
<1>11. Once(b)'
  BY <1>3, <1>4, <1>7, <1>8, <1>9 DEF Once, server
<1>12. Lost(b)'
  BY <1>1, <1>3, <1>4 DEF Lost, buddy, server
<1>13. Moves(b)
  BY <1>1, <1>2, <1>3 DEF Moves, Same, lock, buddy, server
<1> QED
  BY <1>10, <1>11, <1>12, <1>13, MoveKeeps
-----------------------------------------------------------------------------
(* The end of a process. *)

LEMMA EndKeeps ==
  ASSUME IInv, NEW b \in Crawler, Finish(b) \/ BuddyCrash(b) \/ ServerCrash(b) \/ KillOrphan(b)
  PROVE  KeepInv' /\ TableInv'
<1>1. /\ pc \in [Crawler -> Place] /\ site \in [Crawler -> Host \cup {None}]
      /\ mail \in [Crawler -> Seq(Message)] /\ up \in [Crawler -> BOOLEAN]
      /\ loaded \in [Crawler -> [Host -> Nat]] /\ report \in [Crawler -> Seq(Host)]
  BY DEF IInv, TInv, TypeOK, Place
<1>2. Once(b) /\ Lost(b)
  BY DEF IInv, KeepInv
<1>3. UNCHANGED <<tables, job>>
  BY DEF Finish, BuddyCrash, ServerCrash, KillOrphan
<1>4. \/ BuddyGone(b)
      \/ UNCHANGED <<lock, buddy, mail>>
  BY DEF Finish, BuddyCrash, ServerCrash, KillOrphan
<1>5. \/ ServerGone(b)
      \/ UNCHANGED server
  BY DEF Finish, BuddyCrash, ServerCrash, KillOrphan
<1>6. \/ /\ Mailed(b)' = {} /\ Hand(b)' = {} /\ mail'[b] = << >> /\ pc'[b] = "down"
      \/ /\ Mailed(b)' = Mailed(b) /\ Hand(b)' = Hand(b)
         /\ mail'[b] = mail[b] /\ pc'[b] = pc[b] /\ site'[b] = site[b] /\ holder' = holder
  BY <1>1, <1>4 DEF BuddyGone, Goto, Mailed, Hand, lock, buddy
<1>7. \/ /\ Loaded(b)' = {} /\ Reported(b)' = {}
         /\ loaded'[b] = Nothing /\ report'[b] = << >>
      \/ /\ Loaded(b)' = Loaded(b) /\ Reported(b)' = Reported(b)
         /\ loaded'[b] = loaded[b] /\ report'[b] = report[b] /\ up'[b] = up[b]
  BY <1>1, <1>5 DEF ServerGone, Nothing, Loaded, Reported, server
<1>8. Kept(b)' \subseteq Kept(b)
  BY <1>6, <1>7 DEF Kept
<1>9. Once(b)'
  <2>1. \A g \in Host : loaded'[b][g] <= 1
    BY <1>2, <1>7 DEF Once, Nothing
  <2>2. \A i, j \in DOMAIN report'[b] : report'[b][i] = report'[b][j] => i = j
    BY <1>2, <1>7 DEF Once
  <2>3. \A i, j \in DOMAIN mail'[b] :
          mail'[b][i].host = mail'[b][j].host => i = j \/ mail'[b][i].host = None
    BY <1>2, <1>6 DEF Once
  <2> QED
    BY <1>2, <1>6, <1>7, <2>1, <2>2, <2>3 DEF Once
<1>10. Lost(b)'
  BY <1>2, <1>6, <1>7 DEF Lost
<1>11. ASSUME NEW c \in Crawler \ {b} PROVE Same(c) /\ (holder = c => holder' = c)
  <2>1. pc'[c] = pc[c] /\ site'[c] = site[c] /\ mail'[c] = mail[c] /\ (holder = c => holder' = c)
    BY <1>1, <1>4 DEF BuddyGone, Goto, Freed, lock, buddy
  <2>2. up'[c] = up[c] /\ loaded'[c] = loaded[c] /\ report'[c] = report[c]
    BY <1>1, <1>5 DEF ServerGone, server
  <2> QED
    BY <2>1, <2>2 DEF Same
<1>12. Moves(b)
  BY <1>3, <1>6, <1>11 DEF Moves
<1> QED
  BY <1>8, <1>9, <1>10, <1>12, MoveKeeps

-----------------------------------------------------------------------------
(* Steps that change the tables. *)

LEMMA SelectKeeps ==
  ASSUME IInv, NEW b \in Crawler, Select(b)
  PROVE  KeepInv' /\ TableInv'
<1>1. pc \in [Crawler -> Place] /\ site \in [Crawler -> Host \cup {None}]
  BY DEF IInv, TInv, TypeOK, Place
<1>2. PICK h \in Eligible : site' = [site EXCEPT ![b] = h]
  BY DEF Select
<1>3. /\ pc[b] = "lock" /\ pc' = [pc EXCEPT ![b] = "claim"]
      /\ holder = None /\ holder' = b
      /\ UNCHANGED <<tables, server, mail, job>>
  BY DEF Select, Granted, Goto
<1>4. \A c \in Crawler : Hand(c)' = Hand(c)
  BY <1>1, <1>2, <1>3 DEF Hand
<1>5. ASSUME NEW c \in Crawler PROVE Once(c)' /\ HasRows(c)' /\ Lost(c)' /\ Kept(c)' = Kept(c)
  <2>1. /\ Loaded(c)' = Loaded(c) /\ Reported(c)' = Reported(c) /\ Mailed(c)' = Mailed(c)
    BY <1>3 DEF Loaded, Reported, Mailed, server
  <2>2. Once(c) /\ HasRows(c) /\ Lost(c)
    BY DEF IInv, KeepInv
  <2>3. Kept(c)' = Kept(c)
    BY <1>4, <2>1 DEF Kept
  <2>4. pc'[c] = "down" => pc[c] = "down"
    BY <1>1, <1>3
  <2> QED
    BY <1>3, <1>4, <2>1, <2>2, <2>3, <2>4 DEF Once, HasRows, Lost, tables, server
<1>6. ASSUME NEW c \in Crawler PROVE Claims(c)'
  <2>1. CASE c = b
    <3>1. /\ h \in uncrawled
          /\ \A g \in Host : crawling[g] # None => AddrOf[g] # AddrOf[h]
      BY DEF Eligible
    <3>2. site'[b] = h
      BY <1>1, <1>2
    <3> QED
      BY <1>3, <2>1, <3>1, <3>2 DEF Claims, tables
  <2>2. CASE c # b
    <3>1. pc[c] # "claim"
      BY <1>3, HostAssumption DEF IInv, TableInv, Claims
    <3> QED
      BY <1>1, <1>3, <2>2, <3>1 DEF Claims
  <2> QED
    BY <2>1, <2>2
<1>7. JobInv'
  BY <1>3, <1>5 DEF IInv, TableInv, JobInv, tables, NoJob
<1> QED
  BY <1>3, <1>5, <1>6, <1>7 DEF KeepInv, IInv, TableInv, OneTable, OneRowPerAddress, tables

LEMMA ClaimKeeps ==
  ASSUME IInv, NEW b \in Crawler, ClaimSite(b)
  PROVE  KeepInv' /\ TableInv'
<1> DEFINE h == site[b]
<1>1. /\ pc \in [Crawler -> Place] /\ crawling \in [Host -> Crawler \cup {None}]
      /\ h \in Host /\ pc[b] = "claim"
  BY DEF IInv, TInv, TypeOK, InHand, ClaimSite, Place
<1>2. /\ uncrawled' = uncrawled \ {h} /\ crawling' = [crawling EXCEPT ![h] = b]
      /\ pc' = [pc EXCEPT ![b] = "request"]
      /\ crawling[h] = None
      /\ UNCHANGED <<crawled, site, server, mail, job>>
  BY DEF ClaimSite, Goto
<1>3. /\ h \in uncrawled
      /\ \A g \in Host : crawling[g] # None => AddrOf[g] # AddrOf[h]
      /\ holder = b
  BY <1>1 DEF IInv, TableInv, Claims
<1>4. h \notin crawled
  BY <1>1, <1>3 DEF IInv, TableInv, OneTable
<1>5. None \notin Crawler
  BY HostAssumption
<1>6. \A c \in Crawler : h \notin Kept(c)
  BY <1>2, <1>5 DEF IInv, KeepInv, HasRows
<1>7. /\ Hand(b)' = {h} /\ Hand(b) = {}
      /\ \A c \in Crawler \ {b} : Hand(c)' = Hand(c)
  BY <1>1, <1>2 DEF Hand
<1>8. \A c \in Crawler : /\ Loaded(c)' = Loaded(c) /\ Reported(c)' = Reported(c)
                         /\ Mailed(c)' = Mailed(c)
  BY <1>2 DEF Loaded, Reported, Mailed, server
<1>9. Kept(b)' = Kept(b) \cup {h} /\ \A c \in Crawler \ {b} : Kept(c)' = Kept(c)
  BY <1>7, <1>8 DEF Kept
<1>10. ASSUME NEW c \in Crawler PROVE Once(c)' /\ HasRows(c)' /\ Lost(c)'
  <2>1. Once(c) /\ HasRows(c) /\ Lost(c)
    BY DEF IInv, KeepInv
  <2>2. Once(c)'
    <3>1. CASE c = b
      BY <1>2, <1>6, <1>7, <1>8, <2>1, <3>1 DEF Once, Kept, server
    <3>2. CASE c # b
      BY <1>2, <1>7, <1>8, <2>1, <3>2 DEF Once, server
    <3> QED
      BY <3>1, <3>2
  <2>3. HasRows(c)'
    BY <1>1, <1>2, <1>6, <1>9, <2>1 DEF HasRows
  <2>4. Lost(c)'
    BY <1>1, <1>2, <2>1 DEF Lost, server
  <2> QED
    BY <2>2, <2>3, <2>4
<1>11. ASSUME NEW c \in Crawler PROVE Claims(c)'
  <2>1. c # b => pc[c] # "claim"
    BY <1>3 DEF IInv, TableInv, Claims
  <2> QED
    BY <1>1, <1>2, <2>1 DEF Claims
<1>12. JobInv'
  <2>1. CASE job = NoJob
    BY <1>2, <2>1 DEF JobInv, NoJob
  <2>2. CASE job # NoJob
    <3>1. job.host # h
      BY <1>2, <1>4, <2>2 DEF IInv, TableInv, JobInv, TInv, TypeOK
    <3>2. job.host \in Host
      BY <2>2 DEF IInv, TInv, InHand
    <3> QED
      BY <1>1, <1>2, <1>9, <2>2, <3>1, <3>2 DEF IInv, TableInv, JobInv, NoJob
  <2> QED
    BY <2>1, <2>2
<1>13. OneTable'
  BY <1>1, <1>2, <1>4, <1>5 DEF IInv, TableInv, OneTable
<1>14. OneRowPerAddress'
  BY <1>1, <1>2, <1>3, <1>5 DEF IInv, TableInv, OneRowPerAddress
<1> QED
  BY <1>10, <1>11, <1>12, <1>13, <1>14 DEF KeepInv, TableInv
LEMMA ReleaseKeeps ==
  ASSUME IInv, NEW b \in Crawler, releasesite(b)
  PROVE  KeepInv' /\ TableInv'
<1> DEFINE h == site[b]
<1>1. /\ pc \in [Crawler -> Place] /\ crawling \in [Host -> Crawler \cup {None}]
      /\ site \in [Crawler -> Host \cup {None}]
      /\ h \in Host /\ pc[b] = "release" /\ h # None
  BY HostAssumption DEF IInv, TInv, TypeOK, InHand, releasesite, Place
<1>2. /\ crawling' = [crawling EXCEPT ![h] = None] /\ crawled' = crawled \cup {h}
      /\ pc' = [pc EXCEPT ![b] = "check"] /\ site' = [site EXCEPT ![b] = None]
      /\ job.host # h
      /\ UNCHANGED <<uncrawled, server, mail, job>>
  BY DEF releasesite, Goto
<1>3. \A c \in Crawler \ {b} : holder = c => holder' = c
  BY DEF releasesite, Freed
<1>4. h \in Hand(b) /\ crawling[h] = b
  BY <1>1 DEF Hand, Kept, IInv, KeepInv, HasRows
<1>5. None \notin Crawler
  BY HostAssumption
<1>6. h \notin uncrawled
  BY <1>1, <1>4, <1>5 DEF IInv, TableInv, OneTable
<1>7. Hand(b)' = {} /\ \A c \in Crawler \ {b} : Hand(c)' = Hand(c)
  BY <1>1, <1>2 DEF Hand
<1>8. \A c \in Crawler : /\ Loaded(c)' = Loaded(c) /\ Reported(c)' = Reported(c)
                         /\ Mailed(c)' = Mailed(c)
  BY <1>2 DEF Loaded, Reported, Mailed, server
<1>9. ASSUME NEW c \in Crawler
      PROVE  /\ Kept(c)' \subseteq Kept(c) \ {h}
             /\ Once(c)' /\ HasRows(c)' /\ Lost(c)'
  <2>1. Once(c) /\ HasRows(c) /\ Lost(c)
    BY DEF IInv, KeepInv
  <2>2. Kept(c)' \subseteq Kept(c) \ {h}
    <3>1. CASE c = b
      BY <1>4, <1>7, <1>8, <2>1, <3>1 DEF Kept, Once
    <3>2. CASE c # b
      BY <1>4, <1>7, <1>8, <2>1, <3>2 DEF Kept, HasRows
    <3> QED
      BY <3>1, <3>2
  <2>3. Once(c)'
    <3>1. Hand(c)' \subseteq Hand(c)
      BY <1>7
    <3> QED
      BY <1>2, <1>8, <2>1, <3>1 DEF Once, server
  <2>4. HasRows(c)'
    <3>1. Kept(c) \subseteq Host
      BY DEF Kept, Loaded, Reported, Mailed, Hand, IInv, TInv, TypeOK
    <3> QED
      BY <1>1, <1>2, <2>1, <2>2, <3>1 DEF HasRows
  <2>5. Lost(c)'
    BY <1>1, <1>2, <2>1 DEF Lost, server
  <2> QED
    BY <2>2, <2>3, <2>4, <2>5
<1>10. ASSUME NEW c \in Crawler PROVE Claims(c)'
  <2>1. SUFFICES ASSUME pc'[c] = "claim" PROVE Claims(c)'
    BY DEF Claims
  <2>2. c # b /\ pc[c] = "claim" /\ site'[c] = site[c]
    BY <1>1, <1>2, <2>1
  <2> QED
    BY <1>1, <1>2, <1>3, <2>2 DEF Claims, IInv, TableInv
<1>11. JobInv'
  <2>1. CASE job = NoJob
    BY <1>2, <2>1 DEF JobInv, NoJob
  <2>2. CASE job # NoJob
    <3>1. job.host \in Host
      BY <2>2 DEF IInv, TInv, InHand
    <3> QED
      BY <1>1, <1>2, <1>9, <2>2, <3>1 DEF IInv, TableInv, JobInv, NoJob
  <2> QED
    BY <2>1, <2>2
<1>12. OneTable'
  BY <1>1, <1>2, <1>6 DEF IInv, TableInv, OneTable
<1>13. OneRowPerAddress'
  BY <1>1, <1>2 DEF IInv, TableInv, OneRowPerAddress
<1> QED
  BY <1>9, <1>10, <1>11, <1>12, <1>13 DEF KeepInv, TableInv

\* A step that no crawler takes part in.
LEMMA Apart ==
  ASSUME IInv, NEW c \in Crawler, UNCHANGED <<buddy, server, mail>>
  PROVE  Kept(c)' = Kept(c) /\ Once(c)' /\ Lost(c)'
<1>1. Same(c)
  BY DEF Same, buddy, server
<1> QED
  BY <1>1, SameKept DEF IInv, KeepInv

LEMMA JobBeginKeeps ==
  ASSUME IInv, Careful, NEW h \in Host, UnrollBegin(h) \/ RetryBegin(h)
  PROVE  KeepInv' /\ TableInv'
<1>1. UNCHANGED <<tables, holder, buddy, server, mail>>
  BY DEF UnrollBegin, RetryBegin
<1>2. None \notin Crawler
  BY HostAssumption
<1>3. ASSUME NEW c \in Crawler PROVE HasRows(c)' /\ Claims(c)'
  BY <1>1, Apart DEF HasRows, Claims, IInv, KeepInv, TableInv, tables, buddy
<1>4. ASSUME NEW c \in Crawler PROVE h \notin Kept(c)
  <2>1. HasRows(c) /\ Lost(c)
    BY DEF IInv, KeepInv
  <2>2. CASE RetryBegin(h)
    <3>1. crawling[h] = None
      BY <2>2 DEF RetryBegin, IInv, TableInv, OneTable
    <3> QED
      BY <1>2, <2>1, <3>1 DEF HasRows
  <2>3. CASE UnrollBegin(h)
    <3>1. SUFFICES ASSUME c = crawling[h] PROVE h \notin Kept(c)
      BY <2>1 DEF HasRows
    <3>2. pc[c] = "down" /\ ~up[c]
      BY <2>3, <3>1 DEF UnrollBegin
    <3>3. Loaded(c) = {} /\ Reported(c) = {} /\ Mailed(c) = {} /\ Hand(c) = {}
      BY <2>1, <3>2 DEF Lost, Nothing, Loaded, Reported, Mailed, Hand
    <3> QED
      BY <3>3 DEF Kept
  <2> QED
    BY <2>2, <2>3
<1>5. JobInv'
  <2>1. /\ job'.host = h
        /\ job'.from = "crawled" => h \in crawled
        /\ job'.from = "crawling" => crawling[h] # None
    BY DEF UnrollBegin, RetryBegin
  <2> QED
    BY <1>1, <1>4, <2>1, Apart DEF JobInv, tables
<1> QED
  BY <1>1, <1>3, <1>5, Apart
     DEF KeepInv, TableInv, IInv, OneTable, OneRowPerAddress, tables

LEMMA JobCommitKeeps ==
  ASSUME IInv, JobCommit
  PROVE  KeepInv' /\ TableInv'
<1> DEFINE h == job.host
<1>1. /\ job # NoJob /\ job' = NoJob /\ holder = None
      /\ UNCHANGED <<holder, buddy, server, mail>>
  BY DEF JobCommit, Granted
<1>2. h \in Host /\ crawling \in [Host -> Crawler \cup {None}] /\ job.from \in {"crawling", "crawled"}
  BY <1>1 DEF IInv, TInv, InHand, TypeOK
<1>3. None \notin Crawler
  BY HostAssumption
<1>4. \A c \in Crawler : h \notin Kept(c)
  BY <1>1 DEF IInv, TableInv, JobInv
<1>5. h \notin uncrawled
  BY <1>1, <1>2 DEF IInv, TableInv, JobInv, OneTable
<1>6. /\ uncrawled' = uncrawled \cup {h}
      /\ \/ /\ job.from = "crawling"
            /\ crawling' = [crawling EXCEPT ![h] = None] /\ crawled' = crawled
         \/ /\ job.from = "crawled"
            /\ crawling' = crawling /\ crawled' = crawled \ {h}
  BY <1>2, <1>5 DEF JobCommit
<1>7. crawling'[h] = None /\ \A g \in Host \ {h} : crawling'[g] = crawling[g]
  BY <1>1, <1>2, <1>6 DEF IInv, TableInv, JobInv, OneTable
<1>8. h \notin crawled'
  BY <1>1, <1>2, <1>6 DEF IInv, TableInv, JobInv, OneTable
<1>9. ASSUME NEW c \in Crawler PROVE HasRows(c)' /\ Claims(c)'
  <2>1. Kept(c) \subseteq Host
    BY DEF Kept, Loaded, Reported, Mailed, Hand, IInv, TInv, TypeOK
  <2>2. HasRows(c)'
    BY <1>1, <1>4, <1>7, <2>1, Apart DEF HasRows, IInv, KeepInv
  <2>3. pc[c] # "claim"
    BY <1>1, <1>3 DEF IInv, TableInv, Claims
  <2> QED
    BY <1>1, <2>2, <2>3 DEF Claims, buddy
<1>10. OneTable'
  BY <1>5, <1>6, <1>7, <1>8 DEF IInv, TableInv, OneTable
<1>11. OneRowPerAddress'
  BY <1>7 DEF IInv, TableInv, OneRowPerAddress
<1> QED
  BY <1>1, <1>9, <1>10, <1>11, Apart DEF KeepInv, TableInv, JobInv

LEMMA StepKept == Careful /\ IInv /\ [Next]_vars => KeepInv' /\ TableInv'
<1> SUFFICES ASSUME Careful, IInv, [Next]_vars PROVE KeepInv' /\ TableInv'
  OBVIOUS
<1>1. CASE UNCHANGED vars
  <2>1. UNCHANGED <<tables, holder, buddy, server, mail, job>>
    BY <1>1 DEF vars, lock
  <2>2. \A c \in Crawler : HasRows(c)' /\ Claims(c)'
    BY <2>1, Apart DEF HasRows, Claims, IInv, KeepInv, TableInv, tables, buddy
  <2>3. JobInv'
    BY <2>1, Apart DEF JobInv, NoJob, IInv, TableInv, tables
  <2> QED
    BY <2>1, <2>2, <2>3, Apart
       DEF KeepInv, TableInv, IInv, OneTable, OneRowPerAddress, tables
<1>2. ASSUME NEW b \in Crawler, Getsite(b) PROVE KeepInv' /\ TableInv'
  BY <1>2, BuddyQuiet, SelectKeeps, ClaimKeeps, RequestKeeps DEF Getsite
<1>3. ASSUME NEW b \in Crawler, MainLoop(b) PROVE KeepInv' /\ TableInv'
  BY <1>3, BuddyQuiet, ReceiveKeeps, ReleaseKeeps, EndKeeps DEF MainLoop
<1>4. ASSUME NEW b \in Crawler, Server(b) \/ Crashes(b) PROVE KeepInv' /\ TableInv'
  BY <1>4, SendKeeps, DoneKeeps, EndKeeps, LoseKeeps DEF Server, Crashes
<1>5. CASE Operators
  BY <1>5, BuddyQuiet, OrderKeeps, EndKeeps, JobBeginKeeps, JobCommitKeeps DEF Operators
<1> QED
  BY <1>1, <1>2, <1>3, <1>4, <1>5 DEF Next, Buddy

LEMMA Invariance == ASSUME Careful PROVE Spec => []IInv
<1>1. Init => IInv
  BY InitTyped, InitKept DEF IInv
<1>2. IInv /\ [Next]_vars => IInv'
  BY StepTyped, StepKept DEF IInv
<1> QED
  BY <1>1, <1>2, PTL DEF Spec

\* Where operators are careful, a host is always in exactly one of the tables
\* uncrawled, crawling and crawled.
THEOREM TablesConsistent == ASSUME Careful PROVE Spec => []OneTable
<1>1. IInv => OneTable
  BY DEF IInv, TableInv
<1> QED
  BY <1>1, Invariance, PTL

\* Where operators are careful, no address is visited by two crawl servers, nor by
\* two crawls of one server.
THEOREM OneVisitor == ASSUME Careful PROVE Spec => []OneVisitorPerAddress
<1>1. IInv => OneVisitorPerAddress
  <2> SUFFICES ASSUME IInv, NEW b \in Crawler, NEW c \in Crawler, NEW g \in Host, NEW h \in Host,
                      loaded[b][g] > 0, loaded[c][h] > 0, AddrOf[g] = AddrOf[h]
               PROVE  b = c /\ g = h /\ loaded[b][g] = 1
    BY DEF OneVisitorPerAddress
  <2>1. crawling[g] = b /\ crawling[h] = c
    BY DEF IInv, KeepInv, HasRows, Kept, Loaded
  <2>2. g = h
    BY <2>1, HostAssumption DEF IInv, TableInv, OneRowPerAddress
  <2>3. loaded[b][g] <= 1 /\ loaded[b][g] \in Nat
    BY DEF IInv, KeepInv, Once, TInv, TypeOK
  <2> QED
    BY <2>1, <2>2, <2>3
<1> QED
  BY <1>1, Invariance, PTL
-----------------------------------------------------------------------------
(* The implementation of SiteTables.  (Its actions take constants: a host in a *)
(* variable is given a name first.)                                            *)

placeOf(h) == IF crawling[h] # None THEN crawling[h]
              ELSE IF h \in crawled THEN "crawled" ELSE "uncrawled"
place == [h \in Host |-> placeOf(h)]

LEMMA ClaimImplements ==
  ASSUME IInv, NEW b \in Crawler, ClaimSite(b), NEW h \in Host, h = site[b]
  PROVE  Tables!Claim(b, h)
<1>1. /\ h \in Host /\ crawling \in [Host -> Crawler \cup {None}] /\ pc[b] = "claim"
      /\ crawling' = [crawling EXCEPT ![h] = b] /\ crawled' = crawled
  BY DEF IInv, TInv, TypeOK, InHand, ClaimSite
<1>2. /\ crawling[h] = None /\ h \notin crawled
      /\ \A g \in Host : crawling[g] # None => AddrOf[g] # AddrOf[h]
  BY <1>1 DEF IInv, TableInv, Claims, OneTable
<1>3. placeOf(h) = "uncrawled"
  BY <1>2 DEF placeOf
<1>4. \A g \in Host : placeOf(g) \in Crawler => AddrOf[g] # AddrOf[h]
  BY <1>2, HostAssumption DEF placeOf
<1>5. place' = [place EXCEPT ![h] = b]
  BY <1>1, HostAssumption DEF place, placeOf
<1> QED
  BY <1>1, <1>3, <1>4, <1>5 DEF Tables!Claim, place, placeOf

LEMMA ReleaseImplements ==
  ASSUME IInv, NEW b \in Crawler, releasesite(b), NEW h \in Host, h = site[b]
  PROVE  Tables!Release(h)
<1>1. /\ h \in Host /\ crawling \in [Host -> Crawler \cup {None}] /\ pc[b] = "release"
      /\ crawling' = [crawling EXCEPT ![h] = None] /\ crawled' = crawled \cup {h}
  BY DEF IInv, TInv, TypeOK, InHand, releasesite
<1>2. crawling[h] = b
  BY <1>1 DEF IInv, KeepInv, HasRows, Kept, Hand
<1>3. placeOf(h) \in Crawler
  BY <1>2, HostAssumption DEF placeOf
<1>4. place' = [place EXCEPT ![h] = "crawled"]
  BY <1>1 DEF place, placeOf
<1> QED
  BY <1>1, <1>3, <1>4 DEF Tables!Release, place, placeOf

LEMMA JobImplements ==
  ASSUME IInv, JobCommit, NEW h \in Host, h = job.host
  PROVE  Tables!Restore(h)
<1>1. /\ h \in Host /\ crawling \in [Host -> Crawler \cup {None}] /\ job # NoJob
      /\ job.from \in {"crawling", "crawled"}
  BY DEF IInv, TInv, TypeOK, InHand, JobCommit
<1>2. /\ job.from = "crawled" => h \in crawled
      /\ job.from = "crawling" => crawling[h] # None
      /\ h \notin uncrawled
      /\ crawling[h] # None => h \notin crawled
  BY <1>1 DEF IInv, TableInv, JobInv, OneTable
<1>3. \/ crawling' = [crawling EXCEPT ![h] = None] /\ crawled' = crawled /\ job.from = "crawling"
      \/ crawling' = crawling /\ crawled' = crawled \ {h} /\ job.from = "crawled"
  BY <1>1, <1>2 DEF JobCommit
<1>4. placeOf(h) \in Crawler \cup {"crawled"}
  BY <1>1, <1>2 DEF placeOf
<1>5. place' = [place EXCEPT ![h] = "uncrawled"]
  BY <1>1, <1>2, <1>3 DEF place, placeOf
<1> QED
  BY <1>1, <1>4, <1>5 DEF Tables!Restore, place, placeOf

LEMMA StepImplements == IInv /\ [Next]_vars => [Tables!Next]_place
<1> SUFFICES ASSUME IInv, [Next]_vars PROVE Tables!Next \/ UNCHANGED place
  OBVIOUS
<1> USE DEF tables, lock, buddy, server
<1>1. CASE UNCHANGED tables
  BY <1>1 DEF place, placeOf
<1>2. CASE UNCHANGED vars
  BY <1>1, <1>2 DEF vars
<1>3. ASSUME NEW b \in Crawler, Buddy(b) PROVE Tables!Next \/ UNCHANGED tables
  <2>1. CASE ClaimSite(b)
    <3>1. site[b] \in Host
      BY <2>1 DEF IInv, TInv, InHand, ClaimSite
    <3>2. PICK h \in Host : h = site[b]
      BY <3>1
    <3>3. Tables!Claim(b, h)
      BY <2>1, <3>2, ClaimImplements
    <3> QED
      BY <3>3 DEF Tables!Next
  <2>2. CASE releasesite(b)
    <3>1. site[b] \in Host
      BY <2>2 DEF IInv, TInv, InHand, releasesite
    <3>2. PICK h \in Host : h = site[b]
      BY <3>1
    <3>3. Tables!Release(h)
      BY <2>2, <3>2, ReleaseImplements
    <3> QED
      BY <3>3 DEF Tables!Next
  <2>3. CASE \/ GetsiteBegin(b) \/ Select(b) \/ SelectNothing(b) \/ ClaimFails(b)
             \/ request_crawl(b)
    BY <2>3 DEF GetsiteBegin, Select, SelectNothing, ClaimFails, request_crawl
  <2>4. CASE \/ Timeout(b) \/ Receive(b) \/ ReleaseFails(b) \/ Check(b)
             \/ Want(b) \/ Idle(b) \/ Finish(b)
    BY <2>4 DEF Timeout, Receive, ReleaseFails, Check, Want, Idle, Finish
  <2> QED
    BY <1>3, <2>1, <2>2, <2>3, <2>4 DEF Buddy, Getsite, MainLoop
<1>4. ASSUME NEW b \in Crawler, Server(b) \/ Crashes(b) PROVE UNCHANGED tables
  BY <1>4 DEF Server, Crashes, SendReport, SiteDone, BuddyCrash, ServerCrash, LoseReport
<1>5. CASE Operators
  <2>1. CASE JobCommit
    <3>1. job.host \in Host
      BY <2>1 DEF IInv, TInv, InHand, JobCommit
    <3>2. PICK h \in Host : h = job.host
      BY <3>1
    <3>3. Tables!Restore(h)
      BY <2>1, <3>2, JobImplements
    <3> QED
      BY <3>3 DEF Tables!Next
  <2>2. CASE ~JobCommit
    BY <1>1, <1>5, <2>2
       DEF Operators, Start, SendOrder, KillOrphan, UnrollBegin, RetryBegin
  <2> QED
    BY <2>1, <2>2
<1> QED
  BY <1>1, <1>2, <1>3, <1>4, <1>5 DEF Next

\* Where operators are careful, the buddies, their servers and the scripts together do to
\* the tables what SiteTables allows: a claim of a host that waits at a free address, a
\* release of a claimed host, a return to the hosts that wait.
THEOREM TablesRefined == ASSUME Careful PROVE Spec => ImplementsSiteTables
<1>1. Init => Tables!Init
  BY DEF Init, Tables!Init
<1>2. IInv /\ [Next]_vars => [Tables!Next]_place
  BY StepImplements
<1> QED
  BY <1>1, <1>2, Invariance, PTL DEF Spec, ImplementsSiteTables, Tables!Spec, place, placeOf
=============================================================================
