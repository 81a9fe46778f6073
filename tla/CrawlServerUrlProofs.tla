------------------------ MODULE CrawlServerUrlProofs ------------------------
(***************************************************************************)
(* The URLs of a site: each is known, waits or is in flight once, so that  *)
(* the counters of an entry add up, and no seed brings in more than its    *)
(* bound (UrlInOnePlace, Accounting, PerSeedBound); and what the steps do  *)
(* to them as the site sees it: OnlyRetriesGoOut, and the refinement of    *)
(* UrlLifecycle.                                                           *)
(***************************************************************************)
EXTENDS CrawlServerProofs

HashAt(e, i) == Hash[e.urls_to_crawl[i].u]
Todo(e) == { HashAt(e, i) : i \in DOMAIN e.urls_to_crawl }

\* What waits in an entry waits once and has been recorded as seen.
Known(e) ==
  /\ \A i, j \in DOMAIN e.urls_to_crawl : HashAt(e, i) = HashAt(e, j) => i = j
  /\ Todo(e) \subseteq e.urls_seen

Key(s) == Hash[UrlOf(s)]

\* The queues that SUSPEND returned are as good as those of the table, for LOAD
\* brings them back.
QueuesKnown ==
  (\A q \in Queues : Known(queue_info_table[q])) /\ \A r \in saved : Known(r.info)
FlightsKnown ==
  \A s \in LiveSlots :
    LET q == request_info_table[s].queue_entry
    IN  /\ Key(s) \in queue_info_table[q].urls_seen \ Todo(queue_info_table[q])
        /\ \A t \in LiveSlots :
             request_info_table[t].queue_entry = q /\ Key(t) = Key(s) => t = s

UrlInv == QueuesKnown /\ FlightsKnown

-----------------------------------------------------------------------------
(* The operators of url_queue *)

LEMMA PushKnown ==
  ASSUME NEW e \in QueueInfo, NEW info \in UrlInfo, Known(e), Hash[info.u] \notin e.urls_seen
  PROVE  /\ Known(push_url(e, info))
         /\ Todo(push_url(e, info)) = Todo(e) \cup {Hash[info.u]}
         /\ push_url(e, info).urls_seen = e.urls_seen \cup {Hash[info.u]}
<1> DEFINE d == push_url(e, info)
           h == Hash[info.u]
           old == e.urls_to_crawl
<1>1. d.urls_to_crawl = Append(old, info) /\ d.urls_seen = e.urls_seen \cup {h}
  BY DEF push_url, QueueInfo
<1>2. old \in Seq(UrlInfo)
  BY FieldTypes
<1>3. /\ Len(Append(old, info)) = Len(old) + 1 /\ Len(old) \in Nat
      /\ \A i \in 1 .. Len(old) : Append(old, info)[i] = old[i]
      /\ Append(old, info)[Len(old) + 1] = info
      /\ DOMAIN old = 1 .. Len(old) /\ DOMAIN Append(old, info) = 1 .. Len(old) + 1
  BY <1>2
<1> HIDE DEF d
<1>4. /\ \A i \in 1 .. Len(old) : HashAt(d, i) = HashAt(e, i)
      /\ HashAt(d, Len(old) + 1) = h
      /\ DOMAIN d.urls_to_crawl = 1 .. Len(old) + 1 /\ DOMAIN e.urls_to_crawl = 1 .. Len(old)
  BY <1>1, <1>3 DEF HashAt
<1> HIDE DEF old, h
<1>5. Todo(d) = Todo(e) \cup {h}
  <2>1. ASSUME NEW k \in Todo(d) PROVE k \in Todo(e) \cup {h}
    <3>1. PICK i \in 1 .. Len(old) + 1 : k = HashAt(d, i)
      BY <1>4, <2>1 DEF Todo
    <3>2. i \in 1 .. Len(old) \/ i = Len(old) + 1
      BY <1>3, <3>1
    <3> QED
      BY <1>4, <3>1, <3>2 DEF Todo
  <2>2. Todo(e) \subseteq Todo(d)
    <3>1. 1 .. Len(old) \subseteq 1 .. Len(old) + 1
      BY <1>3
    <3> QED
      BY <1>4, <3>1 DEF Todo
  <2>3. h \in Todo(d)
    <3>1. Len(old) + 1 \in 1 .. Len(old) + 1
      BY <1>3
    <3> QED
      BY <1>4, <3>1 DEF Todo
  <2> QED
    BY <2>1, <2>2, <2>3
<1>6. h \notin Todo(e)
  BY DEF Known, h
<1>7. ASSUME NEW i \in 1 .. Len(old) + 1, NEW j \in 1 .. Len(old) + 1, HashAt(d, i) = HashAt(d, j)
      PROVE  i = j
  <2>1. \A n \in 1 .. Len(old) : HashAt(d, n) = HashAt(e, n) /\ HashAt(e, n) # h
    BY <1>4, <1>6 DEF Todo
  <2>2. \A n \in 1 .. Len(old) + 1 : n \in 1 .. Len(old) \/ n = Len(old) + 1
    BY <1>3
  <2> QED
    BY <1>4, <1>7, <2>1, <2>2 DEF Known
<1> QED
  BY <1>1, <1>4, <1>5, <1>7 DEF Known, d, h

LEMMA PopKnown ==
  ASSUME NEW e \in QueueInfo, Known(e), e.urls_to_crawl # << >>
  PROVE  /\ Known(pop_url(e))
         /\ Todo(pop_url(e)) = Todo(e) \ {Hash[Head(e.urls_to_crawl).u]}
         /\ Hash[Head(e.urls_to_crawl).u] \in Todo(e)
         /\ pop_url(e).urls_seen = e.urls_seen
<1> DEFINE d == pop_url(e)
           h == Hash[Head(e.urls_to_crawl).u]
           old == e.urls_to_crawl
<1>1. d.urls_to_crawl = Tail(old) /\ d.urls_seen = e.urls_seen
  BY DEF pop_url, QueueInfo
<1>2. old \in Seq(UrlInfo)
  BY FieldTypes
<1>3. /\ Len(old) \in Nat /\ Len(old) >= 1 /\ Head(old) = old[1]
      /\ \A i \in 1 .. Len(old) - 1 : Tail(old)[i] = old[i + 1]
      /\ DOMAIN old = 1 .. Len(old) /\ DOMAIN Tail(old) = 1 .. Len(old) - 1
  BY <1>2
<1> HIDE DEF d
<1>4. /\ \A i \in 1 .. Len(old) - 1 : HashAt(d, i) = HashAt(e, i + 1)
      /\ h = HashAt(e, 1)
      /\ DOMAIN d.urls_to_crawl = 1 .. Len(old) - 1 /\ DOMAIN e.urls_to_crawl = 1 .. Len(old)
  BY <1>1, <1>3 DEF HashAt
<1> HIDE DEF old, h
<1>5. \A i, j \in 1 .. Len(old) : HashAt(e, i) = HashAt(e, j) => i = j
  BY <1>4 DEF Known
<1>6. \A i \in 1 .. Len(old) - 1 : i + 1 \in 1 .. Len(old) /\ i + 1 # 1
  BY <1>3
<1>7. ASSUME NEW i \in 1 .. Len(old) - 1, NEW j \in 1 .. Len(old) - 1, HashAt(d, i) = HashAt(d, j)
      PROVE  i = j
  <2>1. HashAt(e, i + 1) = HashAt(e, j + 1)
    BY <1>4, <1>7
  <2>2. i + 1 = j + 1
    BY <1>5, <1>6, <2>1
  <2> QED
    BY <2>2
<1>8. 1 \in 1 .. Len(old)
  BY <1>3
<1>9. Todo(d) = Todo(e) \ {h}
  <2>1. ASSUME NEW k \in Todo(d) PROVE k \in Todo(e) /\ k # h
    <3>1. PICK i \in 1 .. Len(old) - 1 : k = HashAt(d, i)
      BY <1>4, <2>1 DEF Todo
    <3>2. k = HashAt(e, i + 1)
      BY <1>4, <3>1
    <3> QED
      BY <1>4, <1>5, <1>6, <1>8, <3>2 DEF Todo
  <2>2. ASSUME NEW k \in Todo(e), k # h PROVE k \in Todo(d)
    <3>1. PICK i \in 1 .. Len(old) : k = HashAt(e, i)
      BY <1>4, <2>2 DEF Todo
    <3>2. i # 1
      BY <1>4, <2>2, <3>1
    <3>3. i - 1 \in 1 .. Len(old) - 1 /\ (i - 1) + 1 = i
      BY <1>3, <3>1, <3>2
    <3>4. k = HashAt(d, i - 1)
      BY <1>4, <3>1, <3>3
    <3> QED
      BY <1>4, <3>3, <3>4 DEF Todo
  <2> QED
    BY <2>1, <2>2
<1>10. h \in Todo(e)
  BY <1>4, <1>8 DEF Todo
<1> QED
  BY <1>1, <1>4, <1>7, <1>9, <1>10 DEF Known, d, h

\* Entries that differ in counters only hold the same URLs.
LEMMA SameUrls ==
  ASSUME NEW d, NEW e, d.urls_to_crawl = e.urls_to_crawl, d.urls_seen = e.urls_seen, Known(e)
  PROVE  Known(d) /\ Todo(d) = Todo(e)
BY DEF Known, Todo, HashAt

LEMMA OfferedKnown ==
  ASSUME NEW e \in QueueInfo, NEW info \in UrlInfo, NEW verdict, Known(e)
  PROVE  LET d == Offered(e, info, verdict)
         IN  /\ Known(d)
             /\ \/ Todo(d) = Todo(e) /\ d.urls_seen = e.urls_seen
                \/ \E k \in HashValue \ e.urls_seen :
                     Todo(d) = Todo(e) \cup {k} /\ d.urls_seen = e.urls_seen \cup {k}
<1>1. Hash[info.u] \in HashValue
  BY UrlAssumption DEF UrlInfo
<1>2. CASE verdict = "ok" /\ Hash[info.u] \notin e.urls_seen
  <2> DEFINE d == push_url(e, info)
             c == [d EXCEPT !.url_count_per_seed[info.seed_id] = @ + 1]
  <2>1. d \in QueueInfo /\ Known(d)
    BY <1>2, PushType, PushKnown
  <2>2. c.urls_to_crawl = d.urls_to_crawl /\ c.urls_seen = d.urls_seen
    <3> HIDE DEF d
    <3> QED
      BY <2>1 DEF QueueInfo
  <2>3. Known(c) /\ Todo(c) = Todo(d)
    BY <2>1, <2>2, SameUrls
  <2>4. Offered(e, info, verdict) = c
    BY <1>2 DEF Offered
  <2>5. Todo(d) = Todo(e) \cup {Hash[info.u]} /\ d.urls_seen = e.urls_seen \cup {Hash[info.u]}
    BY <1>2, PushKnown
  <2> HIDE DEF c, d
  <2> QED
    BY <1>1, <1>2, <2>2, <2>3, <2>4, <2>5
<1>3. CASE ~(verdict = "ok" /\ Hash[info.u] \notin e.urls_seen)
  <2>1. /\ Offered(e, info, verdict).urls_to_crawl = e.urls_to_crawl
        /\ Offered(e, info, verdict).urls_seen = e.urls_seen
    BY <1>3 DEF Offered, push_url, QueueInfo
  <2> QED
    BY <2>1, SameUrls
<1> QED
  BY <1>2, <1>3

-----------------------------------------------------------------------------
(* UrlInOnePlace *)

LEMMA LiveEntry ==
  ASSUME TInv, NEW s \in LiveSlots
  PROVE  s \in Slot /\ request_info_table[s].queue_entry \in Queues
BY RequestContext DEF LiveSlots, Live

\* The entries may record more URLs, the requests stay.
LEMMA FlightsStay ==
  ASSUME TInv, UrlInv, SameRequests,
         \A p \in Queues :
           /\ queue_info_table[p].urls_seen \subseteq queue_info_table'[p].urls_seen
           /\ Todo(queue_info_table'[p]) \cap queue_info_table[p].urls_seen
                \subseteq Todo(queue_info_table[p])
  PROVE  FlightsKnown'
<1>1. ASSUME NEW s \in LiveSlots
      PROVE  /\ Key(s)' = Key(s)
             /\ request_info_table'[s].queue_entry = request_info_table[s].queue_entry
  BY DEF SameRequests, Carries, Key
<1>2. LiveSlots' = LiveSlots
  BY DEF SameRequests, Requests
<1>3. ASSUME NEW s \in LiveSlots
      PROVE  Key(s) \in queue_info_table'[request_info_table[s].queue_entry].urls_seen
                          \ Todo(queue_info_table'[request_info_table[s].queue_entry])
  BY LiveEntry DEF UrlInv, FlightsKnown
<1>4. ASSUME NEW s \in LiveSlots, NEW t \in LiveSlots,
             request_info_table[t].queue_entry = request_info_table[s].queue_entry,
             Key(t) = Key(s)
      PROVE  t = s
  BY <1>4 DEF UrlInv, FlightsKnown
<1> QED
  BY <1>1, <1>2, <1>3, <1>4 DEF FlightsKnown

LEMMA QueuesStay ==
  ASSUME UrlInv, UNCHANGED saved, \A p \in Queues : Known(queue_info_table'[p])
  PROVE  QueuesKnown'
BY DEF QueuesKnown, UrlInv, Known, Todo, HashAt

LEMMA OneQueueKnown ==
  ASSUME UrlInv, NEW q \in Queues, NEW d, Becomes(q, d), Known(d)
  PROVE  \A p \in Queues : Known(queue_info_table'[p])
BY DEF UrlInv, QueuesKnown, Becomes

LEMMA RestsUrls == ASSUME TInv, UrlInv, Rests PROVE UrlInv'
<1>1. ASSUME NEW p \in Queues
      PROVE  /\ Known(queue_info_table'[p])
             /\ Todo(queue_info_table'[p]) = Todo(queue_info_table[p])
             /\ queue_info_table'[p].urls_seen = queue_info_table[p].urls_seen
  <2>1. Recounted(queue_info_table'[p], queue_info_table[p], 0)
    BY DEF Rests
  <2>2. Known(queue_info_table[p])
    BY DEF UrlInv, QueuesKnown
  <2> QED
    BY <2>1, <2>2, SameUrls DEF Recounted
<1>2. FlightsKnown'
  BY <1>1, FlightsStay DEF Rests
<1> QED
  BY <1>1, <1>2, QueuesStay DEF UrlInv, Rests, SameSites

LEMMA OffersUrls ==
  ASSUME TInv, UrlInv, NEW s \in Slot, NEW info \in UrlInfo, NEW verdict, Offers(s, info, verdict)
  PROVE  UrlInv'
<1>1. PICK q \in Queues : q = request_info_table[s].queue_entry
  BY RequestContext DEF Offers, LiveSlots, Live
<1> DEFINE e == queue_info_table[q]
           d == Offered(e, info, verdict)
<1>2. SameRequests /\ SameSites /\ Becomes(q, d)
  BY <1>1 DEF Offers
<1>3. e \in QueueInfo /\ Known(e)
  BY Typing DEF UrlInv, QueuesKnown
<1>4. /\ Known(d) /\ e.urls_seen \subseteq d.urls_seen
      /\ Todo(d) \cap e.urls_seen \subseteq Todo(e)
  BY <1>3, OfferedKnown
<1> HIDE DEF d
<1>5. FlightsKnown'
  BY <1>2, <1>4, FlightsStay DEF Becomes
<1>6. QueuesKnown'
  BY <1>2, <1>4, OneQueueKnown, QueuesStay DEF SameSites
<1> QED
  BY <1>5, <1>6 DEF UrlInv

LEMMA EndsUrls == ASSUME TInv, UrlInv, NEW s \in Slot, Ends(s) PROVE UrlInv'
<1>1. PICK q \in Queues : q = request_info_table[s].queue_entry
  BY RequestContext DEF Ends, LiveSlots, Live
<1>2. PICK d \in QueueInfo : Recounted(d, queue_info_table[q], -1) /\ Becomes(q, d)
  BY <1>1 DEF Ends
<1>3. Known(queue_info_table[q])
  BY DEF UrlInv, QueuesKnown
<1>4. /\ Known(d) /\ Todo(d) = Todo(queue_info_table[q])
      /\ d.urls_seen = queue_info_table[q].urls_seen
  BY <1>2, <1>3, SameUrls DEF Recounted
<1>5. LiveSlots' = LiveSlots \ {s} /\ \A x \in LiveSlots \ {s} : Carries(x, x)
  BY DEF Ends, Requests
<1>6. \A p \in Queues : /\ queue_info_table'[p].urls_seen = queue_info_table[p].urls_seen
                        /\ Todo(queue_info_table'[p]) = Todo(queue_info_table[p])
  BY <1>2, <1>4 DEF Becomes
<1>7. FlightsKnown'
  <2>1. ASSUME NEW x \in LiveSlots \ {s}
        PROVE  /\ Key(x)' = Key(x)
               /\ request_info_table'[x].queue_entry = request_info_table[x].queue_entry
               /\ request_info_table[x].queue_entry \in Queues
    BY <1>5, LiveEntry DEF Carries, Key
  <2> QED
    BY <1>5, <1>6, <2>1 DEF FlightsKnown, UrlInv
<1>8. QueuesKnown'
  BY <1>2, <1>4, OneQueueKnown, QueuesStay DEF Ends, SameSites
<1> QED
  BY <1>7, <1>8 DEF UrlInv

LEMMA ResumesUrls ==
  ASSUME TInv, UrlInv, NEW s \in Slot, NEW s2 \in Slot, NEW f2 \in FmSlot, Resumes(s, s2, f2)
  PROVE  UrlInv'
<1>1. PICK q \in Queues : q = request_info_table[s].queue_entry
  BY RequestContext DEF Resumes, LiveSlots, Live
<1>2. PICK d \in QueueInfo : Recounted(d, queue_info_table[q], 0) /\ Becomes(q, d)
  BY <1>1 DEF Resumes
<1>3. Known(queue_info_table[q])
  BY DEF UrlInv, QueuesKnown
<1>4. /\ Known(d) /\ Todo(d) = Todo(queue_info_table[q])
      /\ d.urls_seen = queue_info_table[q].urls_seen
  BY <1>2, <1>3, SameUrls DEF Recounted
<1>5. /\ LiveSlots' = (LiveSlots \ {s}) \cup {s2} /\ s2 \notin LiveSlots \ {s}
      /\ s \in LiveSlots
      /\ \A x \in LiveSlots \ {s} : Carries(x, x)
      /\ Carries(s2, s)
  BY DEF Resumes, Requests
<1>6. \A p \in Queues : /\ queue_info_table'[p].urls_seen = queue_info_table[p].urls_seen
                        /\ Todo(queue_info_table'[p]) = Todo(queue_info_table[p])
  BY <1>2, <1>4 DEF Becomes
<1>7. FlightsKnown'
  <2>1. ASSUME NEW x \in LiveSlots \ {s}
        PROVE  /\ Key(x)' = Key(x)
               /\ request_info_table'[x].queue_entry = request_info_table[x].queue_entry
               /\ request_info_table[x].queue_entry \in Queues
    BY <1>5, LiveEntry DEF Carries, Key
  <2>2. /\ Key(s2)' = Key(s)
        /\ request_info_table'[s2].queue_entry = q
    BY <1>1, <1>5 DEF Carries, Key
  <2>3. ASSUME NEW x \in LiveSlots'
        PROVE  Key(x)' \in queue_info_table'[request_info_table'[x].queue_entry].urls_seen
                             \ Todo(queue_info_table'[request_info_table'[x].queue_entry])
    <3>1. CASE x = s2
      BY <1>1, <1>5, <1>6, <2>2, <3>1 DEF FlightsKnown, UrlInv
    <3>2. CASE x # s2
      BY <1>5, <1>6, <2>1, <3>2 DEF FlightsKnown, UrlInv
    <3> QED
      BY <3>1, <3>2
  <2>4. ASSUME NEW x \in LiveSlots', NEW y \in LiveSlots',
               request_info_table'[x].queue_entry = request_info_table'[y].queue_entry,
               Key(x)' = Key(y)'
        PROVE  x = y
    <3>1. CASE x # s2 /\ y # s2
      BY <1>5, <2>1, <2>4, <3>1 DEF FlightsKnown, UrlInv
    <3>2. CASE x = s2 /\ y # s2
      <4>1. request_info_table[y].queue_entry = q /\ Key(y) = Key(s)
        BY <1>5, <2>1, <2>2, <2>4, <3>2
      <4> QED
        BY <1>1, <1>5, <3>2, <4>1 DEF FlightsKnown, UrlInv
    <3>3. CASE x # s2 /\ y = s2
      <4>1. request_info_table[x].queue_entry = q /\ Key(x) = Key(s)
        BY <1>5, <2>1, <2>2, <2>4, <3>3
      <4> QED
        BY <1>1, <1>5, <3>3, <4>1 DEF FlightsKnown, UrlInv
    <3> QED
      BY <3>1, <3>2, <3>3
  <2> QED
    BY <2>3, <2>4 DEF FlightsKnown
<1>8. QueuesKnown'
  BY <1>2, <1>4, OneQueueKnown, QueuesStay DEF Resumes, SameSites
<1> QED
  BY <1>7, <1>8 DEF UrlInv

\* The first URL of an entry leaves it.
LEMMA PoppedUrls ==
  ASSUME TInv, UrlInv, NEW q \in Queues, IsReady(queue_info_table[q]),
         NEW d, NEW n, Recounted(d, pop_url(queue_info_table[q]), n), Becomes(q, d)
  PROVE  LET e == queue_info_table[q]
             h == Hash[Head(e.urls_to_crawl).u]
         IN  /\ Known(d) /\ h \in Todo(e) /\ h \in HashValue
             /\ Todo(d) = Todo(e) \ {h} /\ d.urls_seen = e.urls_seen
             /\ \A p \in Queues : Known(queue_info_table'[p])
<1> DEFINE e == queue_info_table[q]
           h == Hash[Head(e.urls_to_crawl).u]
<1>1. e \in QueueInfo /\ Known(e) /\ e.urls_to_crawl # << >>
  BY Typing DEF UrlInv, QueuesKnown, IsReady
<1>2. /\ Known(pop_url(e)) /\ Todo(pop_url(e)) = Todo(e) \ {h} /\ h \in Todo(e)
      /\ pop_url(e).urls_seen = e.urls_seen
  BY <1>1, PopKnown
<1>3. Known(d) /\ Todo(d) = Todo(pop_url(e)) /\ d.urls_seen = pop_url(e).urls_seen
  <2>1. /\ d.urls_to_crawl = pop_url(e).urls_to_crawl
        /\ d.urls_seen = pop_url(e).urls_seen
    BY DEF Recounted
  <2> QED
    BY <1>2, <2>1, SameUrls
<1>4. h \in HashValue
  BY <1>1, <1>2, FieldTypes DEF Known
<1>5. \A p \in Queues : Known(queue_info_table'[p])
  BY <1>3, OneQueueKnown
<1> QED
  BY <1>2, <1>3, <1>4, <1>5

LEMMA LosesUrls == ASSUME TInv, UrlInv, NEW q \in Queues, Loses(q) PROVE UrlInv'
<1> DEFINE e == queue_info_table[q]
<1>1. PICK d \in QueueInfo : Recounted(d, pop_url(e), 0) /\ Becomes(q, d)
  BY DEF Loses
<1>2. /\ Todo(d) \subseteq Todo(e) /\ d.urls_seen = e.urls_seen
      /\ \A p \in Queues : Known(queue_info_table'[p])
  BY <1>1, PoppedUrls DEF Loses
<1>3. FlightsKnown'
  BY <1>1, <1>2, FlightsStay DEF Loses, Becomes
<1> QED
  BY <1>2, <1>3, QueuesStay DEF UrlInv, Loses, SameSites

LEMMA LaunchesUrls ==
  ASSUME TInv, UrlInv, NEW q \in Queues, NEW s \in Slot, NEW f \in FmSlot, Launches(q, s, f)
  PROVE  UrlInv'
<1> DEFINE e == queue_info_table[q]
           h == Hash[Head(e.urls_to_crawl).u]
<1>1. PICK d \in QueueInfo : Recounted(d, pop_url(e), 1) /\ Becomes(q, d)
  BY DEF Launches
<1>2. /\ h \in Todo(e) /\ Todo(d) = Todo(e) \ {h} /\ d.urls_seen = e.urls_seen
      /\ \A p \in Queues : Known(queue_info_table'[p])
  BY <1>1, PoppedUrls DEF Launches
<1>3. /\ LiveSlots' = LiveSlots \cup {s} /\ s \notin LiveSlots
      /\ request_info_table'[s].queue_entry = q /\ Key(s)' = h
  BY DEF Launches, Requests, Key
<1>4. ASSUME NEW x \in LiveSlots
      PROVE  /\ Key(x)' = Key(x)
             /\ request_info_table'[x].queue_entry = request_info_table[x].queue_entry
             /\ request_info_table[x].queue_entry \in Queues
  BY LiveEntry DEF Launches, Carries, Key
<1>5. Todo(e) \subseteq e.urls_seen
  BY DEF UrlInv, QueuesKnown, Known
<1> HIDE DEF h
<1>6. FlightsKnown'
  <2>1. ASSUME NEW x \in LiveSlots'
        PROVE  Key(x)' \in queue_info_table'[request_info_table'[x].queue_entry].urls_seen
                             \ Todo(queue_info_table'[request_info_table'[x].queue_entry])
    <3>1. CASE x = s
      BY <1>1, <1>2, <1>3, <1>5, <3>1 DEF Becomes
    <3>2. CASE x # s
      <4>1. x \in LiveSlots
        BY <1>3, <3>2
      <4>2. PICK p \in Queues : p = request_info_table[x].queue_entry
        BY <1>4, <4>1
      <4>3. Key(x) \in queue_info_table[p].urls_seen \ Todo(queue_info_table[p])
        BY <4>1, <4>2 DEF UrlInv, FlightsKnown
      <4>4. /\ queue_info_table'[p].urls_seen = queue_info_table[p].urls_seen
            /\ Todo(queue_info_table'[p]) \subseteq Todo(queue_info_table[p])
        BY <1>1, <1>2 DEF Becomes
      <4> QED
        BY <1>4, <4>1, <4>2, <4>3, <4>4
    <3> QED
      BY <3>1, <3>2
  <2>2. ASSUME NEW x \in LiveSlots, request_info_table[x].queue_entry = q
        PROVE  Key(x) # h
    BY <1>2, <2>2 DEF UrlInv, FlightsKnown
  <2>3. ASSUME NEW x \in LiveSlots', NEW y \in LiveSlots',
               request_info_table'[x].queue_entry = request_info_table'[y].queue_entry,
               Key(x)' = Key(y)'
        PROVE  x = y
    <3>1. CASE x \in LiveSlots /\ y \in LiveSlots
      BY <1>4, <2>3, <3>1 DEF UrlInv, FlightsKnown
    <3>2. CASE x \in LiveSlots /\ y = s
      BY <1>3, <1>4, <2>2, <2>3, <3>2
    <3>3. CASE x = s /\ y \in LiveSlots
      BY <1>3, <1>4, <2>2, <2>3, <3>3
    <3> QED
      BY <1>3, <3>1, <3>2, <3>3
  <2> QED
    BY <2>1, <2>3 DEF FlightsKnown
<1> QED
  BY <1>2, <1>6, QueuesStay DEF UrlInv, Launches, SameSites

\* Pushing a URL that is recorded already changes nothing.
LEMMA PushedKnown ==
  ASSUME NEW e \in QueueInfo, NEW info \in UrlInfo, Known(e)
  PROVE  Known(push_url(e, info))
<1>1. CASE Hash[info.u] \in e.urls_seen
  BY <1>1 DEF push_url
<1>2. CASE Hash[info.u] \notin e.urls_seen
  BY <1>2, PushKnown
<1> QED
  BY <1>1, <1>2

LEMMA EmptyKnown ==
  ASSUME NEW e, e.urls_to_crawl = << >>
  PROVE  Known(e) /\ Todo(e) = {}
<1>1. DOMAIN e.urls_to_crawl = {}
  OBVIOUS
<1> QED
  BY <1>1 DEF Known, Todo

LEMMA NewQueueKnown ==
  ASSUME NEW s \in Site
  PROVE  Known(NewQueue(s))
<1> DEFINE e == [EmptyQueue EXCEPT !.site = s]
           robots == [u |-> Robots[s], seed_id |-> 0, level |-> 0]
           home == [u |-> Home[s], seed_id |-> 1, level |-> 0]
<1>1. e \in QueueInfo
  BY EmptyType, SetField
<1>2. robots \in UrlInfo /\ home \in UrlInfo
  BY UrlAssumption DEF UrlInfo, SeedId
<1>3. Known(e)
  BY EmptyKnown DEF EmptyQueue
<1>4. NewQueue(s) = push_url(push_url(e, robots), home)
  BY DEF NewQueue
<1> HIDE DEF e, robots, home
<1>5. push_url(e, robots) \in QueueInfo /\ Known(push_url(e, robots))
  BY <1>1, <1>2, <1>3, PushType, PushedKnown
<1> QED
  BY <1>2, <1>4, <1>5, PushedKnown

\* No request in flight belongs to the entry that a site comes to.
LEMMA ComesUrls ==
  ASSUME TInv, CountInv, UrlInv, NEW q \in Queues, NEW e \in QueueInfo, Comes(q, e)
  PROVE  UrlInv'
<1> DEFINE d == [e EXCEPT !.queue_id = cur_queue_id + 1]
<1>1. SameRequests /\ ~Loaded(q) /\ Becomes(q, d) /\ UNCHANGED saved
  BY DEF Comes
<1>2. Known(e)
  BY NewQueueKnown DEF Comes, UrlInv, QueuesKnown
<1>3. d.urls_to_crawl = e.urls_to_crawl /\ d.urls_seen = e.urls_seen
  BY DEF QueueInfo
<1>4. Known(d)
  BY <1>2, <1>3, SameUrls
<1> HIDE DEF d
<1>5. RequestsOf(q) = {}
  BY <1>1, RequestOfSite
<1>6. ASSUME NEW x \in LiveSlots
      PROVE  /\ Key(x)' = Key(x)
             /\ request_info_table'[x].queue_entry = request_info_table[x].queue_entry
             /\ request_info_table[x].queue_entry \in Queues \ {q}
  <2>1. Key(x)' = Key(x) /\ request_info_table'[x].queue_entry = request_info_table[x].queue_entry
    BY <1>1 DEF SameRequests, Carries, Key
  <2>2. request_info_table[x].queue_entry # q
    BY <1>5 DEF RequestsOf, LiveSlots
  <2> QED
    BY <2>1, <2>2, LiveEntry
<1>7. LiveSlots' = LiveSlots
  BY <1>1 DEF SameRequests, Requests
<1>8. FlightsKnown'
  BY <1>1, <1>6, <1>7 DEF Becomes, UrlInv, FlightsKnown
<1>9. QueuesKnown'
  BY <1>1, <1>4, OneQueueKnown, QueuesStay
<1> QED
  BY <1>8, <1>9 DEF UrlInv

LEMMA GoesUrls ==
  ASSUME TInv, UrlInv, NEW q \in Queues, Goes(q)
  PROVE  UrlInv'
<1> DEFINE e == queue_info_table[q]
<1>1. e \in QueueInfo /\ Known(e) /\ Becomes(q, EmptyQueue)
  BY Typing DEF UrlInv, QueuesKnown, Goes
<1>2. \A p \in Queues : Known(queue_info_table'[p])
  <2>1. Known(EmptyQueue)
    BY EmptyKnown DEF EmptyQueue
  <2> QED
    BY <1>1, <2>1, OneQueueKnown
<1>3. Known(SavedInfo(e))
  <2>1. SavedInfo(e).urls_to_crawl = e.urls_to_crawl /\ SavedInfo(e).urls_seen = e.urls_seen
    <3> HIDE DEF e
    <3> QED
      BY <1>1 DEF SavedInfo, QueueInfo
  <2> QED
    BY <1>1, <2>1, SameUrls
<1>4. \A r \in saved' : Known(r.info)
  <2>1. CASE saved' = saved
    BY <2>1 DEF UrlInv, QueuesKnown
  <2>2. CASE saved' = saved \cup {[queue_id |-> e.queue_id, info |-> SavedInfo(e)]}
    <3> HIDE DEF e
    <3> QED
      BY <1>3, <2>2 DEF UrlInv, QueuesKnown
  <2> QED
    BY <2>1, <2>2 DEF Goes
<1>5. QueuesKnown'
  BY <1>2, <1>4 DEF QueuesKnown, Known, Todo, HashAt
<1>6. LiveSlots' = LiveSlots \ RequestsOf(q)
  BY DEF Goes
<1>7. ASSUME NEW x \in LiveSlots'
      PROVE  /\ x \in LiveSlots /\ Key(x)' = Key(x)
             /\ request_info_table'[x].queue_entry = request_info_table[x].queue_entry
             /\ request_info_table[x].queue_entry \in Queues \ {q}
  <2>1. x \in LiveSlots \ RequestsOf(q)
    BY <1>6
  <2>2. Key(x)' = Key(x) /\ request_info_table'[x].queue_entry = request_info_table[x].queue_entry
    BY <2>1 DEF Goes, Carries, Key
  <2>3. request_info_table[x].queue_entry # q
    BY <2>1 DEF RequestsOf, LiveSlots
  <2> QED
    BY <2>1, <2>2, <2>3, LiveEntry
<1>8. FlightsKnown'
  BY <1>1, <1>7 DEF Becomes, UrlInv, FlightsKnown
<1> QED
  BY <1>5, <1>8 DEF UrlInv

LEMMA InitUrls == Init => UrlInv
<1> SUFFICES ASSUME Init PROVE UrlInv
  OBVIOUS
<1>1. \A q \in Queues : Known(queue_info_table[q])
  BY EmptyKnown DEF Init, EmptyQueue
<1>2. LiveSlots = {}
  BY DEF Init, LiveSlots, Live, FreeRequest
<1> QED
  BY <1>1, <1>2 DEF Init, UrlInv, QueuesKnown, FlightsKnown

LEMMA StepUrls == TInv /\ CountInv /\ UrlInv /\ [Next]_vars => UrlInv'
<1> SUFFICES ASSUME TInv, CountInv, UrlInv, [Next]_vars PROVE UrlInv'
  OBVIOUS
<1> QED
  BY StepKinds, RestsUrls, OffersUrls, EndsUrls, ResumesUrls, LaunchesUrls, LosesUrls,
     ComesUrls, GoesUrls DEF Kinds

LEMMA UrlsHold == Spec => [](TInv /\ CountInv /\ UrlInv)
BY InitTyped, StepTyped, InitCounts, StepCounts, InitUrls, StepUrls, PTL DEF Spec

\* The two ways to name what waits and what is in flight.
LEMMA PlacesOfUrls ==
  ASSUME NEW q
  PROVE  /\ Queued(q) = Todo(queue_info_table[q])
         /\ InFlight(q) = { Key(s) : s \in RequestsOf(q) }
         /\ RequestsOf(q) = { s \in LiveSlots : request_info_table[s].queue_entry = q }
BY DEF Queued, Todo, HashAt, InFlight, Key, UrlOf, RequestsOf, LiveSlots

\* A URL of a site is queued once, or in flight once, or neither, and whatever waits
\* or flies was recorded as seen: no page is requested twice, links and redirections
\* to it, retries, suspensions and the reuse of queue entries notwithstanding.
THEOREM UrlsInOnePlace == Spec => []UrlInOnePlace
<1>1. ASSUME UrlInv, NEW q \in Queues
      PROVE  LET todo == queue_info_table[q].urls_to_crawl
             IN  /\ \A i, j \in DOMAIN todo : Hash[todo[i].u] = Hash[todo[j].u] => i = j
                 /\ \A s, t \in RequestsOf(q) : Key(s) = Key(t) => s = t
                 /\ Queued(q) \cap InFlight(q) = {}
                 /\ Queued(q) \cup InFlight(q) \subseteq queue_info_table[q].urls_seen
  <2>1. Known(queue_info_table[q])
    BY <1>1 DEF UrlInv, QueuesKnown
  <2>2. \A s \in RequestsOf(q) : Key(s) \in queue_info_table[q].urls_seen \ Queued(q)
    BY <1>1, PlacesOfUrls DEF UrlInv, FlightsKnown
  <2>3. \A s, t \in RequestsOf(q) : Key(s) = Key(t) => s = t
    BY <1>1, PlacesOfUrls DEF UrlInv, FlightsKnown
  <2>4. \A k \in InFlight(q) : k \in queue_info_table[q].urls_seen \ Queued(q)
    BY <2>2, PlacesOfUrls
  <2>5. Queued(q) \subseteq queue_info_table[q].urls_seen
    BY <2>1, PlacesOfUrls DEF Known
  <2> QED
    BY <2>1, <2>3, <2>4, <2>5 DEF Known, HashAt
<1>2. UrlInv => UrlInOnePlace
  BY <1>1 DEF UrlInOnePlace, Key, UrlOf
<1> QED
  BY <1>2, UrlsHold, PTL

\* The counters and the queues describe the requests in flight at all times.
THEOREM AccountsHold == Spec => []Accounting
BY RequestsCounted, QueuesCounted, UrlsInOnePlace, PTL DEF Accounting

-----------------------------------------------------------------------------
(* PerSeedBound *)

WithinLevel(n) == MaxLevel > 0 => n <= MaxLevel
WithinSeed(e) ==
  /\ MaxCount > 0 => e.url_count_per_seed[1] <= MaxCount
  /\ e.status = "Max Count" => e.url_count_per_seed[1] >= MaxCount
  /\ \A i \in DOMAIN e.urls_to_crawl : WithinLevel(e.urls_to_crawl[i].level)

\* Only a page below the root of a site is parsed: robots.txt, whose links no filter
\* would limit, is not.
ParsesPages ==
  pc = "parse" => request_info_table[table[callback.entry].callback_param].seed_id # 0

\* A redirection, a retry and LOAD put URLs and counts back that were let through
\* before.
SeedInv ==
  /\ \A q \in Queues : WithinSeed(queue_info_table[q])
  /\ \A r \in saved : WithinSeed(r.info)
  /\ \A s \in LiveSlots : WithinLevel(request_info_table[s].level)
  /\ ParsesPages

LEMMA SameSeeds ==
  ASSUME NEW d, NEW e, d.urls_to_crawl = e.urls_to_crawl, d.status = e.status,
         d.url_count_per_seed = e.url_count_per_seed, WithinSeed(e)
  PROVE  WithinSeed(d)
BY DEF WithinSeed

LEMMA PushSeed ==
  ASSUME NEW e \in QueueInfo, NEW info \in UrlInfo, WithinSeed(e), WithinLevel(info.level)
  PROVE  WithinSeed(push_url(e, info))
<1> DEFINE d == push_url(e, info)
           old == e.urls_to_crawl
<1>1. CASE Hash[info.u] \in e.urls_seen
  BY <1>1 DEF push_url
<1>2. CASE Hash[info.u] \notin e.urls_seen
  <2>1. /\ d.urls_to_crawl = Append(old, info) /\ d.status = e.status
        /\ d.url_count_per_seed = e.url_count_per_seed
    BY <1>2 DEF push_url, QueueInfo
  <2>2. old \in Seq(UrlInfo)
    BY FieldTypes
  <2>3. /\ DOMAIN Append(old, info) = 1 .. Len(old) + 1 /\ DOMAIN old = 1 .. Len(old)
        /\ Len(old) \in Nat
        /\ \A i \in 1 .. Len(old) : Append(old, info)[i] = old[i]
        /\ Append(old, info)[Len(old) + 1] = info
    BY <2>2
  <2>4. ASSUME NEW i \in 1 .. Len(old) + 1 PROVE WithinLevel(Append(old, info)[i].level)
    <3>1. i \in 1 .. Len(old) \/ i = Len(old) + 1
      BY <2>3
    <3> QED
      BY <2>3, <3>1 DEF WithinSeed
  <2> HIDE DEF d, old
  <2> QED
    BY <2>1, <2>3, <2>4 DEF WithinSeed, d
<1> QED
  BY <1>1, <1>2

LEMMA PopSeed ==
  ASSUME NEW e \in QueueInfo, e.urls_to_crawl # << >>, WithinSeed(e)
  PROVE  WithinSeed(pop_url(e)) /\ WithinLevel(Head(e.urls_to_crawl).level)
<1> DEFINE d == pop_url(e)
           old == e.urls_to_crawl
<1>1. /\ d.urls_to_crawl = Tail(old) /\ d.status = e.status
      /\ d.url_count_per_seed = e.url_count_per_seed
  BY DEF pop_url, QueueInfo
<1>2. old \in Seq(UrlInfo)
  BY FieldTypes
<1>3. /\ Len(old) \in Nat /\ Len(old) >= 1 /\ Head(old) = old[1]
      /\ \A i \in 1 .. Len(old) - 1 : Tail(old)[i] = old[i + 1]
      /\ DOMAIN old = 1 .. Len(old) /\ DOMAIN Tail(old) = 1 .. Len(old) - 1
  BY <1>2
<1>4. 1 \in 1 .. Len(old) /\ \A i \in 1 .. Len(old) - 1 : i + 1 \in 1 .. Len(old)
  BY <1>3
<1> HIDE DEF d, old
<1> QED
  BY <1>1, <1>3, <1>4 DEF WithinSeed, d, old

\* The verdict "ok" leaves room for one more URL below the root.
LEMMA OfferedSeed ==
  ASSUME NEW e \in QueueInfo, NEW info \in UrlInfo, WithinSeed(e),
         NEW verdict \in check(e, info), info.seed_id = 1 \/ WithinLevel(info.level)
  PROVE  WithinSeed(Offered(e, info, verdict))
<1> DEFINE n == e.url_count_per_seed[1]
           count == IF info.seed_id > 0 THEN e.url_count_per_seed[info.seed_id] + 1 ELSE 0
           seedVerdict == SeedVerdict(info, count)
<1>1. /\ n \in Nat /\ info.level \in Nat /\ info.seed_id \in {0, 1}
      /\ e.url_count_per_seed \in [{0, 1} -> Nat]
  BY FieldTypes DEF UrlInfo, SeedId
<1>2. verdict \in {"extension", "prefix", seedVerdict}
  BY DEF check
<1>3. info.seed_id = 1 => count = n + 1
  BY <1>1
<1> HIDE DEF count
<1>4. /\ verdict = "ok" => seedVerdict = "ok"
      /\ verdict = "count" => seedVerdict = "count"
      /\ seedVerdict = "ok" =>
           WithinLevel(info.level) /\ (info.seed_id = 1 /\ MaxCount > 0 => n + 1 <= MaxCount)
      /\ seedVerdict = "count" => n >= MaxCount
  BY <1>1, <1>2, <1>3, SizeAssumption DEF SeedVerdict, WithinLevel
<1> HIDE DEF seedVerdict
<1>5. CASE verdict = "ok" /\ Hash[info.u] \notin e.urls_seen
  <2> DEFINE d == push_url(e, info)
             counts == [d.url_count_per_seed EXCEPT ![info.seed_id] = @ + 1]
             c == [d EXCEPT !.url_count_per_seed = counts]
  <2>1. d \in QueueInfo /\ WithinSeed(d)
    BY <1>4, <1>5, PushType, PushSeed
  <2>2. d.url_count_per_seed = e.url_count_per_seed /\ d.status = e.status
    BY <1>5 DEF push_url, QueueInfo
  <2>3. /\ info.seed_id = 1 => counts[1] = n + 1
        /\ info.seed_id # 1 => counts[1] = n
    BY <1>1, <2>2
  <2>4. Offered(e, info, verdict) = c
    BY <1>5 DEF Offered
  <2>5. /\ c.url_count_per_seed = counts /\ c.status = d.status
        /\ c.urls_to_crawl = d.urls_to_crawl
    <3> HIDE DEF counts, d
    <3> QED
      BY <2>1 DEF QueueInfo
  <2> HIDE DEF c, counts, d
  <2>6. MaxCount > 0 => c.url_count_per_seed[1] <= MaxCount
    BY <1>4, <1>5, <2>2, <2>3, <2>5 DEF WithinSeed
  <2>7. c.status = "Max Count" => c.url_count_per_seed[1] >= MaxCount
    <3>1. e.status = "Max Count" => n >= MaxCount
      BY DEF WithinSeed
    <3>2. MaxCount \in Nat
      BY SizeAssumption
    <3> HIDE DEF n
    <3>3. c.url_count_per_seed[1] >= n
      BY <1>1, <2>3, <2>5
    <3>4. c.url_count_per_seed[1] \in Nat
      BY <1>1, <2>3, <2>5
    <3>5. c.status = e.status
      BY <2>2, <2>5
    <3> DEFINE m == c.url_count_per_seed[1]
    <3> HIDE DEF m
    <3>6. n >= MaxCount => m >= MaxCount
      BY <1>1, <3>2, <3>3, <3>4 DEF m
    <3> QED
      BY <3>1, <3>5, <3>6 DEF m
  <2>8. \A i \in DOMAIN c.urls_to_crawl : WithinLevel(c.urls_to_crawl[i].level)
    BY <2>1, <2>5 DEF WithinSeed
  <2> QED
    BY <2>4, <2>6, <2>7, <2>8 DEF WithinSeed
<1>6. CASE ~(verdict = "ok" /\ Hash[info.u] \notin e.urls_seen)
  <2> DEFINE c == Offered(e, info, verdict)
  <2>1. /\ c.urls_to_crawl = e.urls_to_crawl /\ c.url_count_per_seed = e.url_count_per_seed
        /\ c.status = e.status \/ c.status = "Max Level"
             \/ (c.status = "Max Count" /\ verdict = "count")
    BY <1>6 DEF Offered, push_url, QueueInfo
  <2> HIDE DEF c
  <2>2. c.status = "Max Count" => n >= MaxCount
    BY <1>4, <2>1 DEF WithinSeed
  <2>3. WithinSeed(c)
    BY <2>1, <2>2 DEF WithinSeed
  <2> QED
    BY <2>3 DEF c
<1> QED
  BY <1>5, <1>6

\* The entries, the saved queues and the requests of one kind of step.
SeedBounds ==
  /\ \A q \in Queues : WithinSeed(queue_info_table[q])
  /\ \A r \in saved : WithinSeed(r.info)
  /\ \A s \in LiveSlots : WithinLevel(request_info_table[s].level)

LEMMA SeedsStay ==
  ASSUME SeedInv, UNCHANGED saved,
         \A s \in LiveSlots' :
           \E n : WithinLevel(n) /\ request_info_table'[s].level = n,
         \A p \in Queues : WithinSeed(queue_info_table'[p])
  PROVE  SeedBounds'
BY DEF SeedInv, SeedBounds, WithinSeed, WithinLevel

LEMMA LevelsStay ==
  ASSUME SeedInv, NEW s, NEW x \in LiveSlots, Carries(s, x)
  PROVE  \E n : WithinLevel(n) /\ request_info_table'[s].level = n
BY DEF SeedInv, Carries

\* One entry becomes another that is within its bounds.
LEMMA OneQueueWithin ==
  ASSUME SeedInv, NEW q \in Queues, NEW d, Becomes(q, d), WithinSeed(d)
  PROVE  \A p \in Queues : WithinSeed(queue_info_table'[p])
BY DEF SeedInv, Becomes

LEMMA RecountedWithin ==
  ASSUME SeedInv, NEW q \in Queues, NEW d, NEW n, Recounted(d, queue_info_table[q], n),
         Becomes(q, d)
  PROVE  \A p \in Queues : WithinSeed(queue_info_table'[p])
<1>1. WithinSeed(queue_info_table[q])
  BY DEF SeedInv
<1>2. WithinSeed(d)
  BY <1>1, SameSeeds DEF Recounted
<1> QED
  BY <1>2, OneQueueWithin

LEMMA RequestsWithin ==
  ASSUME SeedInv, SameRequests
  PROVE  \A s \in LiveSlots' : \E n : WithinLevel(n) /\ request_info_table'[s].level = n
BY LevelsStay DEF SameRequests, Requests

LEMMA QuietSeeds ==
  ASSUME TInv, SeedInv,
         Rests \/ (\E s \in Slot : Ends(s))
           \/ \E s, s2 \in Slot, f2 \in FmSlot : Resumes(s, s2, f2)
  PROVE  SeedBounds'
<1>1. CASE Rests
  <2>1. ASSUME NEW p \in Queues PROVE WithinSeed(queue_info_table'[p])
    <3>1. WithinSeed(queue_info_table[p])
      BY DEF SeedInv
    <3> QED
      BY <1>1, <3>1, SameSeeds DEF Rests, Recounted
  <2> QED
    BY <1>1, <2>1, RequestsWithin, SeedsStay DEF Rests, SameSites
<1>2. ASSUME NEW s \in Slot, Ends(s) PROVE SeedBounds'
  <2>1. PICK q \in Queues : q = request_info_table[s].queue_entry
    BY <1>2, RequestContext DEF Ends, LiveSlots, Live
  <2>2. \A p \in Queues : WithinSeed(queue_info_table'[p])
    BY <1>2, <2>1, RecountedWithin DEF Ends
  <2>3. \A x \in LiveSlots' : \E n : WithinLevel(n) /\ request_info_table'[x].level = n
    BY <1>2, LevelsStay DEF Ends, Requests
  <2> QED
    BY <1>2, <2>2, <2>3, SeedsStay DEF Ends, SameSites
<1>3. ASSUME NEW s \in Slot, NEW s2 \in Slot, NEW f2 \in FmSlot, Resumes(s, s2, f2)
      PROVE  SeedBounds'
  <2>1. PICK q \in Queues : q = request_info_table[s].queue_entry
    BY <1>3, RequestContext DEF Resumes, LiveSlots, Live
  <2>2. \A p \in Queues : WithinSeed(queue_info_table'[p])
    BY <1>3, <2>1, RecountedWithin DEF Resumes
  <2>3. \A x \in LiveSlots' : \E n : WithinLevel(n) /\ request_info_table'[x].level = n
    BY <1>3, LevelsStay DEF Resumes, Requests
  <2> QED
    BY <1>3, <2>2, <2>3, SeedsStay DEF Resumes, SameSites
<1> QED
  BY <1>1, <1>2, <1>3

LEMMA OffersSeeds ==
  ASSUME TInv, SeedInv, NEW s \in Slot, NEW info \in UrlInfo, NEW verdict,
         Offers(s, info, verdict)
  PROVE  SeedBounds'
<1>1. PICK q \in Queues : q = request_info_table[s].queue_entry
  BY RequestContext DEF Offers, LiveSlots, Live
<1> DEFINE e == queue_info_table[q]
           d == Offered(e, info, verdict)
<1>2. SameRequests /\ SameSites /\ Becomes(q, d) /\ verdict \in check(e, info)
  BY <1>1 DEF Offers
<1>3. info.seed_id = 1 \/ WithinLevel(info.level)
  <2>1. info.seed_id \in {0, 1} /\ info.seed_id = request_info_table[s].seed_id
    BY DEF Offers, UrlInfo, SeedId
  <2>2. CASE info.level = request_info_table[s].level
    BY <2>2 DEF Offers, SeedInv
  <2>3. CASE pc = "parse" /\ s = table[callback.entry].callback_param
    BY <2>1, <2>3 DEF SeedInv, ParsesPages
  <2> QED
    BY <2>2, <2>3 DEF Offers
<1>4. e \in QueueInfo /\ WithinSeed(e)
  BY Typing DEF SeedInv
<1>5. WithinSeed(d)
  BY <1>2, <1>3, <1>4, OfferedSeed
<1> HIDE DEF d
<1>6. \A p \in Queues : WithinSeed(queue_info_table'[p])
  BY <1>2, <1>5, OneQueueWithin
<1> QED
  BY <1>2, <1>6, RequestsWithin, SeedsStay DEF SameSites

LEMMA PopsSeeds ==
  ASSUME TInv, SeedInv, NEW q \in Queues,
         Loses(q) \/ \E s \in Slot, f \in FmSlot : Launches(q, s, f)
  PROVE  SeedBounds'
<1> DEFINE e == queue_info_table[q]
           d == pop_url(e)
<1>1. e \in QueueInfo /\ WithinSeed(e) /\ e.urls_to_crawl # << >>
  BY Typing DEF SeedInv, Loses, Launches, IsReady
<1>2. WithinSeed(d) /\ WithinLevel(Head(e.urls_to_crawl).level)
  BY <1>1, PopSeed
<1>3. ASSUME NEW c, NEW n, Recounted(c, d, n), Becomes(q, c)
      PROVE  \A p \in Queues : WithinSeed(queue_info_table'[p])
  <2>1. WithinSeed(c)
    <3> HIDE DEF d
    <3> QED
      BY <1>2, <1>3, SameSeeds DEF Recounted
  <2> QED
    BY <1>3, <2>1, OneQueueWithin
<1>4. CASE Loses(q)
  <2>1. \A p \in Queues : WithinSeed(queue_info_table'[p])
    BY <1>3, <1>4 DEF Loses
  <2> QED
    BY <1>4, <2>1, RequestsWithin, SeedsStay DEF Loses, SameSites
<1>5. ASSUME NEW s \in Slot, NEW f \in FmSlot, Launches(q, s, f) PROVE SeedBounds'
  <2>1. \A p \in Queues : WithinSeed(queue_info_table'[p])
    BY <1>3, <1>5 DEF Launches
  <2>2. /\ LiveSlots' = LiveSlots \cup {s}
        /\ \A x \in LiveSlots : Carries(x, x)
        /\ request_info_table'[s].level = Head(e.urls_to_crawl).level
    BY <1>5 DEF Launches, Requests
  <2>3. \A x \in LiveSlots' : \E n : WithinLevel(n) /\ request_info_table'[x].level = n
    BY <1>2, <2>2, LevelsStay
  <2> QED
    BY <1>5, <2>1, <2>3, SeedsStay DEF Launches, SameSites
<1> QED
  BY <1>4, <1>5

LEMMA FreshSeeds ==
  ASSUME NEW e, e.urls_to_crawl = << >>, e.status = "Done",
         e.url_count_per_seed = [i \in SeedId |-> 0]
  PROVE  WithinSeed(e)
<1>1. DOMAIN e.urls_to_crawl = {} /\ e.url_count_per_seed[1] = 0
  BY DEF SeedId
<1> QED
  BY <1>1, SizeAssumption DEF WithinSeed

LEMMA NewQueueSeeds ==
  ASSUME NEW s \in Site
  PROVE  WithinSeed(NewQueue(s))
<1> DEFINE e == [EmptyQueue EXCEPT !.site = s]
           robots == [u |-> Robots[s], seed_id |-> 0, level |-> 0]
           home == [u |-> Home[s], seed_id |-> 1, level |-> 0]
<1>1. e \in QueueInfo
  BY EmptyType, SetField
<1>2. robots \in UrlInfo /\ home \in UrlInfo
  BY UrlAssumption DEF UrlInfo, SeedId
<1>3. WithinSeed(e)
  BY FreshSeeds DEF EmptyQueue
<1>4. WithinLevel(robots.level) /\ WithinLevel(home.level)
  BY SizeAssumption DEF WithinLevel
<1>5. NewQueue(s) = push_url(push_url(e, robots), home)
  BY DEF NewQueue
<1> HIDE DEF e, robots, home
<1>6. push_url(e, robots) \in QueueInfo /\ WithinSeed(push_url(e, robots))
  BY <1>1, <1>2, <1>3, <1>4, PushType, PushSeed
<1> QED
  BY <1>2, <1>4, <1>5, <1>6, PushSeed

LEMMA ComesSeeds ==
  ASSUME TInv, SeedInv, NEW q \in Queues, NEW e \in QueueInfo, Comes(q, e)
  PROVE  SeedBounds'
<1> DEFINE d == [e EXCEPT !.queue_id = cur_queue_id + 1]
<1>1. SameRequests /\ Becomes(q, d) /\ UNCHANGED saved
  BY DEF Comes
<1>2. WithinSeed(e)
  BY NewQueueSeeds DEF Comes, SeedInv
<1>3. WithinSeed(d)
  <2>1. /\ d.urls_to_crawl = e.urls_to_crawl /\ d.status = e.status
        /\ d.url_count_per_seed = e.url_count_per_seed
    BY DEF QueueInfo
  <2> QED
    BY <1>2, <2>1, SameSeeds
<1> HIDE DEF d
<1>4. \A p \in Queues : WithinSeed(queue_info_table'[p])
  BY <1>1, <1>3, OneQueueWithin
<1> QED
  BY <1>1, <1>4, RequestsWithin, SeedsStay

\* The verdict on a site is not saved with it.
LEMMA GoesSeeds ==
  ASSUME TInv, SeedInv, NEW q \in Queues, Goes(q)
  PROVE  SeedBounds'
<1> DEFINE e == queue_info_table[q]
           d == SavedInfo(e)
<1>1. e \in QueueInfo /\ WithinSeed(e) /\ Becomes(q, EmptyQueue)
  BY Typing DEF SeedInv, Goes
<1>2. WithinSeed(d)
  <2>1. /\ d.urls_to_crawl = e.urls_to_crawl /\ d.status = "Done"
        /\ d.url_count_per_seed = e.url_count_per_seed
    <3> HIDE DEF e
    <3> QED
      BY <1>1 DEF SavedInfo, QueueInfo
  <2> HIDE DEF d, e
  <2> QED
    BY <1>1, <2>1 DEF WithinSeed
<1>3. WithinSeed(EmptyQueue)
  BY FreshSeeds DEF EmptyQueue
<1>4. \A p \in Queues : WithinSeed(queue_info_table'[p])
  BY <1>1, <1>3, OneQueueWithin
<1> HIDE DEF d, e
<1>5. \A r \in saved' : WithinSeed(r.info)
  <2>1. CASE saved' = saved
    BY <2>1 DEF SeedInv
  <2>2. CASE saved' = saved \cup {[queue_id |-> e.queue_id, info |-> d]}
    BY <1>2, <2>2 DEF SeedInv
  <2> QED
    BY <2>1, <2>2 DEF Goes, e, d
<1>6. \A s \in LiveSlots' : WithinLevel(request_info_table'[s].level)
  BY DEF Goes, Carries, SeedInv
<1> QED
  BY <1>4, <1>5, <1>6 DEF SeedBounds, WithinSeed, WithinLevel

\* The main loop parses a page that it has not moved since crawl_callback began.
LEMMA ParseStays ==
  ASSUME [Next]_vars, pc' = "parse"
  PROVE  \/ pc = "parse" /\ UNCHANGED <<request_info_table, table, callback>>
         \/ \E f \in FmSlot, valid \in BOOLEAN :
              /\ CallbackPage(f, valid)
              /\ request_info_table[table[f].callback_param].seed_id # 0
<1>1. CASE UNCHANGED vars \/ Stopped
  BY <1>1 DEF Stopped, vars, request_vars
<1>2. ASSUME NEW f \in FmSlot, NEW valid \in BOOLEAN, CallbackPage(f, valid)
      PROVE  request_info_table[table[f].callback_param].seed_id # 0
  BY <1>2 DEF CallbackPage
<1>3. ASSUME NEW link \in Url, ParseLink(link)
      PROVE  pc = "parse" /\ UNCHANGED <<request_info_table, table, callback>>
  BY <1>3 DEF ParseLink, request_vars
<1>4. ~(\E f \in FmSlot, valid \in BOOLEAN, target \in Url :
          CallbackRefused(f) \/ CallbackRedirect(f, valid, target))
  BY DEF CallbackRefused, CallbackRedirect
<1>5. ~(ParseEnd \/ StoreFails \/ FinishRequest)
  BY DEF ParseEnd, StoreFails, FinishRequest
<1>6. ~Command
  BY DEF Command, NoCommand, request_crawl, load_queue, LoadEntry, Handled, RejectCommand,
     suspend_crawl, SuspendUnknown, SetPaused, AnswerStatus, Die
<1>7. ~Select
  BY DEF Select, Dispatch, ReportSite, HoldBack, FetchNext, SelectReady, SelectNone
<1>8. ~(PollReturns \/ FmProcessed \/ Peers \/ Tick)
  BY DEF PollReturns, FmProcessed, Peers, ServerAnswers, RequestExpires, SendCommand, Tick
<1>9. ~(\E f \in FmSlot : CallbackRefused(f))
  BY DEF CallbackRefused
<1>10. CASE Callback
  BY <1>2, <1>3, <1>4, <1>5, <1>9, <1>10 DEF Callback
<1> QED
  BY <1>1, <1>6, <1>7, <1>8, <1>10 DEF Next, Loop

LEMMA StepParses == ASSUME SeedInv, [Next]_vars PROVE ParsesPages'
<1>1. CASE pc = "parse" /\ UNCHANGED <<request_info_table, table, callback>>
  BY <1>1 DEF SeedInv, ParsesPages
<1>2. ASSUME NEW f \in FmSlot, NEW valid \in BOOLEAN, CallbackPage(f, valid),
             request_info_table[table[f].callback_param].seed_id # 0
      PROVE  ParsesPages'
  BY <1>2 DEF CallbackPage, BeginCallback, request_vars, ParsesPages
<1> QED
  BY <1>1, <1>2, ParseStays DEF ParsesPages

LEMMA InitSeeds == Init => SeedInv
<1> SUFFICES ASSUME Init PROVE SeedInv
  OBVIOUS
<1>1. WithinSeed(EmptyQueue)
  BY FreshSeeds DEF EmptyQueue
<1>2. LiveSlots = {}
  BY DEF Init, LiveSlots, Live, FreeRequest
<1> QED
  BY <1>1, <1>2 DEF Init, SeedInv, ParsesPages

LEMMA StepSeeds == TInv /\ SeedInv /\ [Next]_vars => SeedInv'
<1> SUFFICES ASSUME TInv, SeedInv, [Next]_vars PROVE SeedInv'
  OBVIOUS
<1>1. SeedBounds'
  BY StepKinds, QuietSeeds, OffersSeeds, PopsSeeds, ComesSeeds, GoesSeeds DEF Kinds
<1>2. ParsesPages'
  BY StepParses
<1> QED
  BY <1>1, <1>2 DEF SeedBounds, SeedInv

\* No more than max_count URLs of a site are accepted below its root and none deeper
\* than max_level, by whatever mixture of links, redirections, retries, suspensions
\* and reloads they come, and "Max Count" is reported only of a site that had so many.
THEOREM SeedsBounded == Spec => []PerSeedBound
<1>1. Spec => [](TInv /\ SeedInv)
  BY InitTyped, StepTyped, InitSeeds, StepSeeds, PTL DEF Spec
<1>2. SeedInv => PerSeedBound
  BY DEF SeedInv, PerSeedBound, WithinSeed, WithinLevel
<1> QED
  BY <1>1, <1>2, PTL

-----------------------------------------------------------------------------
(* The URLs of a site, step by step *)

\* The keys of the requests in flight for entry p, before and after a step.
LEMMA FlightKeys ==
  ASSUME NEW p
  PROVE  /\ InFlight(p) =
              { Key(s) : s \in { x \in LiveSlots : request_info_table[x].queue_entry = p } }
         /\ InFlight(p)' =
              { Key(s)' : s \in { x \in LiveSlots' : request_info_table'[x].queue_entry = p } }
BY DEF InFlight, Key, UrlOf, RequestsOf, LiveSlots

\* The requests of the other slots go on.
LEMMA OtherFlights ==
  ASSUME NEW x, Carries(x, x)
  PROVE  /\ Key(x)' = Key(x)
         /\ request_info_table'[x].queue_entry = request_info_table[x].queue_entry
BY DEF Carries, Key

\* An entry whose requests go on has the same URLs in flight.
LEMMA SameFlights ==
  ASSUME NEW p,
         \A x : x \in LiveSlots' /\ request_info_table'[x].queue_entry = p
                 <=> x \in LiveSlots /\ request_info_table[x].queue_entry = p,
         \A x \in LiveSlots : request_info_table[x].queue_entry = p => Key(x)' = Key(x)
  PROVE  InFlight(p)' = InFlight(p)
<1>1. ASSUME NEW k \in InFlight(p)' PROVE k \in InFlight(p)
  <2>1. PICK x \in LiveSlots' : request_info_table'[x].queue_entry = p /\ k = Key(x)'
    BY <1>1, FlightKeys
  <2>2. x \in LiveSlots /\ request_info_table[x].queue_entry = p /\ k = Key(x)
    BY <2>1
  <2> QED
    BY <2>2, FlightKeys
<1>2. ASSUME NEW k \in InFlight(p) PROVE k \in InFlight(p)'
  <2>1. PICK x \in LiveSlots : request_info_table[x].queue_entry = p /\ k = Key(x)
    BY <1>2, FlightKeys
  <2>2. x \in LiveSlots' /\ request_info_table'[x].queue_entry = p /\ k = Key(x)'
    BY <2>1
  <2> QED
    BY <2>2, FlightKeys
<1> QED
  BY <1>1, <1>2

LEMMA FlightsRest == ASSUME SameRequests PROVE \A p : InFlight(p)' = InFlight(p)
<1> TAKE p
<1>1. /\ LiveSlots' = LiveSlots
      /\ \A x \in LiveSlots :
           /\ Key(x)' = Key(x)
           /\ request_info_table'[x].queue_entry = request_info_table[x].queue_entry
  BY OtherFlights DEF SameRequests, Requests
<1> QED
  BY <1>1, SameFlights

LEMMA FlightEnds ==
  ASSUME UrlInv, NEW s \in Slot, Ends(s), NEW q, q = request_info_table[s].queue_entry
  PROVE  /\ Key(s) \in InFlight(q)
         /\ InFlight(q)' = InFlight(q) \ {Key(s)}
         /\ \A p : p # q => InFlight(p)' = InFlight(p)
<1>1. /\ s \in LiveSlots /\ LiveSlots' = LiveSlots \ {s}
      /\ \A x \in LiveSlots \ {s} : Carries(x, x)
  BY DEF Ends, Requests
<1>2. \A t \in LiveSlots :
        request_info_table[t].queue_entry = q /\ Key(t) = Key(s) => t = s
  BY <1>1 DEF UrlInv, FlightsKnown
<1>3. Key(s) \in InFlight(q)
  BY <1>1, FlightKeys
<1>4. InFlight(q)' = InFlight(q) \ {Key(s)}
  <2>1. ASSUME NEW k \in InFlight(q)' PROVE k \in InFlight(q) \ {Key(s)}
    <3>1. PICK x \in LiveSlots' : request_info_table'[x].queue_entry = q /\ k = Key(x)'
      BY <2>1, FlightKeys
    <3>2. /\ x \in LiveSlots \ {s} /\ request_info_table[x].queue_entry = q /\ k = Key(x)
      BY <1>1, <3>1, OtherFlights
    <3> QED
      BY <1>2, <3>2, FlightKeys
  <2>2. ASSUME NEW k \in InFlight(q), k # Key(s) PROVE k \in InFlight(q)'
    <3>1. PICK x \in LiveSlots : request_info_table[x].queue_entry = q /\ k = Key(x)
      BY <2>2, FlightKeys
    <3>2. x \in LiveSlots' /\ request_info_table'[x].queue_entry = q /\ k = Key(x)'
      BY <1>1, <2>2, <3>1, OtherFlights
    <3> QED
      BY <3>2, FlightKeys
  <2> QED
    BY <2>1, <2>2
<1>5. ASSUME NEW p, p # q PROVE InFlight(p)' = InFlight(p)
  <2>1. \A x : x \in LiveSlots' /\ request_info_table'[x].queue_entry = p
                <=> x \in LiveSlots /\ request_info_table[x].queue_entry = p
    BY <1>1, <1>5, OtherFlights
  <2>2. \A x \in LiveSlots : request_info_table[x].queue_entry = p => Key(x)' = Key(x)
    BY <1>1, <1>5, OtherFlights
  <2> QED
    BY <2>1, <2>2, SameFlights
<1> QED
  BY <1>3, <1>4, <1>5

LEMMA FlightResumes ==
  ASSUME NEW s \in Slot, NEW s2 \in Slot, NEW f2 \in FmSlot, Resumes(s, s2, f2)
  PROVE  \A p : InFlight(p)' = InFlight(p)
<1> TAKE p
<1>1. /\ s \in LiveSlots /\ LiveSlots' = (LiveSlots \ {s}) \cup {s2}
      /\ \A x \in LiveSlots \ {s} : Carries(x, x)
      /\ Key(s2)' = Key(s)
      /\ request_info_table'[s2].queue_entry = request_info_table[s].queue_entry
      /\ s2 \notin LiveSlots \ {s}
  BY DEF Resumes, Requests, Carries, Key
<1>2. ASSUME NEW k \in InFlight(p)' PROVE k \in InFlight(p)
  <2>1. PICK x \in LiveSlots' : request_info_table'[x].queue_entry = p /\ k = Key(x)'
    BY <1>2, FlightKeys
  <2>2. CASE x = s2
    BY <1>1, <2>1, <2>2, FlightKeys
  <2>3. CASE x # s2
    <3>1. x \in LiveSlots \ {s}
      BY <1>1, <2>1, <2>3
    <3>2. request_info_table[x].queue_entry = p /\ k = Key(x)
      BY <1>1, <2>1, <3>1, OtherFlights
    <3> QED
      BY <3>1, <3>2, FlightKeys
  <2> QED
    BY <2>2, <2>3
<1>3. ASSUME NEW k \in InFlight(p) PROVE k \in InFlight(p)'
  <2>1. PICK x \in LiveSlots : request_info_table[x].queue_entry = p /\ k = Key(x)
    BY <1>3, FlightKeys
  <2>2. \E y \in LiveSlots' : request_info_table'[y].queue_entry = p /\ k = Key(y)'
    <3>1. CASE x = s
      BY <1>1, <2>1, <3>1
    <3>2. CASE x # s
      BY <1>1, <2>1, <3>2, OtherFlights
    <3> QED
      BY <3>1, <3>2
  <2> QED
    BY <2>2, FlightKeys
<1> QED
  BY <1>2, <1>3

LEMMA FlightLaunches ==
  ASSUME NEW q \in Queues, NEW s \in Slot, NEW f \in FmSlot, Launches(q, s, f)
  PROVE  /\ InFlight(q)' = InFlight(q) \cup {Hash[Head(queue_info_table[q].urls_to_crawl).u]}
         /\ \A p : p # q => InFlight(p)' = InFlight(p)
<1> DEFINE h == Hash[Head(queue_info_table[q].urls_to_crawl).u]
<1>1. /\ LiveSlots' = LiveSlots \cup {s} /\ s \notin LiveSlots
      /\ \A x \in LiveSlots : Carries(x, x)
      /\ request_info_table'[s].queue_entry = q /\ Key(s)' = h
  BY DEF Launches, Requests, Key
<1> HIDE DEF h
<1>2. InFlight(q)' = InFlight(q) \cup {h}
  <2>1. ASSUME NEW k \in InFlight(q)' PROVE k \in InFlight(q) \cup {h}
    <3>1. PICK x \in LiveSlots' : request_info_table'[x].queue_entry = q /\ k = Key(x)'
      BY <2>1, FlightKeys
    <3>2. CASE x = s
      BY <1>1, <3>1, <3>2
    <3>3. CASE x # s
      <4>1. x \in LiveSlots /\ request_info_table[x].queue_entry = q /\ k = Key(x)
        BY <1>1, <3>1, <3>3, OtherFlights
      <4> QED
        BY <4>1, FlightKeys
    <3> QED
      BY <3>2, <3>3
  <2>2. ASSUME NEW k \in InFlight(q) PROVE k \in InFlight(q)'
    <3>1. PICK x \in LiveSlots : request_info_table[x].queue_entry = q /\ k = Key(x)
      BY <2>2, FlightKeys
    <3>2. x \in LiveSlots' /\ request_info_table'[x].queue_entry = q /\ k = Key(x)'
      BY <1>1, <3>1, OtherFlights
    <3> QED
      BY <3>2, FlightKeys
  <2>3. h \in InFlight(q)'
    BY <1>1, FlightKeys
  <2> QED
    BY <2>1, <2>2, <2>3
<1>3. ASSUME NEW p, p # q PROVE InFlight(p)' = InFlight(p)
  <2>1. \A x : x \in LiveSlots' /\ request_info_table'[x].queue_entry = p
                <=> x \in LiveSlots /\ request_info_table[x].queue_entry = p
    BY <1>1, <1>3, OtherFlights
  <2>2. \A x \in LiveSlots : request_info_table[x].queue_entry = p => Key(x)' = Key(x)
    BY <1>1, <1>3, OtherFlights
  <2> QED
    BY <2>1, <2>2, SameFlights
<1> QED
  BY <1>2, <1>3 DEF h

LEMMA FlightsGo ==
  ASSUME NEW q \in Queues, Goes(q)
  PROVE  /\ InFlight(q)' = {}
         /\ \A p : p # q => InFlight(p)' = InFlight(p)
<1>1. /\ LiveSlots' = LiveSlots \ RequestsOf(q)
      /\ \A x \in LiveSlots \ RequestsOf(q) : Carries(x, x)
      /\ \A x \in LiveSlots : x \in RequestsOf(q) <=> request_info_table[x].queue_entry = q
  BY DEF Goes, RequestsOf, LiveSlots
<1>2. InFlight(q)' = {}
  <2>1. { x \in LiveSlots' : request_info_table'[x].queue_entry = q } = {}
    BY <1>1, OtherFlights
  <2> QED
    BY <2>1, FlightKeys
<1>3. ASSUME NEW p, p # q PROVE InFlight(p)' = InFlight(p)
  <2>1. \A x : x \in LiveSlots' /\ request_info_table'[x].queue_entry = p
                <=> x \in LiveSlots /\ request_info_table[x].queue_entry = p
    BY <1>1, <1>3, OtherFlights
  <2>2. \A x \in LiveSlots : request_info_table[x].queue_entry = p => Key(x)' = Key(x)
    BY <1>1, <1>3, OtherFlights
  <2> QED
    BY <2>1, <2>2, SameFlights
<1> QED
  BY <1>2, <1>3

-----------------------------------------------------------------------------
(* OnlyRetriesGoOut *)

LEMMA StepGoesOut ==
  ASSUME TInv, UrlInv, [Next]_vars, NEW q \in Queues, paused \/ queue_info_table[q].due > 0
  PROVE  InFlight(q)' \subseteq InFlight(q)
<1>1. Kinds
  BY StepKinds
<1>2. ASSUME SameRequests PROVE InFlight(q)' \subseteq InFlight(q)
  BY <1>2, FlightsRest
<1>3. ASSUME NEW s \in Slot, Ends(s) PROVE InFlight(q)' \subseteq InFlight(q)
  BY <1>3, FlightEnds
<1>4. ASSUME NEW s \in Slot, NEW s2 \in Slot, NEW f2 \in FmSlot, Resumes(s, s2, f2)
      PROVE  InFlight(q)' \subseteq InFlight(q)
  BY <1>4, FlightResumes
<1>5. ASSUME NEW p \in Queues, NEW s \in Slot, NEW f \in FmSlot, Launches(p, s, f)
      PROVE  InFlight(q)' \subseteq InFlight(q)
  <2>1. ~paused /\ queue_info_table[p].due = 0
    BY <1>5 DEF Launches, IsReady
  <2>2. p # q
    BY <2>1
  <2> QED
    BY <1>5, <2>2, FlightLaunches
<1>6. ASSUME NEW p \in Queues, Goes(p) PROVE InFlight(q)' \subseteq InFlight(q)
  BY <1>6, FlightsGo
<1> QED
  BY <1>1, <1>2, <1>3, <1>4, <1>5, <1>6 DEF Kinds, Rests, Offers, Loses, Comes

\* While the server is paused, or the interval of a site has not passed, the site
\* asks for no URL that it was not asking for: select_queue and the test of `paused'
\* stand between a queue and request_page, and only finish_request goes round them,
\* with a URL that is in flight already.
THEOREM PausedAndPaced == Spec => OnlyRetriesGoOut
<1>1. ASSUME TInv, UrlInv, [Next]_vars
      PROVE  [\A q \in Queues :
                (paused /\ paused') \/ queue_info_table[q].due > 0
                  => InFlight(q)' \subseteq InFlight(q)]_vars
  BY <1>1, StepGoesOut
<1> QED
  BY <1>1, UrlsHold, PTL DEF Spec, OnlyRetriesGoOut

-----------------------------------------------------------------------------
(* The refinement of UrlLifecycle *)

\* The abstract variables are LoadedEntries (`crawling') and StageOf (`stage').
StageOf == [q \in Queues |-> [k \in HashValue |-> Stage(q, k)]]

\* What stays of the URLs of entry p over a step.
SamePlaces(p) ==
  /\ Queued(p)' = Queued(p) /\ InFlight(p)' = InFlight(p)
  /\ queue_info_table'[p].urls_seen = queue_info_table[p].urls_seen

LEMMA QueuedAgain ==
  ASSUME NEW p
  PROVE  Queued(p) = Todo(queue_info_table[p]) /\ Queued(p)' = Todo(queue_info_table'[p])
BY DEF Queued, Todo, HashAt

LEMMA StagesStay ==
  ASSUME NEW p, SamePlaces(p)
  PROVE  \A k : Stage(p, k)' = Stage(p, k)
BY DEF SamePlaces, Stage

\* Nothing happens to the URLs.
LEMMA AbstractStutter ==
  ASSUME \A p \in Queues : SamePlaces(p) /\ (Loaded(p)' <=> Loaded(p))
  PROVE  UNCHANGED <<LoadedEntries, StageOf>>
<1>1. LoadedEntries' = LoadedEntries
  BY DEF LoadedEntries
<1>2. StageOf' = StageOf
  BY StagesStay DEF StageOf
<1> QED
  BY <1>1, <1>2

\* One URL moves.
LEMMA AbstractMove ==
  ASSUME NEW q \in Queues, NEW k \in HashValue, NEW from, NEW to, Loaded(q),
         \A p \in Queues : Loaded(p)' <=> Loaded(p),
         \A p \in Queues \ {q} : SamePlaces(p),
         Stage(q, k) = from, Stage(q, k)' = to,
         \A h \in HashValue \ {k} : Stage(q, h)' = Stage(q, h)
  PROVE  Lifecycle!Move(q, k, from, to)
<1>1. LoadedEntries' = LoadedEntries /\ q \in LoadedEntries
  BY DEF LoadedEntries
<1>2. StageOf[q][k] = from
  BY DEF StageOf
<1>3. StageOf' = [StageOf EXCEPT ![q][k] = to]
  <2>1. ASSUME NEW p \in Queues \ {q}, NEW h \in HashValue PROVE Stage(p, h)' = Stage(p, h)
    BY StagesStay
  <2> QED
    BY <2>1 DEF StageOf
<1> QED
  BY <1>1, <1>2, <1>3 DEF Lifecycle!Move, LoadedEntries, StageOf

LEMMA PlacesKnown ==
  ASSUME TInv, UrlInv, NEW q \in Queues
  PROVE  /\ Queued(q) \subseteq queue_info_table[q].urls_seen
         /\ InFlight(q) \subseteq queue_info_table[q].urls_seen \ Queued(q)
         /\ queue_info_table[q].urls_seen \subseteq HashValue
<1>1. Known(queue_info_table[q])
  BY DEF UrlInv, QueuesKnown
<1>2. Queued(q) \subseteq queue_info_table[q].urls_seen
  BY <1>1, QueuedAgain DEF Known
<1>3. ASSUME NEW k \in InFlight(q) PROVE k \in queue_info_table[q].urls_seen \ Queued(q)
  <2>1. PICK x \in LiveSlots : request_info_table[x].queue_entry = q /\ k = Key(x)
    BY <1>3, FlightKeys
  <2> QED
    BY <2>1, QueuedAgain DEF UrlInv, FlightsKnown
<1>4. queue_info_table[q].urls_seen \subseteq HashValue
  BY Typing, FieldTypes
<1> QED
  BY <1>2, <1>3, <1>4

\* The entries that keep their URLs and what is in flight for them.
LEMMA EntryPlaces ==
  ASSUME NEW p, InFlight(p)' = InFlight(p),
         Todo(queue_info_table'[p]) = Todo(queue_info_table[p]),
         queue_info_table'[p].urls_seen = queue_info_table[p].urls_seen
  PROVE  SamePlaces(p)
BY QueuedAgain DEF SamePlaces

LEMMA RecountedPlaces ==
  ASSUME NEW p, NEW n, Recounted(queue_info_table'[p], queue_info_table[p], n)
  PROVE  /\ Queued(p)' = Queued(p)
         /\ queue_info_table'[p].urls_seen = queue_info_table[p].urls_seen
         /\ Loaded(p)' <=> Loaded(p)
<1>1. Todo(queue_info_table'[p]) = Todo(queue_info_table[p])
  BY DEF Recounted, Todo, HashAt
<1> QED
  BY <1>1, QueuedAgain DEF Recounted, Loaded

\* The entries other than the one that becomes another.
LEMMA OtherEntries ==
  ASSUME NEW q, NEW d, Becomes(q, d), \A p : p # q => InFlight(p)' = InFlight(p)
  PROVE  \A p \in Queues \ {q} : SamePlaces(p) /\ (Loaded(p)' <=> Loaded(p))
<1> TAKE p \in Queues \ {q}
<1>1. queue_info_table'[p] = queue_info_table[p] /\ InFlight(p)' = InFlight(p)
  BY DEF Becomes
<1> QED
  BY <1>1, EntryPlaces DEF Loaded

LEMMA RestsAbstract ==
  ASSUME Rests
  PROVE  UNCHANGED <<LoadedEntries, StageOf>>
<1>1. ASSUME NEW p \in Queues PROVE SamePlaces(p) /\ (Loaded(p)' <=> Loaded(p))
  BY RecountedPlaces, FlightsRest DEF Rests, SamePlaces
<1> QED
  BY <1>1, AbstractStutter

LEMMA ResumesAbstract ==
  ASSUME TInv, NEW s \in Slot, NEW s2 \in Slot, NEW f2 \in FmSlot, Resumes(s, s2, f2)
  PROVE  UNCHANGED <<LoadedEntries, StageOf>>
<1>1. PICK q \in Queues : q = request_info_table[s].queue_entry
  BY RequestContext DEF Resumes, LiveSlots, Live
<1>2. PICK d \in QueueInfo : Recounted(d, queue_info_table[q], 0) /\ Becomes(q, d)
  BY <1>1 DEF Resumes
<1>3. \A p : InFlight(p)' = InFlight(p)
  BY FlightResumes
<1>4. \A p \in Queues \ {q} : SamePlaces(p) /\ (Loaded(p)' <=> Loaded(p))
  BY <1>2, <1>3, OtherEntries
<1>5. SamePlaces(q) /\ (Loaded(q)' <=> Loaded(q))
  BY <1>2, <1>3, RecountedPlaces DEF SamePlaces, Becomes
<1> QED
  BY <1>4, <1>5, AbstractStutter

\* A link or a redirection: the URL is found unless it was recorded before.
LEMMA OffersAbstract ==
  ASSUME TInv, CountInv, UrlInv, NEW s \in Slot, NEW info \in UrlInfo, NEW verdict,
         Offers(s, info, verdict)
  PROVE  \/ UNCHANGED <<LoadedEntries, StageOf>>
         \/ \E q \in Queues, k \in HashValue : Lifecycle!Find(q, k)
<1>1. PICK q \in Queues : q = request_info_table[s].queue_entry
  BY RequestContext DEF Offers, LiveSlots, Live
<1> DEFINE e == queue_info_table[q]
           d == Offered(e, info, verdict)
<1>2. SameRequests /\ Becomes(q, d)
  BY <1>1 DEF Offers
<1>3. e \in QueueInfo /\ Known(e)
  BY Typing DEF UrlInv, QueuesKnown
<1>4. \/ Todo(d) = Todo(e) /\ d.urls_seen = e.urls_seen
      \/ \E k \in HashValue \ e.urls_seen :
           Todo(d) = Todo(e) \cup {k} /\ d.urls_seen = e.urls_seen \cup {k}
  BY <1>3, OfferedKnown
<1>5. d.queue_id = e.queue_id
  BY <1>3 DEF Offered, push_url, QueueInfo
<1> HIDE DEF d
<1>6. \A p : InFlight(p)' = InFlight(p)
  BY <1>2, FlightsRest
<1>7. \A p \in Queues \ {q} : SamePlaces(p) /\ (Loaded(p)' <=> Loaded(p))
  BY <1>2, <1>6, OtherEntries
<1>8. Loaded(q)' <=> Loaded(q)
  BY <1>2, <1>5 DEF Becomes, Loaded
<1>9. CASE Todo(d) = Todo(e) /\ d.urls_seen = e.urls_seen
  <2>1. SamePlaces(q)
    BY <1>2, <1>6, <1>9, EntryPlaces DEF Becomes
  <2> QED
    BY <1>7, <1>8, <2>1, AbstractStutter
<1>10. ASSUME NEW k \in HashValue \ e.urls_seen,
              Todo(d) = Todo(e) \cup {k}, d.urls_seen = e.urls_seen \cup {k}
       PROVE  Lifecycle!Find(q, k)
  <2>1. /\ Queued(q)' = Queued(q) \cup {k}
        /\ queue_info_table'[q].urls_seen = queue_info_table[q].urls_seen \cup {k}
    BY <1>2, <1>10, QueuedAgain DEF Becomes
  <2>2. k \notin Queued(q) /\ k \notin InFlight(q)
    BY <1>10, PlacesKnown
  <2>3. Stage(q, k) = "unseen" /\ Stage(q, k)' = "queued"
    BY <1>10, <2>1, <2>2 DEF Stage
  <2>4. \A h \in HashValue \ {k} : Stage(q, h)' = Stage(q, h)
    BY <1>6, <2>1 DEF Stage
  <2>5. Loaded(q)
    BY <1>1, RequestOfSite DEF Offers, RequestsOf, LiveSlots
  <2>6. Lifecycle!Move(q, k, "unseen", "queued")
    BY <1>7, <1>8, <2>3, <2>4, <2>5, AbstractMove
  <2> QED
    BY <2>6 DEF Lifecycle!Find
<1> QED
  BY <1>4, <1>9, <1>10

\* A request that ends is done with: its URL stays recorded.
LEMMA EndsAbstract ==
  ASSUME TInv, CountInv, UrlInv, NEW s \in Slot, Ends(s)
  PROVE  \E q \in Queues, k \in HashValue : Lifecycle!Finish(q, k)
<1>1. PICK q \in Queues : q = request_info_table[s].queue_entry
  BY RequestContext DEF Ends, LiveSlots, Live
<1>2. PICK d \in QueueInfo : Recounted(d, queue_info_table[q], -1) /\ Becomes(q, d)
  BY <1>1 DEF Ends
<1>3. PICK k \in HashValue : k = Key(s)
  BY <1>1, FlightEnds, PlacesKnown
<1>4. /\ k \in InFlight(q)
      /\ InFlight(q)' = InFlight(q) \ {k}
      /\ \A p : p # q => InFlight(p)' = InFlight(p)
  BY <1>1, <1>3, FlightEnds
<1>5. \A p \in Queues \ {q} : SamePlaces(p) /\ (Loaded(p)' <=> Loaded(p))
  BY <1>2, <1>4, OtherEntries
<1>6. /\ Queued(q)' = Queued(q)
      /\ queue_info_table'[q].urls_seen = queue_info_table[q].urls_seen
      /\ Loaded(q)' <=> Loaded(q)
  BY <1>2, RecountedPlaces DEF Becomes
<1>7. k \in queue_info_table[q].urls_seen \ Queued(q)
  BY <1>4, PlacesKnown
<1>8. Stage(q, k) = "in flight" /\ Stage(q, k)' = "done"
  BY <1>4, <1>6, <1>7 DEF Stage
<1>9. \A h \in HashValue \ {k} : Stage(q, h)' = Stage(q, h)
  BY <1>4, <1>6 DEF Stage
<1>10. Loaded(q)
  BY <1>1, RequestOfSite DEF Ends, RequestsOf, LiveSlots
<1>11. Lifecycle!Move(q, k, "in flight", "done")
  BY <1>5, <1>6, <1>8, <1>9, <1>10, AbstractMove
<1> QED
  BY <1>11 DEF Lifecycle!Finish

\* The first URL of an entry leaves it: what it does to the places of the URLs.
LEMMA FirstLeaves ==
  ASSUME TInv, UrlInv, NEW q \in Queues, IsReady(queue_info_table[q]), NEW d, NEW n,
         Recounted(d, pop_url(queue_info_table[q]), n), Becomes(q, d),
         NEW k, k = Hash[Head(queue_info_table[q].urls_to_crawl).u]
  PROVE  /\ k \in HashValue /\ k \in Queued(q)
         /\ k \in queue_info_table[q].urls_seen \ InFlight(q)
         /\ Queued(q)' = Queued(q) \ {k}
         /\ queue_info_table'[q].urls_seen = queue_info_table[q].urls_seen
         /\ Loaded(q)' <=> Loaded(q)
<1> DEFINE e == queue_info_table[q]
<1>1. /\ k \in Todo(e) /\ k \in HashValue /\ Todo(d) = Todo(e) \ {k}
      /\ d.urls_seen = e.urls_seen
  BY PoppedUrls
<1>2. d.queue_id = e.queue_id
  BY Typing DEF Recounted, pop_url, QueueInfo
<1>3. /\ k \in Queued(q) /\ Queued(q)' = Queued(q) \ {k}
      /\ queue_info_table'[q].urls_seen = queue_info_table[q].urls_seen
      /\ Loaded(q)' <=> Loaded(q)
  BY <1>1, <1>2, QueuedAgain DEF Becomes, Loaded
<1>4. k \in queue_info_table[q].urls_seen \ InFlight(q)
  BY <1>3, PlacesKnown
<1> QED
  BY <1>1, <1>3, <1>4

\* A URL whose request cannot be made is never asked for again.
LEMMA LosesAbstract ==
  ASSUME TInv, UrlInv, NEW q \in Queues, Loses(q)
  PROVE  \E k \in HashValue : Lifecycle!Drop(q, k)
<1>1. PICK d \in QueueInfo : Recounted(d, pop_url(queue_info_table[q]), 0) /\ Becomes(q, d)
  BY DEF Loses
<1>2. PICK k : k = Hash[Head(queue_info_table[q].urls_to_crawl).u]
  OBVIOUS
<1>3. /\ k \in HashValue /\ k \in Queued(q)
      /\ k \in queue_info_table[q].urls_seen \ InFlight(q)
      /\ Queued(q)' = Queued(q) \ {k}
      /\ queue_info_table'[q].urls_seen = queue_info_table[q].urls_seen
      /\ Loaded(q)' <=> Loaded(q)
  BY <1>1, <1>2, FirstLeaves DEF Loses
<1>4. \A p : InFlight(p)' = InFlight(p)
  BY FlightsRest DEF Loses
<1>5. \A p \in Queues \ {q} : SamePlaces(p) /\ (Loaded(p)' <=> Loaded(p))
  BY <1>1, <1>4, OtherEntries
<1>6. Stage(q, k) = "queued" /\ Stage(q, k)' = "done"
  BY <1>3, <1>4 DEF Stage
<1>7. \A h \in HashValue \ {k} : Stage(q, h)' = Stage(q, h)
  BY <1>3, <1>4 DEF Stage
<1>8. Lifecycle!Move(q, k, "queued", "done")
  BY <1>3, <1>5, <1>6, <1>7, AbstractMove DEF Loses
<1> QED
  BY <1>3, <1>8 DEF Lifecycle!Drop

\* A site that is ready has room for one more request.
LEMMA RoomInFlight ==
  ASSUME CountInv, NEW q \in Queues, IsReady(queue_info_table[q])
  PROVE  Cardinality(Lifecycle!InFlight(q)) < MAX_QUEUE_PENDING_REQUESTS
<1> DEFINE mine == RequestsOf(q)
           keys == { Key(s) : s \in mine }
           key == [s \in mine |-> Key(s)]
           flying == Lifecycle!InFlight(q)
<1>1. IsFiniteSet(mine) /\ Cardinality(mine) < MAX_QUEUE_PENDING_REQUESTS
  BY FiniteTables DEF CountInv, PendingCounts, IsReady
<1>2. key \in Surjection(mine, keys)
  <2>1. key \in [mine -> keys]
    OBVIOUS
  <2>2. \A k \in keys : \E s \in mine : key[s] = k
    OBVIOUS
  <2> HIDE DEF key, keys, mine
  <2> QED
    BY <2>1, <2>2 DEF Surjection
<1>3. flying \subseteq keys
  <2>1. ASSUME NEW k \in flying PROVE k \in InFlight(q)
    BY <2>1 DEF Lifecycle!InFlight, Stage
  <2>2. InFlight(q) = keys
    BY PlacesOfUrls
  <2> QED
    BY <2>1, <2>2
<1> HIDE DEF mine, keys, key, flying
<1>4. IsFiniteSet(keys) /\ Cardinality(keys) <= Cardinality(mine)
  BY <1>1, <1>2, FS_Surjection
<1>5. Cardinality(flying) <= Cardinality(keys) /\ IsFiniteSet(flying)
  BY <1>3, <1>4, FS_Subset
<1>6. /\ Cardinality(mine) \in Nat /\ Cardinality(keys) \in Nat /\ Cardinality(flying) \in Nat
  BY <1>1, <1>4, <1>5, FS_CardinalityType
<1>7. MAX_QUEUE_PENDING_REQUESTS \in Nat
  BY SizeAssumption
<1>8. Cardinality(flying) < MAX_QUEUE_PENDING_REQUESTS
  BY <1>1, <1>4, <1>5, <1>6, <1>7
<1> QED
  BY <1>8 DEF flying

LEMMA LaunchesAbstract ==
  ASSUME TInv, CountInv, UrlInv, NEW q \in Queues, NEW s \in Slot, NEW f \in FmSlot,
         Launches(q, s, f)
  PROVE  \E k \in HashValue : Lifecycle!Fetch(q, k)
<1>1. PICK d \in QueueInfo : Recounted(d, pop_url(queue_info_table[q]), 1) /\ Becomes(q, d)
  BY DEF Launches
<1>2. PICK k : k = Hash[Head(queue_info_table[q].urls_to_crawl).u]
  OBVIOUS
<1>3. /\ k \in HashValue /\ k \in Queued(q)
      /\ k \in queue_info_table[q].urls_seen \ InFlight(q)
      /\ Queued(q)' = Queued(q) \ {k}
      /\ queue_info_table'[q].urls_seen = queue_info_table[q].urls_seen
      /\ Loaded(q)' <=> Loaded(q)
  BY <1>1, <1>2, FirstLeaves DEF Launches
<1>4. InFlight(q)' = InFlight(q) \cup {k} /\ \A p : p # q => InFlight(p)' = InFlight(p)
  BY <1>2, FlightLaunches
<1>5. \A p \in Queues \ {q} : SamePlaces(p) /\ (Loaded(p)' <=> Loaded(p))
  BY <1>1, <1>4, OtherEntries
<1>6. Stage(q, k) = "queued" /\ Stage(q, k)' = "in flight"
  BY <1>3, <1>4 DEF Stage
<1>7. \A h \in HashValue \ {k} : Stage(q, h)' = Stage(q, h)
  BY <1>3, <1>4 DEF Stage
<1>8. Lifecycle!Move(q, k, "queued", "in flight")
  BY <1>3, <1>5, <1>6, <1>7, AbstractMove DEF Launches
<1>9. Cardinality(Lifecycle!InFlight(q)) < MAX_QUEUE_PENDING_REQUESTS
  BY RoomInFlight DEF Launches
<1> QED
  BY <1>3, <1>8, <1>9
  DEF Lifecycle!Fetch, Lifecycle!Cardinality, Cardinality, Lifecycle!IsFiniteSet, IsFiniteSet

\* A site comes with nothing in flight.
LEMMA ComesAbstract ==
  ASSUME TInv, CountInv, UrlInv, NEW q \in Queues, NEW e \in QueueInfo, Comes(q, e)
  PROVE  Lifecycle!Open(q)
<1> DEFINE d == [e EXCEPT !.queue_id = cur_queue_id + 1]
<1>1. SameRequests /\ ~Loaded(q) /\ Becomes(q, d)
  BY DEF Comes
<1>2. d.queue_id # 0
  BY Counters DEF QueueInfo
<1> HIDE DEF d
<1>3. \A p : InFlight(p)' = InFlight(p)
  BY <1>1, FlightsRest
<1>4. \A p \in Queues \ {q} : SamePlaces(p) /\ (Loaded(p)' <=> Loaded(p))
  BY <1>1, <1>3, OtherEntries
<1>5. q \notin LoadedEntries /\ LoadedEntries' = LoadedEntries \cup {q}
  BY <1>1, <1>2, <1>4 DEF LoadedEntries, Becomes, Loaded
<1>6. InFlight(q)' = {}
  <2>1. RequestsOf(q) = {}
    BY <1>1, RequestOfSite
  <2> QED
    BY <1>3, <2>1 DEF InFlight
<1>7. PICK start : start = [k \in HashValue |-> Stage(q, k)']
  OBVIOUS
<1>8. start \in [HashValue -> Lifecycle!Stages \ {"in flight"}]
  BY <1>6, <1>7 DEF Stage, Lifecycle!Stages
<1>9. StageOf' = [StageOf EXCEPT ![q] = start]
  <2>1. ASSUME NEW p \in Queues \ {q}, NEW h \in HashValue PROVE Stage(p, h)' = Stage(p, h)
    BY <1>4, StagesStay
  <2>2. StageOf'[q] = start
    BY <1>7 DEF StageOf
  <2> QED
    BY <2>1, <2>2 DEF StageOf
<1> QED
  BY <1>5, <1>8, <1>9 DEF Lifecycle!Open, LoadedEntries, StageOf

\* A site that goes leaves an entry that knows no URL.
LEMMA GoesAbstract ==
  ASSUME NEW q \in Queues, Goes(q)
  PROVE  Lifecycle!Close(q)
<1>1. Loaded(q) /\ Becomes(q, EmptyQueue)
  BY DEF Goes
<1>2. InFlight(q)' = {} /\ \A p : p # q => InFlight(p)' = InFlight(p)
  BY FlightsGo
<1>3. \A p \in Queues \ {q} : SamePlaces(p) /\ (Loaded(p)' <=> Loaded(p))
  BY <1>1, <1>2, OtherEntries
<1>4. q \in LoadedEntries /\ LoadedEntries' = LoadedEntries \ {q}
  BY <1>1, <1>3 DEF LoadedEntries, Becomes, Loaded, EmptyQueue
<1>5. Queued(q)' = {} /\ queue_info_table'[q].urls_seen = {}
  BY <1>1, EmptyKnown, QueuedAgain DEF Becomes, EmptyQueue
<1>6. \A k \in HashValue : Stage(q, k)' = "unseen"
  BY <1>2, <1>5 DEF Stage
<1>7. StageOf' = [StageOf EXCEPT ![q] = Lifecycle!Nothing]
  <2>1. ASSUME NEW p \in Queues \ {q}, NEW h \in HashValue PROVE Stage(p, h)' = Stage(p, h)
    BY <1>3, StagesStay
  <2>2. StageOf'[q] = Lifecycle!Nothing
    BY <1>6 DEF StageOf, Lifecycle!Nothing
  <2> QED
    BY <2>1, <2>2 DEF StageOf
<1> QED
  BY <1>4, <1>7 DEF Lifecycle!Close, LoadedEntries, StageOf

LEMMA InitAbstract == Init => Lifecycle!Init
<1> SUFFICES ASSUME Init PROVE Lifecycle!Init
  OBVIOUS
<1>1. ASSUME NEW q \in Queues
      PROVE  ~Loaded(q) /\ \A k \in HashValue : Stage(q, k) = "unseen"
  <2>1. queue_info_table[q] = EmptyQueue /\ RequestsOf(q) = {}
    BY DEF Init, RequestsOf, Live, FreeRequest
  <2>2. Queued(q) = {} /\ InFlight(q) = {} /\ queue_info_table[q].urls_seen = {}
    BY <2>1, EmptyKnown, QueuedAgain DEF EmptyQueue, InFlight
  <2> QED
    BY <2>1, <2>2 DEF Stage, Loaded, EmptyQueue
<1>2. StageOf = [q \in Queues |-> Lifecycle!Nothing]
  BY <1>1 DEF StageOf, Lifecycle!Nothing
<1>3. LoadedEntries = {}
  BY <1>1 DEF LoadedEntries
<1> QED
  BY <1>2, <1>3 DEF Lifecycle!Init, LoadedEntries, StageOf

LEMMA StepAbstract ==
  ASSUME TInv, CountInv, UrlInv, [Next]_vars
  PROVE  Lifecycle!Next \/ UNCHANGED <<LoadedEntries, StageOf>>
<1>1. ASSUME NEW q \in Queues, NEW k \in HashValue,
             \/ Lifecycle!Find(q, k) \/ Lifecycle!Fetch(q, k)
             \/ Lifecycle!Drop(q, k) \/ Lifecycle!Finish(q, k)
      PROVE  Lifecycle!Next
  BY <1>1 DEF Lifecycle!Next
<1>2. ASSUME NEW q \in Queues, Lifecycle!Open(q) \/ Lifecycle!Close(q) PROVE Lifecycle!Next
  BY <1>2 DEF Lifecycle!Next
<1>3. ASSUME NEW s \in Slot, NEW info \in UrlInfo, NEW verdict \in Verdicts,
             Offers(s, info, verdict)
      PROVE  Lifecycle!Next \/ UNCHANGED <<LoadedEntries, StageOf>>
  BY <1>1, <1>3, OffersAbstract
<1>4. ASSUME NEW s \in Slot, Ends(s) PROVE Lifecycle!Next
  BY <1>1, <1>4, EndsAbstract
<1>5. ASSUME NEW q \in Queues, NEW s \in Slot, NEW f \in FmSlot, Launches(q, s, f)
      PROVE  Lifecycle!Next
  BY <1>1, <1>5, LaunchesAbstract
<1>6. ASSUME NEW q \in Queues, Loses(q) PROVE Lifecycle!Next
  BY <1>1, <1>6, LosesAbstract
<1>7. ASSUME NEW q \in Queues, NEW e \in QueueInfo, Comes(q, e) PROVE Lifecycle!Next
  BY <1>2, <1>7, ComesAbstract
<1>8. ASSUME NEW q \in Queues, Goes(q) PROVE Lifecycle!Next
  BY <1>2, <1>8, GoesAbstract
<1> QED
  BY <1>3, <1>4, <1>5, <1>6, <1>7, <1>8, StepKinds, RestsAbstract, ResumesAbstract DEF Kinds

\* The crawl server implements UrlLifecycle: each URL of a site is found once, waits
\* once, is with the fetch module once, retries included, and is never asked for
\* again; no site has more than MAX_QUEUE_PENDING_REQUESTS of them in flight.
THEOREM LifecycleImplemented == Spec => ImplementsLifecycle
<1>1. TInv /\ CountInv /\ UrlInv /\ [Next]_vars
        => [Lifecycle!Next]_<<{ q \in Queues : Loaded(q) },
                              [q \in Queues |-> [k \in HashValue |-> Stage(q, k)]]>>
  BY StepAbstract DEF LoadedEntries, StageOf
<1> QED
  BY <1>1, InitAbstract, UrlsHold, PTL DEF Spec, ImplementsLifecycle, Lifecycle!Spec
=============================================================================
