-------------------------- MODULE RepositoryProofs --------------------------
(***************************************************************************)
(* Theorems about Repository, for every value of its constants: types; and *)
(* what a reader returns is what was stored, in order (PagesWhole),        *)
(* whatever is flushed, cut short, abandoned or begun anew meanwhile.      *)
(***************************************************************************)
EXTENDS Repository, SequenceTheorems, TLAPS

Piece == Nat \X Nat
PageRec == [size : BodySizes, open : Nat, whole : BOOLEAN]
WriterPlace == {"closed", "idle", "header", "body", "creat", "list", "listed", "switch"}
WriterRec == [at : WriterPlace, then : {"idle", "header", "body"}, last : Int, pos : Nat,
              file_size : Nat, buffered : Seq(Piece), rolled : BOOLEAN]

StoreTypes ==
  /\ disk \in [Chunk -> Seq(Piece)] /\ listed \in Nat
  /\ w \in WriterRec /\ pages \in Seq(PageRec)
  /\ opens \in Nat /\ mishaps \in Nat /\ compressed \in BOOLEAN

P == Len(pages)
Storing == w.at # "closed"
Making == w.at \in {"creat", "list", "listed", "switch"}

\* The part that the last page is at, also while a chunk is added for it.
Phase == IF Making THEN w.then ELSE w.at

\* The number of chunks is bounded by the number of parts.
ChunksFor(phase, rolled) ==
  CASE phase = "header" -> 2 * P - 3 + (IF rolled THEN 1 ELSE 0)
    [] phase = "body" -> 2 * P - 2 + (IF rolled THEN 1 ELSE 0)
    [] OTHER -> 2 * P - 1

AtFirst == w.last = -1
FirstShape ==
  Making /\ w.then = "header" /\ w.buffered = << >> /\ w.pos = 0 /\ ~w.rolled
  /\ (w.at = "switch" => listed = 1)
LaterShape ==
  /\ Len(disk[w.last]) + Len(w.buffered) = w.pos
  /\ listed <= w.last + 1 \/ (w.at = "switch" /\ listed = w.last + 2)
StoringShape ==
  /\ P > 0 /\ opens > 0 /\ pages[P].open = opens
  /\ w.last >= -1 /\ w.last <= ChunksFor(Phase, w.rolled)
  /\ Making => w.then \in {"header", "body"}
  /\ AtFirst => FirstShape
  /\ ~AtFirst => LaterShape
  /\ w.rolled => w.pos = 0 /\ w.at \in {"header", "body"}
  /\ w.at \in {"list", "listed", "switch"} => disk[w.last + 1] = << >>
Bounds ==
  /\ P <= MaxPages /\ opens <= MaxOpens /\ mishaps <= MaxMishaps
  /\ listed <= 2 * P + 1
  /\ w.pos <= MAX_FILE_SIZE /\ w.file_size <= w.pos
  /\ \A c \in Chunk : Len(disk[c]) <= MAX_FILE_SIZE
  /\ \A p \in DOMAIN pages : pages[p].open \in 1 .. opens
WriterInv ==
  /\ StoreTypes /\ Bounds
  /\ w.at = "closed" => w = Closed
  /\ Storing => StoringShape

-----------------------------------------------------------------------------
(* Sequences *)

LEMMA Joined ==
  ASSUME NEW S, NEW s \in Seq(S), NEW t \in Seq(S)
  PROVE  /\ s \o t \in Seq(S) /\ Len(s \o t) = Len(s) + Len(t)
         /\ \A i \in 1 .. Len(s) : (s \o t)[i] = s[i]
         /\ \A i \in 1 .. Len(t) : (s \o t)[Len(s) + i] = t[i]
         /\ \A i \in 1 .. Len(s \o t) : i <= Len(s) \/ \E j \in 1 .. Len(t) : i = Len(s) + j
<1>1. s \o t \in Seq(S) /\ Len(s \o t) = Len(s) + Len(t)
  OBVIOUS
<1>2. \A i \in 1 .. Len(s) : (s \o t)[i] = s[i]
  OBVIOUS
<1>3. ASSUME NEW i \in 1 .. Len(t)
      PROVE  (s \o t)[Len(s) + i] = t[i]
  OBVIOUS
<1>4. ASSUME NEW i \in 1 .. Len(s \o t), ~(i <= Len(s))
      PROVE  \E j \in 1 .. Len(t) : i = Len(s) + j
  <2>1. i - Len(s) \in 1 .. Len(t) /\ i = Len(s) + (i - Len(s))
    BY <1>1, <1>4
  <2> QED
    BY <2>1
<1> QED
  BY <1>1, <1>2, <1>3, <1>4

LEMMA PiecesJoined ==
  ASSUME NEW s \in Seq(Piece), NEW t \in Seq(Piece)
  PROVE  /\ s \o t \in Seq(Piece) /\ Len(s \o t) = Len(s) + Len(t)
         /\ Len(s) \in Nat /\ Len(t) \in Nat /\ Len(s \o t) \in Nat
         /\ \A i \in 1 .. Len(s) : (s \o t)[i] = s[i]
         /\ \A i \in 1 .. Len(t) : (s \o t)[Len(s) + i] = t[i]
         /\ \A i \in 1 .. Len(s \o t) : i <= Len(s) \/ \E j \in 1 .. Len(t) : i = Len(s) + j
<1>1. Len(s) \in Nat /\ Len(t) \in Nat /\ Len(s \o t) \in Nat
  OBVIOUS
<1> QED
  BY <1>1, Joined

LEMMA AddedUp ==
  ASSUME NEW a \in Nat, NEW b \in Nat, NEW m \in Nat
  PROVE  a + (b + m) = (a + b) + m
OBVIOUS

LEMMA PieceOfSeq ==
  ASSUME NEW S, NEW s \in Seq(S), NEW m \in Nat, NEW n \in Nat, m + n <= Len(s)
  PROVE  /\ SubSeq(s, m + 1, m + n) \in Seq(S) /\ Len(SubSeq(s, m + 1, m + n)) = n
         /\ \A i \in 1 .. n : SubSeq(s, m + 1, m + n)[i] = s[m + i]
OBVIOUS

LEMMA Beginning ==
  ASSUME NEW S, NEW s \in Seq(S), NEW n \in Nat, n <= Len(s)
  PROVE  /\ SubSeq(s, 1, n) \in Seq(S) /\ Len(SubSeq(s, 1, n)) = n
         /\ \A i \in 1 .. n : SubSeq(s, 1, n)[i] = s[i]
OBVIOUS

LEMMA SameSeq ==
  ASSUME NEW S, NEW s \in Seq(S), NEW t \in Seq(S), Len(s) = Len(t),
         \A i \in 1 .. Len(s) : s[i] = t[i]
  PROVE  s = t
OBVIOUS

-----------------------------------------------------------------------------
(* What is written *)

LEMMA LastPage ==
  ASSUME WriterInv, Storing
  PROVE  /\ P \in Nat \ {0} /\ P \in DOMAIN pages /\ pages[P] \in PageRec
         /\ pages[P].size \in BodySizes /\ pages[P].size \in Nat
         /\ 3 + pages[P].size <= MAX_FILE_SIZE
<1>1. pages \in Seq(PageRec) /\ P \in Nat /\ P > 0
  BY DEF WriterInv, StoreTypes, StoringShape, P
<1>2. pages[P] \in PageRec /\ P \in DOMAIN pages
  BY <1>1 DEF P
<1>3. pages[P].size \in BodySizes
  BY <1>2 DEF PageRec
<1>4. \A n \in BodySizes : n \in Nat /\ 3 + n <= MAX_FILE_SIZE
  BY RepositoryAssumption
<1>5. P \in Nat \ {0}
  BY <1>1
<1> QED
  BY <1>2, <1>3, <1>4, <1>5

\* The pieces of the part that is written now.
Base == IF w.at = "header" THEN 0 ELSE 3
PartLen == IF w.at = "header" THEN 3 ELSE pages[P].size

LEMMA BodyIs ==
  ASSUME NEW p \in Nat, NEW n \in Nat, pages[p].size = n
  PROVE  /\ Body(p) \in Seq(Piece) /\ Len(Body(p)) = n
         /\ \A i \in 1 .. n : Body(p)[i] = <<p, 3 + i>>
<1> DEFINE body == [k \in 1 .. n |-> <<p, 3 + k>>]
<1>1. body \in Seq(Piece) /\ Len(body) = n
  BY DEF Piece
<1>2. Body(p) = body
  BY DEF Body
<1> QED
  BY <1>1, <1>2

LEMMA RecordIs ==
  ASSUME NEW p \in Nat, NEW n \in Nat, pages[p].size = n
  PROVE  /\ Record(p) \in Seq(Piece) /\ Len(Record(p)) = 3 + n
         /\ \A i \in 1 .. 3 + n : Record(p)[i] = <<p, i>>
<1> DEFINE head == << <<p, 1>>, <<p, 2>>, <<p, 3>> >>
<1>1. head \in Seq(Piece) /\ Len(head) = 3 /\ \A i \in 1 .. 3 : head[i] = <<p, i>>
  BY DEF Piece
<1>2. PICK b \in Seq(Piece) : b = Body(p) /\ Len(b) = n /\ \A i \in 1 .. n : b[i] = <<p, 3 + i>>
  BY BodyIs
<1>3. Record(p) = head \o b
  BY <1>2 DEF Record
<1>4. PICK h \in Seq(Piece) : h = head /\ Len(h) = 3 /\ \A i \in 1 .. 3 : h[i] = <<p, i>>
  BY <1>1
<1>5. /\ h \o b \in Seq(Piece) /\ Len(h \o b) = 3 + n
      /\ \A i \in 1 .. 3 : (h \o b)[i] = h[i]
      /\ \A i \in 1 .. n : (h \o b)[3 + i] = b[i]
      /\ \A i \in 1 .. 3 + n : i <= 3 \/ \E j \in 1 .. n : i = 3 + j
  <2>1. Len(h) = 3 /\ Len(b) = n
    BY <1>2, <1>4
  <2>2. /\ h \o b \in Seq(Piece) /\ Len(h \o b) = Len(h) + Len(b)
        /\ \A i \in 1 .. Len(h) : (h \o b)[i] = h[i]
        /\ \A i \in 1 .. Len(b) : (h \o b)[Len(h) + i] = b[i]
        /\ \A i \in 1 .. Len(h \o b) : i <= Len(h) \/ \E j \in 1 .. Len(b) : i = Len(h) + j
    BY PiecesJoined
  <2> QED
    BY <2>1, <2>2
<1>6. ASSUME NEW i \in 1 .. 3 + n
      PROVE  (h \o b)[i] = <<p, i>>
  <2>1. CASE i <= 3
    BY <1>4, <1>5, <2>1
  <2>2. CASE \E j \in 1 .. n : i = 3 + j
    BY <1>2, <1>5, <2>2
  <2> QED
    BY <1>5, <2>1, <2>2
<1> QED
  BY <1>3, <1>4, <1>5, <1>6

LEMMA PartIs ==
  ASSUME WriterInv, w.at \in {"header", "body"}
  PROVE  /\ Part \in Seq(Piece) /\ Len(Part) = PartLen /\ PartLen \in Nat
         /\ PartLen <= MAX_FILE_SIZE
         /\ \A i \in 1 .. PartLen : Part[i] = <<P, Base + i>>
<1>1. Storing
  BY DEF Storing
<1>2. PICK n \in Nat : n = pages[P].size /\ 3 + n <= MAX_FILE_SIZE
  BY <1>1, LastPage
<1>3. P \in Nat
  BY <1>1, LastPage
<1>4. CASE w.at = "header"
  <2>1. PICK rec \in Seq(Piece) : rec = Record(P) /\ Len(rec) = 3 + n /\ \A i \in 1 .. 3 + n : rec[i] = <<P, i>>
    BY <1>2, <1>3, RecordIs
  <2>2. Part = SubSeq(rec, 1, 3)
    BY <1>4, <2>1 DEF Part, P
  <2>3. SubSeq(rec, 1, 3) \in Seq(Piece) /\ Len(SubSeq(rec, 1, 3)) = 3
        /\ \A i \in 1 .. 3 : SubSeq(rec, 1, 3)[i] = rec[i]
    BY <2>1
  <2>4. PartLen = 3 /\ Base = 0
    BY <1>4 DEF PartLen, Base
  <2>5. \A i \in 1 .. 3 : Part[i] = <<P, Base + i>>
    <3>1. \A i \in 1 .. 3 : i \in 1 .. 3 + n /\ Base + i = i
      BY <1>2, <2>4
    <3> QED
      BY <2>1, <2>2, <2>3, <3>1
  <2>6. PartLen \in Nat /\ PartLen <= MAX_FILE_SIZE
    BY <1>2, <2>4, RepositoryAssumption
  <2> QED
    BY <2>2, <2>3, <2>4, <2>5, <2>6
<1>5. CASE w.at = "body"
  <2>1. Part = Body(P)
    BY <1>5 DEF Part, P
  <2> QED
    BY <1>2, <1>3, <1>5, <2>1, BodyIs, RepositoryAssumption DEF PartLen, Base
<1> QED
  BY <1>4, <1>5

-----------------------------------------------------------------------------
(* The types and the shape of what the storing process has *)

LEMMA Room ==
  ASSUME WriterInv, Storing
  PROVE  /\ w.last \in Int /\ w.last >= -1 /\ w.last + 1 \in Chunk
         /\ ~AtFirst => w.last \in Chunk
         /\ P \in Nat \ {0} /\ P <= MaxPages /\ w.last + 2 <= 2 * P + 1
<1>1. /\ P \in Nat \ {0} /\ P <= MaxPages /\ MaxPages \in Nat
  BY LastPage, RepositoryAssumption DEF WriterInv, Bounds
<1>2. w.last \in Int /\ w.last >= -1 /\ w.last <= ChunksFor(Phase, w.rolled)
  BY DEF WriterInv, StoreTypes, WriterRec, StoringShape
<1>3. ChunksFor(Phase, w.rolled) \in Int /\ ChunksFor(Phase, w.rolled) <= 2 * P - 1
  <2>1. CASE Phase = "header"
    BY <1>1, <2>1 DEF ChunksFor
  <2>2. CASE Phase = "body"
    BY <1>1, <2>2 DEF ChunksFor
  <2>3. CASE Phase \notin {"header", "body"}
    BY <1>1, <2>3 DEF ChunksFor
  <2> QED
    BY <2>1, <2>2, <2>3
<1>4. w.last <= 2 * P - 1
  BY <1>1, <1>2, <1>3
<1> QED
  BY <1>1, <1>2, <1>4 DEF Chunk, AtFirst

LEMMA InitWriter == RepositoryInit => WriterInv
<1> SUFFICES ASSUME RepositoryInit
             PROVE  WriterInv
  OBVIOUS
<1> USE RepositoryAssumption DEF RepositoryInit
<1>1. Closed \in WriterRec
  BY DEF Closed, WriterRec, WriterPlace
<1>2. StoreTypes
  BY <1>1 DEF StoreTypes
<1>3. Bounds
  BY DEF Bounds, Closed, P
<1> QED
  BY <1>2, <1>3 DEF WriterInv, Storing, Closed

LEMMA StoreTyped ==
  ASSUME WriterInv, NEW size \in BodySizes, store(size)
  PROVE  WriterInv'
<1> DEFINE open == IF w.at = "closed" THEN opens + 1 ELSE opens
           page == [size |-> size, open |-> open, whole |-> TRUE]
<1>1. StoreTypes /\ Bounds /\ P \in Nat /\ MaxPages \in Nat /\ MaxOpens \in Nat
  BY RepositoryAssumption DEF WriterInv, StoreTypes, P
<1>2. w.at \in {"closed", "idle"} /\ P < MaxPages /\ (w.at = "closed" => opens < MaxOpens)
  BY DEF store, P
<1>3. page \in PageRec
  BY <1>1 DEF PageRec, StoreTypes
<1>4. pages' = Append(pages, page) /\ UNCHANGED <<disk, listed, mishaps, compressed>>
  BY DEF store
<1>5. /\ pages' \in Seq(PageRec) /\ P' = P + 1 /\ pages'[P'] = page
      /\ \A p \in DOMAIN pages' : p = P + 1 \/ (p \in DOMAIN pages /\ pages'[p] = pages[p])
  BY <1>1, <1>3, <1>4 DEF StoreTypes, P
<1>6. opens' = open /\ opens' \in Nat /\ opens' > 0 /\ opens' <= MaxOpens /\ opens <= opens'
  BY <1>1, <1>2 DEF store, StoreTypes, Bounds, WriterInv, StoringShape, Storing
<1>7. w' \in WriterRec /\ w'.pos <= MAX_FILE_SIZE /\ w'.file_size <= w'.pos
  <2>1. CASE w.at = "closed"
    <3>1. w' = [at |-> "creat", then |-> "header", last |-> -1, pos |-> 0, file_size |-> 0,
                buffered |-> << >>, rolled |-> FALSE]
      BY <2>1 DEF store, Closed
    <3> QED
      BY <3>1, RepositoryAssumption DEF WriterRec, WriterPlace
  <2>2. CASE w.at = "idle"
    <3>1. w' = [w EXCEPT !.at = "header"] /\ w \in WriterRec
      BY <1>1, <2>2 DEF store, StoreTypes
    <3>2. w' \in WriterRec /\ w'.pos = w.pos /\ w'.file_size = w.file_size
      BY <3>1 DEF WriterRec, WriterPlace
    <3> QED
      BY <1>1, <3>2 DEF Bounds
  <2> QED
    BY <1>2, <2>1, <2>2
<1>8. StoreTypes'
  BY <1>1, <1>4, <1>5, <1>6, <1>7 DEF StoreTypes
<1>9. Bounds'
  <2>1. ASSUME NEW p \in DOMAIN pages'
        PROVE  pages'[p].open \in 1 .. opens'
    <3>1. CASE p \in DOMAIN pages /\ pages'[p] = pages[p]
      BY <1>1, <1>6, <3>1 DEF Bounds, StoreTypes
    <3>2. CASE p = P + 1
      BY <1>5, <1>6, <3>2
    <3> QED
      BY <1>5, <3>1, <3>2
  <2>2. listed' <= 2 * P' + 1 /\ mishaps' <= MaxMishaps /\ \A c \in Chunk : Len(disk'[c]) <= MAX_FILE_SIZE
    BY <1>1, <1>4, <1>5 DEF Bounds, StoreTypes
  <2> QED
    BY <1>1, <1>2, <1>5, <1>6, <1>7, <2>1, <2>2 DEF Bounds
<1>10. pages'[P'].open = opens' /\ P' > 0
  BY <1>1, <1>5, <1>6
<1>11. CASE w.at = "closed"
  <2>1. /\ w'.at = "creat" /\ w'.then = "header" /\ w'.last = -1 /\ w'.pos = 0
        /\ w'.buffered = << >> /\ w'.rolled = FALSE
    BY <1>11 DEF store, Closed
  <2>2. Making' /\ Phase' = "header" /\ AtFirst' /\ FirstShape'
    BY <2>1 DEF Making, Phase, AtFirst, FirstShape
  <2>3. w'.last <= ChunksFor(Phase, w.rolled)'
    BY <1>1, <1>5, <2>1, <2>2 DEF ChunksFor
  <2>4. StoringShape'
    BY <1>6, <1>10, <2>1, <2>2, <2>3 DEF StoringShape
  <2> QED
    BY <1>8, <1>9, <2>1, <2>4 DEF WriterInv
<1>12. CASE w.at = "idle"
  <2>1. w' = [w EXCEPT !.at = "header"] /\ w.rolled = FALSE /\ ~AtFirst /\ LaterShape /\ StoringShape
    BY <1>1, <1>2, <1>12 DEF store, WriterInv, Storing, StoringShape, FirstShape, Making, StoreTypes, WriterRec
  <2>2. /\ w'.at = "header" /\ w'.last = w.last /\ w'.pos = w.pos
        /\ w'.buffered = w.buffered /\ w'.rolled = FALSE
    BY <1>1, <2>1 DEF StoreTypes, WriterRec
  <2>3. ~Making' /\ Phase' = "header" /\ ~AtFirst' /\ LaterShape'
    BY <1>4, <1>12, <2>1, <2>2 DEF Making, Phase, AtFirst, LaterShape
  <2>4. w.last <= 2 * P - 1 /\ w.last \in Int /\ w.last >= -1
    BY <1>1, <1>12, <2>1 DEF StoringShape, Phase, Making, ChunksFor, StoreTypes, WriterRec
  <2>5. w'.last <= ChunksFor(Phase, w.rolled)'
    BY <1>1, <1>5, <2>2, <2>3, <2>4 DEF ChunksFor
  <2>6. StoringShape'
    BY <1>6, <1>10, <2>2, <2>3, <2>4, <2>5 DEF StoringShape
  <2> QED
    BY <1>8, <1>9, <2>2, <2>6 DEF WriterInv
<1> QED
  BY <1>2, <1>11, <1>12
\* A step that stores no new page.
LEMMA SamePages ==
  ASSUME WriterInv, pages' \in Seq(PageRec), Len(pages') = P,
         \A p \in DOMAIN pages : pages'[p].open = pages[p].open,
         opens' = opens, mishaps' \in Nat, mishaps' <= MaxMishaps, compressed' = compressed,
         disk' \in [Chunk -> Seq(Piece)], \A c \in Chunk : Len(disk'[c]) <= MAX_FILE_SIZE,
         listed' \in Nat, listed' <= 2 * P + 1,
         w' \in WriterRec, w'.pos <= MAX_FILE_SIZE, w'.file_size <= w'.pos
  PROVE  /\ StoreTypes' /\ Bounds' /\ P' = P
         /\ Storing => P' > 0 /\ opens' > 0 /\ pages'[P'].open = opens'
<1>1. StoreTypes /\ Bounds /\ P \in Nat /\ DOMAIN pages = 1 .. P /\ DOMAIN pages' = 1 .. P
  BY DEF WriterInv, StoreTypes, P
<1>2. StoreTypes' /\ P' = P
  BY <1>1 DEF StoreTypes, P
<1>3. Bounds'
  BY <1>1, <1>2 DEF Bounds
<1>4. ASSUME Storing
      PROVE  P' > 0 /\ opens' > 0 /\ pages'[P'].open = opens'
  <2>1. P > 0 /\ opens > 0 /\ pages[P].open = opens
    BY <1>4 DEF WriterInv, StoringShape
  <2> QED
    BY <1>1, <1>2, <2>1
<1> QED
  BY <1>2, <1>3, <1>4

LEMMA SameStore ==
  ASSUME WriterInv
  PROVE  /\ w \in WriterRec /\ w.pos <= MAX_FILE_SIZE /\ w.file_size <= w.pos
         /\ pages \in Seq(PageRec) /\ Len(pages) = P /\ P \in Nat
         /\ \A p \in DOMAIN pages : pages[p].open = pages[p].open
         /\ opens \in Nat /\ mishaps \in Nat /\ mishaps <= MaxMishaps
         /\ disk \in [Chunk -> Seq(Piece)] /\ \A c \in Chunk : Len(disk[c]) <= MAX_FILE_SIZE
         /\ listed \in Nat /\ listed <= 2 * P + 1
BY DEF WriterInv, StoreTypes, Bounds, P

\* What a part adds: at most its pieces, and all of them unless it is cut short.
Takes(m) ==
  /\ m \in 0 .. PartLen
  /\ w' = [w EXCEPT !.at = AfterPart, !.buffered = @ \o SubSeq(Part, 1, m), !.pos = @ + m,
                    !.file_size = IF m = PartLen THEN w.pos + m ELSE @, !.rolled = FALSE]
  /\ IF m = PartLen THEN UNCHANGED <<pages, mishaps>>
     ELSE /\ mishaps < MaxMishaps /\ mishaps' = mishaps + 1
          /\ pages' = [pages EXCEPT ![P].whole = FALSE]

LEMMA WritePartIs ==
  ASSUME WriterInv, WritePart
  PROVE  \E m \in 0 .. PartLen : Takes(m)
<1>1. w.at \in {"header", "body"} /\ w \in WriterRec
  BY DEF WritePart, WriterInv, StoreTypes
<1>2. PICK q \in Seq(Piece) : q = Part /\ Len(q) = PartLen /\ PartLen \in Nat
  BY <1>1, PartIs
<1>3. CASE /\ w' = [w EXCEPT !.at = AfterPart, !.buffered = @ \o Part, !.pos = @ + Len(Part),
                             !.file_size = w.pos + Len(Part), !.rolled = FALSE]
           /\ UNCHANGED <<pages, mishaps>>
  <2>1. SubSeq(Part, 1, PartLen) = Part
    <3>1. SubSeq(q, 1, Len(q)) = q
      OBVIOUS
    <3> QED
      BY <1>2, <3>1
  <2>2. Len(Part) = PartLen /\ PartLen \in 0 .. PartLen
    BY <1>2
  <2>3. w' = [w EXCEPT !.at = AfterPart, !.buffered = @ \o SubSeq(Part, 1, PartLen), !.pos = @ + PartLen,
                       !.file_size = IF PartLen = PartLen THEN w.pos + PartLen ELSE @, !.rolled = FALSE]
    BY <1>3, <2>1, <2>2
  <2>4. Takes(PartLen)
    BY <1>3, <2>2, <2>3 DEF Takes
  <2> QED
    BY <2>2, <2>4
<1>4. ASSUME NEW k \in 1 .. Len(Part) - 1, mishaps < MaxMishaps, mishaps' = mishaps + 1,
             w' = [w EXCEPT !.at = AfterPart, !.buffered = @ \o SubSeq(Part, 1, k), !.pos = @ + k,
                            !.rolled = FALSE],
             pages' = [pages EXCEPT ![Len(pages)].whole = FALSE]
      PROVE  Takes(k) /\ k \in 0 .. PartLen
  <2>1. k \in 0 .. PartLen /\ k # PartLen
    BY <1>2, <1>4
  <2>2. w' = [w EXCEPT !.at = AfterPart, !.buffered = @ \o SubSeq(Part, 1, k), !.pos = @ + k,
                       !.file_size = @, !.rolled = FALSE]
    BY <1>1, <1>4 DEF WriterRec
  <2> QED
    BY <1>4, <2>1, <2>2 DEF Takes, P
<1> QED
  BY <1>3, <1>4 DEF WritePart
LEMMA WriteTyped ==
  ASSUME WriterInv, NEW m \in 0 .. PartLen, Takes(m), w.at \in {"header", "body"},
         w.rolled \/ Fits, UNCHANGED <<disk, listed, opens, compressed>>
  PROVE  WriterInv'
<1>1. PICK q : q = Part /\ q \in Seq(Piece) /\ Len(q) = PartLen /\ PartLen \in Nat /\ PartLen <= MAX_FILE_SIZE
  BY PartIs
<1>2. Storing /\ ~Making
  BY DEF Storing, Making
<1>3. PICK t : t = SubSeq(Part, 1, m) /\ t \in Seq(Piece) /\ Len(t) = m /\ m \in Nat /\ m <= PartLen
  <2>1. m \in Nat /\ m <= PartLen /\ m <= Len(q)
    BY <1>1
  <2>2. SubSeq(q, 1, m) \in Seq(Piece) /\ Len(SubSeq(q, 1, m)) = m
    BY <1>1, <2>1, Beginning
  <2> QED
    BY <1>1, <2>1, <2>2
<1>4. /\ w \in WriterRec /\ w.pos <= MAX_FILE_SIZE /\ w.file_size <= w.pos /\ MAX_FILE_SIZE \in Nat
      /\ StoringShape
  BY <1>2, RepositoryAssumption DEF WriterInv, StoreTypes, Bounds
<1>5. ~AtFirst /\ LaterShape
  BY <1>2, <1>4 DEF StoringShape, FirstShape
<1>6. /\ w'.at = AfterPart /\ w'.buffered = w.buffered \o t /\ w'.pos = w.pos + m
      /\ w'.file_size = (IF m = PartLen THEN w.pos + m ELSE w.file_size) /\ w'.rolled = FALSE
      /\ w'.last = w.last /\ w'.then = w.then
  BY <1>3, <1>4 DEF Takes, WriterRec
<1>7. w.buffered \o t \in Seq(Piece) /\ Len(w.buffered \o t) = Len(w.buffered) + m /\ Len(w.buffered) \in Nat
  <2>1. w.buffered \in Seq(Piece) /\ t \in Seq(Piece) /\ Len(t) = m
    BY <1>3, <1>4 DEF WriterRec
  <2>2. w.buffered \o t \in Seq(Piece) /\ Len(w.buffered \o t) = Len(w.buffered) + Len(t)
    BY <2>1, PiecesJoined
  <2> QED
    BY <2>1, <2>2
<1>8. AfterPart \in WriterPlace
  BY DEF AfterPart, WriterPlace
<1>9. w' \in WriterRec
  <2>1. w' = [w EXCEPT !.at = AfterPart, !.buffered = w.buffered \o t, !.pos = w.pos + m,
                       !.file_size = IF m = PartLen THEN w.pos + m ELSE w.file_size, !.rolled = FALSE]
    BY <1>3 DEF Takes
  <2>2. w.pos + m \in Nat /\ (IF m = PartLen THEN w.pos + m ELSE w.file_size) \in Nat
    BY <1>3, <1>4 DEF WriterRec
  <2> QED
    BY <1>4, <1>7, <1>8, <2>1, <2>2 DEF WriterRec
<1>10. w.pos + m <= MAX_FILE_SIZE
  <2>1. CASE w.rolled
    <3>1. w.pos = 0
      BY <1>4, <2>1 DEF StoringShape
    <3> QED
      BY <1>1, <1>3, <1>4, <3>1
  <2>2. CASE Fits
    <3>1. w.pos + PartLen < MAX_FILE_SIZE
      BY <1>1, <2>2 DEF Fits
    <3> QED
      BY <1>1, <1>3, <1>4, <3>1 DEF WriterRec
  <2> QED
    BY <2>1, <2>2
<1>11. w'.pos <= MAX_FILE_SIZE /\ w'.file_size <= w'.pos
  BY <1>3, <1>4, <1>6, <1>10 DEF WriterRec
<1>12. PICK x \in PageRec : x = pages[P]
  BY <1>2, LastPage
<1>13. /\ pages' \in Seq(PageRec) /\ Len(pages') = P
       /\ \A p \in DOMAIN pages : pages'[p].open = pages[p].open
  <2>1. pages \in Seq(PageRec) /\ Len(pages) = P /\ P \in DOMAIN pages
    BY <1>2, SameStore, LastPage
  <2>2. CASE m = PartLen
    BY <2>1, <2>2 DEF Takes
  <2>3. CASE m # PartLen
    <3>1. [x EXCEPT !.whole = FALSE] \in PageRec /\ [x EXCEPT !.whole = FALSE].open = x.open
      BY <1>12 DEF PageRec
    <3>2. pages' = [pages EXCEPT ![P] = [x EXCEPT !.whole = FALSE]]
      BY <1>12, <2>3 DEF Takes
    <3> QED
      BY <1>12, <2>1, <3>1, <3>2
  <2> QED
    BY <2>2, <2>3
<1>14. mishaps' \in Nat /\ mishaps' <= MaxMishaps
  BY SameStore, RepositoryAssumption DEF Takes
<1>15. /\ StoreTypes' /\ Bounds' /\ P' = P
       /\ P' > 0 /\ opens' > 0 /\ pages'[P'].open = opens'
  BY <1>2, <1>9, <1>11, <1>13, <1>14, SamePages, SameStore
<1>16. ~Making' /\ ~AtFirst' /\ w'.at # "closed" /\ w'.at \notin {"list", "listed", "switch"}
  BY <1>5, <1>6 DEF AfterPart, Making, AtFirst
<1>17. LaterShape'
  <2>1. disk[w.last] \in Seq(Piece)
    BY <1>2, <1>5, Room DEF WriterInv, StoreTypes
  <2>2. Len(disk[w.last]) \in Nat
    BY <2>1
  <2>3. Len(disk'[w'.last]) + Len(w'.buffered) = w'.pos
    <3>1. PICK a : a \in Nat /\ a = Len(disk[w.last])
      BY <2>2
    <3>2. PICK b : b \in Nat /\ b = Len(w.buffered)
      BY <1>7
    <3>3. a + b = w.pos
      BY <1>5, <3>1, <3>2 DEF LaterShape
    <3>4. Len(disk'[w'.last]) = a /\ Len(w'.buffered) = b + m
      BY <1>6, <1>7, <3>1, <3>2
    <3>5. m \in Nat /\ a \in Nat /\ b \in Nat
      BY <1>3, <3>1, <3>2
    <3>6. a + (b + m) = (a + b) + m
      BY <3>5, AddedUp
    <3> QED
      BY <1>6, <3>3, <3>4, <3>6
  <2>4. listed' <= w'.last + 1
    BY <1>5, <1>6 DEF LaterShape
  <2> QED
    BY <2>3, <2>4 DEF LaterShape
<1>18. w'.last >= -1 /\ w'.last <= ChunksFor(Phase, w.rolled)'
  <2>1. w.last <= ChunksFor(Phase, w.rolled) /\ w.last >= -1 /\ w.last \in Int /\ P \in Nat
    BY <1>2, <1>4, LastPage DEF StoringShape, WriterRec
  <2>2. CASE w.at = "header"
    <3>1. Phase = "header" /\ Phase' = "body"
      BY <1>2, <1>6, <1>16, <2>2 DEF Phase, AfterPart
    <3>2. w.last <= 2 * P - 2
      BY <2>1, <3>1 DEF ChunksFor
    <3> QED
      BY <1>6, <1>15, <2>1, <3>1, <3>2 DEF ChunksFor
  <2>3. CASE w.at = "body"
    <3>1. Phase = "body" /\ Phase' = "idle"
      BY <1>2, <1>6, <1>16, <2>3 DEF Phase, AfterPart
    <3>2. w.last <= 2 * P - 1
      BY <2>1, <3>1 DEF ChunksFor
    <3> QED
      BY <1>6, <1>15, <2>1, <3>1, <3>2 DEF ChunksFor
  <2> QED
    BY <2>2, <2>3
<1>19. StoringShape'
  BY <1>6, <1>15, <1>16, <1>17, <1>18 DEF StoringShape
<1> QED
  BY <1>15, <1>16, <1>19 DEF WriterInv
\* A step of the storing process that changes neither the pages nor the number of opens.
LEMMA SameOpens ==
  ASSUME WriterInv, UNCHANGED <<pages, opens, compressed>>, mishaps' = mishaps,
         disk' \in [Chunk -> Seq(Piece)], \A c \in Chunk : Len(disk'[c]) <= MAX_FILE_SIZE,
         listed' \in Nat, listed' <= 2 * P + 1,
         w' \in WriterRec, w'.pos <= MAX_FILE_SIZE, w'.file_size <= w'.pos
  PROVE  /\ StoreTypes' /\ Bounds' /\ P' = P
         /\ Storing => P' > 0 /\ opens' > 0 /\ pages'[P'].open = opens'
<1>1. /\ pages' \in Seq(PageRec) /\ Len(pages') = P
      /\ \A p \in DOMAIN pages : pages'[p].open = pages[p].open
      /\ mishaps' \in Nat /\ mishaps' <= MaxMishaps
  BY SameStore
<1> QED
  BY <1>1, SamePages

LEMMA RollTyped ==
  ASSUME WriterInv, Roll
  PROVE  WriterInv'
<1>1. /\ w.at \in {"header", "body"} /\ w.rolled = FALSE /\ w' = [w EXCEPT !.at = "creat", !.then = w.at]
      /\ UNCHANGED <<disk, listed, pages, opens, mishaps, compressed>>
  BY DEF Roll, reader_unchanged, WriterInv, StoreTypes, WriterRec
<1>2. w \in WriterRec /\ Storing /\ StoringShape /\ ~Making
  BY <1>1 DEF WriterInv, StoreTypes, Storing, Making
<1>3. /\ w' \in WriterRec /\ w'.at = "creat" /\ w'.then = w.at /\ w'.pos = w.pos
      /\ w'.file_size = w.file_size /\ w'.buffered = w.buffered /\ w'.last = w.last /\ w'.rolled = FALSE
  BY <1>1, <1>2 DEF WriterRec, WriterPlace
<1>4. w'.pos <= MAX_FILE_SIZE /\ w'.file_size <= w'.pos
  BY <1>3, SameStore
<1>5. /\ StoreTypes' /\ Bounds' /\ P' = P
      /\ P' > 0 /\ opens' > 0 /\ pages'[P'].open = opens'
  <2>1. /\ disk' \in [Chunk -> Seq(Piece)] /\ \A c \in Chunk : Len(disk'[c]) <= MAX_FILE_SIZE
        /\ listed' \in Nat /\ listed' <= 2 * P + 1
    BY <1>1, SameStore
  <2> QED
    BY <1>1, <1>2, <1>3, <1>4, <2>1, SameOpens
<1>6. ~AtFirst /\ LaterShape
  BY <1>2 DEF StoringShape, FirstShape
<1>7. Making' /\ ~AtFirst' /\ Phase = Phase'
  BY <1>2, <1>3, <1>6 DEF Making, AtFirst, Phase
<1>8. LaterShape'
  BY <1>1, <1>3, <1>6 DEF LaterShape
<1>9. w'.last >= -1 /\ w'.last <= ChunksFor(Phase, w.rolled)'
  BY <1>1, <1>2, <1>3, <1>5, <1>7 DEF StoringShape, ChunksFor
<1>10. StoringShape'
  BY <1>1, <1>3, <1>5, <1>7, <1>8, <1>9 DEF StoringShape
<1> QED
  BY <1>3, <1>5, <1>10 DEF WriterInv

LEMMA CreateTyped ==
  ASSUME WriterInv, CREATE_FILE
  PROVE  WriterInv'
<1>1. /\ w.at = "creat" /\ disk' = [disk EXCEPT ![w.last + 1] = << >>] /\ w' = [w EXCEPT !.at = "list"]
      /\ UNCHANGED <<listed, pages, opens, mishaps, compressed>>
  BY DEF CREATE_FILE, reader_unchanged
<1>2. w \in WriterRec /\ Storing /\ StoringShape /\ Making /\ disk \in [Chunk -> Seq(Piece)]
  BY <1>1 DEF WriterInv, StoreTypes, Storing, Making
<1>3. /\ w' \in WriterRec /\ w'.at = "list" /\ w'.then = w.then /\ w'.pos = w.pos
      /\ w'.file_size = w.file_size /\ w'.buffered = w.buffered /\ w'.last = w.last /\ w'.rolled = w.rolled
  BY <1>1, <1>2 DEF WriterRec, WriterPlace
<1>4. w'.pos <= MAX_FILE_SIZE /\ w'.file_size <= w'.pos
  BY <1>3, SameStore
<1>5. /\ w.last + 1 \in Chunk /\ w.last \in Int /\ (~AtFirst => w.last \in Chunk)
  BY <1>2, Room
<1>6. /\ disk'[w.last + 1] = << >> /\ disk' \in [Chunk -> Seq(Piece)]
      /\ \A c \in Chunk : c # w.last + 1 => disk'[c] = disk[c]
  BY <1>1, <1>2, <1>5
<1>7. \A c \in Chunk : Len(disk'[c]) <= MAX_FILE_SIZE
  BY <1>6, SameStore, RepositoryAssumption
<1>8. /\ StoreTypes' /\ Bounds' /\ P' = P
      /\ P' > 0 /\ opens' > 0 /\ pages'[P'].open = opens'
  <2>1. listed' \in Nat /\ listed' <= 2 * P + 1
    BY <1>1, SameStore
  <2> QED
    BY <1>1, <1>2, <1>3, <1>4, <1>6, <1>7, <2>1, SameOpens
<1>9. Making' /\ (AtFirst' <=> AtFirst) /\ Phase = Phase'
  BY <1>2, <1>3 DEF Making, AtFirst, Phase
<1>10. AtFirst => FirstShape'
  BY <1>2, <1>3, <1>9 DEF FirstShape, StoringShape
<1>11. ~AtFirst => LaterShape'
  <2>1. ASSUME ~AtFirst
        PROVE  LaterShape'
    <3>1. LaterShape /\ disk'[w.last] = disk[w.last]
      BY <1>2, <1>5, <1>6, <2>1 DEF StoringShape
    <3> QED
      BY <1>1, <1>3, <3>1 DEF LaterShape
  <2> QED
    BY <2>1
<1>12. w'.last >= -1 /\ w'.last <= ChunksFor(Phase, w.rolled)'
  BY <1>1, <1>2, <1>3, <1>8, <1>9 DEF StoringShape, ChunksFor
<1>13. StoringShape'
  BY <1>1, <1>2, <1>3, <1>6, <1>8, <1>9, <1>10, <1>11, <1>12 DEF StoringShape
<1> QED
  BY <1>3, <1>8, <1>13 DEF WriterInv

LEMMA ListTyped ==
  ASSUME WriterInv, EmptyList \/ WriteList
  PROVE  WriterInv'
<1> DEFINE place == IF w.at = "list" THEN "listed" ELSE "switch"
<1>1. /\ w.at \in {"list", "listed"} /\ w' = [w EXCEPT !.at = place]
      /\ listed' = (IF w.at = "list" THEN 0 ELSE w.last + 2)
      /\ UNCHANGED <<disk, pages, opens, mishaps, compressed>>
  BY DEF EmptyList, WriteList, reader_unchanged
<1>2. w \in WriterRec /\ Storing /\ StoringShape /\ Making
  BY <1>1 DEF WriterInv, StoreTypes, Storing, Making
<1>3. place \in WriterPlace
  BY DEF WriterPlace
<1>4. /\ w' \in WriterRec /\ w'.at = place /\ w'.then = w.then /\ w'.pos = w.pos
      /\ w'.file_size = w.file_size /\ w'.buffered = w.buffered /\ w'.last = w.last /\ w'.rolled = w.rolled
  <2> HIDE DEF place
  <2> QED
    BY <1>1, <1>2, <1>3 DEF WriterRec
<1>5. /\ w.last + 1 \in Chunk /\ w.last \in Int /\ w.last >= -1 /\ P \in Nat /\ w.last + 2 <= 2 * P + 1
  BY <1>2, Room
<1>6. listed' \in Nat /\ listed' <= 2 * P + 1
  BY <1>1, <1>5
<1>7. /\ StoreTypes' /\ Bounds' /\ P' = P
      /\ P' > 0 /\ opens' > 0 /\ pages'[P'].open = opens'
  <2>1. w'.pos <= MAX_FILE_SIZE /\ w'.file_size <= w'.pos
    BY <1>4, SameStore
  <2>2. disk' \in [Chunk -> Seq(Piece)] /\ \A c \in Chunk : Len(disk'[c]) <= MAX_FILE_SIZE
    BY <1>1, SameStore
  <2> QED
    BY <1>1, <1>2, <1>4, <1>6, <2>1, <2>2, SameOpens
<1>8. Making' /\ (AtFirst' <=> AtFirst) /\ Phase = Phase' /\ disk'[w'.last + 1] = << >>
  BY <1>1, <1>2, <1>4 DEF Making, AtFirst, Phase, StoringShape
<1>9. AtFirst => FirstShape'
  BY <1>1, <1>2, <1>4, <1>8 DEF FirstShape, StoringShape, AtFirst
<1>10. ASSUME ~AtFirst
       PROVE  LaterShape'
  <2>1. LaterShape
    BY <1>2, <1>10 DEF StoringShape
  <2>2. listed' <= w'.last + 1 \/ (w'.at = "switch" /\ listed' = w'.last + 2)
    BY <1>1, <1>4, <1>5, <1>10 DEF AtFirst
  <2> QED
    BY <1>1, <1>4, <2>1, <2>2 DEF LaterShape
<1>11. w'.last >= -1 /\ w'.last <= ChunksFor(Phase, w.rolled)'
  BY <1>1, <1>2, <1>4, <1>7, <1>8 DEF StoringShape, ChunksFor
<1>12. StoringShape'
  BY <1>1, <1>2, <1>4, <1>7, <1>8, <1>9, <1>10, <1>11 DEF StoringShape
<1> QED
  BY <1>1, <1>4, <1>7, <1>12 DEF WriterInv

\* What stdio holds goes to the disk, up to anywhere.
Flushed(k) == [disk EXCEPT ![w.last] = @ \o SubSeq(w.buffered, 1, k)]

LEMMA FlushedIs ==
  ASSUME WriterInv, Storing, ~AtFirst, NEW k \in 0 .. Len(w.buffered)
  PROVE  /\ Flushed(k) \in [Chunk -> Seq(Piece)]
         /\ \A c \in Chunk : c # w.last => Flushed(k)[c] = disk[c]
         /\ Flushed(k)[w.last] = disk[w.last] \o SubSeq(w.buffered, 1, k)
         /\ Len(Flushed(k)[w.last]) = Len(disk[w.last]) + k
         /\ \A c \in Chunk : Len(Flushed(k)[c]) <= MAX_FILE_SIZE
         /\ \A i \in 1 .. Len(disk[w.last]) : Flushed(k)[w.last][i] = disk[w.last][i]
<1>1. w.last \in Chunk /\ disk \in [Chunk -> Seq(Piece)] /\ w.buffered \in Seq(Piece) /\ LaterShape
  BY Room DEF WriterInv, StoringShape, StoreTypes, WriterRec
<1>2. PICK a : a = disk[w.last] /\ a \in Seq(Piece)
  BY <1>1
<1>3. PICK b : b = w.buffered /\ b \in Seq(Piece) /\ Len(b) \in Nat /\ k \in Nat /\ k <= Len(b)
  <2>1. Len(w.buffered) \in Nat
    BY <1>1
  <2>2. k \in Nat /\ k <= Len(w.buffered)
    BY <2>1
  <2> QED
    BY <1>1, <2>1, <2>2
<1>4. PICK s : s = SubSeq(b, 1, k) /\ s \in Seq(Piece) /\ Len(s) = k /\ k \in Nat
  <2>1. SubSeq(b, 1, k) \in Seq(Piece) /\ Len(SubSeq(b, 1, k)) = k
    BY <1>3, Beginning
  <2> QED
    BY <1>3, <2>1
<1>5. /\ a \o s \in Seq(Piece) /\ Len(a \o s) = Len(a) + Len(s)
      /\ \A i \in 1 .. Len(a) : (a \o s)[i] = a[i]
  BY <1>2, <1>4, PiecesJoined
<1>6. Flushed(k) = [disk EXCEPT ![w.last] = a \o s]
  BY <1>1, <1>2, <1>3, <1>4 DEF Flushed
<1>7. /\ Flushed(k) \in [Chunk -> Seq(Piece)] /\ Flushed(k)[w.last] = a \o s
      /\ \A c \in Chunk : c # w.last => Flushed(k)[c] = disk[c]
  BY <1>1, <1>5, <1>6
<1>8. \A c \in Chunk : Len(Flushed(k)[c]) <= MAX_FILE_SIZE
  <2>1. Len(a) + Len(s) <= MAX_FILE_SIZE
    <3>1. PICK m : m \in Nat /\ m = Len(a)
      BY <1>2
    <3>2. PICK n : n \in Nat /\ n = Len(b)
      BY <1>3
    <3>3. m + n = w.pos /\ w.pos <= MAX_FILE_SIZE /\ MAX_FILE_SIZE \in Nat /\ k <= n
      <4>1. m + n = w.pos
        BY <1>1, <1>2, <1>3, <3>1, <3>2 DEF LaterShape
      <4>2. w.pos <= MAX_FILE_SIZE /\ MAX_FILE_SIZE \in Nat
        BY SameStore, RepositoryAssumption
      <4> QED
        BY <1>3, <3>2, <4>1, <4>2
    <3> QED
      BY <1>4, <3>1, <3>2, <3>3
  <2>2. \A c \in Chunk : Len(disk[c]) <= MAX_FILE_SIZE
    BY SameStore
  <2> QED
    BY <1>1, <1>5, <1>7, <2>1, <2>2
<1> QED
  BY <1>1, <1>2, <1>3, <1>4, <1>5, <1>7, <1>8

LEMMA FlushedAll ==
  ASSUME WriterInv
  PROVE  SubSeq(w.buffered, 1, Len(w.buffered)) = w.buffered /\ Len(w.buffered) \in Nat
<1>1. PICK b : b = w.buffered /\ b \in Seq(Piece)
  BY DEF WriterInv, StoreTypes, WriterRec
<1>2. SubSeq(b, 1, Len(b)) = b /\ Len(b) \in Nat
  BY <1>1
<1> QED
  BY <1>1, <1>2

LEMMA SwitchTyped ==
  ASSUME WriterInv, set_current
  PROVE  WriterInv'
<1>1. /\ w.at = "switch"
      /\ disk' = (IF w.last < 0 THEN disk ELSE [disk EXCEPT ![w.last] = @ \o w.buffered])
      /\ w' = [w EXCEPT !.at = w.then, !.last = w.last + 1, !.pos = 0, !.file_size = 0,
                        !.buffered = << >>, !.rolled = TRUE]
      /\ UNCHANGED <<listed, pages, opens, mishaps, compressed>>
  BY DEF set_current, reader_unchanged
<1>2. w \in WriterRec /\ Storing /\ StoringShape /\ Making
  BY <1>1 DEF WriterInv, StoreTypes, Storing, Making
<1>3. /\ w.last + 1 \in Chunk /\ w.last \in Int /\ w.last >= -1 /\ P \in Nat
      /\ ~AtFirst => w.last \in Chunk
  BY <1>2, Room
<1>4. w.then \in {"header", "body"}
  BY <1>2 DEF StoringShape
<1>5. /\ w' \in WriterRec /\ w'.at = w.then /\ w'.then = w.then /\ w'.pos = 0
      /\ w'.file_size = 0 /\ w'.buffered = << >> /\ w'.last = w.last + 1 /\ w'.rolled = TRUE
  <2>1. w.then \in WriterPlace /\ w.last + 1 \in Int /\ << >> \in Seq(Piece)
    BY <1>3, <1>4 DEF WriterPlace
  <2>2. w' \in WriterRec
    BY <1>1, <1>2, <2>1 DEF WriterRec
  <2>3. /\ w'.at = w.then /\ w'.then = w.then /\ w'.pos = 0
        /\ w'.file_size = 0 /\ w'.buffered = << >> /\ w'.last = w.last + 1 /\ w'.rolled = TRUE
    BY <1>1, <1>2 DEF WriterRec
  <2> QED
    BY <2>2, <2>3
<1>6. /\ disk' \in [Chunk -> Seq(Piece)] /\ disk'[w.last + 1] = disk[w.last + 1]
      /\ \A c \in Chunk : Len(disk'[c]) <= MAX_FILE_SIZE
  <2>1. CASE AtFirst
    BY <1>1, <2>1, SameStore DEF AtFirst
  <2>2. CASE ~AtFirst
    <3>1. disk' = Flushed(Len(w.buffered))
      <4>1. ~(w.last < 0)
        BY <1>3, <2>2 DEF AtFirst
      <4> QED
        BY <1>1, <4>1, FlushedAll DEF Flushed
    <3>2. Len(w.buffered) \in 0 .. Len(w.buffered)
      BY FlushedAll
    <3>3. w.last + 1 # w.last
      BY <1>3
    <3> QED
      BY <1>2, <1>3, <2>2, <3>1, <3>2, <3>3, FlushedIs
  <2> QED
    BY <2>1, <2>2
<1>7. /\ StoreTypes' /\ Bounds' /\ P' = P
      /\ P' > 0 /\ opens' > 0 /\ pages'[P'].open = opens'
  <2>1. w'.pos <= MAX_FILE_SIZE /\ w'.file_size <= w'.pos
    BY <1>5, RepositoryAssumption
  <2>2. listed' \in Nat /\ listed' <= 2 * P + 1
    BY <1>1, SameStore
  <2> QED
    BY <1>1, <1>2, <1>5, <1>6, <2>1, <2>2, SameOpens
<1>8. ~Making' /\ ~AtFirst' /\ Phase' = w.then /\ Phase = w.then
  BY <1>2, <1>3, <1>4, <1>5 DEF Making, AtFirst, Phase
<1>9. LaterShape'
  <2>1. disk[w.last + 1] = << >>
    BY <1>1, <1>2 DEF StoringShape
  <2>2. Len(disk'[w'.last]) + Len(w'.buffered) = w'.pos
    BY <1>5, <1>6, <2>1
  <2>3. listed <= w.last + 2
    <3>1. CASE AtFirst
      BY <1>1, <1>2, <3>1 DEF StoringShape, FirstShape, AtFirst
    <3>2. CASE ~AtFirst
      <4>1. listed <= w.last + 1 \/ listed = w.last + 2
        <5>1. LaterShape
          BY <1>2, <3>2, Zenon DEF StoringShape
        <5> QED
          BY <5>1, Zenon DEF LaterShape
      <4>2. PICK l \in Nat, last \in Int : l = listed /\ last = w.last
        BY <1>1, SameStore DEF WriterRec
      <4>3. l <= last + 2
        BY <4>1, <4>2
      <4> QED
        BY <4>2, <4>3
    <3> QED
      BY <3>1, <3>2
  <2>4. listed' <= w'.last + 1
    BY <1>1, <1>3, <1>5, <2>3, SameStore
  <2> QED
    BY <2>2, <2>4 DEF LaterShape
<1>10. w'.last >= -1 /\ w'.last <= ChunksFor(Phase, w.rolled)'
  <2>1. w.rolled = FALSE /\ w.last <= ChunksFor(Phase, w.rolled)
    BY <1>1, <1>2 DEF StoringShape, WriterRec
  <2> QED
    BY <1>3, <1>4, <1>5, <1>7, <1>8, <2>1 DEF ChunksFor
<1>11. StoringShape'
  BY <1>4, <1>5, <1>7, <1>8, <1>9, <1>10 DEF StoringShape
<1> QED
  BY <1>4, <1>5, <1>7, <1>11 DEF WriterInv

LEMMA FlushTyped ==
  ASSUME WriterInv, Flush
  PROVE  WriterInv'
<1>1. PICK k \in 1 .. Len(w.buffered) :
        /\ w.last >= 0 /\ disk' = Flushed(k)
        /\ w' = [w EXCEPT !.buffered = SubSeq(@, k + 1, Len(@))]
        /\ UNCHANGED <<listed, pages, opens, mishaps, compressed>>
  BY DEF Flush, reader_unchanged, Flushed
<1>2. w \in WriterRec
  BY DEF WriterInv, StoreTypes
<1>3. PICK b : b = w.buffered /\ b \in Seq(Piece) /\ Len(b) \in Nat /\ k \in 1 .. Len(b)
  BY <1>2 DEF WriterRec
<1>4. Storing /\ StoringShape
  <2>1. w # Closed
    BY <1>1, <1>3 DEF Closed
  <2> QED
    BY <2>1 DEF WriterInv, Storing
<1>5. /\ w.last + 1 \in Chunk /\ w.last \in Int /\ w.last \in Chunk /\ ~AtFirst /\ LaterShape
      /\ k \in 0 .. Len(w.buffered)
  BY <1>1, <1>3, <1>4, Room DEF AtFirst, StoringShape
<1>6. PICK rest : /\ rest = SubSeq(b, k + 1, Len(b)) /\ rest \in Seq(Piece) /\ Len(rest) = Len(b) - k
  <2>1. PICK n : n \in Nat /\ n = Len(b) - k /\ k \in Nat
    BY <1>3
  <2>2. k + n = Len(b)
    BY <1>3, <2>1
  <2>3. SubSeq(b, k + 1, k + n) \in Seq(Piece) /\ Len(SubSeq(b, k + 1, k + n)) = n
    BY <1>3, <2>1, <2>2, PieceOfSeq
  <2> QED
    BY <2>1, <2>2, <2>3
<1>7. /\ w' \in WriterRec /\ w'.at = w.at /\ w'.then = w.then /\ w'.pos = w.pos
      /\ w'.file_size = w.file_size /\ w'.buffered = rest /\ w'.last = w.last /\ w'.rolled = w.rolled
  <2>1. w' = [w EXCEPT !.buffered = rest]
    BY <1>1, <1>3, <1>6
  <2> QED
    BY <1>2, <1>6, <2>1 DEF WriterRec
<1>8. /\ disk' \in [Chunk -> Seq(Piece)] /\ \A c \in Chunk : Len(disk'[c]) <= MAX_FILE_SIZE
      /\ disk'[w.last + 1] = disk[w.last + 1] /\ Len(disk'[w.last]) = Len(disk[w.last]) + k
  <2>1. w.last + 1 # w.last
    BY <1>5
  <2> QED
    BY <1>1, <1>4, <1>5, <2>1, FlushedIs
<1>9. /\ StoreTypes' /\ Bounds' /\ P' = P
      /\ P' > 0 /\ opens' > 0 /\ pages'[P'].open = opens'
  <2>1. w'.pos <= MAX_FILE_SIZE /\ w'.file_size <= w'.pos
    BY <1>7, SameStore
  <2>2. listed' \in Nat /\ listed' <= 2 * P + 1
    BY <1>1, SameStore
  <2> QED
    BY <1>1, <1>4, <1>7, <1>8, <2>1, <2>2, SameOpens
<1>10. (Making' <=> Making) /\ ~AtFirst' /\ Phase = Phase'
  BY <1>5, <1>7 DEF Making, AtFirst, Phase
<1>11. LaterShape'
  <2>1. disk[w.last] \in Seq(Piece)
    BY <1>5 DEF WriterInv, StoreTypes
  <2>2. PICK a : a \in Nat /\ a = Len(disk[w.last])
    BY <2>1
  <2>3. PICK n : n \in Nat /\ n = Len(b)
    BY <1>3
  <2>4. a + n = w.pos /\ (a + k) + (n - k) = a + n
    <3>1. a + n = w.pos
      BY <1>3, <1>5, <2>2, <2>3 DEF LaterShape
    <3>2. k \in Nat
      BY <1>3
    <3> QED
      BY <2>2, <2>3, <3>1, <3>2
  <2>5. Len(disk'[w'.last]) = a + k /\ Len(w'.buffered) = n - k
    BY <1>6, <1>7, <1>8, <2>2, <2>3
  <2>6. Len(disk'[w'.last]) + Len(w'.buffered) = w'.pos
    BY <1>7, <2>4, <2>5
  <2> QED
    BY <1>1, <1>5, <1>7, <2>6 DEF LaterShape
<1>12. w'.last >= -1 /\ w'.last <= ChunksFor(Phase, w.rolled)'
  BY <1>4, <1>7, <1>9, <1>10 DEF StoringShape, ChunksFor
<1>13. StoringShape'
  BY <1>1, <1>4, <1>7, <1>8, <1>9, <1>10, <1>11, <1>12 DEF StoringShape
<1> QED
  BY <1>4, <1>7, <1>9, <1>13 DEF WriterInv, Storing

\* A process that closes its container, or dies with it open, leaves the disk as it
\* is, or with all that it held written out.
Leaving ==
  /\ w' = Closed /\ UNCHANGED <<listed, pages, opens, compressed>>
  /\ UNCHANGED disk \/ (~AtFirst /\ disk' = Flushed(Len(w.buffered)))

LEMMA EndsAre ==
  ASSUME WriterInv, end_site \/ WriterDies
  PROVE  Storing /\ Leaving /\ mishaps' \in Nat /\ mishaps' <= MaxMishaps
<1>1. mishaps \in Nat /\ mishaps <= MaxMishaps
  BY SameStore
<1>2. Storing
  BY DEF end_site, WriterDies, Storing
<1>3. StoringShape /\ w.last \in Int
  BY <1>2 DEF WriterInv, StoreTypes, WriterRec
<1>4. SubSeq(w.buffered, 1, Len(w.buffered)) = w.buffered
  BY FlushedAll
<1>5. CASE end_site
  <2>1. w.at = "idle" /\ ~AtFirst
    BY <1>3, <1>5 DEF end_site, StoringShape, FirstShape, Making
  <2>2. disk' = Flushed(Len(w.buffered))
    BY <1>4, <1>5 DEF end_site, Flushed
  <2> QED
    BY <1>1, <1>2, <1>5, <2>1, <2>2 DEF end_site, Leaving, reader_unchanged
<1>6. CASE WriterDies
  <2>1. mishaps' \in Nat /\ mishaps' <= MaxMishaps
    BY <1>1, <1>6 DEF WriterDies
  <2>2. w' = Closed /\ UNCHANGED <<listed, pages, opens, compressed>>
    BY <1>6 DEF WriterDies, reader_unchanged
  <2>3. UNCHANGED disk \/ (~AtFirst /\ disk' = Flushed(Len(w.buffered)))
    <3>1. UNCHANGED disk \/ (w.last >= 0 /\ disk' = [disk EXCEPT ![w.last] = @ \o w.buffered])
      BY <1>6 DEF WriterDies
    <3>2. w.last >= 0 => ~AtFirst
      BY <1>3 DEF AtFirst
    <3> QED
      BY <1>4, <3>1, <3>2 DEF Flushed
  <2> QED
    BY <1>2, <2>1, <2>2, <2>3 DEF Leaving
<1> QED
  BY <1>5, <1>6

LEMMA LeavingTyped ==
  ASSUME WriterInv, end_site \/ WriterDies
  PROVE  WriterInv'
<1>1. Storing /\ Leaving /\ mishaps' \in Nat /\ mishaps' <= MaxMishaps
  BY EndsAre
<1>2. /\ Closed \in WriterRec /\ Closed.pos <= MAX_FILE_SIZE /\ Closed.file_size <= Closed.pos
      /\ Closed.at = "closed"
  BY RepositoryAssumption DEF Closed, WriterRec, WriterPlace
<1>3. disk' \in [Chunk -> Seq(Piece)] /\ \A c \in Chunk : Len(disk'[c]) <= MAX_FILE_SIZE
  <2>1. CASE UNCHANGED disk
    BY <2>1, SameStore
  <2>2. CASE ~AtFirst /\ disk' = Flushed(Len(w.buffered))
    <3>1. Len(w.buffered) \in 0 .. Len(w.buffered)
      BY FlushedAll
    <3> QED
      BY <1>1, <2>2, <3>1, FlushedIs
  <2> QED
    BY <1>1, <2>1, <2>2 DEF Leaving
<1>4. StoreTypes' /\ Bounds'
  <2>1. /\ pages' \in Seq(PageRec) /\ Len(pages') = P
        /\ \A p \in DOMAIN pages : pages'[p].open = pages[p].open
    BY <1>1, SameStore DEF Leaving
  <2>2. listed' \in Nat /\ listed' <= 2 * P + 1
    BY <1>1, SameStore DEF Leaving
  <2>3. opens' = opens /\ compressed' = compressed /\ w' = Closed
    BY <1>1 DEF Leaving
  <2> QED
    BY <1>1, <1>2, <1>3, <2>1, <2>2, <2>3, SamePages
<1> QED
  BY <1>1, <1>2, <1>4 DEF WriterInv, Leaving, Storing

LEMMA WriterKeepsTypes ==
  ASSUME WriterInv, Writer \/ writer_unchanged
  PROVE  WriterInv'
<1>1. ASSUME NEW s \in BodySizes, store(s)
      PROVE  WriterInv'
  BY <1>1, StoreTyped
<1>2. CASE WritePart
  <2>1. PICK m \in 0 .. PartLen : Takes(m)
    BY <1>2, WritePartIs
  <2>2. /\ w.at \in {"header", "body"} /\ (w.rolled \/ Fits) /\ UNCHANGED <<disk, listed, opens, compressed>>
    BY <1>2 DEF WritePart, reader_unchanged
  <2> QED
    BY <2>1, <2>2, WriteTyped
<1>3. CASE writer_unchanged
  BY <1>3 DEF writer_unchanged, WriterInv, StoreTypes, Bounds, P, Storing, StoringShape, AtFirst,
              FirstShape, LaterShape, Making, Phase, ChunksFor
<1> QED
  BY <1>1, <1>2, <1>3, RollTyped, CreateTyped, ListTyped, SwitchTyped, FlushTyped, LeavingTyped DEF Writer
-----------------------------------------------------------------------------
(* What has been stored, seen by others or not *)

Text(c) == IF Storing /\ c = w.last THEN disk[c] \o w.buffered ELSE disk[c]
Places(c) == 1 .. Len(Text(c))
Opening(x) == pages[x[1]].open
Later(c, i, d, j) == c < d \/ (c = d /\ i < j)
From(c, i, d, j) == c < d \/ (c = d /\ i <= j)

\* Among pieces of one opening, pages begin in the order they were stored in.
PiecesKnown == \A c \in Chunk : \A i \in Places(c) : Text(c)[i][1] \in 1 .. P
InSequence(c, i, d, j) ==
  /\ Later(c, i, d, j) /\ Text(c)[i][2] = 1 /\ Text(d)[j][2] = 1
  /\ Opening(Text(c)[i]) = Opening(Text(d)[j])
  => Text(c)[i][1] < Text(d)[j][1]
HeadersInOrder == \A c, d \in Chunk : \A i \in Places(c), j \in Places(d) : InSequence(c, i, d, j)

\* The chunks up to the current one, and no other, hold pieces of the current opening.
Frontier ==
  Storing => \A c \in Chunk : \A i \in Places(c) : Opening(Text(c)[i]) = opens <=> c <= w.last

\* Nothing of a page is there before its header is written, and nothing after its
\* header before its body is.
NewPage == Phase = "header" => \A c \in Chunk : \A i \in Places(c) : Text(c)[i][1] # P
HeaderChunk == IF w.rolled THEN w.last - 1 ELSE w.last
LastHeader ==
  Phase = "body" => \A c \in Chunk : \A i \in Places(c) :
    Text(c)[i] = <<P, 3>> => c = HeaderChunk /\ i = Len(Text(c))

\* The body of a page that was written whole follows its header, or begins the next chunk.
BodyAt(p, t, i) == \A j \in 1 .. pages[p].size : i + j <= Len(t) => t[i + j] = <<p, 3 + j>>
Whole(p, c, i) ==
  \/ i + pages[p].size <= Len(Text(c)) /\ BodyAt(p, Text(c), i)
  \/ i = Len(Text(c)) /\ c + 1 <= w.last /\ pages[p].size <= Len(Text(c + 1)) /\ BodyAt(p, Text(c + 1), 0)
HeaderOf(p, c, i) == Text(c)[i] = <<p, 3>> /\ pages[p].whole
Bodies ==
  Storing => \A c \in Chunk : c <= w.last => \A i \in Places(c) : \A p \in 1 .. P :
    HeaderOf(p, c, i) => Whole(p, c, i) \/ (p = P /\ Phase = "body")
TextInv == PiecesKnown /\ HeadersInOrder /\ Frontier /\ NewPage /\ LastHeader /\ Bodies

\* The same of the first n chunks of a container that nobody stores in any more.
Split(p, c, i, n) ==
  /\ BodyAt(p, Text(c), i)
  /\ i + pages[p].size > Len(Text(c)) /\ c + 1 < n =>
       Text(c + 1) = << >> \/ (i = Len(Text(c)) /\ BodyAt(p, Text(c + 1), 0))
OneOpen(n, o) == \A c \in Chunk : c < n => \A i \in Places(c) : Opening(Text(c)[i]) = o
Splits(n) ==
  \A c \in Chunk : c < n => \A i \in Places(c) : \A p \in 1 .. P : HeaderOf(p, c, i) => Split(p, c, i, n)
ListedSound == ~Storing \/ AtFirst => (\E o \in Nat : OneOpen(listed, o)) /\ Splits(listed)

-----------------------------------------------------------------------------
(* The reader *)

Placed(rd, k) ==
  /\ rd.before[0] = 0
  /\ \A i \in 0 .. k - 1 : rd.before[i + 1] = rd.before[i] + rd.file_size[i]
  /\ \A i, j \in 0 .. k : i <= j => rd.before[i] <= rd.before[j]
  /\ \A t \in Nat : t < rd.before[k] => \E i \in 0 .. k - 1 : rd.before[i] <= t /\ t < rd.before[i + 1]
Reading == r.at \in {"stat", "page", "rest", "body", "resync"}
Headed == r.at \in {"rest", "body"}
Statted == IF r.at = "stat" THEN r.file_num ELSE r.n
ReaderPlaced ==
  Reading =>
  /\ r.n \in 1 .. 2 * MaxPages + 1 /\ r.file_num \in 0 .. r.n - 1
  /\ r.file_size \in [0 .. r.n - 1 -> Nat] /\ r.before \in [0 .. r.n -> Nat]
  /\ Placed(r, Statted)
  /\ r.at = "stat" => r.got = << >>

\* Not torn: the chunks are what the list and the sizes said.
Within(n) == AtFirst = FALSE /\ (n <= w.last + 1 \/ (w.at = "switch" /\ n = w.last + 2))
Follows ==
  Reading /\ ~r.torn =>
  /\ ~Storing => Splits(r.n)
  /\ Storing => Within(r.n)
  /\ \A c \in 0 .. Statted - 1 : c < r.n - 1 => r.file_size[c] = Len(disk[c]) /\ (Storing => c < w.last)

\* Unless a sync point was cut, all that is still to be read comes after what was returned.
Ahead(q, c0, i0) ==
  r.cut \/ \A c \in Chunk : \A i \in Places(c) :
    From(c0, i0, c, i) /\ Text(c)[i][2] = 1 /\ Opening(Text(c)[i]) = pages[q].open => q < Text(c)[i][1]
Reported(q) == q \in 1 .. P /\ (Phase = "header" => q # P)
HeadAt(c, i) ==
  /\ r.before[c] + i = r.start + 1 /\ From(c, i, r.file_num, r.pos)
  /\ \A k \in 1 .. Len(r.got) : Ahead(r.got[k].page, c, i)
  /\ Ahead(r.head[1][1], c, i + 1)
KnownInv ==
  /\ \A k \in 1 .. Len(r.got) : Reported(r.got[k].page)
  /\ r.at \in {"page", "resync"} =>
       \A k \in 1 .. Len(r.got) : Ahead(r.got[k].page, r.file_num, r.pos + 1)
  /\ Headed =>
       /\ Len(r.head) = 2 /\ Reported(r.head[1][1])
       /\ \E c \in 0 .. r.n - 1, i \in Nat \ {0} : HeadAt(c, i)
       /\ \A k \in 1 .. Len(r.got) :
            pages[r.got[k].page].open = pages[r.head[1][1]].open =>
              r.cut \/ r.got[k].page < r.head[1][1]
OneOpening ==
  ~r.torn => \E o \in Nat :
    /\ \A k \in 1 .. Len(r.got) : pages[r.got[k].page].open = o
    /\ Headed => pages[r.head[1][1]].open = o
    /\ Reading => (Storing => o = opens) /\ OneOpen(r.n, o)
AtBody ==
  r.at = "body" /\ ~r.torn =>
    r.pos \in 1 .. Len(disk[r.file_num]) /\ disk[r.file_num][r.pos] = <<r.head[1][1], 3>>

-----------------------------------------------------------------------------
(* How a step changes what has been stored *)

LEMMA TextIs ==
  ASSUME WriterInv, NEW c \in Chunk
  PROVE  /\ Text(c) \in Seq(Piece) /\ Len(Text(c)) \in Nat
         /\ disk[c] \in Seq(Piece) /\ Len(disk[c]) \in Nat /\ Len(disk[c]) <= Len(Text(c))
         /\ \A i \in 1 .. Len(disk[c]) : i \in Places(c) /\ Text(c)[i] = disk[c][i]
         /\ ~(Storing /\ c = w.last) => Text(c) = disk[c]
<1>1. PICK a : a = disk[c] /\ a \in Seq(Piece) /\ Len(a) \in Nat
  BY DEF WriterInv, StoreTypes
<1>2. PICK b : b = w.buffered /\ b \in Seq(Piece) /\ Len(b) \in Nat
  BY DEF WriterInv, StoreTypes, WriterRec
<1>3. CASE Storing /\ c = w.last
  <2>1. Text(c) = a \o b
    BY <1>1, <1>2, <1>3 DEF Text
  <2>2. /\ a \o b \in Seq(Piece) /\ Len(a \o b) = Len(a) + Len(b)
        /\ \A i \in 1 .. Len(a) : (a \o b)[i] = a[i]
    BY <1>1, <1>2, PiecesJoined
  <2>3. PICK t : t = Text(c) /\ t = a \o b /\ t \in Seq(Piece) /\ Len(t) = Len(a) + Len(b)
                 /\ \A i \in 1 .. Len(a) : t[i] = a[i]
    BY <2>1, <2>2
  <2>4. Len(t) \in Nat /\ Len(a) <= Len(t) /\ \A i \in 1 .. Len(a) : i \in 1 .. Len(t)
    <3>1. PICK m \in Nat : m = Len(a)
      BY <1>1
    <3>2. PICK n \in Nat : n = Len(b)
      BY <1>2
    <3>3. Len(t) = m + n /\ m + n \in Nat /\ m <= m + n
      BY <2>3, <3>1, <3>2
    <3>4. \A i \in 1 .. m : i \in 1 .. m + n
      BY <3>1, <3>2
    <3> QED
      BY <3>1, <3>3, <3>4
  <2> QED
    BY <1>1, <1>3, <2>3, <2>4 DEF Places
<1>4. CASE ~(Storing /\ c = w.last)
  <2>1. Text(c) = a
    BY <1>1, <1>4 DEF Text
  <2> QED
    BY <1>1, <2>1 DEF Places
<1> QED
  BY <1>3, <1>4

TextTyped == \A c \in Chunk : Text(c) \in Seq(Piece) /\ Len(Text(c)) \in Nat

LEMMA TextTypes == WriterInv => TextTyped
BY TextIs DEF TextTyped

LEMMA Associates ==
  ASSUME NEW x \in Seq(Piece), NEW y \in Seq(Piece), NEW z \in Seq(Piece)
  PROVE  (x \o y) \o z = x \o (y \o z)
BY ConcatAssociative, SMTT(30)

LEMMA Rejoined ==
  ASSUME NEW a \in Seq(Piece), NEW b \in Seq(Piece), NEW k \in 0 .. Len(b)
  PROVE  (a \o SubSeq(b, 1, k)) \o SubSeq(b, k + 1, Len(b)) = a \o b
<1>1. Len(b) \in Nat /\ 1 \in 1 .. Len(b) + 1 /\ k \in 1 - 1 .. Len(b) /\ Len(b) \in k .. Len(b)
  BY LenProperties
<1>2. SubSeq(b, 1, k) \o SubSeq(b, k + 1, Len(b)) = SubSeq(b, 1, Len(b))
  BY <1>1, ConcatAdjacentSubSeq
<1>3. SubSeq(b, 1, Len(b)) = b
  BY SubSeqFull
<1>4. SubSeq(b, 1, k) \in Seq(Piece) /\ SubSeq(b, k + 1, Len(b)) \in Seq(Piece)
  OBVIOUS
<1>5. (a \o SubSeq(b, 1, k)) \o SubSeq(b, k + 1, Len(b)) = a \o (SubSeq(b, 1, k) \o SubSeq(b, k + 1, Len(b)))
  <2>1. PICK x, y : x = SubSeq(b, 1, k) /\ y = SubSeq(b, k + 1, Len(b))
    OBVIOUS
  <2>2. x \in Seq(Piece) /\ y \in Seq(Piece)
    BY <1>4, <2>1, Zenon
  <2>3. (a \o x) \o y = a \o (x \o y)
    BY <2>2, Associates
  <2> QED
    BY <2>1, <2>3, Zenon
<1> QED
  BY <1>2, <1>3, <1>5

SameText == \A c \in Chunk : Text(c)' = Text(c)

LEMMA StoreText ==
  ASSUME WriterInv, NEW size \in BodySizes, store(size)
  PROVE  SameText
<1> SUFFICES ASSUME NEW c \in Chunk
             PROVE  Text(c)' = Text(c)
  BY DEF SameText
<1>1. UNCHANGED disk /\ w \in WriterRec /\ c # -1
  BY RepositoryAssumption DEF store, WriterInv, StoreTypes, Chunk
<1>2. CASE w.at = "closed"
  <2>1. w'.last = -1
    BY <1>2 DEF store, Closed
  <2> QED
    BY <1>1, <1>2, <2>1 DEF Text, Storing
<1>3. CASE w.at = "idle"
  <2>1. w'.at = "header" /\ w'.last = w.last /\ w'.buffered = w.buffered
    BY <1>1, <1>3 DEF store, WriterRec
  <2> QED
    BY <1>1, <1>3, <2>1 DEF Text, Storing
<1> QED
  BY <1>2, <1>3 DEF store

LEMMA RollText ==
  ASSUME WriterInv, Roll \/ EmptyList \/ WriteList
  PROVE  SameText /\ w'.last = w.last /\ w'.rolled = w.rolled
<1>1. w \in WriterRec /\ UNCHANGED disk
  BY DEF WriterInv, StoreTypes, Roll, EmptyList, WriteList
<1>2. /\ w.at # "closed" /\ w'.at # "closed" /\ w'.last = w.last /\ w'.buffered = w.buffered
      /\ w'.rolled = w.rolled
  BY <1>1 DEF Roll, EmptyList, WriteList, WriterRec
<1> QED
  BY <1>1, <1>2 DEF SameText, Text, Storing

LEMMA CreateText ==
  ASSUME WriterInv, CREATE_FILE
  PROVE  /\ w.last + 1 \in Chunk /\ w'.last = w.last /\ w'.rolled = w.rolled
         /\ \A c \in Chunk : Text(c)' = IF c = w.last + 1 THEN << >> ELSE Text(c)
<1>1. w \in WriterRec /\ Storing /\ disk \in [Chunk -> Seq(Piece)]
  BY DEF WriterInv, StoreTypes, CREATE_FILE, Storing
<1>2. w.last + 1 \in Chunk /\ w.last \in Int
  BY <1>1, Room
<1>3. w'.at # "closed" /\ w'.last = w.last /\ w'.buffered = w.buffered /\ w'.rolled = w.rolled
  BY <1>1 DEF CREATE_FILE, WriterRec
<1>4. disk'[w.last + 1] = << >> /\ \A c \in Chunk : c # w.last + 1 => disk'[c] = disk[c]
  BY <1>1, <1>2 DEF CREATE_FILE
<1>5. w.last + 1 # w.last
  BY <1>2
<1> QED
  BY <1>1, <1>2, <1>3, <1>4, <1>5 DEF Text, Storing

LEMMA SwitchText ==
  ASSUME WriterInv, set_current
  PROVE  /\ SameText /\ w.last + 1 \in Chunk /\ Text(w.last + 1) = << >>
         /\ w'.last = w.last + 1 /\ w'.rolled = TRUE
<1>1. w \in WriterRec /\ Storing /\ StoringShape /\ disk \in [Chunk -> Seq(Piece)] /\ w.at = "switch"
  BY DEF WriterInv, StoreTypes, set_current, Storing
<1>2. w.last + 1 \in Chunk /\ w.last \in Int /\ w.last >= -1 /\ (~AtFirst => w.last \in Chunk)
  BY <1>1, Room
<1>3. /\ w'.at # "closed" /\ w'.last = w.last + 1 /\ w'.buffered = << >> /\ w'.rolled = TRUE
  BY <1>1 DEF set_current, WriterRec, StoringShape, Making
<1>4. w.last + 1 # w.last /\ disk[w.last + 1] = << >>
  BY <1>1, <1>2 DEF StoringShape
<1>5. Text(w.last + 1) = << >>
  BY <1>4 DEF Text
<1>6. ASSUME NEW c \in Chunk
      PROVE  Text(c)' = Text(c)
  <2>1. CASE c = w.last + 1
    <3>1. disk'[c] = disk[c]
      BY <1>1, <1>2, <1>4, <2>1 DEF set_current
    <3>2. << >> \o << >> = << >>
      OBVIOUS
    <3> QED
      BY <1>1, <1>3, <1>4, <1>5, <2>1, <3>1, <3>2 DEF Text, Storing
  <2>2. CASE c = w.last
    <3>1. ~(w.last < 0) /\ c # w'.last
      BY <1>2, <1>3, <2>2 DEF Chunk
    <3>2. disk'[c] = disk[c] \o w.buffered
      BY <1>1, <2>2, <3>1 DEF set_current
    <3> QED
      BY <1>1, <2>2, <3>1, <3>2 DEF Text
  <2>3. CASE c # w.last /\ c # w.last + 1
    <3>1. disk'[c] = disk[c]
      BY <1>1, <2>3 DEF set_current
    <3> QED
      BY <1>3, <2>3, <3>1 DEF Text
  <2> QED
    BY <2>1, <2>2, <2>3
<1> QED
  BY <1>2, <1>3, <1>5, <1>6 DEF SameText

LEMMA FlushText ==
  ASSUME WriterInv, Flush
  PROVE  SameText /\ w'.last = w.last /\ w'.rolled = w.rolled /\ w'.at = w.at /\ w'.then = w.then
<1>1. PICK k \in 1 .. Len(w.buffered) :
        /\ w.last >= 0 /\ disk' = [disk EXCEPT ![w.last] = @ \o SubSeq(w.buffered, 1, k)]
        /\ w' = [w EXCEPT !.buffered = SubSeq(@, k + 1, Len(@))]
  BY DEF Flush
<1>2. PICK b : b = w.buffered /\ b \in Seq(Piece)
  BY DEF WriterInv, StoreTypes, WriterRec
<1>3. k \in 0 .. Len(b) /\ Len(b) \in Nat /\ k \in 1 .. Len(b)
  BY <1>1, <1>2
<1>4. w \in WriterRec /\ disk \in [Chunk -> Seq(Piece)]
  BY DEF WriterInv, StoreTypes
<1>5. Storing
  <2>1. w # Closed
    BY <1>2, <1>3 DEF Closed
  <2> QED
    BY <2>1 DEF WriterInv, Storing
<1>6. /\ w'.last = w.last /\ w'.rolled = w.rolled /\ w'.at = w.at /\ w'.then = w.then
      /\ w'.buffered = SubSeq(b, k + 1, Len(b))
  BY <1>1, <1>2, <1>4 DEF WriterRec
<1>7. ASSUME NEW c \in Chunk
      PROVE  Text(c)' = Text(c)
  <2>1. CASE c = w.last
    <3>1. PICK a \in Seq(Piece) : a = disk[c]
      BY <1>4
    <3>2. disk'[c] = a \o SubSeq(b, 1, k)
      BY <1>1, <1>2, <1>4, <2>1, <3>1
    <3>3. (a \o SubSeq(b, 1, k)) \o SubSeq(b, k + 1, Len(b)) = a \o b
      BY <1>2, <1>3, Rejoined
    <3>4. Text(c)' = disk'[c] \o w'.buffered
      BY <1>5, <1>6, <2>1 DEF Text, Storing
    <3>5. Text(c) = a \o b
      BY <1>2, <1>5, <2>1, <3>1 DEF Text
    <3> QED
      BY <1>6, <3>2, <3>3, <3>4, <3>5
  <2>2. CASE c # w.last
    <3>1. disk'[c] = disk[c]
      BY <1>1, <1>4, <2>2
    <3> QED
      BY <1>6, <2>2, <3>1 DEF Text
  <2> QED
    BY <2>1, <2>2
<1> QED
  BY <1>6, <1>7 DEF SameText

\* A chunk that holds no more than it did.
Cut(c) == Len(Text(c)') <= Len(Text(c)) /\ \A i \in 1 .. Len(Text(c)') : Text(c)'[i] = Text(c)[i]

LEMMA LeavingText ==
  ASSUME WriterInv, end_site \/ WriterDies
  PROVE  /\ \A c \in Chunk : c # w.last => Text(c)' = Text(c)
         /\ \A c \in Chunk : Cut(c)
<1>1. Storing /\ Leaving
  BY EndsAre
<1>2. disk \in [Chunk -> Seq(Piece)] /\ ~Storing'
  BY <1>1 DEF WriterInv, StoreTypes, Leaving, Storing, Closed
<1>3. SubSeq(w.buffered, 1, Len(w.buffered)) = w.buffered
  BY FlushedAll
<1>4. ASSUME NEW c \in Chunk, c # w.last
      PROVE  Text(c)' = Text(c)
  <2>1. disk'[c] = disk[c]
    BY <1>1, <1>2, <1>4 DEF Leaving, Flushed
  <2> QED
    BY <1>2, <1>4, <2>1 DEF Text
<1>5. ASSUME NEW c \in Chunk
      PROVE  Cut(c)
  <2>1. CASE c # w.last
    <3>1. PICK t : t = Text(c) /\ Len(t) \in Nat
      BY TextIs
    <3> QED
      BY <1>4, <2>1, <3>1 DEF Cut
  <2>2. CASE c = w.last
    <3>1. Text(c)' = disk'[c]
      BY <1>2 DEF Text
    <3>2. disk'[c] = disk[c] \/ disk'[c] = Text(c)
      BY <1>1, <1>2, <1>3, <2>2 DEF Leaving, Flushed, Text
    <3>3. Len(disk[c]) \in Nat /\ Len(disk[c]) <= Len(Text(c)) /\ Len(Text(c)) \in Nat
          /\ \A i \in 1 .. Len(disk[c]) : Text(c)[i] = disk[c][i]
      BY TextIs
    <3> QED
      BY <3>1, <3>2, <3>3 DEF Cut
  <2> QED
    BY <2>1, <2>2
<1> QED
  BY <1>4, <1>5

\* What a part adds is at the end of the current chunk.
Added(c, m) ==
  /\ Len(Text(c)') = Len(Text(c)) + m
  /\ \A i \in 1 .. Len(Text(c)) : Text(c)'[i] = Text(c)[i]
  /\ \A i \in 1 .. m : Text(c)'[Len(Text(c)) + i] = <<P, Base + i>>
  /\ \A i \in 1 .. Len(Text(c)') : i <= Len(Text(c)) \/ \E j \in 1 .. m : i = Len(Text(c)) + j

LEMMA WriteText ==
  ASSUME WriterInv, NEW m \in 0 .. PartLen, Takes(m), w.at \in {"header", "body"}, UNCHANGED disk
  PROVE  /\ w.last \in Chunk /\ w'.last = w.last /\ w'.at = AfterPart /\ w'.rolled = FALSE /\ Storing'
         /\ m \in Nat /\ \A c \in Chunk : IF c = w.last THEN Added(c, m) ELSE Text(c)' = Text(c)
<1>1. w \in WriterRec /\ Storing /\ StoringShape /\ disk \in [Chunk -> Seq(Piece)]
  BY DEF WriterInv, StoreTypes, Storing
<1>2. w.last \in Chunk
  <2>1. ~AtFirst
    BY <1>1 DEF StoringShape, FirstShape, Making
  <2> QED
    BY <1>1, <2>1, Room
<1>3. PICK q : /\ q = Part /\ q \in Seq(Piece) /\ Len(q) = PartLen /\ PartLen \in Nat
               /\ \A i \in 1 .. PartLen : q[i] = <<P, Base + i>>
  BY PartIs
<1>4. m \in Nat /\ m <= Len(q)
  BY <1>3
<1>5. PICK t : t = SubSeq(q, 1, m) /\ t \in Seq(Piece) /\ Len(t) = m /\ \A i \in 1 .. m : t[i] = q[i]
  <2>1. /\ SubSeq(q, 1, m) \in Seq(Piece) /\ Len(SubSeq(q, 1, m)) = m
        /\ \A i \in 1 .. m : SubSeq(q, 1, m)[i] = q[i]
    BY <1>3, <1>4, Beginning
  <2> QED
    BY <2>1
<1>6. /\ w'.at = AfterPart /\ w'.last = w.last /\ w'.buffered = w.buffered \o t /\ w'.rolled = FALSE
  BY <1>1, <1>3, <1>5 DEF Takes, WriterRec
<1>7. Storing'
  BY <1>6 DEF AfterPart, Storing
<1>8. ASSUME NEW c \in Chunk, c = w.last
      PROVE  Added(c, m)
  <2>1. PICK a : a = disk[c] /\ a \in Seq(Piece)
    BY <1>1
  <2>2. PICK b : b = w.buffered /\ b \in Seq(Piece)
    BY <1>1 DEF WriterRec
  <2>3. Text(c)' = a \o (b \o t)
    BY <1>6, <1>7, <1>8, <2>1, <2>2 DEF Text
  <2>4. Text(c) = a \o b
    BY <1>1, <1>8, <2>1, <2>2 DEF Text
  <2>5. (a \o b) \o t = a \o (b \o t)
    <3>1. \A x, y, z \in Seq(Piece) : (x \o y) \o z = x \o (y \o z)
      BY ConcatAssociative
    <3> QED
      BY <1>5, <2>1, <2>2, <3>1, Zenon
  <2>6. PICK u : u = Text(c) /\ u \in Seq(Piece) /\ Len(u) \in Nat /\ Text(c)' = u \o t
    BY <2>3, <2>4, <2>5, TextIs
  <2>7. /\ Len(u \o t) = Len(u) + Len(t)
        /\ \A i \in 1 .. Len(u) : (u \o t)[i] = u[i]
        /\ \A i \in 1 .. Len(t) : (u \o t)[Len(u) + i] = t[i]
        /\ \A i \in 1 .. Len(u \o t) : i <= Len(u) \/ \E j \in 1 .. Len(t) : i = Len(u) + j
    BY <1>5, <2>6, PiecesJoined
  <2>8. \A i \in 1 .. m : t[i] = <<P, Base + i>>
    BY <1>3, <1>4, <1>5
  <2>9. PICK v : v = Text(c)' /\ v = u \o t
    BY <2>6
  <2>10. /\ Len(v) = Len(u) + m
         /\ \A i \in 1 .. Len(u) : v[i] = u[i]
         /\ \A i \in 1 .. m : v[Len(u) + i] = <<P, Base + i>>
         /\ \A i \in 1 .. Len(v) : i <= Len(u) \/ \E j \in 1 .. m : i = Len(u) + j
    BY <1>5, <2>7, <2>8, <2>9
  <2> QED
    BY <2>6, <2>9, <2>10 DEF Added
<1>9. \A c \in Chunk : c # w.last => Text(c)' = Text(c)
  BY <1>6, <1>7 DEF Text
<1> QED
  BY <1>2, <1>4, <1>6, <1>7, <1>8, <1>9

\* No step changes what is known of a page, but that it is whole.
KeepsPages ==
  /\ P \in Nat /\ P' \in Nat /\ P <= P' /\ opens \in Nat /\ opens' \in Nat /\ opens <= opens'
  /\ \A p \in 1 .. P :
       /\ pages'[p].open = pages[p].open /\ pages[p].open \in 1 .. opens
       /\ pages'[p].size = pages[p].size /\ pages[p].size \in Nat
       /\ pages'[p].whole => pages[p].whole

LEMMA PagesKept ==
  ASSUME WriterInv, Writer \/ writer_unchanged
  PROVE  KeepsPages
<1>1. /\ pages \in Seq(PageRec) /\ P = Len(pages) /\ P \in Nat /\ DOMAIN pages = 1 .. P /\ opens \in Nat
      /\ \A p \in 1 .. P : pages[p] \in PageRec /\ pages[p].open \in 1 .. opens
  BY DEF WriterInv, StoreTypes, Bounds, P
<1>2. \A p \in 1 .. P : pages[p].size \in Nat
  BY <1>1, RepositoryAssumption DEF PageRec
<1>3. ASSUME UNCHANGED <<pages, opens>>
      PROVE  KeepsPages
  BY <1>1, <1>2, <1>3 DEF KeepsPages, P
<1>4. ASSUME NEW s \in BodySizes, store(s)
      PROVE  KeepsPages
  <2>1. PICK e : pages' = Append(pages, e) /\ e \in PageRec
    <3>1. [size |-> s, open |-> IF w.at = "closed" THEN opens + 1 ELSE opens, whole |-> TRUE] \in PageRec
      BY <1>1 DEF PageRec
    <3> QED
      BY <1>4, <3>1 DEF store
  <2>2. P' = P + 1 /\ \A p \in 1 .. P : pages'[p] = pages[p]
    BY <1>1, <2>1 DEF P
  <2>3. opens' \in Nat /\ opens <= opens'
    BY <1>1, <1>4 DEF store
  <2> QED
    BY <1>1, <1>2, <2>2, <2>3 DEF KeepsPages
<1>5. CASE WritePart
  <2>1. PICK m \in 0 .. PartLen : Takes(m)
    BY <1>5, WritePartIs
  <2>2. UNCHANGED opens
    BY <1>5 DEF WritePart
  <2>3. CASE UNCHANGED pages
    BY <1>3, <2>2, <2>3
  <2>4. CASE pages' = [pages EXCEPT ![P].whole = FALSE]
    <3>1. P' = P
      BY <1>1, <2>4 DEF P
    <3>2. ASSUME NEW p \in 1 .. P
          PROVE  /\ pages'[p].open = pages[p].open /\ pages'[p].size = pages[p].size
                 /\ pages'[p].whole => pages[p].whole
      <4>1. PICK x : x = pages[p] /\ x \in PageRec
        BY <1>1
      <4>2. pages'[p] = (IF p = P THEN [x EXCEPT !.whole = FALSE] ELSE x)
        BY <1>1, <2>4, <4>1
      <4> QED
        BY <4>1, <4>2 DEF PageRec
    <3> QED
      BY <1>1, <1>2, <2>2, <3>1, <3>2 DEF KeepsPages
  <2> QED
    BY <2>1, <2>3, <2>4 DEF Takes
<1>6. CASE UNCHANGED <<pages, opens>>
  BY <1>3, <1>6
<1> QED
  BY <1>4, <1>5, <1>6 DEF Writer, writer_unchanged, Roll, CREATE_FILE, EmptyList, WriteList, set_current, Flush,
                          end_site, WriterDies

Old(c, i) == i \in Places(c) /\ Text(c)'[i] = Text(c)[i]
New(c, i) ==
  /\ w.at \in {"header", "body"} /\ c = w.last /\ P' = P
  /\ \E k \in Nat \ {0} : i = Len(Text(c)) + k /\ Text(c)'[i] = <<P, Base + k>>

LEMMA AddedPiece ==
  ASSUME NEW c, NEW m \in Nat, Added(c, m), Len(Text(c)) \in Nat, NEW i \in 1 .. Len(Text(c)')
  PROVE  Old(c, i) \/ \E j \in 1 .. m : i = Len(Text(c)) + j /\ Text(c)'[i] = <<P, Base + j>>
<1>1. CASE i <= Len(Text(c))
  <2>1. Len(Text(c)') \in Nat /\ i \in 1 .. Len(Text(c))
    BY <1>1 DEF Added
  <2> QED
    BY <2>1 DEF Added, Old, Places
<1>2. CASE \E j \in 1 .. m : i = Len(Text(c)) + j
  <2>1. PICK j \in 1 .. m : i = Len(Text(c)) + j
    BY <1>2
  <2>2. Text(c)'[Len(Text(c)) + j] = <<P, Base + j>>
    BY DEF Added
  <2> QED
    BY <2>1, <2>2
<1> QED
  BY <1>1, <1>2 DEF Added

LEMMA PiecesOf ==
  ASSUME WriterInv, Writer \/ writer_unchanged, NEW c \in Chunk, NEW i \in 1 .. Len(Text(c)')
  PROVE  Old(c, i) \/ New(c, i)
<1>1. /\ Len(Text(c)) \in Nat
      /\ ~(Storing /\ c = w.last) => Text(c) = disk[c]
  BY TextIs
<1>2. ASSUME Text(c)' = Text(c)
      PROVE  Old(c, i)
  BY <1>2 DEF Old, Places
<1>3. ASSUME NEW s \in BodySizes, store(s)
      PROVE  Old(c, i)
  BY <1>2, <1>3, StoreText DEF SameText
<1>4. CASE Roll \/ EmptyList \/ WriteList
  BY <1>2, <1>4, RollText DEF SameText
<1>5. CASE CREATE_FILE
  <2>1. Text(c)' = << >> \/ Text(c)' = Text(c)
    BY <1>5, CreateText
  <2>2. Text(c)' # << >>
    OBVIOUS
  <2> QED
    BY <1>2, <2>1, <2>2
<1>6. CASE set_current
  BY <1>2, <1>6, SwitchText DEF SameText
<1>7. CASE Flush
  BY <1>2, <1>7, FlushText DEF SameText
<1>8. CASE end_site \/ WriterDies
  <2>1. Cut(c)
    BY <1>8, LeavingText
  <2>2. WriterInv'
    BY WriterKeepsTypes
  <2>3. TextTyped'
    BY <2>2, TextTypes, PTL
  <2>4. Len(Text(c)') \in Nat
    BY <2>3 DEF TextTyped
  <2> QED
    BY <1>1, <2>1, <2>4 DEF Cut, Old, Places
<1>9. CASE writer_unchanged
  <2>1. Text(c)' = Text(c)
    BY <1>9 DEF writer_unchanged, Text, Storing
  <2> QED
    BY <1>2, <2>1
<1>10. CASE WritePart
  <2>1. PICK m \in 0 .. PartLen : Takes(m)
    BY <1>10, WritePartIs
  <2>2. w.at \in {"header", "body"} /\ UNCHANGED disk
    BY <1>10 DEF WritePart
  <2>3. m \in Nat /\ IF c = w.last THEN Added(c, m) ELSE Text(c)' = Text(c)
    BY <2>1, <2>2, WriteText
  <2>4. CASE c = w.last
    <3>1. Old(c, i) \/ \E j \in 1 .. m : i = Len(Text(c)) + j /\ Text(c)'[i] = <<P, Base + j>>
      BY <1>1, <2>3, <2>4, AddedPiece
    <3>2. ASSUME NEW j \in 1 .. m, i = Len(Text(c)) + j, Text(c)'[i] = <<P, Base + j>>
          PROVE  New(c, i)
      <4>1. j \in Nat \ {0}
        BY <2>3
      <4>2. P' = P
        <5>1. pages \in Seq(PageRec) /\ P = Len(pages)
          BY DEF WriterInv, StoreTypes, P
        <5> QED
          BY <2>1, <5>1 DEF Takes, P
      <4> QED
        BY <2>2, <2>4, <3>2, <4>1, <4>2 DEF New
    <3> QED
      BY <3>1, <3>2
  <2> QED
    BY <1>2, <2>3, <2>4
<1> QED
  BY <1>3, <1>4, <1>5, <1>6, <1>7, <1>8, <1>9, <1>10 DEF Writer

-----------------------------------------------------------------------------
(* The order of the pages *)

LEMMA OldOpening ==
  ASSUME WriterInv, Writer \/ writer_unchanged, PiecesKnown, NEW c \in Chunk, NEW i, Old(c, i)
  PROVE  /\ Text(c)[i][1] \in 1 .. P /\ Text(c)'[i] = Text(c)[i] /\ i \in Places(c) /\ i \in Nat
         /\ Opening(Text(c)[i])' = Opening(Text(c)[i])
<1>1. i \in Places(c) /\ Text(c)'[i] = Text(c)[i]
  BY DEF Old
<1>2. Text(c)[i][1] \in 1 .. P
  BY <1>1 DEF PiecesKnown
<1>3. i \in Nat
  BY <1>1, TextIs DEF Places
<1> QED
  BY <1>1, <1>2, <1>3, PagesKept DEF KeepsPages, Opening

LEMMA NewOpening ==
  ASSUME WriterInv, Writer \/ writer_unchanged, NEW c \in Chunk, NEW i, New(c, i)
  PROVE  /\ Storing /\ c = w.last /\ Len(Text(c)) \in Nat /\ i \in Nat /\ Len(Text(c)) < i
         /\ Text(c)'[i][1] = P /\ P \in Nat \ {0} /\ P' = P
         /\ Text(c)'[i][2] = 1 => Phase = "header" /\ i = Len(Text(c)) + 1
         /\ Opening(Text(c)[i])' = opens
<1>1. PICK k \in Nat \ {0} : i = Len(Text(c)) + k /\ Text(c)'[i] = <<P, Base + k>>
  BY DEF New
<1>2. Storing /\ ~Making /\ w.at \in {"header", "body"} /\ c = w.last /\ P' = P
  BY DEF New, Storing, Making
<1>3. StoringShape /\ P \in Nat \ {0} /\ pages[P].open = opens
  BY <1>2, LastPage DEF WriterInv, StoringShape
<1>4. Len(Text(c)) \in Nat
  BY TextIs
<1>5. Text(c)'[i][2] = 1 => Phase = "header" /\ i = Len(Text(c)) + 1
  BY <1>1, <1>2, <1>4 DEF Base, Phase
<1>6. Opening(Text(c)[i])' = pages'[P].open
  BY <1>1 DEF Opening
<1>7. pages'[P].open = pages[P].open
  BY <1>3, PagesKept DEF KeepsPages
<1> QED
  BY <1>1, <1>2, <1>3, <1>4, <1>5, <1>6, <1>7

LEMMA KnownKept ==
  ASSUME WriterInv, Writer \/ writer_unchanged, PiecesKnown
  PROVE  PiecesKnown'
<1> SUFFICES ASSUME NEW c \in Chunk, NEW i \in 1 .. Len(Text(c)')
             PROVE  Text(c)'[i][1] \in 1 .. P'
  BY DEF PiecesKnown, Places
<1>1. P \in Nat /\ P' \in Nat /\ P <= P'
  BY PagesKept DEF KeepsPages
<1>2. CASE Old(c, i)
  BY <1>1, <1>2, OldOpening
<1>3. CASE New(c, i)
  BY <1>1, <1>3, NewOpening
<1> QED
  BY <1>2, <1>3, PiecesOf

LEMMA OrderKept ==
  ASSUME WriterInv, Writer \/ writer_unchanged, PiecesKnown, Frontier, NewPage, HeadersInOrder
  PROVE  HeadersInOrder'
<1> SUFFICES ASSUME NEW c \in Chunk, NEW d \in Chunk,
                    NEW i \in 1 .. Len(Text(c)'), NEW j \in 1 .. Len(Text(d)'),
                    Later(c, i, d, j), Text(c)'[i][2] = 1, Text(d)'[j][2] = 1,
                    Opening(Text(c)[i])' = Opening(Text(d)[j])'
             PROVE  Text(c)'[i][1] < Text(d)'[j][1]
  BY DEF HeadersInOrder, InSequence, Places, Later, Opening
<1>1. c \in Int /\ d \in Int
  BY RepositoryAssumption DEF Chunk
<1>2. CASE Old(c, i) /\ Old(d, j)
  BY <1>2, OldOpening DEF HeadersInOrder, InSequence
<1>3. CASE Old(c, i) /\ New(d, j)
  <2>1. Text(d)'[j][1] = P /\ Phase = "header" /\ P \in Nat
    BY <1>3, NewOpening
  <2>2. Text(c)'[i][1] \in 1 .. P /\ Text(c)'[i][1] # P
    BY <1>3, <2>1, OldOpening DEF NewPage
  <2> QED
    BY <2>1, <2>2
<1>4. CASE New(c, i) /\ Old(d, j)
  <2>1. Storing /\ c = w.last /\ Len(Text(c)) \in Nat /\ Len(Text(c)) < i /\ i \in Nat
        /\ Opening(Text(c)[i])' = opens
    BY <1>4, NewOpening
  <2>2. j \in Places(d) /\ j \in Nat /\ Opening(Text(d)[j]) = opens
    BY <1>4, <2>1, OldOpening
  <2>3. d <= c
    BY <2>1, <2>2 DEF Frontier
  <2>4. d = c /\ i < j
    BY <1>1, <2>3 DEF Later
  <2> QED
    BY <2>1, <2>2, <2>4 DEF Places
<1>5. CASE New(c, i) /\ New(d, j)
  <2>1. c = w.last /\ d = w.last /\ i = Len(Text(c)) + 1 /\ j = Len(Text(d)) + 1
        /\ Len(Text(c)) \in Nat
    BY <1>5, NewOpening
  <2> QED
    BY <1>1, <2>1 DEF Later
<1> QED
  BY <1>2, <1>3, <1>4, <1>5, PiecesOf

\* What was ahead of a reader stays so.
LEMMA AheadKept ==
  ASSUME WriterInv, Writer \/ writer_unchanged, PiecesKnown, NewPage, NEW q, Reported(q),
         NEW c0, NEW i0, Ahead(q, c0, i0), r.cut => r'.cut
  PROVE  Ahead(q, c0, i0)'
<1> SUFFICES ASSUME ~r.cut, NEW c \in Chunk, NEW i \in 1 .. Len(Text(c)'),
                    From(c0, i0, c, i), Text(c)'[i][2] = 1, Opening(Text(c)[i])' = pages'[q].open
             PROVE  q < Text(c)'[i][1]
  BY DEF Ahead, Places, Opening, From
<1>1. q \in 1 .. P /\ P \in Nat /\ pages'[q].open = pages[q].open
  BY PagesKept DEF Reported, KeepsPages
<1>2. CASE Old(c, i)
  BY <1>1, <1>2, OldOpening DEF Ahead
<1>3. CASE New(c, i)
  <2>1. Text(c)'[i][1] = P /\ Phase = "header" /\ P \in Nat
    BY <1>3, NewOpening
  <2>2. q # P
    BY <2>1 DEF Reported
  <2> QED
    BY <1>1, <2>1, <2>2
<1> QED
  BY <1>2, <1>3, PiecesOf

LEMMA OneOpenKept ==
  ASSUME WriterInv, Writer \/ writer_unchanged, PiecesKnown, NEW n, NEW o, OneOpen(n, o),
         Storing => o = opens
  PROVE  OneOpen(n, o)'
<1> SUFFICES ASSUME NEW c \in Chunk, c < n, NEW i \in 1 .. Len(Text(c)')
             PROVE  Opening(Text(c)[i])' = o
  BY DEF OneOpen, Places, Opening
<1>1. CASE Old(c, i)
  BY <1>1, OldOpening DEF OneOpen
<1>2. CASE New(c, i)
  BY <1>2, NewOpening
<1> QED
  BY <1>1, <1>2, PiecesOf

\* Where a step that neither stores a page nor writes a part leaves the container.
LEMMA PhaseKept ==
  ASSUME WriterInv, Roll \/ CREATE_FILE \/ EmptyList \/ WriteList \/ set_current \/ Flush
  PROVE  /\ Phase' = Phase /\ P' = P /\ opens' = opens /\ Storing /\ Storing' /\ pages' = pages
         /\ Phase \in {"header", "body"} \/ Flush
         /\ w.last \in Int /\ w.last + 1 \in Chunk
         /\ IF set_current THEN w'.last = w.last + 1 /\ w.rolled = FALSE /\ w'.rolled = TRUE
            ELSE w'.last = w.last /\ w'.rolled = w.rolled
<1>1. w \in WriterRec /\ pages' = pages /\ opens' = opens /\ P' = P
  BY DEF WriterInv, StoreTypes, Roll, CREATE_FILE, EmptyList, WriteList, set_current, Flush, P
<1>2. ASSUME Storing
      PROVE  StoringShape /\ w.last \in Int /\ w.last + 1 \in Chunk
  BY <1>2, Room DEF WriterInv
<1>3. CASE Roll
  <2>1. w'.at = "creat" /\ w'.then = w.at /\ w.at \in {"header", "body"} /\ Storing /\ ~set_current
    BY <1>1, <1>3 DEF Roll, WriterRec, Storing, set_current
  <2> QED
    BY <1>1, <1>2, <1>3, <2>1, RollText DEF Phase, Making, Storing
<1>4. CASE CREATE_FILE \/ EmptyList \/ WriteList
  <2>1. /\ w.at \in {"creat", "list", "listed"} /\ w'.at \in {"list", "listed", "switch"}
        /\ w'.then = w.then /\ Storing /\ ~set_current /\ Making
    BY <1>1, <1>4 DEF CREATE_FILE, EmptyList, WriteList, WriterRec, Storing, set_current, Making
  <2>2. w.then \in {"header", "body"}
    BY <1>2, <2>1 DEF StoringShape
  <2>3. w'.last = w.last /\ w'.rolled = w.rolled
    BY <1>4, RollText, CreateText
  <2> QED
    BY <1>1, <1>2, <2>1, <2>2, <2>3 DEF Phase, Making, Storing
<1>5. CASE set_current
  <2>1. w.at = "switch" /\ w'.at = w.then /\ Storing /\ Making
    BY <1>1, <1>5 DEF set_current, WriterRec, Storing, Making
  <2>2. w.then \in {"header", "body"} /\ w.rolled = FALSE
    BY <1>1, <1>2, <2>1 DEF StoringShape, WriterRec
  <2>3. w'.last = w.last + 1 /\ w'.rolled = TRUE
    BY <1>5, SwitchText
  <2>4. Phase = w.then /\ Phase' = w.then /\ Storing'
    BY <2>1, <2>2 DEF Phase, Making, Storing
  <2> QED
    BY <1>1, <1>2, <1>5, <2>1, <2>2, <2>3, <2>4
<1>6. CASE Flush
  <2>1. w'.last = w.last /\ w'.rolled = w.rolled /\ w'.at = w.at /\ w'.then = w.then
    BY <1>6, FlushText
  <2>2. Storing
    <3>1. Closed.buffered = << >> /\ w.buffered # << >>
      BY <1>6 DEF Flush, Closed
    <3> QED
      BY <3>1 DEF WriterInv, Storing
  <2>3. ~set_current
    <3>1. w.last # w.last + 1
      BY <1>2, <2>2
    <3> QED
      BY <2>1, <3>1, SwitchText
  <2> QED
    BY <1>1, <1>2, <1>6, <2>1, <2>2, <2>3 DEF Phase, Making, Storing
<1> QED
  BY <1>3, <1>4, <1>5, <1>6

LEMMA StorePhase ==
  ASSUME WriterInv, NEW size \in BodySizes, store(size)
  PROVE  /\ Phase' = "header" /\ P \in Nat /\ P' = P + 1 /\ Phase # "header" /\ Phase # "body" /\ Storing'
         /\ IF w.at = "closed" THEN opens' = opens + 1 /\ w'.last = -1
            ELSE w.at = "idle" /\ Storing /\ opens' = opens /\ w'.last = w.last
<1>1. w \in WriterRec /\ pages \in Seq(PageRec) /\ P = Len(pages) /\ P \in Nat /\ w.at \in {"closed", "idle"}
  BY DEF WriterInv, StoreTypes, store, P
<1>2. P' = P + 1
  BY <1>1 DEF store, P
<1>3. Phase = w.at
  BY <1>1 DEF Phase, Making
<1>4. CASE w.at = "closed"
  <2>1. w'.at = "creat" /\ w'.then = "header" /\ w'.last = -1 /\ opens' = opens + 1
    BY <1>4 DEF store, Closed
  <2> QED
    BY <1>1, <1>2, <1>3, <1>4, <2>1 DEF Phase, Making, Storing
<1>5. CASE w.at = "idle"
  <2>1. w'.at = "header" /\ w'.last = w.last /\ opens' = opens
    BY <1>1, <1>5 DEF store, WriterRec
  <2> QED
    BY <1>1, <1>2, <1>3, <1>5, <2>1 DEF Phase, Making, Storing
<1> QED
  BY <1>1, <1>4, <1>5

LEMMA WritePhase ==
  ASSUME WriterInv, NEW m \in 0 .. PartLen, Takes(m), w.at \in {"header", "body"}, UNCHANGED <<disk, opens>>
  PROVE  /\ Phase = w.at /\ Phase' = AfterPart /\ Storing /\ Storing' /\ P' = P /\ opens' = opens
         /\ P \in Nat \ {0} /\ w.last \in Int /\ w'.last = w.last /\ w'.rolled = FALSE
         /\ pages[P].open = opens
<1>1. Phase = w.at /\ Storing
  BY DEF Phase, Making, Storing
<1>2. w'.at = AfterPart /\ w'.last = w.last /\ w'.rolled = FALSE /\ Storing'
  BY WriteText
<1>3. Phase' = AfterPart
  BY <1>2 DEF Phase, Making, AfterPart
<1>4. pages \in Seq(PageRec) /\ P \in Nat \ {0}
  BY <1>1, LastPage DEF WriterInv, StoreTypes
<1>5. P' = P
  BY <1>4 DEF Takes, P
<1>6. StoringShape /\ w.last \in Int
  BY <1>1, Room DEF WriterInv
<1> QED
  BY <1>1, <1>2, <1>3, <1>4, <1>5, <1>6 DEF StoringShape

LEMMA StillStoring ==
  ASSUME Storing'
  PROVE  ~end_site /\ ~WriterDies
<1>1. Closed.at = "closed"
  BY DEF Closed
<1>2. w'.at # "closed"
  BY DEF Storing
<1>3. w' # Closed
  BY <1>1, <1>2
<1>4. ~end_site
  BY <1>3 DEF end_site
<1>5. ~WriterDies
  BY <1>3 DEF WriterDies
<1> QED
  BY <1>4, <1>5

LEMMA FrontierKept ==
  ASSUME WriterInv, Writer \/ writer_unchanged, PiecesKnown, Frontier
  PROVE  Frontier'
<1> SUFFICES ASSUME Storing', NEW c \in Chunk, NEW i \in 1 .. Len(Text(c)')
             PROVE  Opening(Text(c)[i])' = opens' <=> c <= w'.last
  BY DEF Frontier, Places, Opening
<1>1. c \in Nat
  BY RepositoryAssumption DEF Chunk
<1>2. CASE New(c, i)
  <2>1. Opening(Text(c)[i])' = opens /\ c = w.last /\ Storing
    BY <1>2, NewOpening
  <2>2. CASE WritePart
    <3>1. PICK m \in 0 .. PartLen : Takes(m)
      BY <2>2, WritePartIs
    <3>2. opens' = opens /\ w'.last = w.last
      BY <2>2, <3>1, WritePhase DEF WritePart
    <3> QED
      BY <1>1, <2>1, <3>2
  <2>3. CASE writer_unchanged
    BY <1>1, <2>1, <2>3 DEF writer_unchanged
  <2>4. CASE ~WritePart /\ ~writer_unchanged
    <3>1. w.at \in {"header", "body"}
      BY <1>2 DEF New
    <3>2. ASSUME NEW s \in BodySizes
          PROVE  ~store(s)
      BY <3>1 DEF store
    <3>3. ~CREATE_FILE /\ ~EmptyList /\ ~WriteList /\ ~set_current /\ ~end_site
      BY <3>1 DEF CREATE_FILE, EmptyList, WriteList, set_current, end_site
    <3>4. ~WriterDies
      BY StillStoring
    <3>5. Roll \/ Flush
      BY <2>4, <3>2, <3>3, <3>4 DEF Writer
    <3>6. opens' = opens /\ w'.last = w.last
      BY <3>3, <3>5, PhaseKept
    <3> QED
      BY <1>1, <2>1, <3>6
  <2> QED
    BY <2>2, <2>3, <2>4
<1>3. CASE Old(c, i)
  <2>1. /\ Opening(Text(c)[i])' = Opening(Text(c)[i]) /\ i \in Places(c) /\ Text(c)[i][1] \in 1 .. P
        /\ opens \in Nat /\ Opening(Text(c)[i]) \in 1 .. opens
    BY <1>3, OldOpening, PagesKept DEF KeepsPages, Opening
  <2>2. ASSUME Storing, opens' = opens, w'.last = w.last
        PROVE  Opening(Text(c)[i])' = opens' <=> c <= w'.last
    BY <2>1, <2>2 DEF Frontier
  <2>3. ASSUME NEW s \in BodySizes, store(s)
        PROVE  Opening(Text(c)[i])' = opens' <=> c <= w'.last
    <3>1. CASE w.at = "closed"
      BY <1>1, <2>1, <2>3, <3>1, StorePhase
    <3>2. CASE w.at # "closed"
      BY <2>2, <2>3, <3>2, StorePhase
    <3> QED
      BY <3>1, <3>2
  <2>4. CASE WritePart
    <3>1. PICK m \in 0 .. PartLen : Takes(m)
      BY <2>4, WritePartIs
    <3>2. opens' = opens /\ w'.last = w.last /\ Storing
      BY <2>4, <3>1, WritePhase DEF WritePart
    <3> QED
      BY <2>2, <3>2
  <2>5. CASE Roll \/ CREATE_FILE \/ EmptyList \/ WriteList \/ set_current \/ Flush
    <3>1. opens' = opens /\ Storing
      BY <2>5, PhaseKept
    <3>2. CASE ~set_current
      BY <2>2, <2>5, <3>1, <3>2, PhaseKept
    <3>3. CASE set_current
      <4>1. w'.last = w.last + 1 /\ w.last \in Int /\ Text(w.last + 1) = << >>
        BY <3>3, SwitchText, PhaseKept
      <4>2. c # w.last + 1
        <5>1. Text(c) # << >>
          BY <2>1 DEF Places
        <5> QED
          BY <4>1, <5>1
      <4>3. c <= w.last <=> c <= w'.last
        BY <1>1, <4>1, <4>2
      <4> QED
        BY <2>1, <3>1, <4>3 DEF Frontier
    <3> QED
      BY <3>2, <3>3
  <2>6. ~end_site /\ ~WriterDies
    BY StillStoring
  <2>7. CASE writer_unchanged
    BY <2>2, <2>7 DEF writer_unchanged, Storing
  <2> QED
    BY <2>3, <2>4, <2>5, <2>6, <2>7 DEF Writer
<1> QED
  BY <1>2, <1>3, PiecesOf

LEMMA NewPageKept ==
  ASSUME WriterInv, Writer \/ writer_unchanged, PiecesKnown, NewPage
  PROVE  NewPage'
<1> SUFFICES ASSUME Phase' = "header", NEW c \in Chunk, NEW i \in 1 .. Len(Text(c)')
             PROVE  Text(c)'[i][1] # P'
  BY DEF NewPage, Places
<1>1. ASSUME Phase = "header", P' = P, Old(c, i)
      PROVE  Text(c)'[i][1] # P'
  BY <1>1, OldOpening DEF NewPage
<1>2. ASSUME NEW s \in BodySizes, store(s)
      PROVE  Text(c)'[i][1] # P'
  <2>1. Old(c, i)
    BY <1>2, StoreText DEF SameText, Old, Places
  <2> QED
    BY <1>2, <2>1, OldOpening, StorePhase
<1>3. CASE WritePart
  <2>1. PICK m \in 0 .. PartLen : Takes(m)
    BY <1>3, WritePartIs
  <2>2. Phase' = AfterPart
    BY <1>3, <2>1, WritePhase DEF WritePart
  <2> QED
    BY <2>2 DEF AfterPart
<1>4. CASE Roll \/ CREATE_FILE \/ EmptyList \/ WriteList \/ set_current \/ Flush
  <2>1. Phase = "header" /\ P' = P
    BY <1>4, PhaseKept
  <2>2. Old(c, i)
    <3>1. CASE CREATE_FILE
      <4>1. Text(c)' = << >> \/ Text(c)' = Text(c)
        BY <3>1, CreateText
      <4>2. Text(c)' # << >>
        OBVIOUS
      <4> QED
        BY <4>1, <4>2 DEF Old, Places
    <3>2. CASE ~CREATE_FILE
      BY <1>4, <3>2, RollText, SwitchText, FlushText DEF SameText, Old, Places
    <3> QED
      BY <3>1, <3>2
  <2> QED
    BY <1>1, <2>1, <2>2
<1>5. CASE end_site \/ WriterDies
  <2>1. ~Storing'
    BY <1>5, StillStoring
  <2> QED
    BY <2>1 DEF Phase, Making, Storing
<1>6. CASE writer_unchanged
  <2>1. Phase = "header" /\ P' = P /\ Old(c, i)
    BY <1>6 DEF writer_unchanged, Phase, Making, P, Old, Places, Text, Storing
  <2> QED
    BY <1>1, <2>1
<1> QED
  BY <1>2, <1>3, <1>4, <1>5, <1>6 DEF Writer

LEMMA LastHeaderKept ==
  ASSUME WriterInv, Writer \/ writer_unchanged, PiecesKnown, NewPage, LastHeader
  PROVE  LastHeader'
<1> SUFFICES ASSUME Phase' = "body", NEW c \in Chunk, NEW i \in 1 .. Len(Text(c)'),
                    Text(c)'[i] = <<P', 3>>
             PROVE  c = HeaderChunk' /\ i = Len(Text(c)')
  BY DEF LastHeader, Places
<1>1. ASSUME NEW s \in BodySizes
      PROVE  ~store(s)
  BY StorePhase
<1>2. CASE WritePart
  <2>1. PICK m \in 0 .. PartLen : Takes(m)
    BY <1>2, WritePartIs
  <2>2. w.at \in {"header", "body"} /\ UNCHANGED <<disk, opens>>
    BY <1>2 DEF WritePart
  <2>3. Phase' = AfterPart /\ P' = P /\ P \in Nat /\ w'.last = w.last /\ w'.rolled = FALSE /\ w.last \in Int
    BY <2>1, <2>2, WritePhase
  <2>4. w.at = "header" /\ Phase = "header"
    BY <2>2, <2>3 DEF AfterPart, Phase, Making
  <2>5. m \in Nat /\ IF c = w.last THEN Added(c, m) ELSE Text(c)' = Text(c)
    BY <2>1, <2>2, WriteText
  <2>6. ~Old(c, i)
    BY <2>3, <2>4, OldOpening DEF NewPage
  <2>7. c = w.last /\ Len(Text(c)) \in Nat
    BY <2>5, <2>6, TextIs DEF Old, Places
  <2>8. PICK j \in 1 .. m : i = Len(Text(c)) + j /\ Text(c)'[i] = <<P, Base + j>>
    BY <2>5, <2>6, <2>7, AddedPiece
  <2>9. j = 3
    <3>1. Base = 0 /\ j \in Nat
      BY <2>4, <2>5 DEF Base
    <3>2. Base + j = 3
      BY <2>3, <2>8
    <3> QED
      BY <3>1, <3>2
  <2>10. m = 3
    BY <2>4, <2>8, <2>9 DEF PartLen
  <2> QED
    BY <2>3, <2>5, <2>7, <2>8, <2>9, <2>10 DEF Added, HeaderChunk
<1>3. CASE Roll \/ CREATE_FILE \/ EmptyList \/ WriteList \/ set_current \/ Flush
  <2>1. Phase = "body" /\ P' = P /\ w.last \in Int
    BY <1>3, PhaseKept
  <2>2. Text(c)' = Text(c)
    <3>1. CASE CREATE_FILE
      <4>1. Text(c)' = << >> \/ Text(c)' = Text(c)
        BY <3>1, CreateText
      <4>2. Text(c)' # << >>
        OBVIOUS
      <4> QED
        BY <4>1, <4>2 DEF Old, Places
    <3>2. CASE ~CREATE_FILE
      BY <1>3, <3>2, RollText, SwitchText, FlushText DEF SameText
    <3> QED
      BY <3>1, <3>2
  <2>3. c = HeaderChunk /\ i = Len(Text(c))
    BY <2>1, <2>2 DEF LastHeader, Places
  <2>4. HeaderChunk' = HeaderChunk
    <3>1. IF set_current THEN w'.last = w.last + 1 /\ w.rolled = FALSE /\ w'.rolled = TRUE
          ELSE w'.last = w.last /\ w'.rolled = w.rolled
      BY <1>3, PhaseKept
    <3> QED
      BY <2>1, <3>1 DEF HeaderChunk
  <2> QED
    BY <2>2, <2>3, <2>4
<1>4. ~end_site /\ ~WriterDies
  <2>1. Storing'
    BY DEF Phase, Making, Storing
  <2> QED
    BY <2>1, StillStoring
<1>5. CASE writer_unchanged
  <2>1. Phase = "body" /\ P' = P /\ Text(c)' = Text(c) /\ HeaderChunk' = HeaderChunk
    BY <1>5 DEF writer_unchanged, Phase, Making, P, Text, Storing, HeaderChunk
  <2> QED
    BY <2>1 DEF LastHeader, Places
<1> QED
  BY <1>1, <1>2, <1>3, <1>4, <1>5 DEF Writer

-----------------------------------------------------------------------------
(* The bodies *)

Extends(c) == Len(Text(c)) <= Len(Text(c)') /\ \A k \in Places(c) : Text(c)'[k] = Text(c)[k]

LEMMA WholeKept ==
  ASSUME NEW p, NEW n \in Nat, pages[p].size = n, pages'[p].size = n,
         NEW c \in Chunk, NEW i \in Places(c), Whole(p, c, i), TextTyped, TextTyped',
         w.last \in Int, w'.last \in Int, w.last <= w'.last,
         Extends(c),
         c + 1 <= w.last => c + 1 \in Chunk /\ Extends(c + 1) /\ Text(c)' = Text(c)
  PROVE  Whole(p, c, i)'
<1>1. c \in Int /\ Len(Text(c)) \in Nat /\ Len(Text(c)') \in Nat /\ i \in Nat
  BY RepositoryAssumption DEF Chunk, TextTyped, Places
<1>2. CASE i + n <= Len(Text(c)) /\ BodyAt(p, Text(c), i)
  <2>1. i + n <= Len(Text(c)')
    BY <1>1, <1>2 DEF Extends
  <2>2. ASSUME NEW j \in 1 .. n
        PROVE  Text(c)'[i + j] = <<p, 3 + j>>
    <3>1. i + j \in Places(c) /\ i + j <= Len(Text(c))
      BY <1>1, <1>2 DEF Places
    <3> QED
      BY <1>2, <3>1 DEF BodyAt, Extends
  <2> QED
    BY <2>1, <2>2 DEF Whole, BodyAt
<1>3. CASE /\ i = Len(Text(c)) /\ c + 1 <= w.last
           /\ n <= Len(Text(c + 1)) /\ BodyAt(p, Text(c + 1), 0)
  <2>1. c + 1 \in Chunk /\ Extends(c + 1) /\ Text(c)' = Text(c)
    BY <1>3
  <2>2. Len(Text(c + 1)) \in Nat /\ Len(Text(c + 1)') \in Nat
    BY <2>1 DEF TextTyped
  <2>3. c + 1 <= w'.last /\ n <= Len(Text(c + 1)') /\ i = Len(Text(c)')
    BY <1>1, <1>3, <2>1, <2>2 DEF Extends
  <2>4. ASSUME NEW j \in 1 .. n
        PROVE  Text(c + 1)'[0 + j] = <<p, 3 + j>>
    <3>1. 0 + j \in Places(c + 1) /\ 0 + j <= Len(Text(c + 1))
      BY <1>3, <2>2 DEF Places
    <3> QED
      BY <1>3, <2>1, <3>1 DEF BodyAt, Extends
  <2> QED
    BY <2>3, <2>4 DEF Whole, BodyAt
<1> QED
  BY <1>2, <1>3 DEF Whole

LEMMA SameExtends ==
  ASSUME NEW c \in Chunk, TextTyped, Text(c)' = Text(c)
  PROVE  Extends(c)
BY DEF Extends, TextTyped

LEMMA AddedExtends ==
  ASSUME NEW c \in Chunk, TextTyped, NEW m \in Nat, Added(c, m)
  PROVE  Extends(c)
<1>1. Len(Text(c)) \in Nat /\ Len(Text(c)') = Len(Text(c)) + m
  BY DEF Added, TextTyped
<1> QED
  BY <1>1 DEF Extends, Places, Added

\* A step that writes no part, and keeps what the chunks hold up to the current one.
LEMMA SameBodies ==
  ASSUME WriterInv, WriterInv', Writer \/ writer_unchanged, PiecesKnown, Bodies, Storing, Storing',
         \A c \in Chunk : c <= w.last => Text(c)' = Text(c),
         w.last \in Int, w'.last \in Int, w.last <= w'.last,
         \A c \in Chunk : c <= w.last \/ c > w'.last \/ Text(c)' = << >>,
         Phase = "body" => P' = P /\ Phase' = "body"
  PROVE  Bodies'
<1> SUFFICES ASSUME NEW c \in Chunk, c <= w'.last, NEW i \in 1 .. Len(Text(c)'), NEW p \in 1 .. P',
                    Text(c)'[i] = <<p, 3>>, pages'[p].whole
             PROVE  Whole(p, c, i)' \/ (p = P' /\ Phase' = "body")
  BY DEF Bodies, Places, HeaderOf
<1>1. c \in Int /\ TextTyped /\ TextTyped'
  <2>1. TextTyped
    BY TextTypes
  <2>2. TextTyped'
    BY TextTypes, PTL
  <2> QED
    BY <2>1, <2>2, RepositoryAssumption DEF Chunk
<1>2. c <= w.last /\ Text(c)' = Text(c)
  <2>1. Text(c)' # << >>
    OBVIOUS
  <2> QED
    BY <1>1, <2>1
<1>3. i \in Places(c) /\ p \in 1 .. P
  BY <1>2 DEF PiecesKnown, Places
<1>4. PICK n \in Nat : pages[p].size = n /\ pages'[p].size = n /\ (pages'[p].whole => pages[p].whole)
  BY <1>3, PagesKept DEF KeepsPages
<1>5. Whole(p, c, i) \/ (p = P /\ Phase = "body")
  BY <1>2, <1>3, <1>4 DEF Bodies, HeaderOf
<1>6. CASE Whole(p, c, i)
  <2>1. c + 1 <= w.last => c + 1 \in Chunk
    <3>1. w.last + 1 \in Chunk
      BY Room
    <3> QED
      BY <1>1, <3>1, RepositoryAssumption DEF Chunk
  <2>2. c + 1 <= w.last => Extends(c + 1)
    BY <1>1, <2>1, SameExtends
  <2>3. Extends(c)
    BY <1>1, <1>2, SameExtends
  <2> QED
    BY <1>1, <1>2, <1>3, <1>4, <1>6, <2>1, <2>2, <2>3, WholeKept
<1>7. CASE p = P /\ Phase = "body"
  BY <1>7
<1> QED
  BY <1>5, <1>6, <1>7

\* A chunk that was made for the part to be written is empty until it is.
LEMMA RolledEmpty ==
  ASSUME WriterInv, Storing, w.rolled, NEW d \in Chunk, d = w.last
  PROVE  Text(d) = << >> /\ Len(Text(d)) = 0
<1>1. StoringShape /\ w.at \in {"header", "body"}
  BY DEF WriterInv, StoringShape
<1>2. w.pos = 0 /\ LaterShape
  BY <1>1 DEF StoringShape, FirstShape, Making
<1>3. PICK a \in Seq(Piece) : a = disk[d]
  BY DEF WriterInv, StoreTypes
<1>4. PICK b \in Seq(Piece) : b = w.buffered
  BY DEF WriterInv, StoreTypes, WriterRec
<1>5. PICK x \in Nat : x = Len(a)
  OBVIOUS
<1>6. PICK y \in Nat : y = Len(b)
  OBVIOUS
<1>7. x + y = 0
  BY <1>2, <1>3, <1>4, <1>5, <1>6 DEF LaterShape
<1>8. Text(d) = a \o b /\ Len(a \o b) = Len(a) + Len(b) /\ a \o b \in Seq(Piece)
  BY <1>3, <1>4, PiecesJoined DEF Text
<1>9. Len(Text(d)) = 0 /\ Text(d) \in Seq(Piece)
  BY <1>5, <1>6, <1>7, <1>8
<1> QED
  BY <1>9

\* A part that is written: the body of the last page, or the header of a new one.
LEMMA WriteBodies ==
  ASSUME WriterInv, WriterInv', NEW m \in 0 .. PartLen, Takes(m), w.at \in {"header", "body"},
         UNCHANGED <<disk, opens>>, KeepsPages, PiecesKnown, NewPage, LastHeader, Bodies,
         NEW c \in Chunk, c <= w.last, NEW i \in Places(c), NEW p \in 1 .. P,
         Text(c)[i] = <<p, 3>>, pages'[p].whole
  PROVE  Whole(p, c, i)'
<1>1. /\ Phase = w.at /\ Phase' = AfterPart /\ Storing /\ P' = P
      /\ P \in Nat \ {0} /\ w.last \in Int /\ w'.last = w.last
  BY WritePhase
<1>2. /\ m \in Nat /\ w.last \in Chunk
      /\ \A d \in Chunk : IF d = w.last THEN Added(d, m) ELSE Text(d)' = Text(d)
  BY WriteText
<1>3. TextTyped
  BY TextTypes
<1>4. TextTyped'
  BY TextTypes, PTL
<1>5. PICK n \in Nat : pages[p].size = n /\ pages'[p].size = n /\ (pages'[p].whole => pages[p].whole)
  BY DEF KeepsPages
<1>6. Whole(p, c, i) \/ (p = P /\ Phase = "body")
  BY <1>1, <1>5 DEF Bodies, HeaderOf
<1>7. \A d \in Chunk : Extends(d)
  BY <1>2, <1>3, SameExtends, AddedExtends
<1>8. c \in Int /\ i \in Nat /\ (c + 1 <= w.last => c + 1 \in Chunk /\ c # w.last)
  <2>1. w.last + 1 \in Chunk
    BY <1>1, Room
  <2>2. c \in Int
    BY RepositoryAssumption DEF Chunk
  <2>3. i \in Nat
    BY <1>3 DEF TextTyped, Places
  <2> QED
    BY <1>1, <2>1, <2>2, <2>3, RepositoryAssumption DEF Chunk
<1>9. CASE Whole(p, c, i)
  <2>1. c + 1 <= w.last => c + 1 \in Chunk /\ Extends(c + 1) /\ Text(c)' = Text(c)
    BY <1>2, <1>7, <1>8
  <2>2. w'.last \in Int /\ w.last <= w'.last
    BY <1>1
  <2> QED
    BY <1>1, <1>3, <1>4, <1>5, <1>7, <1>9, <2>1, <2>2, WholeKept
<1>10. CASE p = P /\ Phase = "body"
  <2>1. c = HeaderChunk /\ i = Len(Text(c))
    BY <1>10 DEF LastHeader
  <2>2. m = n /\ Base = 3
    <3>1. PartLen = n /\ Base = 3
      BY <1>1, <1>5, <1>10 DEF PartLen, Base
    <3>2. m = PartLen
      <4>1. CASE m # PartLen
        <5>1. pages' = [pages EXCEPT ![P].whole = FALSE]
          BY <4>1 DEF Takes
        <5>2. pages[P] \in PageRec /\ P \in DOMAIN pages
          BY <1>1, LastPage
        <5>3. pages'[P].whole = FALSE
          BY <5>1, <5>2 DEF PageRec
        <5> QED
          BY <1>10, <5>3
      <4> QED
        BY <4>1
    <3> QED
      BY <3>1, <3>2
  <2>3. CASE w.rolled
    <3>1. PICK d \in Chunk : d = w.last /\ d = c + 1 /\ Added(d, m)
      BY <1>1, <1>2, <1>8, <2>1, <2>3 DEF HeaderChunk
    <3>2. Len(Text(d)) = 0
      BY <1>1, <2>3, <3>1, RolledEmpty
    <3>3. Len(Text(d)') = n /\ \A j \in 1 .. n : Text(d)'[j] = <<P, 3 + j>>
      <4>1. Len(Text(d)') = 0 + n
        BY <1>2, <2>2, <3>1, <3>2 DEF Added
      <4>2. ASSUME NEW j \in 1 .. n
            PROVE  Text(d)'[j] = <<P, 3 + j>>
        <5>1. Text(d)'[Len(Text(d)) + j] = <<P, 3 + j>>
          BY <2>2, <3>1 DEF Added
        <5>2. Len(Text(d)) + j = j
          BY <3>2
        <5> QED
          BY <5>1, <5>2
      <4> QED
        BY <4>1, <4>2
    <3>4. Text(c)' = Text(c)
      BY <1>2, <1>8, <3>1
    <3>5. c + 1 <= w'.last /\ i = Len(Text(c)')
      BY <1>1, <2>1, <3>1, <3>4
    <3>6. n <= Len(Text(d)') /\ \A j \in 1 .. n : Text(d)'[0 + j] = <<p, 3 + j>>
      BY <1>10, <3>3
    <3> QED
      BY <1>5, <3>1, <3>5, <3>6 DEF Whole, BodyAt
  <2>4. CASE ~w.rolled
    <3>1. c = w.last /\ Added(c, m)
      BY <1>2, <2>1, <2>4 DEF HeaderChunk
    <3>2. i + n <= Len(Text(c)')
      BY <1>8, <2>1, <2>2, <3>1 DEF Added
    <3>3. ASSUME NEW j \in 1 .. n
          PROVE  Text(c)'[i + j] = <<p, 3 + j>>
      BY <1>10, <2>1, <2>2, <3>1 DEF Added
    <3> QED
      BY <1>5, <3>2, <3>3 DEF Whole, BodyAt
  <2> QED
    BY <2>3, <2>4
<1> QED
  BY <1>6, <1>9, <1>10

LEMMA BodiesKept ==
  ASSUME WriterInv, Writer \/ writer_unchanged, PiecesKnown, NewPage, LastHeader, Bodies
  PROVE  Bodies'
<1>1. WriterInv'
  BY WriterKeepsTypes
<1>2. ASSUME NEW s \in BodySizes, store(s)
      PROVE  Bodies'
  <2>1. SameText /\ Storing' /\ Phase # "body"
    BY <1>2, StoreText, StorePhase
  <2>2. CASE w.at = "closed"
    <3>1. w'.last = -1
      BY <1>2, <2>2, StorePhase
    <3>2. \A c \in Chunk : ~(c <= w'.last)
      BY <3>1, RepositoryAssumption DEF Chunk
    <3> QED
      BY <3>2 DEF Bodies
  <2>3. CASE w.at # "closed"
    <3>1. Storing /\ w'.last = w.last /\ w.last \in Int
      BY <1>2, <2>3, StorePhase, Room
    <3>2. \A c \in Chunk : c <= w.last \/ c > w'.last
      BY <3>1, RepositoryAssumption DEF Chunk
    <3> QED
      BY <1>1, <2>1, <3>1, <3>2, SameBodies DEF SameText
  <2> QED
    BY <2>2, <2>3
<1>3. CASE WritePart
  <2>1. PICK m \in 0 .. PartLen : Takes(m)
    BY <1>3, WritePartIs
  <2>2. w.at \in {"header", "body"} /\ UNCHANGED <<disk, opens>> /\ KeepsPages
    BY <1>3, PagesKept DEF WritePart
  <2>3. Phase = w.at /\ Phase' = AfterPart /\ Storing /\ P' = P /\ w'.last = w.last
    BY <2>1, <2>2, WritePhase
  <2>4. ASSUME NEW c \in Chunk, c <= w'.last, NEW i \in 1 .. Len(Text(c)'), NEW p \in 1 .. P',
               Text(c)'[i] = <<p, 3>>, pages'[p].whole
        PROVE  Whole(p, c, i)' \/ (p = P' /\ Phase' = "body")
    <3>1. CASE Old(c, i)
      BY <1>1, <2>1, <2>2, <2>3, <2>4, <3>1, WriteBodies DEF Old
    <3>2. CASE New(c, i)
      <4>1. PICK k \in Nat \ {0} : <<p, 3>> = <<P, Base + k>>
        BY <2>4, <3>2 DEF New
      <4>2. p = P /\ Base # 3
        BY <4>1
      <4>3. w.at = "header"
        BY <4>2 DEF Base
      <4> QED
        BY <2>3, <4>2, <4>3 DEF AfterPart
    <3> QED
      BY <3>1, <3>2, PiecesOf
  <2> QED
    BY <2>4 DEF Bodies, Places, HeaderOf
<1>4. CASE Roll \/ CREATE_FILE \/ EmptyList \/ WriteList \/ set_current \/ Flush
  <2>1. /\ Storing /\ Storing' /\ P' = P /\ Phase' = Phase /\ w.last \in Int
        /\ IF set_current THEN w'.last = w.last + 1 ELSE w'.last = w.last
    BY <1>4, PhaseKept
  <2>2. w'.last \in Int /\ w.last <= w'.last
    BY <2>1
  <2>3. \A c \in Chunk : c \in Int
    BY RepositoryAssumption DEF Chunk
  <2>4. \A c \in Chunk : c <= w.last => Text(c)' = Text(c)
    <3>1. CASE CREATE_FILE
      <4>1. \A c \in Chunk : c <= w.last => c # w.last + 1
        BY <2>1, <2>3
      <4> QED
        BY <3>1, <4>1, CreateText
    <3>2. CASE ~CREATE_FILE
      BY <1>4, <3>2, RollText, SwitchText, FlushText DEF SameText
    <3> QED
      BY <3>1, <3>2
  <2>5. \A c \in Chunk : c <= w.last \/ c > w'.last \/ Text(c)' = << >>
    <3>1. CASE set_current
      <4>1. SameText /\ Text(w.last + 1) = << >> /\ w'.last = w.last + 1
        BY <3>1, SwitchText
      <4>2. \A c \in Chunk : c <= w.last \/ c > w'.last \/ c = w.last + 1
        BY <2>1, <2>3, <4>1
      <4> QED
        BY <4>1, <4>2 DEF SameText
    <3>2. CASE ~set_current
      BY <2>1, <2>3, <3>2
    <3> QED
      BY <3>1, <3>2
  <2> QED
    BY <1>1, <2>1, <2>2, <2>4, <2>5, SameBodies
<1>5. CASE end_site \/ WriterDies
  <2>1. ~Storing'
    BY <1>5, StillStoring
  <2> QED
    BY <2>1 DEF Bodies
<1>6. CASE writer_unchanged
  <2>1. /\ Storing' = Storing /\ w'.last = w.last /\ P' = P /\ Phase' = Phase
        /\ \A c \in Chunk : Text(c)' = Text(c)
    BY <1>6 DEF writer_unchanged, Storing, Text, P, Phase, Making
  <2>2. CASE Storing
    <3>1. w.last \in Int /\ \A c \in Chunk : c <= w.last \/ c > w.last
      BY <2>2, Room, RepositoryAssumption DEF Chunk
    <3> QED
      BY <1>1, <2>1, <2>2, <3>1, SameBodies
  <2>3. CASE ~Storing
    BY <2>1, <2>3 DEF Bodies
  <2> QED
    BY <2>2, <2>3
<1> QED
  BY <1>2, <1>3, <1>4, <1>5, <1>6 DEF Writer

-----------------------------------------------------------------------------
(* What the list names when nobody stores *)

\* The chunks that a list may name hold one opening, with every body after its header.
LEMMA StoringSound ==
  ASSUME WriterInv, Frontier, LastHeader, Bodies, Storing, NEW n \in Nat, Within(n)
  PROVE  OneOpen(n, opens) /\ Splits(n)
<1>1. w.last \in Int /\ w.last \in Chunk /\ w.last + 1 \in Chunk /\ StoringShape
  BY Room DEF Within, WriterInv
<1>2. \A c \in Chunk : c \in Int
  BY RepositoryAssumption DEF Chunk
<1>3. TextTyped
  BY TextTypes
<1>4. ASSUME NEW c \in Chunk, c < n, NEW i \in Places(c)
      PROVE  c <= w.last
  <2>1. CASE n <= w.last + 1
    BY <1>1, <1>2, <1>4, <2>1
  <2>2. CASE w.at = "switch" /\ n = w.last + 2 /\ c = w.last + 1
    <3>1. Text(c) = << >>
      BY <1>1, <2>2 DEF StoringShape, Text
    <3> QED
      BY <3>1 DEF Places
  <2>3. CASE n = w.last + 2 /\ c # w.last + 1
    BY <1>1, <1>2, <1>4, <2>3
  <2> QED
    BY <2>1, <2>2, <2>3 DEF Within
<1>5. OneOpen(n, opens)
  BY <1>4 DEF OneOpen, Frontier
<1>6. ASSUME NEW c \in Chunk, c < n, NEW i \in Places(c), NEW p \in 1 .. P, HeaderOf(p, c, i)
      PROVE  Split(p, c, i, n)
  <2>1. c <= w.last
    BY <1>4, <1>6
  <2>2. PICK s \in Nat : s = pages[p].size
    <3>1. pages \in Seq(PageRec) /\ P = Len(pages)
      BY DEF WriterInv, StoreTypes, P
    <3>2. pages[p] \in PageRec
      BY <3>1
    <3> QED
      BY <3>2, RepositoryAssumption DEF PageRec
  <2>3. i \in Nat /\ Len(Text(c)) \in Nat /\ i <= Len(Text(c))
    BY <1>3 DEF TextTyped, Places
  <2>4. Whole(p, c, i) \/ (p = P /\ Phase = "body")
    BY <1>6, <2>1 DEF Bodies
  <2>5. ASSUME i = Len(Text(c)), c + 1 < n => Text(c + 1) = << >> \/ BodyAt(p, Text(c + 1), 0)
        PROVE  Split(p, c, i, n)
    <3>1. \A j \in 1 .. s : ~(i + j <= Len(Text(c)))
      BY <2>3, <2>5
    <3> QED
      BY <2>2, <2>5, <3>1 DEF Split, BodyAt
  <2>6. CASE i + s <= Len(Text(c)) /\ BodyAt(p, Text(c), i)
    BY <2>2, <2>3, <2>6 DEF Split
  <2>7. CASE i = Len(Text(c)) /\ BodyAt(p, Text(c + 1), 0)
    BY <2>5, <2>7
  <2>8. CASE p = P /\ Phase = "body"
    <3>1. c = HeaderChunk /\ i = Len(Text(c))
      BY <1>6, <2>8 DEF LastHeader, HeaderOf
    <3>2. CASE w.rolled
      <4>1. w.last = c + 1
        BY <1>1, <1>2, <3>1, <3>2 DEF HeaderChunk
      <4>2. Text(c + 1) = << >>
        BY <1>1, <3>2, <4>1, RolledEmpty
      <4> QED
        BY <2>5, <3>1, <4>2
    <3>3. CASE ~w.rolled
      <4>1. c = w.last
        BY <3>1, <3>3 DEF HeaderChunk
      <4>2. c + 1 < n => w.at = "switch"
        BY <1>1, <1>2, <4>1 DEF Within
      <4>3. w.at = "switch" => Text(c + 1) = << >>
        BY <1>1, <1>2, <4>1 DEF StoringShape, Text
      <4> QED
        BY <2>5, <3>1, <4>2, <4>3
    <3> QED
      BY <3>2, <3>3
  <2> QED
    BY <2>2, <2>4, <2>6, <2>7, <2>8 DEF Whole
<1> QED
  BY <1>5, <1>6 DEF Splits

\* It stays so when the process leaves: what it had not written out is lost.
LEMMA LeavingSound ==
  ASSUME WriterInv, end_site \/ WriterDies, NEW n \in Nat, n <= 2 * MaxPages + 1, Within(n), Splits(n)
  PROVE  Splits(n)'
<1>1. /\ \A c \in Chunk : c # w.last => Text(c)' = Text(c)
      /\ \A c \in Chunk : Cut(c)
  BY LeavingText
<1>2. UNCHANGED pages /\ Storing
  BY EndsAre DEF Leaving
<1>3. TextTyped
  BY TextTypes
<1>4. TextTyped'
  <2>1. WriterInv'
    BY LeavingTyped
  <2> QED
    BY <2>1, TextTypes, PTL
<1>5. w.last \in Int /\ MaxPages \in Nat /\ StoringShape /\ w.last + 1 \in Chunk
  BY <1>2, Room, RepositoryAssumption DEF WriterInv
<1> SUFFICES ASSUME NEW c \in Chunk, c < n, NEW i \in 1 .. Len(Text(c)'), NEW p \in 1 .. P,
                    Text(c)'[i] = <<p, 3>>, pages[p].whole
             PROVE  Split(p, c, i, n)'
  BY <1>2 DEF Splits, Places, HeaderOf, P
<1>6. c \in Int /\ Len(Text(c)) \in Nat /\ Len(Text(c)') \in Nat /\ i \in Places(c) /\ i \in Nat
      /\ i <= Len(Text(c)') /\ Text(c)[i] = <<p, 3>>
  BY <1>1, <1>3, <1>4, RepositoryAssumption DEF Chunk, TextTyped, Cut, Places
<1>7. Split(p, c, i, n)
  BY <1>6 DEF Splits, HeaderOf
<1>8. PICK s \in Nat : s = pages[p].size /\ s = pages'[p].size
  <2>1. pages \in Seq(PageRec) /\ P = Len(pages)
    BY DEF WriterInv, StoreTypes, P
  <2>2. pages[p] \in PageRec
    BY <2>1
  <2> QED
    BY <1>2, <2>2, RepositoryAssumption DEF PageRec
<1>9. BodyAt(p, Text(c), i)'
  <2>1. ASSUME NEW j \in 1 .. s, i + j <= Len(Text(c)')
        PROVE  Text(c)'[i + j] = <<p, 3 + j>>
    <3>1. i + j \in 1 .. Len(Text(c)') /\ i + j <= Len(Text(c))
      BY <1>1, <1>6, <2>1 DEF Cut
    <3>2. Text(c)'[i + j] = Text(c)[i + j]
      BY <1>1, <3>1 DEF Cut
    <3> QED
      BY <1>7, <1>8, <3>1, <3>2 DEF Split, BodyAt
  <2> QED
    BY <1>8, <2>1 DEF BodyAt
<1>10. ASSUME i + s > Len(Text(c)'), c + 1 < n
       PROVE  Text(c + 1)' = << >> \/ (i = Len(Text(c)') /\ BodyAt(p, Text(c + 1), 0)')
  <2>1. c + 1 \in Chunk
    <3>1. MaxPages \in Nat /\ c + 1 < n /\ n <= 2 * MaxPages + 1
      BY <1>5, <1>10
    <3> QED
      BY <3>1 DEF Chunk
  <2>2. PICK d \in Chunk : d = c + 1
    BY <2>1
  <2>3. Len(Text(d)) \in Nat /\ Len(Text(d)') \in Nat /\ Text(d)' \in Seq(Piece)
    BY <1>3, <1>4, <2>2 DEF TextTyped
  <2>4. ASSUME Text(d) = << >>
        PROVE  Text(d)' = << >>
    <3>1. Len(Text(d)') = 0
      BY <1>1, <2>3, <2>4 DEF Cut
    <3> QED
      BY <2>3, <3>1
  <2>5. CASE c = w.last
    <3>1. w.at = "switch" /\ d = w.last + 1
      BY <1>5, <1>6, <1>10, <2>2, <2>5 DEF Within
    <3>2. Text(d) = << >>
      BY <1>5, <3>1 DEF StoringShape, Text
    <3> QED
      BY <2>2, <2>4, <3>2
  <2>6. CASE c # w.last
    <3>1. Text(c)' = Text(c)
      BY <1>1, <2>6
    <3>2. Text(d) = << >> \/ (i = Len(Text(c)) /\ BodyAt(p, Text(d), 0))
      BY <1>7, <1>8, <1>10, <2>2, <3>1 DEF Split
    <3>3. ASSUME BodyAt(p, Text(d), 0)
          PROVE  BodyAt(p, Text(d), 0)'
      <4>1. ASSUME NEW j \in 1 .. s, 0 + j <= Len(Text(d)')
            PROVE  Text(d)'[0 + j] = <<p, 3 + j>>
        <5>1. 0 + j \in 1 .. Len(Text(d)') /\ 0 + j <= Len(Text(d))
          BY <1>1, <2>3, <4>1 DEF Cut
        <5>2. Text(d)'[0 + j] = Text(d)[0 + j]
          BY <1>1, <5>1 DEF Cut
        <5> QED
          BY <1>8, <3>3, <5>1, <5>2 DEF BodyAt
      <4> QED
        BY <1>8, <4>1 DEF BodyAt
    <3> QED
      BY <2>2, <2>4, <3>1, <3>2, <3>3
  <2> QED
    BY <2>5, <2>6
<1> QED
  BY <1>8, <1>9, <1>10 DEF Split

LEMMA OpensBound ==
  ASSUME WriterInv
  PROVE  listed \in Nat /\ listed <= 2 * MaxPages + 1 /\ opens \in Nat /\ MaxPages \in Nat
<1>1. listed <= 2 * P + 1 /\ P <= MaxPages /\ listed \in Nat /\ opens \in Nat /\ P \in Nat /\ MaxPages \in Nat
  BY RepositoryAssumption DEF WriterInv, StoreTypes, Bounds, P
<1> QED
  BY <1>1

\* With no text changed, and no page but a new one.
LEMMA SameSplits ==
  ASSUME WriterInv, Writer \/ writer_unchanged, PiecesKnown, NEW n \in Nat, n <= 2 * MaxPages + 1, Splits(n),
         \A c \in Chunk : c < n => Text(c)' = Text(c)
  PROVE  Splits(n)'
<1> SUFFICES ASSUME NEW c \in Chunk, c < n, NEW i \in 1 .. Len(Text(c)'), NEW p \in 1 .. P',
                    Text(c)'[i] = <<p, 3>>, pages'[p].whole
             PROVE  Split(p, c, i, n)'
  BY DEF Splits, Places, HeaderOf
<1>1. Text(c)' = Text(c) /\ i \in Places(c) /\ Text(c)[i] = <<p, 3>> /\ p \in 1 .. P
  BY DEF PiecesKnown, Places
<1>2. pages'[p].size = pages[p].size /\ pages[p].whole
  BY <1>1, PagesKept DEF KeepsPages
<1>3. Split(p, c, i, n)
  BY <1>1, <1>2 DEF Splits, HeaderOf
<1>4. c + 1 < n => c + 1 \in Chunk
  BY RepositoryAssumption DEF Chunk
<1>5. c + 1 < n => Text(c + 1)' = Text(c + 1)
  BY <1>4
<1> QED
  BY <1>1, <1>2, <1>3, <1>5 DEF Split, BodyAt

LEMMA ListedKept ==
  ASSUME WriterInv, Writer \/ writer_unchanged, PiecesKnown, Frontier, LastHeader, Bodies, ListedSound
  PROVE  ListedSound'
<1>1. listed \in Nat /\ listed <= 2 * MaxPages + 1 /\ opens \in Nat
  BY OpensBound
<1>2. \A c \in Chunk : c \in Nat
  BY RepositoryAssumption DEF Chunk
<1>3. ASSUME ~Storing \/ AtFirst, listed' = listed, \A c \in Chunk : c < listed => Text(c)' = Text(c)
      PROVE  ListedSound'
  <2>1. PICK o \in Nat : OneOpen(listed, o) /\ Splits(listed)
    BY <1>3 DEF ListedSound
  <2>2. PICK n \in Nat : n = listed /\ n = listed' /\ n <= 2 * MaxPages + 1
    BY <1>1, <1>3
  <2>3. Splits(n)'
    BY <1>3, <2>1, <2>2, SameSplits
  <2>4. OneOpen(n, o)'
    <3>1. ASSUME NEW c \in Chunk, c < n, NEW i \in 1 .. Len(Text(c)')
          PROVE  Opening(Text(c)[i])' = o
      <4>1. Old(c, i)
        BY <1>3, <2>2, <3>1 DEF Old, Places
      <4>2. Opening(Text(c)[i]) = o
        BY <2>1, <2>2, <3>1, <4>1 DEF OneOpen, Old
      <4> QED
        BY <4>1, <4>2, OldOpening
    <3> QED
      BY <3>1 DEF OneOpen, Places, Opening
  <2> QED
    BY <2>2, <2>3, <2>4 DEF ListedSound, OneOpen, Splits
\* Nothing is named, or one chunk with nothing in it.
<1>4. ASSUME \A c \in Chunk : c < listed' => Text(c)' = << >>
      PROVE  ListedSound'
  <2>1. \A c \in Chunk : c < listed' => \A i \in 1 .. Len(Text(c)') : FALSE
    BY <1>4
  <2> QED
    BY <2>1 DEF ListedSound, OneOpen, Splits, Places
<1>5. ASSUME NEW s \in BodySizes, store(s)
      PROVE  ListedSound'
  <2>1. SameText /\ listed' = listed /\ Storing'
    BY <1>5, StoreText, StorePhase DEF store
  <2>2. CASE w.at = "closed"
    BY <1>3, <2>1, <2>2 DEF SameText, Storing
  <2>3. CASE w.at # "closed"
    <3>1. Storing /\ w'.last = w.last /\ w.at = "idle"
      BY <1>5, <2>3, StorePhase
    <3>2. ~AtFirst
      BY <3>1 DEF WriterInv, StoringShape, FirstShape, Making
    <3>3. ~AtFirst'
      BY <3>1, <3>2 DEF AtFirst
    <3> QED
      BY <2>1, <3>3 DEF ListedSound
  <2> QED
    BY <2>2, <2>3
<1>6. CASE WritePart
  <2>1. PICK m \in 0 .. PartLen : Takes(m)
    BY <1>6, WritePartIs
  <2>2. w.at \in {"header", "body"} /\ UNCHANGED <<disk, opens>>
    BY <1>6 DEF WritePart
  <2>3. Storing /\ Storing' /\ w'.last = w.last
    BY <2>1, <2>2, WritePhase
  <2>4. ~AtFirst
    BY <2>2, <2>3 DEF WriterInv, StoringShape, FirstShape, Making
  <2> QED
    BY <2>3, <2>4 DEF ListedSound, AtFirst
<1>7. CASE Roll \/ CREATE_FILE \/ EmptyList \/ WriteList \/ set_current \/ Flush
  <2>1. /\ Storing /\ Storing' /\ w.last \in Int /\ w.last >= -1
        /\ IF set_current THEN w'.last = w.last + 1 ELSE w'.last = w.last
    BY <1>7, PhaseKept, Room
  <2>2. CASE ~AtFirst
    <3>1. ~AtFirst'
      BY <2>1, <2>2 DEF AtFirst
    <3> QED
      BY <2>1, <3>1 DEF ListedSound
  <2>3. CASE AtFirst
    <3>1. FirstShape
      BY <2>1, <2>3 DEF WriterInv, StoringShape
    <3>2. CASE Roll \/ Flush
      BY <2>3, <3>1, <3>2 DEF Roll, Flush, FirstShape, Making, AtFirst
    <3>3. CASE CREATE_FILE
      <4>1. \A c \in Chunk : Text(c)' = IF c = 0 THEN << >> ELSE Text(c)
        BY <2>3, <3>3, CreateText DEF AtFirst
      <4>2. PICK o \in Nat : OneOpen(listed, o) /\ Splits(listed)
        BY <2>3 DEF ListedSound
      <4>3. PICK n \in Nat : n = listed /\ n = listed' /\ n <= 2 * MaxPages + 1
        BY <1>1, <3>3 DEF CREATE_FILE
      <4>4. OneOpen(n, o)'
        <5>1. ASSUME NEW c \in Chunk, c < n, NEW i \in 1 .. Len(Text(c)')
              PROVE  Opening(Text(c)[i])' = o
          <6>1. Text(c)' = Text(c)
            <7>1. Text(c)' # << >>
              BY <5>1
            <7> QED
              BY <4>1, <7>1
          <6>2. Old(c, i)
            BY <5>1, <6>1 DEF Old, Places
          <6>3. Opening(Text(c)[i]) = o
            BY <4>2, <4>3, <5>1, <6>2 DEF OneOpen, Old
          <6> QED
            BY <6>2, <6>3, OldOpening
        <5> QED
          BY <5>1 DEF OneOpen, Places, Opening
      <4>5. Splits(n)'
        <5>1. UNCHANGED pages
          BY <3>3 DEF CREATE_FILE
        <5>2. ASSUME NEW c \in Chunk, c < n, NEW i \in 1 .. Len(Text(c)'), NEW p \in 1 .. P,
                     Text(c)'[i] = <<p, 3>>, pages[p].whole
              PROVE  Split(p, c, i, n)'
          <6>1. Text(c)' = Text(c)
            <7>1. Text(c)' # << >>
              BY <5>2
            <7> QED
              BY <4>1, <7>1
          <6>2. Split(p, c, i, n)
            BY <4>2, <4>3, <5>2, <6>1 DEF Splits, HeaderOf, Places
          <6>3. c + 1 < n => c + 1 \in Chunk /\ c + 1 # 0
            BY <4>3, RepositoryAssumption DEF Chunk
          <6>4. c + 1 < n => Text(c + 1)' = Text(c + 1)
            BY <4>1, <6>3
          <6> QED
            BY <5>1, <6>1, <6>2, <6>4 DEF Split, BodyAt
        <5> QED
          BY <5>1, <5>2 DEF Splits, Places, HeaderOf, P
      <4> QED
        BY <4>3, <4>4, <4>5 DEF ListedSound, OneOpen, Splits
    <3>4. CASE EmptyList
      <4>1. \A c \in Chunk : ~(c < listed')
        BY <1>2, <3>4 DEF EmptyList
      <4> QED
        BY <1>4, <4>1
    <3>5. CASE WriteList
      <4>1. listed' = 1 /\ SameText
        BY <2>3, <3>5, RollText DEF WriteList, AtFirst
      <4>2. disk[w.last + 1] = << >> /\ w.at # "closed"
        BY <2>1, <3>5 DEF WriteList, WriterInv, StoringShape
      <4>3. \A c \in Chunk : c < 1 => c = w.last + 1 /\ c # w.last
        BY <1>2, <2>3 DEF AtFirst
      <4>4. \A c \in Chunk : c < 1 => Text(c) = << >>
        BY <4>2, <4>3 DEF Text
      <4> QED
        BY <1>4, <4>1, <4>4 DEF SameText
    <3>6. CASE set_current
      <4>1. ~AtFirst'
        BY <2>1, <3>6 DEF AtFirst
      <4> QED
        BY <2>1, <4>1 DEF ListedSound
    <3> QED
      BY <1>7, <3>2, <3>3, <3>4, <3>5, <3>6
  <2> QED
    BY <2>2, <2>3
<1>8. CASE end_site \/ WriterDies
  <2>1. Storing /\ Leaving
    BY <1>8, EndsAre
  <2>2. listed' = listed
    BY <2>1 DEF Leaving
  <2>3. CASE AtFirst
    <3>1. \A c \in Chunk : Text(c)' = Text(c)
      <4>1. \A c \in Chunk : c # w.last
        BY <1>2, <2>3 DEF AtFirst
      <4> QED
        BY <1>8, <4>1, LeavingText
    <3> QED
      BY <1>3, <2>2, <2>3, <3>1
  <2>4. CASE ~AtFirst
    <3>1. LaterShape
      BY <2>1, <2>4 DEF WriterInv, StoringShape
    <3>2. PICK n \in Nat : n = listed /\ n = listed' /\ n <= 2 * MaxPages + 1
      BY <1>1, <2>2
    <3>3. Within(n)
      BY <2>4, <3>1, <3>2 DEF Within, LaterShape
    <3>4. OneOpen(n, opens) /\ Splits(n)
      BY <2>1, <3>3, StoringSound
    <3>5. Splits(n)'
      BY <1>8, <3>2, <3>3, <3>4, LeavingSound
    <3>6. PICK o \in Nat : o = opens
      BY <1>1
    <3>7. OneOpen(n, o)'
      BY <3>4, <3>6, OneOpenKept
    <3> QED
      BY <3>2, <3>5, <3>7 DEF ListedSound, OneOpen, Splits
  <2> QED
    BY <2>3, <2>4
<1>9. CASE writer_unchanged
  BY <1>3, <1>9 DEF writer_unchanged, Text, Storing, ListedSound, AtFirst
<1> QED
  BY <1>5, <1>6, <1>7, <1>8, <1>9 DEF Writer

LEMMA TextKept ==
  ASSUME WriterInv, Writer \/ writer_unchanged, TextInv, ListedSound
  PROVE  TextInv' /\ ListedSound'
BY KnownKept, OrderKept, FrontierKept, NewPageKept, LastHeaderKept, BodiesKept, ListedKept DEF TextInv

-----------------------------------------------------------------------------
(* What the storing process does to the reader *)

Sizes == UNION {[0 .. k - 1 -> Nat] : k \in Nat}
Got == [page : Nat, intact : BOOLEAN]
ReaderPlace == {"none", "stat", "page", "rest", "body", "resync", "end", "gone"}
ReaderRec == [at : ReaderPlace, n : Nat, file_size : Sizes, before : Sizes, file_num : Nat, pos : Nat,
              start : Nat, head : Seq(Piece), got : Seq(Got), sealed : BOOLEAN, torn : BOOLEAN,
              cut : BOOLEAN]

\* What is returned: in order within an opening, and as it was stored.
SameOrder ==
  \A i, j \in 1 .. Len(r.got) :
    i < j /\ pages[r.got[i].page].open = pages[r.got[j].page].open =>
      r.cut \/ r.got[i].page < r.got[j].page
Intact ==
  compressed \/ ~r.torn =>
    \A i \in 1 .. Len(r.got) : pages[r.got[i].page].whole \/ compressed => r.got[i].intact
Unopened == r.at = "none" => r.file_num = 0 /\ r.got = << >>
ReaderInv ==
  r \in ReaderRec /\ Unopened /\ ReaderPlaced /\ Follows /\ KnownInv /\ OneOpening /\ AtBody /\ SameOrder /\ Intact

LEMMA ReaderSame ==
  ASSUME r \in ReaderRec, WriterInv, Writer
  PROVE  /\ r' \in ReaderRec /\ r'.at = r.at /\ r'.n = r.n /\ r'.file_size = r.file_size
         /\ r'.before = r.before /\ r'.file_num = r.file_num /\ r'.pos = r.pos /\ r'.start = r.start
         /\ r'.head = r.head /\ r'.got = r.got /\ (r.torn => r'.torn) /\ compressed' = compressed
         /\ r'.cut = r.cut
         /\ ~r'.torn => Storing
<1>1. ASSUME NEW s \in BodySizes, store(s)
      PROVE  /\ r' = r \/ r' = [r EXCEPT !.torn = TRUE]
             /\ compressed' = compressed
             /\ ~r'.torn => Storing
  <2>1. w.at = "closed" => r'.torn
    BY <1>1 DEF store, ReaderRec
  <2> QED
    BY <1>1, <2>1 DEF store, Storing
<1>2. /\ r' = r \/ r' = [r EXCEPT !.torn = TRUE]
      /\ compressed' = compressed
      /\ ~r'.torn => Storing
  <2>1. CASE \E s \in BodySizes : store(s)
    BY <1>1, <2>1
  <2>2. CASE Roll \/ CREATE_FILE \/ EmptyList \/ WriteList \/ set_current \/ Flush
    BY <2>2, PhaseKept DEF Roll, CREATE_FILE, EmptyList, WriteList, set_current, Flush, reader_unchanged
  <2>3. CASE WritePart
    BY <2>3 DEF WritePart, Storing, reader_unchanged
  <2>4. CASE end_site \/ WriterDies
    BY <2>4, EndsAre DEF end_site, WriterDies, reader_unchanged
  <2> QED
    BY <2>1, <2>2, <2>3, <2>4 DEF Writer
<1>3. CASE r' = r
  BY <1>2, <1>3
<1>4. CASE r' = [r EXCEPT !.torn = TRUE]
  BY <1>2, <1>4 DEF ReaderRec
<1> QED
  BY <1>2, <1>3, <1>4

LEMMA DiskKept ==
  ASSUME WriterInv, Writer, Storing, NEW c \in Chunk
  PROVE  /\ c < w.last => disk'[c] = disk[c]
         /\ ~CREATE_FILE \/ c # w.last + 1 =>
              \A i \in 1 .. Len(disk[c]) : i \in 1 .. Len(disk'[c]) /\ disk'[c][i] = disk[c][i]
<1>1. disk \in [Chunk -> Seq(Piece)] /\ w.last \in Int /\ c \in Int
  BY Room, RepositoryAssumption DEF WriterInv, StoreTypes, Chunk
<1>2. ASSUME ~AtFirst, NEW k \in 0 .. Len(w.buffered), disk' = Flushed(k)
      PROVE  /\ c # w.last => disk'[c] = disk[c]
             /\ \A i \in 1 .. Len(disk[c]) : i \in 1 .. Len(disk'[c]) /\ disk'[c][i] = disk[c][i]
  <2>1. CASE c # w.last
    BY <1>2, <2>1, FlushedIs
  <2>2. CASE c = w.last
    <3>1. /\ Len(disk'[c]) = Len(disk[c]) + k
          /\ \A i \in 1 .. Len(disk[c]) : disk'[c][i] = disk[c][i]
      BY <1>2, <2>2, FlushedIs
    <3>2. Len(disk[c]) \in Nat /\ k \in Nat
      BY <1>1, <1>2, FlushedAll
    <3> QED
      BY <2>2, <3>1, <3>2
  <2> QED
    BY <2>1, <2>2
<1>3. Len(w.buffered) \in 0 .. Len(w.buffered)
  BY FlushedAll
<1>4. CASE UNCHANGED disk
  BY <1>4
<1>5. CASE CREATE_FILE
  BY <1>1, <1>5 DEF CREATE_FILE
<1>6. CASE set_current
  <2>1. w.last >= -1
    BY Room
  <2>2. CASE AtFirst
    <3>1. w.last < 0
      BY <1>1, <2>2 DEF AtFirst
    <3>2. UNCHANGED disk
      BY <1>6, <3>1 DEF set_current
    <3> QED
      BY <1>4, <3>2
  <2>3. CASE ~AtFirst
    <3>1. ~(w.last < 0)
      BY <1>1, <2>1, <2>3 DEF AtFirst
    <3>2. disk' = Flushed(Len(w.buffered))
      BY <1>6, <3>1, FlushedAll DEF set_current, Flushed
    <3> QED
      BY <1>1, <1>2, <1>3, <2>3, <3>2
  <2> QED
    BY <2>2, <2>3
<1>7. CASE Flush
  <2>1. PICK k \in 1 .. Len(w.buffered) : w.last >= 0 /\ disk' = Flushed(k)
    BY <1>7 DEF Flush, Flushed
  <2>2. k \in 0 .. Len(w.buffered) /\ ~AtFirst
    BY <1>1, <2>1, FlushedAll DEF AtFirst
  <2> QED
    BY <1>1, <1>2, <2>1, <2>2
<1>8. CASE end_site \/ WriterDies
  BY <1>1, <1>2, <1>3, <1>4, <1>8, EndsAre DEF Leaving
<1> QED
  BY <1>4, <1>5, <1>6, <1>7, <1>8 DEF Writer, store, WritePart, Roll, EmptyList, WriteList

\* While the storing process keeps its container open, the list and the sizes that a
\* reader took stay true.
LEMMA StillWriting ==
  ASSUME WriterInv, Writer, Storing, Storing'
  PROVE  /\ opens' = opens /\ w.last \in Int /\ w.last >= -1 /\ w'.last \in Int /\ w.last <= w'.last
         /\ \A n \in Nat : Within(n) => Within(n)'
<1>1. w.last \in Int /\ w.last >= -1 /\ w \in WriterRec
  BY Room DEF WriterInv, StoreTypes
<1>2. ASSUME opens' = opens, w'.last = w.last, w.at # "switch"
      PROVE  /\ opens' = opens /\ w'.last \in Int /\ w.last <= w'.last
             /\ \A n \in Nat : Within(n) => Within(n)'
  BY <1>1, <1>2 DEF Within, AtFirst
<1>3. ASSUME NEW s \in BodySizes, store(s)
      PROVE  opens' = opens /\ w'.last = w.last /\ w.at # "switch"
  BY <1>3, StorePhase DEF Storing
<1>4. CASE WritePart
  <2>1. PICK m \in 0 .. PartLen : Takes(m)
    BY <1>4, WritePartIs
  <2>2. opens' = opens /\ w'.last = w.last /\ w.at # "switch"
    BY <1>4, <2>1, WritePhase DEF WritePart
  <2> QED
    BY <1>1, <1>2, <2>2
<1>5. CASE Roll \/ CREATE_FILE \/ EmptyList \/ WriteList
  <2>1. w.at # "switch"
    BY <1>5 DEF Roll, CREATE_FILE, EmptyList, WriteList
  <2>2. ~set_current
    BY <2>1 DEF set_current
  <2> QED
    BY <1>1, <1>2, <1>5, <2>1, <2>2, PhaseKept
<1>6. CASE set_current
  <2>1. opens' = opens /\ w'.last = w.last + 1
    BY <1>6, PhaseKept
  <2>2. ASSUME NEW n \in Nat, Within(n)
        PROVE  Within(n)'
    BY <1>1, <2>1, <2>2 DEF Within, AtFirst
  <2> QED
    BY <1>1, <2>1, <2>2
<1>7. CASE Flush
  <2>1. w'.at = w.at
    BY <1>1, <1>7 DEF Flush, WriterRec
  <2>2. opens' = opens /\ w'.last = w.last
    <3>1. CASE set_current
      BY <1>1, <2>1, <3>1, PhaseKept DEF set_current, WriterInv, StoringShape, Making
    <3>2. CASE ~set_current
      BY <1>7, <3>2, PhaseKept
    <3> QED
      BY <3>1, <3>2
  <2>3. \A n \in Nat : Within(n) => Within(n)'
    BY <1>1, <2>1, <2>2 DEF Within, AtFirst
  <2> QED
    BY <1>1, <2>2, <2>3
<1>8. ~end_site /\ ~WriterDies
  BY StillStoring
<1> QED
  BY <1>1, <1>2, <1>3, <1>4, <1>5, <1>6, <1>7, <1>8 DEF Writer

LEMMA ReportedKept ==
  ASSUME WriterInv, Writer \/ writer_unchanged, NEW q, Reported(q)
  PROVE  Reported(q)'
<1>1. P \in Nat /\ P' \in Nat /\ P <= P' /\ q \in 1 .. P
  BY PagesKept DEF KeepsPages, Reported
<1>2. ASSUME Phase' = "header", P' = P
      PROVE  Phase = "header"
  <2>1. ASSUME NEW s \in BodySizes, store(s)
        PROVE  FALSE
    BY <1>1, <1>2, <2>1, StorePhase
  <2>2. CASE Roll \/ CREATE_FILE \/ EmptyList \/ WriteList \/ set_current \/ Flush
    BY <1>2, <2>2, PhaseKept
  <2>3. CASE WritePart
    <3>1. PICK m \in 0 .. PartLen : Takes(m)
      BY <2>3, WritePartIs
    <3>2. Phase' = AfterPart
      BY <2>3, <3>1, WritePhase DEF WritePart
    <3> QED
      BY <1>2, <3>2 DEF AfterPart
  <2>4. CASE end_site \/ WriterDies
    <3>1. w'.at = "closed"
      BY <2>4, EndsAre DEF Leaving, Closed
    <3> QED
      BY <1>2, <3>1 DEF Phase, Making
  <2>5. CASE writer_unchanged
    BY <1>2, <2>5 DEF writer_unchanged, Phase, Making
  <2> QED
    BY <2>1, <2>2, <2>3, <2>4, <2>5 DEF Writer
<1>3. CASE P' = P
  BY <1>1, <1>2, <1>3 DEF Reported
<1>4. CASE P' # P
  BY <1>1, <1>4 DEF Reported
<1> QED
  BY <1>3, <1>4

LEMMA PlacedKept ==
  ASSUME r \in ReaderRec, WriterInv, Writer, ReaderPlaced
  PROVE  /\ ReaderPlaced' /\ Statted' = Statted /\ (Reading <=> Reading') /\ (Headed <=> Headed')
         /\ Reading => /\ r.n \in 1 .. 2 * MaxPages + 1 /\ r.file_num \in 0 .. r.n - 1
                       /\ r.file_num \in Chunk /\ Statted \in 0 .. r.n
<1>1. /\ r'.at = r.at /\ r'.n = r.n /\ r'.file_size = r.file_size
      /\ r'.before = r.before /\ r'.file_num = r.file_num /\ r'.got = r.got
  BY ReaderSame
<1>2. Statted' = Statted /\ (Reading <=> Reading') /\ (Headed <=> Headed')
  BY <1>1 DEF Statted, Reading, Headed
<1>3. ReaderPlaced'
  BY <1>1, <1>2 DEF ReaderPlaced, Placed
<1>4. ASSUME Reading
      PROVE  r.file_num \in Chunk /\ Statted \in 0 .. r.n
  BY <1>4, RepositoryAssumption DEF ReaderPlaced, Chunk, Statted
<1> QED
  BY <1>2, <1>3, <1>4 DEF ReaderPlaced

LEMMA FollowsKept ==
  ASSUME r \in ReaderRec, WriterInv, Writer, TextInv, ReaderPlaced, Follows
  PROVE  Follows'
<1> SUFFICES ASSUME Reading', ~r'.torn
             PROVE  /\ ~Storing' => Splits(r.n)'
                    /\ Storing' => Within(r.n)'
                    /\ \A c \in 0 .. Statted' - 1 : c < r'.n - 1 =>
                         r'.file_size[c] = Len(disk'[c]) /\ (Storing' => c < w'.last)
  BY DEF Follows
<1>1. /\ ~r.torn /\ Storing /\ Reading /\ Statted' = Statted /\ r'.n = r.n /\ r'.file_size = r.file_size
      /\ r.n \in 1 .. 2 * MaxPages + 1 /\ Statted \in 0 .. r.n
  BY ReaderSame, PlacedKept
<1>2. PICK n \in Nat : n = r.n /\ n = r'.n /\ n <= 2 * MaxPages + 1
  BY <1>1, OpensBound
<1>3. Within(n)
  BY <1>1, <1>2 DEF Follows
<1>4. ASSUME NEW c \in 0 .. Statted - 1, c < r.n - 1
      PROVE  c \in Chunk /\ c \in Nat /\ r.file_size[c] = Len(disk[c]) /\ c < w.last /\ disk'[c] = disk[c]
  <2>1. c \in Chunk /\ c \in Nat
    BY <1>1, <1>4, RepositoryAssumption DEF Chunk
  <2>2. r.file_size[c] = Len(disk[c]) /\ c < w.last
    BY <1>1, <1>4 DEF Follows
  <2> QED
    BY <1>1, <2>1, <2>2, DiskKept
<1>5. CASE Storing'
  <2>1. Within(n)' /\ w.last \in Int /\ w'.last \in Int /\ w.last <= w'.last
    BY <1>1, <1>3, <1>5, StillWriting
  <2> QED
    BY <1>1, <1>2, <1>4, <1>5, <2>1
<1>6. CASE ~Storing'
  <2>1. end_site \/ WriterDies
    <3>1. ASSUME NEW s \in BodySizes, store(s)
          PROVE  FALSE
      BY <1>6, <3>1, StorePhase
    <3>2. ~(Roll \/ CREATE_FILE \/ EmptyList \/ WriteList \/ set_current \/ Flush)
      BY <1>6, PhaseKept
    <3>3. ~WritePart
      <4>1. CASE WritePart
        <5>1. PICK m \in 0 .. PartLen : Takes(m)
          BY <4>1, WritePartIs
        <5> QED
          BY <1>6, <4>1, <5>1, WritePhase DEF WritePart
      <4> QED
        BY <4>1
    <3> QED
      BY <3>1, <3>2, <3>3 DEF Writer
  <2>2. Splits(n)
    BY <1>1, <1>3, StoringSound DEF TextInv
  <2>3. Splits(n)'
    BY <1>2, <1>3, <2>1, <2>2, LeavingSound
  <2> QED
    BY <1>1, <1>2, <1>4, <1>6, <2>3
<1> QED
  BY <1>5, <1>6

LEMMA KnowsKept ==
  ASSUME r \in ReaderRec, WriterInv, Writer, TextInv, ReaderPlaced, KnownInv
  PROVE  KnownInv'
<1>1. /\ r'.at = r.at /\ r'.n = r.n /\ r'.before = r.before /\ r'.file_num = r.file_num /\ r'.pos = r.pos
      /\ r'.start = r.start /\ r'.head = r.head /\ r'.got = r.got /\ (Headed <=> Headed')
      /\ r'.cut = r.cut
  BY ReaderSame, PlacedKept
<1>2. ASSUME NEW k \in 1 .. Len(r.got)
      PROVE  /\ Reported(r.got[k].page) /\ Reported(r.got[k].page)'
             /\ pages'[r'.got[k].page].open = pages[r.got[k].page].open
             /\ \A c, i : Ahead(r.got[k].page, c, i) => Ahead(r.got[k].page, c, i)'
  <2>1. PICK q : q = r.got[k].page /\ q = r'.got[k].page
    BY <1>1
  <2>2. Reported(q)
    BY <2>1 DEF KnownInv
  <2>3. Reported(q)'
    BY <2>2, ReportedKept
  <2>4. pages'[q].open = pages[q].open
    BY <2>2, PagesKept DEF KeepsPages, Reported
  <2>5. \A c, i : Ahead(q, c, i) => Ahead(q, c, i)'
    BY <1>1, <2>2, AheadKept DEF TextInv
  <2> QED
    BY <2>1, <2>2, <2>3, <2>4, <2>5
<1>3. ASSUME Headed
      PROVE  /\ Reported(r.head[1][1]) /\ Reported(r.head[1][1])'
             /\ pages'[r'.head[1][1]].open = pages[r.head[1][1]].open
             /\ \A c, i : Ahead(r.head[1][1], c, i) => Ahead(r.head[1][1], c, i)'
  <2>1. PICK q : q = r.head[1][1] /\ q = r'.head[1][1]
    BY <1>1
  <2>2. Reported(q)
    BY <1>3, <2>1 DEF KnownInv
  <2>3. Reported(q)'
    BY <2>2, ReportedKept
  <2>4. pages'[q].open = pages[q].open
    BY <2>2, PagesKept DEF KeepsPages, Reported
  <2>5. \A c, i : Ahead(q, c, i) => Ahead(q, c, i)'
    BY <1>1, <2>2, AheadKept DEF TextInv
  <2> QED
    BY <2>1, <2>2, <2>3, <2>4, <2>5
<1>4. \A k \in 1 .. Len(r'.got) : Reported(r.got[k].page)'
  BY <1>1, <1>2
<1>5. r'.at \in {"page", "resync"} =>
        \A k \in 1 .. Len(r'.got) : Ahead(r.got[k].page, r.file_num, r.pos + 1)'
  <2>1. SUFFICES ASSUME r.at \in {"page", "resync"}, NEW k \in 1 .. Len(r.got)
                 PROVE  Ahead(r.got[k].page, r.file_num, r.pos + 1)'
    BY <1>1
  <2>2. PICK c, i : c = r.file_num /\ c = r'.file_num /\ i = r.pos + 1 /\ i = r'.pos + 1
    BY <1>1
  <2>3. Ahead(r.got[k].page, c, i)
    BY <2>1, <2>2 DEF KnownInv
  <2>4. Ahead(r.got[k].page, c, i)'
    BY <1>2, <2>3
  <2> QED
    BY <2>2, <2>4
<1>6. ASSUME Headed, NEW c \in 0 .. r.n - 1, NEW i \in Nat \ {0}, HeadAt(c, i)
      PROVE  HeadAt(c, i)'
  <2>1. r'.before[c] + i = r'.start + 1 /\ From(c, i, r'.file_num, r'.pos)
    BY <1>1, <1>6 DEF HeadAt
  <2>2. \A k \in 1 .. Len(r'.got) : Ahead(r.got[k].page, c, i)'
    BY <1>1, <1>2, <1>6 DEF HeadAt
  <2>3. PICK j : j = i + 1
    OBVIOUS
  <2>4. Ahead(r.head[1][1], c, j)'
    BY <1>3, <1>6, <2>3 DEF HeadAt
  <2> QED
    BY <2>1, <2>2, <2>3, <2>4 DEF HeadAt, From
<1> QED
  BY <1>1, <1>2, <1>3, <1>4, <1>5, <1>6 DEF KnownInv

LEMMA OpeningKept ==
  ASSUME r \in ReaderRec, WriterInv, Writer, TextInv, ReaderPlaced, KnownInv, OneOpening
  PROVE  OneOpening'
<1> SUFFICES ASSUME ~r'.torn
             PROVE  \E o \in Nat :
                      /\ \A k \in 1 .. Len(r'.got) : pages'[r'.got[k].page].open = o
                      /\ Headed' => pages'[r'.head[1][1]].open = o
                      /\ Reading' => (Storing' => o = opens') /\ OneOpen(r.n, o)'
  BY DEF OneOpening
<1>1. /\ ~r.torn /\ Storing /\ (Reading <=> Reading') /\ (Headed <=> Headed')
      /\ r'.n = r.n /\ r'.got = r.got /\ r'.head = r.head
  BY ReaderSame, PlacedKept
<1>2. PICK o \in Nat :
        /\ \A k \in 1 .. Len(r.got) : pages[r.got[k].page].open = o
        /\ Headed => pages[r.head[1][1]].open = o
        /\ Reading => (Storing => o = opens) /\ OneOpen(r.n, o)
  BY <1>1 DEF OneOpening
<1>3. ASSUME NEW q, Reported(q)
      PROVE  pages'[q].open = pages[q].open
  BY <1>3, PagesKept DEF KeepsPages, Reported
<1>4. \A k \in 1 .. Len(r.got) : pages'[r.got[k].page].open = o
  BY <1>2, <1>3 DEF KnownInv
<1>5. Headed => pages'[r.head[1][1]].open = o
  BY <1>2, <1>3 DEF KnownInv
<1>6. ASSUME Reading
      PROVE  (Storing' => o = opens') /\ OneOpen(r.n, o)'
  <2>1. PICK n : n = r.n /\ n = r'.n
    BY <1>1
  <2>2. OneOpen(n, o) /\ o = opens
    BY <1>1, <1>2, <1>6, <2>1
  <2>3. OneOpen(n, o)'
    BY <2>2, OneOpenKept DEF TextInv
  <2>4. Storing' => o = opens'
    BY <1>1, <2>2, StillWriting
  <2> QED
    BY <2>1, <2>3, <2>4
<1> QED
  BY <1>1, <1>4, <1>5, <1>6

LEMMA AtBodyKept ==
  ASSUME r \in ReaderRec, WriterInv, Writer, ReaderPlaced, Follows, AtBody
  PROVE  AtBody'
<1> SUFFICES ASSUME r'.at = "body", ~r'.torn
             PROVE  /\ r'.pos \in 1 .. Len(disk'[r'.file_num])
                    /\ disk'[r'.file_num][r'.pos] = <<r'.head[1][1], 3>>
  BY DEF AtBody
<1>1. /\ ~r.torn /\ Storing /\ r.at = "body" /\ r'.n = r.n /\ r'.head = r.head /\ r'.pos = r.pos
      /\ r'.file_num = r.file_num
  BY ReaderSame
<1>2. Reading
  BY <1>1 DEF Reading
<1>3. PICK c \in Chunk : c = r.file_num /\ c = r'.file_num /\ c \in 0 .. r.n - 1 /\ r.n \in Nat
  BY <1>1, <1>2, PlacedKept
<1>4. r.pos \in 1 .. Len(disk[c]) /\ disk[c][r.pos] = <<r.head[1][1], 3>>
  BY <1>1, <1>3 DEF AtBody
<1>5. ~CREATE_FILE \/ c # w.last + 1
  <2>1. w.last \in Int
    BY <1>1, Room
  <2> SUFFICES ASSUME CREATE_FILE
               PROVE  c # w.last + 1
    OBVIOUS
  <2>2. r.n <= w.last + 1
    BY <1>1, <1>2 DEF Follows, Within, CREATE_FILE
  <2> QED
    BY <1>3, <2>1, <2>2
<1>6. \A i \in 1 .. Len(disk[c]) : i \in 1 .. Len(disk'[c]) /\ disk'[c][i] = disk[c][i]
  BY <1>1, <1>5, DiskKept
<1> QED
  BY <1>1, <1>3, <1>4, <1>6

LEMMA ReturnedKept ==
  ASSUME r \in ReaderRec, WriterInv, Writer, KnownInv, SameOrder, Intact
  PROVE  SameOrder' /\ Intact'
<1>1. r'.got = r.got /\ (r.torn => r'.torn) /\ compressed' = compressed /\ r'.cut = r.cut
  BY ReaderSame
<1>2. ASSUME NEW k \in 1 .. Len(r.got)
      PROVE  /\ pages'[r.got[k].page].open = pages[r.got[k].page].open
             /\ pages'[r.got[k].page].whole => pages[r.got[k].page].whole
  <2>1. Reported(r.got[k].page)
    BY DEF KnownInv
  <2> QED
    BY <2>1, PagesKept DEF KeepsPages, Reported
<1>3. SameOrder'
  BY <1>1, <1>2 DEF SameOrder
<1>4. Intact'
  BY <1>1, <1>2 DEF Intact
<1> QED
  BY <1>3, <1>4

LEMMA WriterKeepsReader ==
  ASSUME WriterInv, Writer, TextInv, ReaderInv
  PROVE  ReaderInv'
<1>1. Unopened'
  BY ReaderSame DEF ReaderInv, Unopened
<1> QED
  BY <1>1, ReaderSame, PlacedKept, FollowsKept, KnowsKept, OpeningKept, AtBodyKept, ReturnedKept DEF ReaderInv

-----------------------------------------------------------------------------
(* What the reader does *)

LEMMA Unmoved ==
  ASSUME writer_unchanged
  PROVE  /\ (Storing <=> Storing') /\ \A c \in Chunk : Text(c)' = Text(c)
         /\ \A n : (Splits(n) <=> Splits(n)') /\ (Within(n) <=> Within(n)')
         /\ \A n, o : OneOpen(n, o) <=> OneOpen(n, o)'
         /\ \A q : Reported(q) <=> Reported(q)'
         /\ \A q, c, i : Ahead(q, c, i) /\ (r.cut => r'.cut) => Ahead(q, c, i)'
<1>1. /\ disk' = disk /\ w' = w /\ pages' = pages /\ opens' = opens
      /\ (Storing <=> Storing') /\ \A c \in Chunk : Text(c)' = Text(c)
  BY DEF writer_unchanged, Storing, Text
<1>2. \A n : (Splits(n) <=> Splits(n)')
  BY <1>1 DEF writer_unchanged, Splits, Places, HeaderOf, Split, BodyAt, P, Text, Storing
<1>3. \A n : (Within(n) <=> Within(n)')
  BY <1>1 DEF Within, AtFirst
<1>4. \A n, o : OneOpen(n, o) <=> OneOpen(n, o)'
  BY <1>1 DEF OneOpen, Places, Opening
<1>5. \A q : Reported(q) <=> Reported(q)'
  BY <1>1 DEF Reported, P, Phase, Making
<1>6. \A q, c, i : Ahead(q, c, i) /\ (r.cut => r'.cut) => Ahead(q, c, i)'
  BY <1>1 DEF Ahead, Places, From, Opening
<1> QED
  BY <1>1, <1>2, <1>3, <1>4, <1>5, <1>6

LEMMA Farther ==
  ASSUME NEW q, NEW c0 \in Nat, NEW i0 \in Nat, NEW c1 \in Nat, NEW i1 \in Nat,
         From(c0, i0, c1, i1), Ahead(q, c0, i0), WriterInv
  PROVE  Ahead(q, c1, i1)
<1> SUFFICES ASSUME NEW c \in Chunk, NEW i \in Places(c), From(c1, i1, c, i)
             PROVE  From(c0, i0, c, i)
  BY DEF Ahead
<1>1. c \in Nat /\ i \in Nat
  BY TextIs, RepositoryAssumption DEF Chunk, Places
<1> QED
  BY <1>1 DEF From

\* A reader that has the sizes and the place of every chunk.
IsPlaced(rd) ==
  /\ rd \in ReaderRec /\ rd.n \in 1 .. 2 * MaxPages + 1 /\ rd.file_num \in 0 .. rd.n - 1
  /\ rd.file_size \in [0 .. rd.n - 1 -> Nat] /\ rd.before \in [0 .. rd.n -> Nat]
  /\ Placed(rd, rd.n)
SameChunks(rd) ==
  /\ rd.n = r.n /\ rd.file_size = r.file_size /\ rd.before = r.before /\ rd.torn = r.torn
  /\ r.cut => rd.cut
Placings == {"page", "rest", "body", "resync"}

LEMMA IsPlacedThen ==
  ASSUME r \in ReaderRec, ReaderPlaced, r.at \in Placings
  PROVE  IsPlaced(r) /\ Statted = r.n /\ Reading /\ r.file_num \in Chunk
<1>1. Reading /\ Statted = r.n
  BY DEF Reading, Statted, Placings
<1>2. r.file_num \in Chunk
  BY <1>1, RepositoryAssumption DEF ReaderPlaced, Chunk
<1> QED
  BY <1>1, <1>2 DEF ReaderPlaced, IsPlaced

\* seek goes to the chunk that holds the place, and never back.
LEMMA SeekIs ==
  ASSUME NEW rd, IsPlaced(rd), NEW to \in Nat, CanSeek(rd, to)
  PROVE  \E c \in 0 .. rd.n - 1, i \in Nat :
           /\ seek(rd, to) = [rd EXCEPT !.file_num = c, !.pos = i]
           /\ \A d \in 0 .. rd.n - 1, j \in Nat : rd.before[d] + j <= to => From(d, j, c, i)
<1> DEFINE Holds(i) == rd.before[i] <= to /\ to < rd.before[i + 1]
<1>1. PICK n \in Nat : n = rd.n /\ n # 0
  BY RepositoryAssumption DEF IsPlaced
<1>2. PICK b \in [0 .. n -> Nat] : n = rd.n /\ b = rd.before /\ n # 0
  <2>1. rd.before \in [0 .. rd.n -> Nat]
    BY DEF IsPlaced
  <2> QED
    BY <1>1, <2>1
<1>3. PICK c \in 0 .. n - 1 : c = (CHOOSE i \in 0 .. n - 1 : Holds(i)) /\ Holds(c)
  <2>1. \E i \in 0 .. n - 1 : Holds(i)
    BY <1>2 DEF IsPlaced, Placed, CanSeek
  <2> HIDE DEF Holds
  <2> QED
    BY <2>1
<1>4. b[c] \in Nat /\ b[c + 1] \in Nat /\ b[c] <= to /\ to < b[c + 1] /\ c \in Nat
  <2>1. c \in 0 .. n - 1
    OBVIOUS
  <2>2. b[c] \in Nat /\ b[c + 1] \in Nat /\ c \in Nat
    BY <2>1
  <2>3. Holds(c)
    <3> HIDE DEF Holds
    <3> QED
      BY <1>3
  <2> QED
    BY <1>2, <2>2, <2>3
<1>5. seek(rd, to) = [rd EXCEPT !.file_num = c, !.pos = to - b[c]]
  BY <1>2, <1>3 DEF seek
<1>6. PICK i \in Nat : i = to - b[c] /\ b[c] + i = to
  <2>1. to - b[c] \in Nat /\ b[c] + (to - b[c]) = to
    BY <1>4
  <2> QED
    BY <2>1
<1>7. ASSUME NEW d \in 0 .. n - 1, NEW j \in Nat, b[d] + j <= to
      PROVE  From(d, j, c, i)
  <2>1. CASE d < c
    BY <2>1 DEF From
  <2>2. CASE d = c
    <3>1. j <= i
      BY <1>4, <1>6, <1>7, <2>2
    <3> QED
      BY <2>2, <3>1 DEF From
  <2>3. CASE c < d
    <3>1. c + 1 \in 0 .. n /\ d \in 0 .. n /\ c + 1 <= d
      BY <1>2, <1>3, <2>3
    <3>2. b[c + 1] <= b[d] /\ b[d] \in Nat
      BY <1>2, <3>1 DEF IsPlaced, Placed
    <3> QED
      BY <1>4, <1>7, <3>2
  <2>4. d \in Int /\ c \in Int
    BY <1>4
  <2> QED
    BY <2>1, <2>2, <2>3, <2>4
<1> HIDE DEF Holds
<1> QED
  BY <1>2, <1>3, <1>5, <1>6, <1>7

LEMMA MinOfTwo ==
  ASSUME NEW a \in Nat, NEW b \in Nat
  PROVE  Min({a, b}) = IF a <= b THEN a ELSE b
<1>1. CASE a <= b
  <2>1. a \in {a, b} /\ \A y \in {a, b} : a <= y
    BY <1>1
  <2>2. \A x \in {a, b} : (\A y \in {a, b} : x <= y) => x = a
    BY <1>1
  <2> QED
    BY <1>1, <2>1, <2>2 DEF Min
<1>2. CASE ~(a <= b)
  <2>1. b \in {a, b} /\ \A y \in {a, b} : b <= y
    BY <1>2
  <2>2. \A x \in {a, b} : (\A y \in {a, b} : x <= y) => x = b
    BY <1>2
  <2> QED
    BY <1>2, <2>1, <2>2 DEF Min
<1> QED
  BY <1>1, <1>2

\* What fread takes of a file.
Taken(s, c, pos, n) ==
  /\ s \in Seq(Piece) /\ Len(s) \in Nat /\ Len(s) <= n
  /\ \A k \in 1 .. Len(s) : pos + k <= Len(disk[c]) /\ s[k] = disk[c][pos + k]

LEMMA OnDiskIs ==
  ASSUME WriterInv, NEW c \in Chunk, NEW pos \in Nat, NEW n \in Nat
  PROVE  Taken(OnDisk(c, pos, n), c, pos, n)
<1>1. PICK s \in Seq(Piece) : s = disk[c]
  BY TextIs
<1>2. PICK l \in Nat : l = Len(s)
  BY <1>1
<1>3. PICK e \in Nat : e = Min({pos + n, l}) /\ e <= pos + n /\ e <= l
  <2>1. Min({pos + n, l}) = IF pos + n <= l THEN pos + n ELSE l
    BY MinOfTwo
  <2> QED
    BY <2>1
<1>4. OnDisk(c, pos, n) = SubSeq(s, pos + 1, e)
  BY <1>1, <1>2, <1>3 DEF OnDisk
<1>5. CASE e <= pos
  <2>1. SubSeq(s, pos + 1, e) = << >>
    BY <1>1, <1>5
  <2>2. << >> \in Seq(Piece) /\ Len(<< >>) = 0 /\ 0 \in Nat /\ 0 <= n /\ \A k \in 1 .. 0 : FALSE
    OBVIOUS
  <2>3. Taken(<< >>, c, pos, n)
    BY <2>2, Zenon DEF Taken
  <2> QED
    BY <1>4, <2>1, <2>3
<1>6. CASE pos < e
  <2>1. PICK m \in Nat : pos + m = e
    <3>1. e - pos \in Nat /\ pos + (e - pos) = e
      BY <1>6
    <3> QED
      BY <3>1
  <2>2. m <= n /\ pos + m <= Len(s)
    BY <1>2, <1>3, <2>1
  <2>3. /\ SubSeq(s, pos + 1, pos + m) \in Seq(Piece) /\ Len(SubSeq(s, pos + 1, pos + m)) = m
        /\ \A i \in 1 .. m : SubSeq(s, pos + 1, pos + m)[i] = s[pos + i]
    BY <2>2, PieceOfSeq
  <2>4. \A k \in 1 .. m : pos + k <= Len(s)
    BY <1>2, <2>2
  <2> QED
    BY <1>1, <1>4, <2>1, <2>2, <2>3, <2>4 DEF Taken
<1> QED
  BY <1>3, <1>5, <1>6

LEMMA PaddedIs ==
  ASSUME NEW s \in Seq(Piece), NEW left \in Nat, Len(s) <= left
  PROVE  /\ Padded(s, left) \in Seq(Piece) /\ Len(Padded(s, left)) = left
         /\ \A k \in 1 .. Len(s) : Padded(s, left)[k] = s[k]
         /\ \A k \in Len(s) + 1 .. left : Padded(s, left)[k] = Junk
<1>1. PICK h \in Nat : h = Len(s) /\ h <= left
  OBVIOUS
<1>2. PICK e \in Nat : e = left - h /\ h + e = left
  <2>1. left - h \in Nat /\ h + (left - h) = left
    BY <1>1
  <2> QED
    BY <2>1
<1>3. PICK t : t = [i \in 1 .. e |-> Junk]
  OBVIOUS
<1>4. t \in Seq(Piece) /\ Len(t) = e /\ \A i \in 1 .. e : t[i] = Junk
  BY <1>3 DEF Junk, Piece
<1>5. Padded(s, left) = s \o t
  BY <1>1, <1>2, <1>3 DEF Padded
<1>6. /\ s \o t \in Seq(Piece) /\ Len(s \o t) = h + e
      /\ \A i \in 1 .. h : (s \o t)[i] = s[i]
      /\ \A i \in 1 .. e : (s \o t)[h + i] = t[i]
  <2>1. /\ s \o t \in Seq(Piece) /\ Len(s \o t) = Len(s) + Len(t)
        /\ \A i \in 1 .. Len(s) : (s \o t)[i] = s[i]
        /\ \A i \in 1 .. Len(t) : (s \o t)[Len(s) + i] = t[i]
    BY <1>4, PiecesJoined
  <2> QED
    BY <1>1, <1>4, <2>1
<1>7. ASSUME NEW k \in h + 1 .. left
      PROVE  (s \o t)[k] = Junk
  <2>1. PICK i \in 1 .. e : k = h + i
    <3>1. k - h \in 1 .. e /\ k = h + (k - h)
      BY <1>2
    <3> QED
      BY <3>1
  <2> QED
    BY <1>4, <1>6, <2>1
<1> QED
  BY <1>1, <1>2, <1>5, <1>6, <1>7

\* A read stays in its chunk, or takes what is left of it and goes on in the next.
ReadHere(rd, n, b) ==
  \E m \in 0 .. n :
    /\ b.rd = [rd EXCEPT !.pos = rd.pos + m] /\ b.buf \in Seq(Piece) /\ Len(b.buf) = m
    /\ \A k \in 1 .. m : /\ rd.pos + k <= Len(disk[rd.file_num])
                         /\ b.buf[k] = disk[rd.file_num][rd.pos + k]
ReadOver(rd, n, b, h, left, m) ==
  /\ ~LastFile(rd) /\ left < n /\ rd.pos + left = Size(rd) /\ h <= left /\ left + m <= n
  /\ b.rd = [rd EXCEPT !.file_num = @ + 1, !.pos = m]
  /\ (b.ok <=> m > 0)
  /\ b.buf \in Seq(Piece) /\ Len(b.buf) = left + m
  /\ \A k \in 1 .. h : rd.pos + k <= Len(disk[rd.file_num]) /\ b.buf[k] = disk[rd.file_num][rd.pos + k]
  /\ \A k \in h + 1 .. left : b.buf[k] = Junk
  /\ \A k \in 1 .. m : k <= Len(disk[rd.file_num + 1]) /\ b.buf[left + k] = disk[rd.file_num + 1][k]
ReadOn(rd, n, b) == \E h, left, m \in Nat : ReadOver(rd, n, b, h, left, m)

LEMMA ReadIs ==
  ASSUME WriterInv, NEW rd, IsPlaced(rd), LastFile(rd) \/ rd.pos <= Size(rd), NEW n \in Nat
  PROVE  ReadHere(rd, n, BFRead(rd, n)) \/ ReadOn(rd, n, BFRead(rd, n))
<1> DEFINE b == BFRead(rd, n)
<1>1. PICK c \in Chunk : c = rd.file_num /\ c \in Nat
  BY RepositoryAssumption DEF IsPlaced, Chunk
<1>2. PICK pos \in Nat : pos = rd.pos
  BY DEF IsPlaced, ReaderRec
<1>3. PICK size \in Nat : size = Size(rd)
  BY DEF IsPlaced, Size
<1>4. ASSUME NEW ok, b = [ok |-> ok, buf |-> << >>, rd |-> rd]
      PROVE  ReadHere(rd, n, b)
  <2>1. b.rd = [rd EXCEPT !.pos = rd.pos + 0]
    <3>1. rd = [rd EXCEPT !.pos = rd.pos + 0]
      BY DEF IsPlaced, ReaderRec
    <3> QED
      BY <1>4, <3>1
  <2>2. b.buf = << >> /\ << >> \in Seq(Piece) /\ Len(<< >>) = 0 /\ 0 \in 0 .. n /\ \A k \in 1 .. 0 : FALSE
    BY <1>4
  <2> HIDE DEF b
  <2> QED
    BY <2>1, <2>2, Zenon DEF ReadHere
<1>5. CASE size - pos = 0 /\ LastFile(rd)
  <2>1. b = [ok |-> FALSE, buf |-> << >>, rd |-> rd]
    BY <1>2, <1>3, <1>5 DEF BFRead
  <2> QED
    BY <1>4, <2>1
<1>6. CASE ~(size - pos = 0 /\ LastFile(rd)) /\ (size - pos >= n \/ LastFile(rd))
  <2>1. (IF LastFile(rd) THEN n ELSE Min({size - pos, n})) = n
    <3>1. CASE ~LastFile(rd)
      <4>1. size - pos \in Nat /\ n <= size - pos
        BY <1>6, <3>1
      <4> QED
        BY <4>1, <3>1, MinOfTwo
    <3> QED
      BY <3>1
  <2>2. PICK here : here = OnDisk(c, pos, n)
    OBVIOUS
  <2>3. /\ b.rd = [rd EXCEPT !.pos = rd.pos + Len(here)] /\ b.buf = here
    BY <1>1, <1>2, <1>3, <1>6, <2>1, <2>2 DEF BFRead
  <2>4. Taken(here, c, pos, n)
    BY <2>2, OnDiskIs
  <2>5. PICK m \in 0 .. n : m = Len(here)
    BY <2>4 DEF Taken
  <2>6. here \in Seq(Piece) /\ \A k \in 1 .. m : pos + k <= Len(disk[c]) /\ here[k] = disk[c][pos + k]
    BY <2>4, <2>5 DEF Taken
  <2>7. ReadHere(rd, n, b)
    <3> HIDE DEF b
    <3> QED
      BY <1>1, <1>2, <2>3, <2>5, <2>6, Zenon DEF ReadHere
  <2> QED
    BY <2>7
<1>7. CASE ~(size - pos >= n) /\ ~LastFile(rd)
  <2>1. PICK left \in Nat : left = size - pos /\ pos + left = size /\ left < n
    <3>1. size - pos \in Nat /\ pos + (size - pos) = size /\ size - pos < n
      BY <1>2, <1>3, <1>7
    <3> QED
      BY <3>1
  <2>2. Min({left, n}) = left
    BY <2>1, MinOfTwo
  <2>3. PICK here : here = OnDisk(c, pos, left)
    OBVIOUS
  <2>4. Taken(here, c, pos, left)
    BY <2>3, OnDiskIs
  <2>5. CASE left > 0 /\ here = << >>
    <3>1. b = [ok |-> FALSE, buf |-> << >>, rd |-> rd]
      BY <1>1, <1>2, <1>3, <1>7, <2>1, <2>2, <2>3, <2>5 DEF BFRead
    <3> QED
      BY <1>4, <3>1
  <2>6. CASE ~(left > 0 /\ here = << >>)
    <3>1. PICK e \in Nat : e = n - left /\ left + e = n
      <4>1. n - left \in Nat /\ left + (n - left) = n
        BY <2>1
      <4> QED
        BY <4>1
    <3>2. PICK next : next = OnDisk(c + 1, 0, e)
      OBVIOUS
    <3>3. b = [ok |-> next # << >>, buf |-> Padded(here, left) \o next,
               rd |-> [rd EXCEPT !.file_num = @ + 1, !.pos = Len(next)]]
      BY <1>1, <1>2, <1>3, <1>7, <2>1, <2>2, <2>3, <2>6, <3>1, <3>2 DEF BFRead
    <3>4. c + 1 \in Chunk
      BY <1>1, <1>7, RepositoryAssumption DEF IsPlaced, LastFile, Chunk
    <3>5. Taken(next, c + 1, 0, e)
      BY <3>2, <3>4, OnDiskIs
    <3>6. PICK h \in Nat : h = Len(here) /\ h <= left
      BY <2>4 DEF Taken
    <3>7. PICK m \in Nat : m = Len(next) /\ m <= e
      BY <3>5 DEF Taken
    <3>8. PICK s : s = Padded(here, left)
      OBVIOUS
    <3>9. /\ s \in Seq(Piece) /\ Len(s) = left
          /\ \A k \in 1 .. h : s[k] = here[k]
          /\ \A k \in h + 1 .. left : s[k] = Junk
      <4>1. here \in Seq(Piece)
        BY <2>4 DEF Taken
      <4>2. Len(here) <= left
        BY <3>6
      <4>3. /\ Padded(here, left) \in Seq(Piece) /\ Len(Padded(here, left)) = left
            /\ \A k \in 1 .. Len(here) : Padded(here, left)[k] = here[k]
            /\ \A k \in Len(here) + 1 .. left : Padded(here, left)[k] = Junk
        BY <4>1, <4>2, PaddedIs, Zenon
      <4> QED
        BY <3>6, <3>8, <4>3
    <3>10. PICK t : t = s \o next /\ next \in Seq(Piece)
      BY <3>5 DEF Taken
    <3>11. /\ t \in Seq(Piece) /\ Len(t) = left + m
           /\ \A k \in 1 .. left : t[k] = s[k]
           /\ \A k \in 1 .. m : t[left + k] = next[k]
      <4>1. /\ s \o next \in Seq(Piece) /\ Len(s \o next) = Len(s) + Len(next)
            /\ \A i \in 1 .. Len(s) : (s \o next)[i] = s[i]
            /\ \A i \in 1 .. Len(next) : (s \o next)[Len(s) + i] = next[i]
        BY <3>9, <3>10, PiecesJoined
      <4> QED
        BY <3>7, <3>9, <3>10, <4>1
    <3>12. b.buf = t /\ b.rd = [rd EXCEPT !.file_num = @ + 1, !.pos = m]
      BY <3>3, <3>7, <3>8, <3>10
    <3>13. b.ok <=> m > 0
      <4>1. next # << >> <=> m > 0
        BY <3>7, <3>10
      <4>2. b.ok = (next # << >>)
        BY <3>3
      <4> QED
        BY <4>1, <4>2
    <3>14. /\ \A k \in 1 .. h : pos + k <= Len(disk[c]) /\ t[k] = disk[c][pos + k]
           /\ \A k \in h + 1 .. left : t[k] = Junk
           /\ left + m <= n
      <4>1. \A k \in 1 .. h : pos + k <= Len(disk[c]) /\ here[k] = disk[c][pos + k]
        BY <2>4, <3>6 DEF Taken
      <4>2. \A k \in 1 .. h : k \in 1 .. left
        BY <3>6
      <4>3. \A k \in h + 1 .. left : k \in 1 .. left
        BY <3>6
      <4>4. left + m <= n
        BY <2>1, <3>1, <3>7
      <4> QED
        BY <3>9, <3>11, <4>1, <4>2, <4>3, <4>4
    <3>15. \A k \in 1 .. m : k <= Len(disk[c + 1]) /\ t[left + k] = disk[c + 1][k]
      BY <3>5, <3>7, <3>11 DEF Taken
    <3>16. ReadOver(rd, n, b, h, left, m)
      <4> HIDE DEF b
      <4>1. ~LastFile(rd) /\ left < n /\ rd.pos + left = Size(rd) /\ h <= left /\ left + m <= n
        BY <1>2, <1>3, <1>7, <2>1, <3>6, <3>14
      <4>2. /\ \A k \in 1 .. h : rd.pos + k <= Len(disk[rd.file_num]) /\ b.buf[k] = disk[rd.file_num][rd.pos + k]
            /\ \A k \in h + 1 .. left : b.buf[k] = Junk
            /\ \A k \in 1 .. m : k <= Len(disk[rd.file_num + 1]) /\ b.buf[left + k] = disk[rd.file_num + 1][k]
            /\ b.buf \in Seq(Piece) /\ Len(b.buf) = left + m
        BY <1>1, <1>2, <3>11, <3>12, <3>14, <3>15
      <4> QED
        BY <3>12, <3>13, <4>1, <4>2, Zenon DEF ReadOver
    <3> QED
      BY <3>16 DEF ReadOn
  <2> QED
    BY <2>5, <2>6
<1> QED
  BY <1>5, <1>6, <1>7

\* A reader elsewhere in the same chunks.
Elsewhere(rd2, rd, c, i) ==
  /\ IsPlaced(rd2) /\ rd2.file_num = c /\ rd2.pos = i
  /\ rd2.at = rd.at /\ rd2.n = rd.n /\ rd2.file_size = rd.file_size /\ rd2.before = rd.before
  /\ rd2.start = rd.start /\ rd2.head = rd.head /\ rd2.got = rd.got /\ rd2.sealed = rd.sealed
  /\ rd2.torn = rd.torn /\ rd2.cut = rd.cut

LEMMA MovedIs ==
  ASSUME NEW rd, IsPlaced(rd), NEW c \in 0 .. rd.n - 1, NEW i \in Nat
  PROVE  Elsewhere([rd EXCEPT !.file_num = c, !.pos = i], rd, c, i)
<1> DEFINE rd2 == [rd EXCEPT !.file_num = c, !.pos = i]
<1>1. rd \in ReaderRec /\ c \in Nat
  BY RepositoryAssumption DEF IsPlaced
<1>2. /\ rd2 \in ReaderRec /\ rd2.file_num = c /\ rd2.pos = i
      /\ rd2.at = rd.at /\ rd2.n = rd.n /\ rd2.file_size = rd.file_size /\ rd2.before = rd.before
      /\ rd2.start = rd.start /\ rd2.head = rd.head /\ rd2.got = rd.got /\ rd2.sealed = rd.sealed
      /\ rd2.torn = rd.torn /\ rd2.cut = rd.cut
  BY <1>1 DEF ReaderRec
<1> HIDE DEF rd2
<1>3. Placed(rd2, rd2.n)
  BY <1>2 DEF IsPlaced, Placed
<1>4. Elsewhere(rd2, rd, c, i)
  BY <1>2, <1>3 DEF IsPlaced, Elsewhere
<1> QED
  BY <1>4 DEF rd2

\* What is read, but the padding, is on the disk where the counts by the recorded
\* sizes say, not before the place where the read began nor after the one where it ended.
ReadFrom(rd, b, k, c, i) ==
  /\ i <= Len(disk[c]) /\ b.buf[k] = disk[c][i] /\ rd.before[c] + i = tell(rd) + k
  /\ From(rd.file_num, rd.pos + 1, c, i) /\ From(c, i, b.rd.file_num, b.rd.pos)

LEMMA ReadMoves ==
  ASSUME WriterInv, NEW rd, IsPlaced(rd), LastFile(rd) \/ rd.pos <= Size(rd), NEW n \in Nat,
         NEW b, b = BFRead(rd, n)
  PROVE  /\ \E c \in 0 .. rd.n - 1, i \in Nat : Elsewhere(b.rd, rd, c, i) /\ From(rd.file_num, rd.pos, c, i)
         /\ b.buf \in Seq(Piece) /\ Len(b.buf) \in Nat /\ Len(b.buf) <= n
         /\ \A k \in 1 .. Len(b.buf) :
              b.buf[k] = Junk \/ \E c \in 0 .. rd.n - 1, i \in Nat \ {0} : ReadFrom(rd, b, k, c, i)
<1>1. PICK f \in 0 .. rd.n - 1 : f = rd.file_num /\ f \in Nat
  BY RepositoryAssumption DEF IsPlaced
<1>2. PICK pos \in Nat : pos = rd.pos
  BY DEF IsPlaced, ReaderRec
<1>3. PICK t \in Nat : t = rd.before[f]
  <2>1. PICK q \in Nat : q = rd.n
    BY DEF IsPlaced, ReaderRec
  <2>2. rd.before \in [0 .. q -> Nat] /\ f \in 0 .. q
    BY <1>1, <2>1 DEF IsPlaced
  <2>3. rd.before[f] \in Nat
    BY <2>2
  <2> QED
    BY <2>3
<1>4. \A k \in Nat : tell(rd) + k = t + pos + k
  BY <1>1, <1>2, <1>3 DEF tell
<1>5. ASSUME NEW k \in Nat \ {0}, NEW g \in 0 .. rd.n - 1, NEW p \in Nat,
             b.rd.file_num = g, b.rd.pos = p, From(f, pos + k, g, p),
             pos + k <= Len(disk[f]), b.buf[k] = disk[f][pos + k]
      PROVE  \E c \in 0 .. rd.n - 1, i \in Nat \ {0} : ReadFrom(rd, b, k, c, i)
  <2>1. ReadFrom(rd, b, k, f, pos + k)
    <3>1. t + (pos + k) = t + pos + k /\ From(f, pos + 1, f, pos + k)
      BY DEF From
    <3> QED
      BY <1>1, <1>2, <1>3, <1>4, <1>5, <3>1 DEF ReadFrom
  <2>2. pos + k \in Nat \ {0}
    OBVIOUS
  <2> QED
    BY <2>1, <2>2
<1>6. CASE ReadHere(rd, n, b)
  <2>1. PICK m \in 0 .. n :
          /\ b.rd = [rd EXCEPT !.pos = rd.pos + m] /\ b.buf \in Seq(Piece) /\ Len(b.buf) = m
          /\ \A k \in 1 .. m : /\ rd.pos + k <= Len(disk[rd.file_num])
                               /\ b.buf[k] = disk[rd.file_num][rd.pos + k]
    BY <1>6 DEF ReadHere
  <2>2. PICK p \in Nat : p = pos + m /\ m \in Nat
    OBVIOUS
  <2>3. b.rd = [rd EXCEPT !.file_num = f, !.pos = p]
    BY <1>1, <1>2, <2>1, <2>2 DEF IsPlaced, ReaderRec
  <2>4. From(rd.file_num, rd.pos, f, p)
    BY <1>1, <1>2, <2>2 DEF From
  <2>5. b.rd.file_num = f /\ b.rd.pos = p
    BY <2>3 DEF IsPlaced, ReaderRec
  <2>6. \A k \in 1 .. m : From(f, pos + k, f, p) /\ k \in Nat \ {0}
    BY <2>2 DEF From
  <2>7. \A k \in 1 .. m : pos + k <= Len(disk[f]) /\ b.buf[k] = disk[f][pos + k]
    BY <1>1, <1>2, <2>1
  <2>8. \A k \in 1 .. m : \E c \in 0 .. rd.n - 1, i \in Nat \ {0} : ReadFrom(rd, b, k, c, i)
    BY <1>5, <2>5, <2>6, <2>7
  <2>9. Elsewhere(b.rd, rd, f, p)
    <3>1. Elsewhere([rd EXCEPT !.file_num = f, !.pos = p], rd, f, p)
      BY MovedIs, Zenon
    <3> QED
      BY <2>3, <3>1
  <2>10. b.buf \in Seq(Piece) /\ Len(b.buf) \in Nat /\ Len(b.buf) <= n /\ Len(b.buf) = m
    BY <2>1
  <2> QED
    BY <2>4, <2>8, <2>9, <2>10
<1>7. CASE ReadOn(rd, n, b)
  <2>1. PICK h \in Nat, left \in Nat, m \in Nat : ReadOver(rd, n, b, h, left, m)
    BY <1>7 DEF ReadOn
  <2>2. PICK g \in 0 .. rd.n - 1 : g = f + 1 /\ g \in Nat
    <3>1. f + 1 \in 0 .. rd.n - 1 /\ f + 1 \in Nat
      <4>1. f # rd.n - 1
        BY <1>1, <2>1 DEF ReadOver, LastFile
      <4>2. rd.n \in Int
        BY RepositoryAssumption DEF IsPlaced
      <4> QED
        BY <1>1, <4>1, <4>2
    <3> QED
      BY <3>1
  <2>3. b.rd = [rd EXCEPT !.file_num = g, !.pos = m]
    BY <1>1, <2>1, <2>2 DEF ReadOver
  <2>4. b.rd.file_num = g /\ b.rd.pos = m
    BY <2>3 DEF IsPlaced, ReaderRec
  <2>5. \A i, j \in Nat : From(f, i, g, j)
    BY <2>2 DEF From
  <2>6. rd.before[g] = t + pos + left
    <3>1. rd.before[g] = rd.before[f] + Size(rd) /\ pos + left = Size(rd)
      BY <1>1, <1>2, <2>1, <2>2 DEF IsPlaced, Placed, Size, ReadOver
    <3> QED
      BY <1>3, <3>1
  <2>7. ASSUME NEW k \in 1 .. Len(b.buf), ~(b.buf[k] = Junk)
        PROVE  \E c \in 0 .. rd.n - 1, i \in Nat \ {0} : ReadFrom(rd, b, k, c, i)
    <3>1. k \in Nat \ {0} /\ k <= left + m
      BY <2>1, <2>7 DEF ReadOver
    <3>2. CASE k <= left
      <4>1. k \in 1 .. h
        <5>1. ~(k \in h + 1 .. left)
          BY <2>1, <2>7 DEF ReadOver
        <5> QED
          BY <3>1, <3>2, <5>1
      <4>2. pos + k <= Len(disk[f]) /\ b.buf[k] = disk[f][pos + k]
        BY <1>1, <1>2, <2>1, <4>1 DEF ReadOver
      <4>3. From(f, pos + k, g, m)
        BY <2>5, <3>1
      <4> QED
        BY <1>5, <2>4, <3>1, <4>2, <4>3
    <3>3. CASE ~(k <= left)
      <4>1. PICK i \in 1 .. m : k = left + i /\ i \in Nat \ {0}
        <5>1. k - left \in 1 .. m /\ k = left + (k - left)
          BY <3>1, <3>3
        <5> QED
          BY <5>1
      <4>2. i <= Len(disk[g]) /\ b.buf[k] = disk[g][i]
        BY <1>1, <2>1, <2>2, <4>1 DEF ReadOver
      <4>3. rd.before[g] + i = t + pos + k
        BY <2>6, <4>1
      <4>4. From(f, pos + 1, g, i) /\ From(g, i, g, m)
        BY <2>5, <4>1 DEF From
      <4>5. ReadFrom(rd, b, k, g, i)
        BY <1>1, <1>2, <1>4, <2>4, <3>1, <4>2, <4>3, <4>4 DEF ReadFrom
      <4> QED
        BY <4>1, <4>5
    <3> QED
      BY <3>2, <3>3
  <2>8. b.buf \in Seq(Piece) /\ Len(b.buf) \in Nat /\ Len(b.buf) <= n
    BY <2>1 DEF ReadOver
  <2>9. From(rd.file_num, rd.pos, g, m)
    BY <1>1, <1>2, <2>5
  <2>10. Elsewhere(b.rd, rd, g, m)
    <3>1. Elsewhere([rd EXCEPT !.file_num = g, !.pos = m], rd, g, m)
      BY MovedIs, Zenon
    <3> QED
      BY <2>3, <3>1
  <2> QED
    BY <2>7, <2>8, <2>9, <2>10
<1> QED
  BY <1>6, <1>7, ReadIs

\* Steps of a reader within the chunks it opened.
LEMMA StepsWithin ==
  ASSUME WriterInv, ReaderInv, writer_unchanged, r.at \in Placings,
         NEW rd, r' = rd, IsPlaced(rd), SameChunks(rd), rd.at \in Placings
  PROVE  /\ r' \in ReaderRec /\ Unopened' /\ ReaderPlaced' /\ Follows' /\ Reading'
         /\ (Storing <=> Storing') /\ pages' = pages /\ opens' = opens
<1>1. Statted = r.n /\ Reading /\ IsPlaced(r)
  BY IsPlacedThen DEF ReaderInv
<1>2. Statted' = r.n /\ Reading'
  BY DEF Statted, Reading, Placings, SameChunks
<1>3. disk' = disk /\ w' = w /\ pages' = pages /\ opens' = opens /\ (Storing <=> Storing')
  BY Unmoved DEF writer_unchanged
<1>4. r' \in ReaderRec /\ Unopened'
  BY DEF IsPlaced, Unopened, Placings
<1>5. ReaderPlaced'
  BY <1>2 DEF IsPlaced, ReaderPlaced, Placed, Placings, SameChunks
<1>6. Follows'
  <2> SUFFICES ASSUME ~r'.torn
               PROVE  /\ ~Storing' => Splits(r.n)'
                      /\ Storing' => Within(r.n)'
                      /\ \A c \in 0 .. Statted' - 1 : c < r'.n - 1 =>
                           r'.file_size[c] = Len(disk'[c]) /\ (Storing' => c < w'.last)
    BY DEF Follows
  <2>1. ~r.torn /\ r'.n = r.n /\ r'.file_size = r.file_size
    BY DEF SameChunks
  <2>2. /\ ~Storing => Splits(r.n)
        /\ Storing => Within(r.n)
        /\ \A c \in 0 .. Statted - 1 : c < r.n - 1 =>
             r.file_size[c] = Len(disk[c]) /\ (Storing => c < w.last)
    BY <1>1, <2>1 DEF ReaderInv, Follows
  <2>3. /\ ~Storing' => Splits(r.n)'
        /\ Storing' => Within(r.n)'
    BY <2>1, <2>2, Unmoved
  <2> QED
    BY <1>1, <1>2, <1>3, <2>1, <2>2, <2>3
<1> QED
  BY <1>2, <1>3, <1>4, <1>5, <1>6

\* It looks for the next header.
LEMMA LooksOn ==
  ASSUME WriterInv, ReaderInv, writer_unchanged, r.at \in Placings,
         NEW rd, r' = rd, IsPlaced(rd), SameChunks(rd), rd.at \in {"page", "resync"}, rd.got = r.got,
         rd.cut \/ \A k \in 1 .. Len(r.got) : Ahead(r.got[k].page, rd.file_num, rd.pos + 1)
  PROVE  ReaderInv'
<1>1. /\ r' \in ReaderRec /\ Unopened' /\ ReaderPlaced' /\ Follows' /\ Reading'
      /\ (Storing <=> Storing') /\ pages' = pages /\ opens' = opens
  <2>1. rd.at \in Placings
    BY DEF Placings
  <2> QED
    BY <2>1, StepsWithin
<1>2. /\ ~Headed' /\ r'.got = r.got /\ r'.n = r.n /\ r'.torn = r.torn /\ compressed' = compressed
      /\ Reading /\ (r.cut => r'.cut)
  BY IsPlacedThen DEF Headed, SameChunks, writer_unchanged, ReaderInv
<1>3. KnownInv'
  <2>1. \A k \in 1 .. Len(r.got) : Reported(r.got[k].page)'
    BY <1>2, Unmoved DEF ReaderInv, KnownInv
  <2>2. \A k \in 1 .. Len(r'.got) : Ahead(r.got[k].page, r.file_num, r.pos + 1)'
    <3>1. CASE rd.cut
      BY <3>1 DEF Ahead
    <3>2. CASE \A k \in 1 .. Len(r.got) : Ahead(r.got[k].page, rd.file_num, rd.pos + 1)
      <4>1. PICK f, p : f = rd.file_num /\ p = rd.pos + 1
        OBVIOUS
      <4>2. \A k \in 1 .. Len(r.got) : Ahead(r.got[k].page, f, p)
        BY <3>2, <4>1
      <4>3. \A q : Ahead(q, f, p) => Ahead(q, f, p)'
        BY <1>2, Unmoved
      <4>4. f = r'.file_num /\ p = r'.pos + 1
        BY <4>1
      <4> QED
        BY <1>2, <4>2, <4>3, <4>4
    <3> QED
      BY <3>1, <3>2
  <2> QED
    BY <1>2, <2>1, <2>2 DEF KnownInv
<1>4. OneOpening'
  <2> SUFFICES ASSUME ~r'.torn
               PROVE  \E o \in Nat :
                        /\ \A k \in 1 .. Len(r'.got) : pages'[r'.got[k].page].open = o
                        /\ Headed' => pages'[r'.head[1][1]].open = o
                        /\ Reading' => (Storing' => o = opens') /\ OneOpen(r.n, o)'
    BY DEF OneOpening
  <2>1. PICK o \in Nat :
          /\ \A k \in 1 .. Len(r.got) : pages[r.got[k].page].open = o
          /\ (Storing => o = opens) /\ OneOpen(r.n, o)
    BY <1>2 DEF ReaderInv, OneOpening
  <2>2. OneOpen(r.n, o)'
    BY <1>2, <2>1, Unmoved
  <2> QED
    BY <1>1, <1>2, <2>1, <2>2
<1>5. AtBody'
  BY <1>2 DEF AtBody, Headed
<1>6. SameOrder' /\ Intact'
  BY <1>1, <1>2 DEF SameOrder, Intact, ReaderInv
<1> QED
  BY <1>1, <1>3, <1>4, <1>5, <1>6 DEF ReaderInv

\* It ends.
LEMMA EndsThen ==
  ASSUME WriterInv, ReaderInv, writer_unchanged,
         NEW rd, rd.n \in Nat, rd.got = r.got, rd.torn = r.torn, rd.sealed \in BOOLEAN,
         rd.cut \in BOOLEAN, r.cut => rd.cut,
         NEW how \in {"end", "gone"}, r' = Leaves(rd, how)
  PROVE  ReaderInv'
<1>1. /\ r' = [at |-> how, n |-> rd.n, file_size |-> NotReading.file_size, before |-> NotReading.before,
               file_num |-> 0, pos |-> 0, start |-> 0, head |-> << >>, got |-> r.got,
               sealed |-> rd.sealed, torn |-> r.torn, cut |-> rd.cut]
  BY DEF Leaves, NotReading
<1>2. NotReading.file_size \in Sizes /\ NotReading.before \in Sizes
  <2>1. [i \in 0 .. -1 |-> 0] \in [0 .. 0 - 1 -> Nat] /\ [i \in 0 .. 0 |-> 0] \in [0 .. 1 - 1 -> Nat]
    OBVIOUS
  <2>2. [i \in 0 .. -1 |-> 0] \in Sizes /\ [i \in 0 .. 0 |-> 0] \in Sizes
    BY <2>1 DEF Sizes
  <2> QED
    BY <2>2 DEF NotReading
<1>3. r' \in ReaderRec
  <2>1. << >> \in Seq(Piece) /\ r.got \in Seq(Got) /\ r.torn \in BOOLEAN /\ how \in ReaderPlace
    BY DEF ReaderInv, ReaderRec, ReaderPlace
  <2> QED
    BY <1>1, <1>2, <2>1 DEF ReaderRec
<1>4. /\ ~Headed' /\ ~Reading' /\ r'.at \in {"end", "gone"} /\ r'.got = r.got /\ r'.torn = r.torn
      /\ pages' = pages /\ compressed' = compressed /\ (r.cut => r'.cut)
  BY <1>1 DEF Headed, Reading, writer_unchanged
<1>5. Unopened' /\ ReaderPlaced' /\ Follows' /\ AtBody'
  BY <1>4 DEF Unopened, ReaderPlaced, Follows, AtBody
<1>6. KnownInv'
  <2>1. \A k \in 1 .. Len(r.got) : Reported(r.got[k].page)'
    BY <1>4, Unmoved DEF ReaderInv, KnownInv
  <2> QED
    BY <1>4, <2>1 DEF KnownInv
<1>7. OneOpening'
  <2> SUFFICES ASSUME ~r'.torn
               PROVE  \E o \in Nat : \A k \in 1 .. Len(r'.got) : pages'[r'.got[k].page].open = o
    BY <1>4 DEF OneOpening
  <2>1. PICK o \in Nat : \A k \in 1 .. Len(r.got) : pages[r.got[k].page].open = o
    BY <1>4 DEF OneOpening, ReaderInv
  <2>2. r'.got = r.got /\ pages' = pages
    BY <1>4
  <2>3. \A k \in 1 .. Len(r'.got) : pages'[r'.got[k].page].open = o
    BY ONLY <2>1, <2>2
  <2> QED
    BY <2>3
<1>8. SameOrder' /\ Intact'
  BY <1>4 DEF SameOrder, Intact, ReaderInv
<1> QED
  BY <1>3, <1>5, <1>6, <1>7, <1>8 DEF ReaderInv

Renamed(rd2, rd, at, head) ==
  /\ IsPlaced(rd2) /\ rd2.at = at /\ rd2.head = head
  /\ rd2.n = rd.n /\ rd2.file_size = rd.file_size /\ rd2.before = rd.before
  /\ rd2.file_num = rd.file_num /\ rd2.pos = rd.pos
  /\ rd2.start = rd.start /\ rd2.got = rd.got /\ rd2.sealed = rd.sealed /\ rd2.torn = rd.torn
  /\ rd2.cut = rd.cut

LEMMA RenamedIs ==
  ASSUME NEW rd, IsPlaced(rd), NEW at \in ReaderPlace, NEW head \in Seq(Piece)
  PROVE  Renamed([rd EXCEPT !.at = at, !.head = head], rd, at, head)
<1> DEFINE rd2 == [rd EXCEPT !.at = at, !.head = head]
<1>1. rd \in ReaderRec
  BY DEF IsPlaced
<1>2. rd2 \in ReaderRec
  BY <1>1 DEF ReaderRec
<1>3. /\ rd2.at = at /\ rd2.head = head
      /\ rd2.n = rd.n /\ rd2.file_size = rd.file_size /\ rd2.before = rd.before
      /\ rd2.file_num = rd.file_num /\ rd2.pos = rd.pos
      /\ rd2.start = rd.start /\ rd2.got = rd.got /\ rd2.sealed = rd.sealed /\ rd2.torn = rd.torn
      /\ rd2.cut = rd.cut
  BY <1>1 DEF ReaderRec
<1> HIDE DEF rd2
<1>4. Renamed(rd2, rd, at, head)
  BY <1>2, <1>3 DEF IsPlaced, Placed, Renamed
<1> QED
  BY <1>4 DEF rd2

\* A search for a magic code begins after the header that was none.
LEMMA Resyncs ==
  ASSUME WriterInv, ReaderInv, writer_unchanged, r.at \in Placings,
         NEW rd, IsPlaced(rd), SameChunks(rd), rd.got = r.got, r' = resync(rd),
         NEW c \in 0 .. rd.n - 1, NEW i \in Nat, rd.before[c] + i <= rd.start + 1,
         \A k \in 1 .. Len(r.got) : Ahead(r.got[k].page, c, i)
  PROVE  ReaderInv'
<1>1. PICK to \in Nat : to = rd.start + 1
  BY DEF IsPlaced, ReaderRec
<1>2. CASE CanSeek(rd, to)
  <2>1. PICK d \in 0 .. rd.n - 1, j \in Nat :
          seek(rd, to) = [rd EXCEPT !.file_num = d, !.pos = j] /\ From(c, i, d, j)
    BY <1>1, <1>2, SeekIs
  <2>2. PICK sk : sk = [rd EXCEPT !.file_num = d, !.pos = j]
    OBVIOUS
  <2>3. Elsewhere(sk, rd, d, j)
    BY <2>2, MovedIs
  <2>4. IsPlaced(sk)
    BY <2>3 DEF Elsewhere
  <2>5. r' = [sk EXCEPT !.at = "resync", !.head = << >>]
    BY <1>1, <1>2, <2>1, <2>2 DEF resync
  <2>6. PICK rd2 : rd2 = r' /\ rd2 = [sk EXCEPT !.at = "resync", !.head = << >>]
    BY <2>5
  <2>7. Renamed(rd2, sk, "resync", << >>)
    <3>1. "resync" \in ReaderPlace /\ << >> \in Seq(Piece)
      BY DEF ReaderPlace
    <3>2. Renamed([sk EXCEPT !.at = "resync", !.head = << >>], sk, "resync", << >>)
      BY <2>4, <3>1, RenamedIs, Zenon
    <3> QED
      BY <2>6, <3>2
  <2>8. c \in Nat /\ d \in Nat /\ j + 1 \in Nat /\ From(c, i, d, j + 1)
    <3>1. c \in Nat /\ d \in Nat
      BY RepositoryAssumption DEF IsPlaced
    <3> QED
      BY <2>1, <3>1 DEF From
  <2>9. \A k \in 1 .. Len(r.got) : Ahead(r.got[k].page, d, j + 1)
    BY <2>8, Farther
  <2>10. /\ IsPlaced(rd2) /\ SameChunks(rd2) /\ rd2.at = "resync" /\ rd2.got = r.got
         /\ rd2.file_num = d /\ rd2.pos = j
    BY <2>3, <2>7 DEF Elsewhere, Renamed, SameChunks
  <2> QED
    BY <2>6, <2>9, <2>10, LooksOn
<1>3. CASE ~CanSeek(rd, to)
  <2>1. r' = Leaves(rd, "end")
    BY <1>1, <1>3 DEF resync, Ended
  <2>2. /\ rd.n \in Nat /\ rd.sealed \in BOOLEAN /\ rd.torn = r.torn
        /\ rd.cut \in BOOLEAN /\ (r.cut => rd.cut)
    BY DEF IsPlaced, ReaderRec, SameChunks
  <2> QED
    BY <2>1, <2>2, EndsThen
<1> QED
  BY <1>2, <1>3

\* It has a header, or the start of one.
HeadFound(rd, q, c, i) ==
  /\ rd.before[c] + i = rd.start + 1 /\ From(c, i, rd.file_num, rd.pos)
  /\ \A k \in 1 .. Len(r.got) : Ahead(r.got[k].page, c, i)
  /\ Ahead(q, c, i + 1)
  /\ \A k \in 1 .. Len(r.got) :
       pages[r.got[k].page].open = pages[q].open => r.cut \/ r.got[k].page < q
OpenedWith(q) ==
  ~r.torn => \E o \in Nat : /\ \A k \in 1 .. Len(r.got) : pages[r.got[k].page].open = o
                            /\ pages[q].open = o /\ (Storing => o = opens) /\ OneOpen(r.n, o)
BodyNext(rd, q) ==
  ~r.torn => rd.pos \in 1 .. Len(disk[rd.file_num]) /\ disk[rd.file_num][rd.pos] = <<q, 3>>

LEMMA HasHeader ==
  ASSUME WriterInv, ReaderInv, writer_unchanged, r.at \in Placings,
         NEW rd, r' = rd, IsPlaced(rd), SameChunks(rd), rd.at \in {"rest", "body"}, rd.got = r.got,
         NEW q, Len(rd.head) = 2, rd.head[1][1] = q, Reported(q), OpenedWith(q),
         NEW c \in 0 .. rd.n - 1, NEW i \in Nat \ {0}, HeadFound(rd, q, c, i),
         rd.at = "body" => BodyNext(rd, q)
  PROVE  ReaderInv'
<1>1. /\ r' \in ReaderRec /\ Unopened' /\ ReaderPlaced' /\ Follows' /\ Reading'
      /\ (Storing <=> Storing') /\ pages' = pages /\ opens' = opens
  <2>1. rd.at \in Placings
    BY DEF Placings
  <2> QED
    BY <2>1, StepsWithin
<1>2. /\ r'.at = rd.at /\ r'.got = r.got /\ r'.n = r.n /\ r'.torn = r.torn /\ compressed' = compressed
      /\ r'.head[1][1] = q /\ r'.at \notin {"page", "resync"} /\ Headed' /\ disk' = disk
      /\ (r.cut => r'.cut)
  BY DEF Headed, SameChunks, writer_unchanged
<1>3. \A k \in 1 .. Len(r.got) : Reported(r.got[k].page)'
  BY <1>2, Unmoved DEF ReaderInv, KnownInv
<1>4. HeadAt(c, i)'
  <2>1. r'.before[c] + i = r'.start + 1 /\ From(c, i, r'.file_num, r'.pos)
    BY DEF HeadFound
  <2>2. \A k \in 1 .. Len(r'.got) : Ahead(r.got[k].page, c, i)'
    BY <1>2, Unmoved DEF HeadFound
  <2>3. Ahead(r.head[1][1], c, i + 1)'
    <3>1. PICK j : j = i + 1
      OBVIOUS
    <3>2. Ahead(q, c, j)'
      BY <1>2, <3>1, Unmoved DEF HeadFound
    <3> QED
      BY <1>2, <3>1, <3>2
  <2> QED
    BY <2>1, <2>2, <2>3 DEF HeadAt, From
<1>5. KnownInv'
  <2>1. Reported(r.head[1][1])'
    BY <1>2, Unmoved
  <2>2. c \in 0 .. r'.n - 1 /\ Len(r'.head) = 2
    BY DEF SameChunks
  <2>3. \A k \in 1 .. Len(r'.got) :
          pages'[r'.got[k].page].open = pages'[r'.head[1][1]].open =>
            r'.cut \/ r'.got[k].page < r'.head[1][1]
    BY <1>1, <1>2 DEF HeadFound
  <2> QED
    BY <1>2, <1>3, <1>4, <2>1, <2>2, <2>3 DEF KnownInv
<1>6. OneOpening'
  <2> SUFFICES ASSUME ~r'.torn
               PROVE  \E o \in Nat :
                        /\ \A k \in 1 .. Len(r'.got) : pages'[r'.got[k].page].open = o
                        /\ Headed' => pages'[r'.head[1][1]].open = o
                        /\ Reading' => (Storing' => o = opens') /\ OneOpen(r.n, o)'
    BY DEF OneOpening
  <2>1. PICK o \in Nat :
          /\ \A k \in 1 .. Len(r.got) : pages[r.got[k].page].open = o
          /\ pages[q].open = o /\ (Storing => o = opens) /\ OneOpen(r.n, o)
    BY <1>2 DEF OpenedWith
  <2>2. OneOpen(r.n, o)'
    BY <1>2, <2>1, Unmoved
  <2> QED
    BY <1>1, <1>2, <2>1, <2>2
<1>7. AtBody'
  BY <1>2 DEF AtBody, BodyNext
<1>8. SameOrder' /\ Intact'
  BY <1>1, <1>2 DEF SameOrder, Intact, ReaderInv
<1> QED
  BY <1>1, <1>5, <1>6, <1>7, <1>8 DEF ReaderInv

LEMMA MayRead ==
  ASSUME ReaderInv, r.at \in Placings, ~Overrun
  PROVE  IsPlaced(r) /\ (LastFile(r) \/ r.pos <= Size(r)) /\ tell(r) \in Nat /\ r.file_num \in Chunk
<1>1. IsPlaced(r) /\ r.file_num \in Chunk
  BY IsPlacedThen DEF ReaderInv
<1>2. r.pos \in Nat /\ Size(r) \in Nat /\ r.before[r.file_num] \in Nat
  <2>1. r.file_num \in 0 .. r.n
    BY <1>1, RepositoryAssumption DEF IsPlaced
  <2> QED
    BY <1>1, <2>1 DEF IsPlaced, ReaderRec, Size
<1> QED
  BY <1>1, <1>2 DEF Overrun, Placings, tell

\* A header on the disk: its page is stored, and those that come after are later ones.
LEMMA HeaderIs ==
  ASSUME WriterInv, PiecesKnown, HeadersInOrder, NewPage,
         NEW c \in Chunk, NEW i \in Nat \ {0}, i <= Len(disk[c]), disk[c][i][2] = 1
  PROVE  /\ i \in Places(c) /\ Text(c)[i] = disk[c][i]
         /\ Reported(disk[c][i][1]) /\ Ahead(disk[c][i][1], c, i + 1)
<1>1. i \in Places(c) /\ Text(c)[i] = disk[c][i]
  BY TextIs
<1>2. PICK q : q = disk[c][i][1] /\ q = Text(c)[i][1] /\ Text(c)[i][2] = 1 /\ Opening(Text(c)[i]) = pages[q].open
  BY <1>1 DEF Opening
<1>3. Reported(q)
  BY <1>1, <1>2 DEF Reported, PiecesKnown, NewPage
<1>4. Ahead(q, c, i + 1)
  <2> SUFFICES ASSUME NEW d \in Chunk, NEW j \in Places(d), From(c, i + 1, d, j), Text(d)[j][2] = 1,
                      Opening(Text(d)[j]) = pages[q].open
               PROVE  q < Text(d)[j][1]
    BY DEF Ahead
  <2>1. j \in Nat
    BY TextIs DEF Places
  <2>2. Later(c, i, d, j)
    BY <2>1 DEF From, Later
  <2>3. InSequence(c, i, d, j)
    BY <1>1 DEF HeadersInOrder
  <2> QED
    BY <1>2, <2>2, <2>3 DEF InSequence
<1> QED
  BY <1>1, <1>2, <1>3, <1>4

LEMMA ReadFixedKeeps ==
  ASSUME WriterInv, TextInv, ReaderInv, ReadFixed
  PROVE  ReaderInv'
<1>1. r.at \in Placings /\ writer_unchanged /\ r.at = "page" /\ ~Overrun
  BY DEF ReadFixed, Placings
<1>2. IsPlaced(r) /\ (LastFile(r) \/ r.pos <= Size(r)) /\ tell(r) \in Nat /\ r.file_num \in Chunk
  BY <1>1, MayRead
<1>3. PICK rd : rd = [r EXCEPT !.start = tell(r)]
  OBVIOUS
<1>4. /\ IsPlaced(rd) /\ rd.file_num = r.file_num /\ rd.pos = r.pos /\ rd.n = r.n /\ rd.before = r.before
      /\ rd.file_size = r.file_size /\ rd.start = tell(r) /\ rd.got = r.got /\ rd.torn = r.torn
      /\ rd.cut = r.cut
  <2>1. rd \in ReaderRec
    BY <1>2, <1>3 DEF IsPlaced, ReaderRec
  <2>2. /\ rd.file_num = r.file_num /\ rd.pos = r.pos /\ rd.n = r.n /\ rd.before = r.before
        /\ rd.file_size = r.file_size /\ rd.start = tell(r) /\ rd.got = r.got /\ rd.torn = r.torn
        /\ rd.cut = r.cut
    BY <1>2, <1>3 DEF IsPlaced, ReaderRec
  <2> QED
    BY <1>2, <2>1, <2>2 DEF IsPlaced, Placed
<1>5. PICK b : b = BFRead(rd, 2)
  OBVIOUS
<1>6. r' = IF b.ok /\ Sane(b.buf) THEN [b.rd EXCEPT !.at = "rest", !.head = b.buf] ELSE resync(b.rd)
  BY <1>3, <1>5 DEF ReadFixed
<1>7. LastFile(rd) \/ rd.pos <= Size(rd)
  BY <1>2, <1>4 DEF LastFile, Size
<1>8. PICK d \in 0 .. rd.n - 1, j \in Nat : Elsewhere(b.rd, rd, d, j) /\ From(rd.file_num, rd.pos, d, j)
  BY <1>4, <1>5, <1>7, ReadMoves
<1>9. /\ b.buf \in Seq(Piece)
      /\ \A k \in 1 .. Len(b.buf) :
           b.buf[k] = Junk \/ \E c \in 0 .. rd.n - 1, i \in Nat \ {0} : ReadFrom(rd, b, k, c, i)
  BY <1>4, <1>5, <1>7, ReadMoves
<1>10. PICK f \in 0 .. rd.n - 1, p \in Nat : f = r.file_num /\ p = r.pos /\ f \in Nat
  BY <1>4, <1>2, RepositoryAssumption DEF IsPlaced, ReaderRec
<1>11. \A k \in 1 .. Len(r.got) : Ahead(r.got[k].page, f, p + 1)
  BY <1>1, <1>10 DEF ReaderInv, KnownInv
<1>12. /\ IsPlaced(b.rd) /\ SameChunks(b.rd) /\ b.rd.got = r.got /\ b.rd.n = rd.n
       /\ b.rd.before = rd.before /\ b.rd.start = rd.start /\ b.rd.file_num = d /\ b.rd.pos = j
  BY <1>4, <1>8 DEF Elsewhere, SameChunks
<1>13. CASE ~(b.ok /\ Sane(b.buf))
  <2>1. r' = resync(b.rd)
    BY <1>6, <1>13
  <2>2. b.rd.before[f] + (p + 1) <= b.rd.start + 1
    <3>1. rd.before[f] \in Nat /\ rd.start = rd.before[f] + p
      BY <1>4, <1>10 DEF tell, IsPlaced
    <3> QED
      BY <1>12, <3>1
  <2>3. f \in 0 .. b.rd.n - 1 /\ p + 1 \in Nat
    BY <1>12
  <2> QED
    BY <1>1, <1>11, <1>12, <2>1, <2>2, <2>3, Resyncs
<1>14. CASE b.ok /\ Sane(b.buf)
  <2>1. Len(b.buf) = 2 /\ b.buf[1][2] = 1
    BY <1>14 DEF Sane
  <2>2. PICK c \in 0 .. rd.n - 1, i \in Nat \ {0} : ReadFrom(rd, b, 1, c, i)
    BY <1>9, <2>1 DEF Junk
  <2>3. c \in Chunk /\ c \in Nat /\ i <= Len(disk[c]) /\ b.buf[1] = disk[c][i] /\ disk[c][i][2] = 1
    BY <1>4, <2>1, <2>2, RepositoryAssumption DEF ReadFrom, IsPlaced, Chunk
  <2>4. PICK q : q = disk[c][i][1] /\ q = b.buf[1][1]
    BY <2>3
  <2>5. i \in Places(c) /\ Text(c)[i] = disk[c][i] /\ Reported(q) /\ Ahead(q, c, i + 1)
    BY <2>3, <2>4, HeaderIs DEF TextInv
  <2>6. PICK rd2 : rd2 = r' /\ rd2 = [b.rd EXCEPT !.at = "rest", !.head = b.buf]
    BY <1>6, <1>14
  <2>7. Renamed(rd2, b.rd, "rest", b.buf)
    <3>1. "rest" \in ReaderPlace
      BY DEF ReaderPlace
    <3>2. Renamed([b.rd EXCEPT !.at = "rest", !.head = b.buf], b.rd, "rest", b.buf)
      BY <1>9, <1>12, <3>1, RenamedIs, Zenon
    <3> QED
      BY <2>6, <3>2
  <2>8. /\ IsPlaced(rd2) /\ SameChunks(rd2) /\ rd2.at = "rest" /\ rd2.got = r.got
        /\ Len(rd2.head) = 2 /\ rd2.head[1][1] = q /\ rd2.n = rd.n
        /\ rd2.before = rd.before /\ rd2.start = rd.start /\ rd2.file_num = d /\ rd2.pos = j
    BY <1>12, <2>1, <2>4, <2>7 DEF Renamed, SameChunks
  <2>9. \A k \in 1 .. Len(r.got) : Ahead(r.got[k].page, c, i)
    <3>1. From(f, p + 1, c, i) /\ p + 1 \in Nat /\ i \in Nat
      BY <1>4, <1>10, <2>2 DEF ReadFrom
    <3> QED
      BY <1>10, <1>11, <2>3, <3>1, Farther
  <2>10. HeadFound(rd2, q, c, i)
    <3>1. rd2.before[c] + i = rd2.start + 1
      BY <1>4, <2>2, <2>8 DEF ReadFrom, tell
    <3>2. From(c, i, rd2.file_num, rd2.pos)
      BY <1>12, <2>2, <2>8 DEF ReadFrom
    <3>3. ASSUME NEW k \in 1 .. Len(r.got), pages[r.got[k].page].open = pages[q].open
          PROVE  r.cut \/ r.got[k].page < q
      <4>1. Ahead(r.got[k].page, c, i)
        BY <2>9
      <4>2. From(c, i, c, i)
        BY DEF From
      <4>3. Opening(Text(c)[i]) = pages[r.got[k].page].open
        BY <2>4, <2>5, <3>3 DEF Opening
      <4> QED
        BY <2>3, <2>4, <2>5, <4>1, <4>2, <4>3 DEF Ahead
    <3> QED
      BY <2>5, <2>9, <3>1, <3>2, <3>3 DEF HeadFound
  <2>11. OpenedWith(q)
    <3> SUFFICES ASSUME ~r.torn
                 PROVE  \E o \in Nat : /\ \A k \in 1 .. Len(r.got) : pages[r.got[k].page].open = o
                                       /\ pages[q].open = o /\ (Storing => o = opens) /\ OneOpen(r.n, o)
      BY DEF OpenedWith
    <3>1. PICK o \in Nat : /\ \A k \in 1 .. Len(r.got) : pages[r.got[k].page].open = o
                           /\ (Storing => o = opens) /\ OneOpen(r.n, o)
      BY <1>1, IsPlacedThen DEF ReaderInv, OneOpening
    <3>2. c < r.n
      BY <1>4, <2>3, RepositoryAssumption DEF IsPlaced
    <3>3. Opening(Text(c)[i]) = o
      BY <2>3, <2>5, <3>1, <3>2 DEF OneOpen
    <3> QED
      BY <2>4, <2>5, <3>1, <3>3 DEF Opening
  <2>12. c \in 0 .. rd2.n - 1 /\ rd2.at \in {"rest", "body"} /\ rd2.at # "body"
    BY <2>8
  <2> QED
    BY <1>1, <2>5, <2>6, <2>8, <2>10, <2>11, <2>12, HasHeader
<1> QED
  BY <1>13, <1>14

\* A header that is valid ends with the rest of that of its page.
LEMMA ValidIs ==
  ASSUME NEW head \in Seq(Piece), Len(head) = 2, NEW s \in Seq(Piece), Len(s) <= 1, Valid(head \o s),
         NEW q \in Nat, head[1][1] = q, NEW n \in Nat, pages[q].size = n
  PROVE  Len(s) = 1 /\ s[1] = <<q, 3>>
<1>1. /\ Len(s) \in Nat /\ Len(head \o s) = 2 + Len(s) /\ (head \o s)[1] = head[1]
      /\ \A i \in 1 .. Len(s) : (head \o s)[2 + i] = s[i]
  <2>1. /\ Len(s) \in Nat /\ Len(head \o s) = Len(head) + Len(s)
        /\ \A i \in 1 .. Len(head) : (head \o s)[i] = head[i]
        /\ \A i \in 1 .. Len(s) : (head \o s)[Len(head) + i] = s[i]
    BY PiecesJoined
  <2>2. 1 \in 1 .. 2
    OBVIOUS
  <2> QED
    BY <2>1, <2>2
<1>2. (head \o s) = SubSeq(Record(q), 1, 3)
  BY <1>1 DEF Valid
<1>3. PICK t \in Seq(Piece) : t = Record(q) /\ Len(t) = 3 + n /\ \A i \in 1 .. 3 + n : t[i] = <<q, i>>
  BY RecordIs
<1>4. Len(SubSeq(t, 1, 3)) = 3 /\ \A i \in 1 .. 3 : SubSeq(t, 1, 3)[i] = t[i]
  <2>1. 3 \in Nat /\ 3 <= Len(t)
    BY <1>3
  <2> QED
    BY <2>1, Beginning
<1>5. Len(s) = 1
  <2>1. Len(head \o s) = 3
    BY <1>2, <1>3, <1>4
  <2>2. PICK l \in Nat : l = Len(s) /\ 2 + l = 3
    BY <1>1, <2>1
  <2> QED
    BY <2>2
<1>6. (head \o s)[3] = s[1] /\ (head \o s)[3] = t[3] /\ t[3] = <<q, 3>>
  <2>1. 1 \in 1 .. Len(s) /\ 2 + 1 = 3
    BY <1>5
  <2>2. (head \o s)[3] = s[1]
    BY <1>1, <2>1
  <2> QED
    BY <1>2, <1>3, <1>4, <2>2
<1> QED
  BY <1>5, <1>6

\* Where one piece is read, the reader is then.
LEMMA OnePieceRead ==
  ASSUME WriterInv, IsPlaced(r), LastFile(r) \/ r.pos <= Size(r), NEW b, b = BFRead(r, 1),
         Len(b.buf) = 1, b.buf[1] # Junk
  PROVE  b.rd.pos \in 1 .. Len(disk[b.rd.file_num]) /\ disk[b.rd.file_num][b.rd.pos] = b.buf[1]
<1>1. r \in ReaderRec /\ r.pos \in Nat /\ r.file_num \in Chunk /\ r.file_num \in Nat
  BY RepositoryAssumption DEF IsPlaced, ReaderRec, Chunk
<1>2. CASE ReadHere(r, 1, b)
  <2>1. PICK m \in 0 .. 1 :
          /\ b.rd = [r EXCEPT !.pos = r.pos + m] /\ b.buf \in Seq(Piece) /\ Len(b.buf) = m
          /\ \A k \in 1 .. m : /\ r.pos + k <= Len(disk[r.file_num])
                               /\ b.buf[k] = disk[r.file_num][r.pos + k]
    BY <1>2 DEF ReadHere
  <2>2. b.rd.pos = r.pos + 1 /\ b.rd.file_num = r.file_num
    BY <1>1, <2>1 DEF ReaderRec
  <2>3. r.pos + 1 <= Len(disk[r.file_num]) /\ b.buf[1] = disk[r.file_num][r.pos + 1]
    BY <2>1
  <2>4. Len(disk[r.file_num]) \in Nat
    BY <1>1, TextIs
  <2> QED
    BY <1>1, <2>2, <2>3, <2>4
<1>3. CASE ReadOn(r, 1, b)
  <2>1. PICK h \in Nat, left \in Nat, m \in Nat : ReadOver(r, 1, b, h, left, m)
    BY <1>3 DEF ReadOn
  <2>2. left = 0 /\ m = 1
    BY <2>1 DEF ReadOver
  <2>3. b.rd.pos = 1 /\ b.rd.file_num = r.file_num + 1
    BY <1>1, <2>1, <2>2 DEF ReadOver, ReaderRec
  <2>4. 1 <= Len(disk[r.file_num + 1]) /\ b.buf[0 + 1] = disk[r.file_num + 1][1]
    BY <2>1, <2>2 DEF ReadOver
  <2>5. r.file_num + 1 \in Chunk
    <3>1. r.file_num # r.n - 1
      BY <2>1 DEF ReadOver, LastFile
    <3>2. r.n \in Nat /\ r.n <= 2 * MaxPages + 1 /\ r.file_num <= r.n - 1
      BY <1>1, RepositoryAssumption DEF IsPlaced
    <3>3. r.file_num + 1 <= 2 * MaxPages /\ 2 * MaxPages \in Nat
      BY <1>1, <3>1, <3>2, RepositoryAssumption
    <3> QED
      BY <1>1, <3>3 DEF Chunk
  <2>6. Len(disk[r.file_num + 1]) \in Nat
    BY <2>5, TextIs
  <2> QED
    BY <2>3, <2>4, <2>6
<1> QED
  BY <1>2, <1>3, ReadIs

\* A reader that has a header gives it up, and looks on behind its beginning.
LEMMA GivesUp ==
  ASSUME WriterInv, ReaderInv, writer_unchanged, r.at \in {"rest", "body"},
         NEW rd, NEW d \in 0 .. r.n - 1, NEW j \in Nat, Elsewhere(rd, r, d, j), r' = resync(rd)
  PROVE  ReaderInv'
<1>1. r.at \in Placings /\ Headed
  BY DEF Placings, Headed
<1>2. PICK c \in 0 .. r.n - 1, i \in Nat \ {0} : HeadAt(c, i)
  BY <1>1 DEF ReaderInv, KnownInv
<1>3. /\ IsPlaced(rd) /\ SameChunks(rd) /\ rd.got = r.got /\ c \in 0 .. rd.n - 1
      /\ rd.before[c] + i = rd.start + 1
  BY <1>2 DEF Elsewhere, SameChunks, HeadAt
<1>4. rd.before[c] + i <= rd.start + 1
  <2>1. rd.start \in Nat
    BY <1>3 DEF IsPlaced, ReaderRec
  <2>2. rd.start + 1 \in Nat
    BY <2>1
  <2> QED
    BY <1>3, <2>2
<1>5. \A k \in 1 .. Len(r.got) : Ahead(r.got[k].page, c, i)
  BY <1>2 DEF HeadAt
<1> QED
  BY <1>1, <1>3, <1>4, <1>5, Resyncs

LEMMA ReadRestKeeps ==
  ASSUME WriterInv, TextInv, ReaderInv, ReadRest
  PROVE  ReaderInv'
<1>1. r.at \in Placings /\ writer_unchanged /\ r.at = "rest" /\ ~Overrun /\ Headed
  BY DEF ReadRest, Placings, Headed
<1>2. IsPlaced(r) /\ (LastFile(r) \/ r.pos <= Size(r)) /\ r.file_num \in Chunk /\ r.head \in Seq(Piece)
  BY <1>1, MayRead DEF IsPlaced, ReaderRec
<1>3. PICK b : b = BFRead(r, 1)
  OBVIOUS
<1>4. r' = IF b.ok /\ Valid(r.head \o b.buf) THEN [b.rd EXCEPT !.at = "body"] ELSE resync(b.rd)
  BY <1>3 DEF ReadRest
<1>5. PICK d \in 0 .. r.n - 1, j \in Nat : Elsewhere(b.rd, r, d, j) /\ From(r.file_num, r.pos, d, j)
  BY <1>2, <1>3, ReadMoves
<1>6. b.buf \in Seq(Piece) /\ Len(b.buf) <= 1
  BY <1>2, <1>3, ReadMoves
<1>7. CASE ~(b.ok /\ Valid(r.head \o b.buf))
  <2>1. r' = resync(b.rd)
    BY <1>4, <1>7
  <2> QED
    BY <1>1, <1>5, <2>1, GivesUp
<1>8. CASE b.ok /\ Valid(r.head \o b.buf)
  <2>1. PICK q : q = r.head[1][1] /\ Reported(q) /\ Len(r.head) = 2
    BY <1>1 DEF ReaderInv, KnownInv
  <2>2. q \in Nat /\ pages[q].size \in Nat
    BY <2>1, PagesKept, <1>1 DEF Reported, KeepsPages
  <2>3. Len(b.buf) = 1 /\ b.buf[1] = <<q, 3>>
    BY <1>2, <1>6, <1>8, <2>1, <2>2, ValidIs
  <2>4. BodyNext(b.rd, q)
    <3>1. b.buf[1] # Junk
      BY <2>2, <2>3 DEF Junk
    <3> QED
      BY <1>2, <1>3, <2>3, <3>1, OnePieceRead DEF BodyNext
  <2>5. PICK rd2 : rd2 = r' /\ rd2 = [b.rd EXCEPT !.at = "body", !.head = r.head]
    <3>1. b.rd \in ReaderRec /\ b.rd.head = r.head
      BY <1>5 DEF Elsewhere, IsPlaced
    <3> QED
      BY <1>4, <1>8, <3>1 DEF ReaderRec
  <2>6. Renamed(rd2, b.rd, "body", r.head)
    <3>1. "body" \in ReaderPlace /\ IsPlaced(b.rd)
      BY <1>5 DEF ReaderPlace, Elsewhere
    <3>2. Renamed([b.rd EXCEPT !.at = "body", !.head = r.head], b.rd, "body", r.head)
      BY <1>2, <3>1, RenamedIs, Zenon
    <3> QED
      BY <2>5, <3>2
  <2>7. /\ IsPlaced(rd2) /\ SameChunks(rd2) /\ rd2.at = "body" /\ rd2.got = r.got
        /\ Len(rd2.head) = 2 /\ rd2.head[1][1] = q /\ rd2.n = r.n /\ rd2.before = r.before
        /\ rd2.start = r.start /\ rd2.file_num = d /\ rd2.pos = j /\ BodyNext(rd2, q)
    BY <1>5, <2>1, <2>4, <2>6 DEF Renamed, Elsewhere, SameChunks, BodyNext
  <2>8. PICK c \in 0 .. r.n - 1, i \in Nat \ {0} : HeadAt(c, i)
    BY <1>1 DEF ReaderInv, KnownInv
  <2>9. HeadFound(rd2, q, c, i)
    <3>1. c \in Int /\ d \in Int /\ r.file_num \in Int /\ r.pos \in Int /\ i \in Int /\ j \in Int
      BY <1>2, RepositoryAssumption DEF IsPlaced, ReaderRec
    <3>2. From(c, i, rd2.file_num, rd2.pos)
      BY <1>5, <2>7, <2>8, <3>1 DEF HeadAt, From
    <3>3. \A k \in 1 .. Len(r.got) :
            pages[r.got[k].page].open = pages[q].open => r.cut \/ r.got[k].page < q
      BY <1>1, <2>1 DEF ReaderInv, KnownInv
    <3> QED
      BY <2>1, <2>7, <2>8, <3>2, <3>3 DEF HeadAt, HeadFound
  <2>10. OpenedWith(q)
    BY <1>1, <2>1, IsPlacedThen DEF OpenedWith, ReaderInv, OneOpening
  <2>11. c \in 0 .. rd2.n - 1
    BY <2>7
  <2> QED
    BY <1>1, <2>1, <2>5, <2>7, <2>9, <2>10, <2>11, HasHeader
<1> QED
  BY <1>7, <1>8

\* The text of a chunk that the reader may read, when it is not torn.
LEMMA ChunkSound ==
  ASSUME WriterInv, TextInv, ReaderInv, Reading, ~r.torn
  PROVE  Splits(r.n)
<1>1. CASE ~Storing
  BY <1>1 DEF ReaderInv, Follows
<1>2. CASE Storing
  <2>1. Within(r.n) /\ r.n \in Nat
    BY <1>2, RepositoryAssumption DEF ReaderInv, Follows, ReaderPlaced
  <2> QED
    BY <1>2, <2>1, StoringSound DEF TextInv
<1> QED
  BY <1>1, <1>2

\* What is read after the header of a page that was written whole is its body.
LEMMA WholeRead ==
  ASSUME WriterInv, TextInv, ReaderInv, r.at = "body", ~Overrun, ~r.torn,
         NEW q \in 1 .. P, q = r.head[1][1], pages[q].whole, NEW n \in Nat, n = pages[q].size,
         NEW b, b = BFRead(r, n), b.ok, Len(b.buf) >= n
  PROVE  b.buf = Body(q)
<1>1. r.at \in Placings /\ Reading
  BY DEF Placings, Reading
<1>2. IsPlaced(r) /\ (LastFile(r) \/ r.pos <= Size(r)) /\ r.file_num \in Chunk
  BY <1>1, MayRead
<1>3. PICK f \in Chunk : f = r.file_num /\ f \in Nat /\ f < r.n /\ r.n \in Nat
  BY <1>2, RepositoryAssumption DEF IsPlaced, Chunk
<1>4. PICK p \in Nat \ {0} : p = r.pos /\ p \in 1 .. Len(disk[f]) /\ disk[f][p] = <<q, 3>>
  <2>1. r.pos \in 1 .. Len(disk[f]) /\ disk[f][r.pos] = <<q, 3>>
    BY <1>3 DEF ReaderInv, AtBody
  <2>2. PICK l \in Nat : l = Len(disk[f])
    BY TextIs
  <2>3. r.pos \in Nat \ {0}
    BY <2>1, <2>2
  <2> QED
    BY <2>1, <2>3
<1>5. p \in Places(f) /\ Text(f)[p] = <<q, 3>>
  BY <1>4, TextIs
<1>6. Split(q, f, p, r.n)
  BY <1>1, <1>3, <1>5, ChunkSound DEF Splits, HeaderOf
<1>7. b.buf \in Seq(Piece) /\ Len(b.buf) = n
  <2>1. b.buf \in Seq(Piece) /\ Len(b.buf) \in Nat /\ Len(b.buf) <= n
    BY <1>2, ReadMoves
  <2>2. PICK l \in Nat : l = Len(b.buf)
    BY <2>1, Zenon
  <2>3. l <= n /\ l >= n
    BY <2>1, <2>2, Zenon
  <2>4. l = n
    BY <2>3
  <2> QED
    BY <2>1, <2>2, <2>4, Zenon
<1>8. \A k \in 1 .. n : b.buf[k] = <<q, 3 + k>>
  <2>1. CASE ReadHere(r, n, b)
    <3>1. \A k \in 1 .. n : p + k <= Len(disk[f]) /\ b.buf[k] = disk[f][p + k]
      <4>1. PICK m \in 0 .. n :
              /\ Len(b.buf) = m
              /\ \A k \in 1 .. m : /\ r.pos + k <= Len(disk[r.file_num])
                                  /\ b.buf[k] = disk[r.file_num][r.pos + k]
        BY <2>1 DEF ReadHere
      <4>2. m = n
        BY <1>7, <4>1
      <4> QED
        BY <1>3, <1>4, <4>1, <4>2
    <3>2. PICK l \in Nat, e \in Nat : l = Len(disk[f]) /\ e = Len(Text(f)) /\ l <= e
      BY TextIs
    <3>3. ASSUME NEW k \in 1 .. n
          PROVE  p + k <= Len(Text(f)) /\ Text(f)[p + k] = disk[f][p + k]
      <4>1. p + k \in 1 .. l /\ p + k <= e
        <5>1. p + k <= l
          BY <3>1, <3>2
        <5> QED
          BY <3>2, <5>1
      <4>2. \A i \in 1 .. l : Text(f)[i] = disk[f][i]
        BY <3>2, TextIs
      <4> QED
        BY <3>2, <4>1, <4>2
    <3>4. \A k \in 1 .. n : Text(f)[p + k] = <<q, 3 + k>>
      BY <1>6, <3>3 DEF Split, BodyAt
    <3> QED
      BY <3>1, <3>3, <3>4
  <2>2. CASE ReadOn(r, n, b)
    <3>1. PICK h \in Nat, left \in Nat, m \in Nat : ReadOver(r, n, b, h, left, m)
      BY <2>2 DEF ReadOn
    <3>2. m > 0 /\ left < n /\ left + m = n /\ f # r.n - 1 /\ p + left = r.file_size[f]
      BY <1>3, <1>4, <1>7, <3>1 DEF ReadOver, LastFile, Size
    <3>3. f + 1 \in Chunk /\ f + 1 < r.n /\ f < r.n - 1
      <4>1. r.n <= 2 * MaxPages + 1 /\ 2 * MaxPages \in Nat
        BY <1>2, RepositoryAssumption DEF IsPlaced
      <4>2. f + 1 < r.n
        BY <1>3, <3>2
      <4>3. f + 1 <= 2 * MaxPages
        BY <1>3, <4>1, <4>2
      <4> QED
        BY <1>3, <4>1, <4>2, <4>3 DEF Chunk
    <3>4. Text(f) = disk[f] /\ r.file_size[f] = Len(disk[f])
      <4>1. f \in 0 .. Statted - 1
        BY <1>1, <1>3, <3>3 DEF Statted
      <4>2. r.file_size[f] = Len(disk[f]) /\ (Storing => f < w.last)
        BY <1>1, <3>3, <4>1 DEF ReaderInv, Follows
      <4>3. Storing => w.last \in Int
        BY Room
      <4> QED
        BY <1>3, <4>2, <4>3, TextIs
    <3>5. PICK g \in Chunk : g = f + 1 /\ g \in Nat
      BY <1>3, <3>3
    <3>6. \A k \in 1 .. m : k <= Len(disk[g]) /\ b.buf[left + k] = disk[g][k]
      BY <1>3, <3>1, <3>5 DEF ReadOver
    <3>7. ASSUME NEW k \in 1 .. m
          PROVE  k <= Len(Text(g)) /\ b.buf[left + k] = Text(g)[k]
      <4>1. PICK l \in Nat, e \in Nat : l = Len(disk[g]) /\ e = Len(Text(g)) /\ l <= e
        BY TextIs
      <4>2. k \in 1 .. l /\ k <= e
        <5>1. k <= l
          BY <3>6, <4>1
        <5> QED
          BY <4>1, <5>1
      <4>3. \A i \in 1 .. l : Text(g)[i] = disk[g][i]
        BY <4>1, TextIs
      <4> QED
        BY <3>6, <4>1, <4>2, <4>3
    <3>8. Text(g) # << >>
      <4>1. 1 \in 1 .. m
        BY <3>2
      <4>2. 1 <= Len(Text(g))
        BY <3>7, <4>1
      <4> QED
        BY <4>2
    <3>9. p = Len(Text(f)) /\ BodyAt(q, Text(g), 0)
      <4>1. p + n > Len(Text(f))
        BY <3>2, <3>4
      <4> QED
        BY <1>6, <3>3, <3>5, <3>8, <4>1 DEF Split
    <3>10. left = 0 /\ m = n
      BY <3>2, <3>4, <3>9
    <3>11. ASSUME NEW k \in 1 .. n
           PROVE  b.buf[k] = <<q, 3 + k>>
      <4>1. 0 + k = k /\ k \in 1 .. m /\ left + k = k
        BY <3>10
      <4>2. k <= Len(Text(g)) /\ b.buf[k] = Text(g)[k]
        BY <3>7, <4>1
      <4>3. Text(g)[0 + k] = <<q, 3 + k>>
        BY <3>9, <4>1, <4>2 DEF BodyAt
      <4> QED
        BY <4>1, <4>2, <4>3
    <3> QED
      BY <3>11
  <2> QED
    BY <1>2, <2>1, <2>2, ReadIs
<1>9. PICK t \in Seq(Piece) : t = Body(q) /\ Len(t) = n /\ \A i \in 1 .. n : t[i] = <<q, 3 + i>>
  <2>1. q \in Nat
    OBVIOUS
  <2> QED
    BY <2>1, BodyIs
<1>10. PICK s \in Seq(Piece) : s = b.buf /\ Len(s) = n /\ \A i \in 1 .. n : s[i] = <<q, 3 + i>>
  BY <1>7, <1>8
<1>11. Len(s) = Len(t) /\ \A i \in 1 .. Len(s) : s[i] = t[i]
  BY <1>9, <1>10
<1>12. s = t
  BY <1>11, SameSeq
<1> QED
  BY <1>9, <1>10, <1>12

\* One more page has been returned.
Longer(got2, got, q, ok) ==
  /\ got2 \in Seq(Got) /\ Len(got) \in Nat /\ Len(got2) = Len(got) + 1
  /\ \A k \in 1 .. Len(got) : got2[k] = got[k]
  /\ got2[Len(got) + 1] = [page |-> q, intact |-> ok]
  /\ \A k \in 1 .. Len(got2) : k \in 1 .. Len(got) \/ k = Len(got) + 1

LEMMA LongerIs ==
  ASSUME NEW got \in Seq(Got), NEW q \in Nat, NEW ok \in BOOLEAN
  PROVE  Longer(Append(got, [page |-> q, intact |-> ok]), got, q, ok)
<1>1. PICK e \in Got : e = [page |-> q, intact |-> ok]
  BY DEF Got
<1>2. PICK n \in Nat : n = Len(got)
  OBVIOUS
<1>3. /\ Append(got, e) \in Seq(Got) /\ Len(Append(got, e)) = n + 1
      /\ \A k \in 1 .. n : Append(got, e)[k] = got[k]
      /\ Append(got, e)[n + 1] = e
  BY <1>2
<1>4. \A k \in 1 .. n + 1 : k \in 1 .. n \/ k = n + 1
  OBVIOUS
<1> QED
  BY <1>1, <1>2, <1>3, <1>4 DEF Longer

Returned(rd2, rd, got2) ==
  /\ IsPlaced(rd2) /\ rd2.at = "page" /\ rd2.got = got2
  /\ rd2.n = rd.n /\ rd2.file_size = rd.file_size /\ rd2.before = rd.before
  /\ rd2.file_num = rd.file_num /\ rd2.pos = rd.pos /\ rd2.torn = rd.torn
  /\ rd2.cut = rd.cut

LEMMA ReturnedIs ==
  ASSUME NEW rd, IsPlaced(rd), NEW got2 \in Seq(Got)
  PROVE  Returned([rd EXCEPT !.at = "page", !.head = << >>, !.got = got2], rd, got2)
<1> DEFINE rd2 == [rd EXCEPT !.at = "page", !.head = << >>, !.got = got2]
<1>1. rd \in ReaderRec /\ "page" \in ReaderPlace /\ << >> \in Seq(Piece)
  BY DEF IsPlaced, ReaderPlace
<1>2. rd2 \in ReaderRec
  BY <1>1 DEF ReaderRec
<1>3. /\ rd2.at = "page" /\ rd2.got = got2
      /\ rd2.n = rd.n /\ rd2.file_size = rd.file_size /\ rd2.before = rd.before
      /\ rd2.file_num = rd.file_num /\ rd2.pos = rd.pos /\ rd2.torn = rd.torn
      /\ rd2.cut = rd.cut
  BY <1>1 DEF ReaderRec
<1> HIDE DEF rd2
<1>4. Returned(rd2, rd, got2)
  BY <1>2, <1>3 DEF IsPlaced, Placed, Returned
<1> QED
  BY <1>4 DEF rd2

LEMMA Returns ==
  ASSUME WriterInv, ReaderInv, writer_unchanged, r.at = "body",
         NEW rd, NEW d \in 0 .. r.n - 1, NEW j \in Nat, Elsewhere(rd, r, d, j), From(r.file_num, r.pos, d, j),
         NEW q \in Nat, q = r.head[1][1], NEW ok \in BOOLEAN, NEW got, Longer(got, r.got, q, ok),
         compressed => ok, ~r.torn /\ pages[q].whole => ok,
         r' = [rd EXCEPT !.at = "page", !.head = << >>, !.got = got]
  PROVE  ReaderInv'
<1>1. r.at \in Placings /\ Headed /\ Reading
  BY DEF Placings, Headed, Reading
<1>2. PICK rd2 : rd2 = r' /\ rd2 = [rd EXCEPT !.at = "page", !.head = << >>, !.got = got]
  OBVIOUS
<1>3. Returned(rd2, rd, got)
  <2>1. IsPlaced(rd) /\ got \in Seq(Got)
    BY DEF Elsewhere, Longer
  <2>2. Returned([rd EXCEPT !.at = "page", !.head = << >>, !.got = got], rd, got)
    BY <2>1, ReturnedIs, Zenon
  <2> QED
    BY <1>2, <2>2
<1>4. /\ IsPlaced(rd2) /\ SameChunks(rd2) /\ rd2.at = "page" /\ rd2.got = got /\ rd2.file_num = d
      /\ rd2.pos = j /\ rd2.n = r.n /\ rd2.torn = r.torn /\ rd2.cut = r.cut
  BY <1>3 DEF Returned, Elsewhere, SameChunks
<1>5. /\ r' \in ReaderRec /\ Unopened' /\ ReaderPlaced' /\ Follows' /\ Reading'
      /\ (Storing <=> Storing') /\ pages' = pages /\ opens' = opens
  <2>1. rd2.at \in Placings
    BY <1>4 DEF Placings
  <2> QED
    BY <1>1, <1>2, <1>4, <2>1, StepsWithin
<1>6. PICK m \in Nat :
        /\ m = Len(r.got) /\ Len(r'.got) = m + 1
        /\ \A k \in 1 .. m : r'.got[k] = r.got[k]
        /\ r'.got[m + 1].page = q /\ (r'.got[m + 1].intact <=> ok)
        /\ \A k \in 1 .. m + 1 : k \in 1 .. m \/ k = m + 1
  <2>1. r'.got = got
    BY <1>2, <1>4
  <2>2. PICK m \in Nat : m = Len(r.got)
    BY DEF Longer
  <2>3. /\ Len(got) = m + 1 /\ \A k \in 1 .. m : got[k] = r.got[k]
        /\ \A k \in 1 .. m + 1 : k \in 1 .. m \/ k = m + 1
        /\ got[m + 1] = [page |-> q, intact |-> ok]
    BY <2>2 DEF Longer
  <2>4. got[m + 1].page = q /\ (got[m + 1].intact <=> ok)
    BY <2>3
  <2> QED
    BY <2>1, <2>2, <2>3, <2>4
<1>7. /\ ~Headed' /\ r'.at = "page" /\ r'.torn = r.torn /\ r'.n = r.n
      /\ r'.file_num = d /\ r'.pos = j /\ compressed' = compressed /\ r'.cut = r.cut
  BY <1>2, <1>4 DEF Headed, writer_unchanged
<1>8. /\ \A k \in 1 .. m : Reported(r.got[k].page)
      /\ Reported(q)
      /\ \A k \in 1 .. m : pages[r.got[k].page].open = pages[q].open => r.cut \/ r.got[k].page < q
  BY <1>1, <1>6 DEF ReaderInv, KnownInv
<1>9. PICK l \in Nat : l = j + 1
  OBVIOUS
<1>10. (\A k \in 1 .. m : Ahead(r.got[k].page, d, l)) /\ Ahead(q, d, l)
  <2>1. PICK c \in 0 .. r.n - 1, i \in Nat \ {0} : HeadAt(c, i)
    BY <1>1 DEF ReaderInv, KnownInv
  <2>2. c \in Nat /\ d \in Nat /\ i \in Nat /\ i + 1 \in Nat
    <3>1. PICK n \in Nat : n = r.n
      BY <1>4, RepositoryAssumption DEF IsPlaced
    <3> QED
      BY <3>1
  <2>3. From(c, i, d, l) /\ From(c, i + 1, d, l)
    <3>1. r.file_num \in Int /\ r.pos \in Int
      <4>1. IsPlaced(r)
        BY <1>1, IsPlacedThen DEF ReaderInv
      <4> QED
        BY <4>1, RepositoryAssumption DEF IsPlaced, ReaderRec
    <3>2. From(c, i, r.file_num, r.pos)
      BY <2>1 DEF HeadAt
    <3> QED
      BY <1>9, <2>2, <3>1, <3>2 DEF From
  <2>4. \A k \in 1 .. m : Ahead(r.got[k].page, c, i)
    BY <1>6, <2>1 DEF HeadAt
  <2>5. Ahead(q, c, i + 1)
    BY <2>1 DEF HeadAt
  <2> QED
    BY <1>9, <2>2, <2>3, <2>4, <2>5, Farther
<1>11. KnownInv'
  <2>1. ASSUME NEW k \in 1 .. m + 1
        PROVE  Reported(r.got[k].page)' /\ Ahead(r.got[k].page, d, l)'
    <3>1. PICK a : a = r'.got[k].page
      OBVIOUS
    <3>2. Reported(a) /\ Ahead(a, d, l)
      BY <1>6, <1>8, <1>10, <3>1
    <3>3. Reported(a)' /\ Ahead(a, d, l)'
      BY <1>7, <3>2, Unmoved
    <3> QED
      BY <3>1, <3>3
  <2>2. \A k \in 1 .. Len(r'.got) : Reported(r.got[k].page)' /\ Ahead(r.got[k].page, d, l)'
    BY <1>6, <2>1
  <2>3. r'.file_num = d /\ r'.pos + 1 = l
    BY <1>7, <1>9
  <2>4. \A k \in 1 .. Len(r'.got) : Ahead(r.got[k].page, r.file_num, r.pos + 1)'
    BY <2>2, <2>3
  <2> QED
    BY <1>7, <2>2, <2>4 DEF KnownInv
<1>12. OneOpening'
  <2> SUFFICES ASSUME ~r'.torn
               PROVE  \E o \in Nat :
                        /\ \A k \in 1 .. Len(r'.got) : pages'[r'.got[k].page].open = o
                        /\ Headed' => pages'[r'.head[1][1]].open = o
                        /\ Reading' => (Storing' => o = opens') /\ OneOpen(r.n, o)'
    BY DEF OneOpening
  <2>1. PICK o \in Nat :
          /\ \A k \in 1 .. Len(r.got) : pages[r.got[k].page].open = o
          /\ pages[q].open = o /\ (Storing => o = opens) /\ OneOpen(r.n, o)
    BY <1>1, <1>7 DEF ReaderInv, OneOpening
  <2>2. OneOpen(r.n, o)'
    BY <1>7, <2>1, Unmoved
  <2>3. \A k \in 1 .. m + 1 : pages[r'.got[k].page].open = o
    BY <1>6, <2>1
  <2> QED
    BY <1>5, <1>6, <1>7, <2>1, <2>2, <2>3
<1>13. AtBody'
  BY <1>7 DEF AtBody
<1>14. SameOrder'
  <2> SUFFICES ASSUME NEW a \in 1 .. Len(r'.got), NEW b \in 1 .. Len(r'.got), a < b,
                      pages'[r'.got[a].page].open = pages'[r'.got[b].page].open
               PROVE  r'.cut \/ r'.got[a].page < r'.got[b].page
    BY DEF SameOrder
  <2>1. a \in 1 .. m + 1 /\ b \in 1 .. m + 1 /\ pages[r'.got[a].page].open = pages[r'.got[b].page].open
    BY <1>5, <1>6
  <2>2. a \in 1 .. m
    BY <2>1
  <2>3. CASE b \in 1 .. m
    BY <1>6, <1>7, <2>1, <2>2, <2>3 DEF ReaderInv, SameOrder
  <2>4. CASE b = m + 1
    <3>1. r'.got[b].page = q /\ r'.got[a] = r.got[a]
      BY <1>6, <2>2, <2>4
    <3>2. pages[r.got[a].page].open = pages[q].open
      BY <2>1, <3>1
    <3>3. r.cut \/ r.got[a].page < q
      BY <1>8, <2>2, <3>2
    <3> QED
      BY <1>7, <3>1, <3>3
  <2> QED
    BY <1>6, <2>1, <2>3, <2>4
<1>15. Intact'
  <2> SUFFICES ASSUME compressed \/ ~r.torn, NEW k \in 1 .. m + 1, pages[r'.got[k].page].whole \/ compressed
               PROVE  r'.got[k].intact
    BY <1>5, <1>6, <1>7 DEF Intact
  <2>1. CASE k \in 1 .. m
    BY <1>6, <2>1 DEF ReaderInv, Intact
  <2>2. CASE k = m + 1
    BY <1>6, <2>2
  <2> QED
    BY <1>6, <2>1, <2>2
<1> QED
  BY <1>5, <1>11, <1>12, <1>13, <1>14, <1>15 DEF ReaderInv

LEMMA ReadBodyKeeps ==
  ASSUME WriterInv, TextInv, ReaderInv, ReadBody
  PROVE  ReaderInv'
<1>1. r.at \in Placings /\ writer_unchanged /\ r.at = "body" /\ ~Overrun /\ Headed
  BY DEF ReadBody, Placings, Headed
<1>2. IsPlaced(r) /\ (LastFile(r) \/ r.pos <= Size(r)) /\ r.got \in Seq(Got)
  BY <1>1, MayRead DEF IsPlaced, ReaderRec
<1>3. PICK q \in 1 .. P : q = r.head[1][1] /\ q \in Nat
  <2>1. r.head[1][1] \in 1 .. P
    BY <1>1 DEF ReaderInv, KnownInv, Reported
  <2> QED
    BY <2>1
<1>4. PICK n \in Nat : n = pages[q].size
  BY <1>1, <1>3, PagesKept DEF KeepsPages
<1>5. PICK b : b = BFRead(r, n)
  OBVIOUS
<1>6. PICK ok \in BOOLEAN : ok <=> b.buf = Body(q)
  OBVIOUS
<1>7. r' = IF ~b.ok \/ Len(b.buf) < n THEN Ended(b.rd)
           ELSE IF compressed /\ ~ok THEN resync(b.rd)
           ELSE [b.rd EXCEPT !.at = "page", !.head = << >>,
                             !.got = Append(@, [page |-> q, intact |-> ok])]
  BY <1>3, <1>4, <1>5, <1>6 DEF ReadBody
<1>8. PICK d \in 0 .. r.n - 1, j \in Nat : Elsewhere(b.rd, r, d, j) /\ From(r.file_num, r.pos, d, j)
  BY <1>2, <1>5, ReadMoves
<1>9. Len(b.buf) \in Nat
  BY <1>2, <1>5, ReadMoves
<1>10. CASE ~b.ok \/ Len(b.buf) < n
  <2>1. r' = Leaves(b.rd, "end")
    BY <1>7, <1>10 DEF Ended
  <2>2. /\ b.rd.n \in Nat /\ b.rd.got = r.got /\ b.rd.torn = r.torn /\ b.rd.sealed \in BOOLEAN
        /\ b.rd.cut \in BOOLEAN /\ b.rd.cut = r.cut
    BY <1>8 DEF Elsewhere, IsPlaced, ReaderRec
  <2> QED
    BY <1>1, <2>1, <2>2, EndsThen
<1>11. CASE ~(~b.ok \/ Len(b.buf) < n) /\ compressed /\ ~ok
  <2>1. r' = resync(b.rd)
    BY <1>7, <1>11
  <2> QED
    BY <1>1, <1>8, <2>1, GivesUp
<1>12. CASE ~(~b.ok \/ Len(b.buf) < n) /\ ~(compressed /\ ~ok)
  <2>1. PICK got : got = Append(r.got, [page |-> q, intact |-> ok])
    OBVIOUS
  <2>2. Longer(got, r.got, q, ok)
    BY <1>2, <1>3, <2>1, LongerIs
  <2>3. r' = [b.rd EXCEPT !.at = "page", !.head = << >>, !.got = got]
    BY <1>7, <1>8, <1>12, <2>1 DEF Elsewhere
  <2>4. ~r.torn /\ pages[q].whole => ok
    <3>1. b.ok /\ Len(b.buf) >= n
      BY <1>9, <1>12
    <3> QED
      BY <1>1, <1>3, <1>4, <1>5, <1>6, <3>1, WholeRead
  <2>5. compressed => ok
    BY <1>12
  <2> QED
    BY <1>1, <1>3, <1>8, <2>2, <2>3, <2>4, <2>5, Returns
<1> QED
  BY <1>10, <1>11, <1>12

\* It goes on from a place that is not before the one it was at.
LEMMA GoesOn ==
  ASSUME WriterInv, ReaderInv, writer_unchanged, r.at \in {"page", "resync"},
         NEW rd, NEW d \in 0 .. r.n - 1, NEW j \in Nat, Elsewhere(rd, r, d, j),
         From(r.file_num, r.pos, d, j),
         NEW at \in {"page", "resync"}, r' = [rd EXCEPT !.at = at]
  PROVE  ReaderInv'
<1>1. r.at \in Placings /\ at \in ReaderPlace
  BY DEF Placings, ReaderPlace
<1>2. IsPlaced(rd) /\ rd \in ReaderRec /\ rd.head \in Seq(Piece)
  BY DEF Elsewhere, IsPlaced, ReaderRec
<1>3. PICK rd2 : rd2 = r' /\ rd2 = [rd EXCEPT !.at = at, !.head = rd.head]
  <2>1. [rd EXCEPT !.at = at] = [rd EXCEPT !.at = at, !.head = rd.head]
    BY <1>2 DEF ReaderRec
  <2> QED
    BY <2>1
<1>4. Renamed(rd2, rd, at, rd.head)
  <2>1. Renamed([rd EXCEPT !.at = at, !.head = rd.head], rd, at, rd.head)
    BY <1>1, <1>2, RenamedIs, Zenon
  <2> QED
    BY <1>3, <2>1
<1>5. /\ IsPlaced(rd2) /\ SameChunks(rd2) /\ rd2.at \in {"page", "resync"} /\ rd2.got = r.got
      /\ rd2.file_num = d /\ rd2.pos = j
  BY <1>4 DEF Renamed, Elsewhere, SameChunks
<1>6. PICK f \in Nat, p \in Nat : f = r.file_num /\ p = r.pos
  <2>1. IsPlaced(r)
    BY <1>1, IsPlacedThen DEF ReaderInv
  <2> QED
    BY <2>1, RepositoryAssumption DEF IsPlaced, ReaderRec
<1>7. d \in Nat /\ j + 1 \in Nat /\ p + 1 \in Nat /\ From(f, p + 1, d, j + 1)
  <2>1. d \in Nat
    BY <1>5, RepositoryAssumption DEF IsPlaced
  <2> QED
    BY <1>6, <2>1 DEF From
<1>8. \A k \in 1 .. Len(r.got) : Ahead(r.got[k].page, f, p + 1)
  BY <1>6 DEF ReaderInv, KnownInv
<1>9. \A k \in 1 .. Len(r.got) : Ahead(r.got[k].page, d, j + 1)
  BY <1>6, <1>7, <1>8, Farther
<1> QED
  BY <1>1, <1>3, <1>5, <1>9, LooksOn

\* It goes to where a magic code was seen: not back, or its sync point was cut.
LEMMA SyncKeeps ==
  ASSUME WriterInv, ReaderInv, writer_unchanged, r.at = "resync", tell(r) \in Nat,
         NEW rd, NEW d \in 0 .. r.n - 1, NEW j \in Nat, Elsewhere(rd, r, d, j),
         NEW place \in Nat, tell(r) <= place, r' = SyncTo(rd, place)
  PROVE  ReaderInv'
<1>1. r.at \in Placings /\ IsPlaced(r) /\ IsPlaced(rd) /\ rd.n = r.n /\ rd.before = r.before
  <2>1. r.at \in Placings
    BY DEF Placings
  <2> QED
    BY <2>1, IsPlacedThen DEF Elsewhere, ReaderInv
<1>2. PICK to \in Int : to = ToInt(place)
  <2>1. ToInt(place) \in Int
    <3>1. PICK h \in Nat \ {0} : h = HalfRange
      BY RepositoryAssumption
    <3>2. PICK m \in Nat \ {0}, x \in Nat : m = 2 * h /\ x = place + h
      BY <3>1
    <3>3. x % m \in Int
      BY <3>2
    <3> QED
      BY <3>1, <3>2, <3>3 DEF ToInt
  <2> QED
    BY <2>1
<1>3. PICK rd2 : rd2 = [rd EXCEPT !.cut = @ \/ to # place]
  OBVIOUS
<1>4. /\ IsPlaced(rd2) /\ SameChunks(rd2) /\ rd2.got = r.got /\ rd2.n = r.n /\ rd2.before = r.before
      /\ rd2 \in ReaderRec /\ rd2.head = rd.head /\ (rd2.cut \/ to = place)
  <2>1. rd \in ReaderRec
    BY <1>1 DEF IsPlaced
  <2>2. rd2 \in ReaderRec
    BY <1>3, <2>1 DEF ReaderRec
  <2>3. /\ rd2.n = rd.n /\ rd2.file_size = rd.file_size /\ rd2.before = rd.before /\ rd2.got = rd.got
        /\ rd2.file_num = rd.file_num /\ rd2.torn = rd.torn /\ rd2.head = rd.head
        /\ (rd2.cut <=> rd.cut \/ to # place)
    BY <1>3, <2>1 DEF ReaderRec
  <2>4. Placed(rd2, rd2.n)
    BY <1>1, <2>3 DEF IsPlaced, Placed
  <2> QED
    BY <1>1, <2>2, <2>3, <2>4 DEF IsPlaced, SameChunks, Elsewhere
<1>5. CASE ~CanSeek(rd, to)
  <2>1. r' = Leaves(rd2, "end")
    BY <1>2, <1>3, <1>5 DEF SyncTo, Ended
  <2>2. /\ rd2.n \in Nat /\ rd2.sealed \in BOOLEAN /\ rd2.torn = r.torn
        /\ rd2.cut \in BOOLEAN /\ (r.cut => rd2.cut)
    BY <1>4 DEF ReaderRec, SameChunks
  <2> QED
    BY <1>4, <2>1, <2>2, EndsThen
<1>6. CASE CanSeek(rd, to)
  <2>1. CanSeek(rd2, to) /\ to \in Nat
    BY <1>1, <1>4, <1>6 DEF CanSeek
  <2>2. r' = [seek(rd2, to) EXCEPT !.at = "page"]
    BY <1>2, <1>3, <1>6 DEF SyncTo
  <2>3. PICK c \in 0 .. rd2.n - 1, p \in Nat :
          /\ seek(rd2, to) = [rd2 EXCEPT !.file_num = c, !.pos = p]
          /\ \A e \in 0 .. rd2.n - 1, k \in Nat : rd2.before[e] + k <= to => From(e, k, c, p)
    BY <1>4, <2>1, SeekIs
  <2>4. PICK sk : sk = [rd2 EXCEPT !.file_num = c, !.pos = p]
    OBVIOUS
  <2>5. Elsewhere(sk, rd2, c, p)
    BY <1>4, <2>4, MovedIs, Zenon
  <2>6. sk \in ReaderRec /\ sk.head \in Seq(Piece) /\ IsPlaced(sk) /\ "page" \in ReaderPlace
    BY <2>5 DEF Elsewhere, IsPlaced, ReaderRec, ReaderPlace
  <2>7. PICK rd3 : rd3 = r' /\ rd3 = [sk EXCEPT !.at = "page", !.head = sk.head]
    <3>1. [sk EXCEPT !.at = "page"] = [sk EXCEPT !.at = "page", !.head = sk.head]
      BY <2>6 DEF ReaderRec
    <3> QED
      BY <2>2, <2>3, <2>4, <3>1
  <2>8. Renamed(rd3, sk, "page", sk.head)
    <3>1. Renamed([sk EXCEPT !.at = "page", !.head = sk.head], sk, "page", sk.head)
      BY <2>6, RenamedIs, Zenon
    <3> QED
      BY <2>7, <3>1
  <2>9. /\ IsPlaced(rd3) /\ SameChunks(rd3) /\ rd3.at \in {"page", "resync"} /\ rd3.got = r.got
        /\ rd3.file_num = c /\ rd3.pos = p /\ rd3.cut = rd2.cut
    BY <1>4, <2>5, <2>8 DEF Renamed, Elsewhere, SameChunks
  <2>10. rd3.cut \/ \A k \in 1 .. Len(r.got) : Ahead(r.got[k].page, rd3.file_num, rd3.pos + 1)
    <3> SUFFICES ASSUME to = place
                 PROVE  \A k \in 1 .. Len(r.got) : Ahead(r.got[k].page, rd3.file_num, rd3.pos + 1)
      BY <1>4, <2>9
    <3>1. PICK f \in 0 .. r.n - 1, o \in Nat : f = r.file_num /\ o = r.pos /\ f \in Nat
      BY <1>1, RepositoryAssumption DEF IsPlaced, ReaderRec
    <3>2. From(f, o, c, p)
      <4>1. rd2.before[f] + o <= to
        BY <1>4, <3>1 DEF tell
      <4> QED
        BY <1>4, <2>3, <3>1, <4>1
    <3>3. c \in Nat /\ p + 1 \in Nat /\ o + 1 \in Nat /\ From(f, o + 1, c, p + 1)
      <4>1. c \in Nat
        BY <1>4, RepositoryAssumption DEF IsPlaced
      <4> QED
        BY <3>1, <3>2, <4>1 DEF From
    <3>4. \A k \in 1 .. Len(r.got) : Ahead(r.got[k].page, f, o + 1)
      BY <3>1 DEF ReaderInv, KnownInv
    <3>5. \A k \in 1 .. Len(r.got) : Ahead(r.got[k].page, c, p + 1)
      BY <3>1, <3>3, <3>4, Farther
    <3> QED
      BY <2>9, <3>5
  <2> QED
    BY <1>1, <2>7, <2>9, <2>10, LooksOn
<1> QED
  BY <1>5, <1>6

LEMMA SearchKeeps ==
  ASSUME WriterInv, ReaderInv, Search
  PROVE  ReaderInv'
<1>1. r.at \in Placings /\ writer_unchanged /\ r.at = "resync" /\ ~Overrun
  BY DEF Search, Placings
<1>2. IsPlaced(r) /\ (LastFile(r) \/ r.pos <= Size(r)) /\ tell(r) \in Nat
  BY <1>1, MayRead
<1>3. PICK n \in Nat : n = RESYNC_SEARCH_WINDOW
  BY RepositoryAssumption
<1>4. PICK b : b = BFRead(r, n)
  OBVIOUS
<1>5. PICK d \in 0 .. r.n - 1, j \in Nat : Elsewhere(b.rd, r, d, j) /\ From(r.file_num, r.pos, d, j)
  BY <1>2, <1>4, ReadMoves
<1>6. b.buf \in Seq(Piece) /\ Len(b.buf) \in Nat
  BY <1>2, <1>4, ReadMoves
<1>7. /\ b.rd.n \in Nat /\ b.rd.got = r.got /\ b.rd.torn = r.torn /\ b.rd.sealed \in BOOLEAN
      /\ b.rd.cut \in BOOLEAN /\ b.rd.cut = r.cut
      /\ b.rd \in ReaderRec /\ b.rd.at = r.at
  BY <1>5 DEF Elsewhere, IsPlaced, ReaderRec
<1>8. CASE r' = Ended(b.rd)
  <2>1. r' = Leaves(b.rd, "end")
    BY <1>8 DEF Ended
  <2> QED
    BY <1>1, <1>7, <2>1, EndsThen
<1>9. CASE r' = b.rd
  <2>1. r' = [b.rd EXCEPT !.at = "resync"]
    BY <1>1, <1>7, <1>9 DEF ReaderRec
  <2> QED
    BY <1>1, <1>5, <2>1, GoesOn
<1>10. CASE \E i \in Magic(b.buf) : r' = SyncTo(b.rd, tell(r) + i - 1)
  <2>1. PICK i \in Nat \ {0} : r' = SyncTo(b.rd, tell(r) + i - 1)
    <3>1. \A i \in Magic(b.buf) : i \in Nat \ {0}
      <4>1. \A i \in 1 .. Len(b.buf) - 1 : i \in Nat \ {0}
        BY <1>6
      <4> QED
        BY <4>1 DEF Magic
    <3> QED
      BY <1>10, <3>1
  <2>2. PICK place \in Nat : place = tell(r) + i - 1 /\ tell(r) <= place
    <3>1. tell(r) + i - 1 \in Nat /\ tell(r) <= tell(r) + i - 1
      BY <1>2
    <3> QED
      BY <3>1
  <2>3. r' = SyncTo(b.rd, place)
    BY <2>1, <2>2
  <2> QED
    BY <1>1, <1>2, <1>5, <2>2, <2>3, SyncKeeps
<1>11. \/ r' = Ended(b.rd) \/ r' = b.rd
       \/ \E i \in Magic(b.buf) : r' = SyncTo(b.rd, tell(r) + i - 1)
  BY <1>3, <1>4 DEF Search
<1> QED
  BY <1>8, <1>9, <1>10, <1>11

LEMMA ReaderFaultsKeeps ==
  ASSUME WriterInv, ReaderInv, ReaderFaults
  PROVE  ReaderInv'
<1>1. writer_unchanged /\ r' = Leaves(r, "gone") /\ r.n \in Nat /\ r.sealed \in BOOLEAN /\ r.cut \in BOOLEAN
  BY DEF ReaderFaults, ReaderInv, ReaderRec
<1> QED
  BY <1>1, EndsThen

\* A reader that has returned nothing yet.
LEMMA NothingYet ==
  ASSUME r' \in ReaderRec, r'.got = << >>, r'.at \in {"stat", "page", "gone"}, ReaderPlaced', Follows',
         NEW o \in Nat, Reading' /\ ~r'.torn => (Storing' => o = opens') /\ OneOpen(r.n, o)'
  PROVE  ReaderInv'
<1>1. ~Headed' /\ Len(r'.got) = 0 /\ 1 .. 0 = {}
  BY DEF Headed
<1>2. Unopened' /\ AtBody'
  BY DEF Unopened, AtBody
<1>3. KnownInv'
  BY <1>1 DEF KnownInv
<1>4. OneOpening'
  BY <1>1 DEF OneOpening
<1>5. SameOrder' /\ Intact'
  BY <1>1 DEF SameOrder, Intact
<1> QED
  BY <1>2, <1>3, <1>4, <1>5 DEF ReaderInv

LEMMA OpenListKeeps ==
  ASSUME WriterInv, TextInv, ListedSound, ReaderInv, OpenList
  PROVE  ReaderInv'
<1>1. /\ writer_unchanged /\ r.at = "none" /\ r \in ReaderRec /\ r.file_num = 0 /\ r.got = << >>
      /\ disk' = disk /\ w' = w /\ pages' = pages /\ opens' = opens
  BY DEF OpenList, ReaderInv, Unopened, writer_unchanged
<1>2. listed \in Nat /\ listed <= 2 * MaxPages + 1 /\ opens \in Nat
  <2>1. listed \in Nat /\ listed <= 2 * P + 1 /\ P \in Nat /\ P <= MaxPages /\ opens \in Nat
    BY DEF WriterInv, Bounds, StoreTypes, P
  <2> QED
    BY <2>1, RepositoryAssumption
<1>3. CASE listed = 0
  <2>1. r' = [r EXCEPT !.at = "gone"]
    BY <1>3 DEF OpenList
  <2>2. r' \in ReaderRec /\ r'.got = << >> /\ r'.at = "gone"
    BY <1>1, <2>1 DEF ReaderRec, ReaderPlace
  <2>3. ~Reading' /\ ReaderPlaced' /\ Follows'
    BY <2>2 DEF Reading, ReaderPlaced, Follows
  <2> QED
    BY <1>2, <2>2, <2>3, NothingYet
<1>4. CASE listed # 0
  <2>1. PICK n \in 1 .. 2 * MaxPages + 1 : n = listed /\ n \in Nat \ {0}
    BY <1>2, <1>4, RepositoryAssumption
  <2>2. PICK torn \in BOOLEAN : torn <=> Storing /\ w.last < 0
    OBVIOUS
  <2>3. PICK sizes \in [0 .. n - 1 -> Nat] : sizes = [i \in 0 .. listed - 1 |-> 0]
    BY <2>1
  <2>4. PICK before \in [0 .. n -> Nat] : before = [i \in 0 .. listed |-> 0]
    BY <2>1
  <2>5. sizes \in Sizes /\ before \in Sizes
    <3>1. n + 1 \in Nat /\ before \in [0 .. (n + 1) - 1 -> Nat]
      <4>1. (n + 1) - 1 = n
        BY <2>1
      <4> QED
        BY <2>1, <4>1
    <3> QED
      BY <2>1, <3>1 DEF Sizes
  <2>6. r' = [r EXCEPT !.at = "stat", !.n = n, !.torn = torn, !.file_size = sizes, !.before = before]
    <3>1. r' = [r EXCEPT !.at = "stat", !.n = listed, !.torn = w.at # "closed" /\ w.last < 0,
                         !.file_size = [i \in 0 .. listed - 1 |-> 0],
                         !.before = [i \in 0 .. listed |-> 0]]
      BY <1>4 DEF OpenList
    <3> QED
      BY <2>1, <2>2, <2>3, <2>4, <3>1 DEF Storing
  <2>7. /\ r' \in ReaderRec /\ r'.at = "stat" /\ r'.n = n /\ r'.torn = torn /\ r'.file_size = sizes
        /\ r'.before = before /\ r'.file_num = 0 /\ r'.got = << >>
    BY <1>1, <2>1, <2>5, <2>6 DEF ReaderRec, ReaderPlace
  <2>8. Statted' = 0 /\ Reading' /\ (Storing <=> Storing')
    BY <1>1, <2>7 DEF Statted, Reading, Storing
  <2>9. ReaderPlaced'
    <3>1. before[0] = 0
      BY <2>1, <2>4
    <3>2. 0 \in 0 .. n - 1 /\ 0 .. 0 - 1 = {} /\ 0 .. 0 = {0}
      BY <2>1
    <3>3. Placed(r', 0)
      BY <2>7, <3>1, <3>2 DEF Placed
    <3> QED
      BY <2>1, <2>7, <2>8, <3>2, <3>3 DEF ReaderPlaced, Placed
  <2>10. Storing /\ ~torn => ~AtFirst /\ Within(n)
    <3> SUFFICES ASSUME Storing, ~torn
                 PROVE  ~AtFirst /\ Within(n)
      OBVIOUS
    <3>1. ~AtFirst
      BY <2>2 DEF AtFirst
    <3>2. LaterShape
      BY <3>1 DEF WriterInv, StoringShape
    <3> QED
      BY <2>1, <3>1, <3>2 DEF LaterShape, Within
  <2>11. \E o \in Nat : ~torn => (Storing => o = opens) /\ OneOpen(n, o) /\ Splits(n)
    <3>1. CASE ~torn /\ Storing
      BY <1>2, <2>1, <2>10, <3>1, StoringSound DEF TextInv
    <3>2. CASE ~torn /\ ~Storing
      BY <2>1, <3>2 DEF ListedSound
    <3> QED
      BY <3>1, <3>2
  <2>12. PICK o \in Nat : ~torn => (Storing => o = opens) /\ OneOpen(n, o) /\ Splits(n)
    BY <2>11
  <2>13. Follows'
    <3>1. (~torn /\ ~Storing => Splits(n)') /\ (~torn /\ Storing => Within(n)')
      BY <1>1, <2>10, <2>12, Unmoved
    <3>2. (~torn /\ ~Storing => Splits(r.n)') /\ (~torn /\ Storing => Within(r.n)')
      BY <2>7, <3>1
    <3>3. 0 .. 0 - 1 = {}
      OBVIOUS
    <3> QED
      BY <2>7, <2>8, <3>2, <3>3 DEF Follows
  <2>14. ~torn => OneOpen(n, o)'
    BY <1>1, <2>12, Unmoved
  <2>15. ~r'.torn => (Storing' => o = opens') /\ OneOpen(r.n, o)'
    BY <1>1, <2>7, <2>8, <2>12, <2>14
  <2> QED
    BY <2>7, <2>9, <2>13, <2>15, NothingYet
<1> QED
  BY <1>3, <1>4

\* The size of one more chunk is known.
WithSize(rd2, rd, i, size) ==
  /\ rd2.file_size = [rd.file_size EXCEPT ![i] = size]
  /\ rd2.before = [rd.before EXCEPT ![i + 1] = rd.before[i] + size]

LEMMA AddedNat ==
  ASSUME NEW n \in Nat, NEW f \in [0 .. n -> Nat], NEW i \in 0 .. n, NEW size \in Nat
  PROVE  f[i] \in Nat /\ f[i] + size \in Nat
OBVIOUS

LEMMA Apart ==
  ASSUME NEW n \in Nat, NEW i \in 0 .. n - 1, NEW f \in [0 .. n - 1 -> Nat], NEW size \in Nat
  PROVE  \A k \in 0 .. i - 1 : /\ k \in 0 .. n - 1 /\ k + 1 \in 0 .. i /\ k \in 0 .. i
                                /\ [f EXCEPT ![i] = size][k] = f[k]
OBVIOUS

LEMMA Extended ==
  ASSUME NEW n \in Nat, NEW i \in 0 .. n - 1, NEW f \in [0 .. n -> Nat], NEW size \in Nat,
         NEW g, g = [f EXCEPT ![i + 1] = f[i] + size]
  PROVE  /\ \A k \in 0 .. i : k \in 0 .. n /\ g[k] = f[k] /\ f[k] \in Nat
         /\ g[i + 1] = f[i] + size /\ g[i] <= g[i + 1]
<1>1. i \in Nat /\ i + 1 \in 0 .. n /\ i \in 0 .. n /\ i \in 0 .. i
  OBVIOUS
<1>2. \A k \in 0 .. i : k \in 0 .. n /\ k # i + 1
  BY <1>1
<1>3. \A k \in 0 .. i : k \in 0 .. n /\ g[k] = f[k] /\ f[k] \in Nat
  BY <1>2
<1>4. g[i + 1] = f[i] + size
  BY <1>1
<1> QED
  BY <1>1, <1>3, <1>4

LEMMA PlacedNext ==
  ASSUME NEW n \in Nat, NEW i \in 0 .. n - 1, NEW size \in Nat,
         NEW rd, rd.file_size \in [0 .. n - 1 -> Nat], rd.before \in [0 .. n -> Nat], Placed(rd, i),
         NEW rd2, WithSize(rd2, rd, i, size)
  PROVE  Placed(rd2, i + 1)
<1>1. PICK sizes \in [0 .. n - 1 -> Nat], before \in [0 .. n -> Nat] :
        sizes = rd.file_size /\ before = rd.before
  OBVIOUS
<1> DEFINE before2 == [before EXCEPT ![i + 1] = before[i] + size]
           sizes2 == [sizes EXCEPT ![i] = size]
<1>2. i \in Nat /\ i + 1 \in 0 .. n /\ i \in 0 .. n /\ before[i] \in Nat
  <2>1. i \in Nat /\ i + 1 \in 0 .. n /\ i \in 0 .. n
    OBVIOUS
  <2> QED
    BY <2>1, AddedNat
<1>3. /\ \A k \in 0 .. i : k \in 0 .. n /\ before2[k] = before[k] /\ before[k] \in Nat
      /\ before2[i + 1] = before[i] + size /\ before2[i] <= before2[i + 1]
  BY Extended
<1>4. \A k \in 0 .. i - 1 : k \in 0 .. n - 1 /\ sizes2[k] = sizes[k] /\ k + 1 \in 0 .. i /\ k \in 0 .. i
  BY Apart
<1>5. sizes2[i] = size
  OBVIOUS
<1>6. \A k \in 0 .. i + 1 : k \in 0 .. i \/ k = i + 1
  BY <1>2
<1>7. \A k \in 0 .. (i + 1) - 1 : k \in 0 .. i - 1 \/ k = i
  BY <1>2
<1> HIDE DEF before2, sizes2
<1>8. /\ before[0] = 0
      /\ \A k \in 0 .. i - 1 : before[k + 1] = before[k] + sizes[k]
      /\ \A a, b \in 0 .. i : a <= b => before[a] <= before[b]
      /\ \A t \in Nat : t < before[i] => \E k \in 0 .. i - 1 : before[k] <= t /\ t < before[k + 1]
  BY <1>1 DEF Placed
<1>9. before2[0] = 0
  <2>1. 0 \in 0 .. i
    BY <1>2
  <2> QED
    BY <1>3, <1>8, <2>1
<1>10. \A k \in 0 .. (i + 1) - 1 : before2[k + 1] = before2[k] + sizes2[k]
  <2>1. \A k \in 0 .. i - 1 : before2[k + 1] = before2[k] + sizes2[k]
    BY <1>3, <1>4, <1>8
  <2>2. before2[i + 1] = before2[i] + sizes2[i]
    <3>1. i \in 0 .. i
      BY <1>2
    <3> QED
      BY <1>3, <1>5, <3>1
  <2> QED
    BY <1>7, <2>1, <2>2
<1>11. ASSUME NEW a \in 0 .. i + 1, NEW b \in 0 .. i + 1, a <= b
       PROVE  before2[a] <= before2[b]
  <2>1. CASE b \in 0 .. i
    <3>1. a \in 0 .. i
      BY <1>2, <1>11, <2>1
    <3>2. before[a] <= before[b]
      BY <1>8, <1>11, <2>1, <3>1
    <3> QED
      BY <1>3, <2>1, <3>1, <3>2
  <2>2. CASE b = i + 1 /\ a \in 0 .. i
    <3>1. before[a] <= before[i] /\ before[a] \in Nat
      <4>1. i \in 0 .. i /\ a <= i
        BY <1>2, <2>2
      <4> QED
        BY <1>3, <1>8, <2>2, <4>1
    <3>2. before2[a] = before[a] /\ before2[b] = before[i] + size
      BY <1>3, <2>2
    <3>3. PICK x, y \in Nat : x = before[a] /\ y = before[i]
      BY <1>2, <3>1
    <3>4. x <= y + size
      BY <3>1, <3>3
    <3> QED
      BY <3>2, <3>3, <3>4
  <2>3. CASE b = i + 1 /\ a = i + 1
    BY <1>2, <1>3, <2>3
  <2> QED
    BY <1>6, <2>1, <2>2, <2>3
<1>12. ASSUME NEW t \in Nat, t < before2[i + 1]
       PROVE  \E k \in 0 .. (i + 1) - 1 : before2[k] <= t /\ t < before2[k + 1]
  <2>1. CASE t < before[i]
    <3>1. PICK k \in 0 .. i - 1 : before[k] <= t /\ t < before[k + 1]
      BY <1>8, <2>1
    <3>2. before2[k] <= t /\ t < before2[k + 1]
      <4>1. k \in 0 .. i /\ k + 1 \in 0 .. i
        BY <1>4
      <4> QED
        BY <1>3, <3>1, <4>1
    <3>3. k \in 0 .. (i + 1) - 1
      BY <1>2
    <3> QED
      BY <3>2, <3>3
  <2>2. CASE before[i] <= t
    <3>1. i \in 0 .. (i + 1) - 1 /\ before2[i] <= t
      BY <1>2, <1>3, <2>2
    <3> QED
      BY <1>12, <3>1
  <2> QED
    BY <1>2, <2>1, <2>2
<1>13. before2 = rd2.before /\ sizes2 = rd2.file_size
  BY <1>1 DEF before2, sizes2, WithSize
<1> QED
  BY <1>9, <1>10, <1>11, <1>12, <1>13 DEF Placed

LEMMA UpToNext ==
  ASSUME NEW i \in Nat, NEW c \in 0 .. (i + 1) - 1
  PROVE  c \in 0 .. i - 1 \/ c = i
OBVIOUS

LEMMA NotThis ==
  ASSUME NEW n \in Nat, NEW i \in 0 .. n - 1, NEW c \in 0 .. i - 1
  PROVE  c \in 0 .. n - 1 /\ c # i
OBVIOUS

LEMMA NotUpTo ==
  ASSUME NEW i \in Nat, NEW m \in Int, ~(m <= i)
  PROVE  i < m
OBVIOUS

LEMMA StatChunkKeeps ==
  ASSUME WriterInv, ReaderInv, StatChunk
  PROVE  ReaderInv'
<1>1. /\ writer_unchanged /\ r.at = "stat" /\ r \in ReaderRec /\ Reading /\ Statted = r.file_num
      /\ disk' = disk /\ w' = w /\ pages' = pages /\ opens' = opens
  BY DEF StatChunk, ReaderInv, writer_unchanged, Reading, Statted
<1>2. PICK n \in 1 .. 2 * MaxPages + 1 : n = r.n /\ n \in Nat
  BY <1>1, RepositoryAssumption DEF ReaderInv, ReaderPlaced
<1>3. PICK i \in 0 .. n - 1 : i = r.file_num /\ i \in Nat /\ i \in Chunk
  BY <1>1, <1>2, RepositoryAssumption DEF ReaderInv, ReaderPlaced, Chunk
<1>4. PICK sizes \in [0 .. n - 1 -> Nat], before \in [0 .. n -> Nat] :
        sizes = r.file_size /\ before = r.before
  BY <1>1, <1>2 DEF ReaderInv, ReaderPlaced
<1>5. PICK size \in Nat : size = Len(disk[i])
  BY <1>3, TextIs
<1>6. PICK last \in BOOLEAN : last <=> i = n - 1
  OBVIOUS
<1>7. PICK torn \in BOOLEAN : torn <=> r.torn \/ (~last /\ w.at # "closed" /\ w.last <= i)
  OBVIOUS
<1>8. PICK sealed \in BOOLEAN : sealed <=> last /\ w.at = "closed"
  OBVIOUS
<1>9. PICK at \in {"page", "stat"} : at = IF last THEN "page" ELSE "stat"
  OBVIOUS
<1>10. PICK f \in 0 .. n - 1 : f = (IF last THEN 0 ELSE i + 1) /\ f \in Nat
  <2>1. (IF last THEN 0 ELSE i + 1) \in 0 .. n - 1 /\ (IF last THEN 0 ELSE i + 1) \in Nat
    BY <1>2, <1>3, <1>6
  <2> QED
    BY <2>1
<1>11. PICK sizes2 \in [0 .. n - 1 -> Nat] : sizes2 = [sizes EXCEPT ![i] = size]
  OBVIOUS
<1>12. PICK before2 \in [0 .. n -> Nat] : before2 = [before EXCEPT ![i + 1] = before[i] + size]
  <2>1. before[i] + size \in Nat
    <3>1. i \in 0 .. n
      BY <1>2, <1>3
    <3> QED
      BY <1>2, <3>1, AddedNat
  <2>2. [before EXCEPT ![i + 1] = before[i] + size] \in [0 .. n -> Nat]
    BY <2>1
  <2> QED
    BY <2>2
<1>13. sizes2 \in Sizes /\ before2 \in Sizes
  <2>1. n + 1 \in Nat /\ before2 \in [0 .. (n + 1) - 1 -> Nat]
    <3>1. (n + 1) - 1 = n
      BY <1>2
    <3> QED
      BY <1>2, <3>1
  <2> QED
    BY <1>2, <2>1 DEF Sizes
<1>14. r' = [r EXCEPT !.at = at, !.file_num = f, !.file_size = sizes2, !.before = before2,
                      !.sealed = sealed, !.torn = torn]
  <2>1. r' = [r EXCEPT !.at = IF i = n - 1 THEN "page" ELSE "stat",
                       !.file_num = IF i = n - 1 THEN 0 ELSE i + 1,
                       !.file_size[i] = size, !.before[i + 1] = before[i] + size,
                       !.sealed = i = n - 1 /\ w.at = "closed",
                       !.torn = r.torn \/ (~(i = n - 1) /\ w.at # "closed" /\ w.last <= i)]
    BY <1>2, <1>3, <1>4, <1>5 DEF StatChunk
  <2> QED
    BY <1>1, <1>4, <1>6, <1>7, <1>8, <1>9, <1>10, <1>11, <1>12, <2>1 DEF ReaderRec
<1>15. /\ r' \in ReaderRec /\ r'.at = at /\ r'.n = n /\ r'.torn = torn /\ r'.file_size = sizes2
       /\ r'.before = before2 /\ r'.file_num = f /\ r'.got = r.got
  BY <1>1, <1>2, <1>10, <1>13, <1>14 DEF ReaderRec, ReaderPlace
<1>16. r'.got = << >>
  BY <1>1, <1>15 DEF ReaderInv, ReaderPlaced
<1>17. Statted' = i + 1 /\ Reading' /\ (Storing <=> Storing')
  <2>1. Statted' = IF at = "stat" THEN f ELSE n
    BY <1>15 DEF Statted
  <2>2. Statted' = i + 1
    BY <1>2, <1>3, <1>6, <1>9, <1>10, <2>1
  <2> QED
    BY <1>1, <1>15, <2>2 DEF Reading, Storing
<1>18. ReaderPlaced'
  <2>1. Placed(r, i)
    BY <1>1, <1>3 DEF ReaderInv, ReaderPlaced
  <2>2. PICK rd : rd = r'
    OBVIOUS
  <2>3. Placed(rd, i + 1)
    <3>1. WithSize(rd, r, i, size)
      BY <1>4, <1>11, <1>12, <1>15, <2>2 DEF WithSize
    <3>2. r.file_size \in [0 .. n - 1 -> Nat] /\ r.before \in [0 .. n -> Nat]
      BY <1>4
    <3> QED
      BY <1>2, <2>1, <3>1, <3>2, PlacedNext
  <2>4. Placed(r, Statted)'
    BY <1>17, <2>2, <2>3 DEF Placed
  <2> QED
    BY <1>15, <1>16, <2>4 DEF ReaderPlaced
<1>19. ~torn => ~r.torn /\ (last \/ ~Storing \/ i < w.last)
  <2> SUFFICES ASSUME ~torn
               PROVE  ~r.torn /\ (last \/ ~Storing \/ i < w.last)
    OBVIOUS
  <2>1. ~r.torn /\ (last \/ ~Storing \/ ~(w.last <= i))
    BY <1>7 DEF Storing
  <2>2. Storing /\ ~(w.last <= i) => i < w.last
    <3>1. Storing => w.last \in Int
      BY Room
    <3> QED
      BY <1>3, <3>1, NotUpTo
  <2> QED
    BY <2>1, <2>2
<1>20. Follows'
  <2> SUFFICES ASSUME ~torn
               PROVE  /\ ~Storing' => Splits(r.n)'
                      /\ Storing' => Within(r.n)'
                      /\ \A c \in 0 .. Statted' - 1 : c < r'.n - 1 =>
                           r'.file_size[c] = Len(disk'[c]) /\ (Storing' => c < w'.last)
    BY <1>15 DEF Follows
  <2>1. /\ ~Storing => Splits(n)
        /\ Storing => Within(n)
        /\ \A c \in 0 .. i - 1 : c < n - 1 => sizes[c] = Len(disk[c]) /\ (Storing => c < w.last)
    BY <1>1, <1>2, <1>3, <1>4, <1>19 DEF ReaderInv, Follows
  <2>2. (~Storing => Splits(n)') /\ (Storing => Within(n)')
    BY <1>1, <2>1, Unmoved
  <2>3. ASSUME NEW c \in 0 .. (i + 1) - 1, c < n - 1
        PROVE  sizes2[c] = Len(disk[c]) /\ (Storing => c < w.last)
    <3>1. CASE c \in 0 .. i - 1
      <4>1. sizes2[c] = sizes[c]
        <5>1. c \in 0 .. n - 1 /\ c # i
          BY <1>2, <1>3, <3>1, NotThis
        <5> QED
          BY <1>11, <5>1
      <4> QED
        BY <2>1, <2>3, <3>1, <4>1
    <3>2. CASE c = i
      <4>1. sizes2[i] = size
        BY <1>11
      <4> QED
        BY <1>5, <1>6, <1>19, <2>3, <3>2, <4>1
    <3>3. c \in 0 .. i - 1 \/ c = i
      BY <1>3, UpToNext
    <3> QED
      BY <3>1, <3>2, <3>3
  <2>4. (~Storing' => Splits(r.n)') /\ (Storing' => Within(r.n)')
    BY <1>15, <1>17, <2>2
  <2> QED
    BY <1>1, <1>15, <1>17, <2>3, <2>4
<1>21. PICK o \in Nat : ~torn => (Storing => o = opens) /\ OneOpen(n, o)
  BY <1>1, <1>2, <1>19 DEF ReaderInv, OneOpening
<1>22. ~torn => OneOpen(n, o)'
  BY <1>1, <1>21, Unmoved
<1>23. ~r'.torn => (Storing' => o = opens') /\ OneOpen(r.n, o)'
  BY <1>1, <1>15, <1>17, <1>21, <1>22
<1> QED
  BY <1>15, <1>16, <1>18, <1>20, <1>23, NothingYet

LEMMA ReaderKeeps ==
  ASSUME WriterInv, TextInv, ListedSound, ReaderInv, Reader
  PROVE  ReaderInv'
BY OpenListKeeps, StatChunkKeeps, ReaderFaultsKeeps, ReadFixedKeeps, ReadRestKeeps, ReadBodyKeeps, SearchKeeps
   DEF Reader

-----------------------------------------------------------------------------
(* The invariant *)

RepositoryInv == WriterInv /\ TextInv /\ ListedSound /\ ReaderInv

LEMMA InitText == RepositoryInit => TextInv /\ ListedSound
<1> SUFFICES ASSUME RepositoryInit
             PROVE  TextInv /\ ListedSound
  OBVIOUS
<1>1. disk = [c \in Chunk |-> << >>] /\ listed = 0 /\ w.at = "closed"
  BY DEF RepositoryInit, Closed
<1>2. ~Storing /\ Phase = "closed"
  BY <1>1 DEF Storing, Phase, Making
<1>3. \A c \in Chunk : Places(c) = {}
  BY <1>1, <1>2 DEF Places, Text
<1>4. PiecesKnown /\ HeadersInOrder
  BY <1>3 DEF PiecesKnown, HeadersInOrder
<1>5. Frontier /\ NewPage /\ LastHeader /\ Bodies
  BY <1>2 DEF Frontier, NewPage, LastHeader, Bodies
<1>6. OneOpen(listed, 0) /\ Splits(listed)
  BY <1>3 DEF OneOpen, Splits
<1>7. ListedSound
  <2>1. 0 \in Nat
    OBVIOUS
  <2> QED
    BY <1>6, <2>1 DEF ListedSound
<1> QED
  BY <1>4, <1>5, <1>7 DEF TextInv

LEMMA InitReader == RepositoryInit => ReaderInv
<1> SUFFICES ASSUME RepositoryInit
             PROVE  ReaderInv
  OBVIOUS
<1>1. r = [at |-> "none", n |-> 0, file_size |-> [i \in 0 .. -1 |-> 0],
           before |-> [i \in 0 .. 0 |-> 0], file_num |-> 0, pos |-> 0, start |-> 0,
           head |-> << >>, got |-> << >>, sealed |-> FALSE, torn |-> FALSE,
           cut |-> FALSE]
  BY DEF RepositoryInit, NotReading
<1>2. [i \in 0 .. -1 |-> 0] \in Sizes /\ [i \in 0 .. 0 |-> 0] \in Sizes
  <2>1. [i \in 0 .. -1 |-> 0] \in [0 .. 0 - 1 -> Nat] /\ [i \in 0 .. 0 |-> 0] \in [0 .. 1 - 1 -> Nat]
    OBVIOUS
  <2> QED
    BY <2>1 DEF Sizes
<1>3. r \in ReaderRec
  <2>1. << >> \in Seq(Piece) /\ << >> \in Seq(Got)
    OBVIOUS
  <2> QED
    BY <1>1, <1>2, <2>1 DEF ReaderRec, ReaderPlace
<1>4. r.at = "none" /\ r.file_num = 0 /\ r.got = << >> /\ Len(r.got) = 0 /\ ~Reading /\ ~Headed
  BY <1>1 DEF Reading, Headed
<1>5. Unopened /\ ReaderPlaced /\ Follows /\ AtBody
  BY <1>4 DEF Unopened, ReaderPlaced, Follows, AtBody
<1>6. KnownInv /\ SameOrder /\ Intact
  BY <1>4 DEF KnownInv, SameOrder, Intact
<1>7. OneOpening
  <2>1. 0 \in Nat
    OBVIOUS
  <2> QED
    BY <1>4, <2>1 DEF OneOpening
<1> QED
  BY <1>3, <1>5, <1>6, <1>7 DEF ReaderInv

LEMMA ReaderUnmoved ==
  ASSUME ReaderInv, UNCHANGED repository_vars
  PROVE  ReaderInv'
<1>1. r' = r /\ writer_unchanged /\ disk' = disk /\ w' = w /\ pages' = pages /\ opens' = opens /\ compressed' = compressed
  BY DEF repository_vars, writer_unchanged
<1>2. (Reading <=> Reading') /\ (Headed <=> Headed') /\ Statted' = Statted
  BY <1>1 DEF Reading, Headed, Statted
<1>3. r' \in ReaderRec /\ Unopened' /\ AtBody' /\ SameOrder' /\ Intact'
  BY <1>1 DEF ReaderInv, Unopened, AtBody, SameOrder, Intact
<1>4. ReaderPlaced'
  BY <1>1, <1>2 DEF ReaderInv, ReaderPlaced, Placed
<1>5. Follows'
  <2>1. /\ Splits(r.n) => Splits(r.n)'
        /\ Within(r.n) => Within(r.n)'
    BY <1>1, Unmoved
  <2>2. Storing <=> Storing'
    BY <1>1, Unmoved
  <2> QED
    BY <1>1, <1>2, <2>1, <2>2 DEF ReaderInv, Follows
<1>6. KnownInv'
  <2>1. \A k : Reported(r.got[k].page) => Reported(r.got[k].page)'
    BY <1>1, Unmoved
  <2>2. \A k, c, i : Ahead(r.got[k].page, c, i) => Ahead(r.got[k].page, c, i)'
    BY <1>1, Unmoved
  <2>3. \A c, i : Ahead(r.head[1][1], c, i) => Ahead(r.head[1][1], c, i)'
    BY <1>1, Unmoved
  <2>4. Reported(r.head[1][1]) => Reported(r.head[1][1])'
    BY <1>1, Unmoved
  <2>5. \A c, i : HeadAt(c, i) => HeadAt(c, i)'
    BY <1>1, <2>2, <2>3 DEF HeadAt, From
  <2>6. (\A k \in 1 .. Len(r.got) : Ahead(r.got[k].page, r.file_num, r.pos + 1))
        => (\A k \in 1 .. Len(r'.got) : Ahead(r.got[k].page, r.file_num, r.pos + 1)')
    <3>1. PICK f, p : f = r.file_num /\ p = r.pos + 1
      OBVIOUS
    <3>2. f = r'.file_num /\ p = r'.pos + 1
      BY <1>1, <3>1
    <3> QED
      BY <1>1, <2>2, <3>1, <3>2
  <2> QED
    BY <1>1, <1>2, <2>1, <2>4, <2>5, <2>6 DEF ReaderInv, KnownInv
<1>7. OneOpening'
  <2>1. \A o : OneOpen(r.n, o) => OneOpen(r.n, o)'
    BY <1>1, Unmoved
  <2>2. Storing <=> Storing'
    BY <1>1, Unmoved
  <2> QED
    BY <1>1, <1>2, <2>1, <2>2 DEF ReaderInv, OneOpening
<1> QED
  BY <1>3, <1>4, <1>5, <1>6, <1>7 DEF ReaderInv

LEMMA RepositoryStep == RepositoryInv /\ [RepositoryNext]_repository_vars => RepositoryInv'
<1> SUFFICES ASSUME RepositoryInv, [RepositoryNext]_repository_vars
             PROVE  RepositoryInv'
  OBVIOUS
<1>1. WriterInv /\ TextInv /\ ListedSound /\ ReaderInv
  BY DEF RepositoryInv
<1>2. CASE Writer
  BY <1>1, <1>2, WriterKeepsTypes, TextKept, WriterKeepsReader DEF RepositoryInv
<1>3. CASE Reader
  <2>1. writer_unchanged
    BY <1>3 DEF Reader, OpenList, StatChunk, ReaderFaults, ReadFixed, ReadRest, ReadBody, Search
  <2> QED
    BY <1>1, <1>3, <2>1, WriterKeepsTypes, TextKept, ReaderKeeps DEF RepositoryInv
<1>4. CASE UNCHANGED repository_vars
  <2>1. writer_unchanged
    BY <1>4 DEF repository_vars, writer_unchanged
  <2> QED
    BY <1>1, <1>4, <2>1, WriterKeepsTypes, TextKept, ReaderUnmoved DEF RepositoryInv
<1> QED
  BY <1>2, <1>3, <1>4 DEF RepositoryNext

LEMMA RepositoryAlways == RepositorySpec => []RepositoryInv
<1>1. RepositoryInit => RepositoryInv
  BY InitWriter, InitText, InitReader DEF RepositoryInv
<1> QED
  BY <1>1, RepositoryStep, PTL DEF RepositorySpec

-----------------------------------------------------------------------------
(* Theorems *)

\* Whatever is stored, flushed, cut short, abandoned and read: no more chunks are named
\* than two for each page stored and one, none holds more than MAX_FILE_SIZE, and
\* FSBigFile's position is in its chunk, not before what it knows to be its size.
THEOREM RepositoryTypesCorrect == RepositorySpec => []RepositoryTypeOK
<1>1. RepositoryInv => RepositoryTypeOK
  <2> SUFFICES ASSUME RepositoryInv
               PROVE  RepositoryTypeOK
    OBVIOUS
  <2>1. StoreTypes /\ Bounds /\ (~Storing => w = Closed) /\ r \in ReaderRec /\ WriterInv
    BY DEF RepositoryInv, WriterInv, ReaderInv, Storing
  <2>2. listed \in 0 .. 2 * MaxPages + 1
    <3>1. listed \in Nat /\ listed <= 2 * P + 1 /\ P \in Nat /\ P <= MaxPages
      BY <2>1 DEF Bounds, StoreTypes, P
    <3> QED
      BY <3>1, RepositoryAssumption
  <2>3. w.last \in -1 .. 2 * MaxPages
    <3>1. CASE Storing
      <4>1. w.last \in Int /\ w.last >= -1 /\ w.last + 1 \in 0 .. 2 * MaxPages
        BY <2>1, <3>1, Room DEF Chunk
      <4> QED
        BY <4>1, RepositoryAssumption
    <3>2. CASE ~Storing
      BY <2>1, <3>2, RepositoryAssumption DEF Closed
    <3> QED
      BY <3>1, <3>2
  <2>4. w.at \in WriterPlace /\ w.pos \in Nat /\ w.file_size \in Nat
    BY <2>1 DEF StoreTypes, WriterRec
  <2>5. w.pos \in 0 .. MAX_FILE_SIZE /\ w.file_size \in 0 .. w.pos
    BY <2>1, <2>4, RepositoryAssumption DEF Bounds
  <2>6. \A p \in DOMAIN pages : pages[p].size \in BodySizes /\ pages[p].open \in 1 .. opens
    <3>1. \A p \in DOMAIN pages : pages[p] \in PageRec
      BY <2>1 DEF StoreTypes
    <3> QED
      BY <2>1, <3>1 DEF Bounds, PageRec
  <2>7. opens \in 0 .. MaxOpens /\ mishaps \in 0 .. MaxMishaps /\ compressed \in BOOLEAN
    BY <2>1, RepositoryAssumption DEF StoreTypes, Bounds
  <2>8. r.at \in ReaderPlace
    BY <2>1 DEF ReaderRec
  <2> QED
    BY <2>1, <2>2, <2>3, <2>4, <2>5, <2>6, <2>7, <2>8 DEF RepositoryTypeOK, Bounds, WriterPlace, ReaderPlace
<1> QED
  BY <1>1, RepositoryAlways, PTL

\* What FSPageContainer::readPage returns is what repository::store stored: the pages of
\* one opening in the order they were stored in, and all pages in it unless the reader is
\* torn (a chunk but the last was not all on the disk when it opened the container, or the
\* container was begun anew since); each of them whole, unless its write was cut short or
\* (when pages are not compressed) the reader is torn.
\* However the two processes' steps lie, whatever stdio has flushed, whichever process was
\* killed, and whatever older chunks a file holds.
THEOREM PagesAreWhole == RepositorySpec => []PagesWhole
<1>1. RepositoryInv => PagesWhole
  <2> SUFFICES ASSUME RepositoryInv
               PROVE  PagesWhole
    OBVIOUS
  <2>1. r \in ReaderRec /\ SameOrder /\ Intact /\ OneOpening
    BY DEF RepositoryInv, ReaderInv
  <2>2. DOMAIN r.got = 1 .. Len(r.got) /\ Len(r.got) \in Nat
    <3>1. r.got \in Seq(Got)
      BY <2>1 DEF ReaderRec
    <3> QED
      BY <3>1
  <2>3. ASSUME ~r.cut, NEW i \in 1 .. Len(r.got), NEW j \in 1 .. Len(r.got), i < j
        PROVE  InOrder(r.got[i].page, r.got[j].page)
    <3>1. pages[r.got[i].page].open = pages[r.got[j].page].open => r.got[i].page < r.got[j].page
      BY <2>1, <2>3 DEF SameOrder
    <3>2. ~r.torn => pages[r.got[i].page].open = pages[r.got[j].page].open
      BY <2>1, <2>3 DEF OneOpening
    <3> QED
      BY <3>1, <3>2 DEF InOrder
  <2>4. compressed \/ ~r.torn =>
          \A i \in 1 .. Len(r.got) : pages[r.got[i].page].whole \/ compressed => r.got[i].intact
    BY <2>1 DEF Intact
  <2> QED
    BY <2>2, <2>3, <2>4 DEF PagesWhole
<1> QED
  BY <1>1, RepositoryAlways, PTL
=============================================================================
