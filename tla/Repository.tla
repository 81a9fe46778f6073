----------------------------- MODULE Repository -----------------------------
(***************************************************************************)
(* feeders/repository_access: how the pages of one site are stored and     *)
(* read.  A container is a list file that names chunk files; a page is a   *)
(* header (WBHeader) and a body in them.  FSBigFile starts a new chunk     *)
(* when one is full; FSPageContainer reads pages, and looks for the next   *)
(* magic code when what it reads is no header.                             *)
(*                                                                         *)
(* One process stores (the crawl server), another reads (a feeder), at the *)
(* same time or later.  Files are sequences of pieces <<p, k>>, the k-th   *)
(* piece of the p-th page stored: 1 and 2 are the fixed part of its header *)
(* and, to a search, its magic code; 3 is the rest with the checksum; the  *)
(* others are the body.  What is written is seen by others when stdio      *)
(* flushes it.                                                             *)
(***************************************************************************)
EXTENDS Integers, Sequences, FiniteSets, FiniteSetsExt, SequencesExt

CONSTANTS
  MAX_FILE_SIZE, RESYNC_SEARCH_WINDOW,    \* in pieces
  HalfRange,                              \* 2 GB, in pieces: an int holds -HalfRange .. HalfRange - 1
  BodySizes,                              \* pieces of a body
  MaxPages, MaxOpens,                     \* bounds on stores and opens
  MaxMishaps                              \* bounds writes cut short and processes killed

ASSUME RepositoryAssumption ==
  /\ MAX_FILE_SIZE \in Nat /\ RESYNC_SEARCH_WINDOW \in Nat \ {0, 1} /\ HalfRange \in Nat \ {0}
  /\ BodySizes \subseteq Nat /\ \A s \in BodySizes : 3 + s <= MAX_FILE_SIZE
  /\ MaxPages \in Nat /\ MaxOpens \in Nat /\ MaxMishaps \in Nat

VARIABLES
  disk,        \* the contents of the chunk files, as others see them
  listed,      \* how many chunks the list file names
  w,           \* the storing process: its container
  pages,       \* of each page: size, the open it belongs to, whether written whole (history)
  opens, mishaps,
  compressed,
  r            \* the reading process

repository_vars == <<disk, listed, w, pages, opens, mishaps, compressed, r>>

Chunk == 0 .. 2 * MaxPages
Body(p) == [k \in 1 .. pages[p].size |-> <<p, 3 + k>>]
Record(p) == << <<p, 1>>, <<p, 2>>, <<p, 3>> >> \o Body(p)
Junk == <<0, 0>>

Closed == [at |-> "closed", then |-> "idle", last |-> 0, pos |-> 0, file_size |-> 0,
           buffered |-> << >>, rolled |-> FALSE]
NotReading == [at |-> "none", n |-> 0, file_size |-> [i \in 0 .. -1 |-> 0],
               before |-> [i \in 0 .. 0 |-> 0], file_num |-> 0, pos |-> 0, start |-> 0,
               head |-> << >>, got |-> << >>, sealed |-> FALSE, torn |-> FALSE, cut |-> FALSE]

RepositoryInit ==
  /\ disk = [c \in Chunk |-> << >>] /\ listed = 0
  /\ w = Closed /\ pages = << >> /\ opens = 0 /\ mishaps = 0
  /\ compressed \in BOOLEAN
  /\ r = NotReading

-----------------------------------------------------------------------------
(* repository::store, FSPageContainer::storePage, FSBigFile::write.            *)
(* (Operators whose names end in a word after an underscore are plausible      *)
(* mistakes: PROJECT.json pairs each with the property that must catch it.)    *)

reader_unchanged == UNCHANGED <<r, compressed>>

\* A container that is not in scMap is opened with mode 'w': its list and its
\* first chunk begin anew, whatever they held.
store(size) ==
  /\ w.at \in {"closed", "idle"} /\ Len(pages) < MaxPages
  /\ w.at = "closed" => opens < MaxOpens
  /\ pages' = Append(pages, [size |-> size, open |-> IF w.at = "closed" THEN opens + 1 ELSE opens,
                             whole |-> TRUE])
  /\ IF w.at = "closed"
     THEN /\ w' = [Closed EXCEPT !.at = "creat", !.then = "header", !.last = -1]
          /\ opens' = opens + 1 /\ r' = [r EXCEPT !.torn = TRUE]
     ELSE w' = [w EXCEPT !.at = "header"] /\ UNCHANGED <<opens, r>>
  /\ UNCHANGED <<disk, listed, mishaps, compressed>>

Part == LET p == Len(pages) IN IF w.at = "header" THEN SubSeq(Record(p), 1, 3) ELSE Body(p)
Fits_AnyLength == w.pos < MAX_FILE_SIZE
Fits == w.pos + Len(Part) < MAX_FILE_SIZE

\* fwrite takes all of the part, or less when the disk is full; storePage takes
\* anything but an error for success.
AfterPart == IF w.at = "header" THEN "body" ELSE "idle"
WritePart ==
  /\ w.at \in {"header", "body"} /\ (w.rolled \/ Fits)
  /\ \/ /\ w' = [w EXCEPT !.at = AfterPart, !.buffered = @ \o Part, !.pos = @ + Len(Part),
                          !.file_size = w.pos + Len(Part), !.rolled = FALSE]
        /\ UNCHANGED <<pages, mishaps>>
     \/ \E k \in 1 .. Len(Part) - 1 :
          /\ mishaps < MaxMishaps /\ mishaps' = mishaps + 1
          /\ w' = [w EXCEPT !.at = AfterPart, !.buffered = @ \o SubSeq(Part, 1, k), !.pos = @ + k,
                            !.rolled = FALSE]
          /\ pages' = [pages EXCEPT ![Len(pages)].whole = FALSE]
  /\ UNCHANGED <<disk, listed, opens>> /\ reader_unchanged

\* add_chunk, then set_current, then the part goes to the new chunk.
Roll ==
  /\ w.at \in {"header", "body"} /\ ~w.rolled /\ ~Fits
  /\ w' = [w EXCEPT !.at = "creat", !.then = w.at]
  /\ UNCHANGED <<disk, listed, pages, opens, mishaps>> /\ reader_unchanged

CREATE_FILE ==
  /\ w.at = "creat"
  /\ disk' = [disk EXCEPT ![w.last + 1] = << >>]
  /\ w' = [w EXCEPT !.at = "list"]
  /\ UNCHANGED <<listed, pages, opens, mishaps>> /\ reader_unchanged

\* The list file is emptied when it is opened, and written when it is closed.
EmptyList ==
  /\ w.at = "list"
  /\ listed' = 0
  /\ w' = [w EXCEPT !.at = "listed"]
  /\ UNCHANGED <<disk, pages, opens, mishaps>> /\ reader_unchanged
WriteList ==
  /\ w.at = "listed"
  /\ listed' = w.last + 2
  /\ w' = [w EXCEPT !.at = "switch"]
  /\ UNCHANGED <<disk, pages, opens, mishaps>> /\ reader_unchanged

\* A write that was short left pos beyond file_size; the rest of the old chunk
\* then has a negative length, and fwrite of it faults.
Faults == w.at = "switch" /\ w.last >= 0 /\ w.pos > w.file_size
set_current ==
  /\ w.at = "switch" /\ ~Faults
  /\ disk' = IF w.last < 0 THEN disk ELSE [disk EXCEPT ![w.last] = @ \o w.buffered]
  /\ w' = [w EXCEPT !.at = w.then, !.last = @ + 1, !.pos = 0, !.file_size = 0,
                    !.buffered = << >>, !.rolled = TRUE]
  /\ UNCHANGED <<listed, pages, opens, mishaps>> /\ reader_unchanged

\* stdio writes out what it holds, up to anywhere.
Flush ==
  /\ w.last >= 0
  /\ \E k \in 1 .. Len(w.buffered) :
       /\ disk' = [disk EXCEPT ![w.last] = @ \o SubSeq(w.buffered, 1, k)]
       /\ w' = [w EXCEPT !.buffered = SubSeq(@, k + 1, Len(@))]
  /\ UNCHANGED <<listed, pages, opens, mishaps>> /\ reader_unchanged

\* repository::end_site: at the end of a site, and when it is suspended.
end_site ==
  /\ w.at = "idle"
  /\ disk' = [disk EXCEPT ![w.last] = @ \o w.buffered]
  /\ w' = Closed
  /\ UNCHANGED <<listed, pages, opens, mishaps>> /\ reader_unchanged

\* The process is killed, or ends because no directory has room for a chunk or a
\* write takes nothing; a new one takes its place.
WriterDies ==
  /\ w.at # "closed"
  /\ mishaps' = IF Faults THEN mishaps ELSE mishaps + 1
  /\ mishaps' <= MaxMishaps
  /\ \/ UNCHANGED disk
     \/ w.at \in {"creat", "header", "body"} /\ w.last >= 0
        /\ disk' = [disk EXCEPT ![w.last] = @ \o w.buffered]
  /\ w' = Closed
  /\ UNCHANGED <<listed, pages, opens>> /\ reader_unchanged

Writer ==
  \/ \E s \in BodySizes : store(s)
  \/ WritePart \/ Roll \/ CREATE_FILE \/ EmptyList \/ WriteList \/ set_current
  \/ Flush \/ end_site \/ WriterDies

-----------------------------------------------------------------------------
(* FSBigFile opened to read: the list, then the sizes, as they are then *)

writer_unchanged == UNCHANGED <<disk, listed, w, pages, opens, mishaps, compressed>>

\* An empty list is invalid, and ends the reading process.
OpenList ==
  /\ r.at = "none" /\ opens > 0
  /\ r' = IF listed = 0 THEN [r EXCEPT !.at = "gone"]
          ELSE [r EXCEPT !.at = "stat", !.n = listed, !.torn = w.at # "closed" /\ w.last < 0,
                         !.file_size = [i \in 0 .. listed - 1 |-> 0],
                         !.before = [i \in 0 .. listed |-> 0]]
  /\ writer_unchanged

\* The sizes are taken one by one.  sealed: nobody was storing any more; torn: a chunk
\* before the last was not all written out, or the container has been begun anew since
\* its list was read.
StatChunk ==
  /\ r.at = "stat"
  /\ LET i == r.file_num
         size == Len(disk[i])
         last == i = r.n - 1
     IN r' = [r EXCEPT !.at = IF last THEN "page" ELSE "stat",
                       !.file_num = IF last THEN 0 ELSE i + 1,
                       !.file_size[i] = size, !.before[i + 1] = r.before[i] + size,
                       !.sealed = last /\ w.at = "closed",
                       !.torn = @ \/ (~last /\ w.at # "closed" /\ w.last <= i)]
  /\ writer_unchanged

Size(rd) == rd.file_size[rd.file_num]
LastFile(rd) == rd.file_num = rd.n - 1
\* A read that has gone past the recorded end of a chunk that is not the last: its
\* first half has a negative length.
Overrun == r.at \in {"page", "rest", "body", "resync"} /\ ~LastFile(r) /\ r.pos > Size(r)
OnDisk(c, pos, n) == SubSeq(disk[c], pos + 1, Min({pos + n, Len(disk[c])}))
Padded(s, n) == s \o [i \in 1 .. n - Len(s) |-> Junk]

\* FSBigFile::read: up to n pieces, from the recorded end of one chunk into the next.
BFRead_OneChunk(rd, n) ==
  LET here == OnDisk(rd.file_num, rd.pos, n)
  IN [ok |-> here # << >>, buf |-> here, rd |-> [rd EXCEPT !.pos = @ + Len(here)]]
BFRead(rd, n) ==
  LET left == Size(rd) - rd.pos
      here == OnDisk(rd.file_num, rd.pos, IF LastFile(rd) THEN n ELSE Min({left, n}))
      next == OnDisk(rd.file_num + 1, 0, n - left)
      moved == [rd EXCEPT !.file_num = @ + 1, !.pos = Len(next)]
  IN IF left = 0 /\ LastFile(rd) THEN [ok |-> FALSE, buf |-> << >>, rd |-> rd]
     ELSE IF left >= n \/ LastFile(rd)
     THEN [ok |-> n = 0 \/ here # << >>, buf |-> here, rd |-> [rd EXCEPT !.pos = @ + Len(here)]]
     ELSE IF left > 0 /\ here = << >> THEN [ok |-> FALSE, buf |-> << >>, rd |-> rd]
     ELSE [ok |-> next # << >>, buf |-> Padded(here, left) \o next, rd |-> moved]

\* tell() and seek(pos, SEEK_SET) count by the recorded sizes, in 64 bits.
tell(rd) == rd.before[rd.file_num] + rd.pos
CanSeek(rd, to) == 0 <= to /\ to < rd.before[rd.n]
seek(rd, to) ==
  LET c == CHOOSE i \in 0 .. rd.n - 1 : rd.before[i] <= to /\ to < rd.before[i + 1]
  IN [rd EXCEPT !.file_num = c, !.pos = to - rd.before[c]]

Sane(head) == /\ Len(head) = 2 /\ head[1][2] = 1 /\ head[2][2] = 2
              /\ pages[head[1][1]].size > 0
Valid(head) == Sane(SubSeq(head, 1, 2)) /\ head = SubSeq(Record(head[1][1]), 1, 3)

\* What is left of a reader that has ended: what it returned.
Leaves(rd, how) == [NotReading EXCEPT !.at = how, !.n = rd.n, !.got = rd.got,
                                      !.sealed = rd.sealed, !.torn = rd.torn, !.cut = rd.cut]
Ended(rd) == Leaves(rd, "end")
resync_Same(rd) == IF CanSeek(rd, rd.start) THEN [seek(rd, rd.start) EXCEPT !.at = "resync", !.head = << >>]
                   ELSE Ended(rd)
resync(rd) == IF CanSeek(rd, rd.start + 1)
              THEN [seek(rd, rd.start + 1) EXCEPT !.at = "resync", !.head = << >>]
              ELSE Ended(rd)

\* readPage: the WBHeader from the disk, in two reads, then the body.
ReadFixed ==
  /\ r.at = "page" /\ ~Overrun
  /\ \E b \in {BFRead([r EXCEPT !.start = tell(r)], 2)} :
        r' = IF b.ok /\ Sane(b.buf) THEN [b.rd EXCEPT !.at = "rest", !.head = b.buf]
             ELSE resync(b.rd)
  /\ writer_unchanged
ReadRest ==
  /\ r.at = "rest" /\ ~Overrun
  /\ \E b \in {BFRead(r, 1)} :
        r' = IF b.ok /\ Valid(r.head \o b.buf) THEN [b.rd EXCEPT !.at = "body"] ELSE resync(b.rd)
  /\ writer_unchanged

\* zlib's own checksum refuses a body that is another's; nothing does when pages
\* are not compressed.
ReadBody_AnyLength ==
  /\ r.at = "body" /\ ~Overrun
  /\ LET p == r.head[1][1]
     IN \E b \in {BFRead(r, pages[p].size)} :
        r' = IF ~b.ok THEN Ended(b.rd)
             ELSE IF compressed /\ b.buf # Body(p) THEN resync(b.rd)
             ELSE [b.rd EXCEPT !.at = "page", !.head = << >>,
                               !.got = Append(@, [page |-> p, intact |-> b.buf = Body(p)])]
  /\ writer_unchanged
ReadBody ==
  /\ r.at = "body" /\ ~Overrun
  /\ LET p == r.head[1][1]
     IN \E b \in {BFRead(r, pages[p].size)} :
        r' = IF ~b.ok \/ Len(b.buf) < pages[p].size THEN Ended(b.rd)
             ELSE IF compressed /\ b.buf # Body(p) THEN resync(b.rd)
             ELSE [b.rd EXCEPT !.at = "page", !.head = << >>,
                               !.got = Append(@, [page |-> p, intact |-> b.buf = Body(p)])]
  /\ writer_unchanged

\* A magic code that lies across two windows is not seen.  The place of one that is seen
\* goes through an int: beyond 2 GB seek refuses a negative one or goes to another place.
\* cut: that has happened.
Magic(buf) == {i \in 1 .. Len(buf) - 1 : buf[i][2] = 1 /\ buf[i + 1][2] = 2}
ToInt(x) == ((x + HalfRange) % (2 * HalfRange)) - HalfRange
SyncTo(rd, place) ==
  LET syncPoint == ToInt(place)
      rd2 == [rd EXCEPT !.cut = @ \/ syncPoint # place]
  IN IF CanSeek(rd, syncPoint) THEN [seek(rd2, syncPoint) EXCEPT !.at = "page"] ELSE Ended(rd2)
Search ==
  /\ r.at = "resync" /\ ~Overrun
  /\ \E b \in {BFRead(r, RESYNC_SEARCH_WINDOW)} :
        \/ ~b.ok /\ r' = Ended(b.rd)
        \/ b.ok /\ Magic(b.buf) = {} /\ r' = b.rd
        \/ \E i \in Magic(b.buf) :
             /\ b.ok /\ \A j \in Magic(b.buf) : i <= j
             /\ r' = SyncTo(b.rd, tell(r) + i - 1)
  /\ writer_unchanged

\* fread is then asked for more than any buffer holds; the process is taken to end.
ReaderFaults ==
  /\ Overrun /\ r' = Leaves(r, "gone")
  /\ writer_unchanged

Reader == OpenList \/ StatChunk \/ ReaderFaults \/ ReadFixed \/ ReadRest \/ ReadBody \/ Search

-----------------------------------------------------------------------------
(* Properties *)

RepositoryTypeOK ==
  /\ \A c \in Chunk : Len(disk[c]) <= MAX_FILE_SIZE
  /\ listed \in 0 .. 2 * MaxPages + 1
  /\ w.at \in {"closed", "idle", "header", "body", "creat", "list", "listed", "switch"}
  /\ w.last \in -1 .. 2 * MaxPages /\ w.pos \in 0 .. MAX_FILE_SIZE /\ w.file_size \in 0 .. w.pos
  /\ \A p \in DOMAIN pages : pages[p].size \in BodySizes /\ pages[p].open \in 1 .. opens
  /\ opens \in 0 .. MaxOpens /\ mishaps \in 0 .. MaxMishaps /\ compressed \in BOOLEAN
  /\ r.at \in {"none", "stat", "page", "rest", "body", "resync", "end", "gone"}

\* The pages that a reader returns are in the order they were stored in, among those
\* of one opening for writing, and among all when it is not torn (when the container is
\* begun anew, old chunks may follow new ones), as long as no sync point was cut to an
\* int.  Each is what was stored, as long as its write was not cut short; pages that are
\* not compressed also need that the reader is not torn (FSPageContainer::readPage checks
\* only lengths).
InOrder(a, b) == pages[a].open = pages[b].open \/ ~r.torn => a < b
PagesWhole ==
  /\ ~r.cut => \A i, j \in DOMAIN r.got : i < j => InOrder(r.got[i].page, r.got[j].page)
  /\ compressed \/ ~r.torn =>
       \A i \in DOMAIN r.got : pages[r.got[i].page].whole \/ compressed => r.got[i].intact

\* A container that was closed or abandoned before it is read gives back every page
\* whose pieces reached the disk, when none was empty and no write was cut short
\* (and its process did not end while it emptied an older one).  A reader whose sync
\* point was cut (FSPageContainer.cc:295) may leave out the rest, though FSBigFile is
\* there for files over 2 GB (FSBigFile.h:56).
Stored(n) == UNION {Range(disk[c]) : c \in 0 .. n - 1}
InChunks(n) == {p \in DOMAIN pages : Range(Record(p)) \subseteq Stored(n)}
Complete ==
  r.at = "end" /\ r.sealed /\ ~r.torn /\ ~r.cut /\ disk[0] # << >>
  /\ (\A p \in DOMAIN pages : pages[p].size > 0 /\ pages[p].whole)
  => {r.got[i].page : i \in DOMAIN r.got} = InChunks(r.n)

\* Whatever a container holds, reading it comes to an end, because resync always gains;
\* unless a sync point is cut to an int that lies before it (FSPageContainer.cc:295):
\* such a reader may go round for ever.
ReaderEnds == opens > 0 ~> r.at \in {"end", "gone"} \/ r.cut

-----------------------------------------------------------------------------
RepositoryNext == Writer \/ Reader
RepositorySpec == RepositoryInit /\ [][RepositoryNext]_repository_vars /\ WF_repository_vars(Reader)
=============================================================================
