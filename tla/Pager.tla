------------------------------ MODULE Pager ------------------------------
(***************************************************************************)
(* The page file of an index: class Pager of storage/pager.cpp, a          *)
(* write-back cache of at most capacity pages, replaced in LRU order, over *)
(* an fstream whose error state is sticky.  The stream has a buffer of its *)
(* own: the page written last may still be in it, and the next seek, flush *)
(* or close has to bring it to the file.                                   *)
(*                                                                         *)
(* A call runs in several steps so that the process can stop between any   *)
(* two writes to the file: pc says which loop of the code is running, pend *)
(* is the page that put_cache is about to insert, job is what follows the  *)
(* flush loop.  An action that starts a call needs pc = "idle": the code   *)
(* is only entered under the DBMS mutex.                                   *)
(***************************************************************************)
EXTENDS Integers, Sequences, FiniteSets

CONSTANTS
    MaxPages,     \* page numbers are 0 .. MaxPages - 1 (uint32 in the code)
    Data,         \* contents a caller can write
    Zero,         \* contents of a page of zeros
    Torn,         \* contents of a page whose write was cut short
    Capacities    \* arguments of set_cache_capacity, and the default

ASSUME PagerAssumption ==
    /\ MaxPages \in Nat \ {0}
    /\ Capacities \subseteq Nat
    /\ Zero \notin Data
    /\ Torn \notin Data
    /\ Zero # Torn

VARIABLES
    open,         \* stream_.is_open()
    bad,          \* the stream's fail or bad bit
    pageCount,    \* page_count_
    capacity,     \* cache_capacity_
    lru,          \* lru_, most recently used page first
    cache,        \* cache_ without its iterators: page -> [data, dirty]
    disk,         \* the file; Zero where nothing was ever written
    fileLen,      \* length of the file in whole pages
    held,         \* the page in the stream's buffer, not yet in the file
    pc,           \* "idle", or the loop that is running
    pend,         \* page being inserted, while pc = "evict"
    job,          \* what the flush loop was called for
    ret           \* answer of the last call that returned

vars == <<open, bad, pageCount, capacity, lru, cache, disk, fileLen, held,
          pc, pend, job, ret>>

\* What an fstream and its file hold, and the cache in front of them.
file  == <<bad, disk, fileLen, held>>
store == <<lru, cache>>

PageId  == 0 .. MaxPages - 1
Content == Data \cup {Zero, Torn}

OkReturn    == [kind |-> "ok"]
ErrorReturn == [kind |-> "error"]
SyncReturn  == [kind |-> "synced"]
PageReturn(p, d) == [kind |-> "page", page |-> p, data |-> d]
NoReturn    == [kind |-> "none"]   \* a new object, nothing called yet

NoPend   == [page |-> 0, data |-> Zero, dirty |-> FALSE]
NoneHeld == [page |-> -1, data |-> Zero]

Larger(m, n) == IF m >= n THEN m ELSE n

----------------------------------------------------------------------------
(* The cache *)

Cached(p)   == p \in DOMAIN cache
CacheSize   == Cardinality(DOMAIN cache)
DirtyPages  == {p \in DOMAIN cache : cache[p].dirty}

\* lru_.splice(lru_.begin(), lru_, it): p moves to the front, the pages that
\* were before it shift by one.
MoveToFront(s, p) ==
    LET i == CHOOSE k \in 1 .. Len(s) : s[k] = p
    IN  [k \in 1 .. Len(s) |-> IF k = 1 THEN p
                               ELSE IF k <= i THEN s[k - 1] ELSE s[k]]

PushFront(s, p) == [k \in 1 .. Len(s) + 1 |-> IF k = 1 THEN p ELSE s[k - 1]]

\* Mutant: the page that was used last is taken off the list.
DropFirst(s) == Tail(s)

DropLast(s) == SubSeq(s, 1, Len(s) - 1)

Store(p, d, dirty) == [q \in DOMAIN cache \cup {p} |->
                         IF q = p THEN [data |-> d, dirty |-> dirty] ELSE cache[q]]

Forget(p) == [q \in DOMAIN cache \ {p} |-> cache[q]]

EmptyCache == [q \in {} |-> [data |-> Zero, dirty |-> FALSE]]

clear_cache ==
    /\ lru' = <<>>
    /\ cache' = EmptyCache

touch_cache(p) ==
    lru' = IF Cached(p) THEN MoveToFront(lru, p) ELSE lru

----------------------------------------------------------------------------
(* The stream: a write to the file can fail at any time, and once an       *)
(* operation has failed every later one fails too, until the next          *)
(* successful open.  stream_.write leaves a page in the stream's buffer,   *)
(* or hands it to the file at once when the library bypasses the buffer;   *)
(* a seek brings the page of the buffer to the file first.                 *)

\* The file with the page of the buffer laid over it, and its length.
Stream    == [p \in PageId |-> IF p = held.page THEN held.data ELSE disk[p]]
StreamLen == Larger(fileLen, held.page + 1)

\* A write of page p to the file stops somewhere: before it, or within it.
Tear(p) ==
    /\ disk' \in {disk, [disk EXCEPT ![p] = Torn]}
    /\ fileLen' \in {fileLen, Larger(fileLen, p)}

\* The page of the buffer reaches the file.
IoSync ==
    /\ disk' = Stream
    /\ fileLen' = StreamLen
    /\ held' = NoneHeld
    /\ UNCHANGED bad

\* It does not: the stream is failed and still has it.
IoSyncFails ==
    /\ held # NoneHeld
    /\ Tear(held.page)
    /\ bad' = TRUE
    /\ UNCHANGED held

\* stream_.close() gives it up.
IoDrop ==
    /\ held # NoneHeld
    /\ Tear(held.page)
    /\ bad' = TRUE
    /\ held' = NoneHeld

\* seekp and write.
IoWrite(p, d) ==
    /\ ~bad
    /\ \/ /\ disk' = Stream
          /\ fileLen' = StreamLen
          /\ held' = [page |-> p, data |-> d]
       \/ /\ held = NoneHeld
          /\ disk' = [disk EXCEPT ![p] = d]
          /\ fileLen' = Larger(fileLen, p + 1)
          /\ UNCHANGED held
    /\ UNCHANGED bad

IoWriteFails(p) ==
    \/ bad /\ UNCHANGED file
    \/ ~bad /\ IoSyncFails
    \/ ~bad /\ held = NoneHeld /\ Tear(p) /\ bad' = TRUE /\ UNCHANGED held

\* seekg and read: past the end of the file, on a failed stream, or on a
\* device error the stream is failed from now on.
IoReadable(p) == ~bad /\ p < StreamLen

IoReadFails ==
    \/ bad' = TRUE /\ UNCHANGED <<disk, fileLen, held>>
    \/ ~bad /\ IoSyncFails
    \/ ~bad /\ disk' = Stream /\ fileLen' = StreamLen /\ held' = NoneHeld /\ bad' = TRUE

\* The call returns r, or throws when r is ErrorReturn.
Finish(r) ==
    /\ ret' = r
    /\ pc' = "idle"
    /\ pend' = NoPend
    /\ job' = "none"

----------------------------------------------------------------------------
Init ==
    /\ open = FALSE
    /\ bad = FALSE
    /\ pageCount = 0
    /\ capacity \in Capacities
    /\ lru = <<>>
    /\ cache = EmptyCache
    /\ disk = [p \in PageId |-> Zero]
    /\ fileLen = 0
    /\ held = NoneHeld
    /\ pc = "idle"
    /\ pend = NoPend
    /\ job = "none"
    /\ ret = NoReturn

(* put_cache(p, d, true): at capacity 0 the page is written through; a     *)
(* cached page is replaced in place; for any other page the eviction loop  *)
(* makes room first.                                                       *)
WriteThrough(p, d) ==
    /\ capacity = 0
    /\ \/ IoWrite(p, d) /\ Finish(OkReturn)
       \/ IoWriteFails(p) /\ Finish(ErrorReturn)
    /\ UNCHANGED store

\* Mutant: a page that was clean stays clean when it is overwritten.
ReplaceSlotStaysClean(p, d) ==
    /\ capacity # 0
    /\ Cached(p)
    /\ cache' = Store(p, d, cache[p].dirty)
    /\ touch_cache(p)
    /\ Finish(OkReturn)
    /\ UNCHANGED file

ReplaceSlot(p, d) ==
    /\ capacity # 0
    /\ Cached(p)
    /\ cache' = Store(p, d, TRUE)
    /\ touch_cache(p)
    /\ Finish(OkReturn)
    /\ UNCHANGED file

MakeRoom(p, d, dirty) ==
    /\ capacity # 0
    /\ ~Cached(p)
    /\ pend' = [page |-> p, data |-> d, dirty |-> dirty]
    /\ pc' = "evict"
    /\ UNCHANGED <<store, job, ret>>

\* Mutant: every write counts as a new page.
write_page_counts(p, d) ==
    /\ pc = "idle" /\ open
    /\ pageCount' = pageCount + 1
    /\ \/ WriteThrough(p, d)
       \/ ReplaceSlot(p, d)
       \/ MakeRoom(p, d, TRUE) /\ UNCHANGED file
    /\ UNCHANGED <<open, capacity>>

write_page(p, d) ==
    /\ pc = "idle" /\ open
    /\ pageCount' = Larger(pageCount, p + 1)
    /\ \/ WriteThrough(p, d)
       \/ ReplaceSlot(p, d)
       \/ MakeRoom(p, d, TRUE) /\ UNCHANGED file
    /\ UNCHANGED <<open, capacity>>

\* The index writes page p only once page p - 1 exists.
WritePage ==
    \E p \in PageId, d \in Data : p <= pageCount /\ write_page(p, d)

allocate_page ==
    /\ pageCount < MaxPages
    /\ write_page(pageCount, Zero)

ReadPastEnd(p) ==
    /\ p >= pageCount
    /\ capacity = 0 \/ ~Cached(p)
    /\ Finish(ErrorReturn)
    /\ UNCHANGED <<file, store>>

ReadThrough(p) ==
    /\ p < pageCount
    /\ capacity = 0
    /\ IoReadable(p)
    /\ IoSync
    /\ Finish(PageReturn(p, Stream[p]))
    /\ UNCHANGED store

ReadHit(p) ==
    /\ capacity # 0
    /\ Cached(p)
    /\ touch_cache(p)
    /\ Finish(PageReturn(p, cache[p].data))
    /\ UNCHANGED <<file, cache>>

\* load_page_from_disk: the page is read before room is made for it.
ReadMiss(p) ==
    /\ p < pageCount
    /\ IoReadable(p)
    /\ IoSync
    /\ MakeRoom(p, Stream[p], FALSE)

ReadFails(p) ==
    /\ p < pageCount
    /\ capacity = 0 \/ ~Cached(p)
    /\ IoReadFails
    /\ Finish(ErrorReturn)
    /\ UNCHANGED store

read_page ==
    /\ pc = "idle" /\ open
    /\ \E p \in PageId :
          \/ ReadPastEnd(p)
          \/ ReadThrough(p)
          \/ ReadHit(p)
          \/ ReadMiss(p)
          \/ ReadFails(p)
    /\ UNCHANGED <<open, pageCount, capacity>>

set_cache_capacity ==
    /\ pc = "idle"
    /\ capacity' \in Capacities
    /\ pc' = "shrink"
    /\ UNCHANGED <<open, file, pageCount, store, pend, job, ret>>

\* Mutant: put_cache evicts only when the cache is over its capacity.
MustEvictLate ==
    \/ pc = "evict" /\ CacheSize > capacity
    \/ pc = "shrink" /\ CacheSize > capacity

\* The conditions of the two loops that call evict_one.
MustEvict ==
    \/ pc = "evict" /\ CacheSize >= capacity
    \/ pc = "shrink" /\ CacheSize > capacity

\* Mutants: a dirty victim is dropped without being written; a victim is
\* written but stays where it is.
evict_one_drops ==
    /\ MustEvict
    /\ lru # <<>>
    /\ cache' = Forget(lru[Len(lru)])
    /\ lru' = DropLast(lru)
    /\ UNCHANGED <<open, file, pageCount, capacity, pc, pend, job, ret>>
evict_one_keeps ==
    /\ MustEvict
    /\ lru # <<>>
    /\ LET victim == lru[Len(lru)] IN
          /\ IF cache[victim].dirty THEN IoWrite(victim, cache[victim].data)
             ELSE UNCHANGED file
          /\ cache' = Store(victim, cache[victim].data, FALSE)
    /\ UNCHANGED <<open, pageCount, capacity, lru, pc, pend, job, ret>>

\* evict_one on its normal path.  With an empty list it returns at once and
\* the loop that called it never ends: that is a step that changes nothing.
evict_one ==
    /\ MustEvict
    /\ lru # <<>>
    /\ LET victim == lru[Len(lru)] IN
          /\ IF Cached(victim) /\ cache[victim].dirty
             THEN IoWrite(victim, cache[victim].data)
             ELSE UNCHANGED file
          /\ cache' = Forget(victim)
          /\ lru' = DropLast(lru)
    /\ UNCHANGED <<open, pageCount, capacity, pc, pend, job, ret>>

\* evict_one throws: the victim stays in the cache, and what the caller was
\* about to insert is lost.
evict_one_fails ==
    /\ MustEvict
    /\ lru # <<>>
    /\ LET victim == lru[Len(lru)] IN
          /\ Cached(victim) /\ cache[victim].dirty
          /\ IoWriteFails(victim)
    /\ Finish(ErrorReturn)
    /\ UNCHANGED <<open, pageCount, capacity, store>>

\* The end of put_cache: push_front and emplace; a reader then gets the data.
insert_slot ==
    /\ pc = "evict"
    /\ ~MustEvict
    /\ lru' = PushFront(lru, pend.page)
    /\ cache' = Store(pend.page, pend.data, pend.dirty)
    /\ Finish(IF pend.dirty THEN OkReturn ELSE PageReturn(pend.page, pend.data))
    /\ UNCHANGED <<open, file, pageCount, capacity>>

shrink_done ==
    /\ pc = "shrink"
    /\ ~MustEvict
    /\ Finish(OkReturn)
    /\ UNCHANGED <<open, file, pageCount, capacity, store>>

----------------------------------------------------------------------------
(* flush, close and open share the loop of flush_dirty_pages, which meets  *)
(* the dirty pages in the order of an unordered_map: any order.            *)

flush ==
    /\ pc = "idle"
    /\ IF open THEN /\ pc' = "flush"
                    /\ job' = "flush"
                    /\ UNCHANGED <<pend, ret>>
               ELSE Finish(OkReturn)
    /\ UNCHANGED <<open, file, pageCount, capacity, store>>

flush_page ==
    /\ pc = "flush"
    /\ \E p \in DirtyPages :
          /\ IoWrite(p, cache[p].data)
          /\ cache' = Store(p, cache[p].data, FALSE)
    /\ UNCHANGED <<open, pageCount, capacity, lru, pc, pend, job, ret>>

flush_page_fails ==
    /\ pc = "flush"
    /\ \E p \in DirtyPages : IoWriteFails(p)
    /\ Finish(ErrorReturn)
    /\ UNCHANGED <<open, pageCount, capacity, store>>

\* Mutants: flush returns with pages left to write; flush writes the dirty
\* pages and does not flush the stream.
flush_done_early ==
    /\ pc = "flush" /\ job = "flush"
    /\ Finish(SyncReturn)
    /\ IoSync \/ IoSyncFails
    /\ UNCHANGED <<open, pageCount, capacity, store>>
flush_done_unsynced ==
    /\ pc = "flush" /\ job = "flush"
    /\ DirtyPages = {}
    /\ Finish(SyncReturn)
    /\ UNCHANGED <<open, file, pageCount, capacity, store>>

\* stream_.flush(), whose outcome nobody looks at: flush returns normally
\* although the page in the buffer may not have reached the file.
flush_done ==
    /\ pc = "flush" /\ job = "flush"
    /\ DirtyPages = {}
    /\ Finish(SyncReturn)
    /\ IoSync \/ IoSyncFails
    /\ UNCHANGED <<open, pageCount, capacity, store>>

\* close and open call close() first, which flushes when a file is open.
close ==
    /\ pc = "idle"
    /\ pc' = IF open THEN "flush" ELSE "closed"
    /\ job' \in {"close", "open", "create"}
    /\ UNCHANGED <<open, file, pageCount, capacity, store, pend, ret>>

\* Mutant: the file is closed with pages left to write.
close_done_early ==
    /\ pc = "flush" /\ job # "flush"
    /\ pc' = "closed"
    /\ open' = FALSE
    /\ IoSync \/ IoDrop
    /\ UNCHANGED <<pageCount, capacity, store, pend, job, ret>>

\* The end of flush and stream_.close(), neither of them looked at.
close_done ==
    /\ pc = "flush" /\ job # "flush"
    /\ DirtyPages = {}
    /\ pc' = "closed"
    /\ open' = FALSE
    /\ IoSync \/ IoDrop
    /\ UNCHANGED <<pageCount, capacity, store, pend, job, ret>>

\* The rest of close, and of open: a missing file is the empty file, trunc
\* empties it, and page_count_ is computed from the length of the file.
reopen ==
    /\ pc = "closed"
    /\ clear_cache
    /\ open' = (job # "close")
    /\ disk' = IF job = "create" THEN [p \in PageId |-> Zero] ELSE disk
    /\ fileLen' = IF job = "create" THEN 0 ELSE fileLen
    /\ pageCount' = IF job = "open" THEN fileLen ELSE 0
    /\ bad' = (bad /\ job = "close")
    /\ Finish(OkReturn)
    /\ UNCHANGED <<capacity, held>>

\* Neither attempt to open the file succeeds.
open_fails ==
    /\ pc = "closed" /\ job # "close"
    /\ open' = FALSE
    /\ clear_cache
    /\ pageCount' = 0
    /\ bad' = TRUE
    /\ Finish(ErrorReturn)
    /\ UNCHANGED <<capacity, disk, fileLen, held>>

\* The object is destroyed, or the process dies, between any two steps: the
\* class has no destructor that flushes.  That of the stream closes it, so
\* the page of the buffer may still reach the file.
Lose ==
    /\ open' = FALSE
    /\ bad' = FALSE
    /\ pageCount' = 0
    /\ clear_cache
    /\ Finish(NoReturn)
    /\ capacity' \in Capacities
    /\ \/ disk' = Stream /\ fileLen' = StreamLen
       \/ held # NoneHeld /\ Tear(held.page)
    /\ held' = NoneHeld

----------------------------------------------------------------------------
Call == WritePage \/ allocate_page \/ read_page \/ set_cache_capacity
        \/ flush \/ close

\* The steps of a call in progress.
Step == evict_one \/ evict_one_fails \/ insert_slot \/ shrink_done
        \/ flush_page \/ flush_page_fails \/ flush_done \/ close_done \/ reopen
        \/ open_fails

Next == Call \/ Step \/ Lose

Spec == Init /\ [][Next]_vars

\* The code of a call keeps running once it has started.
FairSpec == Spec /\ WF_vars(Step)

----------------------------------------------------------------------------
(* Properties *)

Distinct(s) == \A i, j \in 1 .. Len(s) : s[i] = s[j] => i = j
Elements(s) == {s[i] : i \in 1 .. Len(s)}

Slot == [data : Data \cup {Zero, Torn}, dirty : BOOLEAN]

\* Every variable has its type; in particular the cache holds valid pages.
TypeOK ==
    /\ open \in BOOLEAN
    /\ bad \in BOOLEAN
    /\ pageCount \in 0 .. MaxPages
    /\ capacity \in Capacities
    /\ lru \in Seq(PageId)
    /\ DOMAIN cache \subseteq PageId
    /\ cache \in [DOMAIN cache -> Slot]
    /\ disk \in [PageId -> Content]
    /\ fileLen \in 0 .. MaxPages
    /\ held \in [page : PageId, data : Content] \cup {NoneHeld}
    /\ pc \in {"idle", "evict", "shrink", "flush", "closed"}
    /\ pend \in [page : Nat, data : Content, dirty : BOOLEAN]
    /\ pc = "evict" => pend.page \in PageId
    /\ job \in {"none", "flush", "close", "open", "create"}

CacheShape == Distinct(lru) /\ Elements(lru) = DOMAIN cache
CacheBounded == ~bad /\ pc # "shrink" => CacheSize <= capacity

\* The list and the map of the cache describe the same pages, each once: what
\* evict_one, touch_cache and the loops around evict_one rely on; and as long
\* as the stream has not failed they never exceed the capacity outside
\* set_cache_capacity, whose loop may be at work.
CacheSound == CacheShape /\ CacheBounded

\* The file has d in page p, or the stream's buffer has.
InStream(p, d) ==
    \/ held = [page |-> p, data |-> d]
    \/ held.page # p /\ p < fileLen /\ disk[p] = d

\* A cached page that is not dirty is in the file with the same contents, or
\* it is the one page in the stream's buffer, so evict_one may drop it
\* without writing it.  A failed close has no claim left: it has dropped the
\* buffer, and the cache is cleared next.
CleanMatchesFile ==
    pc # "closed" \/ ~bad =>
      \A p \in DOMAIN cache :
         ~cache[p].dirty => InStream(p, cache[p].data)

\* After a flush that returned the file itself has every page of the cache,
\* unless the stream has failed meanwhile; flush does not tell its caller.
FlushReachesFile ==
    pc = "idle" /\ ret = SyncReturn /\ ~bad =>
      \A p \in DOMAIN cache : p < fileLen /\ disk[p] = cache[p].data

\* Without an I/O error every page below page_count_ can be read: it is in
\* the cache, in the file or the stream's buffer, or on its way into the cache.
NoLostPage ==
    open /\ ~bad =>
      \A p \in 0 .. pageCount - 1 :
         Cached(p) \/ p < StreamLen \/ (pc = "evict" /\ pend.page = p)

\* While the eviction loop makes room for a page, the page is nowhere in the
\* cache, and what load_page_from_disk has read of it is still what the file
\* holds; only a closed page file may forget its cache, and then nothing in
\* it is dirty and nothing is left in the stream's buffer.
PendingCurrent ==
    /\ pc = "evict" =>
         /\ open
         /\ ~Cached(pend.page)
         /\ IF pend.dirty THEN pend.data \in Data \cup {Zero}
            ELSE InStream(pend.page, pend.data)
    /\ pc = "flush" => open
    /\ pc = "closed" => ~open /\ DirtyPages = {}
    /\ ~open => held = NoneHeld
    /\ ~open /\ pc # "closed" => DOMAIN cache = {}

\* The loops of evict_one and flush_dirty_pages end: a call that has started
\* returns or throws.
CallsReturn == pc # "idle" ~> pc = "idle"

\* What a caller sees: the cached copy of a page, or else the stream's.
View == [p \in PageId |-> IF Cached(p) THEN cache[p].data ELSE Stream[p]]

Loose == {held.page} \cap PageId

PS == INSTANCE PageStore WITH pages <- View, disk <- Stream,
                              loose <- Loose, failed <- bad

\* The cached page file implements the store without a cache: read_page
\* answers with what was last written, a flush that returns has handed every
\* page to the file, which can lose no more than the one it took last and
\* only if it has failed, and whatever is evicted, in whatever order, the
\* file only changes by catching up with what callers see.
ImplementsPageStore == PS!Spec
==========================================================================
