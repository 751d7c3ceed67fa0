--------------------------- MODULE PagerProofs ---------------------------
(***************************************************************************)
(* What Pager guarantees for every number of pages, every set of contents  *)
(* and every set of cache capacities, and that it implements PageStore:    *)
(* whatever is cached, evicted, flushed or lost, a caller cannot tell the  *)
(* page file from a store without a cache.                                 *)
(***************************************************************************)
EXTENDS Pager, FiniteSetTheorems, TLAPS

(* Next as the list of its actions, for the case splits below. *)
LEMMA NextCases ==
    ASSUME Next
    PROVE  \/ WritePage \/ allocate_page \/ read_page \/ set_cache_capacity
           \/ flush \/ close \/ evict_one \/ evict_one_fails \/ insert_slot
           \/ shrink_done \/ flush_page \/ flush_page_fails \/ flush_done
           \/ close_done \/ reopen \/ open_fails \/ Lose
BY DEF Next, Call, Step

----------------------------------------------------------------------------
(* Type correctness *)

\* What the stream holds has the type of a file.
LEMMA StreamType ==
    ASSUME TypeOK
    PROVE  /\ held # NoneHeld => held.page \in PageId /\ held.data \in Content
           /\ held.page \in PageId \cup {-1}
           /\ Stream \in [PageId -> Content]
           /\ StreamLen \in 0 .. MaxPages
<1>1. /\ held # NoneHeld => held.page \in PageId /\ held.data \in Content
      /\ held.page \in PageId \cup {-1} /\ held.data \in Content
  BY DEF TypeOK, NoneHeld, Content
<1>2. Stream \in [PageId -> Content]
  BY <1>1 DEF TypeOK, Stream
<1>3. StreamLen \in 0 .. MaxPages
  BY <1>1, PagerAssumption DEF TypeOK, StreamLen, Larger, PageId, PagerAssumption
<1>. QED  BY <1>1, <1>2, <1>3

LEMMA TearTypes ==
    ASSUME TypeOK, NEW p \in PageId, Tear(p)
    PROVE  /\ disk' \in [PageId -> Content]
           /\ fileLen' \in 0 .. MaxPages
<1>1. p \in Nat /\ p + 1 <= MaxPages /\ fileLen \in Nat /\ fileLen <= MaxPages
  BY PagerAssumption DEF PageId, TypeOK, PagerAssumption
<1>2. Torn \in Content
  BY DEF Content
<1>3. disk' = disk \/ disk' = [disk EXCEPT ![p] = Torn]
  BY DEF Tear
<1>4. fileLen' = fileLen \/ fileLen' = Larger(fileLen, p)
  BY DEF Tear
<1>5. disk' \in [PageId -> Content]
  BY <1>3, <1>2 DEF TypeOK
<1>6. fileLen' \in 0 .. MaxPages
  BY <1>4, <1>1, PagerAssumption DEF Larger, PagerAssumption
<1>. QED  BY <1>5, <1>6

\* What each step of the stream keeps of the type invariant.
FileTypes ==
    /\ bad \in BOOLEAN
    /\ disk \in [PageId -> Content]
    /\ fileLen \in 0 .. MaxPages
    /\ held \in [page : PageId, data : Content] \cup {NoneHeld}

LEMMA SyncTypes ==
    ASSUME TypeOK, IoSync \/ IoSyncFails \/ IoDrop
    PROVE  FileTypes'
<1>1. CASE IoSync
  BY <1>1, StreamType DEF IoSync, FileTypes, TypeOK
<1>2. CASE IoSyncFails \/ IoDrop
  <2>1. /\ held # NoneHeld /\ Tear(held.page) /\ bad' = TRUE
        /\ held' = held \/ held' = NoneHeld
    BY <1>2 DEF IoSyncFails, IoDrop
  <2>2. held.page \in PageId
    BY <2>1, StreamType
  <2>. QED  BY <2>1, <2>2, TearTypes DEF FileTypes, TypeOK
<1>. QED  BY <1>1, <1>2

LEMMA IoTypes ==
    ASSUME TypeOK, NEW p \in PageId, NEW d \in Content,
           IoWrite(p, d) \/ IoWriteFails(p)
    PROVE  FileTypes'
<1>1. p \in Nat /\ p + 1 <= MaxPages /\ fileLen \in Nat /\ fileLen <= MaxPages
  BY PagerAssumption DEF PageId, TypeOK, PagerAssumption
<1>2. CASE IoWrite(p, d)
  <2>1. [disk EXCEPT ![p] = d] \in [PageId -> Content]
    BY DEF TypeOK
  <2>2. Larger(fileLen, p + 1) \in 0 .. MaxPages
    BY <1>1, PagerAssumption DEF Larger, PagerAssumption
  <2>3. [page |-> p, data |-> d] \in [page : PageId, data : Content]
    OBVIOUS
  <2>. QED  BY <1>2, <2>1, <2>2, <2>3, StreamType DEF TypeOK, IoWrite, FileTypes
<1>3. CASE IoWriteFails(p)
  <2>1. CASE bad /\ UNCHANGED file
    BY <2>1 DEF file, FileTypes, TypeOK
  <2>2. CASE IoSyncFails
    BY <2>2, SyncTypes
  <2>3. CASE Tear(p) /\ bad' = TRUE /\ UNCHANGED held
    BY <2>3, TearTypes DEF FileTypes, TypeOK
  <2>. QED  BY <1>3, <2>1, <2>2, <2>3 DEF IoWriteFails
<1>. QED  BY <1>2, <1>3

LEMMA ReadFailsTypes ==
    ASSUME TypeOK, IoReadFails
    PROVE  FileTypes'
<1>1. CASE IoSyncFails
  BY <1>1, SyncTypes
<1>2. CASE ~IoSyncFails
  BY <1>2, StreamType DEF IoReadFails, FileTypes, TypeOK
<1>. QED  BY <1>1, <1>2

LEMMA LoseTypes ==
    ASSUME TypeOK, Lose
    PROVE  FileTypes'
<1>1. bad' = FALSE /\ held' = NoneHeld
  BY DEF Lose
<1>2. CASE disk' = Stream /\ fileLen' = StreamLen
  BY <1>1, <1>2, StreamType DEF FileTypes
<1>3. CASE held # NoneHeld /\ Tear(held.page)
  BY <1>1, <1>3, StreamType, TearTypes DEF FileTypes
<1>. QED  BY <1>2, <1>3 DEF Lose

LEMMA StoreType ==
    ASSUME TypeOK, NEW p \in PageId, NEW d \in Content, NEW b \in BOOLEAN,
           cache' = Store(p, d, b)
    PROVE  /\ DOMAIN cache' \subseteq PageId
           /\ cache' \in [DOMAIN cache' -> Slot]
BY DEF TypeOK, Store, Slot, Content

LEMMA ForgetType ==
    ASSUME TypeOK, NEW p, cache' = Forget(p)
    PROVE  /\ DOMAIN cache' \subseteq PageId
           /\ cache' \in [DOMAIN cache' -> Slot]
BY DEF TypeOK, Forget

LEMMA EmptyType ==
    ASSUME clear_cache
    PROVE  /\ lru' \in Seq(PageId)
           /\ DOMAIN cache' \subseteq PageId
           /\ cache' \in [DOMAIN cache' -> Slot]
           /\ DOMAIN cache' = {}
BY DEF clear_cache, EmptyCache

LEMMA MoveType ==
    ASSUME TypeOK, NEW p \in PageId
    PROVE  MoveToFront(lru, p) \in Seq(PageId)
<1> DEFINE i == CHOOSE k \in 1 .. Len(lru) : lru[k] = p
           f == [k \in 1 .. Len(lru) |-> IF k = 1 THEN p
                               ELSE IF k <= i THEN lru[k - 1] ELSE lru[k]]
<1>1. \A k \in 1 .. Len(lru) : (IF k = 1 THEN p
                       ELSE IF k <= i THEN lru[k - 1] ELSE lru[k]) \in PageId
  <2> HIDE DEF i
  <2>. QED  BY DEF TypeOK
<1>2. f \in Seq(PageId)
  <2> HIDE DEF i
  <2>. QED  BY <1>1 DEF TypeOK
<1>. QED  BY <1>2 DEF MoveToFront

LEMMA PushType ==
    ASSUME TypeOK, NEW p \in PageId
    PROVE  PushFront(lru, p) \in Seq(PageId)
BY DEF TypeOK, PushFront

LEMMA ReturnTypes ==
    ASSUME NEW r, Finish(r)
    PROVE  /\ pc' = "idle"
           /\ pend' \in [page : Nat, data : Content, dirty : BOOLEAN]
           /\ job' = "none"
BY DEF Finish, NoPend, Content

\* write_page keeps the types, on each of the three paths of put_cache.
LEMMA WriteTypes ==
    ASSUME TypeOK, NEW p \in PageId, NEW d \in Content, write_page(p, d)
    PROVE  TypeOK'
<1>1. pageCount' \in 0 .. MaxPages
  BY PagerAssumption DEF write_page, TypeOK, PageId, Larger, PagerAssumption
<1>2. CASE WriteThrough(p, d)
  <2>1. IoWrite(p, d) \/ IoWriteFails(p)
    BY <1>2 DEF WriteThrough
  <2>2. \E r : Finish(r)
    BY <1>2 DEF WriteThrough
  <2>3. UNCHANGED <<lru, cache, open, capacity>>
    BY <1>2 DEF WriteThrough, write_page, store
  <2>. QED  BY <1>1, <2>1, <2>2, <2>3, IoTypes, ReturnTypes DEF TypeOK, FileTypes
<1>3. CASE ReplaceSlot(p, d)
  <2>1. lru' \in Seq(PageId)
    BY <1>3, MoveType DEF ReplaceSlot, touch_cache, TypeOK
  <2>2. /\ DOMAIN cache' \subseteq PageId
        /\ cache' \in [DOMAIN cache' -> Slot]
    BY <1>3, StoreType DEF ReplaceSlot
  <2>3. UNCHANGED <<bad, disk, fileLen, held, open, capacity>>
    BY <1>3 DEF ReplaceSlot, write_page, file
  <2>4. \E r : Finish(r)
    BY <1>3 DEF ReplaceSlot
  <2>. QED  BY <1>1, <2>1, <2>2, <2>3, <2>4, ReturnTypes DEF TypeOK
<1>4. CASE MakeRoom(p, d, TRUE) /\ UNCHANGED file
  <2>1. UNCHANGED <<bad, disk, fileLen, held, lru, cache, job, open, capacity>>
    BY <1>4 DEF MakeRoom, write_page, file, store
  <2>2. /\ pend' \in [page : Nat, data : Content, dirty : BOOLEAN]
        /\ pend'.page \in PageId
        /\ pc' = "evict"
    BY <1>4 DEF MakeRoom, PageId
  <2>. QED  BY <1>1, <2>1, <2>2 DEF TypeOK
<1>. QED  BY <1>2, <1>3, <1>4 DEF write_page

LEMMA ReadTypes ==
    ASSUME TypeOK, read_page
    PROVE  TypeOK'
<1>1. PICK p \in PageId : ReadPastEnd(p) \/ ReadThrough(p) \/ ReadHit(p)
                          \/ ReadMiss(p) \/ ReadFails(p)
  BY DEF read_page
<1>2. UNCHANGED <<open, pageCount, capacity>>
  BY DEF read_page
<1>3. CASE ReadPastEnd(p)
  <2>1. UNCHANGED <<bad, disk, fileLen, held, lru, cache>> /\ \E r : Finish(r)
    BY <1>3 DEF ReadPastEnd, file, store
  <2>. QED  BY <1>2, <2>1, ReturnTypes DEF TypeOK
<1>4. CASE ReadThrough(p)
  <2>1. IoSync /\ UNCHANGED <<lru, cache>> /\ \E r : Finish(r)
    BY <1>4 DEF ReadThrough, store
  <2>. QED  BY <1>2, <2>1, SyncTypes, ReturnTypes DEF TypeOK, FileTypes
<1>5. CASE ReadHit(p)
  <2>1. UNCHANGED <<bad, disk, fileLen, held, cache>> /\ \E r : Finish(r)
    BY <1>5 DEF ReadHit, file
  <2>2. lru' \in Seq(PageId)
    BY <1>5, MoveType DEF ReadHit, touch_cache, TypeOK
  <2>. QED  BY <1>2, <2>1, <2>2, ReturnTypes DEF TypeOK
<1>6. CASE ReadMiss(p)
  <2>1. IoSync /\ UNCHANGED <<lru, cache, job>>
    BY <1>6 DEF ReadMiss, MakeRoom, store
  <2>2. Stream[p] \in Content
    BY StreamType
  <2>3. /\ pend' \in [page : Nat, data : Content, dirty : BOOLEAN]
        /\ pend'.page \in PageId
        /\ pc' = "evict"
    BY <1>6, <2>2 DEF ReadMiss, MakeRoom, PageId
  <2>. QED  BY <1>2, <2>1, <2>3, SyncTypes DEF TypeOK, FileTypes
<1>7. CASE ReadFails(p)
  <2>1. IoReadFails /\ UNCHANGED <<lru, cache>> /\ \E r : Finish(r)
    BY <1>7 DEF ReadFails, store
  <2>. QED  BY <1>2, <2>1, ReadFailsTypes, ReturnTypes DEF TypeOK, FileTypes
<1>. QED  BY <1>1, <1>3, <1>4, <1>5, <1>6, <1>7

\* The victim of evict_one is a page, and if it is dirty so are its contents.
LEMMA VictimTypes ==
    ASSUME TypeOK, lru # <<>>
    PROVE  /\ lru[Len(lru)] \in PageId
           /\ DropLast(lru) \in Seq(PageId)
BY DEF TypeOK, DropLast

LEMMA SlotTypes ==
    ASSUME TypeOK, NEW p \in DOMAIN cache
    PROVE  p \in PageId /\ cache[p].data \in Content /\ cache[p].dirty \in BOOLEAN
BY DEF TypeOK, Slot, Content

LEMMA EvictTypes ==
    ASSUME TypeOK, evict_one
    PROVE  TypeOK'
<1> DEFINE v == lru[Len(lru)]
<1>1. v \in PageId /\ lru' \in Seq(PageId)
  BY VictimTypes DEF evict_one
<1>2. /\ DOMAIN cache' \subseteq PageId
      /\ cache' \in [DOMAIN cache' -> Slot]
  BY ForgetType DEF evict_one
<1>3. UNCHANGED <<open, pageCount, capacity, pc, pend, job>>
  BY DEF evict_one
<1>4. FileTypes'
  <2>1. CASE Cached(v) /\ cache[v].dirty
    <3>1. cache[v].data \in Content
      BY <2>1, SlotTypes DEF Cached
    <3>2. IoWrite(v, cache[v].data)
      BY <2>1 DEF evict_one
    <3>. QED  BY <3>1, <3>2, <1>1, IoTypes
  <2>2. CASE ~(Cached(v) /\ cache[v].dirty)
    BY <2>2 DEF evict_one, file, TypeOK, FileTypes
  <2>. QED  BY <2>1, <2>2
<1>. QED  BY <1>1, <1>2, <1>3, <1>4 DEF TypeOK, FileTypes

\* Every step keeps the type invariant.
LEMMA TypeStep ==
    ASSUME TypeOK, [Next]_vars
    PROVE  TypeOK'
<1>1. CASE WritePage
  BY <1>1, WriteTypes DEF WritePage, Content
<1>2. CASE allocate_page
  <2>1. pageCount \in PageId /\ Zero \in Content
    BY <1>2, PagerAssumption DEF allocate_page, TypeOK, PageId, Content, PagerAssumption
  <2>. QED  BY <1>2, <2>1, WriteTypes DEF allocate_page
<1>3. CASE read_page
  BY <1>3, ReadTypes
<1>4. CASE set_cache_capacity
  BY <1>4 DEF set_cache_capacity, TypeOK, file, store
<1>5. CASE flush
  <2>1. UNCHANGED <<open, bad, disk, fileLen, held, pageCount, capacity, lru, cache>>
    BY <1>5 DEF flush, file, store
  <2>2. (pc' = "flush" /\ job' = "flush" /\ pend' = pend) \/ Finish(OkReturn)
    BY <1>5 DEF flush
  <2>. QED  BY <2>1, <2>2, ReturnTypes DEF TypeOK
<1>6. CASE close
  <2>1. UNCHANGED <<open, bad, disk, fileLen, held, pageCount, capacity, lru, cache, pend>>
    BY <1>6 DEF close, file, store
  <2>2. pc' \in {"flush", "closed"} /\ job' \in {"close", "open", "create"}
    BY <1>6 DEF close
  <2>. QED  BY <2>1, <2>2 DEF TypeOK
<1>7. CASE evict_one
  BY <1>7, EvictTypes
<1>8. CASE evict_one_fails
  <2>1. IoWriteFails(lru[Len(lru)]) /\ lru # <<>>
    BY <1>8 DEF evict_one_fails
  <2>2. UNCHANGED <<open, pageCount, capacity, lru, cache>> /\ Finish(ErrorReturn)
    BY <1>8 DEF evict_one_fails, store
  <2>3. Zero \in Content
    BY DEF Content
  <2>. QED  BY <2>1, <2>2, <2>3, VictimTypes, IoTypes, ReturnTypes DEF TypeOK, FileTypes
<1>9. CASE insert_slot
  <2>1. pend.page \in PageId /\ pend.data \in Content /\ pend.dirty \in BOOLEAN
    BY <1>9 DEF insert_slot, TypeOK
  <2>2. UNCHANGED <<open, bad, disk, fileLen, held, pageCount, capacity>> /\ \E r : Finish(r)
    BY <1>9 DEF insert_slot, file
  <2>3. lru' \in Seq(PageId)
    BY <1>9, <2>1, PushType DEF insert_slot
  <2>4. /\ DOMAIN cache' \subseteq PageId
        /\ cache' \in [DOMAIN cache' -> Slot]
    BY <1>9, <2>1, StoreType DEF insert_slot
  <2>. QED  BY <2>2, <2>3, <2>4, ReturnTypes DEF TypeOK
<1>10. CASE shrink_done
  <2>1. UNCHANGED <<open, bad, disk, fileLen, held, pageCount, capacity, lru, cache>>
        /\ Finish(OkReturn)
    BY <1>10 DEF shrink_done, file, store
  <2>. QED  BY <2>1, ReturnTypes DEF TypeOK
<1>11. CASE flush_page
  <2>1. PICK p \in DirtyPages : /\ IoWrite(p, cache[p].data)
                                /\ cache' = Store(p, cache[p].data, FALSE)
    BY <1>11 DEF flush_page
  <2>2. p \in PageId /\ cache[p].data \in Content
    BY SlotTypes DEF DirtyPages
  <2>3. /\ DOMAIN cache' \subseteq PageId
        /\ cache' \in [DOMAIN cache' -> Slot]
    BY <2>1, <2>2, StoreType
  <2>4. UNCHANGED <<open, pageCount, capacity, lru, pc, pend, job>>
    BY <1>11 DEF flush_page
  <2>. QED  BY <2>1, <2>2, <2>3, <2>4, IoTypes DEF TypeOK, FileTypes
<1>12. CASE flush_page_fails
  <2>1. PICK p \in DirtyPages : IoWriteFails(p)
    BY <1>12 DEF flush_page_fails
  <2>2. p \in PageId /\ cache[p].data \in Content
    BY SlotTypes DEF DirtyPages
  <2>3. UNCHANGED <<open, pageCount, capacity, lru, cache>> /\ Finish(ErrorReturn)
    BY <1>12 DEF flush_page_fails, store
  <2>. QED  BY <2>1, <2>2, <2>3, IoTypes, ReturnTypes DEF TypeOK, FileTypes
<1>13. CASE flush_done
  <2>1. UNCHANGED <<open, pageCount, capacity, lru, cache>>
        /\ Finish(SyncReturn) /\ (IoSync \/ IoSyncFails)
    BY <1>13 DEF flush_done, store
  <2>. QED  BY <2>1, SyncTypes, ReturnTypes DEF TypeOK, FileTypes
<1>14. CASE close_done
  <2>1. /\ UNCHANGED <<pageCount, capacity, lru, cache, pend, job>>
        /\ pc' = "closed" /\ open' = FALSE /\ (IoSync \/ IoDrop)
    BY <1>14 DEF close_done, store
  <2>. QED  BY <2>1, SyncTypes DEF TypeOK, FileTypes
<1>15. CASE reopen
  <2>1. Zero \in Content
    BY DEF Content
  <2>2. /\ disk' \in [PageId -> Content]
        /\ fileLen' \in 0 .. MaxPages
        /\ pageCount' \in 0 .. MaxPages
    BY <1>15, <2>1, PagerAssumption DEF reopen, TypeOK, PagerAssumption
  <2>3. open' \in BOOLEAN /\ bad' \in BOOLEAN /\ held' = held
    BY <1>15 DEF reopen
  <2>4. clear_cache /\ Finish(OkReturn) /\ UNCHANGED capacity
    BY <1>15 DEF reopen
  <2>. QED  BY <2>2, <2>3, <2>4, EmptyType, ReturnTypes DEF TypeOK
<1>16. CASE open_fails
  <2>1. /\ clear_cache /\ Finish(ErrorReturn) /\ UNCHANGED <<capacity, disk, fileLen, held>>
        /\ open' = FALSE /\ bad' = TRUE /\ pageCount' = 0
    BY <1>16 DEF open_fails
  <2>2. pageCount' \in 0 .. MaxPages
    BY <2>1, PagerAssumption DEF PagerAssumption
  <2>. QED  BY <2>1, <2>2, EmptyType, ReturnTypes DEF TypeOK
<1>17. CASE Lose
  <2>1. /\ clear_cache /\ Finish(NoReturn)
        /\ open' = FALSE /\ bad' = FALSE /\ pageCount' = 0 /\ capacity' \in Capacities
    BY <1>17 DEF Lose
  <2>2. pageCount' \in 0 .. MaxPages
    BY <2>1, PagerAssumption DEF PagerAssumption
  <2>3. FileTypes'
    BY <1>17, LoseTypes
  <2>. QED  BY <2>1, <2>2, <2>3, EmptyType, ReturnTypes DEF TypeOK, FileTypes
<1>18. CASE UNCHANGED vars
  BY <1>18 DEF vars, TypeOK
<1>. QED
  BY NextCases, <1>1, <1>2, <1>3, <1>4, <1>5, <1>6, <1>7, <1>8, <1>9, <1>10,
     <1>11, <1>12, <1>13, <1>14, <1>15, <1>16, <1>17, <1>18

LEMMA TypeInit ==
    ASSUME Init
    PROVE  TypeOK
<1>1. pageCount \in 0 .. MaxPages /\ fileLen \in 0 .. MaxPages
  BY PagerAssumption DEF Init, PagerAssumption
<1>2. disk \in [PageId -> Content]
  BY DEF Init, Content
<1>3. DOMAIN cache \subseteq PageId /\ cache \in [DOMAIN cache -> Slot]
  BY DEF Init, EmptyCache
<1>4. lru \in Seq(PageId) /\ held = NoneHeld
  BY DEF Init
<1>5. pend \in [page : Nat, data : Content, dirty : BOOLEAN]
  BY DEF Init, NoPend, Content
<1>. QED  BY <1>1, <1>2, <1>3, <1>4, <1>5 DEF Init, TypeOK

\* The variables of the page file keep their types: among others, no page
\* number outside the file is ever cached or counted.
THEOREM TypeCorrect == Spec => []TypeOK
<1>1. TypeOK /\ [Next]_vars => TypeOK'
  BY TypeStep
<1>. QED  BY TypeInit, <1>1, PTL DEF Spec

----------------------------------------------------------------------------
(* The list and the map of the cache *)

\* touch_cache permutes the list.
LEMMA MoveShape ==
    ASSUME NEW S, NEW s \in Seq(S), NEW p \in Elements(s), Distinct(s)
    PROVE  /\ Distinct(MoveToFront(s, p))
           /\ Elements(MoveToFront(s, p)) = Elements(s)
<1> DEFINE n == Len(s)
           i == CHOOSE k \in 1 .. Len(s) : s[k] = p
           f == [k \in 1 .. Len(s) |-> IF k = 1 THEN p
                               ELSE IF k <= i THEN s[k - 1] ELSE s[k]]
<1>1. i \in 1 .. n /\ s[i] = p
  BY DEF Elements
<1>2. n \in Nat
  OBVIOUS
<1> HIDE DEF i
<1>3. Len(f) = n /\ \A k \in 1 .. n : f[k] \in S
  <2>1. \A k \in 1 .. n : f[k] \in S
    BY <1>1, <1>2
  <2>2. f \in [1 .. n -> S]
    BY <2>1
  <2>3. f \in Seq(S) /\ DOMAIN f = 1 .. n
    BY <2>2, <1>2
  <2>. QED  BY <2>1, <2>3, <1>2
<1>4. Distinct(f)
  <2> SUFFICES ASSUME NEW j \in 1 .. n, NEW k \in 1 .. n, f[j] = f[k], j < k
               PROVE  FALSE
    BY <1>2, <1>3 DEF Distinct
  <2>1. CASE j = 1
    BY <2>1, <1>1, <1>2 DEF Distinct
  <2>2. CASE j # 1
    BY <2>2, <1>1, <1>2 DEF Distinct
  <2>. QED  BY <2>1, <2>2
<1>5. Elements(f) \subseteq Elements(s)
  BY <1>1, <1>2, <1>3 DEF Elements
<1>6. Elements(s) \subseteq Elements(f)
  <2>. \A j \in 1 .. n : f[j] \in Elements(f)
    <3> HIDE DEF f
    <3>. QED  BY <1>3 DEF Elements
  <2> SUFFICES ASSUME NEW k \in 1 .. n
               PROVE  \E j \in 1 .. n : f[j] = s[k]
    <3> HIDE DEF f
    <3>1. \A x \in Elements(s) : \E k \in 1 .. n : x = s[k]
      BY DEF Elements
    <3>. QED  BY <3>1
  <2>1. CASE k < i
    <3>1. k + 1 \in 1 .. n /\ f[k + 1] = s[k]
      BY <2>1, <1>1, <1>2
    <3>. QED  BY <3>1
  <2>2. CASE k = i
    <3>1. 1 \in 1 .. n /\ f[1] = s[k]
      BY <2>2, <1>1, <1>2
    <3>. QED  BY <3>1
  <2>3. CASE k > i
    <3>1. f[k] = s[k]
      BY <2>3, <1>1, <1>2
    <3>. QED  BY <3>1
  <2>. QED  BY <2>1, <2>2, <2>3, <1>1, <1>2
<1>. QED  BY <1>4, <1>5, <1>6 DEF MoveToFront, i

\* push_front of a page that is not in the list.
LEMMA PushShape ==
    ASSUME NEW S, NEW s \in Seq(S), NEW p \in S, p \notin Elements(s), Distinct(s)
    PROVE  /\ Distinct(PushFront(s, p))
           /\ Elements(PushFront(s, p)) = Elements(s) \cup {p}
<1> DEFINE n == Len(s)
           f == [k \in 1 .. Len(s) + 1 |-> IF k = 1 THEN p ELSE s[k - 1]]
<1>1. n \in Nat
  OBVIOUS
<1>2. Len(f) = n + 1
  <2>1. f \in Seq(S)
    OBVIOUS
  <2>. QED  BY <2>1
<1>3. Distinct(f)
  <2> SUFFICES ASSUME NEW j \in 1 .. n + 1, NEW k \in 1 .. n + 1, f[j] = f[k], j < k
               PROVE  FALSE
    BY <1>1, <1>2 DEF Distinct
  <2>1. CASE j = 1
    BY <2>1, <1>1 DEF Elements
  <2>2. CASE j # 1
    BY <2>2, <1>1 DEF Distinct
  <2>. QED  BY <2>1, <2>2
<1>4. Elements(f) \subseteq Elements(s) \cup {p}
  <2> SUFFICES ASSUME NEW k \in 1 .. n + 1
               PROVE  f[k] \in Elements(s) \cup {p}
    BY <1>2 DEF Elements
  <2>1. CASE k = 1
    BY <2>1
  <2>2. CASE k # 1
    <3>1. k - 1 \in 1 .. n /\ f[k] = s[k - 1]
      BY <2>2, <1>1
    <3>. QED  BY <3>1 DEF Elements
  <2>. QED  BY <2>1, <2>2
<1>5. Elements(s) \cup {p} \subseteq Elements(f)
  <2>1. ASSUME NEW k \in 1 .. n
        PROVE  s[k] \in Elements(f)
    <3>1. k + 1 \in 1 .. n + 1 /\ f[k + 1] = s[k]
      BY <1>1
    <3>. QED  BY <3>1, <1>2 DEF Elements
  <2>2. p \in Elements(f)
    <3>1. 1 \in 1 .. n + 1 /\ f[1] = p
      BY <1>1
    <3>. QED  BY <3>1, <1>2 DEF Elements
  <2>. QED  BY <2>1, <2>2 DEF Elements
<1>. QED  BY <1>3, <1>4, <1>5 DEF PushFront

\* pop_back removes exactly the last page.
LEMMA DropShape ==
    ASSUME NEW S, NEW s \in Seq(S), s # <<>>, Distinct(s)
    PROVE  /\ Distinct(DropLast(s))
           /\ Elements(DropLast(s)) = Elements(s) \ {s[Len(s)]}
<1> DEFINE n == Len(s)
<1>1. n \in Nat /\ n >= 1
  OBVIOUS
<1>2. /\ Len(DropLast(s)) = n - 1
      /\ \A k \in 1 .. n - 1 : DropLast(s)[k] = s[k]
  <2>1. SubSeq(s, 1, n - 1) = [k \in 1 .. n - 1 |-> s[k]]
    BY <1>1
  <2>2. [k \in 1 .. n - 1 |-> s[k]] \in Seq(S)
    BY <1>1
  <2>3. Len([k \in 1 .. n - 1 |-> s[k]]) = n - 1
    BY <1>1, <2>2
  <2>. QED  BY <2>1, <2>3 DEF DropLast
<1>. QED  BY <1>1, <1>2 DEF Distinct, Elements

----------------------------------------------------------------------------
(* The stream: how its steps change what it holds *)

LEMMA StreamOfWrite ==
    ASSUME TypeOK, NEW p \in PageId, NEW d, IoWrite(p, d)
    PROVE  /\ Stream' = [Stream EXCEPT ![p] = d]
           /\ StreamLen' = Larger(StreamLen, p + 1)
           /\ Loose' \in {{}, {p}}
           /\ InStream(p, d)'
<1>1. p \in Nat /\ fileLen \in Nat /\ -1 \notin PageId
  BY DEF TypeOK, PageId
<1>2. StreamLen \in Nat
  BY StreamType
<1>3. CASE /\ disk' = Stream /\ fileLen' = StreamLen
           /\ held' = [page |-> p, data |-> d]
  <2>1. held'.page = p /\ held'.data = d
    BY <1>3
  <2>2. Stream' = [Stream EXCEPT ![p] = d]
    BY <1>3, <2>1, StreamType DEF Stream
  <2>. QED  BY <2>1, <2>2, <1>1, <1>2, <1>3 DEF StreamLen, Loose, InStream
<1>4. CASE /\ held = NoneHeld /\ held' = held
           /\ disk' = [disk EXCEPT ![p] = d]
           /\ fileLen' = Larger(fileLen, p + 1)
  <2>1. held.page = -1 /\ held'.page = -1
    BY <1>4 DEF NoneHeld
  <2>2. Stream = disk /\ StreamLen = fileLen
    <3>1. Stream = [q \in PageId |-> disk[q]]
      BY <2>1, <1>1 DEF Stream
    <3>2. StreamLen = fileLen
      BY <2>1, <1>1 DEF StreamLen, Larger
    <3>. QED  BY <3>1, <3>2 DEF TypeOK
  <2>3. Stream' = disk' /\ StreamLen' = fileLen'
    <3>1. Stream' = [q \in PageId |-> disk'[q]]
      BY <2>1, <1>1 DEF Stream
    <3>2. fileLen' \in Nat
      BY <1>1, <1>4 DEF Larger
    <3>3. StreamLen' = fileLen'
      BY <2>1, <3>2 DEF StreamLen, Larger
    <3>4. disk \in [PageId -> Content]
      BY DEF TypeOK
    <3>5. disk' = [q \in PageId |-> disk'[q]]
      BY <3>4, <1>4
    <3>. QED  BY <3>1, <3>3, <3>5
  <2>4. p < fileLen' /\ disk'[p] = d
    BY <1>1, <1>4 DEF Larger, TypeOK
  <2>. QED  BY <2>1, <2>2, <2>3, <2>4, <1>1, <1>4 DEF Loose, InStream
<1>. QED  BY <1>3, <1>4 DEF IoWrite

\* Whatever does not accept a page and does not give one up leaves the
\* stream as it is.
LEMMA StreamKept ==
    ASSUME TypeOK, IoSync \/ IoSyncFails \/ IoReadFails \/ UNCHANGED file
    PROVE  /\ Stream' = Stream
           /\ StreamLen' = StreamLen
           /\ Loose' \in {{}, Loose}
<1>1. fileLen \in Nat /\ StreamLen \in Nat /\ -1 \notin PageId
  BY StreamType DEF TypeOK, PageId
<1>2. CASE disk' = Stream /\ fileLen' = StreamLen /\ held' = NoneHeld
  <2>1. held'.page = -1
    BY <1>2 DEF NoneHeld
  <2>2. Stream' = Stream
    BY <2>1, <1>1, <1>2, StreamType DEF Stream
  <2>. QED  BY <2>1, <2>2, <1>1, <1>2 DEF StreamLen, Larger, Loose
<1>3. CASE IoSyncFails
  <2>1. held # NoneHeld /\ Tear(held.page) /\ held' = held
    BY <1>3 DEF IoSyncFails
  <2>2. held.page \in PageId /\ held.page \in Nat
    BY <2>1, StreamType DEF PageId
  <2>3. \A q \in PageId : q # held.page => disk'[q] = disk[q]
    BY <2>1, <2>2 DEF Tear, TypeOK
  <2>4. Stream' = Stream
    BY <2>1, <2>3 DEF Stream
  <2>5. StreamLen' = StreamLen
    BY <2>1, <2>2, <1>1 DEF Tear, StreamLen, Larger
  <2>. QED  BY <2>1, <2>4, <2>5 DEF Loose
<1>4. CASE UNCHANGED <<disk, fileLen, held>>
  BY <1>4 DEF Stream, StreamLen, Loose
<1>. QED  BY <1>2, <1>3, <1>4 DEF IoSync, IoReadFails, file

LEMMA InStreamFacts ==
    ASSUME TypeOK, NEW q \in PageId, NEW e, InStream(q, e)
    PROVE  q < StreamLen /\ Stream[q] = e
<1>1. q \in Nat /\ fileLen \in Nat /\ held.page \in PageId \cup {-1}
  BY StreamType DEF TypeOK, PageId
<1>2. CASE held = [page |-> q, data |-> e]
  BY <1>1, <1>2 DEF Stream, StreamLen, Larger
<1>3. CASE held.page # q /\ q < fileLen /\ disk[q] = e
  BY <1>1, <1>3 DEF Stream, StreamLen, Larger, PageId
<1>. QED  BY <1>2, <1>3 DEF InStream

\* The file has what the stream had, once the buffer is empty.
LEMMA SyncedStream ==
    ASSUME TypeOK, NEW q \in PageId, q < StreamLen,
           disk' = Stream, fileLen' = StreamLen, held' = NoneHeld
    PROVE  InStream(q, Stream[q])' /\ q < fileLen' /\ disk'[q] = Stream[q]
<1>1. held'.page = -1 /\ -1 # q
  BY DEF NoneHeld, PageId
<1>2. Stream' = Stream
  BY <1>1, StreamType DEF Stream, PageId
<1>. QED  BY <1>1, <1>2 DEF InStream

\* A step of the stream about other pages keeps what it has of page q.
LEMMA InStreamKept ==
    ASSUME TypeOK, NEW q \in PageId, NEW e, InStream(q, e),
           \/ IoSync \/ IoSyncFails \/ IoReadFails \/ UNCHANGED file
           \/ \E p \in PageId : p # q /\ (IoWriteFails(p) \/ \E d : IoWrite(p, d))
    PROVE  InStream(q, e)'
<1>1. q < StreamLen /\ Stream[q] = e
  BY InStreamFacts
<1>2. q \in Nat /\ fileLen \in Nat
  BY DEF TypeOK, PageId
<1>3. CASE UNCHANGED <<disk, fileLen, held>>
  BY <1>3 DEF InStream
<1>4. CASE disk' = Stream /\ fileLen' = StreamLen /\ held' = NoneHeld
  <2>1. held'.page # q
    BY <1>4, <1>2 DEF NoneHeld
  <2>. QED  BY <2>1, <1>1, <1>4 DEF InStream
<1>5. CASE IoSyncFails
  <2>1. held # NoneHeld /\ Tear(held.page) /\ held' = held
    BY <1>5 DEF IoSyncFails
  <2>2. held.page \in PageId /\ held.page \in Nat
    BY <2>1, StreamType DEF PageId
  <2>3. CASE held = [page |-> q, data |-> e]
    BY <2>1, <2>3 DEF InStream
  <2>4. CASE held.page # q /\ q < fileLen /\ disk[q] = e
    <3>1. disk'[q] = disk[q] /\ q < fileLen'
      BY <2>1, <2>2, <2>4, <1>2 DEF Tear, TypeOK, Larger
    <3>. QED  BY <2>1, <2>4, <3>1 DEF InStream
  <2>. QED  BY <2>3, <2>4 DEF InStream
<1>6. ASSUME NEW p \in PageId, p # q, NEW d, IoWrite(p, d)
      PROVE  InStream(q, e)'
  <2>1. CASE /\ disk' = Stream /\ fileLen' = StreamLen
             /\ held' = [page |-> p, data |-> d]
    <3>1. held'.page # q
      BY <2>1, <1>6
    <3>. QED  BY <3>1, <2>1, <1>1 DEF InStream
  <2>2. CASE /\ held = NoneHeld /\ held' = held
             /\ disk' = [disk EXCEPT ![p] = d]
             /\ fileLen' = Larger(fileLen, p + 1)
    <3>1. held.page # q /\ held'.page # q
      BY <2>2, <1>2 DEF NoneHeld
    <3>2. q < fileLen /\ disk[q] = e
      BY <3>1 DEF InStream
    <3>3. p \in Nat
      BY DEF PageId
    <3>4. disk'[q] = disk[q]
      BY <2>2, <1>6 DEF TypeOK
    <3>5. q < fileLen'
      BY <2>2, <3>2, <3>3, <1>2 DEF Larger
    <3>. QED  BY <3>1, <3>2, <3>4, <3>5 DEF InStream
  <2>. QED  BY <2>1, <2>2, <1>6 DEF IoWrite
<1>7. ASSUME NEW p \in PageId, p # q, held = NoneHeld, Tear(p), held' = held
      PROVE  InStream(q, e)'
  <2>1. held.page # q /\ held'.page # q
    BY <1>7, <1>2 DEF NoneHeld
  <2>2. q < fileLen /\ disk[q] = e
    BY <2>1 DEF InStream
  <2>3. p \in Nat
    BY DEF PageId
  <2>4. disk'[q] = disk[q]
    BY <1>7 DEF Tear, TypeOK
  <2>5. q < fileLen'
    BY <1>7, <2>2, <2>3, <1>2 DEF Tear, Larger
  <2>. QED  BY <2>1, <2>2, <2>4, <2>5 DEF InStream
<1>8. CASE \E p \in PageId : p # q /\ IoWriteFails(p)
  BY <1>8, <1>3, <1>5, <1>7 DEF IoWriteFails, file
<1>9. CASE IoReadFails
  BY <1>9, <1>3, <1>4, <1>5 DEF IoReadFails
<1>. QED  BY <1>3, <1>4, <1>5, <1>6, <1>8, <1>9 DEF IoSync, file

\* A failing write damages at most its own page, and that only if the buffer
\* was empty.
LEMMA StreamOfFailedWrite ==
    ASSUME TypeOK, NEW p \in PageId, IoWriteFails(p)
    PROVE  /\ bad' = TRUE
           /\ Stream' = Stream \/ (~bad /\ Stream' = [Stream EXCEPT ![p] = Torn])
           /\ Loose' \in {{}, Loose}
<1>1. CASE (bad /\ UNCHANGED file) \/ IoSyncFails
  <2>1. bad' = TRUE
    BY <1>1 DEF file, IoSyncFails, TypeOK
  <2>. QED  BY <1>1, <2>1, StreamKept
<1>2. CASE ~bad /\ held = NoneHeld /\ Tear(p) /\ bad' = TRUE /\ UNCHANGED held
  <2>1. held.page = -1 /\ held'.page = -1 /\ -1 \notin PageId
    BY <1>2 DEF NoneHeld, PageId
  <2>2. Stream = disk /\ Stream' = [q \in PageId |-> disk'[q]]
    BY <2>1 DEF Stream, TypeOK
  <2>3. disk' \in [PageId -> Content]
    BY <1>2, TearTypes
  <2>4. Stream' = disk'
    BY <2>2, <2>3
  <2>. QED  BY <1>2, <2>1, <2>2, <2>4 DEF Tear, Loose
<1>. QED  BY <1>1, <1>2 DEF IoWriteFails

----------------------------------------------------------------------------
(* The inductive invariant *)

Safe == CacheShape /\ CacheBounded /\ CleanMatchesFile /\ NoLostPage /\ PendingCurrent

Inv == TypeOK /\ Safe /\ FlushReachesFile

LEMMA CacheFinite ==
    ASSUME TypeOK
    PROVE  IsFiniteSet(DOMAIN cache) /\ CacheSize \in Nat
<1>1. IsFiniteSet(0 .. MaxPages - 1)
  BY PagerAssumption, FS_Interval DEF PagerAssumption
<1>. QED  BY <1>1, FS_Subset, FS_CardinalityType DEF TypeOK, PageId, CacheSize

LEMMA StoreFacts ==
    ASSUME NEW p, NEW d, NEW b \in BOOLEAN, cache' = Store(p, d, b)
    PROVE  /\ DOMAIN cache' = DOMAIN cache \cup {p}
           /\ cache'[p].data = d
           /\ cache'[p].dirty = b
           /\ \A q \in DOMAIN cache : q # p => cache'[q] = cache[q]
BY DEF Store

LEMMA ForgetFacts ==
    ASSUME NEW p, cache' = Forget(p)
    PROVE  /\ DOMAIN cache' = DOMAIN cache \ {p}
           /\ \A q \in DOMAIN cache' : cache'[q] = cache[q]
BY DEF Forget

\* clear_cache establishes what the invariant says of the cache.
LEMMA ClearSafe ==
    ASSUME TypeOK', clear_cache
    PROVE  CacheShape' /\ CacheBounded' /\ CleanMatchesFile' /\ DOMAIN cache' = {}
<1>1. lru' = <<>> /\ DOMAIN cache' = {}
  BY DEF clear_cache, EmptyCache
<1>2. CacheSize' = 0
  BY <1>1, FS_EmptySet DEF CacheSize
<1>3. capacity' \in Nat
  BY PagerAssumption DEF TypeOK, PagerAssumption
<1>. QED
  BY <1>1, <1>2, <1>3 DEF CacheShape, CacheBounded, CleanMatchesFile, Distinct, Elements

\* What the invariant says of the cache alone.
LEMMA StoreKept ==
    ASSUME Inv, UNCHANGED <<lru, cache>>
    PROVE  CacheShape' /\ CacheSize' = CacheSize /\ DirtyPages' = DirtyPages
BY DEF Inv, Safe, CacheShape, CacheSize, DirtyPages, Distinct, Elements

\* A step of the stream that is about no clean page of the cache.
LEMMA CleanKept ==
    ASSUME Inv, pc # "closed" \/ ~bad,
           \/ IoSync \/ IoSyncFails \/ IoReadFails \/ UNCHANGED file
           \/ \E p \in PageId : /\ Cached(p) => cache[p].dirty
                                /\ IoWriteFails(p) \/ \E d : IoWrite(p, d)
    PROVE  \A q \in DOMAIN cache : \A e :
              ~cache[q].dirty /\ cache[q].data = e => InStream(q, e)'
<1> SUFFICES ASSUME NEW q \in DOMAIN cache, NEW e, ~cache[q].dirty, cache[q].data = e
             PROVE  InStream(q, e)'
  OBVIOUS
<1>1. TypeOK /\ InStream(q, e) /\ q \in PageId
  BY DEF Inv, Safe, CleanMatchesFile, TypeOK
<1>2. \A p \in PageId : (Cached(p) => cache[p].dirty) => p # q
  BY DEF Cached
<1>. QED  BY <1>1, <1>2, InStreamKept

\* The same for a step that leaves the cache alone.
LEMMA StoreClean ==
    ASSUME Inv, pc # "closed" \/ ~bad, UNCHANGED cache,
           \/ IoSync \/ IoSyncFails \/ IoReadFails \/ UNCHANGED file
           \/ \E p \in PageId : /\ Cached(p) => cache[p].dirty
                                /\ IoWriteFails(p) \/ \E d : IoWrite(p, d)
    PROVE  CleanMatchesFile'
<1> SUFFICES ASSUME NEW q \in DOMAIN cache, ~cache[q].dirty
             PROVE  InStream(q, cache[q].data)'
  BY DEF CleanMatchesFile
<1>1. \A e : cache[q].data = e => InStream(q, e)'
  BY CleanKept
<1>. QED  BY <1>1 DEF InStream

\* A write that fails, whether it was put_cache's, evict_one's or
\* flush_dirty_pages': no clean page is damaged.
LEMMA FailSafe ==
    ASSUME Inv, TypeOK', NEW p \in PageId, Cached(p) => cache[p].dirty, IoWriteFails(p),
           UNCHANGED <<open, lru, cache>>, pc # "closed", pc' = "idle", open
    PROVE  Safe'
<1>1. bad' = TRUE
  BY StreamOfFailedWrite DEF Inv
<1>2. CacheShape'
  BY StoreKept
<1>3. CleanMatchesFile'
  BY StoreClean
<1>4. CacheBounded' /\ NoLostPage' /\ PendingCurrent'
  BY <1>1 DEF CacheBounded, NoLostPage, PendingCurrent
<1>. QED  BY <1>2, <1>3, <1>4 DEF Safe

LEMMA TouchShape ==
    ASSUME Inv, NEW p \in DOMAIN cache, touch_cache(p), DOMAIN cache' = DOMAIN cache
    PROVE  CacheShape'
<1>1. lru' = MoveToFront(lru, p)
  BY DEF touch_cache, Cached
<1>2. lru \in Seq(PageId) /\ Distinct(lru) /\ p \in Elements(lru)
  BY DEF Inv, Safe, TypeOK, CacheShape
<1>3. Distinct(lru') /\ Elements(lru') = Elements(lru)
  BY <1>1, <1>2, MoveShape
<1>. QED  BY <1>3 DEF CacheShape, Inv, Safe

\* Without a capacity and without an error nothing is cached between calls.
LEMMA NoCapacity ==
    ASSUME Inv, capacity = 0, ~bad, pc = "idle"
    PROVE  DOMAIN cache = {} /\ CacheSize = 0
<1>1. IsFiniteSet(DOMAIN cache) /\ CacheSize \in Nat
  BY CacheFinite DEF Inv
<1>2. CacheSize <= 0
  BY DEF Inv, Safe, CacheBounded
<1>3. CacheSize = 0
  BY <1>1, <1>2
<1>. QED  BY <1>1, <1>3, FS_EmptySet DEF CacheSize

LEMMA WriteSafe ==
    ASSUME Inv, TypeOK', NEW p \in PageId, p <= pageCount, NEW d \in Data \cup {Zero},
           write_page(p, d)
    PROVE  Safe'
<1>0. /\ p \in Nat /\ pageCount \in Nat /\ StreamLen \in Nat /\ capacity \in Nat
      /\ pageCount' = Larger(pageCount, p + 1)
      /\ pc = "idle" /\ open /\ open' = open /\ capacity' = capacity
      /\ TypeOK /\ Safe
  BY StreamType, PagerAssumption DEF Inv, write_page, TypeOK, PageId, PagerAssumption
<1>1. CASE WriteThrough(p, d)
  <2>1. /\ capacity = 0 /\ UNCHANGED <<lru, cache>> /\ pc' = "idle"
        /\ IoWrite(p, d) \/ IoWriteFails(p)
    BY <1>1 DEF WriteThrough, store, Finish
  <2>2. CASE IoWrite(p, d)
    <3>1. CacheSize = 0 /\ DOMAIN cache = {} /\ bad' = bad
      BY <1>0, <2>1, <2>2, NoCapacity DEF IoWrite
    <3>2. CacheShape' /\ CleanMatchesFile' /\ CacheSize' = CacheSize
      BY <3>1, <2>1, StoreKept DEF CleanMatchesFile
    <3>3. CacheBounded'
      BY <3>1, <3>2, <1>0 DEF CacheBounded
    <3>4. StreamLen' = Larger(StreamLen, p + 1)
      BY <1>0, <2>2, StreamOfWrite
    <3>5. NoLostPage'
      <4> SUFFICES ASSUME ~bad, NEW q \in 0 .. pageCount' - 1
                   PROVE  q < StreamLen'
        BY <3>1 DEF NoLostPage
      <4>1. CASE q < pageCount
        <5>1. q \in 0 .. pageCount - 1
          BY <4>1, <1>0
        <5>2. q < StreamLen
          BY <5>1, <1>0, <3>1 DEF Safe, NoLostPage, Cached
        <5>. QED  BY <5>1, <5>2, <1>0, <3>4 DEF Larger
      <4>2. CASE q >= pageCount
        BY <4>2, <1>0, <3>4 DEF Larger
      <4>. QED  BY <4>1, <4>2, <1>0 DEF Larger
    <3>6. PendingCurrent'
      BY <1>0, <2>1 DEF PendingCurrent
    <3>. QED  BY <3>2, <3>3, <3>5, <3>6 DEF Safe
  <2>3. CASE IoWriteFails(p)
    <3>1. CASE bad
      <4>1. bad' = TRUE
        BY <1>0, <2>3, StreamOfFailedWrite
      <4>2. UNCHANGED file
        BY <3>1, <2>3 DEF IoWriteFails
      <4>3. CacheShape'
        BY <2>1, StoreKept
      <4>4. CleanMatchesFile'
        BY <4>2, <2>1, <1>0, StoreClean
      <4>5. CacheBounded' /\ NoLostPage' /\ PendingCurrent'
        BY <4>1, <1>0, <2>1 DEF CacheBounded, NoLostPage, PendingCurrent
      <4>. QED  BY <4>3, <4>4, <4>5 DEF Safe
    <3>2. CASE ~bad
      <4>1. ~Cached(p)
        BY <3>2, <1>0, <2>1, NoCapacity DEF Cached
      <4>. QED  BY <4>1, <1>0, <2>1, <2>3, FailSafe
    <3>. QED  BY <3>1, <3>2
  <2>. QED  BY <2>1, <2>2, <2>3
<1>2. CASE ReplaceSlot(p, d)
  <2>1. /\ p \in DOMAIN cache /\ cache' = Store(p, d, TRUE) /\ touch_cache(p)
        /\ UNCHANGED <<bad, disk, fileLen, held>> /\ UNCHANGED file /\ pc' = "idle"
    BY <1>2 DEF ReplaceSlot, Cached, file, Finish
  <2>2. /\ DOMAIN cache' = DOMAIN cache
        /\ cache'[p].dirty = TRUE
        /\ \A q \in DOMAIN cache : q # p => cache'[q] = cache[q]
    <3>1. DOMAIN cache' = DOMAIN cache \cup {p}
      BY <2>1, StoreFacts
    <3>2. DOMAIN cache' = DOMAIN cache
      BY <3>1, <2>1
    <3>. QED  BY <3>2, <2>1, StoreFacts
  <2>3. CacheShape'
    BY <2>1, <2>2, TouchShape
  <2>4. CacheBounded'
    BY <2>1, <2>2, <1>0 DEF Safe, CacheBounded, CacheSize
  <2>5. CleanMatchesFile'
    BY <2>1, <2>2, <1>0 DEF Safe, CleanMatchesFile, InStream
  <2>6. StreamLen' = StreamLen
    BY <2>1, <1>0, StreamKept
  <2>7. NoLostPage'
    <3> SUFFICES ASSUME ~bad, NEW q \in 0 .. pageCount' - 1, q \notin DOMAIN cache
                 PROVE  q < StreamLen
      BY <2>1, <2>2, <2>6 DEF NoLostPage, Cached
    <3>1. q \in 0 .. pageCount - 1
      BY <1>0, <2>1 DEF Larger, Inv, Safe, NoLostPage, CacheShape, TypeOK
    <3>. QED  BY <3>1, <1>0 DEF Safe, NoLostPage, Cached
  <2>8. PendingCurrent'
    BY <2>1, <1>0 DEF PendingCurrent
  <2>. QED  BY <2>3, <2>4, <2>5, <2>7, <2>8 DEF Safe
<1>3. CASE MakeRoom(p, d, TRUE) /\ UNCHANGED file
  <2>1. /\ ~Cached(p) /\ pc' = "evict" /\ pend' = [page |-> p, data |-> d, dirty |-> TRUE]
        /\ UNCHANGED <<lru, cache>> /\ UNCHANGED bad
    BY <1>3 DEF MakeRoom, file, store
  <2>2. CacheShape' /\ CacheBounded'
    BY <2>1, <1>0, StoreKept DEF Safe, CacheBounded
  <2>3. CleanMatchesFile'
    BY <2>1, <1>0, <1>3, StoreClean
  <2>4. StreamLen' = StreamLen
    BY <1>3, <1>0, StreamKept
  <2>5. NoLostPage'
    BY <2>1, <2>4, <1>0 DEF Safe, NoLostPage, Larger, Cached
  <2>6. PendingCurrent'
    BY <2>1, <1>0 DEF PendingCurrent, Cached
  <2>. QED  BY <2>2, <2>3, <2>5, <2>6 DEF Safe
<1>. QED  BY <1>1, <1>2, <1>3 DEF write_page

\* A step that leaves the cache alone and gives the stream no page.
LEMMA QuietSafe ==
    ASSUME Inv, TypeOK', UNCHANGED <<open, lru, cache, pageCount>>,
           IoSync \/ IoSyncFails \/ IoReadFails \/ UNCHANGED file,
           pc \notin {"evict", "closed"}, pc' # "evict",
           (~bad' /\ pc' # "shrink") => CacheSize <= capacity',
           pc' = "flush" => open,
           pc' = "closed" => ~open /\ DirtyPages = {},
           ~open => held' = NoneHeld,
           ~open /\ pc' # "closed" => DOMAIN cache = {}
    PROVE  Safe'
<1>1. CacheShape' /\ CacheSize' = CacheSize /\ DirtyPages' = DirtyPages
  BY StoreKept
<1>2. CleanMatchesFile'
  BY StoreClean
<1>3. CacheBounded'
  BY <1>1 DEF CacheBounded
<1>4. StreamLen' = StreamLen
  BY StreamKept DEF Inv
<1>5. bad' = bad \/ bad' = TRUE
  BY DEF IoSync, IoSyncFails, IoReadFails, file
<1>6. NoLostPage'
  BY <1>4, <1>5 DEF Inv, Safe, NoLostPage, Cached
<1>7. PendingCurrent'
  BY <1>1 DEF PendingCurrent
<1>. QED  BY <1>1, <1>2, <1>3, <1>6, <1>7 DEF Safe

LEMMA ReadSafe ==
    ASSUME Inv, TypeOK', read_page
    PROVE  Safe'
<1>1. PICK p \in PageId : ReadPastEnd(p) \/ ReadThrough(p) \/ ReadHit(p)
                          \/ ReadMiss(p) \/ ReadFails(p)
  BY DEF read_page
<1>2. pc = "idle" /\ open /\ UNCHANGED <<open, pageCount, capacity>> /\ TypeOK /\ Safe
  BY DEF read_page, Inv
<1>3. CASE ReadPastEnd(p) \/ ReadThrough(p) \/ ReadFails(p)
  <2>1. /\ UNCHANGED <<lru, cache>> /\ pc' = "idle"
        /\ IoSync \/ IoReadFails \/ UNCHANGED file
    BY <1>3 DEF ReadPastEnd, ReadThrough, ReadFails, store, file, Finish
  <2>2. bad' = bad \/ bad' = TRUE
    BY <2>1 DEF IoSync, IoSyncFails, IoReadFails, file
  <2>3. ~bad' => CacheSize <= capacity'
    BY <2>2, <1>2 DEF Safe, CacheBounded
  <2>. QED  BY <2>1, <2>3, <1>2, QuietSafe
<1>4. CASE ReadHit(p)
  <2>1. /\ p \in DOMAIN cache /\ touch_cache(p)
        /\ UNCHANGED <<bad, cache>> /\ UNCHANGED file /\ pc' = "idle"
    BY <1>4 DEF ReadHit, Cached, file, Finish
  <2>2. CacheShape'
    BY <2>1, TouchShape
  <2>3. CleanMatchesFile'
    BY <2>1, <1>2, StoreClean
  <2>4. CacheBounded'
    BY <2>1, <1>2 DEF Safe, CacheBounded, CacheSize
  <2>5. StreamLen' = StreamLen
    BY <2>1, <1>2, StreamKept
  <2>6. NoLostPage' /\ PendingCurrent'
    BY <2>1, <2>5, <1>2 DEF Safe, NoLostPage, PendingCurrent, Cached
  <2>. QED  BY <2>2, <2>3, <2>4, <2>6 DEF Safe
<1>5. CASE ReadMiss(p)
  <2>1. /\ ~Cached(p) /\ p < StreamLen /\ pc' = "evict" /\ IoSync /\ UNCHANGED bad
        /\ pend' = [page |-> p, data |-> Stream[p], dirty |-> FALSE]
        /\ UNCHANGED <<lru, cache>>
    BY <1>5 DEF ReadMiss, MakeRoom, IoReadable, IoSync, store
  <2>2. CacheShape' /\ CacheBounded'
    BY <2>1, <1>2, StoreKept DEF Safe, CacheBounded
  <2>3. CleanMatchesFile'
    BY <2>1, <1>2, StoreClean
  <2>4. StreamLen' = StreamLen
    BY <2>1, <1>2, StreamKept
  <2>5. NoLostPage'
    BY <2>1, <2>4, <1>2 DEF Safe, NoLostPage, Cached
  <2>6. /\ held' = NoneHeld /\ p < fileLen' /\ disk'[p] = Stream[p]
    BY <2>1, <1>2, SyncedStream DEF IoSync
  <2>7. held'.page # p
    BY <2>6 DEF NoneHeld, PageId
  <2>8. PendingCurrent'
    BY <2>1, <2>6, <2>7, <1>2 DEF PendingCurrent, Cached, InStream
  <2>. QED  BY <2>2, <2>3, <2>5, <2>8 DEF Safe
<1>. QED  BY <1>1, <1>3, <1>4, <1>5

\* The victim is cached, so its page leaves the list and the map together; if
\* it is dirty the stream has it now, if it is clean the stream had it already.
LEMMA EvictSafe ==
    ASSUME Inv, TypeOK', evict_one
    PROVE  Safe'
<1> DEFINE v == lru[Len(lru)]
<1>0. TypeOK /\ Safe
  BY DEF Inv
<1>1. /\ lru # <<>> /\ lru' = DropLast(lru) /\ cache' = Forget(v)
      /\ UNCHANGED <<open, pageCount, capacity, pc, pend>>
      /\ pc \in {"evict", "shrink"}
  BY DEF evict_one, MustEvict
<1>2. v \in PageId /\ v \in DOMAIN cache /\ v \in Nat
  <2>1. v \in PageId /\ lru \in Seq(PageId)
    BY <1>0, <1>1, VictimTypes DEF TypeOK
  <2>2. Len(lru) \in 1 .. Len(lru)
    BY <2>1, <1>1
  <2>. QED  BY <2>1, <2>2, <1>0 DEF Safe, CacheShape, Elements, PageId
<1>3. /\ DOMAIN cache' = DOMAIN cache \ {v}
      /\ \A q \in DOMAIN cache' : cache'[q] = cache[q]
  BY <1>1, ForgetFacts
<1>4. CacheShape'
  <2>1. lru \in Seq(PageId) /\ Distinct(lru)
    BY <1>0 DEF Safe, TypeOK, CacheShape
  <2>2. Distinct(lru') /\ Elements(lru') = Elements(lru) \ {v}
    BY <2>1, <1>1, DropShape
  <2>. QED  BY <2>2, <1>3, <1>0 DEF Safe, CacheShape
<1>5. \/ cache[v].dirty /\ IoWrite(v, cache[v].data)
      \/ ~cache[v].dirty /\ UNCHANGED file
  BY <1>2 DEF evict_one, Cached
<1>6. bad' = bad
  BY <1>5 DEF IoWrite, file
<1>7. CacheBounded'
  <2>1. IsFiniteSet(DOMAIN cache) /\ CacheSize \in Nat
    BY <1>0, CacheFinite
  <2>2. CacheSize' = CacheSize - 1
    BY <2>1, <1>2, <1>3, FS_RemoveElement DEF CacheSize
  <2>3. capacity \in Nat
    BY <1>0, PagerAssumption DEF TypeOK, PagerAssumption
  <2>. QED  BY <2>1, <2>2, <2>3, <1>0, <1>1, <1>6 DEF Safe, CacheBounded
<1>8. StreamLen \in Nat /\ StreamLen' \in Nat /\ StreamLen' >= StreamLen /\ v < StreamLen'
  <2>1. StreamLen \in Nat
    BY <1>0, StreamType
  <2>2. CASE cache[v].dirty
    <3>1. StreamLen' = Larger(StreamLen, v + 1)
      BY <2>2, <1>0, <1>2, <1>5, StreamOfWrite
    <3>. QED  BY <3>1, <2>1, <1>2 DEF Larger
  <2>3. CASE ~cache[v].dirty
    <3>1. InStream(v, cache[v].data)
      BY <2>3, <1>0, <1>1, <1>2 DEF Safe, CleanMatchesFile
    <3>2. StreamLen' = StreamLen
      BY <2>3, <1>0, <1>5, StreamKept
    <3>. QED  BY <3>1, <3>2, <2>1, <1>0, <1>2, InStreamFacts
  <2>. QED  BY <2>2, <2>3
<1>9. \/ UNCHANGED file
      \/ \E p \in PageId : /\ Cached(p) => cache[p].dirty
                           /\ IoWriteFails(p) \/ \E d : IoWrite(p, d)
  BY <1>2, <1>5
<1>10. CleanMatchesFile'
  <2> SUFFICES ASSUME NEW q \in DOMAIN cache', ~cache'[q].dirty
               PROVE  InStream(q, cache[q].data)'
    BY DEF CleanMatchesFile
  <2>1. q \in DOMAIN cache /\ cache'[q] = cache[q]
    BY <1>3
  <2>2. \A e : cache[q].data = e => InStream(q, e)'
    BY <2>1, <1>1, <1>9, CleanKept
  <2>. QED  BY <2>1, <2>2 DEF InStream
<1>11. NoLostPage'
  <2> SUFFICES ASSUME open, ~bad, NEW q \in 0 .. pageCount - 1
               PROVE  q \in DOMAIN cache' \/ q < StreamLen' \/ (pc = "evict" /\ pend.page = q)
    BY <1>1, <1>6 DEF NoLostPage, Cached
  <2>1. q \in DOMAIN cache \/ q < StreamLen \/ (pc = "evict" /\ pend.page = q)
    BY <1>0 DEF Safe, NoLostPage, Cached
  <2>2. pageCount \in Nat /\ q \in Nat
    BY <1>0 DEF TypeOK
  <2>. QED  BY <2>1, <2>2, <1>3, <1>8
<1>12. PendingCurrent'
  <2>1. CASE pc = "shrink"
    <3>1. ~open => DOMAIN cache = {}
      BY <2>1, <1>0 DEF Safe, PendingCurrent
    <3>2. open
      BY <3>1, <1>2
    <3>. QED  BY <2>1, <3>2, <1>1 DEF PendingCurrent
  <2>2. CASE pc = "evict"
    <3>1. /\ open /\ pend.page \notin DOMAIN cache /\ pend.page \in PageId
          /\ IF pend.dirty THEN pend.data \in Data \cup {Zero}
             ELSE InStream(pend.page, pend.data)
      BY <2>2, <1>0 DEF Safe, PendingCurrent, Cached, TypeOK
    <3>2. \A x \in PageId : \A y : InStream(x, y) /\ x # v => InStream(x, y)'
      BY <1>0, <1>2, <1>5, InStreamKept
    <3>3. ~pend.dirty => \A x, y : x = pend.page /\ y = pend.data => InStream(x, y)'
      BY <3>1, <3>2, <1>2
    <3>4. ~pend.dirty => InStream(pend.page, pend.data)'
      BY <3>3, <1>1 DEF InStream
    <3>. QED  BY <2>2, <3>1, <3>4, <1>1, <1>3 DEF PendingCurrent, Cached
  <2>. QED  BY <2>1, <2>2, <1>1
<1>. QED  BY <1>4, <1>7, <1>10, <1>11, <1>12 DEF Safe

LEMMA InsertSafe ==
    ASSUME Inv, TypeOK', insert_slot
    PROVE  Safe'
<1> DEFINE p == pend.page
<1>0. TypeOK /\ Safe
  BY DEF Inv
<1>1. /\ pc = "evict" /\ pc' = "idle" /\ ~MustEvict
      /\ lru' = PushFront(lru, p) /\ cache' = Store(p, pend.data, pend.dirty)
      /\ UNCHANGED <<open, bad, disk, fileLen, held, pageCount, capacity>>
  BY DEF insert_slot, Finish, file
<1>2. p \in PageId /\ p \notin DOMAIN cache /\ pend.dirty \in BOOLEAN /\ open
  BY <1>0, <1>1 DEF Safe, TypeOK, PendingCurrent, Cached
<1>3. /\ DOMAIN cache' = DOMAIN cache \cup {p}
      /\ cache'[p].data = pend.data
      /\ cache'[p].dirty = pend.dirty
      /\ \A q \in DOMAIN cache : q # p => cache'[q] = cache[q]
  BY <1>1, <1>2, StoreFacts
<1>4. CacheShape'
  <2>1. lru \in Seq(PageId) /\ Distinct(lru) /\ p \notin Elements(lru)
    BY <1>0, <1>2 DEF Safe, TypeOK, CacheShape
  <2>2. Distinct(lru') /\ Elements(lru') = Elements(lru) \cup {p}
    BY <2>1, <1>1, <1>2, PushShape
  <2>. QED  BY <2>2, <1>0, <1>3 DEF Safe, CacheShape
<1>5. CacheBounded'
  <2>1. IsFiniteSet(DOMAIN cache) /\ CacheSize \in Nat
    BY <1>0, CacheFinite
  <2>2. CacheSize' = CacheSize + 1
    BY <2>1, <1>2, <1>3, FS_AddElement DEF CacheSize
  <2>3. CacheSize < capacity /\ capacity \in Nat
    BY <2>1, <1>0, <1>1, PagerAssumption DEF MustEvict, TypeOK, PagerAssumption
  <2>. QED  BY <2>1, <2>2, <2>3, <1>1 DEF CacheBounded
<1>6. CleanMatchesFile'
  <2>1. ASSUME NEW q \in DOMAIN cache', ~cache'[q].dirty, q # p
        PROVE  InStream(q, cache'[q].data)
    BY <2>1, <1>0, <1>1, <1>3 DEF Safe, CleanMatchesFile
  <2>2. ASSUME ~cache'[p].dirty
        PROVE  InStream(p, cache'[p].data)
    BY <2>2, <1>0, <1>1, <1>2, <1>3 DEF Safe, PendingCurrent
  <2>. QED  BY <2>1, <2>2, <1>1 DEF CleanMatchesFile, InStream
<1>7. StreamLen' = StreamLen
  BY <1>1 DEF StreamLen
<1>8. NoLostPage'
  BY <1>0, <1>1, <1>3, <1>7 DEF Safe, NoLostPage, Cached
<1>9. PendingCurrent'
  BY <1>1, <1>2 DEF PendingCurrent
<1>. QED  BY <1>4, <1>5, <1>6, <1>8, <1>9 DEF Safe

LEMMA FlushPageSafe ==
    ASSUME Inv, TypeOK', flush_page
    PROVE  Safe'
<1>0. TypeOK /\ Safe
  BY DEF Inv
<1>1. PICK p \in DirtyPages : /\ IoWrite(p, cache[p].data)
                              /\ cache' = Store(p, cache[p].data, FALSE)
  BY DEF flush_page
<1>2. /\ p \in DOMAIN cache /\ p \in PageId /\ p \in Nat /\ cache[p].dirty
      /\ pc = "flush" /\ UNCHANGED <<open, pageCount, capacity, lru, pc, pend>>
  BY <1>0 DEF flush_page, DirtyPages, TypeOK, PageId
<1>3. /\ DOMAIN cache' = DOMAIN cache \cup {p}
      /\ cache'[p].data = cache[p].data
      /\ \A q \in DOMAIN cache : q # p => cache'[q] = cache[q]
  BY <1>1, StoreFacts
<1>4. DOMAIN cache' = DOMAIN cache
  BY <1>2, <1>3
<1>5. /\ StreamLen \in Nat /\ StreamLen' \in Nat /\ StreamLen' >= StreamLen
      /\ bad' = bad
  <2>1. StreamLen \in Nat
    BY <1>0, StreamType
  <2>2. StreamLen' = Larger(StreamLen, p + 1)
    BY <1>0, <1>1, <1>2, StreamOfWrite
  <2>. QED  BY <2>1, <2>2, <1>1, <1>2 DEF Larger, IoWrite
<1>6. CacheShape'
  BY <1>0, <1>2, <1>4 DEF Safe, CacheShape, Distinct, Elements
<1>7. CacheBounded'
  BY <1>0, <1>2, <1>4, <1>5 DEF Safe, CacheBounded, CacheSize
<1>8. CleanMatchesFile'
  <2> SUFFICES ASSUME NEW q \in DOMAIN cache, ~cache'[q].dirty
               PROVE  InStream(q, cache[q].data)'
    BY <1>4 DEF CleanMatchesFile
  <2>1. CASE q = p
    <3>1. \A y : y = cache[p].data => InStream(p, y)'
      BY <1>0, <1>1, <1>2, StreamOfWrite
    <3>. QED  BY <2>1, <3>1, <1>3 DEF InStream
  <2>2. CASE q # p
    <3>1. cache'[q] = cache[q]
      BY <2>2, <1>3
    <3>2. \A e : cache[q].data = e => InStream(q, e)'
      BY <3>1, <1>1, <1>2, CleanKept
    <3>. QED  BY <3>1, <3>2 DEF InStream
  <2>. QED  BY <2>1, <2>2
<1>9. NoLostPage'
  <2> SUFFICES ASSUME open, ~bad, NEW q \in 0 .. pageCount - 1
               PROVE  q \in DOMAIN cache \/ q < StreamLen'
    BY <1>2, <1>4, <1>5 DEF NoLostPage, Cached
  <2>1. q \in DOMAIN cache \/ q < StreamLen
    BY <1>0, <1>2 DEF Safe, NoLostPage, Cached
  <2>2. pageCount \in Nat /\ q \in Nat
    BY <1>0 DEF TypeOK
  <2>. QED  BY <2>1, <2>2, <1>5
<1>10. PendingCurrent'
  <2>1. open
    BY <1>0, <1>2 DEF Safe, PendingCurrent
  <2>. QED  BY <2>1, <1>2 DEF PendingCurrent
<1>. QED  BY <1>6, <1>7, <1>8, <1>9, <1>10 DEF Safe

LEMMA SafeStep ==
    ASSUME Inv, [Next]_vars
    PROVE  Safe'
<1>a. TypeOK /\ Safe
  BY DEF Inv
<1>0. TypeOK'
  BY <1>a, TypeStep
<1>1. CASE WritePage
  BY <1>0, <1>1, WriteSafe DEF WritePage
<1>2. CASE allocate_page
  <2>1. pageCount \in PageId /\ pageCount <= pageCount
    BY <1>a, <1>2, PagerAssumption DEF allocate_page, TypeOK, PageId, PagerAssumption
  <2>. QED  BY <1>0, <1>2, <2>1, WriteSafe DEF allocate_page
<1>3. CASE read_page
  BY <1>0, <1>3, ReadSafe
<1>4. CASE set_cache_capacity
  <2>1. /\ UNCHANGED <<open, lru, cache, pageCount>> /\ UNCHANGED file /\ held' = held
        /\ pc = "idle" /\ pc' = "shrink"
    BY <1>4 DEF set_cache_capacity, file, store
  <2>. QED  BY <2>1, <1>0, <1>a, QuietSafe DEF Safe, PendingCurrent
<1>5. CASE flush
  <2>1. /\ UNCHANGED <<open, lru, cache, pageCount, capacity, bad>> /\ UNCHANGED file
        /\ held' = held /\ pc = "idle" /\ pc' = IF open THEN "flush" ELSE "idle"
    BY <1>5 DEF flush, file, store, Finish
  <2>. QED  BY <2>1, <1>0, <1>a, QuietSafe DEF Safe, PendingCurrent, CacheBounded
<1>6. CASE close
  <2>1. /\ UNCHANGED <<open, lru, cache, pageCount, capacity, bad>> /\ UNCHANGED file
        /\ held' = held /\ pc = "idle" /\ pc' = IF open THEN "flush" ELSE "closed"
    BY <1>6 DEF close, file, store
  <2>2. ~open => DirtyPages = {}
    BY <2>1, <1>a DEF Safe, PendingCurrent, DirtyPages
  <2>. QED  BY <2>1, <2>2, <1>0, <1>a, QuietSafe DEF Safe, PendingCurrent, CacheBounded
<1>7. CASE evict_one
  BY <1>0, <1>7, EvictSafe
<1>8. CASE evict_one_fails
  <2> DEFINE v == lru[Len(lru)]
  <2>1. /\ IoWriteFails(v) /\ v \in DOMAIN cache /\ cache[v].dirty
        /\ UNCHANGED <<open, lru, cache>> /\ pc' = "idle"
        /\ pc \in {"evict", "shrink"}
    BY <1>8 DEF evict_one_fails, Cached, store, Finish, MustEvict
  <2>2. open /\ v \in PageId
    BY <2>1, <1>a DEF Safe, PendingCurrent, TypeOK
  <2>. QED  BY <1>0, <2>1, <2>2, FailSafe
<1>9. CASE insert_slot
  BY <1>0, <1>9, InsertSafe
<1>10. CASE shrink_done
  <2>1. /\ UNCHANGED <<open, lru, cache, pageCount, capacity>> /\ UNCHANGED file
        /\ held' = held /\ pc = "shrink" /\ pc' = "idle" /\ ~MustEvict
    BY <1>10 DEF shrink_done, file, store, Finish
  <2>2. CacheSize <= capacity
    BY <2>1, <1>a, CacheFinite, PagerAssumption DEF MustEvict, TypeOK, PagerAssumption
  <2>. QED  BY <2>1, <2>2, <1>0, <1>a, QuietSafe DEF Safe, PendingCurrent
<1>11. CASE flush_page
  BY <1>0, <1>11, FlushPageSafe
<1>12. CASE flush_page_fails
  <2>1. PICK p \in DirtyPages : IoWriteFails(p)
    BY <1>12 DEF flush_page_fails
  <2>2. UNCHANGED <<open, lru, cache>> /\ pc' = "idle" /\ pc = "flush"
    BY <1>12 DEF flush_page_fails, store, Finish
  <2>3. open /\ p \in PageId
    BY <2>2, <1>a DEF Safe, PendingCurrent, DirtyPages, TypeOK
  <2>. QED  BY <1>0, <2>1, <2>2, <2>3, FailSafe DEF DirtyPages
<1>13. CASE flush_done
  <2>1. /\ UNCHANGED <<open, lru, cache, pageCount, capacity>>
        /\ IoSync \/ IoSyncFails
        /\ pc = "flush" /\ pc' = "idle"
    BY <1>13 DEF flush_done, file, store, Finish
  <2>2. open /\ (~bad' => ~bad)
    BY <2>1, <1>13, <1>a DEF Safe, PendingCurrent, IoSync, IoSyncFails, flush_done
  <2>. QED  BY <2>1, <2>2, <1>0, <1>13, <1>a, QuietSafe
            DEF Safe, PendingCurrent, CacheBounded, flush_done
<1>14. CASE close_done
  <2>1. /\ UNCHANGED <<lru, cache, pageCount, capacity>> /\ held' = NoneHeld
        /\ pc = "flush" /\ pc' = "closed" /\ open' = FALSE /\ DirtyPages = {}
        /\ IoSync \/ bad' = TRUE
    BY <1>14 DEF close_done, store, IoSync, IoDrop
  <2>2. CacheShape' /\ CacheSize' = CacheSize /\ DirtyPages' = DirtyPages
    BY <2>1, StoreKept
  <2>3. CleanMatchesFile'
    <3>1. CASE IoSync
      BY <2>1, <3>1, StoreClean
    <3>2. CASE bad' = TRUE
      BY <2>1, <3>2 DEF CleanMatchesFile
    <3>. QED  BY <2>1, <3>1, <3>2
  <2>4. CacheBounded'
    BY <2>1, <2>2, <1>a DEF Safe, CacheBounded, IoSync
  <2>5. NoLostPage' /\ PendingCurrent'
    BY <2>1, <2>2 DEF NoLostPage, PendingCurrent
  <2>. QED  BY <2>2, <2>3, <2>4, <2>5 DEF Safe
<1>15. CASE reopen
  <2>1. clear_cache /\ pc' = "idle" /\ held' = NoneHeld
    BY <1>15, <1>a DEF reopen, Finish, Safe, PendingCurrent
  <2>2. CacheShape' /\ CacheBounded' /\ CleanMatchesFile' /\ DOMAIN cache' = {}
    BY <1>0, <2>1, ClearSafe
  <2>3. PendingCurrent'
    BY <2>1, <2>2 DEF PendingCurrent
  <2>4. NoLostPage'
    <3>1. fileLen' \in Nat /\ held'.page = -1
      BY <1>0, <2>1 DEF TypeOK, NoneHeld
    <3>2. pageCount' = 0 \/ pageCount' = fileLen'
      BY <1>15 DEF reopen
    <3>3. StreamLen' = fileLen'
      BY <3>1 DEF StreamLen, Larger
    <3>. QED  BY <3>1, <3>2, <3>3 DEF NoLostPage
  <2>. QED  BY <2>2, <2>3, <2>4 DEF Safe
<1>16. CASE open_fails
  <2>1. clear_cache /\ pc' = "idle" /\ open' = FALSE /\ held' = NoneHeld
    BY <1>16, <1>a DEF open_fails, Finish, Safe, PendingCurrent
  <2>2. CacheShape' /\ CacheBounded' /\ CleanMatchesFile' /\ DOMAIN cache' = {}
    BY <1>0, <2>1, ClearSafe
  <2>. QED  BY <2>1, <2>2 DEF Safe, NoLostPage, PendingCurrent
<1>17. CASE Lose
  <2>1. clear_cache /\ pc' = "idle" /\ open' = FALSE /\ held' = NoneHeld
    BY <1>17 DEF Lose, Finish
  <2>2. CacheShape' /\ CacheBounded' /\ CleanMatchesFile' /\ DOMAIN cache' = {}
    BY <1>0, <2>1, ClearSafe
  <2>. QED  BY <2>1, <2>2 DEF Safe, NoLostPage, PendingCurrent
<1>18. CASE UNCHANGED vars
  <2>1. UNCHANGED <<open, bad, pageCount, capacity, lru, cache, pc, pend, fileLen, held, disk>>
    BY <1>18 DEF vars
  <2>2. StreamLen' = StreamLen
    BY <2>1 DEF StreamLen
  <2>. QED
    BY <2>1, <2>2, <1>a DEF Safe, CacheShape, CacheBounded, CleanMatchesFile, NoLostPage,
       PendingCurrent, InStream, Distinct, Elements, CacheSize, Cached, DirtyPages
<1>. QED
  BY NextCases, <1>1, <1>2, <1>3, <1>4, <1>5, <1>6, <1>7, <1>8, <1>9, <1>10,
     <1>11, <1>12, <1>13, <1>14, <1>15, <1>16, <1>17, <1>18

\* flush answers only when nothing is dirty; what the buffer still held is in
\* the file then, or the stream has failed.
LEMMA FlushStep ==
    ASSUME Inv, [Next]_vars
    PROVE  FlushReachesFile'
<1>1. CASE flush_done
  <2> SUFFICES ASSUME ~bad', NEW p \in DOMAIN cache'
               PROVE  p < fileLen' /\ disk'[p] = cache'[p].data
    BY DEF FlushReachesFile
  <2>1. IoSync /\ DirtyPages = {} /\ UNCHANGED cache /\ pc = "flush"
    BY <1>1 DEF flush_done, store, IoSyncFails
  <2>2. TypeOK /\ p \in PageId /\ InStream(p, cache[p].data)
    BY <2>1 DEF Inv, Safe, CleanMatchesFile, DirtyPages, TypeOK
  <2>3. p < StreamLen /\ Stream[p] = cache[p].data
    BY <2>2, InStreamFacts
  <2>. QED  BY <2>1, <2>2, <2>3, SyncedStream DEF IoSync
<1>2. CASE UNCHANGED vars
  BY <1>2 DEF vars, Inv, FlushReachesFile
<1>3. CASE [Next]_vars /\ ~flush_done /\ ~UNCHANGED vars
  <2>1. /\ OkReturn # SyncReturn /\ ErrorReturn # SyncReturn /\ NoReturn # SyncReturn
        /\ \A p, d : PageReturn(p, d) # SyncReturn
    <3>1. \A p, d : PageReturn(p, d).kind = "page"
      BY DEF PageReturn
    <3>. QED  BY <3>1 DEF OkReturn, ErrorReturn, SyncReturn, NoReturn
  <2>2. CASE WritePage \/ allocate_page \/ read_page
    BY <2>1, <2>2
    DEF WritePage, allocate_page, write_page, WriteThrough, ReplaceSlot, MakeRoom,
        read_page, ReadPastEnd, ReadThrough, ReadHit, ReadMiss, ReadFails, Finish,
        FlushReachesFile
  <2>3. CASE set_cache_capacity \/ flush \/ close \/ close_done
    BY <2>1, <2>3 DEF set_cache_capacity, flush, close, close_done, Finish,
       FlushReachesFile
  <2>4. CASE evict_one \/ evict_one_fails \/ insert_slot \/ shrink_done
    BY <2>1, <2>4 DEF evict_one, evict_one_fails, insert_slot, shrink_done, Finish,
       MustEvict, FlushReachesFile
  <2>5. CASE flush_page \/ flush_page_fails \/ reopen \/ open_fails \/ Lose
    BY <2>1, <2>5 DEF flush_page, flush_page_fails, reopen, open_fails, Lose, Finish,
       FlushReachesFile
  <2>. QED  BY <1>3, <2>2, <2>3, <2>4, <2>5, NextCases
<1>. QED  BY <1>1, <1>2, <1>3

LEMMA SafeInit ==
    ASSUME Init
    PROVE  Safe /\ FlushReachesFile
<1>1. DOMAIN cache = {} /\ lru = <<>> /\ pc = "idle" /\ ~open /\ held = NoneHeld
  BY DEF Init, EmptyCache
<1>2. CacheSize = 0 /\ capacity \in Nat
  BY <1>1, FS_EmptySet, PagerAssumption DEF CacheSize, Init, PagerAssumption
<1>. QED
  BY <1>1, <1>2 DEF Safe, CacheShape, CacheBounded, CleanMatchesFile, NoLostPage,
     PendingCurrent, FlushReachesFile, Distinct, Elements

THEOREM Invariance == Spec => []Inv
<1>1. Init => Inv
  BY TypeInit, SafeInit DEF Inv
<1>2. Inv /\ [Next]_vars => Inv'
  BY TypeStep, SafeStep, FlushStep DEF Inv
<1>. QED  BY <1>1, <1>2, PTL DEF Spec

\* lru_ and cache_ always hold the same pages, each once, and no more than
\* the capacity unless the stream has failed, whatever the order of hits,
\* insertions, evictions, failures and crashes.
THEOREM CacheSoundHolds == Spec => []CacheSound
<1>1. Inv => CacheSound
  BY DEF Inv, Safe, CacheSound
<1>. QED  BY Invariance, <1>1, PTL

\* A page that is not dirty can be dropped: the file has it, or the stream
\* still has to give it to the file.
THEOREM CleanMatchesFileHolds == Spec => []CleanMatchesFile
<1>1. Inv => CleanMatchesFile
  BY DEF Inv, Safe
<1>. QED  BY Invariance, <1>1, PTL

\* A flush after which the stream has not failed has left nothing behind,
\* neither in the cache nor in the stream's buffer.
THEOREM FlushReachesFileHolds == Spec => []FlushReachesFile
<1>1. Inv => FlushReachesFile
  BY DEF Inv
<1>. QED  BY Invariance, <1>1, PTL

\* Without an I/O error no page below page_count_ is unreadable.
THEOREM NoLostPageHolds == Spec => []NoLostPage
<1>1. Inv => NoLostPage
  BY DEF Inv, Safe
<1>. QED  BY Invariance, <1>1, PTL

\* What put_cache is about to insert is still current when it gets there, and
\* close leaves nothing dirty behind.
THEOREM PendingCurrentHolds == Spec => []PendingCurrent
<1>1. Inv => PendingCurrent
  BY DEF Inv, Safe
<1>. QED  BY Invariance, <1>1, PTL

----------------------------------------------------------------------------
(* The refinement: under the invariant every step of Pager is, through the
   mapping View, a step of PageStore or changes nothing it can see. *)

(* The steps of PageStore, stated in the variables of Pager. *)

LEMMA AbstractWrite ==
    ASSUME NEW p \in PageId, NEW d \in Data \cup {Zero},
           View' = [View EXCEPT ![p] = d],
           \/ UNCHANGED <<Stream, Loose>>
           \/ Stream' = [Stream EXCEPT ![p] = d] /\ Loose' \in {{}, {p}},
           UNCHANGED bad, ret' = OkReturn
    PROVE  PS!Next
<1>1. PS!Write(p, d)
  BY DEF PS!Write, PS!Give, PS!OkReturn, OkReturn
<1>. QED  BY <1>1 DEF PS!Next

LEMMA AbstractRead ==
    ASSUME NEW p \in PageId, UNCHANGED <<View, Stream, bad>>, Loose' \in {{}, Loose},
           ret' = PageReturn(p, View[p])
    PROVE  PS!Next
<1>1. PS!Read(p)
  BY DEF PS!Read, PS!PageReturn, PageReturn
<1>. QED  BY <1>1 DEF PS!Next

LEMMA AbstractWriteBack ==
    ASSUME NEW p \in PageId, Stream' = [Stream EXCEPT ![p] = View[p]],
           Loose' \in {{}, {p}}, UNCHANGED <<View, bad, ret>>
    PROVE  PS!Next
<1>1. PS!WriteBack(p)
  BY DEF PS!WriteBack, PS!Give
<1>. QED  BY <1>1 DEF PS!Next

LEMMA AbstractSettle ==
    ASSUME UNCHANGED <<View, Stream, bad, ret>>, Loose' = {}
    PROVE  PS!Next
<1>1. PS!Settle
  BY DEF PS!Settle
<1>. QED  BY <1>1 DEF PS!Next

\* A call that throws without touching the contents.
LEMMA AbstractError ==
    ASSUME UNCHANGED <<View, Stream>>, Loose' \in {{}, Loose}, bad' \in {bad, TRUE},
           ret' = ErrorReturn
    PROVE  PS!Next
<1>1. 0 \in PageId
  BY PagerAssumption DEF PageId, PagerAssumption
<1>2. PS!Fail(0)
  BY DEF PS!Fail, PS!ErrorReturn, ErrorReturn
<1>. QED  BY <1>1, <1>2 DEF PS!Next

\* A call that throws after damaging page p of the file.
LEMMA AbstractTorn ==
    ASSUME NEW p \in PageId, Stream' = [Stream EXCEPT ![p] = Torn],
           Stream \in [PageId -> Content],
           View' = View \/ (View = Stream /\ View' = Stream'),
           Loose' \in {{}, Loose}, bad' \in {bad, TRUE}, ret' = ErrorReturn
    PROVE  PS!Next
<1>1. CASE View' = View
  <2>1. PS!Fail(p)
    BY <1>1 DEF PS!Fail, PS!ErrorReturn, ErrorReturn
  <2>. QED  BY <2>1 DEF PS!Next
<1>2. CASE View = Stream /\ View' = Stream' /\ View' # View
  <2>1. Stream' # Stream
    BY <1>2
  <2>2. Stream'[p] = Torn
    OBVIOUS
  <2>3. View' = [View EXCEPT ![p] = Stream'[p]]
    BY <1>2, <2>2
  <2>4. PS!Fail(p)
    BY <2>1, <2>3 DEF PS!Fail, PS!ErrorReturn, ErrorReturn
  <2>. QED  BY <2>4 DEF PS!Next
<1>. QED  BY <1>1, <1>2

LEMMA AbstractReturn ==
    ASSUME UNCHANGED <<View, Stream, Loose, bad>>, ret' = OkReturn
    PROVE  PS!Next
<1>1. PS!Return
  BY DEF PS!Return, PS!OkReturn, OkReturn
<1>. QED  BY <1>1 DEF PS!Next

----------------------------------------------------------------------------
(* What callers see, and how a step changes it *)

LEMMA ViewUnchanged ==
    ASSUME UNCHANGED <<cache, Stream>>
    PROVE  UNCHANGED View
BY DEF View, Cached

\* What PageStore has of the file, as long as nothing happens to the stream.
LEMMA FileUnchanged ==
    ASSUME UNCHANGED file
    PROVE  UNCHANGED <<Stream, Loose, bad>>
BY DEF file, Stream, Loose

\* A stream with nothing in the cache is what callers see.
LEMMA ViewOfFile ==
    ASSUME TypeOK, DOMAIN cache = {}
    PROVE  View = Stream
BY StreamType DEF View, Cached

\* So is a stream under a cache with nothing dirty.
LEMMA ViewOfCleanFile ==
    ASSUME Inv, DirtyPages = {}, pc # "closed" \/ ~bad
    PROVE  View = Stream
<1>1. TypeOK /\ Stream \in [PageId -> Content]
  BY StreamType DEF Inv
<1>2. \A p \in PageId : Cached(p) => InStream(p, cache[p].data)
  BY DEF Cached, DirtyPages, Inv, Safe, CleanMatchesFile
<1>3. \A p \in PageId : Cached(p) => Stream[p] = cache[p].data
  BY <1>1, <1>2, InStreamFacts
<1>4. \A p \in PageId : View[p] = Stream[p]
  BY <1>3 DEF View
<1>5. View = [p \in PageId |-> View[p]]
  BY DEF View
<1>. QED  BY <1>1, <1>4, <1>5

\* A page that enters the cache, or is replaced there, is what callers see.
LEMMA ViewOfStore ==
    ASSUME NEW p \in PageId, NEW d, NEW b \in BOOLEAN,
           cache' = Store(p, d, b), UNCHANGED Stream
    PROVE  View' = [View EXCEPT ![p] = d]
<1>1. /\ DOMAIN cache' = DOMAIN cache \cup {p}
      /\ cache'[p].data = d
      /\ \A q \in DOMAIN cache : q # p => cache'[q] = cache[q]
  BY StoreFacts
<1>2. \A q \in PageId : View'[q] = IF q = p THEN d ELSE View[q]
  BY <1>1 DEF View, Cached
<1>3. View' = [q \in PageId |-> View'[q]] /\ View = [q \in PageId |-> View[q]]
  BY DEF View
<1>. QED  BY <1>2, <1>3

\* A page of the stream changes under an empty cache: callers see it change.
LEMMA ViewOfEmptyCache ==
    ASSUME DOMAIN cache' = {}
    PROVE  View' = Stream'
BY DEF View, Cached, Stream

\* A page of the stream changes under its cached copy: callers see nothing.
LEMMA ViewHidesWrite ==
    ASSUME TypeOK, NEW p \in DOMAIN cache, UNCHANGED cache, NEW d,
           Stream' = [Stream EXCEPT ![p] = d]
    PROVE  UNCHANGED View
<1>1. \A q \in PageId : q # p => Stream'[q] = Stream[q]
  BY StreamType
<1>2. \A q \in PageId : View'[q] = View[q]
  BY <1>1 DEF View, Cached
<1>3. View' = [q \in PageId |-> View'[q]] /\ View = [q \in PageId |-> View[q]]
  BY DEF View
<1>. QED  BY <1>2, <1>3

----------------------------------------------------------------------------
(* The steps of Pager, one lemma for each kind *)

\* A write that fails, whether it was evict_one's or flush_dirty_pages'.
LEMMA RefineFailedWrite ==
    ASSUME TypeOK, NEW p \in DOMAIN cache, IoWriteFails(p), UNCHANGED cache,
           ret' = ErrorReturn
    PROVE  PS!Next
<1>1. p \in PageId /\ Stream \in [PageId -> Content]
  BY StreamType DEF TypeOK
<1>2. /\ bad' \in {bad, TRUE} /\ Loose' \in {{}, Loose}
      /\ Stream' = Stream \/ Stream' = [Stream EXCEPT ![p] = Torn]
  BY <1>1, StreamOfFailedWrite
<1>3. CASE Stream' = Stream
  BY <1>2, <1>3, ViewUnchanged, AbstractError
<1>4. CASE Stream' = [Stream EXCEPT ![p] = Torn]
  <2>1. UNCHANGED View
    BY <1>4, ViewHidesWrite
  <2>. QED  BY <1>1, <1>2, <1>4, <2>1, AbstractTorn
<1>. QED  BY <1>2, <1>3, <1>4

LEMMA RefineWrite ==
    ASSUME Inv, TypeOK', NEW p \in PageId, NEW d \in Data \cup {Zero}, write_page(p, d)
    PROVE  PS!Next \/ UNCHANGED PS!vars
<1>0. pc = "idle" /\ TypeOK
  BY DEF write_page, Inv
<1>1. CASE WriteThrough(p, d)
  <2>1. UNCHANGED cache /\ capacity = 0
    BY <1>1 DEF WriteThrough, store
  <2>2. CASE IoWrite(p, d) /\ Finish(OkReturn)
    <3>1. ~bad /\ UNCHANGED bad /\ ret' = OkReturn
      BY <2>2 DEF IoWrite, Finish
    <3>2. Stream' = [Stream EXCEPT ![p] = d] /\ Loose' \in {{}, {p}}
      BY <1>0, <2>2, StreamOfWrite
    <3>3. DOMAIN cache = {}
      BY <3>1, <2>1, <1>0, NoCapacity
    <3>4. View = Stream /\ View' = Stream'
      BY <3>3, <2>1, <1>0, ViewOfFile, ViewOfEmptyCache
    <3>. QED  BY <3>1, <3>2, <3>4, AbstractWrite
  <2>3. CASE IoWriteFails(p) /\ Finish(ErrorReturn)
    <3>1. /\ ret' = ErrorReturn /\ bad' \in {bad, TRUE} /\ Loose' \in {{}, Loose}
          /\ Stream' = Stream \/ (~bad /\ Stream' = [Stream EXCEPT ![p] = Torn])
      BY <1>0, <2>3, StreamOfFailedWrite DEF Finish
    <3>2. CASE Stream' = Stream
      BY <3>1, <3>2, <2>1, ViewUnchanged, AbstractError
    <3>3. CASE ~bad /\ Stream' = [Stream EXCEPT ![p] = Torn]
      <4>1. DOMAIN cache = {}
        BY <3>3, <2>1, <1>0, NoCapacity
      <4>2. View = Stream /\ View' = Stream'
        BY <4>1, <2>1, <1>0, ViewOfFile, ViewOfEmptyCache
      <4>3. Stream \in [PageId -> Content]
        BY <1>0, StreamType
      <4>. QED  BY <3>1, <3>3, <4>2, <4>3, AbstractTorn
    <3>. QED  BY <3>1, <3>2, <3>3
  <2>. QED  BY <1>1, <2>2, <2>3 DEF WriteThrough
<1>2. CASE ReplaceSlot(p, d)
  <2>1. cache' = Store(p, d, TRUE) /\ UNCHANGED file /\ ret' = OkReturn
    BY <1>2 DEF ReplaceSlot, Finish
  <2>2. UNCHANGED <<Stream, Loose, bad>>
    BY <2>1, FileUnchanged
  <2>3. View' = [View EXCEPT ![p] = d]
    BY <2>1, <2>2, ViewOfStore
  <2>. QED  BY <2>1, <2>2, <2>3, AbstractWrite
<1>3. CASE MakeRoom(p, d, TRUE) /\ UNCHANGED file
  <2>1. UNCHANGED <<cache, ret>>
    BY <1>3 DEF MakeRoom, store
  <2>. QED  BY <1>3, <2>1, FileUnchanged, ViewUnchanged DEF PS!vars
<1>. QED  BY <1>1, <1>2, <1>3 DEF write_page

LEMMA RefineRead ==
    ASSUME Inv, TypeOK', read_page
    PROVE  PS!Next
<1>0. pc = "idle" /\ TypeOK
  BY DEF read_page, Inv
<1>1. PICK p \in PageId : ReadPastEnd(p) \/ ReadThrough(p) \/ ReadHit(p)
                          \/ ReadMiss(p) \/ ReadFails(p)
  BY DEF read_page
<1>2. CASE ReadPastEnd(p) \/ ReadFails(p)
  <2>1. UNCHANGED cache /\ ret' = ErrorReturn /\ (IoReadFails \/ UNCHANGED file)
    BY <1>2 DEF ReadPastEnd, ReadFails, Finish, store
  <2>2. Stream' = Stream /\ Loose' \in {{}, Loose}
    BY <2>1, <1>0, StreamKept
  <2>3. bad' \in {bad, TRUE}
    BY <2>1 DEF IoReadFails, IoSyncFails, file
  <2>. QED  BY <2>1, <2>2, <2>3, ViewUnchanged, AbstractError
<1>3. CASE ReadThrough(p)
  <2>1. /\ UNCHANGED cache /\ IoSync /\ UNCHANGED bad /\ ~bad /\ capacity = 0
        /\ ret' = PageReturn(p, Stream[p])
    BY <1>3 DEF ReadThrough, IoReadable, IoSync, Finish, store
  <2>2. Stream' = Stream /\ Loose' \in {{}, Loose}
    BY <2>1, <1>0, StreamKept
  <2>3. View = Stream
    BY <2>1, <1>0, NoCapacity, ViewOfFile
  <2>. QED  BY <2>1, <2>2, <2>3, ViewUnchanged, AbstractRead
<1>4. CASE ReadHit(p)
  <2>1. /\ UNCHANGED cache /\ UNCHANGED file /\ p \in DOMAIN cache
        /\ ret' = PageReturn(p, cache[p].data)
    BY <1>4 DEF ReadHit, Cached, Finish
  <2>2. View[p] = cache[p].data
    BY <2>1 DEF View, Cached
  <2>3. UNCHANGED <<Stream, Loose, bad>>
    BY <2>1, FileUnchanged
  <2>. QED  BY <2>1, <2>2, <2>3, ViewUnchanged, AbstractRead
<1>5. CASE ReadMiss(p)
  <2>1. UNCHANGED <<cache, ret, bad>> /\ IoSync /\ held' = NoneHeld
    BY <1>5 DEF ReadMiss, MakeRoom, IoSync, store
  <2>2. Stream' = Stream
    BY <2>1, <1>0, StreamKept
  <2>3. Loose' = {}
    BY <2>1 DEF Loose, NoneHeld, PageId
  <2>. QED  BY <2>1, <2>2, <2>3, ViewUnchanged, AbstractSettle
<1>. QED  BY <1>1, <1>2, <1>3, <1>4, <1>5

\* A dirty victim is written before it is dropped, a clean one is in the
\* stream.
LEMMA RefineEvict ==
    ASSUME Inv, evict_one
    PROVE  PS!Next \/ UNCHANGED PS!vars
<1> DEFINE v == lru[Len(lru)]
<1>0. TypeOK /\ Safe
  BY DEF Inv
<1>1. /\ lru # <<>> /\ cache' = Forget(v) /\ UNCHANGED ret /\ pc # "closed"
  BY DEF evict_one, MustEvict
<1>2. v \in PageId /\ v \in DOMAIN cache
  <2>1. v \in PageId /\ lru \in Seq(PageId)
    BY <1>0, <1>1, VictimTypes DEF TypeOK
  <2>2. Len(lru) \in 1 .. Len(lru)
    BY <2>1, <1>1
  <2>. QED  BY <2>1, <2>2, <1>0 DEF Safe, CacheShape, Elements
<1>3. /\ DOMAIN cache' = DOMAIN cache \ {v}
      /\ \A q \in DOMAIN cache' : cache'[q] = cache[q]
  BY <1>1, ForgetFacts
<1>4. View[v] = cache[v].data /\ Stream \in [PageId -> Content]
  BY <1>0, <1>2, StreamType DEF View, Cached
<1>5. ASSUME Stream'[v] = View[v], \A q \in PageId : q # v => Stream'[q] = Stream[q]
      PROVE  UNCHANGED View
  <2>1. \A q \in PageId : View'[q] = View[q]
    BY <1>3, <1>5 DEF View, Cached
  <2>2. View' = [q \in PageId |-> View'[q]] /\ View = [q \in PageId |-> View[q]]
    BY DEF View
  <2>. QED  BY <2>1, <2>2
<1>6. CASE cache[v].dirty
  <2>1. IoWrite(v, View[v])
    BY <1>6, <1>2, <1>4 DEF evict_one, Cached
  <2>2. ASSUME NEW d, d = View[v]
        PROVE  Stream' = [Stream EXCEPT ![v] = View[v]] /\ Loose' \in {{}, {v}}
    BY <2>1, <2>2, <1>0, <1>2, StreamOfWrite
  <2>3. UNCHANGED View
    BY <2>2, <1>2, <1>4, <1>5
  <2>. QED  BY <2>1, <2>2, <2>3, <1>1, <1>2, AbstractWriteBack DEF IoWrite
<1>7. CASE ~cache[v].dirty
  <2>1. UNCHANGED file
    BY <1>7, <1>2 DEF evict_one, Cached
  <2>2. InStream(v, cache[v].data)
    BY <1>7, <1>0, <1>1, <1>2 DEF Safe, CleanMatchesFile
  <2>3. Stream[v] = View[v]
    BY <2>2, <1>0, <1>2, <1>4, InStreamFacts
  <2>4. UNCHANGED <<Stream, Loose, bad>>
    BY <2>1, FileUnchanged
  <2>5. UNCHANGED View
    BY <2>3, <2>4, <1>5
  <2>. QED  BY <2>4, <2>5, <1>1 DEF PS!vars
<1>. QED  BY <1>6, <1>7

\* A page that was written is seen from now on; one that was read is seen
\* already, for it is still what the stream holds.
LEMMA RefineInsert ==
    ASSUME Inv, insert_slot
    PROVE  PS!Next
<1> DEFINE p == pend.page
<1>0. TypeOK /\ Safe
  BY DEF Inv
<1>1. /\ pc = "evict" /\ cache' = Store(p, pend.data, pend.dirty) /\ UNCHANGED file
      /\ ret' = IF pend.dirty THEN OkReturn ELSE PageReturn(p, pend.data)
  BY DEF insert_slot, Finish
<1>2. p \in PageId /\ ~Cached(p) /\ pend.dirty \in BOOLEAN
  BY <1>0, <1>1 DEF Safe, TypeOK, PendingCurrent
<1>3. UNCHANGED <<Stream, Loose, bad>>
  BY <1>1, FileUnchanged
<1>4. View' = [View EXCEPT ![p] = pend.data]
  BY <1>1, <1>2, <1>3, ViewOfStore
<1>5. CASE pend.dirty
  <2>1. pend.data \in Data \cup {Zero}
    BY <1>0, <1>1, <1>5 DEF Safe, PendingCurrent
  <2>. QED  BY <1>1, <1>2, <1>3, <1>4, <1>5, <2>1, AbstractWrite
<1>6. CASE ~pend.dirty
  <2>1. InStream(p, pend.data)
    BY <1>0, <1>1, <1>6 DEF Safe, PendingCurrent
  <2>2. View[p] = pend.data
    BY <2>1, <1>0, <1>2, InStreamFacts DEF View
  <2>3. View = [q \in PageId |-> View[q]]
    BY DEF View
  <2>4. UNCHANGED View
    BY <1>4, <2>2, <2>3
  <2>. QED  BY <1>1, <1>2, <1>3, <1>6, <2>2, <2>4, AbstractRead
<1>. QED  BY <1>5, <1>6, <1>2

LEMMA RefineFlushPage ==
    ASSUME Inv, flush_page
    PROVE  PS!Next
<1>0. TypeOK
  BY DEF Inv
<1>1. PICK p \in DirtyPages : /\ IoWrite(p, cache[p].data)
                              /\ cache' = Store(p, cache[p].data, FALSE)
  BY DEF flush_page
<1>2. p \in DOMAIN cache /\ p \in PageId /\ UNCHANGED <<ret, bad>>
  BY <1>0, <1>1 DEF flush_page, DirtyPages, TypeOK, IoWrite
<1>3. View[p] = cache[p].data
  BY <1>2 DEF View, Cached
<1>4. Stream' = [Stream EXCEPT ![p] = View[p]] /\ Loose' \in {{}, {p}}
  BY <1>0, <1>1, <1>2, <1>3, StreamOfWrite
<1>5. /\ DOMAIN cache' = DOMAIN cache \cup {p}
      /\ cache'[p].data = cache[p].data
      /\ \A q \in DOMAIN cache : q # p => cache'[q] = cache[q]
  BY <1>1, StoreFacts
<1>6. \A q \in PageId : q # p => Stream'[q] = Stream[q]
  BY <1>0, <1>4, StreamType
<1>7. \A q \in PageId : View'[q] = View[q]
  BY <1>2, <1>5, <1>6 DEF View, Cached
<1>8. View' = [q \in PageId |-> View'[q]] /\ View = [q \in PageId |-> View[q]]
  BY DEF View
<1>. QED  BY <1>2, <1>4, <1>7, <1>8, AbstractWriteBack

\* flush has given the file everything; what the buffer held is in the file,
\* or the stream has failed and still has it.
LEMMA RefineFlushDone ==
    ASSUME Inv, flush_done
    PROVE  PS!Next
<1>0. TypeOK /\ View = Stream
  BY ViewOfCleanFile DEF Inv, flush_done
<1>1. UNCHANGED cache /\ ret' = SyncReturn /\ (IoSync \/ IoSyncFails)
  BY DEF flush_done, store, Finish
<1>2. UNCHANGED <<Stream, View>>
  BY <1>0, <1>1, StreamKept, ViewUnchanged
<1>3. \/ Loose' = {} /\ UNCHANGED bad
      \/ UNCHANGED Loose /\ bad' = TRUE
  BY <1>1 DEF IoSync, IoSyncFails, Loose, NoneHeld, PageId
<1>4. PS!Sync
  BY <1>0, <1>1, <1>2, <1>3 DEF PS!Sync, PS!SyncReturn, SyncReturn
<1>. QED  BY <1>4 DEF PS!Next

\* Without the buffer the file is the stream.
LEMMA StreamOfFile ==
    ASSUME held' = NoneHeld, disk' \in [PageId -> Content]
    PROVE  Stream' = disk' /\ Loose' = {}
<1>1. held'.page = -1 /\ -1 \notin PageId
  BY DEF NoneHeld, PageId
<1>2. Stream' = [p \in PageId |-> disk'[p]]
  BY <1>1 DEF Stream
<1>. QED  BY <1>1, <1>2 DEF Loose

\* The page of the buffer is lost, or written in part.
LEMMA StreamDropped ==
    ASSUME TypeOK, held # NoneHeld, Tear(held.page), held' = NoneHeld
    PROVE  /\ held.page \in PageId /\ Loose = {held.page} /\ Loose' = {}
           /\ disk'[held.page] \in Content
           /\ Stream' = [Stream EXCEPT ![held.page] = disk'[held.page]]
<1> DEFINE h == held.page
<1>1. /\ h \in PageId /\ Loose = {h}
      /\ disk \in [PageId -> Content] /\ disk' \in [PageId -> Content]
  BY StreamType, TearTypes DEF TypeOK, Loose
<1>2. Stream' = disk' /\ Loose' = {}
  BY <1>1, StreamOfFile
<1>3. \A q \in PageId : q # h => disk'[q] = disk[q]
  BY <1>1 DEF Tear
<1>4. \A q \in PageId : disk'[q] = [Stream EXCEPT ![h] = disk'[h]][q]
  BY <1>1, <1>3 DEF Stream
<1>5. Stream \in [PageId -> Content]
  BY StreamType
<1>6. Stream' = [Stream EXCEPT ![h] = disk'[h]]
  BY <1>1, <1>2, <1>4, <1>5
<1>. QED  BY <1>1, <1>2, <1>6

\* close has given the file everything too, and settles or drops the buffer.
LEMMA RefineCloseDone ==
    ASSUME Inv, close_done
    PROVE  PS!Next
<1>0. TypeOK
  BY DEF Inv
<1>1. UNCHANGED <<cache, ret>> /\ (IoSync \/ IoDrop)
  BY DEF close_done, store
<1>2. CASE IoSync
  <2>1. UNCHANGED <<Stream, View>>
    BY <1>0, <1>1, <1>2, StreamKept, ViewUnchanged
  <2>2. Loose' = {} /\ UNCHANGED bad
    BY <1>2 DEF IoSync, Loose, NoneHeld, PageId
  <2>. QED  BY <1>1, <2>1, <2>2, AbstractSettle
<1>3. CASE IoDrop
  <2> DEFINE h == held.page
  <2>1. held # NoneHeld /\ Tear(h) /\ held' = NoneHeld /\ bad' = TRUE
    BY <1>3 DEF IoDrop
  <2>2. /\ h \in PageId /\ Loose = {h} /\ Loose' = {} /\ disk'[h] \in Content
        /\ Stream' = [Stream EXCEPT ![h] = disk'[h]]
    BY <1>0, <2>1, StreamDropped
  <2>3. Stream \in [PageId -> Content]
    BY <1>0, StreamType
  <2>4. Stream'[h] = disk'[h] /\ \A q \in PageId : q # h => Stream'[q] = Stream[q]
    BY <2>2, <2>3
  <2>5. View' \in {View, [View EXCEPT ![h] = Stream'[h]]}
    <3>1. \A q \in PageId : q # h => View'[q] = View[q]
      BY <1>1, <2>4 DEF View, Cached
    <3>2. Cached(h) => View'[h] = View[h]
      BY <1>1, <2>2 DEF View, Cached
    <3>3. ~Cached(h) => View'[h] = Stream'[h]
      BY <1>1, <2>2 DEF View, Cached
    <3>4. View' = [q \in PageId |-> View'[q]] /\ View = [q \in PageId |-> View[q]]
      BY DEF View
    <3>. QED  BY <3>1, <3>2, <3>3, <3>4, <2>2
  <2>6. PS!Drop(h)
    BY <1>1, <2>1, <2>2, <2>5 DEF PS!Drop, PS!Content, Content
  <2>. QED  BY <2>2, <2>6 DEF PS!Next
<1>. QED  BY <1>1, <1>2, <1>3

\* The rest of close, and of open, once the file is closed: unless the stream
\* has failed the file has what callers saw.
LEMMA RefineReopen ==
    ASSUME Inv, TypeOK', reopen \/ open_fails
    PROVE  PS!Next
<1>0. TypeOK /\ Safe
  BY DEF Inv
<1>1. pc = "closed" /\ ~open /\ DirtyPages = {} /\ held = NoneHeld /\ held' = NoneHeld
  BY <1>0 DEF reopen, open_fails, Safe, PendingCurrent
<1>2. bad \/ View = Stream
  BY <1>1, ViewOfCleanFile
<1>3. Loose = {}
  BY <1>1 DEF Loose, NoneHeld, PageId
<1>4. Stream = disk
  BY <1>0, <1>1 DEF Stream, NoneHeld, PageId, TypeOK
<1>5. DOMAIN cache' = {} /\ ret' \in {OkReturn, ErrorReturn} /\ bad' \in BOOLEAN
  BY EmptyType DEF reopen, open_fails, Finish, TypeOK
<1>6. Stream' = disk' /\ Loose' = {} /\ View' = Stream'
  BY <1>1, <1>5, StreamOfFile, ViewOfEmptyCache DEF TypeOK
<1>7. disk' \in {disk, [p \in PageId |-> Zero]}
  BY DEF reopen, open_fails
<1>8. PS!Reopen
  BY <1>2, <1>3, <1>4, <1>5, <1>6, <1>7
  DEF PS!Reopen, PS!OkReturn, PS!ErrorReturn, OkReturn, ErrorReturn
<1>. QED  BY <1>8 DEF PS!Next

LEMMA RefineLose ==
    ASSUME TypeOK, TypeOK', Lose
    PROVE  PS!Next
<1>1. DOMAIN cache' = {} /\ ret' = NoReturn /\ bad' = FALSE /\ held' = NoneHeld
  BY EmptyType DEF Lose, Finish
<1>2. Stream' = disk' /\ Loose' = {} /\ View' = Stream'
  BY <1>1, StreamOfFile, ViewOfEmptyCache DEF TypeOK
<1>3. Zero \in Content /\ Stream \in [PageId -> Content]
  BY StreamType DEF Content
<1>4. \E d \in Content :
         Stream' \in {Stream, [p \in PageId |-> IF p \in Loose THEN d ELSE Stream[p]]}
  <2>1. CASE disk' = Stream
    BY <2>1, <1>2, <1>3
  <2>2. CASE held # NoneHeld /\ Tear(held.page)
    <3>1. /\ held.page \in PageId /\ Loose = {held.page} /\ disk'[held.page] \in Content
          /\ Stream' = [Stream EXCEPT ![held.page] = disk'[held.page]]
      BY <2>2, <1>1, StreamDropped
    <3>2. Stream' = [p \in PageId |-> IF p \in Loose THEN disk'[held.page] ELSE Stream[p]]
      BY <3>1, <1>3
    <3>. QED  BY <3>1, <3>2
  <2>. QED  BY <2>1, <2>2 DEF Lose
<1>5. PS!Lose
  BY <1>1, <1>2, <1>4 DEF PS!Lose, PS!NoReturn, NoReturn, PS!Content, Content
<1>. QED  BY <1>5 DEF PS!Next

LEMMA RefineStep ==
    ASSUME Inv, TypeOK', [Next]_vars
    PROVE  PS!Next \/ UNCHANGED PS!vars
<1>0. TypeOK
  BY DEF Inv
<1>1. CASE WritePage
  BY <1>1, RefineWrite DEF WritePage
<1>2. CASE allocate_page
  <2>1. pageCount \in PageId
    BY <1>0, <1>2, PagerAssumption DEF allocate_page, TypeOK, PageId, PagerAssumption
  <2>. QED  BY <1>2, <2>1, RefineWrite DEF allocate_page
<1>3. CASE read_page
  BY <1>3, RefineRead
<1>4. CASE set_cache_capacity \/ close
  <2>1. UNCHANGED <<cache, ret>> /\ UNCHANGED file
    BY <1>4 DEF set_cache_capacity, close, store
  <2>. QED  BY <2>1, FileUnchanged, ViewUnchanged DEF PS!vars
<1>5. CASE flush
  <2>1. UNCHANGED cache /\ UNCHANGED file /\ (UNCHANGED ret \/ ret' = OkReturn)
    BY <1>5 DEF flush, store, Finish
  <2>2. UNCHANGED <<View, Stream, Loose, bad>>
    BY <2>1, FileUnchanged, ViewUnchanged
  <2>. QED  BY <2>1, <2>2, AbstractReturn DEF PS!vars
<1>6. CASE evict_one
  BY <1>6, RefineEvict
<1>7. CASE evict_one_fails
  <2>1. /\ lru[Len(lru)] \in DOMAIN cache /\ IoWriteFails(lru[Len(lru)])
        /\ UNCHANGED cache /\ ret' = ErrorReturn
    BY <1>7 DEF evict_one_fails, Cached, Finish, store
  <2>. QED  BY <1>0, <2>1, RefineFailedWrite
<1>8. CASE insert_slot
  BY <1>8, RefineInsert
<1>9. CASE shrink_done
  <2>1. UNCHANGED cache /\ UNCHANGED file /\ ret' = OkReturn
    BY <1>9 DEF shrink_done, store, Finish
  <2>. QED  BY <2>1, FileUnchanged, ViewUnchanged, AbstractReturn
<1>10. CASE flush_page
  BY <1>10, RefineFlushPage
<1>11. CASE flush_page_fails
  <2>1. PICK p \in DirtyPages : IoWriteFails(p)
    BY <1>11 DEF flush_page_fails
  <2>2. p \in DOMAIN cache /\ UNCHANGED cache /\ ret' = ErrorReturn
    BY <1>11 DEF flush_page_fails, DirtyPages, Finish, store
  <2>. QED  BY <1>0, <2>1, <2>2, RefineFailedWrite
<1>12. CASE flush_done
  BY <1>12, RefineFlushDone
<1>13. CASE close_done
  BY <1>13, RefineCloseDone
<1>14. CASE reopen \/ open_fails
  BY <1>14, RefineReopen
<1>15. CASE Lose
  BY <1>0, <1>15, RefineLose
<1>16. CASE UNCHANGED vars
  <2>1. UNCHANGED file /\ UNCHANGED <<cache, ret>>
    BY <1>16 DEF vars, file
  <2>. QED  BY <2>1, FileUnchanged, ViewUnchanged DEF PS!vars
<1>. QED
  BY NextCases, <1>1, <1>2, <1>3, <1>4, <1>5, <1>6, <1>7, <1>8, <1>9, <1>10,
     <1>11, <1>12, <1>13, <1>14, <1>15, <1>16

LEMMA RefineInit ==
    ASSUME Init
    PROVE  PS!Init
<1>1. /\ DOMAIN cache = {} /\ disk = [p \in PageId |-> Zero] /\ ret = NoReturn
      /\ held = NoneHeld /\ bad = FALSE
  BY DEF Init, EmptyCache
<1>2. Stream = disk /\ Loose = {}
  BY <1>1 DEF Stream, Loose, NoneHeld, PageId
<1>3. View = Stream
  BY <1>1, ViewOfFile, TypeInit
<1>. QED  BY <1>1, <1>2, <1>3 DEF PS!Init, PS!NoReturn, NoReturn

\* read_page answers with what was last written, wherever the page is; a
\* flush that returns has given the file every page, and the file has lost
\* none of them unless it has failed and then only the one it took last;
\* evictions and crashes only ever show what the file caught up with.
THEOREM Refinement == Spec => ImplementsPageStore
<1>1. Init => PS!Init
  BY RefineInit
<1>2. Inv /\ Inv' /\ [Next]_vars => [PS!Next]_(PS!vars)
  BY RefineStep DEF Inv
<1>. QED  BY <1>1, <1>2, Invariance, PTL DEF Spec, ImplementsPageStore, PS!Spec
==========================================================================
