----------------------------- MODULE BspIndex -----------------------------
(***************************************************************************)
(* The index of an INDEXED column: class DiskBspIndex of                   *)
(* storage/disk_bsp_index.cpp as its users see it, from create_empty or    *)
(* bulk_build on.  pages[i] is page i of the file as read_page parses it;  *)
(* page 0, the superblock, is super.                                       *)
(*                                                                         *)
(* A call runs through one or more functions of BspTree, one per step.     *)
(***************************************************************************)
EXTENDS BspTree

CONSTANTS
    Rids,        \* record ids
    MaxPages,    \* bound: no call starts when the file has more pages
    BulkKeys,    \* key sets bulk_build is called with
    FromEmpty    \* whether the index may start with create_empty

ASSUME IndexAssumption ==
    /\ MaxPages \in Nat
    \* Keys are short: a leaf with one entry is below the minimal fill, and an
    \* inner page with one child fits (kMaxIndexKeyBytes is 512).
    /\ \A k \in Keys, r \in Rids : leaf_underflow(<<[key |-> k, rid |-> r]>>)
    /\ ~inner_overflow(Inner(1, <<1>>, <<>>))
    /\ BulkKeys \subseteq SUBSET Keys
    /\ FromEmpty \in BOOLEAN

VARIABLES
    pages,       \* the pages of the file after page 0
    root,        \* root_page_
    first,       \* first_leaf_page_
    size,        \* size_
    super,       \* page 0: root_page_, first_leaf_page_ and size_ as written
    todo,        \* the function that runs next, while a call is in progress
    op,          \* the call in progress: "none", "insert", "erase", "bulk"
    arg,         \* its key and rid
    contents,    \* history: the keys and rids the successful calls have left
    failed,      \* an exception has left a tree operation
    ret          \* "ok", "absent", or the exception of the last call

vars == <<pages, root, first, size, super, todo, op, arg, contents, failed, ret>>

----------------------------------------------------------------------------
(* Searching *)

\* An iterator is a page and a slot; End when it is past the last entry.  The
\* constructor turns a slot that does not exist into End.
End == <<0, 0>>
IteratorAt(p, slot) ==
    IF IsLeaf(pages[p]) /\ slot < Len(pages[p].entries) THEN <<p, slot>> ELSE End
\* Mutant: a bound that is past the end of its leaf ends the scan.
AtOrEnd(p, slot) ==
    IF slot < Len(pages[p].entries) THEN <<p, slot>> ELSE End
AtOrNext(p, slot) ==
    IF slot < Len(pages[p].entries) THEN <<p, slot>>
    ELSE IF pages[p].next # 0 THEN IteratorAt(pages[p].next, 0) ELSE End
EntryAt(it) == pages[it[1]].entries[it[2] + 1]
Advance(it) == AtOrNext(it[1], it[2] + 1)

LeafFor(k) == LET path == PathFrom(pages, root, k) IN path[Len(path)]

find(k) ==
    LET p == LeafFor(k)
        s == lower_bound_slot(pages[p].entries, k)
    IN  IF s < Len(pages[p].entries) /\ pages[p].entries[s + 1].key = k
        THEN <<p, s>> ELSE End
lower_bound(k) == AtOrNext(LeafFor(k), lower_bound_slot(pages[LeafFor(k)].entries, k))
upper_bound(k) == AtOrNext(LeafFor(k), upper_bound_slot(pages[LeafFor(k)].entries, k))
begin == IF size = 0 THEN End ELSE IteratorAt(first, 0)

\* The entries met from iterator it on; at most n of them.
Scan(it, n) ==
    LET from[k \in 0 .. n] ==   \* the entries met and the iterator, after k steps
          IF k = 0 THEN [met |-> <<>>, at |-> it]
          ELSE LET f == from[k - 1]
               IN  IF f.at = End THEN f
                   ELSE [met |-> Append(f.met, EntryAt(f.at)), at |-> Advance(f.at)]
    IN  from[n].met

----------------------------------------------------------------------------
(* The calls *)

State == [pages |-> pages, root |-> root, first |-> first,
          err |-> "none", call |-> NoCall]

NoArg == [key |-> 0, rid |-> 0]

\* A call may start.  The model stops at the first call that a tree operation
\* leaves by an exception, and when the file has grown past the bound.
Idle == op = "none" /\ ~failed /\ Len(pages) \in 1 .. MaxPages

\* Mutant: the superblock is written before the entry is counted.
write_superblock_early == super' = <<root', first', size>>

\* write_superblock, the last thing every completed call does.
write_superblock == super' = <<root', first', size'>>

SetTree(st) ==
    /\ pages' = st.pages
    /\ root' = st.root
    /\ first' = st.first

\* The call is over and answers r.
Return(r) ==
    /\ ret' = r
    /\ op' = "none"
    /\ todo' = NoCall
    /\ arg' = NoArg

\* Nothing was written: the key is a duplicate, or there is no such key.
Refuse(r) ==
    /\ Return(r)
    /\ UNCHANGED <<pages, root, first, size, super, contents, failed>>

\* The pages that a search or a scan can still reach.  The code never reuses
\* the others; the model forgets what they hold, so that two trees that differ
\* only there are the same state.
Reachable(st) ==
    LET Successors(p) == IF IsInner(p) THEN Range(p.children)
                         ELSE IF IsLeaf(p) /\ p.next # 0 THEN {p.next} ELSE {}
        reach[n \in 0 .. Len(st.pages)] ==
          IF n = 0 THEN {st.root, st.first}
          ELSE LET r == reach[n - 1]
               IN  r \cup UNION {Successors(st.pages[q]) : q \in r}
    IN  reach[Len(st.pages)]
Forget(st) ==
    LET live == Reachable(st)
    IN  [st EXCEPT !.pages = [i \in 1 .. Len(@) |->
                                IF i \in live THEN @[i] ELSE ZeroPage(i)]]

\* The end of a call: newSize is its size_, newContents what it promises.
Finish(st, newSize, newContents) ==
    /\ SetTree(Forget(st))
    /\ size' = newSize
    /\ write_superblock
    /\ contents' = newContents
    /\ failed' = FALSE
    /\ Return("ok")

\* An exception ends the call: what was written stays, the superblock is as
\* it was.
Fail(st, newSize) ==
    /\ SetTree(st)
    /\ size' = newSize
    /\ failed' = TRUE
    /\ Return(st.err)
    /\ UNCHANGED <<super, contents>>

\* The next function of the call o, with argument a, runs in the next step.
CallNext(st, newSize, o, a) ==
    /\ SetTree(st)
    /\ size' = newSize
    /\ todo' = st.call
    /\ op' = o
    /\ arg' = a
    /\ UNCHANGED <<super, contents, failed, ret>>

Added(e)   == [x \in DOMAIN contents \cup {e.key} |->
                 IF x = e.key THEN e.rid ELSE contents[x]]
Removed(e) == [x \in DOMAIN contents \ {e.key} |-> contents[x]]

\* What follows the work of a function: insert counts its entry when all the
\* work is done, erase has counted it before.
Continue(st, o, a, n) ==
    IF st.err # "none" THEN Fail(st, n)
    ELSE IF st.call # NoCall THEN CallNext(st, n, o, a)
    ELSE IF o = "insert" THEN Finish(st, n + 1, Added(a))
    ELSE IF o = "erase" THEN Finish(st, n, Removed(a))
    ELSE Finish(st, n, contents)

\* The file does not exist yet.
Init ==
    /\ pages = <<>>
    /\ root = 0
    /\ first = 0
    /\ size = 0
    /\ super = <<0, 0, 0>>
    /\ todo = NoCall
    /\ op = "none"
    /\ arg = NoArg
    /\ contents = [x \in {} |-> 0]
    /\ failed = FALSE
    /\ ret = "ok"

create_empty ==
    /\ FromEmpty /\ pages = <<>>
    /\ Finish([State EXCEPT !.pages = <<Leaf(1, <<>>, 0)>>, !.root = 1, !.first = 1],
              0, contents)

\* The first insert into an empty index rewrites the root as a leaf.
insert_first(e) ==
    /\ Idle /\ size = 0
    /\ Continue(write_page(State, Leaf(root, <<e>>, 0)), "insert", e, size)

insert(e) ==
    /\ Idle /\ size # 0
    /\ LET path == PathFrom(pages, root, e.key)
           leaf == pages[Last(path)]
           slot == lower_bound_slot(leaf.entries, e.key)
           new == [leaf EXCEPT !.entries = InsertAt(@, slot + 1, e)]
       IN  IF slot < Len(leaf.entries) /\ leaf.entries[slot + 1].key = e.key
           THEN Refuse("duplicate")
           ELSE Continue(IF leaf_overflow(new.entries)
                         THEN Then(State, Call("split_leaf", new, path))
                         ELSE write_page(State, new),
                         "insert", e, size)

erase(k) ==
    /\ Idle
    /\ LET path == PathFrom(pages, root, k)
           leaf == pages[Last(path)]
           slot == lower_bound_slot(leaf.entries, k)
           new == [leaf EXCEPT !.entries = RemoveAt(@, slot + 1)]
           e == [key |-> k, rid |-> 0]
           here == write_page(State, new)
       IN  IF size = 0 \/ ~(slot < Len(leaf.entries) /\ leaf.entries[slot + 1].key = k)
           THEN Refuse("absent")
           ELSE Continue(
                  IF size = 1
                  THEN [write_page(State, [leaf EXCEPT !.entries = <<>>])
                          EXCEPT !.root = leaf.id, !.first = leaf.id]
                  ELSE IF leaf.id = root \/ ~leaf_underflow(new.entries)
                  THEN IF slot = 0 /\ new.entries # <<>>
                       THEN propagate_subtree_min_change(here, path) ELSE here
                  ELSE Then(State, Call("fix_leaf_underflow", new, path)),
                  "erase", e, size - 1)

\* bulk_build into a new file, from strictly increasing keys.
bulk_build(S, r) ==
    /\ pages = <<>>
    /\ LET keys == InOrder(S)
           leaves == BulkLeaves([i \in 1 .. Len(keys) |-> [key |-> keys[i], rid |-> r]])
       IN  /\ SetTree([State EXCEPT !.pages = leaves, !.root = 1, !.first = 1])
           /\ size' = Len(keys)
           /\ todo' = [fn |-> "bulk_level", level |-> [i \in 1 .. Len(leaves) |-> i]]
    /\ op' = "bulk"
    /\ contents' = [k \in S |-> r]
    /\ UNCHANGED <<super, arg, failed, ret>>

\* flush, and close followed by open: the superblock is written, and read.
flush ==
    /\ op = "none" /\ pages # <<>>
    /\ super' = <<root, first, size>>
    /\ UNCHANGED <<pages, root, first, size, todo, op, arg, contents, failed, ret>>

Insert == \E k \in Keys, r \in Rids : LET e == [key |-> k, rid |-> r]
                                     IN  insert_first(e) \/ insert(e)
Erase == \E k \in Keys : erase(k)
BulkBuild == \E S \in BulkKeys, r \in Rids : bulk_build(S, r)

\* The functions a call runs through.
SplitLeaf ==
    /\ todo.fn = "split_leaf"
    /\ Continue(split_leaf(State, todo.node, todo.path), op, arg, size)
SplitInternal ==
    /\ todo.fn = "split_internal"
    /\ Continue(split_internal(State, todo.node, todo.path), op, arg, size)
FixLeafUnderflow ==
    /\ todo.fn = "fix_leaf_underflow"
    /\ Continue(fix_leaf_underflow(State, todo.node, todo.path), op, arg, size)
FixInternalUnderflow ==
    /\ todo.fn = "fix_internal_underflow"
    /\ Continue(fix_internal_underflow(State, todo.node, todo.path), op, arg, size)
BulkLevel ==
    /\ todo.fn = "bulk_level"
    /\ Continue(bulk_level(State, todo.level), op, arg, size)

Next == create_empty \/ BulkBuild \/ Insert \/ Erase \/ flush
        \/ SplitLeaf \/ SplitInternal \/ FixLeafUnderflow \/ FixInternalUnderflow
        \/ BulkLevel

Spec == Init /\ [][Next]_vars

----------------------------------------------------------------------------
(* Properties *)

\* Between calls, and no exception has left a tree operation so far.
Quiet == op = "none" /\ ~failed /\ pages # <<>>

\* Every variable has its type: page numbers point into the file, and a page
\* of the file has the number it is stored under.
TypeOK ==
    /\ \A i \in 1 .. Len(pages) :
         /\ pages[i].id = i
         /\ pages[i].type \in {"leaf", "inner", "zero"}
         /\ IsLeaf(pages[i]) => pages[i].next \in 0 .. Len(pages)
         /\ IsInner(pages[i]) => /\ Range(pages[i].children) \subseteq 1 .. Len(pages)
                                /\ Len(pages[i].keys) = Len(pages[i].children) - 1
    /\ root \in 0 .. Len(pages)
    /\ first \in 0 .. Len(pages)
    /\ size \in Nat
    /\ op \in {"none", "insert", "erase", "bulk"}
    /\ DOMAIN contents \subseteq Keys
    /\ failed \in BOOLEAN

\* The entries of the map contents whose key is in S, in key order.
EntriesOf(S) ==
    LET ks == InOrder(S \cap DOMAIN contents)
    IN  [i \in 1 .. Len(ks) |-> [key |-> ks[i], rid |-> contents[ks[i]]]]

\* find answers, for every key, with the rid of the last successful insert
\* that no erase followed, and with end() for every other key.
FindCorrect ==
    Quiet => \A k \in Keys :
      IF k \in DOMAIN contents
      THEN find(k) # End /\ EntryAt(find(k)) = [key |-> k, rid |-> contents[k]]
      ELSE find(k) = End

\* Iterating from begin() meets every entry once and in key order: the chain
\* of next_leaf, which splits and merges relink, and first_leaf_page_.
ScanCorrect ==
    Quiet => Scan(begin, Cardinality(Keys) + 1) = EntriesOf(Keys)

\* The range scans of index_collect_range: from lower_bound(k) on come the
\* entries with keys >= k, from upper_bound(k) on those with keys > k.
BoundsCorrect ==
    Quiet => \A k \in Keys :
      /\ Scan(lower_bound(k), Cardinality(Keys) + 1) = EntriesOf({x \in Keys : x >= k})
      /\ Scan(upper_bound(k), Cardinality(Keys) + 1) = EntriesOf({x \in Keys : x > k})

\* The pages n levels below p, all pages from p down, and the keys there.
LevelBelow(p, n) ==
    LET down[i \in 0 .. n] ==
          IF i = 0 THEN {p}
          ELSE UNION {Range(pages[q].children) : q \in {x \in down[i - 1] : IsInner(pages[x])}}
    IN  down[n]
Under(p) == UNION {LevelBelow(p, n) : n \in 0 .. Len(pages)}
LeavesUnder(p) == {q \in Under(p) : ~IsInner(pages[q])}
KeysUnder(p) == UNION {{e.key : e \in Range(pages[q].entries)} : q \in LeavesUnder(p)}

\* The pages under the root form a search tree: every page has one parent,
\* all leaves are at the same depth, none is empty unless it is the root, and
\* every separator lies between the keys of the children next to it.
TreeShape ==
    Quiet =>
      /\ \E n \in 0 .. Len(pages) : LeavesUnder(root) = LevelBelow(root, n)
      /\ \A p \in Under(root) : IsInner(pages[p]) =>
           LET ch == pages[p].children
               ks == pages[p].keys
           IN  /\ \A i, j \in 1 .. Len(ch) : i # j =>
                     LeavesUnder(ch[i]) \cap LeavesUnder(ch[j]) = {}
               /\ \A i \in 1 .. Len(ks) :
                     /\ \A k \in KeysUnder(ch[i]) : k < ks[i]
                     /\ \A k \in KeysUnder(ch[i + 1]) : ks[i] <= k
               /\ \A i \in 1 .. Len(ch) : KeysUnder(ch[i]) # {}

\* size_ is the number of entries, and the superblock says where the tree is:
\* what open will find after a flush of the pages.
SuperblockCurrent ==
    Quiet => /\ size = Cardinality(DOMAIN contents)
             /\ super = <<root, first, size>>

\* No insert or erase ends in one of the exceptions of the tree functions:
\* every index page read is one that write_page has written, every page
\* written fits, and every page that needs a sibling has one.  It holds for
\* trees of one and two levels of equally long keys, built by inserts, as long
\* as the page of the root has room; the three properties below are about
\* what happens otherwise.
NoInternalFailure == ~failed

\* read_page finds kPageMagic in every page it reads ("Corrupt index page").
NoCorruptPage == ret # "corrupt"

\* write_page never gets a page larger than kPageSize ("Leaf index page
\* overflow"): leaf_overflow is tested, and leaves are split, before it.
NoPageOverflow == ret # "overflow"

\* A leaf below the minimal fill has a neighbour under the same parent to
\* borrow from or to merge with ("Leaf has no sibling for merge").
HasSibling == ret # "logic"
=============================================================================
