------------------------------ MODULE BspTree ------------------------------
(***************************************************************************)
(* The pages of a B*+ tree and the functions that rewrite them: the parts  *)
(* of class DiskBspIndex (storage/disk_bsp_index.cpp) that insert, erase   *)
(* and bulk_build are made of.                                             *)
(*                                                                         *)
(* The sizes that decide when a node splits or merges are the code's byte  *)
(* counts, over PageSize and the encoded length of every key.              *)
(*                                                                         *)
(* A function that rewrites pages is an operator from a state of the tree  *)
(* to the next, st = [pages, root, first, err, call]: err is the exception *)
(* that ended it, with the pages written before the throw in place, and    *)
(* call the function it ends by calling (every recursive call of the code  *)
(* is a tail call).                                                        *)
(***************************************************************************)
EXTENDS Integers, Sequences, FiniteSets, SequencesExt

CONSTANTS
    Keys,        \* keys, compared as integers
    KeyLen,      \* key_len of every key
    PageSize     \* kPageSize

ASSUME TreeAssumption ==
    /\ Keys \subseteq Int
    /\ IsFiniteSet(Keys)
    /\ KeyLen \in [Keys -> Nat]
    /\ PageSize \in Nat

----------------------------------------------------------------------------
(* Pages *)

Leaf(id, entries, next) ==
    [id |-> id, type |-> "leaf", entries |-> entries, next |-> next]
Inner(id, children, keys) ==
    [id |-> id, type |-> "inner", children |-> children, keys |-> keys]
ZeroPage(id) == [id |-> id, type |-> "zero"]

IsLeaf(p)  == p.type = "leaf"
IsInner(p) == p.type = "inner"

\* The keys of S in increasing order.
InOrder(S) == [i \in 1 .. Cardinality(S) |->
                 CHOOSE k \in S : Cardinality({x \in S : x < k}) = i - 1]

SumOver(s, f(_)) == FoldLeft(LAMBDA acc, x : acc + f(x), 0, s)

leaf_entry_bytes(e) == 2 + KeyLen[e.key] + 8
leaf_payload_bytes(entries) == 12 + SumOver(entries, leaf_entry_bytes)

SeparatorBytes(k) == 2 + KeyLen[k]
inner_payload_bytes(keys, child_count) ==
    12 + child_count * 4 + SumOver(keys, SeparatorBytes)

MinFillBytes == 12 + ((PageSize - 12) * 2) \div 3

leaf_overflow(entries) == leaf_payload_bytes(entries) > PageSize
leaf_underflow(entries) ==
    entries = <<>> \/ leaf_payload_bytes(entries) < MinFillBytes
inner_overflow(p) == inner_payload_bytes(p.keys, Len(p.children)) > PageSize
inner_underflow(p) ==
    \/ Len(p.children) <= 1
    \/ inner_payload_bytes(p.keys, Len(p.children)) < MinFillBytes

\* Mutant: the third part gets nothing.
two_way_counts(total) ==
    LET a == (total + 2) \div 3 IN <<a, total - a, 0>>

three_way_counts(total) ==
    LET a == (total + 2) \div 3
        b == (total - a + 1) \div 2
    IN  <<a, b, total - a - b>>

\* s cut into three by three_way_counts.
ThreeWay(s) ==
    LET c == three_way_counts(Len(s))
    IN  <<SubSeq(s, 1, c[1]), SubSeq(s, c[1] + 1, c[1] + c[2]),
          SubSeq(s, c[1] + c[2] + 1, Len(s))>>

----------------------------------------------------------------------------
(* Searching *)

\* Mutant: a key equal to a separator is looked for on its left.
ChildBefore(p, k) ==
    p.children[1 + Max({0} \cup {i \in 1 .. Len(p.keys) : p.keys[i] < k})]

\* The child whose subtree may hold k: after the last separator that is <= k.
ChildFor(p, k) ==
    p.children[1 + Max({0} \cup {i \in 1 .. Len(p.keys) : p.keys[i] <= k})]

\* The pages from p down to the leaf for k: at[n] is the page after n steps.
PathFrom(pg, p, k) ==
    LET at[n \in 0 .. Len(pg)] ==
          IF n = 0 THEN p
          ELSE LET q == at[n - 1] IN IF IsInner(pg[q]) THEN ChildFor(pg[q], k) ELSE q
        depth == Min({n \in 0 .. Len(pg) : ~IsInner(pg[at[n]])})
    IN  [i \in 1 .. depth + 1 |-> at[i - 1]]

leftmost_leaf(pg, p) ==
    LET at[n \in 0 .. Len(pg)] ==
          IF n = 0 THEN p
          ELSE LET q == at[n - 1] IN IF IsInner(pg[q]) THEN Head(pg[q].children) ELSE q
    IN  at[Len(pg)]

\* 0-based slots: the number of entries whose key is below (at most) k.
lower_bound_slot(entries, k) ==
    Cardinality({i \in 1 .. Len(entries) : entries[i].key < k})
upper_bound_slot(entries, k) ==
    Cardinality({i \in 1 .. Len(entries) : entries[i].key <= k})

----------------------------------------------------------------------------
(* Writing *)

NoCall == [fn |-> "none"]
Call(fn, node, path) == [fn |-> fn, node |-> node, path |-> path]

Throw(st, e) == [st EXCEPT !.err = e]

\* write_page refuses a page that does not fit; nothing runs after a throw.
write_page(st, p) ==
    IF st.err # "none" THEN st
    ELSE IF IF IsLeaf(p) THEN leaf_overflow(p.entries) ELSE inner_overflow(p)
         THEN Throw(st, "overflow")
         ELSE [st EXCEPT !.pages[p.id] = p]

Then(st, call) == IF st.err # "none" THEN st ELSE [st EXCEPT !.call = call]

\* The page number allocate_node_page returns; the new page is all zeros.
NextId(st) == Len(st.pages) + 1
allocate_node_page(st) ==
    [st EXCEPT !.pages = Append(@, ZeroPage(NextId(st)))]

HasMin(pg, p) ==
    LET q == pg[leftmost_leaf(pg, p)] IN IsLeaf(q) /\ q.entries # <<>>
subtree_min_entry(pg, p) == Head(pg[leftmost_leaf(pg, p)].entries).key

\* subtree_min_entry throws on a page of zeros and on an empty leaf.
Rebuildable(st, children) ==
    \A i \in 2 .. Len(children) : HasMin(st.pages, children[i])
\* Mutants: one separator per child, and the separators of the wrong children.
rebuild_one_key_per_child(st, id, children) ==
    Inner(id, children, [i \in 1 .. Len(children) |->
                            subtree_min_entry(st.pages, children[i])])
rebuild_keys_of_left_children(st, id, children) ==
    Inner(id, children, [i \in 1 .. Len(children) - 1 |->
                            subtree_min_entry(st.pages, children[i])])
rebuild_internal_keys(st, id, children) ==
    Inner(id, children, [i \in 1 .. Len(children) - 1 |->
                            subtree_min_entry(st.pages, children[i + 1])])

\* rebuild_internal_keys(node) followed by write_page(node).
WriteRebuilt(st, id, children) ==
    IF st.err # "none" THEN st
    ELSE IF ~Rebuildable(st, children) THEN Throw(st, "corrupt")
    ELSE write_page(st, rebuild_internal_keys(st, id, children))

\* rebuild_internal_keys(parent), then write it or split it.
WriteOrSplit(st, id, children, path) ==
    IF st.err # "none" THEN st
    ELSE IF ~Rebuildable(st, children) THEN Throw(st, "corrupt")
    ELSE LET p == rebuild_internal_keys(st, id, children)
         IN  IF inner_overflow(p) THEN Then(st, Call("split_internal", p, path))
             ELSE write_page(st, p)

\* The parent on the path, and the position of child among its children.
ParentOf(st, path)   == st.pages[path[Len(path) - 1]]
ParentPath(path)     == SubSeq(path, 1, Len(path) - 1)
ChildIndex(p, child) == CHOOSE i \in 1 .. Len(p.children) : p.children[i] = child

\* From the end of the path upwards, the first page that is not the leftmost
\* child of its parent gets a new separator there.
propagate_subtree_min_change(st, path) ==
    LET turns == {i \in 1 .. Len(path) - 1 :
                    Head(st.pages[path[i]].children) # path[i + 1]}
        i == Max(turns)
        parent == st.pages[path[i]]
        c == ChildIndex(parent, path[i + 1])
    IN  IF st.err # "none" \/ Len(path) = 1 THEN st
        ELSE IF ~HasMin(st.pages, path[Len(path)]) THEN Throw(st, "corrupt")
        ELSE IF turns = {} \/ path[i + 1] \notin Range(parent.children) THEN st
        ELSE write_page(st, [parent EXCEPT !.keys[c - 1] =
                               subtree_min_entry(st.pages, path[i + 1])])

----------------------------------------------------------------------------
(* Splitting, on insert *)

\* left and right are written, then right becomes a child next to left, in
\* the parent or in a new root.
insert_into_parent(st0, left, separator, right, path) ==
    LET st == write_page(write_page(st0, left), right)
        parent == ParentOf(st, path)
        c == ChildIndex(parent, left.id)
    IN  IF Len(path) = 1
        THEN LET st1 == allocate_node_page(st)
                 st2 == write_page(st1, Inner(NextId(st), <<left.id, right.id>>,
                                              <<separator>>))
             IN  IF st.err # "none" THEN st
                 ELSE IF st2.err # "none" THEN st2 ELSE [st2 EXCEPT !.root = NextId(st)]
        ELSE WriteOrSplit(st, parent.id, InsertAt(parent.children, c + 1, right.id),
                          ParentPath(path))

\* std::sort by key.
SortedEntries(s) ==
    LET Rank(i) == Cardinality({j \in 1 .. Len(s) : \/ s[j].key < s[i].key
                                                    \/ s[j].key = s[i].key /\ j <= i})
    IN  [n \in 1 .. Len(s) |-> s[CHOOSE i \in 1 .. Len(s) : Rank(i) = n]]

\* Mutant: the new leaf in the middle is linked past its right neighbour.
split_leaf_pair_skipping(st0, left, right, parent, path) ==
    LET st == allocate_node_page(st0)
        mid == NextId(st0)
        t == ThreeWay(SortedEntries(left.entries \o right.entries))
        st1 == write_page(st, Leaf(left.id, t[1], mid))
        st2 == write_page(st1, Leaf(mid, t[2], right.next))
        st3 == write_page(st2, Leaf(right.id, t[3], right.next))
    IN  IF \E i \in 1 .. 3 : t[i] = <<>> THEN Throw(st, "logic")
        ELSE WriteOrSplit(st3, parent.id,
               InsertAt(parent.children, ChildIndex(parent, left.id) + 1, mid), path)

\* split_leaf_pair: the entries of two neighbours go into three leaves.
split_leaf_pair(st0, left, right, parent, path) ==
    LET st == allocate_node_page(st0)
        mid == NextId(st0)
        t == ThreeWay(SortedEntries(left.entries \o right.entries))
        st1 == write_page(st, Leaf(left.id, t[1], mid))
        st2 == write_page(st1, Leaf(mid, t[2], right.id))
        st3 == write_page(st2, Leaf(right.id, t[3], right.next))
    IN  IF \E i \in 1 .. 3 : t[i] = <<>> THEN Throw(st, "logic")
        ELSE WriteOrSplit(st3, parent.id,
               InsertAt(parent.children, ChildIndex(parent, left.id) + 1, mid), path)

\* leaf and a sibling after one entry moved between them, if both still fit.
GiveLeaf(st, leaf, sibling, parent) ==
    WriteRebuilt(write_page(write_page(st, leaf), sibling), parent.id, parent.children)

LeavesFit(a, b) == ~leaf_overflow(a.entries) /\ ~leaf_overflow(b.entries)

\* Mutant: the left half keeps its old neighbour.
split_leaf_unlinked(st0, leaf, path) ==
    LET st == allocate_node_page(st0)
        new == NextId(st0)
        h == Len(leaf.entries) \div 2
        left == Leaf(leaf.id, SubSeq(leaf.entries, 1, h), leaf.next)
        right == Leaf(new, SubSeq(leaf.entries, h + 1, Len(leaf.entries)), leaf.next)
    IN  insert_into_parent(st, left, Head(right.entries).key, right, path)

split_leaf_alone(st0, leaf, path) ==
    LET st == allocate_node_page(st0)
        new == NextId(st0)
        h == Len(leaf.entries) \div 2
        left == Leaf(leaf.id, SubSeq(leaf.entries, 1, h), new)
        right == Leaf(new, SubSeq(leaf.entries, h + 1, Len(leaf.entries)), leaf.next)
    IN  insert_into_parent(st, left, Head(right.entries).key, right, path)

split_leaf(st, leaf, path) ==
    IF Len(path) = 1 THEN split_leaf_alone(st, leaf, path)
    ELSE
    LET parent == ParentOf(st, path)
        c == ChildIndex(parent, leaf.id)
        hasRight == c < Len(parent.children)
        hasLeft == c > 1
        right == st.pages[parent.children[c + 1]]
        left == st.pages[parent.children[c - 1]]
        \* try_give_to_right_leaf: the last entry moves right
        leafR == [leaf EXCEPT !.entries = Front(@)]
        rightR == [right EXCEPT !.entries = <<Last(leaf.entries)>> \o @]
        \* try_give_to_left_leaf: the last entry of left moves into leaf
        leafL == [leaf EXCEPT !.entries = <<Last(left.entries)>> \o @]
        leftL == [left EXCEPT !.entries = Front(@)]
        giveRight == hasRight /\ leafR.entries # <<>> /\ LeavesFit(leafR, rightR)
        giveLeft == hasLeft /\ leftL.entries # <<>> /\ LeavesFit(leafL, leftL)
    IN  IF giveRight THEN GiveLeaf(st, leafR, rightR, parent)
        ELSE IF giveLeft THEN GiveLeaf(st, leafL, leftL, parent)
        ELSE IF hasRight THEN split_leaf_pair(st, leaf, right, parent, ParentPath(path))
        ELSE IF hasLeft THEN split_leaf_pair(st, left, leaf, parent, ParentPath(path))
        ELSE split_leaf_alone(st, leaf, path)

\* Both inner nodes with rebuilt separators fit into their pages.
InnersFit(st, a, b) ==
    /\ ~inner_overflow(rebuild_internal_keys(st, a.id, a.children))
    /\ ~inner_overflow(rebuild_internal_keys(st, b.id, b.children))

\* Two neighbours under parent are written with new children, then parent
\* with new separators, and the change of its least key is passed upwards.
WriteInnerPair(st, a, b, parent, path) ==
    LET st1 == WriteRebuilt(WriteRebuilt(st, a.id, a.children), b.id, b.children)
        st2 == WriteRebuilt(st1, parent.id, parent.children)
    IN  IF Rebuildable(st, a.children) /\ Rebuildable(st, b.children)
        THEN propagate_subtree_min_change(st2, path)
        ELSE Throw(st, "corrupt")

split_internal_pair(st0, left, right, parent, path) ==
    LET t == ThreeWay(left.children \o right.children)
        a == [left EXCEPT !.children = t[1]]
        b == [right EXCEPT !.children = t[3]]
        st == allocate_node_page(st0)
        mid == NextId(st0)
        st1 == WriteRebuilt(st, left.id, t[1])
        st2 == WriteRebuilt(st1, mid, t[2])
        st3 == WriteRebuilt(st2, right.id, t[3])
    IN  IF ~InnersFit(st0, a, b) THEN Throw(st0, "length")
        ELSE WriteOrSplit(st3, parent.id,
               InsertAt(parent.children, ChildIndex(parent, left.id) + 1, mid), path)

\* The separator is read from the page of right before that page is written:
\* it is still the page of zeros of allocate_node_page.
split_internal_alone(st0, node, path) ==
    LET st == allocate_node_page(st0)
        new == NextId(st0)
        h == Len(node.children) \div 2
        left == rebuild_internal_keys(st, node.id, SubSeq(node.children, 1, h))
        right == rebuild_internal_keys(st, new,
                   SubSeq(node.children, h + 1, Len(node.children)))
    IN  IF ~HasMin(st.pages, new) THEN Throw(st, "corrupt")
        ELSE insert_into_parent(st, left, subtree_min_entry(st.pages, new), right, path)

split_internal(st, node, path) ==
    IF Len(path) = 1 THEN split_internal_alone(st, node, path)
    ELSE
    LET parent == ParentOf(st, path)
        c == ChildIndex(parent, node.id)
        hasRight == c < Len(parent.children)
        hasLeft == c > 1
        right == st.pages[parent.children[c + 1]]
        left == st.pages[parent.children[c - 1]]
        \* try_redistribute_internal_with_right: its first child moves here
        nodeR == [node EXCEPT !.children = Append(@, Head(right.children))]
        rightR == [right EXCEPT !.children = Tail(@)]
        \* try_redistribute_internal_with_left: its last child moves here
        nodeL == [node EXCEPT !.children = <<Last(left.children)>> \o @]
        leftL == [left EXCEPT !.children = Front(@)]
        takeRight == hasRight /\ Len(right.children) > 1 /\ InnersFit(st, nodeR, rightR)
        takeLeft == hasLeft /\ Len(left.children) > 1 /\ InnersFit(st, nodeL, leftL)
    IN  IF takeRight THEN WriteInnerPair(st, nodeR, rightR, parent, ParentPath(path))
        ELSE IF takeLeft THEN WriteInnerPair(st, nodeL, leftL, parent, ParentPath(path))
        ELSE IF hasRight THEN split_internal_pair(st, node, right, parent, ParentPath(path))
        ELSE IF hasLeft THEN split_internal_pair(st, left, node, parent, ParentPath(path))
        ELSE split_internal_alone(st, node, path)

----------------------------------------------------------------------------
(* Borrowing and merging, on erase *)

\* The two leaves do not fit into one: they become three.
redistribute_leaf_pair(st0, left, right, parent, path) ==
    LET t == ThreeWay(left.entries \o right.entries)
        st == allocate_node_page(st0)
        mid == NextId(st0)
        st1 == write_page(st, Leaf(left.id, t[1], mid))
        st2 == write_page(st1, Leaf(mid, t[2], right.id))
        st3 == write_page(st2, Leaf(right.id, t[3], right.next))
        st4 == WriteRebuilt(st3, parent.id,
                 InsertAt(parent.children, ChildIndex(parent, left.id) + 1, mid))
    IN  IF leaf_overflow(t[1]) \/ leaf_overflow(t[3]) THEN Throw(st0, "length")
        ELSE propagate_subtree_min_change(st4, path)

redistribute_internal_pair(st, left, right, parent, path) ==
    LET all == left.children \o right.children
        n == (Len(all) + 1) \div 2
        a == [left EXCEPT !.children = SubSeq(all, 1, n)]
        b == [right EXCEPT !.children = SubSeq(all, n + 1, Len(all))]
    IN  IF ~InnersFit(st, a, b) THEN Throw(st, "length")
        ELSE WriteInnerPair(st, a, b, parent, path)

\* The only child of the root becomes the root.
promote_single_child_root(st, child) ==
    [st EXCEPT !.root = child, !.first = leftmost_leaf(st.pages, child)]

handle_internal_after_child_removed(st, node, path) ==
    LET p == rebuild_internal_keys(st, node.id, node.children)
    IN  IF st.err # "none" THEN st
        ELSE IF ~Rebuildable(st, node.children) THEN Throw(st, "corrupt")
        ELSE IF p.id = st.root
             THEN IF Len(p.children) = 1
                  THEN promote_single_child_root(st, Head(p.children))
                  ELSE write_page(st, p)
        ELSE IF inner_underflow(p) THEN Then(st, Call("fix_internal_underflow", p, path))
        ELSE propagate_subtree_min_change(write_page(st, p), path)

\* Mutant: the page that was merged away stays a child.
MergeAndKeep(st, merged, gone, parent, path) ==
    handle_internal_after_child_removed(write_page(st, merged), parent, path)

\* merged replaces left and its right neighbour gone under parent.
MergeInto(st, merged, gone, parent, path) ==
    handle_internal_after_child_removed(write_page(st, merged),
        [parent EXCEPT !.children = RemoveAt(@, ChildIndex(parent, gone))], path)

fix_leaf_underflow(st, leaf, path) ==
    LET parent == ParentOf(st, path)
        up == ParentPath(path)
        c == ChildIndex(parent, leaf.id)
        hasRight == c < Len(parent.children)
        hasLeft == c > 1
        right == st.pages[parent.children[c + 1]]
        left == st.pages[parent.children[c - 1]]
        \* left or right lends its entry next to leaf
        Borrow(l, r) == propagate_subtree_min_change(
            WriteRebuilt(write_page(write_page(st, l), r), parent.id, parent.children), up)
        Merge(l, r) ==
            IF leaf_overflow(l.entries \o r.entries)
            THEN redistribute_leaf_pair(st, l, r, parent, up)
            ELSE MergeInto([st EXCEPT !.first = IF @ = r.id THEN l.id ELSE @],
                           Leaf(l.id, l.entries \o r.entries, r.next), r.id, parent, up)
    IN  IF hasLeft /\ ~leaf_underflow(left.entries)
        THEN Borrow([left EXCEPT !.entries = Front(@)],
                    [leaf EXCEPT !.entries = <<Last(left.entries)>> \o @])
        ELSE IF hasRight /\ ~leaf_underflow(right.entries)
        THEN Borrow([right EXCEPT !.entries = Tail(@)],
                    [leaf EXCEPT !.entries = Append(@, Head(right.entries))])
        ELSE IF hasLeft THEN Merge(left, leaf)
        ELSE IF hasRight THEN Merge(leaf, right)
        ELSE Throw(st, "logic")

fix_internal_underflow(st, node, path) ==
    LET parent == ParentOf(st, path)
        up == ParentPath(path)
        c == ChildIndex(parent, node.id)
        hasRight == c < Len(parent.children)
        hasLeft == c > 1
        right == st.pages[parent.children[c + 1]]
        left == st.pages[parent.children[c - 1]]
        Merge(l, r) ==
            LET merged == rebuild_internal_keys(st, l.id, l.children \o r.children)
            IN  IF inner_overflow(merged)
                THEN redistribute_internal_pair(st, l, r, parent, up)
                ELSE MergeInto(st, merged, r.id, parent, up)
    IN  IF hasLeft /\ ~inner_underflow(left)
        THEN WriteInnerPair(st, [left EXCEPT !.children = Front(@)],
               [node EXCEPT !.children = <<Last(left.children)>> \o @], parent, up)
        ELSE IF hasRight /\ ~inner_underflow(right)
        THEN WriteInnerPair(st, [right EXCEPT !.children = Tail(@)],
               [node EXCEPT !.children = Append(@, Head(right.children))], parent, up)
        ELSE IF hasLeft THEN Merge(left, node)
        ELSE IF hasRight THEN Merge(node, right)
        ELSE Throw(st, "logic")

----------------------------------------------------------------------------
(* bulk_build *)

\* s cut into runs: start[n] is where the run begins that has the n-th element.
Runs(s, start) ==
    LET cuts == InOrder({n \in 1 .. Len(s) : start[n] = n})
    IN  [i \in 1 .. Len(cuts) |->
           SubSeq(s, cuts[i], IF i < Len(cuts) THEN cuts[i + 1] - 1 ELSE Len(s))]

\* The entries packed into leaves in order, as many as fit.
BulkChunks(entries) ==
    LET start[n \in 1 .. Len(entries)] ==
          IF /\ n > 1
             /\ leaf_payload_bytes(SubSeq(entries, start[n - 1], n - 1))
                  + leaf_entry_bytes(entries[n]) <= PageSize
          THEN start[n - 1] ELSE n
    IN  Runs(entries, start)

\* A level packed into the children of the next one.  The second child always
\* joins the first; the size of a later one is counted like a leaf entry's.
BulkGroups(st, level) ==
    LET Sep(i) == subtree_min_entry(st.pages, level[i])
        Bytes(a, b) == inner_payload_bytes([i \in 1 .. b - a |-> Sep(a + i)], b - a + 1)
        start[n \in 1 .. Len(level)] ==
          IF /\ n > 1
             /\ \/ start[n - 1] = n - 1
                \/ Bytes(start[n - 1], n - 1) + 2 + KeyLen[Sep(n)] + 8 + 4 <= PageSize
          THEN start[n - 1] ELSE n
    IN  Runs(level, start)

BulkLeaves(entries) ==
    LET chunks == IF entries = <<>> THEN <<(<<>>)>> ELSE BulkChunks(entries)
        n == Len(chunks)
    IN  [i \in 1 .. n |-> Leaf(i, chunks[i], IF i < n THEN i + 1 ELSE 0)]

\* One round of the loop over the levels: the inner pages above level, up to
\* the first that cannot be written.
bulk_level(st, level) ==
    LET groups == BulkGroups(st, level)
        base == Len(st.pages)
        new == [i \in 1 .. Len(groups) |-> rebuild_internal_keys(st, base + i, groups[i])]
        bad == {i \in 1 .. Len(groups) :
                  ~Rebuildable(st, groups[i]) \/ inner_overflow(new[i])}
        b == Min(bad)
    IN  IF Len(level) = 1 THEN [st EXCEPT !.root = level[1]]
        ELSE IF bad # {}
        THEN [st EXCEPT !.pages = @ \o SubSeq(new, 1, b - 1) \o <<ZeroPage(base + b)>>,
                        !.err = IF Rebuildable(st, groups[b]) THEN "overflow" ELSE "corrupt"]
        ELSE [st EXCEPT !.pages = @ \o new,
                        !.call = [fn |-> "bulk_level",
                                  level |-> [i \in 1 .. Len(new) |-> base + i]]]
=============================================================================
