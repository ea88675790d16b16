------------------------------- MODULE BPlus -------------------------------
(***************************************************************************)
(* The B+ tree of libunit/str/strhash.c as a value: a root header and an   *)
(* array of fixed-size pages, and one operator per bplus_* function.       *)
(*                                                                         *)
(* A page number stands for the byte offset the code keeps in its links    *)
(* (offset / pagesize); 0 is the root page and doubles as the null link.   *)
(* Every page keeps its whole slot array: the slots at and past `len` hold *)
(* what earlier operations left there, and the code does read them.        *)
(***************************************************************************)
EXTENDS Integers, FiniteSets

CONSTANTS
    leafstep,   \* slots of a leaf page
    indxkeys,   \* keys of an index page
    NoBody      \* the payload of a slot that was never written

\* The copies of bplus_leafsplit and bplus_indexsplit move the right slots only
\* for an odd leafstep and an even indxkeys; the code's are 127 and 254.
ASSUME PageShape ==
    /\ leafstep \in Nat /\ leafstep >= 3 /\ leafstep % 2 = 1
    /\ indxkeys \in Nat /\ indxkeys >= 2 /\ indxkeys % 2 = 0

LeafSlots == 0 .. leafstep - 1
IndexSlots == 0 .. indxkeys - 1

\* The all-zero content of a page that bplus_prepare cleared.
EmptyLeafNode == [i \in LeafSlots |-> [hash |-> 0, body |-> NoBody]]
EmptyIndexNode == [i \in IndexSlots |-> [hash |-> 0, buf |-> 0]]

NewLeaf == [type |-> "leaf", left |-> 0, right |-> 0, parent |-> 0,
            len |-> 0, child |-> 0, node |-> EmptyLeafNode]
NewIndex == [type |-> "index", left |-> 0, right |-> 0, parent |-> 0,
             len |-> 0, child |-> 0, node |-> EmptyIndexNode]

\* bplus_prepare: an empty tree; `used` counts the root page.
Prepared == [first |-> 0, left |-> 0, right |-> 0, used |-> 1,
             page |-> << >>]

Pages(t) == 1 .. t.used - 1

\* bplus_grow: the next page, whatever the size of the array behind it.
Grow(t, content) ==
    [t EXCEPT !.used = @ + 1,
              !.page = [p \in Pages(t) \cup {t.used} |-> IF p = t.used THEN content ELSE t.page[p]]]

\* An indexcopy or leafcopy of n slots from src[from] to dst[to].  Both copy
\* from the last byte down, so a move to the right inside one page is safe.
Paste(src, from, n, dst, to) ==
    [i \in DOMAIN dst |-> IF i >= to /\ i < to + n THEN src[from + i - to] ELSE dst[i]]

\* The slots with d in slot j.
Put(node, j, d) == [i \in DOMAIN node |-> IF i = j THEN d ELSE node[i]]

\* The room a page has left, which decides between indexadd or leafadd and a split.
HasRoom(pg) == pg.len < IF pg.type = "leaf" THEN leafstep ELSE indxkeys

\* The first of the slots 0..n-1 whose hash exceeds h, or n.
Where(node, n, h) ==
    CHOOSE j \in 0 .. n : /\ j < n => h < node[j].hash
                          /\ \A i \in 0 .. j - 1 : ~(h < node[i].hash)

\* indexadd and leafadd: shift the tail of the used slots and drop d in.
SlotAdd(pg, d) ==
    LET j == Where(pg.node, pg.len, d.hash)
        moved == Paste(pg.node, j, pg.len - j, pg.node, j + 1)
    IN  [pg EXCEPT !.len = @ + 1, !.node = Put(moved, j, d)]

----------------------------------------------------------------------------
(* Going down. *)

\* bplus_getchild: key j's subtree, or the leftmost one for j out of range.
GetChild(pg, j) == IF j < 0 \/ j >= pg.len THEN pg.child ELSE pg.node[j].buf

\* The last key of pg that is not above h, or -1.
Branch_Mutant(pg, h) ==
    CHOOSE j \in -1 .. pg.len - 1 :
        /\ j >= 0 => h > pg.node[j].hash
        /\ \A i \in j + 1 .. pg.len - 1 : h <= pg.node[i].hash
Branch(pg, h) ==
    CHOOSE j \in -1 .. pg.len - 1 :
        /\ j >= 0 => h >= pg.node[j].hash
        /\ \A i \in j + 1 .. pg.len - 1 : h < pg.node[i].hash

\* bplus_findleaf: from head->first down to a leaf, 0 when there is none.
FindLeaf(t, h) ==
    LET Descend[p \in {0} \cup Pages(t)] ==
            IF p = 0 \/ t.page[p].type = "leaf" THEN p
            ELSE Descend[GetChild(t.page[p], Branch(t.page[p], h))]
    IN  Descend[t.first]

\* bplus_search: binary search of the leaf; the slot it settles on may be the
\* one at `len`, whose stale hash it compares all the same.  One past the last
\* slot is the header of the next page, taken to equal no hash.
Search(t, h) ==
    LET p == FindLeaf(t, h)
        leaf == t.page[p]
        Probe[r \in (0 .. leafstep) \X (0 .. leafstep)] ==
            LET mid == (r[1] + r[2]) \div 2 IN
            IF r[1] >= r[2] THEN mid
            ELSE IF h > leaf.node[mid].hash THEN Probe[<<mid + 1, r[2]>>]
            ELSE IF h < leaf.node[mid].hash THEN Probe[<<r[1], mid>>]
            ELSE mid
        m == Probe[<<0, leaf.len>>]
    IN  IF p = 0 THEN <<0, 0>>
        ELSE IF m \in LeafSlots /\ leaf.node[m].hash = h THEN <<p, m>>
        ELSE <<0, 0>>

----------------------------------------------------------------------------
(* Splitting. *)

\* SplitOff with the new page at the end of the chain.
SplitOff_MutantEnd(t, l, fresh, rlen, llen) ==
    LET g == Grow(t, [fresh EXCEPT !.len = rlen, !.left = l])
    IN  [g EXCEPT !.page[l] = [@ EXCEPT !.len = llen, !.right = t.used]]

\* Step 1 of both splits: a new page of n slots to the right of page l.
SplitOff(t, l, fresh, rlen, llen) ==
    LET r == t.used
        g == Grow(t, [fresh EXCEPT !.len = rlen, !.left = l, !.right = t.page[l].right])
    IN  [g EXCEPT !.page = [p \in DOMAIN g.page |->
            IF p = l THEN [t.page[p] EXCEPT !.len = llen, !.right = r]
            ELSE IF p = t.page[l].right THEN [t.page[p] EXCEPT !.left = r]
            ELSE g.page[p]]]

\* The key that moves up when d comes to the full index slots `old`.
Middle(old, d) ==
    LET half == (indxkeys + 1) \div 2
        j == Where(old, indxkeys, d.hash)
    IN  IF j = half THEN d
        ELSE IF j > half THEN old[half]
        ELSE old[(indxkeys - 1) \div 2]

\* The pages with r for the parent of those in S.
Reparent(pages, S, r) ==
    [p \in DOMAIN pages |-> IF p \in S THEN [pages[p] EXCEPT !.parent = r] ELSE pages[p]]

\* The pages under the new index page r get it as their parent.
Adopt_Mutant(pages, r) ==
    Reparent(pages, {GetChild(pages[r], k) : k \in 0 .. pages[r].len - 1}, r)
Adopt(pages, r) ==
    Reparent(pages, {GetChild(pages[r], k) : k \in -1 .. pages[r].len - 1}, r)

\* The inner half of bplus_indexsplit on the full page l.
IndexSplit(t, l, d) ==
    LET r    == t.used
        half == (indxkeys + 1) \div 2
        old  == t.page[l].node
        j    == Where(old, indxkeys, d.hash)
        mid  == Middle(old, d)
        rnode == IF j > half
                 THEN LET a == Paste(old, half + 1, j - 1 - half, EmptyIndexNode, 0)
                          b == Paste(old, j, indxkeys - j, a, j - half)
                      IN  Put(b, j - 1 - half, d)
                 ELSE Paste(old, half, indxkeys \div 2, EmptyIndexNode, 0)
        lnode == IF j < half
                 THEN Put(Paste(old, j, ((indxkeys - 1) \div 2) - j, old, j + 1), j, d)
                 ELSE old
        s == SplitOff(t, l, NewIndex, half, indxkeys \div 2)
        filled == [s.page EXCEPT ![l] = [@ EXCEPT !.node = lnode],
                                 ![r] = [@ EXCEPT !.node = rnode, !.child = mid.buf]]
    IN  [tree |-> [s EXCEPT !.page = Adopt(filled, r)],
         up   |-> [hash |-> mid.hash, buf |-> r]]

\* Step 3 of both splits: hang right page `up.buf` beside left page l.  A page
\* without a parent gets a new root, a parent with room a new key; a full parent
\* is split in turn, which leaves its own right half still to be hung.
Hang(c) ==
    LET t == c.tree
        l == c.left
        r == c.up.buf
        above == t.page[l].parent
        root == t.used
        grown == Grow(t, [NewIndex EXCEPT !.len = 1, !.child = l,
                                          !.node = Put(EmptyIndexNode, 0, c.up)])
        same == [t EXCEPT !.page = Reparent(t.page, {r}, above)]
    IN  IF above = 0
        THEN [tree |-> [grown EXCEPT !.first = root,
                                     !.page = Reparent(grown.page, {l, r}, root)],
              left |-> root, up |-> c.up, open |-> FALSE]
        ELSE IF HasRoom(t.page[above])
        THEN [tree |-> [same EXCEPT !.page[above] = SlotAdd(@, c.up)],
              left |-> above, up |-> c.up, open |-> FALSE]
        ELSE LET s == IndexSplit(same, above, c.up)
             IN  [tree |-> s.tree, left |-> above, up |-> s.up, open |-> TRUE]

\* The recursion of bplus_indexsplit into its parent, one level per iteration.
HangAll(t, l, up) ==
    LET Climb[n \in Nat] ==
            IF n = 0 THEN [tree |-> t, left |-> l, up |-> up, open |-> TRUE]
            ELSE LET c == Climb[n - 1] IN IF c.open THEN Hang(c) ELSE c
    IN  Climb[t.used].tree

\* bplus_leafsplit on the full leaf l.  `at` is the slot the function returns,
\* which for the right half is not the slot the data went to.
LeafSplit(t, l, d) ==
    LET r    == t.used
        half == leafstep \div 2
        old  == t.page[l].node
        j    == Where(old, leafstep, d.hash)
        rnode == IF j <= half
                 THEN Paste(old, half, (leafstep + 1) \div 2, EmptyLeafNode, 0)
                 ELSE LET a == Paste(old, half + 1, j - 1 - half, EmptyLeafNode, 0)
                          b == Paste(old, j, leafstep - j, a, j - half)
                      IN  Put(b, j - 1 - half, d)
        lnode == IF j <= half
                 THEN Put(Paste(old, j, half - j, old, j + 1), j, d)
                 ELSE old
        s == SplitOff(t, l, NewLeaf, half + 1, (leafstep + 1) \div 2)
        filled == [s EXCEPT !.right = IF t.page[l].right = 0 THEN r ELSE @,
                            !.page = [s.page EXCEPT ![l] = [@ EXCEPT !.node = lnode],
                                                    ![r] = [@ EXCEPT !.node = rnode]]]
    IN  [tree |-> HangAll(filled, l, [hash |-> rnode[0].hash, buf |-> r]),
         at   |-> IF j <= half THEN <<l, j>> ELSE <<r, j - half>>]

\* bplus_insert: the tree with d in it, and the slot handed to the caller.
Insert(t, d) ==
    IF t.first = 0
    THEN LET p == t.used
             g == Grow(t, SlotAdd(NewLeaf, d))
         IN  [tree |-> [g EXCEPT !.first = p, !.left = p, !.right = p],
              at |-> <<p, 0>>]
    ELSE LET p == FindLeaf(t, d.hash) IN
         IF HasRoom(t.page[p])
         THEN LET j == Where(t.page[p].node, t.page[p].len, d.hash)
              IN  [tree |-> [t EXCEPT !.page[p] = SlotAdd(@, d)],
                   at |-> <<p, j>>]
         ELSE LeafSplit(t, p, d)

\* strhash_write of the slot d: the slot of an equal hash if there is one, else
\* an insertion; the tree after it, and the slot the caller gets.
Written(t, d) ==
    IF Search(t, d.hash) # <<0, 0>> THEN [tree |-> t, at |-> Search(t, d.hash)]
    ELSE Insert(t, d)

----------------------------------------------------------------------------
(* Walking. *)

Slot(t, at) == t.page[at[1]].node[at[2]]

\* The tree with another body in the slot at `at`, for callers that write there.
SetBody(t, at, b) ==
    LET node == t.page[at[1]].node
    IN  [t EXCEPT !.page[at[1]] = [@ EXCEPT !.node =
            [node EXCEPT ![at[2]] = [hash |-> node[at[2]].hash, body |-> b]]]]

\* bplus_trav: one step of the leaf walk; <<0, 0>> starts it and ends it.
TravNext(t, at) ==
    IF at = <<0, 0>>
    THEN IF t.left = 0 THEN <<0, 0>> ELSE <<t.left, 0>>
    ELSE IF at[2] + 1 < t.page[at[1]].len THEN <<at[1], at[2] + 1>>
    ELSE IF t.page[at[1]].right = 0 THEN <<0, 0>>
    ELSE <<t.page[at[1]].right, 0>>
=============================================================================
