------------------------------ MODULE StrHash ------------------------------
(***************************************************************************)
(* The string index: strhash_write on the B+ tree of BPlus.                *)
(* One process owns the tree; the hazard is the length of the call         *)
(* sequence, as every shape of the tree needs a history of splits.         *)
(***************************************************************************)
EXTENDS BPlus, Sequences

CONSTANTS
    Str,        \* strings
    HashOf      \* strhash_generate: [Str -> 64-bit hashes]

ASSUME HashType == HashOf \in [Str -> Nat \ {0}]

VARIABLE btnode     \* the tree

Hashes == {HashOf[s] : s \in Str}

\* strhash_start(0)
strhash_start == btnode = Prepared

\* The slot of string s: the string, inline or in strdata, is its body.
SlotOf(s) == [hash |-> HashOf[s], body |-> s]

strhash_write(s) == btnode' = Written(btnode, SlotOf(s)).tree

StrHashNext == \E s \in Str : strhash_write(s)

StrHashSpec == strhash_start /\ [][StrHashNext]_btnode

\* strhash_export and strhash_read: what a reader finds under a hash.
strhash_read(h) == Search(btnode, h)

----------------------------------------------------------------------------
(* Shape of the tree. *)

Children(pg) ==
    IF pg.type = "leaf" THEN {}
    ELSE {GetChild(pg, k) : k \in -1 .. pg.len - 1}

Live(pg) == {pg.node[i].hash : i \in 0 .. pg.len - 1}

\* The hashes in the leaves below page p.
Below(p) ==
    LET Sub[d \in Nat] ==
            [q \in Pages(btnode) |->
                LET pg == btnode.page[q] IN
                IF pg.type = "leaf" THEN Live(pg)
                ELSE IF d = 0 THEN {}
                ELSE UNION {Sub[d - 1][c] : c \in Children(pg)}]
    IN  Sub[btnode.used][p]

\* The number of links from page p up to the root.
Depth(p) ==
    LET Up[n \in Nat] ==
            [q \in Pages(btnode) |->
                IF btnode.page[q].parent = 0 \/ n = 0 THEN 0
                ELSE 1 + Up[n - 1][btnode.page[q].parent]]
    IN  Up[btnode.used][p]

Leaves == {p \in Pages(btnode) : btnode.page[p].type = "leaf"}

\* The slots bplus_trav visits, in order.
Walk ==
    LET Visit[n \in Nat] ==
            IF n = 0 THEN << >>
            ELSE LET w == Visit[n - 1]
                     next == TravNext(btnode, IF w = << >> THEN <<0, 0>> ELSE w[Len(w)])
                 IN  IF next = <<0, 0>> THEN w ELSE Append(w, next)
    IN  Visit[btnode.used * leafstep]

(* For every index page, key i of the page bounds its two neighbours: all the
   hashes below child i are at or above key i and below key i+1, and those below
   the leftmost child are below key 0.  bplus_findleaf steers by nothing else. *)
Separated ==
    \A p \in Pages(btnode) \ Leaves :
      LET pg == btnode.page[p] IN
      /\ pg.len > 0
      /\ \A k \in -1 .. pg.len - 1 : \A h \in Below(GetChild(pg, k)) :
           /\ k >= 0 => h >= pg.node[k].hash
           /\ k < pg.len - 1 => h < pg.node[k + 1].hash

(* Every split leaves the tree level and its upward links right: a page is the
   child of the page its parent link names and of no other, only head->first has
   no parent, and all leaves are equally deep.  The splits trust these links when
   they carry a key upward. *)
Levelled ==
    /\ \A p \in Pages(btnode) :
         {q \in Pages(btnode) : p \in Children(btnode.page[q])} =
             {btnode.page[p].parent} \ {0}
    /\ \A p \in Pages(btnode) : btnode.page[p].parent = 0 <=> p = btnode.first
    /\ Cardinality({Depth(p) : p \in Leaves}) <= 1

(* After every insertion, however far its split climbs, the pages are a B+ tree again:
   the keys steer rightly, and the links that later splits trust are mended. *)
TreeSound == Separated /\ Levelled

(* bplus_trav, which substring search lists the database with, visits the slot
   of every hash in use exactly once and in ascending order, and ends. *)
TravAscending ==
    LET w == Walk
        at(i) == Slot(btnode, w[i]).hash
    IN  /\ \A i, j \in DOMAIN w : i < j => at(i) < at(j)
        /\ {at(i) : i \in DOMAIN w} = UNION {Live(btnode.page[p]) : p \in Leaves}

(* The index implements the map of StrMap: what bplus_search finds under each
   hash, through whatever splits and in spite of the stale slots, is the string
   first written under it, and a hash never written is not found. *)
Readable ==
    UNION {{[hash |-> h, str |-> Slot(btnode, at).body] : at \in {strhash_read(h)} \ {<<0, 0>>}} :
             h \in Hashes}

Map == INSTANCE StrMap WITH entries <- Readable

ImplementsMap == Map!Spec

(* strhash_write returns the slot of the string it was given, as every caller
   takes it to: worker_start reads the hash back through it and relationcreate
   hangs relations on it. *)
ReturnsItsSlot ==
    \A s \in Str : LET w == Written(btnode, SlotOf(s))
                   IN  Slot(w.tree, w.at).hash = HashOf[s]
=============================================================================
