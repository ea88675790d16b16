---------------------------- MODULE IndexProofs ----------------------------
(***************************************************************************)
(* Proofs about the string index and about what the learner makes on it,   *)
(* for any strings, hashes and sizes of the pages: however many strings    *)
(* are written, and whatever splits they cause, the tree is a B+ tree and  *)
(* the index keeps the first string of every hash; and whatever pointers   *)
(* the learner's handlers keep, the chains of relations it threads through *)
(* the strings, the files and the functions lead where they should.        *)
(***************************************************************************)
EXTENDS StrHash, Query, BPlusProofs, FiniteSetTheorems

\* What the slots hold.
Bodies == Str \cup {NoBody}

(* The invariant: the tree is the empty one or a B+ tree with its leaves in order and no
   stale hash that is not in use as well, and every slot in use is of some string. *)
IndexInv ==
    /\ Fine(btnode, Bodies)
    /\ \A s \in InUse(btnode) : \E x \in Str : s = SlotOf(x)

\* A string's slot is one of a leaf, and its hash is not 0.
LEMMA SlotOfIs ==
    ASSUME NEW s \in Str
    PROVE  SlotOf(s) \in LeafSlot(Bodies) /\ SlotOf(s).hash = HashOf[s] /\ SlotOf(s).hash # 0
           /\ SlotOf(s).body = s
<1>1. HashOf[s] \in Nat /\ HashOf[s] # 0
  BY HashType
<1>2. s \in Bodies
  BY DEF Bodies
<1> QED BY <1>1, <1>2 DEF SlotOf, LeafSlot

\* strhash_write keeps the invariant.
LEMMA WriteKeeps ==
    ASSUME IndexInv, NEW s \in Str, strhash_write(s)
    PROVE  /\ IndexInv'
           /\ InUse(btnode') = IF \E e \in InUse(btnode) : e.hash = HashOf[s] THEN InUse(btnode)
                               ELSE InUse(btnode) \cup {SlotOf(s)}
<1> DEFINE d == SlotOf(s)
           t == btnode
           B == Bodies
<1>1. NoBody \in B /\ d \in LeafSlot(B) /\ d.hash = HashOf[s] /\ d.hash # 0
  BY SlotOfIs DEF Bodies
<1>2. btnode' = Written(t, d).tree
  BY DEF strhash_write
<1>3. Fine(t, B)
  BY DEF IndexInv
<1> HIDE DEF d, t, B
<1>4. /\ Fine(Written(t, d).tree, B)
      /\ InUse(Written(t, d).tree) =
           IF \E e \in InUse(t) : e.hash = d.hash THEN InUse(t) ELSE InUse(t) \cup {d}
  BY ONLY <1>1, <1>3, WrittenIs
<1>5. \A e \in InUse(Written(t, d).tree) : \E x \in Str : e = SlotOf(x)
  BY <1>4 DEF IndexInv, t, d
<1>6. Fine(btnode', B) /\ \A e \in InUse(btnode') : \E x \in Str : e = SlotOf(x)
  BY <1>2, <1>4, <1>5
<1>7. IndexInv'
  BY <1>6 DEF IndexInv, B, Bodies
<1> QED BY <1>1, <1>2, <1>4, <1>7 DEF t, d

(* Whatever is written, the tree stays a B+ tree whose slots are those of strings. *)
THEOREM IndexHolds == StrHashSpec => []IndexInv
<1>1. strhash_start => IndexInv
  <2> SUFFICES ASSUME strhash_start  PROVE IndexInv
    OBVIOUS
  <2>1. btnode = Prepared
    BY DEF strhash_start
  <2>2. InUse(btnode) = {}
    BY <2>1, PreparedIs
  <2> QED BY <2>1, <2>2 DEF IndexInv, Fine
<1>2. IndexInv /\ [StrHashNext]_btnode => IndexInv'
  <2> SUFFICES ASSUME IndexInv, [StrHashNext]_btnode  PROVE IndexInv'
    OBVIOUS
  <2>1. ASSUME NEW s \in Str, strhash_write(s)  PROVE IndexInv'
    BY <2>1, WriteKeeps
  <2>2. CASE UNCHANGED btnode
    BY <2>2 DEF IndexInv, Bodies, SlotOf
  <2> QED BY <2>1, <2>2 DEF StrHashNext
<1> QED BY <1>1, <1>2, PTL DEF StrHashSpec

----------------------------------------------------------------------------
(* The contract. *)

\* What readers find is what is in the slots in use.
LEMMA ReadableIs ==
    ASSUME IndexInv
    PROVE  Readable = {[hash |-> s.hash, str |-> s.body] : s \in InUse(btnode)}
<1> DEFINE t == btnode
           E(h) == {[hash |-> h, str |-> Slot(t, at).body] : at \in {Search(t, h)} \ {<<0, 0>>}}
<1>1. Readable = UNION {E(h) : h \in Hashes}
  BY DEF Readable, strhash_read
<1>2. ASSUME NEW h \in Nat \ {0}
      PROVE  /\ (\A s \in InUse(t) : s.hash # h) => Search(t, h) = <<0, 0>>
             /\ \A s \in InUse(t) : s.hash = h => Search(t, h) # <<0, 0>> /\ Slot(t, Search(t, h)) = s
  <2>1. CASE t = Prepared
    BY <2>1, PreparedIs, SearchPrepared
  <2>2. CASE t # Prepared
    <3>1. PICK H, R : Mended(t, Bodies, H, R) /\ Chained(t, R) /\ Clean(t)
      BY <2>2 DEF IndexInv, Fine
    <3> HIDE DEF t
    <3> QED BY <3>1, SearchIs
  <2> QED BY <2>1, <2>2
<1>3. \A h \in Hashes : h \in Nat \ {0}
  BY HashType DEF Hashes
<1>4. \A s \in InUse(t) : s.hash \in Hashes
  BY SlotOfIs DEF IndexInv, Hashes
<1>5. ASSUME NEW h \in Hashes
      PROVE  \A e : e \in E(h) <=> \E s \in InUse(t) : s.hash = h /\ e = [hash |-> s.hash, str |-> s.body]
  <2>1. CASE \E s \in InUse(t) : s.hash = h
    <3>1. PICK s \in InUse(t) : s.hash = h
      BY <2>1
    <3>2. Search(t, h) # <<0, 0>> /\ Slot(t, Search(t, h)) = s
      BY <1>2, <1>3, <3>1
    <3>3. E(h) = {[hash |-> h, str |-> s.body]}
      BY <3>2
    <3>4. \A s2 \in InUse(t) : s2.hash = h => s2 = s
      BY <1>2, <1>3, <3>2
    <3> HIDE DEF E, t
    <3> QED BY <3>1, <3>3, <3>4
  <2>2. CASE ~\E s \in InUse(t) : s.hash = h
    <3>1. Search(t, h) = <<0, 0>>
      BY <1>2, <1>3, <2>2
    <3>2. E(h) = {}
      BY <3>1
    <3> QED BY <2>2, <3>2
  <2> QED BY <2>1, <2>2
<1> HIDE DEF E
<1>6. ASSUME NEW e
      PROVE  e \in Readable <=> \E s \in InUse(t) : e = [hash |-> s.hash, str |-> s.body]
  <2>1. e \in Readable <=> \E h \in Hashes : e \in E(h)
    BY <1>1
  <2> QED BY <1>4, <1>5, <2>1
<1> QED BY <1>6

(* The index implements the map of StrMap, for every page size and every set of strings:
   what bplus_search finds under a hash, through whatever splits and in spite of the stale
   slots, is the string first written under it. *)
THEOREM IndexIsMap == StrHashSpec => ImplementsMap
<1>1. strhash_start => Map!Init
  <2> SUFFICES ASSUME strhash_start  PROVE Readable = {}
    BY DEF Map!Init
  <2>1. btnode = Prepared
    BY DEF strhash_start
  <2>2. \A h \in Hashes : Search(btnode, h) = <<0, 0>>
    BY <2>1, SearchPrepared
  <2> QED BY <2>2 DEF Readable, strhash_read
<1>2. IndexInv /\ IndexInv' /\ [StrHashNext]_btnode => [Map!Next]_Readable
  <2> SUFFICES ASSUME IndexInv, IndexInv', [StrHashNext]_btnode  PROVE [Map!Next]_Readable
    OBVIOUS
  <2> DEFINE U == InUse(btnode)
             Entries(S) == {[hash |-> s.hash, str |-> s.body] : s \in S}
  <2>1. Readable = Entries(U)
    BY ReadableIs
  <2>2. Readable' = Entries(InUse(btnode'))
    <3>1. (IndexInv => Readable = {[hash |-> s.hash, str |-> s.body] : s \in InUse(btnode)})'
      BY ReadableIs, PTL
    <3> QED BY <3>1 DEF InUse, Pages
  <2>3. ASSUME NEW s \in Str, strhash_write(s)  PROVE Map!Write(s)
    <3>1. InUse(btnode') = IF \E e \in U : e.hash = HashOf[s] THEN U ELSE U \cup {SlotOf(s)}
      BY <2>3, WriteKeeps
    <3>2. (\E e \in Readable : e.hash = HashOf[s]) <=> \E e \in U : e.hash = HashOf[s]
      <4> HIDE DEF U
      <4>1. \A e \in U : /\ [hash |-> e.hash, str |-> e.body] \in Readable
                         /\ [hash |-> e.hash, str |-> e.body].hash = e.hash
        BY <2>1
      <4>2. \A e \in Readable : \E u \in U : e = [hash |-> u.hash, str |-> u.body]
        BY <2>1
      <4>3. \A e \in Readable : \E u \in U : e.hash = u.hash
        BY <4>2
      <4> QED BY <4>1, <4>3
    <3>3. [hash |-> SlotOf(s).hash, str |-> SlotOf(s).body] = [hash |-> HashOf[s], str |-> s]
      BY SlotOfIs
    <3> HIDE DEF U
    <3>4. Entries(U \cup {SlotOf(s)}) = Entries(U) \cup {[hash |-> HashOf[s], str |-> s]}
      BY <3>3
    <3> HIDE DEF Entries
    <3> QED BY <2>1, <2>2, <3>1, <3>2, <3>4 DEF Map!Write
  <2>4. CASE UNCHANGED btnode
    <3>1. Readable' = Readable
      BY <2>4 DEF Readable, strhash_read, Hashes
    <3> QED BY <3>1
  <2> QED BY <2>3, <2>4 DEF StrHashNext, Map!Next
<1> QED BY <1>1, <1>2, IndexHolds, PTL DEF StrHashSpec, ImplementsMap, Map!Spec

----------------------------------------------------------------------------
(* The shape of the tree. *)

\* The children of a page.
LEMMA ChildrenIs ==
    ASSUME NEW pg, pg.len \in Nat
    PROVE  /\ pg.type = "leaf" => Children(pg) = {}
           /\ pg.type # "leaf" => Children(pg) = Kids(pg)
BY ChildrenAre DEF Children

\* The recursion of Below.
SubIs(g) ==
    g = [d \in Nat |->
            [q \in Pages(btnode) |->
                LET pg == btnode.page[q] IN
                IF pg.type = "leaf" THEN Live(pg)
                ELSE IF d = 0 THEN {}
                ELSE UNION {g[d - 1][c] : c \in Children(pg)}]]

\* The recursion of Below defines a function.
LEMMA SubExists ==
    ASSUME NEW B, NEW H, NEW R, Mended(btnode, B, H, R)
    PROVE  \E g : SubIs(g)
<1> DEFINE P == Pages(btnode)
           X == [P -> SUBSET Nat]
           a == [q \in P |-> IF btnode.page[q].type = "leaf" THEN Live(btnode.page[q]) ELSE {}]
           E == [f \in X |-> [q \in P |-> IF btnode.page[q].type = "leaf" THEN Live(btnode.page[q])
                                          ELSE UNION {f[c] : c \in Children(btnode.page[q])}]]
<1>1. ASSUME NEW q \in P
      PROVE  /\ Live(btnode.page[q]) \in SUBSET Nat
             /\ btnode.page[q].type # "leaf" => Children(btnode.page[q]) \subseteq P
  <2>1. /\ btnode.page[q].len \in Nat
        /\ \A i \in 0 .. btnode.page[q].len - 1 : btnode.page[q].node[i].hash \in Nat
        /\ btnode.page[q].type # "leaf" => \A c \in Kids(btnode.page[q]) : c \in P
    BY MendedPages
  <2> QED BY <2>1, ChildrenIs DEF Live
<1>2. a \in X
  BY <1>1
<1>3. E \in [X -> X]
  <2> SUFFICES ASSUME NEW f \in X, NEW q \in P
               PROVE  (IF btnode.page[q].type = "leaf" THEN Live(btnode.page[q])
                       ELSE UNION {f[c] : c \in Children(btnode.page[q])}) \in SUBSET Nat
    OBVIOUS
  <2> HIDE DEF P
  <2> QED BY <1>1
<1>4. /\ \A q \in P : a[q] = IF btnode.page[q].type = "leaf" THEN Live(btnode.page[q]) ELSE {}
      /\ \A f \in X : E[f] = [q \in P |-> IF btnode.page[q].type = "leaf" THEN Live(btnode.page[q])
                                          ELSE UNION {f[c] : c \in Children(btnode.page[q])}]
      /\ a = [q \in P |-> a[q]]
  OBVIOUS
<1> HIDE DEF X, a, E
<1>5. PICK g \in [Nat -> X] : RecursOn(g, a, E)
  BY <1>2, <1>3, RecursionOnNat
<1>6. ASSUME NEW d \in Nat
      PROVE  g[d] = [q \in P |->
                        LET pg == btnode.page[q] IN
                        IF pg.type = "leaf" THEN Live(pg)
                        ELSE IF d = 0 THEN {}
                        ELSE UNION {g[d - 1][c] : c \in Children(pg)}]
  <2>1. g[d] = IF d = 0 THEN a ELSE E[g[d - 1]]
    BY <1>5 DEF RecursOn
  <2>2. CASE d = 0
    BY <1>4, <2>1, <2>2
  <2>3. CASE d # 0
    <3>1. g[d - 1] \in X
      BY <2>3
    <3> QED BY <1>4, <2>1, <2>3, <3>1
  <2> QED BY <2>2, <2>3
<1>7. g = [d \in Nat |-> g[d]]
  OBVIOUS
<1>8. SubIs(g)
  BY <1>6, <1>7, Zenon DEF SubIs, P
<1> QED BY <1>8

\* The hashes below a page are of those it is there for.
LEMMA BelowIn ==
    ASSUME NEW B, NEW H, NEW R, Mended(btnode, B, H, R), NEW p \in Pages(btnode)
    PROVE  Below(p) \subseteq R[p]
<1> DEFINE g == CHOOSE g : SubIs(g)
           T == {d \in Nat : \A q \in Pages(btnode) : g[d][q] \subseteq R[q]}
<1>1. SubIs(g)
  BY SubExists, Zenon
<1>2. Below(p) = g[btnode.used][p]
  BY Zenon DEF Below, SubIs
<1> HIDE DEF g
<1>3. ASSUME NEW d \in Nat, NEW q \in Pages(btnode)
      PROVE  g[d][q] = IF btnode.page[q].type = "leaf" THEN Live(btnode.page[q])
                       ELSE IF d = 0 THEN {}
                       ELSE UNION {g[d - 1][c] : c \in Children(btnode.page[q])}
  <2>1. g[d] = [x \in Pages(btnode) |->
                   LET pg == btnode.page[x] IN
                   IF pg.type = "leaf" THEN Live(pg)
                   ELSE IF d = 0 THEN {}
                   ELSE UNION {g[d - 1][c] : c \in Children(pg)}]
    BY <1>1, Zenon DEF SubIs
  <2> QED BY <2>1, Zenon
<1>4. ASSUME NEW q \in Pages(btnode)
      PROVE  /\ btnode.page[q].type = "leaf" => Live(btnode.page[q]) \subseteq R[q]
             /\ btnode.page[q].type # "leaf" =>
                  \A c \in Children(btnode.page[q]) : c \in Pages(btnode) /\ R[c] \subseteq R[q]
  <2> DEFINE pg == btnode.page[q]
  <2>1. /\ pg.len \in Nat /\ Keyed(pg.node, pg.len, R[q])
        /\ pg.type # "leaf" => /\ Fan(pg.child, pg.node, pg.len, R[q], R)
                               /\ \A c \in Kids(pg) : c \in Pages(btnode)
    BY MendedPages
  <2> HIDE DEF pg
  <2>2. Live(pg) \subseteq R[q]
    BY <2>1 DEF Live, Keyed
  <2>3. pg.type # "leaf" => \A c \in Kids(pg) : R[c] \subseteq R[q]
    BY <2>1 DEF Fan, Kids, KidSet
  <2> QED BY <2>1, <2>2, <2>3, ChildrenIs DEF pg
<1>5. 0 \in T
  BY <1>3, <1>4
<1>6. ASSUME NEW d \in T  PROVE d + 1 \in T
  <2>1. d \in Nat /\ d + 1 \in Nat /\ (d + 1) - 1 = d /\ d + 1 # 0
    OBVIOUS
  <2> SUFFICES ASSUME NEW q \in Pages(btnode)  PROVE g[d + 1][q] \subseteq R[q]
    BY <2>1
  <2>2. g[d + 1][q] = IF btnode.page[q].type = "leaf" THEN Live(btnode.page[q])
                      ELSE UNION {g[d][c] : c \in Children(btnode.page[q])}
    <3>1. g[d + 1][q] = IF btnode.page[q].type = "leaf" THEN Live(btnode.page[q])
                        ELSE IF d + 1 = 0 THEN {}
                        ELSE UNION {g[(d + 1) - 1][c] : c \in Children(btnode.page[q])}
      BY <1>3, <2>1
    <3>2. UNION {g[(d + 1) - 1][c] : c \in Children(btnode.page[q])}
            = UNION {g[d][c] : c \in Children(btnode.page[q])}
      BY <2>1
    <3> QED BY <2>1, <3>1, <3>2
  <2>3. \A c \in Pages(btnode) : g[d][c] \subseteq R[c]
    OBVIOUS
  <2> QED BY <1>4, <2>2, <2>3
<1>7. T = Nat
  <2>1. T \in SUBSET Nat
    OBVIOUS
  <2> HIDE DEF T
  <2> QED BY <1>5, <1>6, <2>1, Induction
<1>8. btnode.used \in Nat
  BY TreeFields DEF Mended
<1> QED BY <1>2, <1>7, <1>8

\* Every key bounds its neighbours.
LEMMA SeparatedIs ==
    ASSUME NEW B, NEW H, NEW R, Mended(btnode, B, H, R)
    PROVE  Separated
<1> SUFFICES ASSUME NEW p \in Pages(btnode) \ Leaves
             PROVE  LET pg == btnode.page[p] IN
                    /\ pg.len > 0
                    /\ \A k \in -1 .. pg.len - 1 : \A h \in Below(GetChild(pg, k)) :
                         /\ k >= 0 => h >= pg.node[k].hash
                         /\ k < pg.len - 1 => h < pg.node[k + 1].hash
  BY DEF Separated
<1> DEFINE pg == btnode.page[p]
<1>1. /\ pg.len \in Nat \ {0} /\ \A i \in 0 .. pg.len - 1 : pg.node[i].hash \in Nat
      /\ Fan(pg.child, pg.node, pg.len, R[p], R)
      /\ \A c \in Kids(pg) : c \in Pages(btnode)
  BY MendedPages DEF Leaves
<1> HIDE DEF pg
<1>2. ASSUME NEW k \in -1 .. pg.len - 1, NEW h \in Below(GetChild(pg, k))
      PROVE  (k >= 0 => h >= pg.node[k].hash) /\ (k < pg.len - 1 => h < pg.node[k + 1].hash)
  <2> DEFINE c == Kid(pg.child, pg.node, k)
  <2>1. GetChild(pg, k) = c
    BY <1>1 DEF GetChild, Kid
  <2>2. c \in Kids(pg)
    BY DEF Kids, KidSet
  <2>3. R[c] = R[p] \cap Slice(pg.node, pg.len, k)
    BY <1>1 DEF Fan
  <2> HIDE DEF c
  <2>4. h \in R[c]
    BY <1>1, <2>1, <2>2, BelowIn
  <2>5. /\ h \in Nat
        /\ k >= 0 => pg.node[k].hash <= h
        /\ k + 1 < pg.len => h < pg.node[k + 1].hash
    BY <2>3, <2>4 DEF Slice
  <2>6. k < pg.len - 1 => k + 1 < pg.len
    BY <1>1
  <2>7. k >= 0 => pg.node[k].hash \in Nat
    BY <1>1
  <2> QED BY <2>5, <2>6, <2>7
<1>3. pg.len > 0
  BY <1>1
<1> QED BY <1>2, <1>3 DEF pg

\* The recursion of Depth.
UpIs(g) ==
    g = [n \in Nat |->
            [q \in Pages(btnode) |->
                IF btnode.page[q].parent = 0 \/ n = 0 THEN 0
                ELSE 1 + g[n - 1][btnode.page[q].parent]]]

\* A page's parent is a page that has it for a child, one level up; only the first has none.
LEMMA ParentIs ==
    ASSUME NEW B, NEW H, NEW R, Mended(btnode, B, H, R), NEW q \in Pages(btnode)
    PROVE  /\ btnode.page[q].parent = 0 <=> q = btnode.first
           /\ btnode.page[q].parent # 0 =>
                /\ btnode.page[q].parent \in Pages(btnode)
                /\ btnode.page[btnode.page[q].parent].type = "index"
                /\ q \in Kids(btnode.page[btnode.page[q].parent])
                /\ H[btnode.page[q].parent] = H[q] + 1
<1> DEFINE a == btnode.page[q].parent
<1>1. btnode.page[btnode.first].parent = 0
  BY MendedFirst
<1>2. q # btnode.first => KnowsParent(btnode.page, btnode.used - 1, q)
  <2>1. Sound(btnode.page, btnode.used - 1, btnode.first, H, R, 0, 0) /\ q \in 1 .. btnode.used - 1
    BY DEF Mended, Pages
  <2>2. q # 0
    BY DEF Pages
  <2> QED BY <2>1, <2>2 DEF Sound
<1>3. q # btnode.first => a \in Pages(btnode) /\ btnode.page[a].type = "index" /\ q \in Kids(btnode.page[a])
  BY <1>2 DEF KnowsParent, Pages
<1>4. q # btnode.first => a # 0
  BY <1>3 DEF Pages
<1> HIDE DEF a
<1>5. q # btnode.first => H[q] + 1 = H[a]
  <2>1. q # btnode.first => btnode.page[a].type # "leaf"
    BY <1>3
  <2> QED BY <1>3, <2>1, MendedPages
<1> QED BY <1>1, <1>3, <1>4, <1>5 DEF a

\* So does that of Depth.
LEMMA UpExists ==
    ASSUME NEW B, NEW H, NEW R, Mended(btnode, B, H, R)
    PROVE  \E g : UpIs(g)
<1> DEFINE P == Pages(btnode)
           up(q) == btnode.page[q].parent
           X == [P -> Nat]
           a == [q \in P |-> 0]
           E == [f \in X |-> [q \in P |-> IF up(q) = 0 THEN 0 ELSE 1 + f[up(q)]]]
<1>1. a \in X
  OBVIOUS
<1>2. E \in [X -> X]
  <2> SUFFICES ASSUME NEW f \in X, NEW q \in P  PROVE (IF up(q) = 0 THEN 0 ELSE 1 + f[up(q)]) \in Nat
    OBVIOUS
  <2>1. up(q) # 0 => up(q) \in P
    BY ParentIs
  <2> HIDE DEF P, up
  <2> QED BY <2>1
<1>3. /\ \A q \in P : a[q] = 0
      /\ \A f \in X : E[f] = [q \in P |-> IF up(q) = 0 THEN 0 ELSE 1 + f[up(q)]]
      /\ a = [q \in P |-> 0]
  OBVIOUS
<1> HIDE DEF X, a, E
<1>4. PICK g \in [Nat -> X] : RecursOn(g, a, E)
  BY <1>1, <1>2, RecursionOnNat
<1>5. ASSUME NEW n \in Nat
      PROVE  g[n] = [q \in P |-> IF btnode.page[q].parent = 0 \/ n = 0 THEN 0
                                 ELSE 1 + g[n - 1][btnode.page[q].parent]]
  <2>1. g[n] = IF n = 0 THEN a ELSE E[g[n - 1]]
    BY <1>4 DEF RecursOn
  <2>2. CASE n = 0
    BY <1>3, <2>1, <2>2
  <2>3. CASE n # 0
    <3>1. g[n - 1] \in X
      BY <2>3
    <3>2. g[n] = [q \in P |-> IF up(q) = 0 THEN 0 ELSE 1 + g[n - 1][up(q)]]
      BY <1>3, <2>1, <2>3, <3>1
    <3> QED BY <2>3, <3>2
  <2> QED BY <2>2, <2>3
<1>6. g = [n \in Nat |-> g[n]]
  OBVIOUS
<1>7. UpIs(g)
  BY <1>5, <1>6, Zenon DEF UpIs, P
<1> QED BY <1>7

\* A page is as deep as it is below the height of the root.
LEMMA DepthIs ==
    ASSUME NEW B, NEW H, NEW R, Mended(btnode, B, H, R), NEW p \in Pages(btnode)
    PROVE  Depth(p) = H[btnode.first] - H[p]
<1> DEFINE g == CHOOSE g : UpIs(g)
           top == H[btnode.first]
           T == {n \in Nat : \A q \in Pages(btnode) : top - H[q] <= n => g[n][q] = top - H[q]}
<1>1. UpIs(g)
  BY UpExists, Zenon
<1>2. Depth(p) = g[btnode.used][p]
  BY Zenon DEF Depth, UpIs
<1> HIDE DEF g
<1>3. ASSUME NEW n \in Nat, NEW q \in Pages(btnode)
      PROVE  g[n][q] = IF btnode.page[q].parent = 0 \/ n = 0 THEN 0
                       ELSE 1 + g[n - 1][btnode.page[q].parent]
  <2>1. g[n] = [x \in Pages(btnode) |-> IF btnode.page[x].parent = 0 \/ n = 0 THEN 0
                                        ELSE 1 + g[n - 1][btnode.page[x].parent]]
    BY <1>1, Zenon DEF UpIs
  <2> QED BY <2>1, Zenon
<1>4. top \in Nat /\ top < btnode.used /\ btnode.first \in Pages(btnode) /\ btnode.used \in Nat
  BY MendedFirst, MendedPages, TreeFields DEF Mended
<1>5. \A q \in Pages(btnode) : H[q] \in Nat /\ H[q] <= top
  BY MendedPages DEF Mended, Sound, Rooted, Pages
<1> HIDE DEF top
<1>6. \A q \in Pages(btnode) : btnode.page[q].parent = 0 => H[q] = top
  BY ParentIs DEF top
<1>7. 0 \in T
  <2> SUFFICES ASSUME NEW q \in Pages(btnode), top - H[q] <= 0  PROVE g[0][q] = top - H[q]
    OBVIOUS
  <2>1. H[q] = top /\ top - H[q] = 0
    BY <1>4, <1>5
  <2>2. g[0][q] = 0
    BY <1>3
  <2> QED BY <2>1, <2>2
<1>8. ASSUME NEW n \in T  PROVE n + 1 \in T
  <2>1. n \in Nat /\ n + 1 \in Nat /\ (n + 1) - 1 = n /\ n + 1 # 0
    OBVIOUS
  <2> SUFFICES ASSUME NEW q \in Pages(btnode), top - H[q] <= n + 1  PROVE g[n + 1][q] = top - H[q]
    BY <2>1
  <2> DEFINE a == btnode.page[q].parent
  <2>2. g[n + 1][q] = IF a = 0 THEN 0 ELSE 1 + g[n][a]
    <3>1. g[n + 1][q] = IF a = 0 \/ n + 1 = 0 THEN 0 ELSE 1 + g[(n + 1) - 1][a]
      BY <1>3, <2>1
    <3> QED BY <2>1, <3>1
  <2>3. CASE a = 0
    BY <1>4, <1>6, <2>2, <2>3
  <2>4. CASE a # 0
    <3>1. a \in Pages(btnode) /\ H[a] = H[q] + 1
      BY <2>4, ParentIs
    <3> HIDE DEF a
    <3>2. H[a] \in Nat /\ H[q] \in Nat
      BY <1>5, <3>1
    <3>3. top - H[a] <= n /\ 1 + (top - H[a]) = top - H[q]
      BY <1>4, <2>1, <3>1, <3>2
    <3>4. g[n][a] = top - H[a]
      BY <3>1, <3>3
    <3> QED BY <2>2, <2>4, <3>3, <3>4
  <2> QED BY <2>3, <2>4
<1>9. T = Nat
  <2>1. T \in SUBSET Nat
    OBVIOUS
  <2> HIDE DEF T
  <2> QED BY <1>7, <1>8, <2>1, Induction
<1>10. top - H[p] <= btnode.used
  BY <1>4, <1>5
<1>11. btnode.used \in T
  BY <1>4, <1>9
<1>12. g[btnode.used][p] = top - H[p]
  BY <1>10, <1>11
<1> QED BY <1>2, <1>12 DEF top

\* The links up are those down turned round, and all leaves are equally deep.
LEMMA LevelledIs ==
    ASSUME NEW B, NEW H, NEW R, Mended(btnode, B, H, R)
    PROVE  Levelled
<1>1. ASSUME NEW p \in Pages(btnode)
      PROVE  {q \in Pages(btnode) : p \in Children(btnode.page[q])} = {btnode.page[p].parent} \ {0}
  <2> DEFINE a == btnode.page[p].parent
  <2>1. ASSUME NEW q \in Pages(btnode), p \in Children(btnode.page[q])  PROVE q = a /\ a # 0
    <3>1. btnode.page[q].type # "leaf" /\ p \in Kids(btnode.page[q])
      BY <2>1, ChildrenAre, MendedPages DEF Children
    <3>2. btnode.page[p].parent = q
      BY <3>1, MendedPages
    <3>3. q # 0
      BY DEF Pages
    <3> QED BY <3>2, <3>3
  <2>2. a # 0 => a \in Pages(btnode) /\ p \in Children(btnode.page[a])
    <3>1. a # 0 => a \in Pages(btnode) /\ btnode.page[a].type = "index" /\ p \in Kids(btnode.page[a])
      BY ParentIs
    <3>2. a # 0 => btnode.page[a].len \in Nat
      BY <3>1, MendedPages
    <3> QED BY <3>1, <3>2, ChildrenIs
  <2> QED BY <2>1, <2>2
<1>2. \A p \in Pages(btnode) : btnode.page[p].parent = 0 <=> p = btnode.first
  BY ParentIs
<1>3. Cardinality({Depth(p) : p \in Leaves}) <= 1
  <2> DEFINE D == {Depth(p) : p \in Leaves}
             top == H[btnode.first]
  <2>1. \A p \in Leaves : Depth(p) = top
    <3> SUFFICES ASSUME NEW p \in Leaves  PROVE Depth(p) = top
      OBVIOUS
    <3>1. p \in Pages(btnode) /\ btnode.page[p].type = "leaf"
      BY DEF Leaves
    <3>2. H[p] = 0 /\ top \in Nat
      BY <3>1, MendedPages, MendedFirst
    <3>3. Depth(p) = top - H[p]
      BY <3>1, DepthIs
    <3> HIDE DEF top
    <3> QED BY <3>2, <3>3
  <2>2. D = {} \/ D = {top}
    <3> HIDE DEF top
    <3> QED BY <2>1
  <2> HIDE DEF D
  <2>3. Cardinality({}) = 0 /\ Cardinality({top}) = 1
    BY FS_EmptySet, FS_Singleton
  <2>4. Cardinality(D) <= 1
    BY <2>2, <2>3
  <2> QED BY <2>4 DEF D
<1> QED BY <1>1, <1>2, <1>3 DEF Levelled

(* After every insertion, however far its split climbs, the pages are a B+ tree again:
   the keys steer rightly and the links that later splits trust are mended. *)
THEOREM AlwaysSound == StrHashSpec => []TreeSound
<1>1. IndexInv => TreeSound
  <2> SUFFICES ASSUME IndexInv  PROVE TreeSound
    OBVIOUS
  <2>1. CASE btnode = Prepared
    <3>1. Pages(btnode) = {} /\ Leaves = {}
      BY <2>1, PreparedIs DEF Leaves
    <3>2. {Depth(p) : p \in Leaves} = {}
      BY <3>1
    <3>3. Cardinality({Depth(p) : p \in Leaves}) <= 1
      BY <3>2, FS_EmptySet
    <3> QED BY <3>1, <3>3 DEF TreeSound, Separated, Levelled
  <2>2. CASE btnode # Prepared
    <3>1. PICK H, R : Mended(btnode, Bodies, H, R)
      BY <2>2 DEF IndexInv, Fine
    <3> QED BY <3>1, SeparatedIs, LevelledIs DEF TreeSound
  <2> QED BY <2>1, <2>2
<1> QED BY <1>1, IndexHolds, PTL

----------------------------------------------------------------------------
(* The walk. *)

\* Where the slots in use are.
LiveAt == {at \in Pages(btnode) \X LeafSlots :
              btnode.page[at[1]].type = "leaf" /\ at[2] < btnode.page[at[1]].len}

HashAt(at) == Slot(btnode, at).hash

\* What the walk relies on: the tree is one with pages, in order.
Ordered(H, R) == Mended(btnode, Bodies, H, R) /\ Chained(btnode, R)

\* A place of the walk is a slot in use of a leaf, and has one of its hashes.
LEMMA LiveAtIs ==
    ASSUME NEW H, NEW R, Ordered(H, R), NEW at \in LiveAt
    PROVE  /\ at[1] \in Pages(btnode) /\ at[1] # 0 /\ btnode.page[at[1]].type = "leaf"
           /\ at[2] \in 0 .. btnode.page[at[1]].len - 1 /\ at = <<at[1], at[2]>>
           /\ HashAt(at) = btnode.page[at[1]].node[at[2]].hash
           /\ HashAt(at) \in R[at[1]] /\ HashAt(at) \in Nat
<1> DEFINE p == at[1]
           i == at[2]
<1>1. p \in Pages(btnode) /\ i \in LeafSlots /\ btnode.page[p].type = "leaf" /\ i < btnode.page[p].len
      /\ at = <<p, i>>
  BY DEF LiveAt
<1> HIDE DEF p, i
<1>2. /\ btnode.page[p].len \in Nat /\ Keyed(btnode.page[p].node, btnode.page[p].len, R[p])
      /\ \A k \in 0 .. btnode.page[p].len - 1 : btnode.page[p].node[k].hash \in Nat
  BY <1>1, MendedPages DEF Ordered
<1>3. i \in 0 .. btnode.page[p].len - 1
  BY <1>1, <1>2, PageShape DEF LeafSlots
<1>4. HashAt(at) = btnode.page[p].node[i].hash
  BY DEF HashAt, Slot, p, i
<1>5. btnode.page[p].node[i].hash \in R[p] /\ btnode.page[p].node[i].hash \in Nat
  BY <1>2, <1>3 DEF Keyed
<1>6. p # 0
  BY <1>1 DEF Pages
<1> QED BY <1>1, <1>3, <1>4, <1>5, <1>6 DEF p, i

\* The other way round.
LEMMA LiveAtBy ==
    ASSUME NEW H, NEW R, Ordered(H, R), NEW p \in Pages(btnode), btnode.page[p].type = "leaf",
           NEW i \in 0 .. btnode.page[p].len - 1
    PROVE  <<p, i>> \in LiveAt
<1>1. btnode.page[p].len \in Nat /\ btnode.page[p].len <= leafstep
  BY MendedPages DEF Ordered, Capacity
<1>2. i \in LeafSlots /\ i < btnode.page[p].len
  BY <1>1, PageShape DEF LeafSlots
<1> QED BY <1>2 DEF LiveAt

\* The hashes of a leaf have nothing of another's between them.
LEMMA LeafApart ==
    ASSUME NEW H, NEW R, Ordered(H, R), NEW p \in Pages(btnode), btnode.page[p].type = "leaf",
           NEW x \in R[p], NEW y \in Nat, y >= x, y \notin R[p]
    PROVE  /\ btnode.page[p].right # 0 /\ btnode.page[p].right \in Pages(btnode)
           /\ btnode.page[btnode.page[p].right].type = "leaf"
           /\ \E v \in R[btnode.page[p].right] : x < v /\ v <= y
           /\ \A z \in R[p] : z < y
<1> DEFINE q == btnode.page[p].right
<1>1. IF q = 0 THEN \A a \in R[p] : \A b \in Nat : b >= a => b \in R[p]
      ELSE q \in Pages(btnode) /\ btnode.page[q].type = "leaf" /\ Follows(R, p, q)
  BY DEF Ordered, Chained
<1> HIDE DEF q
<1>2. q # 0 /\ q \in Pages(btnode) /\ btnode.page[q].type = "leaf" /\ Follows(R, p, q)
  BY <1>1
<1>3. PICK v \in R[q] : \A a \in R[p] : \A b \in Nat : b >= a => (b \in R[p] <=> b < v)
  BY <1>2 DEF Follows
<1>4. R[p] \in SUBSET Nat /\ R[q] \in SUBSET Nat
  BY <1>2, MendedPages DEF Ordered
<1>5. x \in Nat /\ v \in Nat
  BY <1>3, <1>4
<1>6. x < v /\ v <= y
  BY <1>3, <1>5
<1>7. ASSUME NEW z \in R[p]  PROVE z < y
  <2>1. z \in Nat
    BY <1>4
  <2>2. z < v
    BY <1>3, <2>1
  <2> QED BY <1>5, <1>6, <2>1, <2>2
<1> QED BY <1>2, <1>3, <1>6, <1>7 DEF q

\* What is in another leaf is in none of this one's hashes.
LEMMA OtherLeaf ==
    ASSUME NEW H, NEW R, Ordered(H, R), NEW p \in Pages(btnode), btnode.page[p].type = "leaf",
           NEW b \in LiveAt, b[1] # p
    PROVE  HashAt(b) \notin R[p]
<1>1. b[1] \in Pages(btnode) /\ btnode.page[b[1]].type = "leaf" /\ HashAt(b) \in R[b[1]]
  BY LiveAtIs
<1> QED BY <1>1, OneLeaf DEF Ordered

\* The first slot of a leaf has the lowest of its hashes.
LEMMA LeafStart ==
    ASSUME NEW H, NEW R, Ordered(H, R), NEW p \in Pages(btnode), btnode.page[p].type = "leaf"
    PROVE  /\ <<p, 0>> \in LiveAt
           /\ \A b \in LiveAt : b[1] = p => HashAt(<<p, 0>>) <= HashAt(b)
<1>1. btnode.page[p].len \in Nat \ {0} /\ Keyed(btnode.page[p].node, btnode.page[p].len, R[p])
  BY MendedPages DEF Ordered
<1>2. 0 \in 0 .. btnode.page[p].len - 1
  BY <1>1
<1>3. <<p, 0>> \in LiveAt
  BY <1>2, LiveAtBy
<1>4. HashAt(<<p, 0>>) = btnode.page[p].node[0].hash /\ HashAt(<<p, 0>>) \in Nat
  <2> DEFINE at == <<p, 0>>
  <2>1. at \in LiveAt /\ at[1] = p /\ at[2] = 0
    BY <1>3
  <2> HIDE DEF at
  <2>2. HashAt(at) = btnode.page[p].node[0].hash /\ HashAt(at) \in Nat
    BY <2>1, LiveAtIs
  <2> QED BY <2>2 DEF at
<1>5. ASSUME NEW b \in LiveAt, b[1] = p  PROVE HashAt(<<p, 0>>) <= HashAt(b)
  <2>1. /\ b[2] \in 0 .. btnode.page[p].len - 1 /\ HashAt(b) = btnode.page[p].node[b[2]].hash
        /\ HashAt(b) \in Nat
    BY <1>5, LiveAtIs
  <2>2. b[2] # 0 => btnode.page[p].node[0].hash < btnode.page[p].node[b[2]].hash
    BY <1>1, <1>2, <2>1 DEF Keyed
  <2> QED BY <1>4, <2>1, <2>2
<1> QED BY <1>3, <1>5

\* The walk starts at the lowest hash in use.
LEMMA TravStart ==
    ASSUME NEW H, NEW R, Ordered(H, R), NEW at, at = TravNext(btnode, <<0, 0>>)
    PROVE  at \in LiveAt /\ at # <<0, 0>> /\ \A b \in LiveAt : HashAt(at) <= HashAt(b)
<1> DEFINE p == btnode.left
<1>1. p \in Pages(btnode) /\ btnode.page[p].type = "leaf" /\ 0 \in R[p]
  BY DEF Ordered, Chained
<1>2. p # 0
  BY <1>1 DEF Pages
<1>3. at = <<p, 0>>
  BY <1>2 DEF TravNext
<1> HIDE DEF p
<1>4. at \in LiveAt /\ \A b \in LiveAt : b[1] = p => HashAt(at) <= HashAt(b)
  BY <1>1, <1>3, LeafStart
<1>5. ASSUME NEW b \in LiveAt, b[1] # p  PROVE HashAt(at) <= HashAt(b)
  <2>1. HashAt(b) \notin R[p] /\ HashAt(b) \in Nat
    BY <1>1, <1>5, LiveAtIs, OtherLeaf
  <2>2. HashAt(at) \in R[p] /\ HashAt(at) \in Nat
    <3>1. at[1] = p
      BY <1>3
    <3> QED BY <1>4, <3>1, LiveAtIs
  <2>3. \A z \in R[p] : z < HashAt(b)
    <3> DEFINE y == HashAt(b)
    <3>1. y \in Nat /\ y >= 0 /\ y \notin R[p]
      BY <2>1
    <3> HIDE DEF y
    <3>2. \A z \in R[p] : z < y
      BY <1>1, <3>1, LeafApart
    <3> QED BY <3>2 DEF y
  <2> QED BY <2>1, <2>2, <2>3
<1>6. at # <<0, 0>>
  BY <1>2, <1>3
<1> QED BY <1>4, <1>5, <1>6

\* Each step goes to the next higher hash in use, and the walk stops at the highest.
LEMMA TravStep ==
    ASSUME NEW H, NEW R, Ordered(H, R), NEW at \in LiveAt, NEW next, next = TravNext(btnode, at)
    PROVE  /\ next # <<0, 0>> => next \in LiveAt /\ HashAt(at) < HashAt(next)
           /\ \A b \in LiveAt : HashAt(at) < HashAt(b) => next # <<0, 0>> /\ HashAt(next) <= HashAt(b)
<1> DEFINE p == at[1]
           i == at[2]
           pg == btnode.page[p]
           x == HashAt(at)
<1>1. /\ p \in Pages(btnode) /\ p # 0 /\ pg.type = "leaf" /\ i \in 0 .. pg.len - 1 /\ at = <<p, i>>
      /\ x = pg.node[i].hash /\ x \in R[p] /\ x \in Nat
  BY LiveAtIs
<1>2. pg.len \in Nat /\ Keyed(pg.node, pg.len, R[p]) /\ R[p] \in SUBSET Nat
  BY <1>1, MendedPages DEF Ordered
<1>3. next = IF i + 1 < pg.len THEN <<p, i + 1>>
             ELSE IF pg.right = 0 THEN <<0, 0>> ELSE <<pg.right, 0>>
  <2>1. at # <<0, 0>>
    BY <1>1
  <2> QED BY <2>1 DEF TravNext
<1> HIDE DEF p, i, pg, x
<1>4. ASSUME NEW b \in LiveAt, x < HashAt(b), b[1] = p
      PROVE  i + 1 < pg.len /\ b[2] \in i + 1 .. pg.len - 1 /\ HashAt(b) = pg.node[b[2]].hash
  <2>1. b[2] \in 0 .. pg.len - 1 /\ HashAt(b) = pg.node[b[2]].hash /\ HashAt(b) \in Nat
    BY <1>4, LiveAtIs DEF pg
  <2>2. b[2] < i => pg.node[b[2]].hash < pg.node[i].hash
    BY <1>1, <1>2, <2>1 DEF Keyed
  <2>3. b[2] # i
    BY <1>1, <1>4, <2>1
  <2>4. b[2] > i
    BY <1>1, <1>2, <1>4, <2>1, <2>2, <2>3
  <2> QED BY <1>1, <1>2, <2>1, <2>4
<1>5. ASSUME NEW b \in LiveAt, x < HashAt(b), b[1] # p
      PROVE  /\ HashAt(b) \in Nat /\ \A z \in R[p] : z < HashAt(b)
             /\ pg.right # 0 /\ pg.right \in Pages(btnode) /\ btnode.page[pg.right].type = "leaf"
             /\ \E v \in R[pg.right] : x < v /\ v <= HashAt(b)
  <2> DEFINE y == HashAt(b)
  <2>1. y \in Nat /\ y \notin R[p] /\ btnode.page[p].type = "leaf"
    BY <1>1, <1>5, LiveAtIs, OtherLeaf DEF pg
  <2>2. y >= x
    BY <1>1, <1>5, <2>1
  <2> HIDE DEF y
  <2>3. /\ btnode.page[p].right # 0 /\ btnode.page[p].right \in Pages(btnode)
        /\ btnode.page[btnode.page[p].right].type = "leaf"
        /\ \E v \in R[btnode.page[p].right] : x < v /\ v <= y
        /\ \A z \in R[p] : z < y
    BY <1>1, <2>1, <2>2, LeafApart
  <2> QED BY <2>1, <2>3 DEF y, pg
<1>6. CASE i + 1 < pg.len
  <2>1. next = <<p, i + 1>> /\ i + 1 \in 0 .. pg.len - 1
    BY <1>1, <1>2, <1>3, <1>6
  <2>2. next \in LiveAt
    BY <1>1, <2>1, LiveAtBy DEF pg
  <2>3. next[1] = p /\ next[2] = i + 1
    BY <2>1
  <2>4. HashAt(next) = pg.node[i + 1].hash /\ HashAt(next) \in R[p] /\ HashAt(next) \in Nat
    BY <2>2, <2>3, LiveAtIs DEF pg
  <2>5. x < HashAt(next)
    BY <1>1, <1>2, <2>1, <2>4 DEF Keyed
  <2>6. next # <<0, 0>>
    BY <1>1, <2>1
  <2>7. ASSUME NEW b \in LiveAt, x < HashAt(b)  PROVE HashAt(next) <= HashAt(b)
    <3>0. HashAt(b) \in Nat
      BY LiveAtIs
    <3>1. CASE b[1] = p
      <4>1. b[2] \in i + 1 .. pg.len - 1 /\ HashAt(b) = pg.node[b[2]].hash
        BY <1>4, <2>7, <3>1
      <4>2. b[2] # i + 1 => pg.node[i + 1].hash < pg.node[b[2]].hash
        BY <1>1, <1>2, <2>1, <4>1 DEF Keyed
      <4> QED BY <2>4, <3>0, <4>1, <4>2
    <3>2. CASE b[1] # p
      BY <1>5, <2>4, <2>7, <3>0, <3>2
    <3> QED BY <3>1, <3>2
  <2> QED BY <2>2, <2>5, <2>6, <2>7 DEF x
<1>7. CASE ~(i + 1 < pg.len) /\ pg.right = 0
  <2>1. next = <<0, 0>>
    BY <1>3, <1>7
  <2>2. ASSUME NEW b \in LiveAt  PROVE ~(x < HashAt(b))
    BY <1>4, <1>5, <1>7
  <2> QED BY <2>1, <2>2 DEF x
<1>8. CASE ~(i + 1 < pg.len) /\ pg.right # 0
  <2> DEFINE q == pg.right
  <2>1. next = <<q, 0>>
    BY <1>3, <1>8
  <2>2. q \in Pages(btnode) /\ btnode.page[q].type = "leaf" /\ q # 0 /\ Follows(R, p, q)
    BY <1>1, <1>8 DEF Ordered, Chained, pg
  <2> HIDE DEF q
  <2>3. next \in LiveAt /\ \A b \in LiveAt : b[1] = q => HashAt(next) <= HashAt(b)
    BY <2>1, <2>2, LeafStart
  <2>4. HashAt(next) \in R[q] /\ HashAt(next) \in Nat
    <3>1. next[1] = q
      BY <2>1
    <3> QED BY <2>3, <3>1, LiveAtIs
  <2>5. PICK v \in R[q] : /\ \A z \in R[q] : z >= v
                          /\ \A a \in R[p] : \A y \in Nat : y >= a => (y \in R[p] <=> y < v)
    BY <2>2 DEF Follows
  <2>6. v \in Nat /\ x < v
    <3>1. v \in Nat
      BY <2>2, MendedPages DEF Ordered
    <3> QED BY <1>1, <2>5, <3>1
  <2>7. x < HashAt(next)
    BY <1>1, <2>4, <2>5, <2>6
  <2>8. next # <<0, 0>>
    BY <2>1, <2>2
  <2>9. ASSUME NEW b \in LiveAt, x < HashAt(b)  PROVE HashAt(next) <= HashAt(b)
    <3>1. b[1] # p
      BY <1>4, <1>8, <2>9
    <3>2. CASE b[1] = q
      BY <2>3, <3>2
    <3>3. CASE b[1] # q
      <4> DEFINE y == HashAt(b)
      <4>1. y \in Nat /\ y \notin R[q]
        BY <2>2, <3>3, LiveAtIs, OtherLeaf
      <4>2. \E v2 \in R[q] : v2 <= y
        BY <1>5, <2>9, <3>1 DEF q
      <4> HIDE DEF y
      <4>3. PICK v2 \in R[q] : v2 <= y
        BY <4>2
      <4>4. y >= v2
        <5>1. v2 \in Nat
          BY <2>2, MendedPages DEF Ordered
        <5> QED BY <4>1, <4>3, <5>1
      <4>5. \A z \in R[q] : z < y
        BY <2>2, <4>1, <4>4, LeafApart
      <4>6. HashAt(next) <= y
        BY <2>4, <4>1, <4>5
      <4> QED BY <4>6 DEF y
    <3> QED BY <3>2, <3>3
  <2> QED BY <2>3, <2>7, <2>8, <2>9 DEF x
<1> QED BY <1>6, <1>7, <1>8

\* Where the walk goes on after the slots w.
Onward(w) == TravNext(btnode, IF w = << >> THEN <<0, 0>> ELSE w[Len(w)])

\* The recursion of Walk.
VisitIs(g) ==
    g = [n \in Nat |->
            IF n = 0 THEN << >>
            ELSE LET w == g[n - 1]
                     next == TravNext(btnode, IF w = << >> THEN <<0, 0>> ELSE w[Len(w)])
                 IN  IF next = <<0, 0>> THEN w ELSE Append(w, next)]

\* The walk stays with the slots in use.
LEMMA OnwardIn ==
    ASSUME NEW H, NEW R, Ordered(H, R), NEW w \in Seq(LiveAt)
    PROVE  (IF Onward(w) = <<0, 0>> THEN w ELSE Append(w, Onward(w))) \in Seq(LiveAt)
<1> DEFINE next == Onward(w)
<1>1. next # <<0, 0>> => next \in LiveAt
  <2>1. CASE w = << >>
    BY <2>1, TravStart DEF Onward
  <2>2. CASE w # << >>
    <3>1. w[Len(w)] \in LiveAt
      BY <2>2
    <3>2. next = TravNext(btnode, w[Len(w)])
      BY <2>2 DEF Onward
    <3> HIDE DEF next
    <3> QED BY <3>1, <3>2, TravStep
  <2> QED BY <2>1, <2>2
<1> HIDE DEF next
<1>2. (IF next = <<0, 0>> THEN w ELSE Append(w, next)) \in Seq(LiveAt)
  BY <1>1
<1> QED BY <1>2 DEF next

\* The loop of bplus_trav defines a function of the number of its turns.
LEMMA VisitExists ==
    ASSUME NEW H, NEW R, Ordered(H, R)
    PROVE  \E g \in [Nat -> Seq(LiveAt)] : VisitIs(g)
<1> DEFINE X == Seq(LiveAt)
           E == [w \in X |-> IF Onward(w) = <<0, 0>> THEN w ELSE Append(w, Onward(w))]
<1>1. << >> \in X
  OBVIOUS
<1>2. E \in [X -> X]
  BY OnwardIn
<1>3. \A w \in X : E[w] = IF Onward(w) = <<0, 0>> THEN w ELSE Append(w, Onward(w))
  OBVIOUS
<1> HIDE DEF X, E
<1>4. PICK g \in [Nat -> X] : RecursOn(g, << >>, E)
  BY <1>1, <1>2, RecursionOnNat
<1>5. ASSUME NEW n \in Nat
      PROVE  g[n] = IF n = 0 THEN << >>
                    ELSE LET w == g[n - 1]
                             next == TravNext(btnode, IF w = << >> THEN <<0, 0>> ELSE w[Len(w)])
                         IN  IF next = <<0, 0>> THEN w ELSE Append(w, next)
  <2>1. g[n] = IF n = 0 THEN << >> ELSE E[g[n - 1]]
    BY <1>4 DEF RecursOn
  <2>2. CASE n = 0
    BY <2>1, <2>2
  <2>3. CASE n # 0
    <3> DEFINE w == g[n - 1]
    <3>1. w \in X
      BY <2>3
    <3>2. g[n] = E[w]
      BY <2>1, <2>3
    <3> HIDE DEF w
    <3>3. g[n] = IF Onward(w) = <<0, 0>> THEN w ELSE Append(w, Onward(w))
      BY <1>3, <3>1, <3>2
    <3> QED BY <2>3, <3>3 DEF Onward, w
  <2> QED BY <2>2, <2>3
<1>6. g = [n \in Nat |-> g[n]]
  OBVIOUS
<1>7. VisitIs(g)
  BY <1>5, <1>6, Zenon DEF VisitIs
<1> QED BY <1>7 DEF X

\* The slots w are the lowest in use, in ascending order.
Ascends(w) ==
    /\ w \in Seq(LiveAt)
    /\ \A i, j \in 1 .. Len(w) : i < j => HashAt(w[i]) < HashAt(w[j])
    /\ w # << >> => \A b \in LiveAt : HashAt(b) <= HashAt(w[Len(w)]) =>
                        \E i \in 1 .. Len(w) : HashAt(w[i]) = HashAt(b)

\* One more turn of the walk goes on ascending.
LEMMA AscendsOn ==
    ASSUME NEW H, NEW R, Ordered(H, R), NEW w, Ascends(w), Onward(w) # <<0, 0>>
    PROVE  Ascends(Append(w, Onward(w))) /\ Len(Append(w, Onward(w))) = Len(w) + 1
<1> DEFINE next == Onward(w)
           v == Append(w, next)
           n == Len(w)
<1>1. w \in Seq(LiveAt) /\ n \in Nat /\ \A i \in 1 .. n : w[i] \in LiveAt
  BY DEF Ascends
<1>2. \A b \in LiveAt : HashAt(b) \in Nat
  BY LiveAtIs
<1>3. /\ next \in LiveAt
      /\ w = << >> => \A b \in LiveAt : HashAt(next) <= HashAt(b)
      /\ w # << >> => /\ HashAt(w[n]) < HashAt(next)
                      /\ \A b \in LiveAt : HashAt(w[n]) < HashAt(b) => HashAt(next) <= HashAt(b)
  <2>1. CASE w = << >>
    BY <2>1, TravStart DEF Onward
  <2>2. CASE w # << >>
    <3>1. w[n] \in LiveAt
      BY <1>1, <2>2
    <3>2. next = TravNext(btnode, w[n]) /\ next # <<0, 0>>
      BY <2>2 DEF Onward
    <3> HIDE DEF next, n
    <3>3. /\ next # <<0, 0>> => next \in LiveAt /\ HashAt(w[n]) < HashAt(next)
          /\ \A b \in LiveAt : HashAt(w[n]) < HashAt(b) => next # <<0, 0>> /\ HashAt(next) <= HashAt(b)
      BY <3>1, <3>2, TravStep
    <3> QED BY <2>2, <3>2, <3>3
  <2> QED BY <2>1, <2>2
<1>4. w = << >> <=> n = 0
  BY <1>1
<1> HIDE DEF next
<1>5. v \in Seq(LiveAt) /\ Len(v) = n + 1 /\ v # << >>
      /\ v[n + 1] = next /\ \A i \in 1 .. n : v[i] = w[i]
  BY <1>1, <1>3
<1> HIDE DEF v, n
<1>6. \A i \in 1 .. n : HashAt(w[i]) < HashAt(next)
  <2> SUFFICES ASSUME NEW i \in 1 .. n  PROVE HashAt(w[i]) < HashAt(next)
    OBVIOUS
  <2>1. w # << >> /\ n \in 1 .. n
    BY <1>1, <1>4
  <2>2. i < n => HashAt(w[i]) < HashAt(w[n])
    BY <2>1 DEF Ascends, n
  <2>3. i = n \/ i < n
    BY <1>1
  <2>4. HashAt(w[i]) \in Nat /\ HashAt(w[n]) \in Nat /\ HashAt(next) \in Nat
    BY <1>1, <1>2, <1>3, <2>1
  <2> QED BY <1>3, <2>1, <2>2, <2>3, <2>4
<1>7. ASSUME NEW i \in 1 .. n + 1, NEW j \in 1 .. n + 1, i < j  PROVE HashAt(v[i]) < HashAt(v[j])
  <2>1. i \in 1 .. n
    BY <1>1, <1>7
  <2>2. CASE j = n + 1
    BY <1>5, <1>6, <2>1, <2>2
  <2>3. CASE j # n + 1
    <3>1. j \in 1 .. n
      BY <1>1, <2>3
    <3>2. HashAt(w[i]) < HashAt(w[j])
      BY <1>7, <2>1, <3>1 DEF Ascends, n
    <3> QED BY <1>5, <2>1, <3>1, <3>2
  <2> QED BY <2>2, <2>3
<1>8. ASSUME NEW b \in LiveAt, HashAt(b) <= HashAt(next)
      PROVE  \E i \in 1 .. n + 1 : HashAt(v[i]) = HashAt(b)
  <2>1. HashAt(b) \in Nat /\ HashAt(next) \in Nat
    BY <1>2, <1>3
  <2>2. n + 1 \in 1 .. n + 1 /\ \A i \in 1 .. n : i \in 1 .. n + 1
    BY <1>1
  <2>3. CASE HashAt(b) = HashAt(next)
    BY <1>5, <2>2, <2>3
  <2>4. CASE HashAt(b) # HashAt(next)
    <3>1. ~(HashAt(next) <= HashAt(b))
      BY <1>8, <2>1, <2>4
    <3>2. w # << >> /\ ~(HashAt(w[n]) < HashAt(b))
      BY <1>3, <3>1
    <3>3. HashAt(w[n]) \in Nat
      <4>1. n \in 1 .. n
        BY <1>1, <1>4, <3>2
      <4> QED BY <1>1, <1>2, <4>1
    <3>4. HashAt(b) <= HashAt(w[n])
      BY <2>1, <3>2, <3>3
    <3>5. \E i \in 1 .. n : HashAt(w[i]) = HashAt(b)
      BY <3>2, <3>4 DEF Ascends, n
    <3> QED BY <1>5, <2>2, <3>5
  <2> QED BY <2>3, <2>4
<1>9. Ascends(v)
  BY <1>5, <1>7, <1>8 DEF Ascends
<1> QED BY <1>5, <1>9 DEF v, n, next

\* There are fewer slots in use than steps the walk is given.
LEMMA FewLive ==
    ASSUME NEW H, NEW R, Ordered(H, R), NEW w, Ascends(w)
    PROVE  Len(w) < btnode.used * leafstep
<1> DEFINE S == Pages(btnode) \X LeafSlots
           n == Len(w)
<1>1. btnode.used \in Nat \ {0} /\ leafstep \in Nat \ {0}
  BY TreeFields, PageShape DEF Ordered, Mended
<1>2. /\ IsFiniteSet(Pages(btnode)) /\ Cardinality(Pages(btnode)) = btnode.used - 1
      /\ IsFiniteSet(LeafSlots) /\ Cardinality(LeafSlots) = leafstep
  <2> DEFINE m == btnode.used - 1
             l == leafstep - 1
  <2>1. m \in Nat /\ l \in Nat /\ leafstep = l + 1
    BY <1>1
  <2>2. Pages(btnode) = 1 .. m /\ LeafSlots = 0 .. l
    BY DEF Pages, LeafSlots
  <2> HIDE DEF m, l
  <2>3. IsFiniteSet(1 .. m) /\ Cardinality(1 .. m) = m
    BY <2>1, FS_Interval
  <2>4. IsFiniteSet(0 .. l) /\ Cardinality(0 .. l) = l + 1
    BY <2>1, FS_Interval
  <2>5. Cardinality(Pages(btnode)) = btnode.used - 1
    BY <2>2, <2>3 DEF m
  <2>6. Cardinality(LeafSlots) = leafstep
    BY <2>1, <2>2, <2>4
  <2> QED BY <2>2, <2>3, <2>4, <2>5, <2>6
<1>3. IsFiniteSet(S) /\ Cardinality(S) = (btnode.used - 1) * leafstep
  BY <1>2, FS_Product
<1> HIDE DEF S
<1>4. LiveAt \in SUBSET S
  BY DEF LiveAt, S
<1>5. IsFiniteSet(LiveAt) /\ Cardinality(LiveAt) <= Cardinality(S) /\ Cardinality(LiveAt) \in Nat
  BY <1>3, <1>4, FS_Subset, FS_CardinalityType
<1>6. n \in Nat /\ w \in [1 .. n -> LiveAt]
  BY DEF Ascends
<1>7. IsFiniteSet(1 .. n) /\ Cardinality(1 .. n) = n
  BY <1>6, FS_Interval
<1>8. n <= Cardinality(LiveAt)
  <2> SUFFICES ASSUME Cardinality(LiveAt) < n  PROVE FALSE
    BY <1>5, <1>6
  <2>1. PICK x \in 1 .. n, y \in 1 .. n : x # y /\ w[x] = w[y]
    <3>1. Cardinality(LiveAt) < Cardinality(1 .. n)
      BY <1>7
    <3> DEFINE I == 1 .. n
    <3>2. w \in [I -> LiveAt] /\ IsFiniteSet(I) /\ Cardinality(LiveAt) < Cardinality(I)
      BY <1>6, <1>7, <3>1
    <3> HIDE DEF I, n
    <3>3. \E x, y \in I : x # y /\ w[x] = w[y]
      BY <1>5, <3>2, FS_PigeonHole
    <3> QED BY <3>3 DEF I
  <2>2. x < y => HashAt(w[x]) < HashAt(w[y])
    BY DEF Ascends
  <2>3. y < x => HashAt(w[y]) < HashAt(w[x])
    BY DEF Ascends
  <2>4. HashAt(w[x]) \in Nat /\ HashAt(w[x]) = HashAt(w[y])
    <3>1. w[x] \in LiveAt
      BY <1>6
    <3> QED BY <2>1, <3>1, LiveAtIs
  <2>5. x < y \/ y < x
    BY <2>1
  <2> QED BY <2>2, <2>3, <2>4, <2>5
<1> HIDE DEF n
<1>9. n <= (btnode.used - 1) * leafstep
  <2> DEFINE k == (btnode.used - 1) * leafstep
             m == Cardinality(LiveAt)
  <2>1. k \in Int
    BY <1>1
  <2>2. m <= k /\ m \in Nat /\ n <= m
    BY <1>3, <1>5, <1>8
  <2> HIDE DEF k, m
  <2>3. n <= k
    BY <1>6, <2>1, <2>2
  <2> QED BY <2>3 DEF k
<1>10. (btnode.used - 1) * leafstep = btnode.used * leafstep - leafstep /\ btnode.used * leafstep \in Int
  BY <1>1
<1>11. n < btnode.used * leafstep
  <2> DEFINE k == btnode.used * leafstep
  <2>1. k \in Int /\ n <= k - leafstep
    BY <1>9, <1>10
  <2> HIDE DEF k
  <2>2. n < k
    BY <1>1, <1>6, <2>1
  <2> QED BY <2>2 DEF k
<1> QED BY <1>11 DEF n

\* The walk visits the slots in use in ascending order, every one of them, and ends.
LEMMA WalkIs ==
    ASSUME NEW H, NEW R, Ordered(H, R)
    PROVE  /\ Ascends(Walk)
           /\ \A b \in LiveAt : \E i \in 1 .. Len(Walk) : HashAt(Walk[i]) = HashAt(b)
<1> DEFINE g == CHOOSE g : VisitIs(g)
           T == {n \in Nat : /\ Ascends(g[n])
                             /\ Len(g[n]) = n \/ Onward(g[n]) = <<0, 0>>}
           N == btnode.used * leafstep
<1>1. VisitIs(g)
  <2>1. \E f : VisitIs(f)
    BY VisitExists
  <2> QED BY <2>1, Zenon
<1>2. Walk = g[N]
  BY Zenon DEF Walk, VisitIs
<1> HIDE DEF g
<1>3. ASSUME NEW n \in Nat
      PROVE  g[n] = IF n = 0 THEN << >>
                    ELSE IF Onward(g[n - 1]) = <<0, 0>> THEN g[n - 1]
                    ELSE Append(g[n - 1], Onward(g[n - 1]))
  <2>1. g[n] = IF n = 0 THEN << >>
               ELSE LET w == g[n - 1]
                        next == TravNext(btnode, IF w = << >> THEN <<0, 0>> ELSE w[Len(w)])
                    IN  IF next = <<0, 0>> THEN w ELSE Append(w, next)
    BY <1>1, Zenon DEF VisitIs
  <2> QED BY <2>1, Zenon DEF Onward
<1>4. 0 \in T
  <2>1. g[0] = << >>
    BY <1>3
  <2>2. Ascends(<< >>) /\ Len(<< >>) = 0
    BY DEF Ascends
  <2> QED BY <2>1, <2>2
<1>5. ASSUME NEW n \in T  PROVE n + 1 \in T
  <2> DEFINE w == g[n]
  <2>1. n \in Nat /\ n + 1 \in Nat /\ (n + 1) - 1 = n /\ n + 1 # 0
        /\ Ascends(w) /\ (Len(w) = n \/ Onward(w) = <<0, 0>>)
    OBVIOUS
  <2>2. g[n + 1] = IF Onward(w) = <<0, 0>> THEN w ELSE Append(w, Onward(w))
    BY <1>3, <2>1
  <2> HIDE DEF w
  <2>3. CASE Onward(w) = <<0, 0>>
    BY <2>1, <2>2, <2>3
  <2>4. CASE Onward(w) # <<0, 0>>
    <3>1. Ascends(Append(w, Onward(w))) /\ Len(Append(w, Onward(w))) = Len(w) + 1
      BY <2>1, <2>4, AscendsOn
    <3> QED BY <2>1, <2>2, <2>4, <3>1
  <2> QED BY <2>3, <2>4
<1>6. T = Nat
  <2>1. T \in SUBSET Nat
    OBVIOUS
  <2> HIDE DEF T
  <2> QED BY <1>4, <1>5, <2>1, Induction
<1>7. N \in Nat
  <2>1. btnode.used \in Nat /\ leafstep \in Nat
    BY TreeFields, PageShape DEF Ordered, Mended
  <2> QED BY <2>1
<1> DEFINE w == g[N]
<1>8. Ascends(w) /\ (Len(w) = N \/ Onward(w) = <<0, 0>>)
  BY <1>6, <1>7
<1> HIDE DEF w, T
<1>9. Onward(w) = <<0, 0>> /\ w # << >>
  <2>1. Len(w) < N /\ Len(w) \in Nat
    BY <1>8, FewLive DEF Ascends
  <2>2. Onward(w) = <<0, 0>>
    BY <1>7, <1>8, <2>1
  <2>3. w = << >> => Onward(w) # <<0, 0>>
    BY TravStart DEF Onward
  <2> QED BY <2>2, <2>3
<1>10. w[Len(w)] \in LiveAt
  BY <1>8, <1>9 DEF Ascends
<1>11. ASSUME NEW b \in LiveAt  PROVE \E i \in 1 .. Len(w) : HashAt(w[i]) = HashAt(b)
  <2>1. TravNext(btnode, w[Len(w)]) = <<0, 0>>
    BY <1>9 DEF Onward
  <2>2. ~(HashAt(w[Len(w)]) < HashAt(b))
    BY <1>10, <2>1, TravStep
  <2>3. HashAt(b) <= HashAt(w[Len(w)])
    <3>1. HashAt(b) \in Nat /\ HashAt(w[Len(w)]) \in Nat
      BY <1>10, LiveAtIs
    <3> QED BY <2>2, <3>1
  <2> QED BY <1>8, <1>9, <2>3 DEF Ascends
<1> QED BY <1>2, <1>8, <1>11 DEF w

(* bplus_trav visits the slot of every hash in use exactly once and in ascending order,
   and ends, whatever splits made the leaves. *)
THEOREM AlwaysAscending == StrHashSpec => []TravAscending
<1>1. IndexInv => TravAscending
  <2> SUFFICES ASSUME IndexInv  PROVE TravAscending
    OBVIOUS
  <2> DEFINE w == Walk
             L == UNION {Live(btnode.page[p]) : p \in Leaves}
  <2>1. CASE btnode = Prepared
    <3>1. Leaves = {} /\ btnode.left = 0
      BY <2>1, PreparedIs DEF Leaves
    <3> DEFINE g == CHOOSE g : VisitIs(g)
               f == [n \in Nat |-> << >>]
    <3>2. VisitIs(f)
      <4>1. TravNext(btnode, <<0, 0>>) = <<0, 0>>
        BY <3>1 DEF TravNext
      <4>2. ASSUME NEW n \in Nat
            PROVE  f[n] = IF n = 0 THEN << >>
                          ELSE LET v == f[n - 1]
                                   next == TravNext(btnode, IF v = << >> THEN <<0, 0>> ELSE v[Len(v)])
                               IN  IF next = <<0, 0>> THEN v ELSE Append(v, next)
        <5>1. f[n] = << >> /\ (n # 0 => f[n - 1] = << >>)
          OBVIOUS
        <5> HIDE DEF f
        <5> QED BY <4>1, <5>1
      <4>3. f = [n \in Nat |-> f[n]]
        OBVIOUS
      <4> HIDE DEF f
      <4> QED BY <4>2, <4>3, Zenon DEF VisitIs
    <3>3. VisitIs(g)
      <4> HIDE DEF f
      <4> QED BY <3>2, Zenon
    <3>4. w = g[btnode.used * leafstep]
      BY Zenon DEF Walk, VisitIs
    <3> HIDE DEF g
    <3>5. ASSUME NEW n \in Nat
          PROVE  g[n] = IF n = 0 THEN << >>
                        ELSE LET v == g[n - 1]
                                 next == TravNext(btnode, IF v = << >> THEN <<0, 0>> ELSE v[Len(v)])
                             IN  IF next = <<0, 0>> THEN v ELSE Append(v, next)
      BY <3>3, Zenon DEF VisitIs
    <3> DEFINE T == {n \in Nat : g[n] = << >>}
    <3>6. 0 \in T
      BY <3>5
    <3>7. ASSUME NEW n \in T  PROVE n + 1 \in T
      <4>1. n \in Nat /\ n + 1 \in Nat /\ n + 1 # 0 /\ (n + 1) - 1 = n /\ g[n] = << >>
        OBVIOUS
      <4>2. TravNext(btnode, <<0, 0>>) = <<0, 0>>
        BY <3>1 DEF TravNext
      <4>3. g[n + 1] = << >>
        BY <3>5, <4>1, <4>2
      <4> QED BY <4>1, <4>3
    <3>8. T = Nat
      <4>1. T \in SUBSET Nat
        OBVIOUS
      <4> HIDE DEF T
      <4> QED BY <3>6, <3>7, <4>1, Induction
    <3>9. btnode.used * leafstep \in Nat
      <4>1. btnode.used = 1 /\ leafstep \in Nat
        BY <2>1, PreparedIs, PageShape
      <4> QED BY <4>1
    <3>10. w = << >>
      BY <3>4, <3>8, <3>9
    <3> HIDE DEF w
    <3>11. DOMAIN w = {}
      BY <3>10
    <3>12. L = {}
      BY <3>1
    <3> QED BY <3>11, <3>12 DEF TravAscending, w
  <2>2. CASE btnode # Prepared
    <3>1. PICK H, R : Ordered(H, R)
      BY <2>2 DEF IndexInv, Fine, Ordered
    <3>2. /\ Ascends(w)
          /\ \A b \in LiveAt : \E i \in 1 .. Len(w) : HashAt(w[i]) = HashAt(b)
      BY <3>1, WalkIs
    <3> HIDE DEF w
    <3>3. DOMAIN w = 1 .. Len(w) /\ \A i \in 1 .. Len(w) : w[i] \in LiveAt
      BY <3>2 DEF Ascends
    <3>4. \A i, j \in DOMAIN w : i < j => HashAt(w[i]) < HashAt(w[j])
      BY <3>2, <3>3 DEF Ascends
    <3>5. ASSUME NEW i \in DOMAIN w  PROVE HashAt(w[i]) \in L
      <4> DEFINE at == w[i]
      <4>1. /\ at[1] \in Leaves /\ at[2] \in 0 .. btnode.page[at[1]].len - 1
            /\ HashAt(at) = btnode.page[at[1]].node[at[2]].hash
        BY <3>1, <3>3, LiveAtIs DEF Leaves
      <4> HIDE DEF at
      <4>2. HashAt(at) \in Live(btnode.page[at[1]])
        BY ONLY <4>1 DEF Live
      <4> QED BY <4>1, <4>2 DEF at
    <3>6. ASSUME NEW h \in L  PROVE \E i \in DOMAIN w : h = HashAt(w[i])
      <4>1. PICK p \in Leaves : h \in Live(btnode.page[p])
        OBVIOUS
      <4>2. PICK i \in 0 .. btnode.page[p].len - 1 : h = btnode.page[p].node[i].hash
        BY <4>1 DEF Live
      <4> DEFINE b == <<p, i>>
      <4>3. b \in LiveAt /\ HashAt(b) = h
        <5>1. p \in Pages(btnode) /\ btnode.page[p].type = "leaf"
          BY DEF Leaves
        <5>2. b \in LiveAt
          BY <3>1, <5>1, LiveAtBy
        <5> QED BY <4>2, <5>2 DEF HashAt, Slot
      <4> HIDE DEF b
      <4> QED BY <3>2, <3>3, <4>3
    <3>7. {HashAt(w[i]) : i \in DOMAIN w} = L
      <4> HIDE DEF L
      <4> QED BY <3>5, <3>6
    <3> QED BY <3>4, <3>7 DEF TravAscending, HashAt, w
  <2> QED BY <2>1, <2>2
<1> QED BY <1>1, IndexHolds, PTL

----------------------------------------------------------------------------
(* The places a pointer to a string may have: any slot of a leaf, in use or not. *)

Places(t) == {p \in Pages(t) : t.page[p].type = "leaf"} \X LeafSlots

\* A place is a slot of a leaf.
LEMMA PlaceIs ==
    ASSUME NEW t, NEW at
    PROVE  at \in Places(t) <=> /\ at = <<at[1], at[2]>> /\ at[1] \in Pages(t)
                                /\ t.page[at[1]].type = "leaf" /\ at[2] \in LeafSlots
BY DEF Places

\* What a place holds is a slot.
LEMMA PlaceHolds ==
    ASSUME NEW B, NEW t, Fine(t, B), NEW at \in Places(t)
    PROVE  /\ t # Prepared /\ Slot(t, at) \in LeafSlot(B)
           /\ Slot(t, at).hash \in Nat /\ Slot(t, at).body \in B
<1>1. at[1] \in Pages(t) /\ t.page[at[1]].type = "leaf" /\ at[2] \in LeafSlots
  BY PlaceIs
<1>2. t # Prepared
  BY <1>1, PreparedIs
<1>3. t.page[at[1]] \in PageSet(B)
  BY <1>1, <1>2, MendedPages DEF Fine
<1>4. t.page[at[1]].node \in LeafNodes(B)
  BY <1>1, <1>3, PageFields
<1>5. Slot(t, at) \in LeafSlot(B)
  BY <1>1, <1>4 DEF Slot, LeafNodes, LeafSlot
<1> QED BY <1>2, <1>5 DEF LeafSlot

\* What bplus_search finds is a place.
LEMMA SearchPlaces ==
    ASSUME NEW B, NEW t, Fine(t, B), NEW h \in Nat
    PROVE  Search(t, h) = <<0, 0>> \/ (Search(t, h) \in Places(t) /\ Slot(t, Search(t, h)).hash = h)
<1>1. CASE t = Prepared
  BY <1>1, SearchPrepared
<1>2. CASE t # Prepared
  <2> DEFINE p == FindLeaf(t, h)
  <2>1. PICK H, R : Mended(t, B, H, R)
    BY <1>2 DEF Fine
  <2>2. p \in Pages(t) /\ p # 0 /\ t.page[p].type = "leaf"
    BY <2>1, FindLeafIs
  <2>3. \E m : Search(t, h) = IF p = 0 THEN <<0, 0>>
                              ELSE IF m \in LeafSlots /\ t.page[p].node[m].hash = h THEN <<p, m>>
                              ELSE <<0, 0>>
    <3> DEFINE g == CHOOSE g : HalvingIs(g, t.page[p], h)
               m == g[<<0, t.page[p].len>>]
    <3>1. Search(t, h) = LET q == FindLeaf(t, h)
                             f == CHOOSE f : HalvingIs(f, t.page[q], h)
                             k == f[<<0, t.page[q].len>>]
                         IN  IF q = 0 THEN <<0, 0>>
                             ELSE IF k \in LeafSlots /\ t.page[q].node[k].hash = h THEN <<q, k>>
                             ELSE <<0, 0>>
      BY Zenon DEF Search, HalvingIs
    <3>2. Search(t, h) = IF p = 0 THEN <<0, 0>>
                         ELSE IF m \in LeafSlots /\ t.page[p].node[m].hash = h THEN <<p, m>>
                         ELSE <<0, 0>>
      BY <3>1, Zenon
    <3> QED BY <3>2, Zenon
  <2>4. PICK m : Search(t, h) = IF p = 0 THEN <<0, 0>>
                                ELSE IF m \in LeafSlots /\ t.page[p].node[m].hash = h THEN <<p, m>>
                                ELSE <<0, 0>>
    BY <2>3
  <2> HIDE DEF p
  <2>5. CASE m \in LeafSlots /\ t.page[p].node[m].hash = h
    <3>1. Search(t, h) = <<p, m>>
      BY <2>2, <2>4, <2>5
    <3> QED BY <2>2, <2>5, <3>1 DEF Places, Slot
  <2>6. CASE ~(m \in LeafSlots /\ t.page[p].node[m].hash = h)
    BY <2>4, <2>6
  <2> QED BY <2>5, <2>6
<1> QED BY <1>1, <1>2

\* What a place may hold after slot d is written.
NothingNew(t, t2, d) ==
    \A at \in Places(t2) : \/ Slot(t2, at) = d
                           \/ Slot(t2, at) = [hash |-> 0, body |-> NoBody]
                           \/ \E b \in Places(t) : Slot(t2, at) = Slot(t, b)

\* strhash_write into a leaf with room.
LEMMA RoomPlaces ==
    ASSUME NEW B, NEW t, NEW H, NEW R, Mended(t, B, H, R),
           NEW l \in Pages(t), t.page[l].type = "leaf", HasRoom(t.page[l]), NEW d \in LeafSlot(B),
           NEW j, j = Where(t.page[l].node, t.page[l].len, d.hash),
           NEW t2, t2 = [t EXCEPT !.page[l] = SlotAdd(@, d)]
    PROVE  /\ Places(t) \subseteq Places(t2) /\ <<l, j>> \in Places(t2)
           /\ NothingNew(t, t2, d)
<1> DEFINE leaf == t.page[l]
           n == leaf.len
           M == Merged(leaf.node, n, j, d)
<1>1. /\ leaf \in PageSet(B) /\ n \in Nat /\ n < leafstep /\ leaf.node \in LeafNodes(B)
      /\ DOMAIN leaf.node = LeafSlots
  <2>1. leaf \in PageSet(B) /\ n \in Nat
    BY MendedPages
  <2>2. leaf.node \in LeafNodes(B)
    BY <2>1, PageFields
  <2> QED BY <2>1, <2>2 DEF HasRoom, LeafNodes
<1>2. /\ SlotAdd(leaf, d).type = "leaf" /\ j \in 0 .. n
      /\ SlotAdd(leaf, d).node = Over(M, n + 1, leaf.node)
  <2>1. HasRoom(leaf) /\ d \in SlotsOf(leaf.type, B) /\ j = Where(leaf.node, leaf.len, d.hash)
        /\ leaf.type = "leaf"
    BY DEF SlotsOf
  <2> HIDE DEF leaf
  <2> QED BY <1>1, <2>1, SlotAddIs
<1>3. /\ Pages(t2) = Pages(t) /\ \A p \in Pages(t) : t2.page[p] = IF p = l THEN SlotAdd(leaf, d) ELSE t.page[p]
  <2>1. t.page \in [Pages(t) -> PageSet(B)]
    BY DEF Mended, Typed
  <2>2. t = [first |-> t.first, left |-> t.left, right |-> t.right, used |-> t.used, page |-> t.page]
    BY TreeFields DEF Mended
  <2>3. t2 = [t EXCEPT !.page = [t.page EXCEPT ![l] = SlotAdd(@, d)]]
    OBVIOUS
  <2>4. t2.used = t.used /\ t2.page = [t.page EXCEPT ![l] = SlotAdd(@, d)]
    BY <2>2, <2>3
  <2> QED BY <2>1, <2>4 DEF Pages
<1> HIDE DEF leaf
<1>4. Places(t2) = Places(t)
  BY <1>2, <1>3 DEF Places, leaf
<1>5. <<l, j>> \in Places(t)
  BY <1>1, <1>2, PageShape DEF Places, LeafSlots
<1>6. \A i \in 0 .. n : M[i] = d \/ \E k \in 0 .. n - 1 : M[i] = leaf.node[k]
  <2>1. M = Merged(leaf.node, n, j, d) /\ n \in Nat /\ j \in 0 .. n
    BY <1>1, <1>2
  <2> HIDE DEF n, M
  <2> QED BY ONLY <2>1, MergedSlots
<1> HIDE DEF M
<1>7. ASSUME NEW at \in Places(t2)
      PROVE  Slot(t2, at) = d \/ \E b \in Places(t) : Slot(t2, at) = Slot(t, b)
  <2>1. at \in Places(t) /\ at[1] \in Pages(t) /\ at[2] \in LeafSlots /\ at = <<at[1], at[2]>>
        /\ t.page[at[1]].type = "leaf"
    BY <1>4, PlaceIs
  <2>2. CASE at[1] # l
    <3>1. Slot(t2, at) = Slot(t, at)
      BY <1>3, <2>1, <2>2 DEF Slot
    <3> QED BY <2>1, <3>1
  <2>3. CASE at[1] = l
    <3> DEFINE i == at[2]
    <3>1. i \in LeafSlots /\ i \in Nat
      BY <2>1 DEF LeafSlots
    <3>2. Slot(t2, at) = IF i < n + 1 THEN M[i] ELSE leaf.node[i]
      <4>1. Slot(t2, at) = Over(M, n + 1, leaf.node)[i]
        BY <1>2, <1>3, <2>1, <2>3 DEF Slot
      <4> HIDE DEF i, n
      <4> QED BY <1>1, <3>1, <4>1 DEF Over
    <3> HIDE DEF i
    <3>3. CASE i < n + 1
      <4>1. i \in 0 .. n
        BY <1>1, <3>1, <3>3
      <4>2. Slot(t2, at) = d \/ \E k \in 0 .. n - 1 : Slot(t2, at) = leaf.node[k]
        BY <1>6, <3>2, <3>3, <4>1
      <4>3. ASSUME NEW k \in 0 .. n - 1  PROVE <<l, k>> \in Places(t) /\ Slot(t, <<l, k>>) = leaf.node[k]
        BY <1>1, PageShape DEF Places, LeafSlots, Slot, leaf
      <4> QED BY <4>2, <4>3
    <3>4. CASE ~(i < n + 1)
      <4>1. <<l, i>> \in Places(t) /\ Slot(t, <<l, i>>) = leaf.node[i]
        BY <3>1 DEF Places, Slot, leaf
      <4> QED BY <3>2, <3>4, <4>1
    <3> QED BY <3>3, <3>4
  <2> QED BY <2>2, <2>3
<1>8. NothingNew(t, t2, d)
  BY <1>7 DEF NothingNew
<1> QED BY <1>4, <1>5, <1>8

\* strhash_write into a full leaf.
LEMMA SplitPlaces ==
    ASSUME NEW B, NoBody \in B, NEW t, NEW H, NEW R, Mended(t, B, H, R),
           NEW l \in Pages(t), t.page[l].type = "leaf", ~HasRoom(t.page[l]),
           NEW d \in LeafSlot(B), d.hash \in R[l],
           \A i \in 0 .. t.page[l].len - 1 : t.page[l].node[i].hash # d.hash,
           NEW t2, t2 = LeafSplit(t, l, d).tree
    PROVE  /\ Places(t) \subseteq Places(t2) /\ LeafSplit(t, l, d).at \in Places(t2)
           /\ NothingNew(t, t2, d)
<1> DEFINE half == leafstep \div 2
           r == t.used
           old == t.page[l].node
           j == Where(old, leafstep, d.hash)
           M == Merged(old, leafstep, j, d)
<1>1. half \in Nat /\ half + 1 <= leafstep - 1 /\ (half + 1) + half = leafstep /\ leafstep \in Nat
  BY HalfLeaf, PageShape
<1>2. LeafParted(t, t2, l, M)
  <2>1. M = Merged(t.page[l].node, leafstep, Where(t.page[l].node, leafstep, d.hash), d)
    OBVIOUS
  <2> HIDE DEF M
  <2> QED BY <2>1, LeafSplitIs
<1>3. old \in LeafNodes(B) /\ \A i \in 0 .. leafstep - 1 : old[i].hash \in Nat
  <2>1. t.page[l] \in PageSet(B)
    BY MendedPages
  <2>2. old \in LeafNodes(B)
    BY <2>1, PageFields
  <2> QED BY <2>2 DEF LeafNodes, LeafSlots
<1>4. j \in 0 .. leafstep
  <2>1. d.hash \in Nat
    BY DEF LeafSlot
  <2> HIDE DEF old
  <2> QED BY <1>1, <1>3, <2>1, WhereIs
<1>5. \A i \in 0 .. leafstep : M[i] = d \/ \E k \in 0 .. leafstep - 1 : M[i] = old[k]
  <2>1. M = Merged(old, leafstep, j, d) /\ leafstep \in Nat
    BY <1>1
  <2> HIDE DEF old, j, M
  <2> QED BY ONLY <1>4, <2>1, MergedSlots
<1>6. /\ Pages(t) \subseteq Pages(t2) /\ r \in Pages(t2)
      /\ \A p \in Pages(t2) : t2.page[p].type = "leaf" =>
             p = r \/ (p \in Pages(t) /\ t.page[p].type = "leaf")
      /\ \A p \in Pages(t) : t.page[p].type = "leaf" /\ p # l =>
             /\ t2.page[p].type = "leaf" /\ t2.page[p].node = t.page[p].node
      /\ t2.page[l].type = "leaf" /\ l \in Pages(t2)
      /\ t2.page[l].node = Over(M, half + 1, old)
      /\ t2.page[r].type = "leaf"
      /\ t2.page[r].node = Over(After(M, half), half + 1, EmptyLeafNode)
  <2> HIDE DEF M
  <2> QED BY <1>2 DEF LeafParted
<1>7. LeafSplit(t, l, d).at = IF j <= half THEN <<l, j>> ELSE <<r, j - half>>
  BY DEF LeafSplit
<1>8. Places(t) \subseteq Places(t2)
  <2> SUFFICES ASSUME NEW at \in Places(t)  PROVE at \in Places(t2)
    OBVIOUS
  <2> HIDE DEF M
  <2>1. at = <<at[1], at[2]>> /\ at[1] \in Pages(t) /\ t.page[at[1]].type = "leaf" /\ at[2] \in LeafSlots
    BY PlaceIs
  <2>2. at[1] \in Pages(t2) /\ t2.page[at[1]].type = "leaf"
    BY <1>6, <2>1
  <2> QED BY <2>1, <2>2, PlaceIs
<1>9. LeafSplit(t, l, d).at \in Places(t2)
  <2> HIDE DEF M, half, j
  <2>1. j <= half => j \in LeafSlots
    BY <1>1, <1>4 DEF LeafSlots
  <2>2. ~(j <= half) => j - half \in LeafSlots
    BY <1>1, <1>4 DEF LeafSlots
  <2>3. ASSUME NEW p, NEW i \in LeafSlots, p \in Pages(t2), t2.page[p].type = "leaf"
        PROVE  <<p, i>> \in Places(t2)
    BY <2>3 DEF Places
  <2> QED BY <1>6, <1>7, <2>1, <2>2, <2>3
<1> HIDE DEF M, half, old
<1>10. ASSUME NEW i \in 0 .. leafstep
       PROVE  M[i] = d \/ \E b \in Places(t) : M[i] = Slot(t, b)
  <2>1. ASSUME NEW k \in 0 .. leafstep - 1  PROVE <<l, k>> \in Places(t) /\ Slot(t, <<l, k>>) = old[k]
    BY DEF Places, LeafSlots, Slot, old
  <2> QED BY <1>5, <2>1
<1>11. ASSUME NEW at \in Places(t2)
       PROVE  \/ Slot(t2, at) = d
              \/ Slot(t2, at) = [hash |-> 0, body |-> NoBody]
              \/ \E b \in Places(t) : Slot(t2, at) = Slot(t, b)
  <2> DEFINE i == at[2]
  <2>1. at[1] \in Pages(t2) /\ i \in LeafSlots /\ at = <<at[1], at[2]>> /\ t2.page[at[1]].type = "leaf"
        /\ Slot(t2, at) = t2.page[at[1]].node[i]
    BY PlaceIs DEF Slot
  <2>2. i \in Nat /\ DOMAIN old = LeafSlots /\ DOMAIN EmptyLeafNode = LeafSlots
        /\ EmptyLeafNode[i] = [hash |-> 0, body |-> NoBody]
    BY <1>3, <2>1 DEF LeafNodes, EmptyLeafNode, LeafSlots
  <2> HIDE DEF i
  <2>3. i < half + 1 => i \in 0 .. leafstep /\ half + 1 + i \in 0 .. leafstep
    BY <1>1, <2>2
  <2>4. CASE at[1] = l
    <3>1. Slot(t2, at) = IF i < half + 1 THEN M[i] ELSE old[i]
      BY <1>6, <2>1, <2>2, <2>4 DEF Over
    <3>2. <<l, i>> \in Places(t) /\ Slot(t, <<l, i>>) = old[i]
      BY <2>1 DEF Places, Slot, old
    <3> QED BY <1>10, <2>3, <3>1, <3>2
  <2>5. CASE at[1] = r
    <3>1. Slot(t2, at) = IF i < half + 1 THEN After(M, half)[i] ELSE EmptyLeafNode[i]
      BY <1>6, <2>1, <2>2, <2>5 DEF Over
    <3>2. After(M, half)[i] = M[half + 1 + i]
      BY <2>2 DEF After
    <3> QED BY <1>10, <2>2, <2>3, <3>1, <3>2
  <2>6. CASE at[1] # l /\ at[1] # r
    <3>1. at[1] \in Pages(t) /\ t.page[at[1]].type = "leaf"
      BY <1>6, <2>1, <2>6
    <3>2. t2.page[at[1]].node = t.page[at[1]].node
      BY <1>6, <2>6, <3>1
    <3>3. at \in Places(t) /\ Slot(t2, at) = Slot(t, at)
      BY <2>1, <3>1, <3>2, PlaceIs DEF Slot, i
    <3> QED BY <3>3
  <2> QED BY <2>4, <2>5, <2>6
<1>12. NothingNew(t, t2, d)
  BY <1>11 DEF NothingNew
<1> QED BY <1>8, <1>9, <1>12

\* strhash_write into the empty tree.
LEMMA FirstPlaces ==
    ASSUME NEW B, NoBody \in B, NEW d \in LeafSlot(B), NEW t2, t2 = Insert(Prepared, d).tree
    PROVE  Insert(Prepared, d).at \in Places(t2) /\ NothingNew(Prepared, t2, d)
<1> DEFINE leaf == SlotAdd(NewLeaf, d)
           g == Grow(Prepared, leaf)
<1>1. Insert(Prepared, d).at = <<1, 0>> /\ t2 = [g EXCEPT !.first = 1, !.left = 1, !.right = 1]
  BY PreparedIs DEF Insert
<1>2. /\ NewLeaf \in PageSet(B) /\ NewLeaf.type = "leaf" /\ NewLeaf.len = 0 /\ NewLeaf.right = 0
      /\ NewLeaf.node = EmptyLeafNode
  <2>1. NewLeaf \in PageSet(B)
    BY NewPages DEF PageSet
  <2> QED BY <2>1 DEF NewLeaf
<1>3. /\ leaf \in PageSet(B) /\ leaf.type = "leaf" /\ leaf.right = 0
      /\ leaf.node = Over(Merged(EmptyLeafNode, 0, 0, d), 1, EmptyLeafNode)
  <2> DEFINE j == Where(NewLeaf.node, NewLeaf.len, d.hash)
  <2>1. HasRoom(NewLeaf) /\ d \in SlotsOf(NewLeaf.type, B)
    BY <1>2, PageShape DEF HasRoom, SlotsOf
  <2> HIDE DEF j
  <2>2. /\ leaf \in PageSet(B) /\ leaf.type = NewLeaf.type /\ leaf.right = NewLeaf.right
        /\ j \in 0 .. NewLeaf.len
        /\ leaf.node = Over(Merged(NewLeaf.node, NewLeaf.len, j, d), NewLeaf.len + 1, NewLeaf.node)
    BY <1>2, <2>1, SlotAddIs DEF j
  <2> HIDE DEF leaf
  <2>3. j = 0 /\ NewLeaf.len + 1 = 1
    BY <1>2, <2>2
  <2> QED BY <1>2, <2>2, <2>3
<1> HIDE DEF leaf
<1>4. Typed(g, B) /\ g.used = 2 /\ g.page[1] = leaf /\ Pages(g) = {1}
  <2>1. Prepared.used = 1 /\ Pages(Prepared) = {} /\ Typed(Prepared, B)
    BY PreparedIs
  <2>2. leaf.right < Prepared.used + 1
    BY <1>3, <2>1
  <2> DEFINE t == Prepared
  <2>3. t.used = 1 /\ Pages(t) = {} /\ Typed(t, B) /\ leaf.right < t.used + 1 /\ g = Grow(t, leaf)
    BY <2>1, <2>2
  <2> HIDE DEF t, g
  <2>4. Typed(g, B) /\ g.used = t.used + 1 /\ g.page[t.used] = leaf /\ Pages(g) = Pages(t) \cup {t.used}
    BY <1>3, <2>3, GrowIs
  <2> QED BY <2>3, <2>4
<1> HIDE DEF g
<1>5. Pages(t2) = {1} /\ t2.page[1] = leaf
  <2>1. g = [first |-> g.first, left |-> g.left, right |-> g.right, used |-> g.used, page |-> g.page]
    BY <1>4, TreeFields
  <2>2. t2.used = g.used /\ t2.page = g.page
    BY <1>1, <2>1
  <2> QED BY <1>4, <2>2 DEF Pages
<1>6. Insert(Prepared, d).at \in Places(t2)
  <2>1. 0 \in LeafSlots
    BY PageShape DEF LeafSlots
  <2> QED BY <1>1, <1>3, <1>5, <2>1 DEF Places
<1>7. ASSUME NEW at \in Places(t2)
      PROVE  Slot(t2, at) = d \/ Slot(t2, at) = [hash |-> 0, body |-> NoBody]
  <2>1. at[1] = 1 /\ at[2] \in LeafSlots
    BY <1>5, PlaceIs
  <2>2. Slot(t2, at) = IF at[2] < 1 THEN Merged(EmptyLeafNode, 0, 0, d)[at[2]] ELSE EmptyLeafNode[at[2]]
    <3>1. DOMAIN EmptyLeafNode = LeafSlots
      BY DEF EmptyLeafNode
    <3> QED BY <1>3, <1>5, <2>1, <3>1 DEF Slot, Over
  <2>3. EmptyLeafNode[at[2]] = [hash |-> 0, body |-> NoBody]
    BY <2>1 DEF EmptyLeafNode
  <2>4. at[2] < 1 => at[2] = 0
    BY <2>1 DEF LeafSlots
  <2>5. Merged(EmptyLeafNode, 0, 0, d)[0] = d
    BY DEF Merged
  <2> QED BY <2>2, <2>3, <2>4, <2>5
<1>8. NothingNew(Prepared, t2, d)
  BY <1>7 DEF NothingNew
<1> QED BY <1>6, <1>8

\* strhash_write: places stay places, the pointer it returns is one, and no slot of a
\* leaf holds anything but d, nothing, or what some slot held.
LEMMA WrittenPlaces ==
    ASSUME NEW B, NoBody \in B, NEW t, Fine(t, B), NEW d \in LeafSlot(B), d.hash # 0,
           NEW w, w = Written(t, d)
    PROVE  /\ Fine(w.tree, B)
           /\ Places(t) \subseteq Places(w.tree) /\ w.at \in Places(w.tree)
           /\ NothingNew(t, w.tree, d)
<1>0. d.hash \in Nat \ {0}
  BY DEF LeafSlot
<1>1. Fine(w.tree, B)
  BY WrittenIs
<1>2. CASE Search(t, d.hash) # <<0, 0>>
  <2>1. w.tree = t /\ w.at = Search(t, d.hash)
    BY <1>2 DEF Written
  <2>2. w.at \in Places(t)
    BY <1>0, <1>2, <2>1, SearchPlaces
  <2> QED BY <1>1, <2>1, <2>2 DEF NothingNew
<1>3. CASE Search(t, d.hash) = <<0, 0>>
  <2>1. w = Insert(t, d)
    BY <1>3 DEF Written
  <2>2. CASE t = Prepared
    <3>1. Places(t) = {}
      BY <2>2, PreparedIs DEF Places
    <3> QED BY <1>1, <2>1, <2>2, <3>1, FirstPlaces
  <2>3. CASE t # Prepared
    <3> DEFINE l == FindLeaf(t, d.hash)
               j == Where(t.page[l].node, t.page[l].len, d.hash)
    <3>1. PICK H, R : Mended(t, B, H, R) /\ Chained(t, R) /\ Clean(t)
      BY <2>3 DEF Fine
    <3>2. l \in Pages(t) /\ t.page[l].type = "leaf" /\ d.hash \in R[l] /\ t.first # 0
      BY <1>0, <3>1, FindLeafIs, MendedFirst
    <3>3. w = IF HasRoom(t.page[l])
              THEN [tree |-> [t EXCEPT !.page[l] = SlotAdd(@, d)], at |-> <<l, j>>]
              ELSE LeafSplit(t, l, d)
      BY <2>1, <3>2 DEF Insert
    <3> HIDE DEF l
    <3>4. \A i \in 0 .. t.page[l].len - 1 : t.page[l].node[i].hash # d.hash
      <4>1. \A s \in InUse(t) : s.hash # d.hash
        BY <1>0, <1>3, <3>1, SearchIs
      <4> QED BY <3>2, <4>1, InUseIs
    <3>5. CASE HasRoom(t.page[l])
      <4>1. w.tree = [t EXCEPT !.page[l] = SlotAdd(@, d)] /\ w.at = <<l, j>>
        BY <3>3, <3>5
      <4> HIDE DEF j
      <4>2. j = Where(t.page[l].node, t.page[l].len, d.hash)
        BY DEF j
      <4> QED BY <1>1, <3>1, <3>2, <3>5, <4>1, <4>2, RoomPlaces
    <3>6. CASE ~HasRoom(t.page[l])
      <4>1. w = LeafSplit(t, l, d)
        BY <3>3, <3>6
      <4>2. w.tree = LeafSplit(t, l, d).tree
        BY <4>1
      <4> HIDE DEF j
      <4> QED BY <1>1, <3>1, <3>2, <3>4, <3>6, <4>1, <4>2, SplitPlaces
    <3> QED BY <3>5, <3>6
  <2> QED BY <2>2, <2>3
<1> QED BY <1>2, <1>3

\* The same page but for the bodies of its slots.
Rebodied(a, b) ==
    /\ a.type = b.type /\ a.len = b.len /\ a.child = b.child /\ a.parent = b.parent
    /\ \A i \in 0 .. a.len - 1 : a.node[i].hash = b.node[i].hash
    /\ a.type # "leaf" => a.node = b.node

\* A tree is sound also when the bodies of its slots are others.
LEMMA SoundRebodied ==
    ASSUME NEW g, NEW g2, NEW n, NEW first, NEW H, NEW R, NEW l, NEW r,
           Sound(g, n, first, H, R, l, r), \A p \in 1 .. n : Rebodied(g[p], g2[p])
    PROVE  Sound(g2, n, first, H, R, l, r)
<1> DEFINE W == Span(R, l, r)
<1>0. \A p \in 1 .. n : /\ g[p].len \in Nat
                        /\ g[p].type = g2[p].type /\ g[p].len = g2[p].len
                        /\ g[p].child = g2[p].child /\ g[p].parent = g2[p].parent
                        /\ \A i \in 0 .. g[p].len - 1 : g[p].node[i].hash = g2[p].node[i].hash
                        /\ g[p].type # "leaf" => g[p].node = g2[p].node
  BY DEF Sound, Steered, Rebodied
<1>1. \A p \in 1 .. n : g[p].type # "leaf" => Kids(g[p]) = Kids(g2[p])
  BY <1>0 DEF Kids
<1>2. Rooted(g2, n, first, H, R, l, r)
  BY <1>0 DEF Sound, Rooted
<1> HIDE DEF W
<1>3. ASSUME NEW p \in 1 .. n  PROVE Steered(g2[p], H[p], R[p], W)
  <2>1. Steered(g[p], H[p], R[p], W)
    BY DEF Sound, W
  <2>2. Keyed(g[p].node, g[p].len, R[p]) => Keyed(g2[p].node, g[p].len, R[p])
    BY <1>0 DEF Keyed
  <2>3. g[p].type # "leaf" =>
          (Fan(g[p].child, g[p].node, g[p].len, R[p], W) => Fan(g[p].child, g2[p].node, g[p].len, R[p], W))
    BY <1>0
  <2> QED BY <1>0, <2>1, <2>2, <2>3 DEF Steered
<1>4. ASSUME NEW p \in 1 .. n  PROVE Fathered(g2, n, H, p, r)
  <2>1. Fathered(g, n, H, p, r)
    BY DEF Sound
  <2> QED BY <1>0, <1>1, <2>1 DEF Fathered
<1>5. ASSUME NEW q \in 1 .. n, q # first, q # r  PROVE KnowsParent(g2, n, q)
  <2>1. KnowsParent(g, n, q)
    BY <1>5 DEF Sound
  <2> QED BY <1>0, <1>1, <2>1 DEF KnowsParent
<1> QED BY <1>2, <1>3, <1>4, <1>5 DEF Sound, W

\* Writing the chain ends of a string: the tree stays fine, and only that slot changes,
\* keeping its hash.
LEMMA SetBodyIs ==
    ASSUME NEW B, NEW t, Fine(t, B), NEW at \in Places(t), NEW b \in B,
           NEW t2, t2 = SetBody(t, at, b)
    PROVE  /\ Fine(t2, B) /\ Places(t2) = Places(t)
           /\ \A x \in Places(t) :
                Slot(t2, x) = IF x = at THEN [hash |-> Slot(t, at).hash, body |-> b] ELSE Slot(t, x)
<1> DEFINE l == at[1]
           k == at[2]
           leaf == t.page[l]
           node == leaf.node
           node2 == [node EXCEPT ![k] = [hash |-> node[k].hash, body |-> b]]
           page == [p \in Pages(t) |-> IF p = l THEN [leaf EXCEPT !.node = node2] ELSE t.page[p]]
<1>1. l \in Pages(t) /\ leaf.type = "leaf" /\ k \in LeafSlots /\ at = <<l, k>> /\ t # Prepared
  BY PlaceIs, PlaceHolds
<1>2. PICK H, R : Mended(t, B, H, R) /\ Chained(t, R) /\ Clean(t)
  BY <1>1 DEF Fine
<1>3. leaf \in PageSet(B) /\ node \in LeafNodes(B) /\ leaf.len \in Nat /\ DOMAIN node = LeafSlots
      /\ 0 .. leaf.len - 1 \subseteq LeafSlots
  <2>1. leaf \in PageSet(B) /\ leaf.len \in Nat /\ leaf.len <= leafstep
    BY <1>1, <1>2, MendedPages DEF Capacity
  <2>2. node \in LeafNodes(B)
    BY <1>1, <2>1, PageFields
  <2> HIDE DEF node, leaf
  <2>3. 0 .. leaf.len - 1 \subseteq LeafSlots
    BY <2>1, PageShape DEF LeafSlots
  <2>4. DOMAIN node = LeafSlots
    BY <2>2 DEF LeafNodes
  <2> QED BY <2>1, <2>2, <2>3, <2>4
<1> HIDE DEF leaf
<1>4. node2 \in LeafNodes(B)
      /\ \A i \in LeafSlots : node2[i] = IF i = k THEN [hash |-> node[k].hash, body |-> b] ELSE node[i]
  <2>1. node[k].hash \in Nat
    BY <1>1, <1>3 DEF LeafNodes
  <2> HIDE DEF node, k
  <2> QED BY <1>1, <1>3, <2>1 DEF LeafNodes
<1> HIDE DEF node2
<1> DEFINE leaf2 == [leaf EXCEPT !.node = node2]
<1>5. /\ leaf2 \in PageSet(B) /\ leaf2.type = "leaf" /\ leaf2.len = leaf.len
      /\ leaf2.child = leaf.child /\ leaf2.parent = leaf.parent /\ leaf2.right = leaf.right
      /\ leaf2.node = node2
  <2>1. leaf2 \in PageSet(B)
    <3>1. leaf.child \in Nat /\ node2 \in Nodes(leaf.type, B)
      BY <1>1, <1>3, <1>4, PageFields DEF Nodes
    <3> HIDE DEF node
    <3> QED BY <1>3, <3>1, PageWithNode
  <2>2. leaf \in LeafPages(B)
    BY <1>1, <1>3 DEF PageSet, IndexPages
  <2> HIDE DEF node
  <2>3. leaf = [type |-> leaf.type, left |-> leaf.left, right |-> leaf.right, parent |-> leaf.parent,
                len |-> leaf.len, child |-> leaf.child, node |-> leaf.node]
    BY <2>2 DEF LeafPages
  <2>4. leaf2.type = leaf.type /\ leaf2.len = leaf.len /\ leaf2.child = leaf.child
        /\ leaf2.parent = leaf.parent /\ leaf2.right = leaf.right /\ leaf2.node = node2
    BY <2>3
  <2> QED BY <1>1, <2>1, <2>4
<1> HIDE DEF leaf2
<1>6. \A p \in Pages(t) : page[p] = IF p = l THEN leaf2 ELSE t.page[p]
  BY DEF leaf2
<1>7. /\ Typed(t, B) /\ t.page \in [Pages(t) -> PageSet(B)]
      /\ Sound(t.page, t.used - 1, t.first, H, R, 0, 0) /\ Pages(t) = 1 .. t.used - 1
      /\ \A p \in Pages(t) : t.page[p].right < t.used
      /\ t = [first |-> t.first, left |-> t.left, right |-> t.right, used |-> t.used, page |-> t.page]
  <2>1. Typed(t, B) /\ Sound(t.page, t.used - 1, t.first, H, R, 0, 0)
    BY <1>2 DEF Mended
  <2> QED BY <2>1, TreeFields DEF Typed, Pages
<1>8. page \in [Pages(t) -> PageSet(B)] /\ \A p \in Pages(t) : page[p].right < t.used
  <2>1. page \in [Pages(t) -> PageSet(B)]
    <3> HIDE DEF node, l
    <3>1. leaf2 \in PageSet(B) /\ [leaf EXCEPT !.node = node2] = leaf2
      BY <1>5 DEF leaf2
    <3> QED BY <1>7, <3>1
  <2>2. leaf.right < t.used
    BY <1>1, <1>7 DEF leaf
  <2> HIDE DEF page
  <2> QED BY <1>5, <1>6, <1>7, <2>1, <2>2
<1>9. t2 = [t EXCEPT !.page = page]
  <2>1. t2 = [t EXCEPT !.page = [t.page EXCEPT ![l] = leaf2]]
    BY DEF SetBody, leaf2, leaf, node2
  <2>2. [t.page EXCEPT ![l] = leaf2] = page
    BY <1>7 DEF leaf2
  <2> QED BY <2>1, <2>2
<1>10. t2.used = t.used /\ t2.first = t.first /\ t2.left = t.left /\ t2.page = page /\ Pages(t2) = Pages(t)
  <2> HIDE DEF page
  <2> QED BY <1>7, <1>9 DEF Pages
<1>11. Typed(t2, B)
  <2>1. Typed(t, B)
    BY <1>7
  <2> HIDE DEF page
  <2>2. Typed([t EXCEPT !.page = page], B)
    BY ONLY <1>8, <2>1, Repaged
  <2> QED BY <1>9, <2>2
<1> HIDE DEF page
<1>12. Mended(t2, B, H, R)
  <2>1. ASSUME NEW p \in 1 .. t.used - 1  PROVE Rebodied(t.page[p], page[p])
    <3>1. CASE p = l
      <4>1. t.page[p] = leaf /\ page[p] = leaf2
        BY <1>1, <1>6, <3>1 DEF leaf
      <4>2. \A i \in 0 .. leaf.len - 1 : leaf.node[i].hash = node2[i].hash
        BY <1>3, <1>4
      <4> QED BY <1>1, <1>5, <4>1, <4>2 DEF Rebodied
    <3>2. CASE p # l
      <4>1. t.page[p] = page[p]
        BY <1>6, <1>7, <3>2
      <4> QED BY <4>1 DEF Rebodied
    <3> QED BY <3>1, <3>2
  <2>2. Sound(page, t.used - 1, t.first, H, R, 0, 0)
    BY ONLY <1>7, <2>1, SoundRebodied
  <2> QED BY <1>10, <1>11, <2>2 DEF Mended
<1>13. \A p \in Pages(t) : /\ t2.page[p].type = t.page[p].type /\ t2.page[p].right = t.page[p].right
                           /\ t2.page[p].len = t.page[p].len
                           /\ p # l => t2.page[p].node = t.page[p].node
  BY <1>1, <1>5, <1>6, <1>10 DEF leaf
<1>14. t2.page[l].node = node2
  BY <1>1, <1>5, <1>6, <1>10
<1>15. Chained(t2, R)
  BY <1>2, <1>10, <1>13 DEF Chained
<1>16. Places(t2) = Places(t)
  BY <1>10, <1>13 DEF Places
<1>17. ASSUME NEW p \in Pages(t), t.page[p].type = "leaf", NEW i \in LeafSlots
       PROVE  t2.page[p].node[i].hash = t.page[p].node[i].hash
  <2>1. CASE p = l
    <3>1. node2[i].hash = node[i].hash
      BY <1>4
    <3> QED BY <1>14, <2>1, <3>1 DEF leaf
  <2>2. CASE p # l
    BY <1>13, <2>2
  <2> QED BY <2>1, <2>2
<1>18. ASSUME NEW p \in Pages(t), t.page[p].type = "leaf", NEW i \in 0 .. t.page[p].len - 1
       PROVE  i \in LeafSlots
  <2>1. t.page[p].len \in Nat /\ t.page[p].len <= leafstep
    BY <1>2, <1>18, MendedPages DEF Capacity
  <2> QED BY <2>1, PageShape DEF LeafSlots
<1>19. Clean(t2)
  <2>1. ASSUME NEW s \in InUse(t)  PROVE \E e \in InUse(t2) : e.hash = s.hash
    <3>1. PICK p \in Pages(t) : t.page[p].type = "leaf" /\ \E i \in 0 .. t.page[p].len - 1 : s = t.page[p].node[i]
      BY InUseIs
    <3>2. PICK i \in 0 .. t.page[p].len - 1 : s = t.page[p].node[i]
      BY <3>1
    <3> DEFINE e == t2.page[p].node[i]
    <3>3. e.hash = s.hash
      BY <1>17, <1>18, <3>1, <3>2
    <3>4. e \in InUse(t2)
      BY <1>10, <1>13, <3>1, <3>2, InUseIs
    <3> QED BY <3>3, <3>4
  <2>2. ASSUME NEW s \in InUse(t2)  PROVE s.hash # 0
    <3>1. PICK p \in Pages(t2) : t2.page[p].type = "leaf" /\ \E i \in 0 .. t2.page[p].len - 1 : s = t2.page[p].node[i]
      BY InUseIs
    <3>2. PICK i \in 0 .. t2.page[p].len - 1 : s = t2.page[p].node[i]
      BY <3>1
    <3>3. p \in Pages(t) /\ t.page[p].type = "leaf" /\ i \in 0 .. t.page[p].len - 1
      BY <1>10, <1>13, <3>1, <3>2
    <3>4. s.hash = t.page[p].node[i].hash
      BY <1>17, <1>18, <3>2, <3>3
    <3>5. t.page[p].node[i] \in InUse(t)
      BY <3>3, InUseIs
    <3> QED BY <1>2, <3>4, <3>5 DEF Clean
  <2>3. ASSUME NEW p \in Pages(t2), t2.page[p].type = "leaf", NEW i \in LeafSlots
        PROVE  t2.page[p].node[i].hash = 0 \/ \E s \in InUse(t2) : s.hash = t2.page[p].node[i].hash
    <3>1. p \in Pages(t) /\ t.page[p].type = "leaf"
      BY <1>10, <1>13, <2>3
    <3>2. t2.page[p].node[i].hash = t.page[p].node[i].hash
      BY <1>17, <3>1
    <3>3. t.page[p].node[i].hash = 0 \/ \E s \in InUse(t) : s.hash = t.page[p].node[i].hash
      BY <1>2, <3>1 DEF Clean
    <3> QED BY <2>1, <3>2, <3>3
  <2> QED BY <2>2, <2>3 DEF Clean
<1>20. Fine(t2, B)
  BY <1>12, <1>15, <1>19 DEF Fine
<1>21. ASSUME NEW x \in Places(t)
       PROVE  Slot(t2, x) = IF x = at THEN [hash |-> Slot(t, at).hash, body |-> b] ELSE Slot(t, x)
  <2>1. x[1] \in Pages(t) /\ x[2] \in LeafSlots /\ x = <<x[1], x[2]>>
    BY PlaceIs
  <2>2. CASE x[1] = l
    <3>1. Slot(t2, x) = node2[x[2]] /\ Slot(t, x) = node[x[2]] /\ Slot(t, at) = node[k]
      BY <1>14, <2>2 DEF Slot, leaf
    <3>2. x = at <=> x[2] = k
      BY <1>1, <2>1, <2>2
    <3> QED BY <1>4, <2>1, <3>1, <3>2
  <2>3. CASE x[1] # l
    <3>1. Slot(t2, x) = Slot(t, x) /\ x # at
      BY <1>13, <2>1, <2>3 DEF Slot
    <3> QED BY <3>1
  <2> QED BY <2>2, <2>3
<1> QED BY <1>16, <1>20, <1>21

----------------------------------------------------------------------------
(* One side of the relations: relation i is of chip of[i], and next[i] is the one it leads
   to.  Both sides are threaded alike. *)

\* Every link leads to a later relation of the same chip.
Homeward(n, of, next) ==
    \A i \in 1 .. n : next[i] # 0 => next[i] \in i + 1 .. n /\ of[next[i]] = of[i]

\* The chain ends of chip c, where there are any, are relations of c.
OwnEnds(n, of, c, first, last) ==
    /\ first \in 0 .. n /\ last \in 0 .. n
    /\ first # 0 => of[first] = c
    /\ last # 0 => of[last] = c

\* The chain leaves out no relation of c.
Unbroken(n, of, next, c, first, last) ==
    \A i \in 1 .. n : of[i] = c =>
        /\ first \in 1 .. i /\ last \in i .. n
        /\ \A j \in i + 1 .. n : of[j] = c => next[i] \in 1 .. j

\* Relation n + 1 of chip c, hung behind `last`.
MoreOf(n, of, c) == [i \in 1 .. n + 1 |-> IF i = n + 1 THEN c ELSE of[i]]
MoreNext(n, next, last) ==
    [i \in 1 .. n + 1 |-> IF i = n + 1 THEN 0 ELSE IF i = last THEN n + 1 ELSE next[i]]

\* Hanging one more relation on a chip keeps every link at home.
LEMMA HomewardOn ==
    ASSUME NEW n \in Nat, NEW of, NEW next, Homeward(n, of, next),
           NEW c, NEW last \in 0 .. n, last # 0 => of[last] = c
    PROVE  Homeward(n + 1, MoreOf(n, of, c), MoreNext(n, next, last))
<1> DEFINE of2 == MoreOf(n, of, c)
           next2 == MoreNext(n, next, last)
<1> SUFFICES ASSUME NEW i \in 1 .. n + 1, next2[i] # 0
             PROVE  next2[i] \in i + 1 .. n + 1 /\ of2[next2[i]] = of2[i]
  BY DEF Homeward
<1>1. /\ \A k \in 1 .. n : of2[k] = of[k]
      /\ of2[n + 1] = c /\ next2[n + 1] = 0
      /\ \A k \in 1 .. n : next2[k] = IF k = last THEN n + 1 ELSE next[k]
  BY DEF MoreOf, MoreNext
<1> HIDE DEF of2, next2
<1>2. i \in 1 .. n
  BY <1>1
<1>3. CASE i = last
  BY <1>1, <1>2, <1>3
<1>4. CASE i # last
  <2>1. next2[i] = next[i] /\ next[i] # 0
    BY <1>1, <1>2, <1>4
  <2>2. next[i] \in i + 1 .. n /\ of[next[i]] = of[i]
    BY <1>2, <2>1 DEF Homeward
  <2>3. next[i] \in 1 .. n
    BY <1>2, <2>2
  <2> QED BY <1>1, <1>2, <2>1, <2>2, <2>3
<1> QED BY <1>3, <1>4

\* The chain ends of a chip it was not hung on stay its own.
LEMMA OwnEndsStay ==
    ASSUME NEW n \in Nat, NEW of, NEW c, NEW e, NEW first, NEW last, OwnEnds(n, of, e, first, last)
    PROVE  OwnEnds(n + 1, MoreOf(n, of, c), e, first, last)
<1>1. \A k \in 1 .. n : MoreOf(n, of, c)[k] = of[k]
  BY DEF MoreOf
<1> QED BY <1>1 DEF OwnEnds

\* Those of the chip it was hung on as well.
LEMMA OwnEndsOn ==
    ASSUME NEW n \in Nat, NEW of, NEW c, NEW first, NEW last, OwnEnds(n, of, c, first, last),
           NEW f2, f2 = IF first = 0 THEN n + 1 ELSE first
    PROVE  OwnEnds(n + 1, MoreOf(n, of, c), c, f2, n + 1)
<1>1. (\A k \in 1 .. n : MoreOf(n, of, c)[k] = of[k]) /\ MoreOf(n, of, c)[n + 1] = c
  BY DEF MoreOf
<1> QED BY <1>1 DEF OwnEnds

\* A chain of another chip stays whole.
LEMMA UnbrokenStay ==
    ASSUME NEW n \in Nat, NEW of, NEW next, NEW c, NEW e, c # e, NEW first, NEW last,
           Unbroken(n, of, next, e, first, last), NEW l \in 0 .. n, l # 0 => of[l] = c
    PROVE  Unbroken(n + 1, MoreOf(n, of, c), MoreNext(n, next, l), e, first, last)
<1> DEFINE of2 == MoreOf(n, of, c)
           next2 == MoreNext(n, next, l)
<1>1. /\ \A k \in 1 .. n : of2[k] = of[k]
      /\ of2[n + 1] = c
      /\ \A k \in 1 .. n : next2[k] = IF k = l THEN n + 1 ELSE next[k]
  BY DEF MoreOf, MoreNext
<1> HIDE DEF of2, next2
<1> SUFFICES ASSUME NEW i \in 1 .. n + 1, of2[i] = e
             PROVE  /\ first \in 1 .. i /\ last \in i .. n + 1
                    /\ \A j \in i + 1 .. n + 1 : of2[j] = e => next2[i] \in 1 .. j
  BY DEF Unbroken, of2, next2
<1>2. i \in 1 .. n /\ of[i] = e
  BY <1>1
<1>3. i # l
  BY <1>2
<1>4. first \in 1 .. i /\ last \in i .. n /\ \A j \in i + 1 .. n : of[j] = e => next[i] \in 1 .. j
  BY <1>2 DEF Unbroken
<1>5. ASSUME NEW j \in i + 1 .. n + 1, of2[j] = e  PROVE next2[i] \in 1 .. j
  <2>1. j \in i + 1 .. n /\ j \in 1 .. n
    BY <1>1, <1>2, <1>5
  <2> QED BY <1>1, <1>2, <1>3, <1>4, <1>5, <2>1
<1>6. last \in i .. n + 1
  BY <1>4
<1> QED BY <1>4, <1>5, <1>6

\* The chain of the chip does, when the new relation is hung behind its last.
LEMMA UnbrokenOn ==
    ASSUME NEW n \in Nat, NEW of, NEW next, NEW c, NEW first, NEW last,
           Unbroken(n, of, next, c, first, last), OwnEnds(n, of, c, first, last),
           NEW f2, f2 = IF first = 0 THEN n + 1 ELSE first
    PROVE  Unbroken(n + 1, MoreOf(n, of, c), MoreNext(n, next, last), c, f2, n + 1)
<1> DEFINE of2 == MoreOf(n, of, c)
           next2 == MoreNext(n, next, last)
<1>1. /\ \A k \in 1 .. n : of2[k] = of[k]
      /\ \A k \in 1 .. n : next2[k] = IF k = last THEN n + 1 ELSE next[k]
  BY DEF MoreOf, MoreNext
<1> HIDE DEF of2, next2
<1> SUFFICES ASSUME NEW i \in 1 .. n + 1, of2[i] = c
             PROVE  /\ f2 \in 1 .. i /\ n + 1 \in i .. n + 1
                    /\ \A j \in i + 1 .. n + 1 : of2[j] = c => next2[i] \in 1 .. j
  BY DEF Unbroken, of2, next2
<1>2. CASE i = n + 1
  <2>1. first \in 0 .. n
    BY DEF OwnEnds
  <2> QED BY <1>2, <2>1
<1>3. CASE i # n + 1
  <2>1. i \in 1 .. n /\ of[i] = c
    BY <1>1, <1>3
  <2>2. first \in 1 .. i /\ last \in i .. n /\ \A j \in i + 1 .. n : of[j] = c => next[i] \in 1 .. j
    BY <2>1 DEF Unbroken
  <2>3. ASSUME NEW j \in i + 1 .. n + 1, of2[j] = c  PROVE next2[i] \in 1 .. j
    <3>1. CASE j = n + 1
      <4>1. CASE i = last
        BY <1>1, <2>1, <3>1, <4>1
      <4>2. CASE i # last
        <5>1. last \in i + 1 .. n /\ last # 0
          BY <2>1, <2>2, <4>2
        <5>2. of[last] = c
          BY <5>1 DEF OwnEnds
        <5>3. next[i] \in 1 .. last
          BY <2>2, <5>1, <5>2
        <5> QED BY <1>1, <2>1, <3>1, <4>2, <5>1, <5>3
      <4> QED BY <4>1, <4>2
    <3>2. CASE j # n + 1
      <4>1. j \in i + 1 .. n /\ j \in 1 .. n /\ of[j] = c
        BY <1>1, <2>1, <2>3, <3>2
      <4>2. last \in j .. n
        BY <4>1 DEF Unbroken
      <4>3. i # last
        BY <2>1, <4>1, <4>2
      <4>4. next2[i] = next[i]
        BY <1>1, <2>1, <4>3
      <4> QED BY <2>2, <4>1, <4>4
    <3> QED BY <3>1, <3>2
  <2> QED BY <2>1, <2>2, <2>3
<1> QED BY <1>2, <1>3

----------------------------------------------------------------------------
(* The memory of the learner. *)

Heads == [orel0: Nat, oreln: Nat, irel0: Nat, ireln: Nat]
ChipSet == {"hash", "file", "func"} \X Nat
RelSet == [src: ChipSet, samesrcprevdst: Nat, samesrcnextdst: Nat,
           dst: ChipSet, samedstprevsrc: Nat, samedstnextsrc: Nat]
IntentSet == [src: ChipSet, dst: ChipSet, during: Nat]
Memories == [tree: Trees(Heads), wire: Seq(RelSet), file: Seq(Heads), func: Seq(Heads),
             meant: Seq(IntentSet)]

Formed(m) == m \in Memories /\ Fine(m.tree, Heads) /\ Len(m.meant) = Len(m.wire)

\* What a pointer may point to: any slot of a leaf, a file, a function.
Points(m, x) ==
    \/ x.type = "hash" /\ x.at \in Places(m.tree)
    \/ x.type = "file" /\ x.at \in DOMAIN m.file
    \/ x.type = "func" /\ x.at \in DOMAIN m.func

\* A cleared slot and a new file have no relations.
LEMMA NoHeadIs == NoHead \in Heads /\ NoBody = NoHead
BY Cleared DEF NoHead, Heads

\* A fine tree is a tree.
LEMMA FineTree ==
    ASSUME NEW B, NEW t, Fine(t, B)
    PROVE  t \in Trees(B)
<1>1. Typed(t, B)
  BY PreparedIs DEF Fine, Mended
<1> QED BY <1>1 DEF Typed

\* What is at a pointer is a chip and its chain ends.
LEMMA PointIs ==
    ASSUME NEW m, Formed(m), NEW x, Points(m, x)
    PROVE  ChipAt(m, x) \in ChipSet /\ HeadAt(m, x) \in Heads
<1>1. CASE x.type = "hash"
  <2>1. x.at \in Places(m.tree) /\ Fine(m.tree, Heads)
    BY <1>1 DEF Points, Formed
  <2>2. Slot(m.tree, x.at).hash \in Nat /\ Slot(m.tree, x.at).body \in Heads
    BY <2>1, PlaceHolds
  <2> QED BY <1>1, <2>2 DEF ChipAt, HeadAt, ChipSet
<1>2. CASE x.type = "file"
  <2>1. x.at \in DOMAIN m.file /\ m.file \in Seq(Heads)
    BY <1>2 DEF Points, Formed, Memories
  <2> QED BY <1>2, <2>1 DEF ChipAt, HeadAt, ChipSet
<1>3. CASE x.type = "func"
  <2>1. x.at \in DOMAIN m.func /\ m.func \in Seq(Heads)
    BY <1>3 DEF Points, Formed, Memories
  <2> QED BY <1>3, <2>1 DEF ChipAt, HeadAt, ChipSet
<1> QED BY <1>1, <1>2, <1>3 DEF Points

\* Two pointers to one thing.
SameTarget(x, y) == x.type = y.type /\ x.at = y.at

\* The memory m2 is m with other chain ends h where x points to.
Reheaded(m, m2, x, h) ==
    /\ m2.wire = m.wire /\ m2.meant = m.meant
    /\ DOMAIN m2.file = DOMAIN m.file /\ DOMAIN m2.func = DOMAIN m.func
    /\ Len(m2.file) = Len(m.file)
    /\ \A y : Points(m2, y) <=> Points(m, y)
    /\ \A y : Points(m, y) => /\ ChipAt(m2, y) = ChipAt(m, y)
                              /\ HeadAt(m2, y) = IF SameTarget(x, y) THEN h ELSE HeadAt(m, y)

\* Writing chain ends changes them there and nothing else.
LEMMA SetHeadIs ==
    ASSUME NEW m, Formed(m), NEW x, Points(m, x), NEW h \in Heads, NEW m2, m2 = SetHead(m, x, h)
    PROVE  Formed(m2) /\ Reheaded(m, m2, x, h)
<1>1. /\ m = [tree |-> m.tree, wire |-> m.wire, file |-> m.file, func |-> m.func, meant |-> m.meant]
      /\ m.tree \in Trees(Heads) /\ m.wire \in Seq(RelSet) /\ m.file \in Seq(Heads)
      /\ m.func \in Seq(Heads) /\ m.meant \in Seq(IntentSet)
      /\ Fine(m.tree, Heads) /\ Len(m.meant) = Len(m.wire)
  BY DEF Formed, Memories
<1>2. CASE x.type = "hash"
  <2> DEFINE t2 == SetBody(m.tree, x.at, h)
  <2>1. x.at \in Places(m.tree)
    BY <1>2 DEF Points
  <2>2. /\ Fine(t2, Heads) /\ Places(t2) = Places(m.tree)
        /\ \A y \in Places(m.tree) :
             Slot(t2, y) = IF y = x.at THEN [hash |-> Slot(m.tree, x.at).hash, body |-> h]
                           ELSE Slot(m.tree, y)
    BY <1>1, <2>1, SetBodyIs
  <2>3. m2 = [tree |-> t2, wire |-> m.wire, file |-> m.file, func |-> m.func, meant |-> m.meant]
    <3>1. m2 = [m EXCEPT !.tree = t2]
      BY <1>2 DEF SetHead
    <3> HIDE DEF t2
    <3> QED BY <1>1, <3>1
  <2>4. t2 \in Trees(Heads)
    BY <2>2, FineTree
  <2> HIDE DEF t2
  <2>5. Formed(m2)
    BY <1>1, <2>2, <2>3, <2>4 DEF Formed, Memories
  <2>6. m2.tree = t2 /\ m2.wire = m.wire /\ m2.file = m.file /\ m2.func = m.func /\ m2.meant = m.meant
    BY <2>3
  <2>7. \A y : Points(m2, y) <=> Points(m, y)
    BY <2>2, <2>6 DEF Points
  <2>8. ASSUME NEW y, Points(m, y)
        PROVE  /\ ChipAt(m2, y) = ChipAt(m, y)
               /\ HeadAt(m2, y) = IF SameTarget(x, y) THEN h ELSE HeadAt(m, y)
    <3>1. CASE y.type = "hash"
      <4>1. y.at \in Places(m.tree)
        BY <2>8, <3>1 DEF Points
      <4>2. Slot(t2, y.at).hash = Slot(m.tree, y.at).hash
            /\ Slot(t2, y.at).body = IF y.at = x.at THEN h ELSE Slot(m.tree, y.at).body
        BY <2>2, <4>1
      <4> QED BY <1>2, <2>6, <3>1, <4>2 DEF ChipAt, HeadAt, SameTarget
    <3>2. CASE y.type # "hash"
      <4>1. y.type = "file" \/ y.type = "func"
        BY <2>8, <3>2 DEF Points
      <4> QED BY <1>2, <2>6, <4>1 DEF ChipAt, HeadAt, SameTarget
    <3> QED BY <3>1, <3>2
  <2> QED BY <2>5, <2>6, <2>7, <2>8 DEF Reheaded
<1>3. CASE x.type = "file"
  <2> DEFINE f2 == [m.file EXCEPT ![x.at] = h]
  <2>1. x.at \in DOMAIN m.file
    BY <1>3 DEF Points
  <2>2. f2 \in Seq(Heads) /\ DOMAIN f2 = DOMAIN m.file /\ Len(f2) = Len(m.file)
        /\ \A k \in DOMAIN m.file : f2[k] = IF k = x.at THEN h ELSE m.file[k]
    <3> DEFINE s == m.file
    <3>1. s \in Seq(Heads)
      BY <1>1
    <3> HIDE DEF s
    <3> QED BY <3>1, <2>1 DEF s
  <2>3. m2 = [tree |-> m.tree, wire |-> m.wire, file |-> f2, func |-> m.func, meant |-> m.meant]
    <3>1. m2 = [m EXCEPT !.file = f2]
      BY <1>3 DEF SetHead
    <3> HIDE DEF f2
    <3> QED BY <1>1, <3>1
  <2> HIDE DEF f2
  <2>4. Formed(m2)
    BY <1>1, <2>2, <2>3 DEF Formed, Memories
  <2>5. m2.tree = m.tree /\ m2.wire = m.wire /\ m2.file = f2 /\ m2.func = m.func /\ m2.meant = m.meant
    BY <2>3
  <2>6. \A y : Points(m2, y) <=> Points(m, y)
    BY <2>2, <2>5 DEF Points
  <2>7. ASSUME NEW y, Points(m, y)
        PROVE  /\ ChipAt(m2, y) = ChipAt(m, y)
               /\ HeadAt(m2, y) = IF SameTarget(x, y) THEN h ELSE HeadAt(m, y)
    <3>1. y.type = "file" => y.at \in DOMAIN m.file
      BY <2>7 DEF Points
    <3>2. y.type = "hash" \/ y.type = "file" \/ y.type = "func"
      BY <2>7 DEF Points
    <3> QED BY <1>3, <2>2, <2>5, <3>1, <3>2 DEF ChipAt, HeadAt, SameTarget
  <2> QED BY <2>2, <2>4, <2>5, <2>6, <2>7 DEF Reheaded
<1>4. CASE x.type = "func"
  <2> DEFINE f2 == [m.func EXCEPT ![x.at] = h]
  <2>1. x.at \in DOMAIN m.func
    BY <1>4 DEF Points
  <2>2. f2 \in Seq(Heads) /\ DOMAIN f2 = DOMAIN m.func
        /\ \A k \in DOMAIN m.func : f2[k] = IF k = x.at THEN h ELSE m.func[k]
    <3> DEFINE s == m.func
    <3>1. s \in Seq(Heads)
      BY <1>1
    <3> HIDE DEF s
    <3> QED BY <3>1, <2>1 DEF s
  <2>3. m2 = [tree |-> m.tree, wire |-> m.wire, file |-> m.file, func |-> f2, meant |-> m.meant]
    <3>1. m2 = [m EXCEPT !.func = f2]
      BY <1>4 DEF SetHead
    <3> HIDE DEF f2
    <3> QED BY <1>1, <3>1
  <2> HIDE DEF f2
  <2>4. Formed(m2)
    BY <1>1, <2>2, <2>3 DEF Formed, Memories
  <2>5. m2.tree = m.tree /\ m2.wire = m.wire /\ m2.file = m.file /\ m2.func = f2 /\ m2.meant = m.meant
    BY <2>3
  <2>6. \A y : Points(m2, y) <=> Points(m, y)
    BY <2>2, <2>5 DEF Points
  <2>7. ASSUME NEW y, Points(m, y)
        PROVE  /\ ChipAt(m2, y) = ChipAt(m, y)
               /\ HeadAt(m2, y) = IF SameTarget(x, y) THEN h ELSE HeadAt(m, y)
    <3>1. y.type = "func" => y.at \in DOMAIN m.func
      BY <2>7 DEF Points
    <3>2. y.type = "hash" \/ y.type = "file" \/ y.type = "func"
      BY <2>7 DEF Points
    <3> QED BY <1>4, <2>2, <2>5, <3>1, <3>2 DEF ChipAt, HeadAt, SameTarget
  <2> QED BY <2>2, <2>4, <2>5, <2>6, <2>7 DEF Reheaded
<1> QED BY <1>2, <1>3, <1>4 DEF Points

----------------------------------------------------------------------------
(* relationcreate. *)

Srcs(m) == [i \in 1 .. Len(m.wire) |-> m.wire[i].src]
Dsts(m) == [i \in 1 .. Len(m.wire) |-> m.wire[i].dst]
SrcNext(m) == [i \in 1 .. Len(m.wire) |-> m.wire[i].samesrcnextdst]
DstNext(m) == [i \in 1 .. Len(m.wire) |-> m.wire[i].samedstnextsrc]

\* The relations of m2 are those of m and one more, of the chips s and d, hung behind the
\* relations so and di.
Threads(m, m2, s, d, so, di) ==
    LET n == Len(m.wire)
    IN  /\ Len(m2.wire) = n + 1
        /\ Srcs(m2) = MoreOf(n, Srcs(m), s) /\ SrcNext(m2) = MoreNext(n, SrcNext(m), so)
        /\ Dsts(m2) = MoreOf(n, Dsts(m), d) /\ DstNext(m2) = MoreNext(n, DstNext(m), di)

\* The first half of relationcreate: the relation.
LEMMA LinkedIs ==
    ASSUME NEW m, Formed(m), NEW sc, Points(m, sc), sc.means \in Nat,
           NEW dc, Points(m, dc), dc.means \in Nat,
           NEW n, n = Len(m.wire) + 1, NEW m2, m2 = Linked(m, n, sc, dc)
    PROVE  /\ Formed(m2) /\ n \in Nat
           /\ m2.tree = m.tree /\ m2.file = m.file /\ m2.func = m.func
           /\ Threads(m, m2, ChipAt(m, sc), ChipAt(m, dc), HeadAt(m, sc).oreln, HeadAt(m, dc).ireln)
           /\ Len(m2.meant) = n /\ m2.meant[n].during = Len(m.file)
           /\ \A i \in 1 .. n - 1 : m2.meant[i] = m.meant[i]
<1> DEFINE s == ChipAt(m, sc)
           d == ChipAt(m, dc)
           so == HeadAt(m, sc).oreln
           di == HeadAt(m, dc).ireln
           w == m.wire
           w2 == Threaded(w, n, s, so, d, di)
           intent == [src |-> <<sc.type, sc.means>>, dst |-> <<dc.type, dc.means>>, during |-> Len(m.file)]
<1>1. /\ m = [tree |-> m.tree, wire |-> m.wire, file |-> m.file, func |-> m.func, meant |-> m.meant]
      /\ m.tree \in Trees(Heads) /\ w \in Seq(RelSet) /\ m.file \in Seq(Heads)
      /\ m.func \in Seq(Heads) /\ m.meant \in Seq(IntentSet)
      /\ Fine(m.tree, Heads) /\ Len(m.meant) = Len(w)
  BY DEF Formed, Memories
<1>2. s \in ChipSet /\ d \in ChipSet /\ so \in Nat /\ di \in Nat
  <2>1. s \in ChipSet /\ d \in ChipSet /\ HeadAt(m, sc) \in Heads /\ HeadAt(m, dc) \in Heads
    BY PointIs
  <2> QED BY <2>1 DEF Heads
<1>3. intent \in IntentSet
  <2>1. sc.type \in {"hash", "file", "func"} /\ dc.type \in {"hash", "file", "func"}
    BY DEF Points
  <2>2. Len(m.file) \in Nat
    BY <1>1
  <2> QED BY <2>1, <2>2 DEF IntentSet, ChipSet
<1>4. m2 = [tree |-> m.tree, wire |-> w2, file |-> m.file, func |-> m.func, meant |-> Append(m.meant, intent)]
  <2>1. m2 = [m EXCEPT !.wire = w2, !.meant = Append(@, intent)]
    BY DEF Linked
  <2> HIDE DEF w2, intent
  <2> QED BY <1>1, <2>1
<1>5. n \in Nat /\ n - 1 = Len(w) /\ n \in 1 .. n /\ \A i \in 1 .. n : i # n => i \in 1 .. n - 1
  <2>1. w \in Seq(RelSet) /\ n = Len(w) + 1
    BY <1>1
  <2> HIDE DEF w
  <2>2. Len(w) \in Nat
    BY <2>1
  <2> QED BY <2>1, <2>2
<1> HIDE DEF s, d, so, di, w, intent
<1>6. /\ w2 = [i \in 1 .. n |-> w2[i]]
      /\ w2[n] = [src |-> s, samesrcprevdst |-> so, samesrcnextdst |-> 0,
                  dst |-> d, samedstprevsrc |-> di, samedstnextsrc |-> 0]
      /\ \A i \in 1 .. n - 1 :
           w2[i] = [w[i] EXCEPT !.samesrcnextdst = IF i = so THEN n ELSE @,
                                !.samedstnextsrc = IF i = di THEN n ELSE @]
  <2>1. w2 = [i \in 1 .. n |->
                IF i = n
                THEN [src |-> s, samesrcprevdst |-> so, samesrcnextdst |-> 0,
                      dst |-> d, samedstprevsrc |-> di, samedstnextsrc |-> 0]
                ELSE [w[i] EXCEPT !.samesrcnextdst = IF i = so THEN n ELSE @,
                                  !.samedstnextsrc = IF i = di THEN n ELSE @]]
    BY Zenon DEF Threaded
  <2>2. \A i \in 1 .. n - 1 : i \in 1 .. n /\ i # n
    BY <1>5
  <2> HIDE DEF w2
  <2>3. \A i \in 1 .. n : w2[i] =
                IF i = n
                THEN [src |-> s, samesrcprevdst |-> so, samesrcnextdst |-> 0,
                      dst |-> d, samedstprevsrc |-> di, samedstnextsrc |-> 0]
                ELSE [w[i] EXCEPT !.samesrcnextdst = IF i = so THEN n ELSE @,
                                  !.samedstnextsrc = IF i = di THEN n ELSE @]
    BY <2>1, Zenon
  <2>4. w2 = [i \in 1 .. n |-> w2[i]]
    BY <2>1, Zenon
  <2> QED BY <1>5, <2>2, <2>3, <2>4, Zenon
<1> HIDE DEF w2
<1>7. ASSUME NEW i \in 1 .. n - 1
      PROVE  /\ w2[i] \in RelSet /\ w2[i].src = w[i].src /\ w2[i].dst = w[i].dst
             /\ w2[i].samesrcnextdst = IF i = so THEN n ELSE w[i].samesrcnextdst
             /\ w2[i].samedstnextsrc = IF i = di THEN n ELSE w[i].samedstnextsrc
  <2> DEFINE e == w[i]
             a == IF i = so THEN n ELSE e.samesrcnextdst
             b == IF i = di THEN n ELSE e.samedstnextsrc
  <2>1. e \in RelSet
    BY <1>1, <1>5
  <2>2. w2[i] = [e EXCEPT !.samesrcnextdst = IF i = so THEN n ELSE @,
                          !.samedstnextsrc = IF i = di THEN n ELSE @]
    BY <1>6
  <2> HIDE DEF e
  <2>3. e = [src |-> e.src, samesrcprevdst |-> e.samesrcprevdst, samesrcnextdst |-> e.samesrcnextdst,
             dst |-> e.dst, samedstprevsrc |-> e.samedstprevsrc, samedstnextsrc |-> e.samedstnextsrc]
    BY <2>1 DEF RelSet
  <2>4. a \in Nat /\ b \in Nat
    BY <1>5, <2>1 DEF RelSet
  <2>5. w2[i] = [e EXCEPT !.samesrcnextdst = a, !.samedstnextsrc = b]
    BY <2>2
  <2> HIDE DEF a, b
  <2>6. w2[i] = [src |-> e.src, samesrcprevdst |-> e.samesrcprevdst, samesrcnextdst |-> a,
                 dst |-> e.dst, samedstprevsrc |-> e.samedstprevsrc, samedstnextsrc |-> b]
    BY <2>3, <2>5
  <2>7. w2[i] \in RelSet
    BY <2>1, <2>4, <2>6 DEF RelSet
  <2> QED BY <2>6, <2>7 DEF a, b, e
<1>8. w2[n] \in RelSet /\ w2[n].src = s /\ w2[n].dst = d
      /\ w2[n].samesrcnextdst = 0 /\ w2[n].samedstnextsrc = 0
  <2>1. w2[n] = [src |-> s, samesrcprevdst |-> so, samesrcnextdst |-> 0,
                 dst |-> d, samedstprevsrc |-> di, samedstnextsrc |-> 0]
    BY <1>6
  <2> QED BY ONLY <1>2, <2>1 DEF RelSet
<1>9. w2 \in Seq(RelSet) /\ Len(w2) = n
  <2>1. \A i \in 1 .. n : w2[i] \in RelSet
    BY <1>5, <1>7, <1>8
  <2>2. w2 \in [1 .. n -> RelSet]
    BY <1>6, <2>1
  <2> QED BY <1>5, <2>2
<1>10. Append(m.meant, intent) \in Seq(IntentSet) /\ Len(Append(m.meant, intent)) = n
       /\ Append(m.meant, intent)[n] = intent
       /\ \A i \in 1 .. n - 1 : Append(m.meant, intent)[i] = m.meant[i]
  <2> DEFINE q == m.meant
  <2>1. q \in Seq(IntentSet) /\ Len(q) + 1 = n
    BY <1>1, <1>5
  <2> HIDE DEF q
  <2>2. Append(q, intent) \in Seq(IntentSet) /\ Len(Append(q, intent)) = n
        /\ Append(q, intent)[n] = intent /\ \A i \in 1 .. n - 1 : Append(q, intent)[i] = q[i]
    BY <1>3, <2>1
  <2> QED BY <2>2 DEF q
<1>11. /\ m2.tree = m.tree /\ m2.file = m.file /\ m2.func = m.func
       /\ m2.wire = w2 /\ m2.meant = Append(m.meant, intent)
  BY <1>4
<1>12. Formed(m2)
  <2> DEFINE q == Append(m.meant, intent)
  <2>1. q \in Seq(IntentSet) /\ Len(q) = n
    BY <1>10
  <2>2. m2 = [tree |-> m.tree, wire |-> w2, file |-> m.file, func |-> m.func, meant |-> q]
    BY <1>4
  <2> HIDE DEF q
  <2> QED BY <1>1, <1>9, <2>1, <2>2 DEF Formed, Memories
<1>13. Threads(m, m2, s, d, so, di)
  <2> DEFINE k == Len(m.wire)
  <2>1. k = n - 1 /\ k + 1 = n /\ m.wire = w
    BY <1>5 DEF w
  <2> HIDE DEF k
  <2>2. \A i \in 1 .. n : w2[i].src = IF i = n THEN s ELSE w[i].src
    BY <1>5, <1>7, <1>8
  <2>3. \A i \in 1 .. n : w2[i].dst = IF i = n THEN d ELSE w[i].dst
    BY <1>5, <1>7, <1>8
  <2>4. \A i \in 1 .. n : w2[i].samesrcnextdst = IF i = n THEN 0 ELSE IF i = so THEN n ELSE w[i].samesrcnextdst
    BY <1>5, <1>7, <1>8
  <2>5. \A i \in 1 .. n : w2[i].samedstnextsrc = IF i = n THEN 0 ELSE IF i = di THEN n ELSE w[i].samedstnextsrc
    BY <1>5, <1>7, <1>8
  <2>6. \A i \in 1 .. n : i # n => i \in 1 .. k
    BY <1>5, <2>1
  <2>7. Srcs(m2) = [i \in 1 .. n |-> w2[i].src] /\ Srcs(m) = [i \in 1 .. k |-> w[i].src]
        /\ Dsts(m2) = [i \in 1 .. n |-> w2[i].dst] /\ Dsts(m) = [i \in 1 .. k |-> w[i].dst]
        /\ SrcNext(m2) = [i \in 1 .. n |-> w2[i].samesrcnextdst]
        /\ SrcNext(m) = [i \in 1 .. k |-> w[i].samesrcnextdst]
        /\ DstNext(m2) = [i \in 1 .. n |-> w2[i].samedstnextsrc]
        /\ DstNext(m) = [i \in 1 .. k |-> w[i].samedstnextsrc]
    BY <1>9, <1>11, <2>1 DEF Srcs, Dsts, SrcNext, DstNext, k
  <2>8. Srcs(m2) = MoreOf(k, Srcs(m), s)
    BY ONLY <2>1, <2>2, <2>6, <2>7 DEF MoreOf
  <2>9. Dsts(m2) = MoreOf(k, Dsts(m), d)
    BY ONLY <2>1, <2>3, <2>6, <2>7 DEF MoreOf
  <2>10. SrcNext(m2) = MoreNext(k, SrcNext(m), so)
    BY ONLY <2>1, <2>4, <2>6, <2>7 DEF MoreNext
  <2>11. DstNext(m2) = MoreNext(k, DstNext(m), di)
    BY ONLY <2>1, <2>5, <2>6, <2>7 DEF MoreNext
  <2> QED BY <1>9, <1>11, <2>1, <2>8, <2>9, <2>10, <2>11 DEF Threads, k
<1>14. intent.during = Len(m.file)
  BY DEF intent
<1> QED BY <1>5, <1>10, <1>11, <1>12, <1>13, <1>14 DEF s, d, so, di

\* The memory m3 is m with relation n from sc to dc and its place in the chains of both.
Relates(m, m3, sc, dc, n) ==
    /\ Threads(m, m3, ChipAt(m, sc), ChipAt(m, dc), HeadAt(m, sc).oreln, HeadAt(m, dc).ireln)
    /\ DOMAIN m3.file = DOMAIN m.file /\ DOMAIN m3.func = DOMAIN m.func
    /\ Len(m3.file) = Len(m.file)
    /\ \A y : Points(m3, y) <=> Points(m, y)
    /\ \A y : Points(m, y) =>
         LET h == HeadAt(m, y)
             g == HeadAt(m3, y)
         IN  /\ ChipAt(m3, y) = ChipAt(m, y)
             /\ IF SameTarget(sc, y)
                THEN g.oreln = n /\ g.orel0 = IF h.orel0 = 0 THEN n ELSE h.orel0
                ELSE g.oreln = h.oreln /\ g.orel0 = h.orel0
             /\ IF SameTarget(dc, y)
                THEN g.ireln = n /\ g.irel0 = IF h.irel0 = 0 THEN n ELSE h.irel0
                ELSE g.ireln = h.ireln /\ g.irel0 = h.irel0
    /\ Len(m3.meant) = n /\ m3.meant[n].during = Len(m.file)
    /\ \A i \in 1 .. n - 1 : m3.meant[i] = m.meant[i]

\* The chain ends after a relation is hung on one side.
LEMMA AsSourceIs ==
    ASSUME NEW h \in Heads, NEW n \in Nat
    PROVE  /\ AsSource(h, n) \in Heads
           /\ AsSource(h, n).oreln = n /\ AsSource(h, n).orel0 = IF h.orel0 = 0 THEN n ELSE h.orel0
           /\ AsSource(h, n).ireln = h.ireln /\ AsSource(h, n).irel0 = h.irel0
<1> DEFINE a == IF h.orel0 = 0 THEN n ELSE h.orel0
<1>1. h = [orel0 |-> h.orel0, oreln |-> h.oreln, irel0 |-> h.irel0, ireln |-> h.ireln]
      /\ h.orel0 \in Nat /\ h.oreln \in Nat /\ h.irel0 \in Nat /\ h.ireln \in Nat
  BY DEF Heads
<1>2. AsSource(h, n) = [h EXCEPT !.oreln = n, !.orel0 = a]
  <2>1. [h EXCEPT !.oreln = n].orel0 = h.orel0
    BY <1>1
  <2> QED BY <2>1 DEF AsSource
<1>3. a \in Nat
  BY <1>1
<1> HIDE DEF a
<1>4. AsSource(h, n) = [orel0 |-> a, oreln |-> n, irel0 |-> h.irel0, ireln |-> h.ireln]
  BY <1>1, <1>2
<1>5. AsSource(h, n) \in Heads
  BY <1>1, <1>3, <1>4 DEF Heads
<1> QED BY <1>4, <1>5 DEF a

\* And on the other.
LEMMA AsTargetIs ==
    ASSUME NEW h \in Heads, NEW n \in Nat
    PROVE  /\ AsTarget(h, n) \in Heads
           /\ AsTarget(h, n).ireln = n /\ AsTarget(h, n).irel0 = IF h.irel0 = 0 THEN n ELSE h.irel0
           /\ AsTarget(h, n).oreln = h.oreln /\ AsTarget(h, n).orel0 = h.orel0
<1> DEFINE a == IF h.irel0 = 0 THEN n ELSE h.irel0
<1>1. h = [orel0 |-> h.orel0, oreln |-> h.oreln, irel0 |-> h.irel0, ireln |-> h.ireln]
      /\ h.orel0 \in Nat /\ h.oreln \in Nat /\ h.irel0 \in Nat /\ h.ireln \in Nat
  BY DEF Heads
<1>2. AsTarget(h, n) = [h EXCEPT !.ireln = n, !.irel0 = a]
  <2>1. [h EXCEPT !.ireln = n].irel0 = h.irel0
    BY <1>1
  <2> QED BY <2>1 DEF AsTarget
<1>3. a \in Nat
  BY <1>1
<1> HIDE DEF a
<1>4. AsTarget(h, n) = [orel0 |-> h.orel0, oreln |-> h.oreln, irel0 |-> a, ireln |-> n]
  BY <1>1, <1>2
<1>5. AsTarget(h, n) \in Heads
  BY <1>1, <1>3, <1>4 DEF Heads
<1> QED BY <1>4, <1>5 DEF a

\* Pointers to one thing show one thing.
LEMMA SameShown ==
    ASSUME NEW m, NEW x, NEW y, SameTarget(x, y)
    PROVE  ChipAt(m, x) = ChipAt(m, y) /\ HeadAt(m, x) = HeadAt(m, y) /\ (Points(m, x) <=> Points(m, y))
BY DEF SameTarget, ChipAt, HeadAt, Points

\* relationcreate as a whole, the chain ends of the target read after those of the source
\* are written.
LEMMA RelatedIs ==
    ASSUME NEW m, Formed(m), NEW sc, Points(m, sc), sc.means \in Nat,
           NEW dc, Points(m, dc), dc.means \in Nat, NEW n, n = Len(m.wire) + 1
    PROVE  Formed(Related(m, sc, dc)) /\ Relates(m, Related(m, sc, dc), sc, dc, n) /\ n \in Nat
<1> DEFINE m1 == Linked(m, n, sc, dc)
           m2 == Sourced(m1, n, sc)
           m3 == Targeted(m2, n, dc)
           h1 == AsSource(HeadAt(m1, sc), n)
           h2 == AsTarget(HeadAt(m2, dc), n)
<1>0. Related(m, sc, dc) = m3
  BY DEF Related
<1>1. /\ Formed(m1) /\ n \in Nat
      /\ m1.tree = m.tree /\ m1.file = m.file /\ m1.func = m.func
      /\ Threads(m, m1, ChipAt(m, sc), ChipAt(m, dc), HeadAt(m, sc).oreln, HeadAt(m, dc).ireln)
      /\ Len(m1.meant) = n /\ m1.meant[n].during = Len(m.file)
      /\ \A i \in 1 .. n - 1 : m1.meant[i] = m.meant[i]
  BY LinkedIs
<1>2. m2 = SetHead(m1, sc, h1) /\ m3 = SetHead(m2, dc, h2)
  BY DEF Sourced, Targeted
<1> HIDE DEF m1, m2, m3, h1, h2
<1>3. /\ \A y : Points(m1, y) <=> Points(m, y)
      /\ \A y : ChipAt(m1, y) = ChipAt(m, y) /\ HeadAt(m1, y) = HeadAt(m, y)
  BY <1>1 DEF Points, ChipAt, HeadAt
<1>4. HeadAt(m1, sc) \in Heads /\ Points(m1, sc)
  BY <1>1, <1>3, PointIs
<1>5. /\ h1 \in Heads /\ h1.oreln = n
      /\ h1.orel0 = IF HeadAt(m1, sc).orel0 = 0 THEN n ELSE HeadAt(m1, sc).orel0
      /\ h1.ireln = HeadAt(m1, sc).ireln /\ h1.irel0 = HeadAt(m1, sc).irel0
  BY <1>1, <1>4, AsSourceIs DEF h1
<1>6. Formed(m2) /\ Reheaded(m1, m2, sc, h1)
  BY <1>1, <1>2, <1>4, <1>5, SetHeadIs
<1>7. HeadAt(m2, dc) \in Heads /\ Points(m2, dc)
  <2>1. Points(m2, dc)
    BY <1>3, <1>6 DEF Reheaded
  <2> QED BY <1>6, <2>1, PointIs
<1>8. /\ h2 \in Heads /\ h2.ireln = n
      /\ h2.irel0 = IF HeadAt(m2, dc).irel0 = 0 THEN n ELSE HeadAt(m2, dc).irel0
      /\ h2.oreln = HeadAt(m2, dc).oreln /\ h2.orel0 = HeadAt(m2, dc).orel0
  BY <1>1, <1>7, AsTargetIs DEF h2
<1>9. Formed(m3) /\ Reheaded(m2, m3, dc, h2)
  BY <1>2, <1>6, <1>7, <1>8, SetHeadIs
<1>10. /\ m3.wire = m1.wire /\ m3.meant = m1.meant
       /\ DOMAIN m3.file = DOMAIN m.file /\ DOMAIN m3.func = DOMAIN m.func
       /\ Len(m3.file) = Len(m.file)
       /\ \A y : Points(m3, y) <=> Points(m, y)
  BY <1>1, <1>3, <1>6, <1>9 DEF Reheaded
<1>11. ASSUME NEW y, Points(m, y)
       PROVE  /\ ChipAt(m3, y) = ChipAt(m, y)
              /\ IF SameTarget(sc, y)
                 THEN /\ HeadAt(m3, y).oreln = n
                      /\ HeadAt(m3, y).orel0 = IF HeadAt(m, y).orel0 = 0 THEN n ELSE HeadAt(m, y).orel0
                 ELSE HeadAt(m3, y).oreln = HeadAt(m, y).oreln /\ HeadAt(m3, y).orel0 = HeadAt(m, y).orel0
              /\ IF SameTarget(dc, y)
                 THEN /\ HeadAt(m3, y).ireln = n
                      /\ HeadAt(m3, y).irel0 = IF HeadAt(m, y).irel0 = 0 THEN n ELSE HeadAt(m, y).irel0
                 ELSE HeadAt(m3, y).ireln = HeadAt(m, y).ireln /\ HeadAt(m3, y).irel0 = HeadAt(m, y).irel0
  <2>1. Points(m1, y) /\ Points(m2, y) /\ ChipAt(m1, y) = ChipAt(m, y) /\ HeadAt(m1, y) = HeadAt(m, y)
    BY <1>3, <1>6, <1>11 DEF Reheaded
  <2>2. ChipAt(m3, y) = ChipAt(m, y)
    BY <1>6, <1>9, <2>1 DEF Reheaded
  <2>3. HeadAt(m2, y) = IF SameTarget(sc, y) THEN h1 ELSE HeadAt(m, y)
    BY <1>6, <2>1 DEF Reheaded
  <2>4. HeadAt(m3, y) = IF SameTarget(dc, y) THEN h2 ELSE HeadAt(m2, y)
    BY <1>9, <2>1 DEF Reheaded
  <2>5. SameTarget(sc, y) => HeadAt(m1, sc) = HeadAt(m, y)
    BY <2>1, SameShown
  <2>6. SameTarget(dc, y) => HeadAt(m2, dc) = HeadAt(m2, y)
    BY SameShown
  <2>7. /\ HeadAt(m2, y).ireln = HeadAt(m, y).ireln /\ HeadAt(m2, y).irel0 = HeadAt(m, y).irel0
        /\ IF SameTarget(sc, y)
           THEN /\ HeadAt(m2, y).oreln = n
                /\ HeadAt(m2, y).orel0 = IF HeadAt(m, y).orel0 = 0 THEN n ELSE HeadAt(m, y).orel0
           ELSE HeadAt(m2, y).oreln = HeadAt(m, y).oreln /\ HeadAt(m2, y).orel0 = HeadAt(m, y).orel0
    BY ONLY <1>5, <2>3, <2>5
  <2>8. /\ HeadAt(m3, y).oreln = HeadAt(m2, y).oreln /\ HeadAt(m3, y).orel0 = HeadAt(m2, y).orel0
        /\ IF SameTarget(dc, y)
           THEN /\ HeadAt(m3, y).ireln = n
                /\ HeadAt(m3, y).irel0 = IF HeadAt(m2, y).irel0 = 0 THEN n ELSE HeadAt(m2, y).irel0
           ELSE HeadAt(m3, y).ireln = HeadAt(m2, y).ireln /\ HeadAt(m3, y).irel0 = HeadAt(m2, y).irel0
    BY ONLY <1>8, <2>4, <2>6
  <2> QED BY ONLY <2>2, <2>7, <2>8
<1>12. Threads(m, m3, ChipAt(m, sc), ChipAt(m, dc), HeadAt(m, sc).oreln, HeadAt(m, dc).ireln)
  BY <1>1, <1>10 DEF Threads, Srcs, Dsts, SrcNext, DstNext
<1>13. Relates(m, m3, sc, dc, n)
  <2>1. /\ Len(m3.meant) = n /\ m3.meant[n].during = Len(m.file)
        /\ \A i \in 1 .. n - 1 : m3.meant[i] = m.meant[i]
    BY <1>1, <1>10
  <2> QED BY <1>10, <1>11, <1>12, <2>1, Zenon DEF Relates
<1> QED BY <1>0, <1>1, <1>9, <1>13

----------------------------------------------------------------------------
(* What the chains of a memory are. *)

\* The chain ends at x are relations of the chip there.
OwnAt(m, x) ==
    /\ OwnEnds(Len(m.wire), Srcs(m), ChipAt(m, x), HeadAt(m, x).orel0, HeadAt(m, x).oreln)
    /\ OwnEnds(Len(m.wire), Dsts(m), ChipAt(m, x), HeadAt(m, x).irel0, HeadAt(m, x).ireln)

\* The chains at x have all of them.
WholeAt(m, x) ==
    /\ Unbroken(Len(m.wire), Srcs(m), SrcNext(m), ChipAt(m, x), HeadAt(m, x).orel0, HeadAt(m, x).oreln)
    /\ Unbroken(Len(m.wire), Dsts(m), DstNext(m), ChipAt(m, x), HeadAt(m, x).irel0, HeadAt(m, x).ireln)

\* A chip that is a file or a function is in the table.
Numbered(m, c) ==
    /\ c[1] = "file" => c[2] \in DOMAIN m.file
    /\ c[1] = "func" => c[2] \in DOMAIN m.func

(* The memory is sane: every link leads home, every pointer, be it to a slot in use, a stale
   one, a file or a function, finds chain ends of the chip it finds, and the chains of files
   and functions, which do not move, are whole. *)
Sane(m) ==
    /\ Formed(m)
    /\ Homeward(Len(m.wire), Srcs(m), SrcNext(m)) /\ Homeward(Len(m.wire), Dsts(m), DstNext(m))
    /\ \A x : Points(m, x) => OwnAt(m, x)
    /\ \A x : Points(m, x) /\ x.type # "hash" => WholeAt(m, x)
    /\ \A i \in 1 .. Len(m.wire) : Numbered(m, Srcs(m)[i]) /\ Numbered(m, Dsts(m)[i])

\* A file's chip, or a function's, is found at the pointers to it only.
LEMMA ChipTells ==
    ASSUME NEW m, NEW x, Points(m, x), NEW y, Points(m, y), y.type # "hash", ChipAt(m, x) = ChipAt(m, y)
    PROVE  SameTarget(x, y)
<1>1. ChipAt(m, y) = <<y.type, y.at>>
  BY DEF ChipAt
<1>2. x.type = y.type
  BY <1>1 DEF ChipAt
<1>3. ChipAt(m, x) = <<x.type, x.at>>
  BY <1>2 DEF ChipAt
<1> QED BY <1>1, <1>3 DEF SameTarget

\* A pointer's chip is in the table.
LEMMA PointNumbered ==
    ASSUME NEW m, NEW x, Points(m, x)
    PROVE  Numbered(m, ChipAt(m, x))
<1>1. CASE x.type = "hash"
  BY <1>1 DEF Numbered, ChipAt
<1>2. CASE x.type = "file" \/ x.type = "func"
  BY <1>2 DEF Numbered, ChipAt, Points
<1> QED BY <1>1, <1>2 DEF Points

\* relationcreate keeps the memory sane, whatever slots its pointers point to.
LEMMA RelatedSane ==
    ASSUME NEW m, Sane(m), NEW sc, Points(m, sc), sc.means \in Nat,
           NEW dc, Points(m, dc), dc.means \in Nat
    PROVE  Sane(Related(m, sc, dc)) /\ Relates(m, Related(m, sc, dc), sc, dc, Len(m.wire) + 1)
<1> DEFINE k == Len(m.wire)
           n == k + 1
           m3 == Related(m, sc, dc)
           s == ChipAt(m, sc)
           d == ChipAt(m, dc)
           so == HeadAt(m, sc).oreln
           di == HeadAt(m, dc).ireln
<1>1. Formed(m3) /\ Relates(m, m3, sc, dc, n) /\ n \in Nat /\ k \in Nat
  <2>1. Formed(m)
    BY DEF Sane
  <2>2. k \in Nat
    BY <2>1 DEF Formed, Memories
  <2> HIDE DEF m3
  <2>3. n = Len(m.wire) + 1
    OBVIOUS
  <2> HIDE DEF n
  <2> QED BY <2>1, <2>2, <2>3, RelatedIs DEF m3
<1> HIDE DEF m3
<1>2. /\ Len(m3.wire) = k + 1
      /\ Srcs(m3) = MoreOf(k, Srcs(m), s) /\ SrcNext(m3) = MoreNext(k, SrcNext(m), so)
      /\ Dsts(m3) = MoreOf(k, Dsts(m), d) /\ DstNext(m3) = MoreNext(k, DstNext(m), di)
  BY <1>1 DEF Relates, Threads
<1>3. OwnAt(m, sc) /\ OwnAt(m, dc)
  BY DEF Sane
<1>4. /\ so \in 0 .. k /\ (so # 0 => Srcs(m)[so] = s)
      /\ di \in 0 .. k /\ (di # 0 => Dsts(m)[di] = d)
  BY <1>3 DEF OwnAt, OwnEnds
<1>5. /\ DOMAIN m3.file = DOMAIN m.file /\ DOMAIN m3.func = DOMAIN m.func
      /\ \A y : Points(m3, y) <=> Points(m, y)
      /\ \A y : Points(m, y) =>
         LET h == HeadAt(m, y)
             g == HeadAt(m3, y)
         IN  /\ ChipAt(m3, y) = ChipAt(m, y)
             /\ IF SameTarget(sc, y)
                THEN g.oreln = n /\ g.orel0 = IF h.orel0 = 0 THEN n ELSE h.orel0
                ELSE g.oreln = h.oreln /\ g.orel0 = h.orel0
             /\ IF SameTarget(dc, y)
                THEN g.ireln = n /\ g.irel0 = IF h.irel0 = 0 THEN n ELSE h.irel0
                ELSE g.ireln = h.ireln /\ g.irel0 = h.irel0
  BY <1>1, Zenon DEF Relates
<1>6. SameTarget(sc, sc) /\ SameTarget(dc, dc)
  BY DEF SameTarget
<1> HIDE DEF k, s, d, so, di
<1>7. Homeward(k + 1, Srcs(m3), SrcNext(m3)) /\ Homeward(k + 1, Dsts(m3), DstNext(m3))
  <2>1. Homeward(k, Srcs(m), SrcNext(m)) /\ Homeward(k, Dsts(m), DstNext(m))
    BY DEF Sane, k
  <2>2. Homeward(k + 1, MoreOf(k, Srcs(m), s), MoreNext(k, SrcNext(m), so))
    BY ONLY <1>1, <1>4, <2>1, HomewardOn
  <2>3. Homeward(k + 1, MoreOf(k, Dsts(m), d), MoreNext(k, DstNext(m), di))
    BY ONLY <1>1, <1>4, <2>1, HomewardOn
  <2> QED BY <1>2, <2>2, <2>3
<1>8. ASSUME NEW y, Points(m, y)
      PROVE  OwnAt(m3, y) /\ (y.type # "hash" => WholeAt(m3, y))
  <2> DEFINE h == HeadAt(m, y)
             g == HeadAt(m3, y)
             c == ChipAt(m, y)
  <2>1. /\ ChipAt(m3, y) = c
        /\ SameTarget(sc, y) => g.oreln = n /\ g.orel0 = IF h.orel0 = 0 THEN n ELSE h.orel0
        /\ ~SameTarget(sc, y) => g.oreln = h.oreln /\ g.orel0 = h.orel0
        /\ SameTarget(dc, y) => g.ireln = n /\ g.irel0 = IF h.irel0 = 0 THEN n ELSE h.irel0
        /\ ~SameTarget(dc, y) => g.ireln = h.ireln /\ g.irel0 = h.irel0
    BY <1>5, <1>8
  <2>2. /\ OwnEnds(k, Srcs(m), c, h.orel0, h.oreln) /\ OwnEnds(k, Dsts(m), c, h.irel0, h.ireln)
        /\ y.type # "hash" => /\ Unbroken(k, Srcs(m), SrcNext(m), c, h.orel0, h.oreln)
                              /\ Unbroken(k, Dsts(m), DstNext(m), c, h.irel0, h.ireln)
    <3>1. OwnAt(m, y) /\ (y.type # "hash" => WholeAt(m, y))
      BY <1>8 DEF Sane
    <3> QED BY <3>1 DEF OwnAt, WholeAt, k
  <2>3. /\ SameTarget(sc, y) => c = s /\ so = h.oreln
        /\ SameTarget(dc, y) => c = d /\ di = h.ireln
    BY SameShown DEF s, d, so, di
  <2>4. y.type # "hash" => /\ c = s => SameTarget(sc, y)
                           /\ c = d => SameTarget(dc, y)
    BY <1>8, ChipTells DEF s, d
  <2> HIDE DEF h, g, c
  <2>5. /\ OwnEnds(k + 1, MoreOf(k, Srcs(m), s), c, g.orel0, g.oreln)
        /\ y.type # "hash" =>
             Unbroken(k + 1, MoreOf(k, Srcs(m), s), MoreNext(k, SrcNext(m), so), c, g.orel0, g.oreln)
    <3>1. CASE SameTarget(sc, y)
      <4> DEFINE f2 == g.orel0
      <4>1. f2 = (IF h.orel0 = 0 THEN k + 1 ELSE h.orel0) /\ g.oreln = k + 1 /\ c = s /\ so = h.oreln
        BY <2>1, <2>3, <3>1
      <4> HIDE DEF f2
      <4>2. OwnEnds(k, Srcs(m), s, h.orel0, so)
        BY <2>2, <4>1
      <4>3. OwnEnds(k + 1, MoreOf(k, Srcs(m), s), s, f2, k + 1)
        BY ONLY <1>1, <4>1, <4>2, OwnEndsOn
      <4>4. ASSUME y.type # "hash"
            PROVE  Unbroken(k + 1, MoreOf(k, Srcs(m), s), MoreNext(k, SrcNext(m), so), s, f2, k + 1)
        <5>1. Unbroken(k, Srcs(m), SrcNext(m), s, h.orel0, so)
          BY <2>2, <4>1, <4>4
        <5> QED BY ONLY <1>1, <4>1, <4>2, <5>1, UnbrokenOn
      <4> QED BY <4>1, <4>3, <4>4 DEF f2
    <3>2. CASE ~SameTarget(sc, y)
      <4>1. g.oreln = h.oreln /\ g.orel0 = h.orel0
        BY <2>1, <3>2
      <4>2. OwnEnds(k + 1, MoreOf(k, Srcs(m), s), c, h.orel0, h.oreln)
        BY ONLY <1>1, <2>2, OwnEndsStay
      <4>3. ASSUME y.type # "hash"
            PROVE  Unbroken(k + 1, MoreOf(k, Srcs(m), s), MoreNext(k, SrcNext(m), so), c, h.orel0, h.oreln)
        <5>1. Unbroken(k, Srcs(m), SrcNext(m), c, h.orel0, h.oreln) /\ s # c
          BY <2>2, <2>4, <3>2, <4>3
        <5> QED BY ONLY <1>1, <1>4, <5>1, UnbrokenStay
      <4> QED BY <4>1, <4>2, <4>3
    <3> QED BY <3>1, <3>2
  <2>6. /\ OwnEnds(k + 1, MoreOf(k, Dsts(m), d), c, g.irel0, g.ireln)
        /\ y.type # "hash" =>
             Unbroken(k + 1, MoreOf(k, Dsts(m), d), MoreNext(k, DstNext(m), di), c, g.irel0, g.ireln)
    <3>1. CASE SameTarget(dc, y)
      <4> DEFINE f2 == g.irel0
      <4>1. f2 = (IF h.irel0 = 0 THEN k + 1 ELSE h.irel0) /\ g.ireln = k + 1 /\ c = d /\ di = h.ireln
        BY <2>1, <2>3, <3>1
      <4> HIDE DEF f2
      <4>2. OwnEnds(k, Dsts(m), d, h.irel0, di)
        BY <2>2, <4>1
      <4>3. OwnEnds(k + 1, MoreOf(k, Dsts(m), d), d, f2, k + 1)
        BY ONLY <1>1, <4>1, <4>2, OwnEndsOn
      <4>4. ASSUME y.type # "hash"
            PROVE  Unbroken(k + 1, MoreOf(k, Dsts(m), d), MoreNext(k, DstNext(m), di), d, f2, k + 1)
        <5>1. Unbroken(k, Dsts(m), DstNext(m), d, h.irel0, di)
          BY <2>2, <4>1, <4>4
        <5> QED BY ONLY <1>1, <4>1, <4>2, <5>1, UnbrokenOn
      <4> QED BY <4>1, <4>3, <4>4 DEF f2
    <3>2. CASE ~SameTarget(dc, y)
      <4>1. g.ireln = h.ireln /\ g.irel0 = h.irel0
        BY <2>1, <3>2
      <4>2. OwnEnds(k + 1, MoreOf(k, Dsts(m), d), c, h.irel0, h.ireln)
        BY ONLY <1>1, <2>2, OwnEndsStay
      <4>3. ASSUME y.type # "hash"
            PROVE  Unbroken(k + 1, MoreOf(k, Dsts(m), d), MoreNext(k, DstNext(m), di), c, h.irel0, h.ireln)
        <5>1. Unbroken(k, Dsts(m), DstNext(m), c, h.irel0, h.ireln) /\ d # c
          BY <2>2, <2>4, <3>2, <4>3
        <5> QED BY ONLY <1>1, <1>4, <5>1, UnbrokenStay
      <4> QED BY <4>1, <4>2, <4>3
    <3> QED BY <3>1, <3>2
  <2> QED BY <1>2, <2>1, <2>5, <2>6 DEF OwnAt, WholeAt, g
<1>9. ASSUME NEW i \in 1 .. k + 1  PROVE Numbered(m3, Srcs(m3)[i]) /\ Numbered(m3, Dsts(m3)[i])
  <2>1. \A c : Numbered(m3, c) <=> Numbered(m, c)
    BY <1>5 DEF Numbered
  <2>2. Numbered(m, s) /\ Numbered(m, d)
    BY PointNumbered DEF s, d
  <2>3. CASE i = k + 1
    <3>1. Srcs(m3)[i] = s /\ Dsts(m3)[i] = d
      BY <1>2, <2>3 DEF MoreOf
    <3> QED BY <2>1, <2>2, <3>1
  <2>4. CASE i # k + 1
    <3>1. i \in 1 .. k /\ Srcs(m3)[i] = Srcs(m)[i] /\ Dsts(m3)[i] = Dsts(m)[i]
      BY <1>1, <1>2, <2>4 DEF MoreOf
    <3>2. Numbered(m, Srcs(m)[i]) /\ Numbered(m, Dsts(m)[i])
      BY <3>1 DEF Sane, k
    <3> QED BY <2>1, <3>1, <3>2
  <2> QED BY <2>3, <2>4
<1>10. Sane(m3)
  <2>1. \A x : Points(m3, x) => OwnAt(m3, x)
    BY <1>5, <1>8
  <2>2. \A x : Points(m3, x) /\ x.type # "hash" => WholeAt(m3, x)
    BY <1>5, <1>8
  <2>3. \A i \in 1 .. Len(m3.wire) : Numbered(m3, Srcs(m3)[i]) /\ Numbered(m3, Dsts(m3)[i])
    BY <1>2, <1>9
  <2>4. Homeward(Len(m3.wire), Srcs(m3), SrcNext(m3)) /\ Homeward(Len(m3.wire), Dsts(m3), DstNext(m3))
    BY <1>2, <1>7
  <2> QED BY <1>1, <2>1, <2>2, <2>3, <2>4 DEF Sane
<1> QED BY <1>1, <1>10 DEF m3, k

----------------------------------------------------------------------------
(* The other things the handlers do to the memory. *)

\* A function is in file f, by a relation.
Owns(m, f, g) ==
    \E j \in 1 .. Len(m.wire) : Srcs(m)[j] = <<"file", f>> /\ Dsts(m)[j] = <<"func", g>>

\* What starts at a function was read in a file the function is in.
AllLocal(m) ==
    \A i \in 1 .. Len(m.wire) : Srcs(m)[i][1] = "func" => Owns(m, m.meant[i].during, Srcs(m)[i][2])

\* Sane still, with nothing taken back.
Later(m, m2) ==
    /\ Sane(m2)
    /\ \A x : Points(m, x) => Points(m2, x)
    /\ \A f, g : Owns(m, f, g) => Owns(m2, f, g)

SameTables(m, m2) ==
    DOMAIN m2.file = DOMAIN m.file /\ DOMAIN m2.func = DOMAIN m.func /\ Len(m2.file) = Len(m.file)

\* Later and the same tables go from step to step.
LEMMA LaterTwice ==
    ASSUME NEW a, NEW b, NEW c, Later(a, b), Later(b, c)
    PROVE  Later(a, c) /\ (SameTables(a, b) /\ SameTables(b, c) => SameTables(a, c))
BY Zenon DEF Later, SameTables

\* relationcreate.
LEMMA RelatedLater ==
    ASSUME NEW m, Sane(m), NEW sc, Points(m, sc), sc.means \in Nat,
           NEW dc, Points(m, dc), dc.means \in Nat
    PROVE  /\ Later(m, Related(m, sc, dc)) /\ SameTables(m, Related(m, sc, dc))
           /\ sc.type # "func" \/ Owns(m, Len(m.file), sc.at) =>
                (AllLocal(m) => AllLocal(Related(m, sc, dc)))
           /\ sc.type = "file" /\ dc.type = "func" => Owns(Related(m, sc, dc), sc.at, dc.at)
<1> DEFINE k == Len(m.wire)
           m3 == Related(m, sc, dc)
           s == ChipAt(m, sc)
           d == ChipAt(m, dc)
<1>1. Sane(m3) /\ Relates(m, m3, sc, dc, k + 1)
  BY RelatedSane
<1>2. k \in Nat
  BY DEF Sane, Formed, Memories
<1> HIDE DEF m3
<1>3. /\ Len(m3.wire) = k + 1
      /\ \A i \in 1 .. k : Srcs(m3)[i] = Srcs(m)[i] /\ Dsts(m3)[i] = Dsts(m)[i]
      /\ Srcs(m3)[k + 1] = s /\ Dsts(m3)[k + 1] = d
  <2>1. Len(m3.wire) = k + 1 /\ Srcs(m3) = MoreOf(k, Srcs(m), s) /\ Dsts(m3) = MoreOf(k, Dsts(m), d)
    BY <1>1 DEF Relates, Threads
  <2>2. \A i \in 1 .. k : i \in 1 .. k + 1 /\ i # k + 1
    BY <1>2
  <2>3. k + 1 \in 1 .. k + 1
    BY <1>2
  <2> HIDE DEF k, s, d
  <2> QED BY <2>1, <2>2, <2>3 DEF MoreOf
<1>4. /\ \A x : Points(m, x) => Points(m3, x)
      /\ SameTables(m, m3)
      /\ m3.meant[k + 1].during = Len(m.file) /\ \A i \in 1 .. k : m3.meant[i] = m.meant[i]
  <2>1. (k + 1) - 1 = k
    BY <1>2
  <2> QED BY <1>1, <2>1 DEF Relates, SameTables
<1> HIDE DEF k
<1>5. \A i \in 1 .. k + 1 : i \in 1 .. k \/ i = k + 1
  BY <1>2
<1>6. \A i \in 1 .. k : i \in 1 .. k + 1
  BY <1>2
<1>7. \A f, g : Owns(m, f, g) => Owns(m3, f, g)
  BY <1>3, <1>6 DEF Owns, k
<1>8. ASSUME sc.type # "func" \/ Owns(m, Len(m.file), sc.at), AllLocal(m)
      PROVE  AllLocal(m3)
  <2> SUFFICES ASSUME NEW i \in 1 .. k + 1, Srcs(m3)[i][1] = "func"
               PROVE  Owns(m3, m3.meant[i].during, Srcs(m3)[i][2])
    BY <1>3 DEF AllLocal
  <2>1. CASE i \in 1 .. k
    <3>1. Srcs(m3)[i] = Srcs(m)[i] /\ m3.meant[i] = m.meant[i]
      BY <1>3, <1>4, <2>1
    <3>2. Owns(m, m.meant[i].during, Srcs(m)[i][2])
      BY <1>8, <2>1, <3>1 DEF AllLocal, k
    <3> QED BY <1>7, <3>1, <3>2
  <2>2. CASE i = k + 1
    <3>1. Srcs(m3)[i] = s /\ m3.meant[i].during = Len(m.file)
      BY <1>3, <1>4, <2>2
    <3>2. sc.type = "func" /\ s[2] = sc.at
      BY <3>1 DEF s, ChipAt
    <3> QED BY <1>7, <1>8, <3>1, <3>2
  <2> QED BY <1>5, <2>1, <2>2
<1>9. sc.type = "file" /\ dc.type = "func" => Owns(m3, sc.at, dc.at)
  <2>1. sc.type = "file" /\ dc.type = "func" => s = <<"file", sc.at>> /\ d = <<"func", dc.at>>
    BY DEF ChipAt
  <2>2. k + 1 \in 1 .. k + 1
    BY <1>2
  <2> HIDE DEF s, d
  <2> QED BY <1>3, <2>1, <2>2 DEF Owns
<1>10. Later(m, m3)
  BY <1>1, <1>4, <1>7 DEF Later
<1> QED BY <1>4, <1>8, <1>9, <1>10 DEF m3

\* A chip with no relations.
LEMMA NoneOwn ==
    ASSUME NEW n \in Nat, NEW of, NEW c
    PROVE  OwnEnds(n, of, c, NoHead.orel0, NoHead.oreln) /\ OwnEnds(n, of, c, NoHead.irel0, NoHead.ireln)
BY DEF OwnEnds, NoHead

\* strhash_write: every slot holds a string with its own chain ends still.
LEMMA StrWriteLater ==
    ASSUME NEW m, Sane(m), NEW s \in Nat \ {0}, NEW w, w = StrWrite(m, s)
    PROVE  /\ Later(m, w.mem) /\ SameTables(m, w.mem) /\ (AllLocal(m) => AllLocal(w.mem))
           /\ Points(w.mem, w.ptr) /\ w.ptr.type = "hash" /\ w.ptr.means \in Nat
<1> DEFINE d == [hash |-> s, body |-> NoHead]
           v == Written(m.tree, d)
           m2 == w.mem
<1>1. /\ m = [tree |-> m.tree, wire |-> m.wire, file |-> m.file, func |-> m.func, meant |-> m.meant]
      /\ m.tree \in Trees(Heads) /\ m.wire \in Seq(RelSet) /\ m.file \in Seq(Heads)
      /\ m.func \in Seq(Heads) /\ m.meant \in Seq(IntentSet)
      /\ Fine(m.tree, Heads) /\ Len(m.meant) = Len(m.wire) /\ Len(m.wire) \in Nat
  BY DEF Sane, Formed, Memories
<1>2. d \in LeafSlot(Heads) /\ d.hash # 0 /\ NoBody \in Heads /\ d.body = NoHead
  BY NoHeadIs DEF LeafSlot
<1>3. /\ Fine(v.tree, Heads) /\ Places(m.tree) \subseteq Places(v.tree) /\ v.at \in Places(v.tree)
      /\ NothingNew(m.tree, v.tree, d)
  <2> HIDE DEF d
  <2> QED BY <1>1, <1>2, WrittenPlaces
<1>4. m2 = [m EXCEPT !.tree = v.tree] /\ w.ptr = AtSlot(s, v.at)
  BY DEF StrWrite, Held
<1> HIDE DEF v, d, m2
<1>5. m2 = [tree |-> v.tree, wire |-> m.wire, file |-> m.file, func |-> m.func, meant |-> m.meant]
  BY <1>1, <1>4
<1>6. /\ m2.tree = v.tree /\ m2.wire = m.wire /\ m2.file = m.file /\ m2.func = m.func
      /\ m2.meant = m.meant
  BY <1>5
<1>7. Formed(m2)
  <2>1. v.tree \in Trees(Heads)
    BY <1>3, FineTree
  <2> QED BY <1>1, <1>3, <1>5, <2>1 DEF Formed, Memories
<1>8. /\ \A x : Points(m, x) => Points(m2, x)
      /\ \A x : Points(m2, x) => \/ x.type = "hash" /\ x.at \in Places(v.tree)
                                 \/ x.type # "hash" /\ Points(m, x)
  BY <1>3, <1>6 DEF Points
<1>9. /\ Srcs(m2) = Srcs(m) /\ Dsts(m2) = Dsts(m) /\ SrcNext(m2) = SrcNext(m) /\ DstNext(m2) = DstNext(m)
  BY <1>6 DEF Srcs, Dsts, SrcNext, DstNext
<1>10. ASSUME NEW x, Points(m2, x)
       PROVE  OwnAt(m2, x) /\ (x.type # "hash" => WholeAt(m2, x))
  <2>1. CASE x.type # "hash"
    <3>1. Points(m, x)
      BY <1>8, <1>10, <2>1
    <3>2. ChipAt(m2, x) = ChipAt(m, x) /\ HeadAt(m2, x) = HeadAt(m, x)
      <4>1. x.type = "file" \/ x.type = "func"
        BY <2>1, <3>1 DEF Points
      <4> QED BY <1>6, <4>1 DEF ChipAt, HeadAt
    <3>3. OwnAt(m, x) /\ WholeAt(m, x)
      BY <2>1, <3>1 DEF Sane
    <3> QED BY <1>6, <1>9, <3>2, <3>3 DEF OwnAt, WholeAt
  <2>2. CASE x.type = "hash"
    <3>1. x.at \in Places(v.tree)
      BY <1>8, <1>10, <2>2
    <3>2. HeadAt(m2, x) = Slot(v.tree, x.at).body /\ ChipAt(m2, x) = <<"hash", Slot(v.tree, x.at).hash>>
      BY <1>6, <2>2 DEF HeadAt, ChipAt
    <3>3. \/ Slot(v.tree, x.at) = d
          \/ Slot(v.tree, x.at) = [hash |-> 0, body |-> NoBody]
          \/ \E b \in Places(m.tree) : Slot(v.tree, x.at) = Slot(m.tree, b)
      BY <1>3, <3>1 DEF NothingNew
    <3>4. CASE Slot(v.tree, x.at).body = NoHead
      <4>1. HeadAt(m2, x) = NoHead
        BY <3>2, <3>4
      <4> QED BY <1>1, <1>6, <2>2, <4>1, NoneOwn DEF OwnAt
    <3>5. CASE \E b \in Places(m.tree) : Slot(v.tree, x.at) = Slot(m.tree, b)
      <4>1. PICK b \in Places(m.tree) : Slot(v.tree, x.at) = Slot(m.tree, b)
        BY <3>5
      <4> DEFINE y == AtSlot(0, b)
      <4>2. y.type = "hash" /\ y.at = b
        BY DEF AtSlot
      <4> HIDE DEF y
      <4>3. Points(m, y)
        BY <4>2 DEF Points
      <4>4. HeadAt(m2, x) = HeadAt(m, y) /\ ChipAt(m2, x) = ChipAt(m, y)
        BY <3>2, <4>1, <4>2 DEF HeadAt, ChipAt
      <4>5. OwnAt(m, y)
        BY <4>3 DEF Sane
      <4> QED BY <1>6, <1>9, <2>2, <4>4, <4>5 DEF OwnAt
    <3> QED BY <1>2, <3>3, <3>4, <3>5, NoHeadIs
  <2> QED BY <2>1, <2>2
<1>11. \A i \in 1 .. Len(m2.wire) : Numbered(m2, Srcs(m2)[i]) /\ Numbered(m2, Dsts(m2)[i])
  BY <1>6, <1>9 DEF Sane, Numbered
<1>12. Homeward(Len(m2.wire), Srcs(m2), SrcNext(m2)) /\ Homeward(Len(m2.wire), Dsts(m2), DstNext(m2))
  BY <1>6, <1>9 DEF Sane
<1>13. Sane(m2)
  BY <1>7, <1>10, <1>11, <1>12 DEF Sane
<1>14. \A f, g : Owns(m, f, g) <=> Owns(m2, f, g)
  BY <1>6, <1>9 DEF Owns
<1>15. Points(m2, w.ptr) /\ w.ptr.type = "hash" /\ w.ptr.means \in Nat
  BY <1>3, <1>4, <1>6 DEF Points, AtSlot
<1>16. AllLocal(m) => AllLocal(m2)
  BY <1>6, <1>9, <1>14 DEF AllLocal
<1>17. SameTables(m, m2) /\ Later(m, m2)
  BY <1>6, <1>8, <1>13, <1>14 DEF SameTables, Later
<1> QED BY <1>15, <1>16, <1>17 DEF m2

\* A new file or function, with no relations.
LEMMA NewEntry ==
    ASSUME NEW m, Sane(m), NEW file, NEW func, NEW m2,
           m2 = [tree |-> m.tree, wire |-> m.wire, file |-> file, func |-> func, meant |-> m.meant],
           \/ file = Append(m.file, NoHead) /\ func = m.func
           \/ file = m.file /\ func = Append(m.func, NoHead)
    PROVE  Later(m, m2) /\ (AllLocal(m) => AllLocal(m2))
<1>1. /\ m.tree \in Trees(Heads) /\ m.wire \in Seq(RelSet) /\ m.file \in Seq(Heads)
      /\ m.func \in Seq(Heads) /\ m.meant \in Seq(IntentSet)
      /\ Fine(m.tree, Heads) /\ Len(m.meant) = Len(m.wire) /\ Len(m.wire) \in Nat
  BY DEF Sane, Formed, Memories
<1>2. ASSUME NEW s \in Seq(Heads)
      PROVE  /\ Append(s, NoHead) \in Seq(Heads) /\ DOMAIN s \subseteq DOMAIN Append(s, NoHead)
             /\ \A k \in DOMAIN s : Append(s, NoHead)[k] = s[k]
             /\ \A k \in DOMAIN Append(s, NoHead) : k \in DOMAIN s \/ Append(s, NoHead)[k] = NoHead
  BY NoHeadIs
<1>3. /\ file \in Seq(Heads) /\ func \in Seq(Heads)
      /\ DOMAIN m.file \subseteq DOMAIN file /\ DOMAIN m.func \subseteq DOMAIN func
      /\ \A k \in DOMAIN m.file : file[k] = m.file[k]
      /\ \A k \in DOMAIN m.func : func[k] = m.func[k]
      /\ \A k \in DOMAIN file : k \in DOMAIN m.file \/ file[k] = NoHead
      /\ \A k \in DOMAIN func : k \in DOMAIN m.func \/ func[k] = NoHead
  <2> DEFINE Longer(s, t) == /\ t \in Seq(Heads) /\ DOMAIN s \subseteq DOMAIN t
                             /\ \A k \in DOMAIN s : t[k] = s[k]
                             /\ \A k \in DOMAIN t : k \in DOMAIN s \/ t[k] = NoHead
             old == m.file
             was == m.func
  <2>1. \A s \in Seq(Heads) : Longer(s, s) /\ Longer(s, Append(s, NoHead))
    BY <1>2
  <2>2. old \in Seq(Heads) /\ was \in Seq(Heads)
    BY <1>1
  <2>3. \/ file = Append(old, NoHead) /\ func = was
        \/ file = old /\ func = Append(was, NoHead)
    OBVIOUS
  <2> HIDE DEF Longer, old, was
  <2>4. Longer(old, file) /\ Longer(was, func)
    BY ONLY <2>1, <2>2, <2>3
  <2> QED BY ONLY <2>4 DEF Longer, old, was
<1>4. /\ m2.tree = m.tree /\ m2.wire = m.wire /\ m2.file = file /\ m2.func = func
      /\ m2.meant = m.meant
  OBVIOUS
<1>5. Formed(m2)
  BY <1>1, <1>3 DEF Formed, Memories
<1>6. \A x : Points(m, x) => /\ Points(m2, x) /\ ChipAt(m2, x) = ChipAt(m, x)
                             /\ HeadAt(m2, x) = HeadAt(m, x)
  BY <1>3, <1>4 DEF Points, ChipAt, HeadAt
<1>7. ASSUME NEW x, Points(m2, x), ~Points(m, x)
      PROVE  /\ HeadAt(m2, x) = NoHead /\ ChipAt(m2, x) = <<x.type, x.at>>
             /\ ~Numbered(m, <<x.type, x.at>>)
  BY <1>3, <1>4, <1>7 DEF Points, ChipAt, HeadAt, Numbered
<1>8. Srcs(m2) = Srcs(m) /\ Dsts(m2) = Dsts(m) /\ SrcNext(m2) = SrcNext(m) /\ DstNext(m2) = DstNext(m)
  BY <1>4 DEF Srcs, Dsts, SrcNext, DstNext
<1>9. ASSUME NEW x, Points(m2, x)
      PROVE  OwnAt(m2, x) /\ (x.type # "hash" => WholeAt(m2, x))
  <2>1. CASE Points(m, x)
    <3>1. OwnAt(m, x) /\ (x.type # "hash" => WholeAt(m, x))
      BY <2>1 DEF Sane
    <3>2. ChipAt(m2, x) = ChipAt(m, x) /\ HeadAt(m2, x) = HeadAt(m, x)
      BY <1>6, <2>1
    <3> QED BY <1>4, <1>8, <3>1, <3>2 DEF OwnAt, WholeAt
  <2>2. CASE ~Points(m, x)
    <3> DEFINE c == ChipAt(m2, x)
               n == Len(m.wire)
    <3>1. HeadAt(m2, x) = NoHead /\ ~Numbered(m, c)
      BY <1>7, <1>9, <2>2
    <3>2. \A i \in 1 .. n : Srcs(m)[i] # c /\ Dsts(m)[i] # c
      BY <3>1 DEF Sane
    <3>3. n \in Nat /\ m2.wire = m.wire
      BY <1>1, <1>4
    <3>4. OwnAt(m2, x)
      BY <3>1, <3>3, NoneOwn DEF OwnAt
    <3>5. WholeAt(m2, x)
      BY <1>8, <3>2, <3>3 DEF WholeAt, Unbroken
    <3> QED BY <3>4, <3>5
  <2> QED BY <2>1, <2>2
<1>10. \A i \in 1 .. Len(m2.wire) : Numbered(m2, Srcs(m2)[i]) /\ Numbered(m2, Dsts(m2)[i])
  <2>1. \A c : Numbered(m, c) => Numbered(m2, c)
    BY <1>3, <1>4 DEF Numbered
  <2> QED BY <1>4, <1>8, <2>1 DEF Sane
<1>11. Homeward(Len(m2.wire), Srcs(m2), SrcNext(m2)) /\ Homeward(Len(m2.wire), Dsts(m2), DstNext(m2))
  BY <1>4, <1>8 DEF Sane
<1>12. Sane(m2)
  BY <1>5, <1>9, <1>10, <1>11 DEF Sane
<1>13. \A f, g : Owns(m, f, g) <=> Owns(m2, f, g)
  BY <1>4, <1>8 DEF Owns
<1>14. AllLocal(m) => AllLocal(m2)
  BY <1>4, <1>8, <1>13 DEF AllLocal
<1> QED BY <1>6, <1>12, <1>13, <1>14 DEF Later

\* A new file is at the end of the table.
LEMMA FiledLater ==
    ASSUME NEW m, Sane(m)
    PROVE  /\ Later(m, Filed(m)) /\ (AllLocal(m) => AllLocal(Filed(m)))
           /\ Len(Filed(m).file) = Len(m.file) + 1 /\ DOMAIN Filed(m).func = DOMAIN m.func
           /\ Filed(m).tree = m.tree /\ Len(m.file) \in Nat
           /\ Len(m.file) + 1 \in DOMAIN Filed(m).file
<1> DEFINE file == Append(m.file, NoHead)
<1>1. /\ m = [tree |-> m.tree, wire |-> m.wire, file |-> m.file, func |-> m.func, meant |-> m.meant]
      /\ m.file \in Seq(Heads)
  BY DEF Sane, Formed, Memories
<1>2. Len(file) = Len(m.file) + 1 /\ Len(m.file) \in Nat /\ DOMAIN file = 1 .. Len(m.file) + 1
  BY <1>1
<1>3. Filed(m) = [m EXCEPT !.file = file]
  BY DEF Filed
<1>4. file = Append(m.file, NoHead)
  OBVIOUS
<1> HIDE DEF file
<1>5. Filed(m) = [tree |-> m.tree, wire |-> m.wire, file |-> file, func |-> m.func, meant |-> m.meant]
  BY <1>1, <1>3
<1>6. Later(m, Filed(m)) /\ (AllLocal(m) => AllLocal(Filed(m)))
  BY <1>4, <1>5, NewEntry
<1> QED BY <1>2, <1>5, <1>6

\* So is a new function.
LEMMA FunctionLater ==
    ASSUME NEW m, Sane(m), NEW m2, m2 = [m EXCEPT !.func = Append(@, NoHead)]
    PROVE  /\ Later(m, m2) /\ (AllLocal(m) => AllLocal(m2))
           /\ DOMAIN m2.file = DOMAIN m.file /\ Len(m2.file) = Len(m.file)
           /\ Len(m.func) + 1 \in DOMAIN m2.func /\ Len(m.func) + 1 \in Nat \ {0}
<1> DEFINE func == Append(m.func, NoHead)
<1>1. /\ m = [tree |-> m.tree, wire |-> m.wire, file |-> m.file, func |-> m.func, meant |-> m.meant]
      /\ m.func \in Seq(Heads)
  BY DEF Sane, Formed, Memories
<1>2. Len(m.func) \in Nat /\ DOMAIN func = 1 .. Len(m.func) + 1
  BY <1>1
<1>3. m2 = [m EXCEPT !.func = func]
  OBVIOUS
<1>4. func = Append(m.func, NoHead)
  OBVIOUS
<1> HIDE DEF func
<1>5. m2 = [tree |-> m.tree, wire |-> m.wire, file |-> m.file, func |-> func, meant |-> m.meant]
  BY <1>1, <1>3
<1>6. Later(m, m2) /\ (AllLocal(m) => AllLocal(m2))
  BY <1>4, <1>5, NewEntry
<1> QED BY <1>2, <1>5, <1>6

----------------------------------------------------------------------------
(* The learner. *)

(* The invariant: the memory is sane, and the numbers the handlers keep between calls are of
   a file and a function in the tables. *)
LearnInv ==
    /\ Sane(db)
    /\ infunc \in Nat
    /\ funcobj = 0 \/ funcobj \in DOMAIN db.func
    /\ pc = "parse" => fileobj \in DOMAIN db.file /\ fileobj = Len(db.file)

(* What holds besides when no name is skipped: inside a body, the function recorded last is
   one of the file being read, and whatever starts at a function is of that function's file. *)
LocalInv ==
    /\ AllLocal(db)
    /\ pc = "parse" /\ infunc > 0 => funcobj # 0 /\ Owns(db, fileobj, funcobj)

\* The words and paths are hashes.
LEMMA WordsAre ==
    /\ \A p \in Path : p \in Nat \ {0} /\ (NameOf[p] # 0 => NameOf[p] \in Nat \ {0})
    /\ \A w \in Word : w \in Nat \ {0}
BY Words, NameOfType

\* Pointers to files and functions.
LEMMA PointersAre ==
    ASSUME NEW m, NEW n
    PROVE  /\ Points(m, AtFile(n)) <=> n \in DOMAIN m.file
           /\ Points(m, AtFunc(n)) <=> n \in DOMAIN m.func
           /\ AtFile(n).type = "file" /\ AtFile(n).at = n /\ AtFile(n).means = n
           /\ AtFunc(n).type = "func" /\ AtFunc(n).at = n /\ AtFunc(n).means = n
BY DEF Points, AtFile, AtFunc

\* The numbers of files and functions.
LEMMA TablesNumbered ==
    ASSUME NEW m, Sane(m)
    PROVE  /\ \A n \in DOMAIN m.file : n \in Nat \ {0}
           /\ \A n \in DOMAIN m.func : n \in Nat \ {0}
<1> DEFINE f == m.file
           g == m.func
<1>1. f \in Seq(Heads) /\ g \in Seq(Heads)
  BY DEF Sane, Formed, Memories
<1> HIDE DEF f, g
<1>2. DOMAIN f = 1 .. Len(f) /\ DOMAIN g = 1 .. Len(g) /\ Len(f) \in Nat /\ Len(g) \in Nat
  BY <1>1
<1>3. (\A n \in DOMAIN f : n \in Nat \ {0}) /\ (\A n \in DOMAIN g : n \in Nat \ {0})
  BY <1>2
<1> QED BY <1>3 DEF f, g

\* A path is related to its name.
LEMMA PathLater ==
    ASSUME NEW m, Sane(m), NEW p \in Path
    PROVE  /\ Later(m, connect_path_to_name(m, p)) /\ SameTables(m, connect_path_to_name(m, p))
           /\ (AllLocal(m) => AllLocal(connect_path_to_name(m, p)))
<1> DEFINE c == connect_path_to_name(m, p)
           a == StrWrite(m, p)
           b == StrWrite(a.mem, NameOf[p])
           r == Related(b.mem, a.ptr, b.ptr)
<1>1. CASE NameOf[p] = 0
  <2>1. c = m
    BY <1>1 DEF connect_path_to_name
  <2> QED BY <2>1 DEF Later, SameTables
<1>2. CASE NameOf[p] # 0
  <2>1. c = r
    BY <1>2 DEF connect_path_to_name, Named, Joined
  <2>2. /\ Later(m, a.mem) /\ SameTables(m, a.mem) /\ (AllLocal(m) => AllLocal(a.mem))
        /\ Points(a.mem, a.ptr) /\ a.ptr.type = "hash" /\ a.ptr.means \in Nat
    BY WordsAre, StrWriteLater
  <2> HIDE DEF a, c
  <2>3. /\ Later(a.mem, b.mem) /\ SameTables(a.mem, b.mem) /\ (AllLocal(a.mem) => AllLocal(b.mem))
        /\ Points(b.mem, b.ptr) /\ b.ptr.type = "hash" /\ b.ptr.means \in Nat
    <3>1. Sane(a.mem) /\ NameOf[p] \in Nat \ {0}
      BY <1>2, <2>2, WordsAre DEF Later
    <3> QED BY <3>1, StrWriteLater
  <2> HIDE DEF b
  <2>4. Points(b.mem, a.ptr) /\ Sane(b.mem)
    BY <2>2, <2>3 DEF Later
  <2>5. Later(b.mem, r) /\ SameTables(b.mem, r) /\ (AllLocal(b.mem) => AllLocal(r))
    <3>1. /\ Later(b.mem, Related(b.mem, a.ptr, b.ptr)) /\ SameTables(b.mem, Related(b.mem, a.ptr, b.ptr))
          /\ a.ptr.type # "func" \/ Owns(b.mem, Len(b.mem.file), a.ptr.at) =>
                (AllLocal(b.mem) => AllLocal(Related(b.mem, a.ptr, b.ptr)))
      BY <2>2, <2>3, <2>4, RelatedLater
    <3> QED BY <2>2, <3>1
  <2> HIDE DEF r
  <2>6. Later(m, b.mem) /\ SameTables(m, b.mem)
    BY <2>2, <2>3, LaterTwice
  <2>7. Later(m, r) /\ SameTables(m, r)
    BY <2>5, <2>6, LaterTwice
  <2>8. AllLocal(m) => AllLocal(r)
    BY <2>2, <2>3, <2>5
  <2> QED BY <2>1, <2>7, <2>8 DEF c
<1> QED BY <1>1, <1>2

\* What learn_one does to every path.
LEMMA KnownLater ==
    ASSUME Sane(db), NEW p \in Path, NEW w, w = Known(p)
    PROVE  /\ Later(db, w.mem) /\ SameTables(db, w.mem) /\ (AllLocal(db) => AllLocal(w.mem))
           /\ Points(w.mem, w.ptr) /\ w.ptr.type = "hash" /\ w.ptr.means \in Nat
<1> DEFINE c == connect_path_to_name(db, p)
<1>1. Later(db, c) /\ SameTables(db, c) /\ (AllLocal(db) => AllLocal(c)) /\ w = StrWrite(c, p)
  BY PathLater DEF Known
<1> HIDE DEF c
<1>2. Sane(c) /\ p \in Nat \ {0}
  BY <1>1, WordsAre DEF Later
<1>3. /\ Later(c, w.mem) /\ SameTables(c, w.mem) /\ (AllLocal(c) => AllLocal(w.mem))
      /\ Points(w.mem, w.ptr) /\ w.ptr.type = "hash" /\ w.ptr.means \in Nat
  BY <1>1, <1>2, StrWriteLater
<1>4. Later(db, w.mem) /\ SameTables(db, w.mem)
  BY <1>1, <1>3, LaterTwice
<1> QED BY <1>1, <1>3, <1>4

\* A path that is not parsed.
LEMMA SkippedStep ==
    ASSUME LearnInv, NEW p \in Path, learn_skipped(p)
    PROVE  LearnInv' /\ (LocalInv => LocalInv')
<1>1. /\ Later(db, db') /\ SameTables(db, db') /\ (AllLocal(db) => AllLocal(db'))
  BY KnownLater DEF LearnInv, learn_skipped
<1>2. pc' = "next" /\ UNCHANGED <<fileobj, funcobj, infunc>>
  BY DEF learn_skipped
<1>3. LearnInv'
  BY <1>1, <1>2 DEF LearnInv, Later, SameTables
<1> QED BY <1>1, <1>2, <1>3 DEF LocalInv

\* A C file: its entry, and its relation to whatever string the hash read back finds.
LEMMA OpenedLater ==
    ASSUME NEW w, Sane(w.mem), Points(w.mem, w.ptr), w.ptr.type = "hash", NEW p \in Path,
           NEW m, m = Opened(w, p)
    PROVE  /\ Later(w.mem, m) /\ (AllLocal(w.mem) => AllLocal(m))
           /\ Len(m.file) = Len(w.mem.file) + 1 /\ DOMAIN m.func = DOMAIN w.mem.func
           /\ Len(w.mem.file) + 1 \in DOMAIN m.file
<1> DEFINE f == Filed(w.mem)
           h == ChipAt(w.mem, w.ptr)[2]
           at == Search(w.mem.tree, h)
           sc == AtSlot(p, at)
           dc == AtFile(Len(f.file))
           r == Related(f, sc, dc)
<1>1. /\ Later(w.mem, f) /\ (AllLocal(w.mem) => AllLocal(f))
      /\ Len(f.file) = Len(w.mem.file) + 1 /\ DOMAIN f.func = DOMAIN w.mem.func
      /\ f.tree = w.mem.tree /\ Len(w.mem.file) \in Nat
      /\ Len(w.mem.file) + 1 \in DOMAIN f.file
  BY FiledLater
<1>2. h \in Nat
  <2>1. w.ptr.at \in Places(w.mem.tree) /\ Fine(w.mem.tree, Heads)
    BY DEF Points, Sane, Formed
  <2>2. Slot(w.mem.tree, w.ptr.at).hash \in Nat
    BY <2>1, PlaceHolds
  <2> QED BY <2>2 DEF ChipAt
<1>3. m = IF at = <<0, 0>> THEN f ELSE r
  BY DEF Opened, connect_file_to_hash, Found
<1> HIDE DEF f, h
<1>4. CASE at = <<0, 0>>
  BY <1>1, <1>3, <1>4
<1>5. CASE at # <<0, 0>>
  <2>1. at \in Places(f.tree)
    <3>1. Fine(w.mem.tree, Heads)
      BY DEF Sane, Formed
    <3> QED BY <1>1, <1>2, <1>5, <3>1, SearchPlaces
  <2>2. Points(f, sc) /\ sc.type = "hash" /\ sc.means \in Nat
    BY <2>1, WordsAre DEF Points, AtSlot
  <2>3. Points(f, dc) /\ dc.means \in Nat
    BY <1>1, PointersAre
  <2> HIDE DEF sc, dc, at
  <2>4. Sane(f)
    BY <1>1 DEF Later
  <2>5. /\ Later(f, r) /\ SameTables(f, r)
        /\ sc.type # "func" \/ Owns(f, Len(f.file), sc.at) => (AllLocal(f) => AllLocal(r))
    BY <2>2, <2>3, <2>4, RelatedLater
  <2>6. Later(w.mem, r)
    BY <1>1, <2>5, LaterTwice
  <2>7. m = r
    BY <1>3, <1>5
  <2> QED BY <1>1, <2>2, <2>5, <2>6, <2>7 DEF SameTables
<1> QED BY <1>4, <1>5

\* learn_one on a C file.
LEMMA ParsedStep ==
    ASSUME LearnInv, NEW p \in Path, learn_parsed(p)
    PROVE  LearnInv' /\ (LocalInv => LocalInv')
<1> DEFINE w == Known(p)
<1>1. /\ Later(db, w.mem) /\ SameTables(db, w.mem) /\ (AllLocal(db) => AllLocal(w.mem))
      /\ Points(w.mem, w.ptr) /\ w.ptr.type = "hash" /\ w.ptr.means \in Nat
  BY KnownLater DEF LearnInv
<1>2. db' = Opened(w, p) /\ fileobj' = Len(db.file) + 1 /\ infunc' = 0 /\ funcobj' = funcobj
  BY DEF learn_parsed, c_start
<1> HIDE DEF w
<1>3. Sane(w.mem)
  BY <1>1 DEF Later
<1>4. /\ Later(w.mem, db') /\ (AllLocal(w.mem) => AllLocal(db'))
      /\ Len(db'.file) = Len(w.mem.file) + 1 /\ DOMAIN db'.func = DOMAIN w.mem.func
      /\ Len(w.mem.file) + 1 \in DOMAIN db'.file
  BY <1>1, <1>2, <1>3, OpenedLater
<1>5. Len(w.mem.file) = Len(db.file) /\ DOMAIN w.mem.func = DOMAIN db.func
  BY <1>1 DEF SameTables
<1>6. LearnInv'
  BY <1>2, <1>4, <1>5 DEF LearnInv, Later
<1>7. LocalInv => LocalInv'
  <2>1. ~(infunc' > 0)
    BY <1>2
  <2> QED BY <1>1, <1>4, <2>1 DEF LocalInv
<1> QED BY <1>6, <1>7

\* A function that is recorded.
LEMMA FunctionIs ==
    ASSUME LearnInv, pc = "parse", NEW f \in Word, NEW w, w = StrWrite(db, f),
           NEW n, n = Len(db.func) + 1, NEW m, m = connect_func_to_file(w, n)
    PROVE  /\ Later(db, m) /\ (AllLocal(db) => AllLocal(m))
           /\ DOMAIN m.file = DOMAIN db.file /\ Len(m.file) = Len(db.file)
           /\ n \in DOMAIN m.func /\ n # 0 /\ Owns(m, fileobj, n)
<1> DEFINE g == [w.mem EXCEPT !.func = Append(@, NoHead)]
           o == Related(g, AtFile(fileobj), AtFunc(n))
<1>1. /\ Later(db, w.mem) /\ SameTables(db, w.mem) /\ (AllLocal(db) => AllLocal(w.mem))
      /\ Points(w.mem, w.ptr) /\ w.ptr.type = "hash" /\ w.ptr.means \in Nat
  BY WordsAre, StrWriteLater DEF LearnInv
<1>2. Sane(w.mem) /\ fileobj \in DOMAIN db.file
  BY <1>1 DEF Later, LearnInv
<1>3. /\ Later(w.mem, g) /\ (AllLocal(w.mem) => AllLocal(g))
      /\ DOMAIN g.file = DOMAIN w.mem.file /\ Len(g.file) = Len(w.mem.file)
      /\ Len(w.mem.func) + 1 \in DOMAIN g.func /\ Len(w.mem.func) + 1 \in Nat \ {0}
  BY <1>2, FunctionLater
<1>4. n = Len(w.mem.func) + 1
  <2>1. w.mem.func = db.func
    <3>1. w.mem = [db EXCEPT !.tree = Written(db.tree, [hash |-> f, body |-> NoHead]).tree]
      BY DEF StrWrite, Held
    <3>2. db = [tree |-> db.tree, wire |-> db.wire, file |-> db.file, func |-> db.func, meant |-> db.meant]
      BY DEF LearnInv, Sane, Formed, Memories
    <3> QED BY <3>1, <3>2
  <2> QED BY <2>1
<1>5. m = Related(o, w.ptr, AtFunc(n))
  BY DEF connect_func_to_file, Owned
<1> HIDE DEF g
<1>6. /\ Points(g, AtFile(fileobj)) /\ AtFile(fileobj).means \in Nat /\ AtFile(fileobj).type = "file"
      /\ AtFile(fileobj).at = fileobj
      /\ Points(g, AtFunc(n)) /\ AtFunc(n).means \in Nat /\ AtFunc(n).type = "func" /\ AtFunc(n).at = n
      /\ Sane(g)
  <2>1. Sane(g)
    BY <1>3 DEF Later
  <2>2. fileobj \in DOMAIN g.file /\ n \in DOMAIN g.func
    BY <1>1, <1>2, <1>3, <1>4 DEF SameTables
  <2>3. fileobj \in Nat /\ n \in Nat
    BY <2>1, <2>2, TablesNumbered
  <2> QED BY <2>1, <2>2, <2>3, PointersAre
<1>7. /\ Later(g, o) /\ SameTables(g, o) /\ (AllLocal(g) => AllLocal(o)) /\ Owns(o, fileobj, n)
  <2> DEFINE sc == AtFile(fileobj)
             dc == AtFunc(n)
  <2>1. /\ Points(g, sc) /\ sc.means \in Nat /\ sc.type = "file" /\ sc.at = fileobj
        /\ Points(g, dc) /\ dc.means \in Nat /\ dc.type = "func" /\ dc.at = n
    BY <1>6
  <2>2. o = Related(g, sc, dc)
    OBVIOUS
  <2> HIDE DEF sc, dc, o
  <2>3. /\ Later(g, o) /\ SameTables(g, o)
        /\ sc.type # "func" \/ Owns(g, Len(g.file), sc.at) => (AllLocal(g) => AllLocal(o))
        /\ sc.type = "file" /\ dc.type = "func" => Owns(o, sc.at, dc.at)
    BY <1>6, <2>1, <2>2, RelatedLater
  <2> QED BY <2>1, <2>3
<1> HIDE DEF o
<1>8. Points(o, w.ptr) /\ Points(o, AtFunc(n)) /\ Sane(o)
  BY <1>1, <1>3, <1>6, <1>7 DEF Later
<1>9. Later(o, m) /\ SameTables(o, m) /\ (AllLocal(o) => AllLocal(m))
  <2> DEFINE dc == AtFunc(n)
  <2>1. Points(o, dc) /\ dc.means \in Nat
    BY <1>6, <1>8
  <2>2. m = Related(o, w.ptr, dc)
    BY <1>5
  <2> HIDE DEF dc
  <2>3. /\ Later(o, m) /\ SameTables(o, m)
        /\ w.ptr.type # "func" \/ Owns(o, Len(o.file), w.ptr.at) => (AllLocal(o) => AllLocal(m))
    BY <1>1, <1>8, <2>1, <2>2, RelatedLater
  <2> QED BY <1>1, <2>3
<1>10. Later(db, m)
  <2>1. Later(db, g)
    BY <1>1, <1>3, LaterTwice
  <2>2. Later(db, o)
    BY <1>7, <2>1, LaterTwice
  <2> QED BY <1>9, <2>2, LaterTwice
<1>11. Owns(m, fileobj, n)
  BY <1>7, <1>9 DEF Later
<1>12. /\ DOMAIN m.file = DOMAIN db.file /\ Len(m.file) = Len(db.file) /\ n \in DOMAIN m.func /\ n # 0
  BY <1>1, <1>3, <1>4, <1>7, <1>9 DEF SameTables
<1> QED BY <1>1, <1>3, <1>7, <1>9, <1>10, <1>11, <1>12

\* The '{' of a function body.  One that is skipped leaves the function before it recorded,
\* so the second part is for when none is.
LEMMA FunctionStep ==
    ASSUME LearnInv, NEW f \in Word, c_function(f)
    PROVE  LearnInv' /\ (LocalInv /\ Unrecorded = {} => LocalInv')
<1>1. pc = "parse" /\ pc' = "parse" /\ infunc' = 1 /\ fileobj' = fileobj
  BY DEF c_function
<1>2. CASE f \in Unrecorded
  <2>1. db' = db /\ funcobj' = funcobj
    BY <1>2 DEF c_function
  <2> QED BY <1>1, <1>2, <2>1 DEF LearnInv
<1>3. CASE f \notin Unrecorded
  <2> DEFINE w == StrWrite(db, f)
             n == Len(db.func) + 1
  <2>1. funcobj' = n /\ db' = connect_func_to_file(w, n)
    BY <1>3 DEF c_function
  <2> HIDE DEF w
  <2>2. w = StrWrite(db, f) /\ n = Len(db.func) + 1
    BY DEF w
  <2> HIDE DEF n
  <2>3. /\ Later(db, db') /\ (AllLocal(db) => AllLocal(db'))
        /\ DOMAIN db'.file = DOMAIN db.file /\ Len(db'.file) = Len(db.file)
        /\ n \in DOMAIN db'.func /\ n # 0 /\ Owns(db', fileobj, n)
    BY <1>1, <2>1, <2>2, FunctionIs
  <2>4. LearnInv'
    BY <1>1, <2>1, <2>3 DEF LearnInv, Later
  <2>5. LocalInv => LocalInv'
    BY <1>1, <2>1, <2>3 DEF LocalInv
  <2> QED BY <2>4, <2>5
<1> QED BY <1>2, <1>3

\* A string is written and something in a table related to it.
LEMMA RelatedToIs ==
    ASSUME Sane(db), NEW s \in Word, NEW x, Points(db, x), x.means \in Nat,
           NEW m, m = RelatedTo(x, StrWrite(db, s))
    PROVE  /\ Later(db, m) /\ SameTables(db, m)
           /\ x.type # "func" \/ Owns(db, Len(db.file), x.at) => (AllLocal(db) => AllLocal(m))
<1> DEFINE w == StrWrite(db, s)
<1>1. /\ Later(db, w.mem) /\ SameTables(db, w.mem) /\ (AllLocal(db) => AllLocal(w.mem))
      /\ Points(w.mem, w.ptr) /\ w.ptr.type = "hash" /\ w.ptr.means \in Nat
  BY WordsAre, StrWriteLater
<1>2. m = Related(w.mem, x, w.ptr)
  BY DEF RelatedTo
<1> HIDE DEF w
<1>3. Sane(w.mem) /\ Points(w.mem, x)
  BY <1>1 DEF Later
<1>4. /\ Later(w.mem, m) /\ SameTables(w.mem, m)
      /\ x.type # "func" \/ Owns(w.mem, Len(w.mem.file), x.at) => (AllLocal(w.mem) => AllLocal(m))
  BY <1>1, <1>2, <1>3, RelatedLater
<1>5. Later(db, m) /\ SameTables(db, m)
  BY <1>1, <1>4, LaterTwice
<1>6. Owns(db, Len(db.file), x.at) => Owns(w.mem, Len(w.mem.file), x.at)
  BY <1>1 DEF Later, SameTables
<1> QED BY <1>1, <1>4, <1>5, <1>6

\* What is related from the function recorded last.
LEMMA FromFunctionStep ==
    ASSUME LearnInv, pc = "parse", NEW s \in Word, FromFunction(s), UNCHANGED <<fileobj, funcobj, infunc>>
    PROVE  LearnInv' /\ (LocalInv /\ infunc > 0 => LocalInv')
<1>1. CASE funcobj = 0
  <2> DEFINE w == StrWrite(db, s)
  <2>1. db' = w.mem /\ pc' = "segv"
    BY <1>1 DEF FromFunction
  <2>2. /\ Later(db, w.mem) /\ SameTables(db, w.mem) /\ (AllLocal(db) => AllLocal(w.mem))
    BY WordsAre, StrWriteLater DEF LearnInv
  <2> HIDE DEF w
  <2> QED BY <2>1, <2>2 DEF LearnInv, LocalInv, Later, SameTables
<1>2. CASE funcobj # 0
  <2> DEFINE x == AtFunc(funcobj)
  <2>1. db' = RelatedTo(x, StrWrite(db, s)) /\ pc' = pc
    BY <1>2 DEF FromFunction
  <2>2. Sane(db) /\ funcobj \in DOMAIN db.func
    BY <1>2 DEF LearnInv
  <2>3. Points(db, x) /\ x.means \in Nat /\ x.type = "func" /\ x.at = funcobj
    BY <2>2, PointersAre, TablesNumbered
  <2> HIDE DEF x
  <2>4. /\ Later(db, db') /\ SameTables(db, db')
        /\ x.type # "func" \/ Owns(db, Len(db.file), x.at) => (AllLocal(db) => AllLocal(db'))
    BY <2>1, <2>2, <2>3, RelatedToIs
  <2>5. LearnInv'
    BY <2>1, <2>4 DEF LearnInv, Later, SameTables
  <2>6. ASSUME LocalInv, infunc > 0  PROVE LocalInv'
    <3>1. Owns(db, fileobj, funcobj) /\ fileobj = Len(db.file) /\ AllLocal(db)
      BY <2>6 DEF LocalInv, LearnInv
    <3>2. AllLocal(db') /\ Owns(db', fileobj, funcobj)
      BY <2>3, <2>4, <3>1 DEF Later
    <3> QED BY <1>2, <3>2 DEF LocalInv
  <2> QED BY <2>5, <2>6
<1> QED BY <1>1, <1>2

\* A literal.
LEMMA StringStep ==
    ASSUME LearnInv, NEW s \in Word, c_string(s)
    PROVE  LearnInv' /\ (LocalInv => LocalInv')
<1>1. pc = "parse" /\ UNCHANGED <<fileobj, funcobj, infunc>>
  BY DEF c_string
<1>2. CASE infunc > 0
  <2>1. FromFunction(s)
    BY <1>2 DEF c_string
  <2> QED BY <1>1, <1>2, <2>1, FromFunctionStep
<1>3. CASE ~(infunc > 0)
  <2> DEFINE x == AtFile(fileobj)
  <2>1. db' = RelatedTo(x, StrWrite(db, s)) /\ pc' = pc
    BY <1>3 DEF c_string
  <2>2. Sane(db) /\ fileobj \in DOMAIN db.file
    BY <1>1 DEF LearnInv
  <2>3. Points(db, x) /\ x.means \in Nat /\ x.type = "file"
    BY <2>2, PointersAre, TablesNumbered
  <2> HIDE DEF x
  <2>4. /\ Later(db, db') /\ SameTables(db, db')
        /\ x.type # "func" \/ Owns(db, Len(db.file), x.at) => (AllLocal(db) => AllLocal(db'))
    BY <2>1, <2>2, <2>3, RelatedToIs
  <2>5. LearnInv'
    BY <1>1, <2>1, <2>4 DEF LearnInv, Later, SameTables
  <2>6. LocalInv => LocalInv'
    BY <1>1, <1>3, <2>3, <2>4 DEF LocalInv
  <2> QED BY <2>5, <2>6
<1> QED BY <1>2, <1>3

\* At the start nothing is known.
LEMMA LearnStart == Init => LearnInv /\ LocalInv
<1> SUFFICES ASSUME Init  PROVE LearnInv /\ LocalInv
  OBVIOUS
<1>1. /\ db = [tree |-> Prepared, wire |-> << >>, file |-> << >>, func |-> << >>, meant |-> << >>]
      /\ funcobj = 0 /\ infunc = 0 /\ pc = "next"
  BY DEF Init
<1> DEFINE t == Prepared
<1>2. Fine(t, Heads) /\ t \in Trees(Heads) /\ Pages(t) = {}
  BY PreparedIs, FineTree DEF Fine
<1>3. db = [tree |-> t, wire |-> << >>, file |-> << >>, func |-> << >>, meant |-> << >>]
  BY <1>1
<1> HIDE DEF t
<1>4. /\ db.tree = t /\ db.wire = << >> /\ db.file = << >> /\ db.func = << >> /\ db.meant = << >>
  BY <1>3
<1>5. Formed(db)
  BY <1>2, <1>3, <1>4 DEF Formed, Memories
<1>6. Len(db.wire) = 0 /\ DOMAIN db.file = {} /\ DOMAIN db.func = {}
  BY <1>4
<1>7. \A x : ~Points(db, x)
  BY <1>2, <1>4, <1>6 DEF Points, Places
<1>8. \A i \in 1 .. Len(db.wire) : FALSE
  BY <1>6
<1>9. Sane(db)
  BY <1>5, <1>7, <1>8 DEF Sane, Homeward
<1> QED BY <1>1, <1>8, <1>9 DEF LearnInv, LocalInv, AllLocal

\* Every step keeps the first part, and the second when no name is skipped.
LEMMA LearnKeeps ==
    ASSUME LearnInv, [Next]_vars
    PROVE  LearnInv' /\ (LocalInv /\ Unrecorded = {} => LocalInv')
<1>1. ASSUME NEW p \in Path, learn_skipped(p) \/ learn_parsed(p)
      PROVE  LearnInv' /\ (LocalInv => LocalInv')
  BY <1>1, SkippedStep, ParsedStep
<1>2. ASSUME NEW w \in Word, c_function(w)
      PROVE  LearnInv' /\ (LocalInv /\ Unrecorded = {} => LocalInv')
  BY <1>2, FunctionStep
<1>3. ASSUME NEW w \in Word, c_call(w)  PROVE LearnInv' /\ (LocalInv => LocalInv')
  <2>1. pc = "parse" /\ infunc > 0 /\ FromFunction(w) /\ UNCHANGED <<fileobj, funcobj, infunc>>
    BY <1>3 DEF c_call
  <2> QED BY <2>1, FromFunctionStep
<1>4. ASSUME NEW w \in Word, c_string(w)  PROVE LearnInv' /\ (LocalInv => LocalInv')
  BY <1>4, StringStep
<1>5. CASE c_open
  <2>1. infunc > 0 /\ infunc' = infunc + 1 /\ UNCHANGED <<db, fileobj, funcobj, pc>>
    BY <1>5 DEF c_open, LearnInv
  <2> QED BY <2>1 DEF LearnInv, LocalInv
<1>6. CASE c_close
  <2>1. infunc > 0 /\ infunc' = infunc - 1 /\ UNCHANGED <<db, fileobj, funcobj, pc>>
    BY <1>6 DEF c_close
  <2> QED BY <2>1 DEF LearnInv, LocalInv
<1>7. CASE worker_stop
  BY <1>7 DEF worker_stop, LearnInv, LocalInv
<1>8. CASE UNCHANGED vars
  BY <1>8 DEF vars, LearnInv, LocalInv
<1> QED BY <1>1, <1>2, <1>3, <1>4, <1>5, <1>6, <1>7, <1>8, Zenon DEF Next

(* Whatever is learned, the memory stays sane. *)
THEOREM LearnHolds == Spec => []LearnInv
<1>1. Init => LearnInv
  BY LearnStart
<1>2. LearnInv /\ [Next]_vars => LearnInv'
  BY LearnKeeps
<1> QED BY <1>1, <1>2, PTL DEF Spec

\* A relation by its number.
LEMMA RecsAre ==
    ASSUME Sane(db)
    PROVE  /\ Recs = 1 .. Len(db.wire)
           /\ \A i \in Recs : /\ Srcs(db)[i] = db.wire[i].src /\ Dsts(db)[i] = db.wire[i].dst
                              /\ SrcNext(db)[i] = db.wire[i].samesrcnextdst
                              /\ DstNext(db)[i] = db.wire[i].samedstnextsrc
                              /\ db.wire[i] \in RelSet
<1> DEFINE w == db.wire
<1>1. w \in Seq(RelSet)
  BY DEF Sane, Formed, Memories
<1> HIDE DEF w
<1>2. DOMAIN w = 1 .. Len(w) /\ \A i \in 1 .. Len(w) : w[i] \in RelSet
  BY <1>1
<1> QED BY <1>2 DEF Recs, Srcs, Dsts, SrcNext, DstNext, w

\* What a reader can start from is at some pointer.
LEMMA ChipsAre ==
    ASSUME Sane(db), NEW c \in Chips
    PROVE  \E x : Points(db, x) /\ c = Target(x)
<1>1. CASE \E p \in IndexLeaves : \E i \in 0 .. db.tree.page[p].len - 1 : c = Target(AtSlot(0, <<p, i>>))
  <2>0. PICK p \in IndexLeaves : \E i \in 0 .. db.tree.page[p].len - 1 : c = Target(AtSlot(0, <<p, i>>))
    BY <1>1
  <2>1. PICK i \in 0 .. db.tree.page[p].len - 1 : c = Target(AtSlot(0, <<p, i>>))
    BY <2>0
  <2> DEFINE t == db.tree
  <2>2. p \in Pages(t) /\ t.page[p].type = "leaf" /\ Fine(t, Heads) /\ i \in 0 .. t.page[p].len - 1
    BY DEF IndexLeaves, Sane, Formed
  <2> HIDE DEF t
  <2>3. t # Prepared
    BY <2>2, PreparedIs
  <2>4. t.page[p].len \in Nat /\ t.page[p].len <= leafstep
    BY <2>2, <2>3, MendedPages DEF Fine, Capacity
  <2>5. <<p, i>> \in Places(t)
    BY <2>2, <2>4, PageShape DEF Places, LeafSlots
  <2>6. Points(db, AtSlot(0, <<p, i>>))
    BY <2>5 DEF Points, AtSlot, t
  <2> QED BY <2>1, <2>6
<1>2. CASE \E n \in DOMAIN db.file : c = Target(AtFile(n))
  BY <1>2, PointersAre
<1>3. CASE \E n \in DOMAIN db.func : c = Target(AtFunc(n))
  BY <1>3, PointersAre
<1>4. \/ \E p \in IndexLeaves : \E i \in 0 .. db.tree.page[p].len - 1 : c = Target(AtSlot(0, <<p, i>>))
      \/ \E n \in DOMAIN db.file : c = Target(AtFile(n))
      \/ \E n \in DOMAIN db.func : c = Target(AtFunc(n))
  <2> DEFINE Of(p) == {Target(AtSlot(0, <<p, i>>)) : i \in 0 .. db.tree.page[p].len - 1}
             A == {Target(AtFile(n)) : n \in DOMAIN db.file}
             B == {Target(AtFunc(n)) : n \in DOMAIN db.func}
             U == UNION {Of(p) : p \in IndexLeaves}
  <2>0. Chips = (U \cup A) \cup B
    BY ONLY Zenon DEF Chips
  <2>1. c \in U \/ c \in A \/ c \in B
    <3> HIDE DEF U, A, B
    <3> QED BY <2>0
  <2>2. CASE c \in U
    <3> HIDE DEF Of
    <3>1. PICK p \in IndexLeaves : c \in Of(p)
      BY <2>2, Zenon
    <3>2. \E i \in 0 .. db.tree.page[p].len - 1 : c = Target(AtSlot(0, <<p, i>>))
      BY <3>1 DEF Of
    <3> QED BY <3>2
  <2>3. CASE c \in A
    BY <2>3
  <2>4. CASE c \in B
    BY <2>4
  <2> QED BY <2>1, <2>2, <2>3, <2>4
<1> QED BY <1>1, <1>2, <1>3, <1>4

(* Whatever slots the handlers' stale pointers hang relations on, and whatever splits move,
   the chains a reader can start on stay sound: their first relations are the chip's own, and
   each link leads to a later relation of the same chip, so every walk ends. *)
THEOREM ChainsHome == Spec => []ChainsStayHome
<1>1. LearnInv => ChainsStayHome
  <2> SUFFICES ASSUME LearnInv  PROVE ChainsStayHome
    OBVIOUS
  <2>1. Sane(db)
    BY DEF LearnInv
  <2> DEFINE n == Len(db.wire)
  <2>2. /\ Recs = 1 .. n
        /\ \A i \in Recs : /\ Srcs(db)[i] = db.wire[i].src /\ Dsts(db)[i] = db.wire[i].dst
                           /\ SrcNext(db)[i] = db.wire[i].samesrcnextdst
                           /\ DstNext(db)[i] = db.wire[i].samedstnextsrc
    BY <2>1, RecsAre
  <2>3. ASSUME NEW c \in Chips
        PROVE  /\ c.head.orel0 # 0 => db.wire[c.head.orel0].src = c.chip
               /\ c.head.irel0 # 0 => db.wire[c.head.irel0].dst = c.chip
    <3>1. PICK x : Points(db, x) /\ c = Target(x)
      BY <2>1, ChipsAre
    <3>2. c.chip = ChipAt(db, x) /\ c.head = HeadAt(db, x)
      BY <3>1 DEF Target
    <3>3. OwnAt(db, x)
      BY <2>1, <3>1 DEF Sane
    <3>4. /\ OwnEnds(n, Srcs(db), c.chip, c.head.orel0, c.head.oreln)
          /\ OwnEnds(n, Dsts(db), c.chip, c.head.irel0, c.head.ireln)
      BY <3>2, <3>3 DEF OwnAt
    <3>5. n \in Nat
      BY <2>1 DEF Sane, Formed, Memories
    <3> HIDE DEF n
    <3>6. /\ c.head.orel0 # 0 => c.head.orel0 \in Recs /\ Srcs(db)[c.head.orel0] = c.chip
          /\ c.head.irel0 # 0 => c.head.irel0 \in Recs /\ Dsts(db)[c.head.irel0] = c.chip
      BY <2>2, <3>4, <3>5 DEF OwnEnds
    <3> QED BY <2>2, <3>6
  <2>4. ASSUME NEW i \in Recs
        PROVE  LET r == db.wire[i] IN
               /\ r.samesrcnextdst # 0 =>
                    r.samesrcnextdst > i /\ db.wire[r.samesrcnextdst].src = r.src
               /\ r.samedstnextsrc # 0 =>
                    r.samedstnextsrc > i /\ db.wire[r.samedstnextsrc].dst = r.dst
    <3> DEFINE a == SrcNext(db)[i]
               b == DstNext(db)[i]
    <3>1. Homeward(n, Srcs(db), SrcNext(db)) /\ Homeward(n, Dsts(db), DstNext(db)) /\ n \in Nat
      BY <2>1 DEF Sane, Formed, Memories
    <3>2. db.wire[i].samesrcnextdst = a /\ db.wire[i].samedstnextsrc = b
      BY <2>2
    <3>3. /\ a # 0 => a \in i + 1 .. n /\ Srcs(db)[a] = Srcs(db)[i]
          /\ b # 0 => b \in i + 1 .. n /\ Dsts(db)[b] = Dsts(db)[i]
      BY <2>2, <3>1 DEF Homeward
    <3> HIDE DEF n, a, b
    <3>4. i \in 1 .. n
      BY <2>2
    <3>5. /\ a # 0 => a > i /\ a \in Recs
          /\ b # 0 => b > i /\ b \in Recs
      BY <2>2, <3>1, <3>3, <3>4
    <3> QED BY <2>2, <3>2, <3>3, <3>5
  <2> QED BY <2>3, <2>4 DEF ChainsStayHome
<1> QED BY <1>1, LearnHolds, PTL

(* When the parser skips no name, a call or a literal is filed under a function of the file it
   was read in.  The names it does skip break this: the function before them stays current. *)
THEOREM LocalsHome ==
    ASSUME Unrecorded = {}
    PROVE  Spec => []LocalsStayInFile
<1>1. Init => LearnInv /\ LocalInv
  BY LearnStart
<1>2. (LearnInv /\ LocalInv) /\ [Next]_vars => (LearnInv /\ LocalInv)'
  BY LearnKeeps
<1>3. LearnInv /\ LocalInv => LocalsStayInFile
  <2> SUFFICES ASSUME LearnInv, LocalInv, NEW i \in Recs, db.wire[i].src[1] = "func"
               PROVE  \E j \in Recs : /\ db.wire[j].src = <<"file", db.meant[i].during>>
                                      /\ db.wire[j].dst = db.wire[i].src
    BY DEF LocalsStayInFile
  <2>1. /\ Recs = 1 .. Len(db.wire)
        /\ \A k \in Recs : /\ Srcs(db)[k] = db.wire[k].src /\ Dsts(db)[k] = db.wire[k].dst
                           /\ db.wire[k] \in RelSet
    BY RecsAre DEF LearnInv
  <2>2. Owns(db, db.meant[i].during, db.wire[i].src[2])
    BY <2>1 DEF LocalInv, AllLocal
  <2>3. db.wire[i].src = <<"func", db.wire[i].src[2]>>
    BY <2>1 DEF RelSet, ChipSet
  <2> QED BY <2>1, <2>2, <2>3 DEF Owns
<1> QED BY <1>1, <1>2, <1>3, PTL DEF Spec

----------------------------------------------------------------------------
(* What a search lists. *)

\* A whole listing.
Lists(l, S) == l \in Seq(Nat) /\ Listed(l, 1, Len(l), S)

\* An earlier relation in front of a listing.
LEMMA FrontLists ==
    ASSUME NEW j \in Nat, NEW l, NEW S, Lists(l, S), \A i \in S : j < i
    PROVE  Lists(<<j>> \o l, {j} \cup S)
<1> DEFINE m == <<j>> \o l
<1>1. /\ l \in Seq(Nat) /\ Len(l) \in Nat
      /\ {l[i] : i \in 1 .. Len(l)} = S
      /\ \A a, b \in 1 .. Len(l) : a < b => l[a] < l[b]
  BY DEF Lists, Listed
<1>2. m \in Seq(Nat) /\ Len(m) = Len(l) + 1 /\ m[1] = j
  BY <1>1
<1>3. \A i \in 2 .. Len(m) : m[i] = l[i - 1] /\ i - 1 \in 1 .. Len(l)
  BY <1>1
<1> HIDE DEF m
<1>4. {m[i] : i \in 1 .. Len(m)} = {j} \cup S
  <2>1. ASSUME NEW i \in 1 .. Len(m)  PROVE m[i] \in {j} \cup S
    <3>1. CASE i = 1
      BY <1>2, <3>1
    <3>2. CASE i # 1
      <4>1. i \in 2 .. Len(m)
        BY <1>1, <1>2, <3>2
      <4> QED BY <1>1, <1>3, <4>1
    <3> QED BY <3>1, <3>2
  <2>2. ASSUME NEW x \in {j} \cup S  PROVE \E i \in 1 .. Len(m) : m[i] = x
    <3>1. CASE x = j
      <4>1. 1 \in 1 .. Len(m)
        BY <1>1, <1>2
      <4> QED BY <1>2, <3>1, <4>1
    <3>2. CASE x \in S
      <4>1. PICK i \in 1 .. Len(l) : l[i] = x
        BY <1>1, <3>2
      <4>2. i + 1 \in 2 .. Len(m) /\ (i + 1) - 1 = i /\ i + 1 \in 1 .. Len(m)
        BY <1>1, <1>2
      <4>3. m[i + 1] = l[i]
        BY <1>3, <4>2
      <4> QED BY <4>1, <4>2, <4>3
    <3> QED BY <3>1, <3>2
  <2> QED BY <2>1, <2>2
<1>5. ASSUME NEW a \in 1 .. Len(m), NEW b \in 1 .. Len(m), a < b  PROVE m[a] < m[b]
  <2>1. b \in 2 .. Len(m)
    BY <1>1, <1>2, <1>5
  <2>2. m[b] = l[b - 1] /\ b - 1 \in 1 .. Len(l)
    BY <1>3, <2>1
  <2>3. CASE a = 1
    <3>1. l[b - 1] \in S
      BY <1>1, <2>2
    <3> QED BY <1>2, <2>2, <2>3, <3>1
  <2>4. CASE a # 1
    <3>1. a \in 2 .. Len(m)
      BY <1>1, <1>2, <2>4
    <3>2. m[a] = l[a - 1] /\ a - 1 \in 1 .. Len(l)
      BY <1>3, <3>1
    <3>3. a - 1 < b - 1
      BY <1>5
    <3> QED BY <1>1, <2>2, <3>2, <3>3
  <2> QED BY <2>3, <2>4
<1>6. \A a, b \in 1 .. Len(m) : a < b => m[a] < m[b]
  BY <1>5
<1> QED BY <1>2, <1>4, <1>6 DEF Lists, Listed, m

\* Two listings one after the other.
LEMMA TwoLists ==
    ASSUME NEW p, NEW q, NEW A, NEW B, Lists(p, A), Lists(q, B), NEW l, l = p \o q
    PROVE  \E k \in 0 .. Len(l) : Listed(l, 1, k, A) /\ Listed(l, k + 1, Len(l), B)
<1> DEFINE k == Len(p)
<1>1. /\ p \in Seq(Nat) /\ q \in Seq(Nat) /\ k \in Nat /\ Len(q) \in Nat
      /\ {p[i] : i \in 1 .. k} = A
      /\ \A a, b \in 1 .. k : a < b => p[a] < p[b]
      /\ {q[i] : i \in 1 .. Len(q)} = B
      /\ \A a, b \in 1 .. Len(q) : a < b => q[a] < q[b]
  BY DEF Lists, Listed
<1>2. Len(l) = k + Len(q)
  BY <1>1
<1>3. \A i \in 1 .. k : l[i] = p[i]
  BY <1>1
<1>4. \A i \in k + 1 .. Len(l) : l[i] = q[i - k]
  BY <1>1
<1> HIDE DEF k
<1>5. \A i \in k + 1 .. Len(l) : l[i] = q[i - k] /\ i - k \in 1 .. Len(q)
  BY <1>1, <1>2, <1>4
<1>6. Listed(l, 1, k, A)
  <2>1. {l[i] : i \in 1 .. k} = {p[i] : i \in 1 .. k}
    BY <1>3
  <2>2. \A a, b \in 1 .. k : a < b => l[a] < l[b]
    BY <1>1, <1>3
  <2> QED BY <1>1, <2>1, <2>2 DEF Listed
<1>7. {l[i] : i \in k + 1 .. Len(l)} = B
  <2>1. \A i \in k + 1 .. Len(l) : l[i] \in B
    BY <1>1, <1>5
  <2>2. ASSUME NEW x \in B  PROVE \E i \in k + 1 .. Len(l) : l[i] = x
    <3>1. PICK i \in 1 .. Len(q) : q[i] = x
      BY <1>1
    <3>2. i + k \in k + 1 .. Len(l) /\ (i + k) - k = i
      BY <1>1, <1>2
    <3> QED BY <1>5, <3>1, <3>2
  <2> QED BY <2>1, <2>2
<1>8. ASSUME NEW a \in k + 1 .. Len(l), NEW b \in k + 1 .. Len(l), a < b  PROVE l[a] < l[b]
  <2>1. a - k < b - k
    BY <1>1, <1>2, <1>8
  <2> QED BY <1>1, <1>5, <2>1
<1>9. Listed(l, k + 1, Len(l), B)
  BY <1>7, <1>8 DEF Listed
<1>10. k \in 0 .. Len(l)
  BY <1>1, <1>2
<1> QED BY <1>6, <1>9, <1>10

\* R[j] is what a walk from relation j along the links lists.
ListingIs(R, n, next) == R = [j \in 0 .. n |-> IF j = 0 THEN << >> ELSE <<j>> \o R[next[j]]]

\* There is such a listing.
LEMMA WalkDefined ==
    ASSUME NEW n \in Nat, NEW of, NEW next, Homeward(n, of, next)
    PROVE  \E R : ListingIs(R, n, next)
<1> DEFINE D == 0 .. n
           V == Seq(Nat)
           m == [j \in D |-> IF j = 0 THEN 0 ELSE (n + 1) - j]
           a == [j \in D |-> << >>]
           E == [f \in [D -> V] |-> [j \in D |-> IF j = 0 THEN << >> ELSE <<j>> \o f[next[j]]]]
<1>1. m \in [D -> Nat] /\ a \in [D -> V]
  OBVIOUS
<1>2. ASSUME NEW j \in D, j # 0  PROVE next[j] \in D /\ m[next[j]] < m[j]
  <2>1. next[j] = 0 \/ next[j] \in j + 1 .. n
    BY <1>2 DEF Homeward
  <2>2. m[j] = (n + 1) - j /\ j \in 1 .. n
    BY <1>2
  <2> DEFINE k == next[j]
  <2> HIDE DEF k
  <2>3. k \in D /\ m[k] = IF k = 0 THEN 0 ELSE (n + 1) - k
    BY <2>1 DEF k
  <2> HIDE DEF m
  <2>4. k \in D /\ m[k] < m[j]
    BY <2>1, <2>2, <2>3 DEF k
  <2> QED BY <2>4 DEF k
<1>3. \A f \in [D -> V] : \A j \in D : E[f][j] = IF j = 0 THEN << >> ELSE <<j>> \o f[next[j]]
  OBVIOUS
<1>4. E \in [[D -> V] -> [D -> V]]
  <2>1. ASSUME NEW f \in [D -> V], NEW j \in D
        PROVE  (IF j = 0 THEN << >> ELSE <<j>> \o f[next[j]]) \in V
    <3>1. CASE j = 0
      BY <3>1
    <3>2. CASE j # 0
      <4>1. f[next[j]] \in Seq(Nat)
        <5>1. next[j] \in D
          BY <1>2, <3>2
        <5> HIDE DEF D
        <5> QED BY <5>1
      <4>2. <<j>> \in Seq(Nat)
        OBVIOUS
      <4> QED BY <3>2, <4>1, <4>2
    <3> QED BY <3>1, <3>2
  <2>2. \A f \in [D -> V] : [j \in D |-> IF j = 0 THEN << >> ELSE <<j>> \o f[next[j]]] \in [D -> V]
    BY <2>1
  <2> QED BY <2>2
<1> HIDE DEF m, a, E, D, V
<1>5. LooksDown(E, [D -> V], D, m)
  <2>1. ASSUME NEW f \in [D -> V], NEW g \in [D -> V], NEW j \in D,
               \A k \in D : m[k] < m[j] => f[k] = g[k]
        PROVE  E[f][j] = E[g][j]
    <3>1. j # 0 => f[next[j]] = g[next[j]]
      BY <1>2, <2>1
    <3>2. /\ E[f][j] = IF j = 0 THEN << >> ELSE <<j>> \o f[next[j]]
          /\ E[g][j] = IF j = 0 THEN << >> ELSE <<j>> \o g[next[j]]
      BY <1>3
    <3> QED BY <3>1, <3>2
  <2> QED BY <2>1 DEF LooksDown
<1>6. \E g \in [D -> V] : g = E[g]
  <2>1. \A B, W : \A h \in [B -> Nat] : \A b \in [B -> W] : \A J \in [[B -> W] -> [B -> W]] :
          LooksDown(J, [B -> W], B, h) => \E g \in [B -> W] : g = J[g]
    BY SmallerDefines, Zenon
  <2>2. \A h \in [D -> Nat] : \A b \in [D -> V] : \A J \in [[D -> V] -> [D -> V]] :
          LooksDown(J, [D -> V], D, h) => \E g \in [D -> V] : g = J[g]
    BY ONLY <2>1, Zenon
  <2>3. m \in [D -> Nat]
    BY <1>1
  <2>4. a \in [D -> V]
    BY <1>1
  <2>5. \A J \in [[D -> V] -> [D -> V]] :
          LooksDown(J, [D -> V], D, m) => \E g \in [D -> V] : g = J[g]
    BY ONLY <2>2, <2>3, <2>4
  <2> QED BY ONLY <1>4, <1>5, <2>5
<1>7. PICK R \in [D -> V] : R = E[R]
  BY <1>6
<1>8. R = [j \in D |-> IF j = 0 THEN << >> ELSE <<j>> \o R[next[j]]]
  <2>1. E[R] = [j \in D |-> IF j = 0 THEN << >> ELSE <<j>> \o R[next[j]]]
    BY <1>7 DEF E
  <2> QED BY <1>7, <2>1
<1>9. ListingIs(R, n, next)
  BY <1>8 DEF ListingIs, D
<1> QED BY <1>9

\* The relations of chip c.
OfChip(n, of, c) == {i \in 1 .. n : of[i] = c}

(* From the first relation of a chip whose chain leaves none out, it lists all of them. *)
LEMMA WalkLists ==
    ASSUME NEW n \in Nat, NEW of, NEW next, Homeward(n, of, next), NEW R, ListingIs(R, n, next),
           NEW c, NEW first, NEW last, OwnEnds(n, of, c, first, last), Unbroken(n, of, next, c, first, last)
    PROVE  Lists(R[first], OfChip(n, of, c))
<1> DEFINE From(j) == {i \in j .. n : of[i] = c}
           T == {j \in 1 .. n : of[j] = c => Lists(R[j], From(j))}
<1>1. R[0] = << >> /\ \A j \in 1 .. n : R[j] = <<j>> \o R[next[j]]
  <2>1. \A j \in 0 .. n : R[j] = IF j = 0 THEN << >> ELSE <<j>> \o R[next[j]]
    BY DEF ListingIs
  <2>2. 0 \in 0 .. n /\ \A j \in 1 .. n : j \in 0 .. n /\ j # 0
    OBVIOUS
  <2> QED BY <2>1, <2>2
<1>2. Lists(<< >>, {})
  <2>1. << >> \in Seq(Nat) /\ Len(<< >>) = 0 /\ 1 .. 0 = {}
    OBVIOUS
  <2> QED BY <2>1 DEF Lists, Listed
<1>3. ASSUME NEW j \in 1 .. n, \A k \in j + 1 .. n : k \in T, of[j] = c  PROVE Lists(R[j], From(j))
  <2> DEFINE k == next[j]
             S == {i \in j + 1 .. n : of[i] = c}
  <2>1. k = 0 \/ (k \in j + 1 .. n /\ of[k] = c)
    <3>1. next[j] # 0 => next[j] \in j + 1 .. n /\ of[next[j]] = of[j]
      BY DEF Homeward
    <3> QED BY <1>3, <3>1
  <2>2. \A i \in j + 1 .. n : of[i] = c => k \in 1 .. i
    BY <1>3 DEF Unbroken
  <2> HIDE DEF k
  <2>3. Lists(R[k], S)
    <3>1. CASE k = 0
      <4>1. S = {}
        BY <2>2, <3>1
      <4> QED BY <1>1, <1>2, <3>1, <4>1
    <3>2. CASE k # 0
      <4>1. k \in j + 1 .. n /\ of[k] = c
        BY <2>1, <3>2
      <4>2. Lists(R[k], From(k))
        BY <1>3, <4>1
      <4>3. From(k) = S
        BY <2>2, <4>1
      <4> QED BY <4>2, <4>3
    <3> QED BY <3>1, <3>2
  <2>4. From(j) = {j} \cup S
    BY <1>3
  <2>5. (\A i \in S : j < i) /\ j \in Nat
    OBVIOUS
  <2> HIDE DEF S, From
  <2>6. Lists(<<j>> \o R[k], {j} \cup S)
    BY <2>3, <2>5, FrontLists
  <2> QED BY <1>1, <2>4, <2>6 DEF k
<1>4. \A j \in 1 .. n : (\A k \in j + 1 .. n : k \in T) => j \in T
  BY <1>3
<1>5. \A j \in 1 .. n : j \in T
  <2> HIDE DEF T
  <2> QED BY <1>4, InductionDown
<1>6. \A i \in 1 .. n : of[i] = c => first \in 1 .. i
  BY DEF Unbroken
<1>7. first \in 0 .. n /\ (first # 0 => of[first] = c)
  BY DEF OwnEnds
<1>8. CASE first = 0
  <2>1. {i \in 1 .. n : of[i] = c} = {}
    BY <1>6, <1>8
  <2> QED BY <1>1, <1>2, <1>8, <2>1 DEF OfChip
<1>9. CASE first # 0
  <2>1. first \in 1 .. n /\ of[first] = c
    BY <1>7, <1>9
  <2>2. Lists(R[first], From(first))
    BY <1>5, <2>1
  <2>3. From(first) = {i \in 1 .. n : of[i] = c}
    BY <1>6, <2>1
  <2> QED BY <2>2, <2>3 DEF OfChip
<1> QED BY <1>8, <1>9

\* What Along lists, when the links lead home.
LEMMA AlongIs ==
    ASSUME NEW link, NEW of, Len(db.wire) \in Nat, Homeward(Len(db.wire), of, link)
    PROVE  \E R : ListingIs(R, Len(db.wire), link) /\ \A i : Along(link, i) = R[i]
<1> DEFINE n == Len(db.wire)
           R == CHOOSE g : ListingIs(g, n, link)
<1>1. \E g : ListingIs(g, n, link)
  BY WalkDefined
<1>2. ListingIs(R, n, link)
  BY <1>1, Zenon
<1>3. ASSUME NEW i  PROVE Along(link, i) = R[i]
  BY Zenon DEF Along, ListingIs
<1> QED BY <1>2, <1>3

\* Who is found for a file or a function, and what its search lists.
LEMMA FixedListed ==
    ASSUME Sane(db), NEW x, Points(db, x), x.type # "hash", NEW c, c = ChipAt(db, x)
    PROVE  /\ search_one(c) # {}
           /\ \A l \in search_one(c) :
                \E k \in 0 .. Len(l) :
                  /\ Listed(l, 1, k, {i \in Recs : db.wire[i].dst = c})
                  /\ Listed(l, k + 1, Len(l), {i \in Recs : db.wire[i].src = c})
<1> DEFINE n == Len(db.wire)
           h == HeadAt(db, x)
           p == Along([i \in Recs |-> db.wire[i].samedstnextsrc], h.irel0)
           q == Along([i \in Recs |-> db.wire[i].samesrcnextdst], h.orel0)
<1>1. search_one(c) = {p \o q}
  <2>1. c = <<x.type, x.at>>
    BY DEF ChipAt
  <2>2. c[1] = x.type /\ c[2] = x.at /\ c[1] # "hash"
    BY <2>1
  <2>3. HeadAt(db, [type |-> c[1], at |-> c[2], means |-> c[2]]) = h
    <3>1. x.type = "file" \/ x.type = "func"
      BY DEF Points
    <3> QED BY <2>2, <3>1 DEF HeadAt
  <2>4. Items(c) = {h}
    BY <2>2, <2>3 DEF Items
  <2> HIDE DEF h
  <2> QED BY <2>4 DEF search_one, search_item
<1>2. /\ OwnEnds(n, Srcs(db), c, h.orel0, h.oreln) /\ OwnEnds(n, Dsts(db), c, h.irel0, h.ireln)
      /\ Unbroken(n, Srcs(db), SrcNext(db), c, h.orel0, h.oreln)
      /\ Unbroken(n, Dsts(db), DstNext(db), c, h.irel0, h.ireln)
  <2>1. OwnAt(db, x) /\ WholeAt(db, x)
    BY DEF Sane
  <2> QED BY <2>1 DEF OwnAt, WholeAt
<1>3. /\ Homeward(n, Srcs(db), SrcNext(db)) /\ Homeward(n, Dsts(db), DstNext(db)) /\ n \in Nat
  BY DEF Sane, Formed, Memories
<1>4. Recs = 1 .. n /\ \A i \in Recs : /\ Srcs(db)[i] = db.wire[i].src /\ Dsts(db)[i] = db.wire[i].dst
                                       /\ SrcNext(db)[i] = db.wire[i].samesrcnextdst
                                       /\ DstNext(db)[i] = db.wire[i].samedstnextsrc
  BY RecsAre
<1>5. /\ [i \in Recs |-> db.wire[i].samesrcnextdst] = SrcNext(db)
      /\ [i \in Recs |-> db.wire[i].samedstnextsrc] = DstNext(db)
  BY <1>4 DEF SrcNext, DstNext
<1>6. p = Along(DstNext(db), h.irel0) /\ q = Along(SrcNext(db), h.orel0)
  BY <1>5
<1> HIDE DEF p, q, h, n
<1>7. Lists(p, {i \in 1 .. n : Dsts(db)[i] = c})
  <2>1. PICK R : ListingIs(R, n, DstNext(db)) /\ \A i : Along(DstNext(db), i) = R[i]
    BY <1>3, AlongIs DEF n
  <2>2. Homeward(n, Dsts(db), DstNext(db))
    BY <1>3
  <2>3. OwnEnds(n, Dsts(db), c, h.irel0, h.ireln) /\ Unbroken(n, Dsts(db), DstNext(db), c, h.irel0, h.ireln)
    BY <1>2
  <2>4. n \in Nat
    BY <1>3
  <2> DEFINE of == Dsts(db)
             next == DstNext(db)
             first == h.irel0
             last == h.ireln
  <2>5. ListingIs(R, n, next) /\ Homeward(n, of, next)
        /\ OwnEnds(n, of, c, first, last) /\ Unbroken(n, of, next, c, first, last)
    BY <2>1, <2>2, <2>3
  <2> HIDE DEF of, next, first, last
  <2>6. Lists(R[first], OfChip(n, of, c))
    BY ONLY <2>4, <2>5, WalkLists
  <2> QED BY <1>6, <2>1, <2>6 DEF of, first, OfChip
<1>8. Lists(q, {i \in 1 .. n : Srcs(db)[i] = c})
  <2>1. PICK R : ListingIs(R, n, SrcNext(db)) /\ \A i : Along(SrcNext(db), i) = R[i]
    BY <1>3, AlongIs DEF n
  <2>2. Homeward(n, Srcs(db), SrcNext(db))
    BY <1>3
  <2>3. OwnEnds(n, Srcs(db), c, h.orel0, h.oreln) /\ Unbroken(n, Srcs(db), SrcNext(db), c, h.orel0, h.oreln)
    BY <1>2
  <2>4. n \in Nat
    BY <1>3
  <2> DEFINE of == Srcs(db)
             next == SrcNext(db)
             first == h.orel0
             last == h.oreln
  <2>5. ListingIs(R, n, next) /\ Homeward(n, of, next)
        /\ OwnEnds(n, of, c, first, last) /\ Unbroken(n, of, next, c, first, last)
    BY <2>1, <2>2, <2>3
  <2> HIDE DEF of, next, first, last
  <2>6. Lists(R[first], OfChip(n, of, c))
    BY ONLY <2>4, <2>5, WalkLists
  <2> QED BY <1>6, <2>1, <2>6 DEF of, first, OfChip
<1>9. /\ {i \in 1 .. n : Dsts(db)[i] = c} = {i \in Recs : db.wire[i].dst = c}
      /\ {i \in 1 .. n : Srcs(db)[i] = c} = {i \in Recs : db.wire[i].src = c}
  BY <1>4
<1> DEFINE A == {i \in Recs : db.wire[i].dst = c}
           B == {i \in Recs : db.wire[i].src = c}
<1>10. Lists(p, A) /\ Lists(q, B)
  BY <1>7, <1>8, <1>9
<1> HIDE DEF A, B
<1>11. ASSUME NEW l \in search_one(c)
       PROVE  \E k \in 0 .. Len(l) : Listed(l, 1, k, A) /\ Listed(l, k + 1, Len(l), B)
  <2>1. l = p \o q
    BY <1>1
  <2> QED BY <1>10, <2>1, TwoLists
<1> QED BY <1>1, <1>11 DEF A, B

(* Files and functions stay where they are, so no relation of theirs gets lost: whatever the
   strings at the other ends went through, a search lists each one once, in order. *)
THEOREM SearchComplete == Spec => []FixedChipsComplete
<1>1. LearnInv => FixedChipsComplete
  <2> SUFFICES ASSUME LearnInv, NEW d \in Chips, d.chip[1] # "hash"
               PROVE  /\ search_one(d.chip) # {}
                      /\ \A l \in search_one(d.chip) :
                           \E k \in 0 .. Len(l) :
                             /\ Listed(l, 1, k, {i \in Recs : db.wire[i].dst = d.chip})
                             /\ Listed(l, k + 1, Len(l), {i \in Recs : db.wire[i].src = d.chip})
    BY DEF FixedChipsComplete
  <2>1. Sane(db)
    BY DEF LearnInv
  <2>2. PICK x : Points(db, x) /\ d = Target(x)
    BY <2>1, ChipsAre
  <2>3. d.chip = ChipAt(db, x)
    BY <2>2 DEF Target
  <2>4. x.type # "hash"
    BY <2>3 DEF ChipAt
  <2> QED BY <2>1, <2>2, <2>3, <2>4, FixedListed
<1> QED BY <1>1, LearnHolds, PTL
=============================================================================
