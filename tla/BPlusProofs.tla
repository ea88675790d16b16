---------------------------- MODULE BPlusProofs ----------------------------
(***************************************************************************)
(* Proofs about the operators of BPlus, for any sizes of its pages and any *)
(* contents of its slots.                                                  *)
(***************************************************************************)
EXTENDS BPlus, Recursion

----------------------------------------------------------------------------
(* Slots. *)

\* The n slots of `node` with d between them, at j.
Merged(node, n, j, d) ==
    [i \in 0 .. n |-> IF i < j THEN node[i] ELSE IF i = j THEN d ELSE node[i - 1]]

\* The slot Where settles on is the one before which h belongs.
LEMMA WhereIs ==
    ASSUME NEW node, NEW n \in Nat, NEW h \in Nat, \A i \in 0 .. n - 1 : node[i].hash \in Nat
    PROVE  /\ Where(node, n, h) \in 0 .. n
           /\ Where(node, n, h) < n => h < node[Where(node, n, h)].hash
           /\ \A i \in 0 .. Where(node, n, h) - 1 : ~(h < node[i].hash)
<1> DEFINE Here(j) == /\ j < n => h < node[j].hash
                      /\ \A i \in 0 .. j - 1 : ~(h < node[i].hash)
           T == {j \in 0 .. n : j < n => h < node[j].hash}
<1>1. T # {} /\ T \subseteq Nat
  <2>1. n \in T
    OBVIOUS
  <2>2. \A j \in T : j \in Nat
    OBVIOUS
  <2> HIDE DEF T
  <2> QED BY <2>1, <2>2
<1> HIDE DEF T
<1>2. PICK j \in T : \A i \in T : j <= i
  BY <1>1, LeastNumber
<1>3. j \in 0 .. n /\ Here(j)
  BY <1>2 DEF T
<1>4. Where(node, n, h) = CHOOSE k \in 0 .. n : Here(k)
  BY DEF Where
<1> HIDE DEF Here
<1>5. Where(node, n, h) \in 0 .. n /\ Here(Where(node, n, h))
  BY <1>3, <1>4
<1> QED BY <1>5 DEF Here

\* The child Branch settles on is the one whose keys enclose h.
LEMMA BranchIs ==
    ASSUME NEW pg, pg.len \in Nat, NEW h \in Nat, \A i \in 0 .. pg.len - 1 : pg.node[i].hash \in Nat
    PROVE  /\ Branch(pg, h) \in -1 .. pg.len - 1
           /\ Branch(pg, h) >= 0 => h >= pg.node[Branch(pg, h)].hash
           /\ \A i \in Branch(pg, h) + 1 .. pg.len - 1 : h < pg.node[i].hash
<1> DEFINE n == pg.len
           Here(j) == /\ j >= 0 => h >= pg.node[j].hash
                      /\ \A i \in j + 1 .. n - 1 : h < pg.node[i].hash
           T == {m \in 0 .. n : n - 1 - m >= 0 => h >= pg.node[n - 1 - m].hash}
<1>1. T # {} /\ T \subseteq Nat
  <2>1. n \in T
    OBVIOUS
  <2>2. \A j \in T : j \in Nat
    OBVIOUS
  <2> HIDE DEF T
  <2> QED BY <2>1, <2>2
<1> HIDE DEF T
<1>2. PICK m \in T : \A i \in T : m <= i
  BY <1>1, LeastNumber
<1>3. n - 1 - m \in -1 .. n - 1 /\ Here(n - 1 - m)
  <2>1. m \in 0 .. n /\ (n - 1 - m >= 0 => h >= pg.node[n - 1 - m].hash)
    BY <1>2 DEF T
  <2>2. ASSUME NEW i \in n - 1 - m + 1 .. n - 1  PROVE h < pg.node[i].hash
    <3>1. n - 1 - i \in 0 .. n /\ n - 1 - i < m /\ n - 1 - (n - 1 - i) = i /\ i >= 0
      BY <2>1
    <3>2. n - 1 - i \notin T
      BY <1>1, <1>2, <2>1, <3>1
    <3> QED BY <2>1, <3>1, <3>2 DEF T
  <2> QED BY <2>1, <2>2
<1>4. Branch(pg, h) = CHOOSE k \in -1 .. n - 1 : Here(k)
  BY DEF Branch
<1> HIDE DEF Here
<1>5. Branch(pg, h) \in -1 .. n - 1 /\ Here(Branch(pg, h))
  BY <1>3, <1>4
<1> QED BY <1>5 DEF Here

\* The slots `rest` with the slots M written over the first n of them.
Over(M, n, rest) == [i \in DOMAIN rest |-> IF i < n THEN M[i] ELSE rest[i]]

\* The slots of M past slot h.
After(M, h) == [i \in Nat |-> M[h + 1 + i]]

\* What indexadd and leafadd make of a node with n slots in use.
Shifted(node, n, j, d) == Put(Paste(node, j, n - j, node, j + 1), j, d)

\* They leave the merged slots at the front, and the others as they are.
LEMMA ShiftedSlots ==
    ASSUME NEW N \in Nat, NEW node, DOMAIN node = 0 .. N - 1, NEW d,
           NEW n \in 0 .. N - 1, NEW j \in 0 .. n
    PROVE  Shifted(node, n, j, d)
               = Over(Merged(node, n, j, d), n + 1, node)
<1> DEFINE P == Paste(node, j, n - j, node, j + 1)
<1>1. P = [i \in 0 .. N - 1 |-> IF i >= j + 1 /\ i < j + 1 + (n - j) THEN node[j + i - (j + 1)] ELSE node[i]]
  BY DEF Paste
<1> HIDE DEF P
<1>2. Shifted(node, n, j, d) = [i \in 0 .. N - 1 |-> IF i = j THEN d ELSE P[i]]
  BY <1>1 DEF Put, P, Shifted
<1>3. ASSUME NEW i \in 0 .. N - 1
      PROVE  (IF i = j THEN d ELSE P[i]) = IF i < n + 1 THEN Merged(node, n, j, d)[i] ELSE node[i]
  <2>1. i >= j + 1 /\ i < j + 1 + (n - j) => P[i] = node[i - 1]
    <3>1. j + i - (j + 1) = i - 1
      OBVIOUS
    <3> QED BY <1>1, <3>1
  <2>2. ~(i >= j + 1 /\ i < j + 1 + (n - j)) => P[i] = node[i]
    BY <1>1
  <2>3. i <= n => Merged(node, n, j, d)[i] = IF i < j THEN node[i] ELSE IF i = j THEN d ELSE node[i - 1]
    BY DEF Merged
  <2> QED BY <2>1, <2>2, <2>3
<1> QED BY <1>2, <1>3 DEF Over

\* What a split leaves in the left page, of which it uses the first m slots.
LEMMA LeftHalf ==
    ASSUME NEW N \in Nat, NEW node, DOMAIN node = 0 .. N - 1, node = [i \in 0 .. N - 1 |-> node[i]],
           NEW d, NEW last \in 0 .. N - 1, NEW j \in 0 .. N
    PROVE  (IF j <= last THEN Shifted(node, last, j, d) ELSE node)
               = Over(Merged(node, N, j, d), last + 1, node)
<1> DEFINE M == Merged(node, N, j, d)
           L == Merged(node, last, j, d)
<1>1. CASE j <= last
  <2>1. j \in 0 .. last
    BY <1>1
  <2>2. Shifted(node, last, j, d) = Over(L, last + 1, node)
    BY <2>1, ShiftedSlots
  <2>3. \A i \in 0 .. last : L[i] = M[i]
    BY DEF Merged
  <2> HIDE DEF L, M
  <2>4. ASSUME NEW i \in 0 .. N - 1
        PROVE  (IF i < last + 1 THEN L[i] ELSE node[i]) = IF i < last + 1 THEN M[i] ELSE node[i]
    BY <2>3
  <2>5. Over(L, last + 1, node) = Over(M, last + 1, node)
    BY <2>4 DEF Over
  <2> QED BY <1>1, <2>2, <2>5 DEF M
<1>2. CASE ~(j <= last)
  <2>1. \A i \in 0 .. N - 1 : i < last + 1 => M[i] = node[i]
    BY <1>2 DEF Merged
  <2> HIDE DEF M
  <2>2. [i \in 0 .. N - 1 |-> node[i]] = [i \in 0 .. N - 1 |-> IF i < last + 1 THEN M[i] ELSE node[i]]
    BY <2>1
  <2> QED BY <1>2, <2>2 DEF M, Over
<1> QED BY <1>1, <1>2

\* What a split makes of the right page.
MovedRight(node, N, half, j, d, empty) ==
    IF j <= half THEN Paste(node, half, N - half, empty, 0)
    ELSE Put(Paste(node, j, N - j, Paste(node, half + 1, j - 1 - half, empty, 0), j - half),
             j - 1 - half, d)

\* It holds the merged slots from half + 1 on.
LEMMA RightHalf ==
    ASSUME NEW N \in Nat, NEW node, NEW d, NEW empty, DOMAIN empty = 0 .. N - 1,
           NEW half \in 0 .. N - 1, NEW j \in 0 .. N
    PROVE  MovedRight(node, N, half, j, d, empty)
               = Over(After(Merged(node, N, j, d), half), N - half, empty)
<1> DEFINE M == Merged(node, N, j, d)
           R == MovedRight(node, N, half, j, d, empty)
<1>0. ASSUME NEW i \in 0 .. N - half - 1
      PROVE  /\ half + 1 + i < j => M[half + 1 + i] = node[half + 1 + i]
             /\ half + 1 + i = j => M[half + 1 + i] = d
             /\ half + 1 + i > j => M[half + 1 + i] = node[half + i]
  <2>1. half + 1 + i \in 0 .. N /\ half + 1 + i - 1 = half + i
    OBVIOUS
  <2> QED BY <2>1 DEF Merged
<1> HIDE DEF M
<1>3. R = [i \in 0 .. N - 1 |-> IF i < N - half THEN M[half + 1 + i] ELSE empty[i]]
  <2>1. CASE j <= half
    <3>1. R = [i \in 0 .. N - 1 |-> IF i >= 0 /\ i < 0 + (N - half) THEN node[half + i - 0] ELSE empty[i]]
      BY <2>1 DEF Paste, MovedRight
    <3>2. ASSUME NEW i \in 0 .. N - 1
          PROVE  (IF i >= 0 /\ i < 0 + (N - half) THEN node[half + i - 0] ELSE empty[i])
                     = IF i < N - half THEN M[half + 1 + i] ELSE empty[i]
      <4>1. i < N - half => M[half + 1 + i] = node[half + i]
        <5>1. i < N - half => i \in 0 .. N - half - 1 /\ half + 1 + i > j
          BY <2>1
        <5> QED BY <1>0, <5>1
      <4>2. half + i - 0 = half + i
        OBVIOUS
      <4> QED BY <4>1, <4>2
    <3> HIDE DEF R
    <3> QED BY <3>1, <3>2 DEF M, R
  <2>2. CASE ~(j <= half)
    <3> DEFINE a == Paste(node, half + 1, j - 1 - half, empty, 0)
               b == Paste(node, j, N - j, a, j - half)
    <3>1. a = [i \in 0 .. N - 1 |-> IF i >= 0 /\ i < 0 + (j - 1 - half) THEN node[half + 1 + i - 0] ELSE empty[i]]
      BY DEF Paste
    <3>2. b = [i \in 0 .. N - 1 |-> IF i >= j - half /\ i < j - half + (N - j) THEN node[j + i - (j - half)] ELSE a[i]]
      BY <3>1 DEF Paste
    <3>3. R = [i \in 0 .. N - 1 |-> IF i = j - 1 - half THEN d ELSE b[i]]
      BY <2>2, <3>2 DEF Put, MovedRight
    <3> HIDE DEF a, b, R
    <3>4. ASSUME NEW i \in 0 .. N - 1
          PROVE  (IF i = j - 1 - half THEN d ELSE b[i]) = IF i < N - half THEN M[half + 1 + i] ELSE empty[i]
      <4>1. CASE i < j - 1 - half
        <5>1. b[i] = a[i] /\ a[i] = node[half + 1 + i - 0] /\ half + 1 + i - 0 = half + 1 + i
          BY <3>1, <3>2, <4>1
        <5>2. i < N - half /\ half + 1 + i < j
          BY <4>1
        <5> QED BY <1>0, <5>1, <5>2, <4>1
      <4>2. CASE i = j - 1 - half
        BY <1>0, <4>2
      <4>3. CASE i > j - 1 - half /\ i < N - half
        <5>1. b[i] = node[j + i - (j - half)] /\ j + i - (j - half) = half + i
          BY <3>2, <4>3
        <5> QED BY <1>0, <5>1, <4>3
      <4>4. CASE i >= N - half
        <5>1. b[i] = a[i] /\ a[i] = empty[i]
          BY <3>1, <3>2, <4>4, <2>2
        <5> QED BY <5>1, <4>4
      <4> QED BY <4>1, <4>2, <4>3, <4>4
    <3> QED BY <3>3, <3>4 DEF M, R
  <2> QED BY <2>1, <2>2
<1>4. ASSUME NEW i \in 0 .. N - 1, i < N - half  PROVE After(M, half)[i] = M[half + 1 + i]
  BY DEF After
<1> HIDE DEF R
<1> QED BY <1>3, <1>4 DEF Over, M, R

----------------------------------------------------------------------------
(* Keys and the children between them. *)

\* The first n hashes of the node ascend, and are in X.
Keyed(node, n, X) ==
    /\ \A i, j \in 0 .. n - 1 : i < j => node[i].hash < node[j].hash
    /\ \A i \in 0 .. n - 1 : node[i].hash \in X

\* The hashes between key k and the next one.
Slice(node, n, k) ==
    {h \in Nat : /\ k >= 0 => node[k].hash <= h
                 /\ k + 1 < n => h < node[k + 1].hash}

\* Child k of a page.
Kid(child, node, k) == IF k < 0 THEN child ELSE node[k].buf

\* The children among n keys share X out by those keys: W has each one's part.
Fan(child, node, n, X, W) ==
    /\ Keyed(node, n, X)
    /\ \A k \in -1 .. n - 1 : W[Kid(child, node, k)] = X \cap Slice(node, n, k)

\* Both depend on the slots in use only.
LEMMA KeyedSame ==
    ASSUME NEW a, NEW b, NEW n \in Nat, NEW X,
           \A i \in 0 .. n - 1 : a[i] = b[i], Keyed(a, n, X)
    PROVE  Keyed(b, n, X)
BY DEF Keyed

\* Nodes that agree on their first n slots share a set out to the same children.
LEMMA FanSame ==
    ASSUME NEW child, NEW a, NEW b, NEW n \in Nat, NEW X, NEW W,
           \A i \in 0 .. n - 1 : a[i] = b[i], Fan(child, a, n, X, W)
    PROVE  Fan(child, b, n, X, W)
<1>1. Keyed(b, n, X)
  BY KeyedSame DEF Fan
<1>2. ASSUME NEW k \in -1 .. n - 1  PROVE W[Kid(child, b, k)] = X \cap Slice(b, n, k)
  <2>1. Kid(child, a, k) = Kid(child, b, k)
    BY DEF Kid
  <2>2. Slice(a, n, k) = Slice(b, n, k)
    BY DEF Slice
  <2> QED BY <2>1, <2>2 DEF Fan
<1> QED BY <1>1, <1>2 DEF Fan

\* A hash that is not among the keys goes between them where Where says.
LEMMA KeyedInsert ==
    ASSUME NEW node, NEW n \in Nat, NEW X \in SUBSET Nat, NEW d, Keyed(node, n, X),
           d.hash \in X, \A i \in 0 .. n - 1 : node[i].hash # d.hash
    PROVE  Keyed(Merged(node, n, Where(node, n, d.hash), d), n + 1, X)
<1> DEFINE j == Where(node, n, d.hash)
           M == Merged(node, n, j, d)
<1>1. \A i \in 0 .. n - 1 : node[i].hash \in Nat
  BY DEF Keyed
<1>2. /\ j \in 0 .. n
      /\ j < n => d.hash < node[j].hash
      /\ \A i \in 0 .. j - 1 : ~(d.hash < node[i].hash)
  BY <1>1, WhereIs
<1> HIDE DEF j
<1>3. /\ \A i \in 0 .. j - 1 : node[i].hash < d.hash
      /\ \A i \in j .. n - 1 : d.hash < node[i].hash
  <2>1. d.hash \in Nat
    OBVIOUS
  <2>2. ASSUME NEW i \in 0 .. j - 1  PROVE node[i].hash < d.hash
    <3>1. i \in 0 .. n - 1 /\ ~(d.hash < node[i].hash)
      BY <1>2
    <3> QED BY <1>1, <2>1, <3>1
  <2>3. ASSUME NEW i \in j .. n - 1  PROVE d.hash < node[i].hash
    <3>1. i \in 0 .. n - 1 /\ j \in 0 .. n - 1 /\ d.hash < node[j].hash
      BY <1>2
    <3>2. j < i => node[j].hash < node[i].hash
      BY <3>1 DEF Keyed
    <3> QED BY <1>1, <2>1, <3>1, <3>2
  <2> QED BY <2>2, <2>3
<1>4. ASSUME NEW i \in 0 .. n
      PROVE  M[i] = IF i < j THEN node[i] ELSE IF i = j THEN d ELSE node[i - 1]
  BY DEF Merged
<1> HIDE DEF M
<1>5. ASSUME NEW i \in 0 .. n  PROVE M[i].hash \in X
  BY <1>2, <1>4 DEF Keyed
<1>6. ASSUME NEW i \in 0 .. n, NEW k \in 0 .. n, i < k  PROVE M[i].hash < M[k].hash
  <2>1. CASE k < j
    BY <1>2, <1>4, <1>6, <2>1 DEF Keyed
  <2>2. CASE k = j
    BY <1>2, <1>3, <1>4, <1>6, <2>2
  <2>3. CASE k > j
    <3>1. M[k] = node[k - 1] /\ k - 1 \in j .. n - 1
      BY <1>2, <1>4, <2>3
    <3>2. CASE i < j
      BY <1>2, <1>4, <1>6, <3>1, <3>2 DEF Keyed
    <3>3. CASE i = j
      BY <1>2, <1>3, <1>4, <1>6, <3>1, <3>3
    <3>4. CASE i > j
      <4>1. M[i] = node[i - 1] /\ i - 1 \in 0 .. n - 1 /\ k - 1 \in 0 .. n - 1 /\ i - 1 < k - 1
        BY <1>2, <1>4, <1>6, <3>4
      <4> QED BY <3>1, <4>1 DEF Keyed
    <3> QED BY <1>2, <3>2, <3>3, <3>4
  <2> QED BY <1>2, <2>1, <2>2, <2>3
<1> QED BY <1>5, <1>6 DEF Keyed, M, j

\* The keys below a hash u are those of what is below u, and the keys past h that
\* are not below u those of the rest.
LEMMA KeyedFront ==
    ASSUME NEW node, NEW n \in Nat, NEW X, NEW m \in 0 .. n, NEW u, Keyed(node, n, X),
           \A i \in 0 .. m - 1 : node[i].hash < u
    PROVE  Keyed(node, m, {x \in X : x < u})
BY DEF Keyed

\* The keys that follow slot h, without it, are keyed by the hashes not below u.
LEMMA KeyedBack ==
    ASSUME NEW node, NEW n \in Nat, NEW X, NEW h \in 0 .. n - 1, NEW u, Keyed(node, n, X),
           \A i \in h + 1 .. n - 1 : ~(node[i].hash < u)
    PROVE  Keyed(After(node, h), n - h - 1, {x \in X : ~(x < u)})
<1>1. ASSUME NEW i \in 0 .. n - h - 1 - 1
      PROVE  After(node, h)[i] = node[h + 1 + i] /\ h + 1 + i \in h + 1 .. n - 1 /\ h + 1 + i \in 0 .. n - 1
  BY DEF After
<1>2. ASSUME NEW i \in 0 .. n - h - 1 - 1, NEW j \in 0 .. n - h - 1 - 1, i < j
      PROVE  After(node, h)[i].hash < After(node, h)[j].hash
  BY <1>1, <1>2 DEF Keyed
<1>3. ASSUME NEW i \in 0 .. n - h - 1 - 1  PROVE After(node, h)[i].hash \in {x \in X : ~(x < u)}
  BY <1>1 DEF Keyed
<1> QED BY <1>2, <1>3 DEF Keyed

\* Different children have different shares, so they are different.
LEMMA FanDistinct ==
    ASSUME NEW child, NEW node, NEW n \in Nat, NEW X \in SUBSET Nat, NEW W, Fan(child, node, n, X, W),
           NEW k \in -1 .. n - 1, NEW m \in -1 .. n - 1, m # k,
           NEW x \in W[Kid(child, node, k)]
    PROVE  x \notin W[Kid(child, node, m)]
<1>1. /\ W[Kid(child, node, k)] = X \cap Slice(node, n, k)
      /\ W[Kid(child, node, m)] = X \cap Slice(node, n, m)
  BY DEF Fan
<1>2. \A i \in 0 .. n - 1 : node[i].hash \in Nat
  BY DEF Fan, Keyed
<1>3. ASSUME NEW a \in -1 .. n - 1, NEW b \in -1 .. n - 1, a < b, x \in Slice(node, n, a)
      PROVE  x \notin Slice(node, n, b)
  <2>1. a + 1 \in 0 .. n - 1 /\ b \in 0 .. n - 1 /\ x \in Nat /\ x < node[a + 1].hash
    BY <1>3 DEF Slice
  <2>2. a + 1 < b => node[a + 1].hash < node[b].hash
    BY <2>1 DEF Fan, Keyed
  <2>3. x < node[b].hash
    BY <1>2, <1>3, <2>1, <2>2
  <2> QED BY <1>2, <2>1, <2>3 DEF Slice
<1>4. CASE k < m
  BY <1>1, <1>3, <1>4
<1>5. CASE m < k
  BY <1>1, <1>3, <1>5
<1> QED BY <1>4, <1>5

\* When child k gives the part from d.hash on to a new child, the new child's place
\* is the one Where finds, and the children still share X out.
LEMMA FanInsert ==
    ASSUME NEW child, NEW node, NEW n \in Nat, NEW X \in SUBSET Nat, NEW W, NEW W2, NEW d,
           Fan(child, node, n, X, W), NEW k \in -1 .. n - 1,
           d.hash \in W[Kid(child, node, k)],
           NEW x \in W[Kid(child, node, k)], x < d.hash,
           W2[Kid(child, node, k)] = {h \in W[Kid(child, node, k)] : h < d.hash},
           W2[d.buf] = {h \in W[Kid(child, node, k)] : ~(h < d.hash)},
           \A m \in -1 .. n - 1 : m # k => W2[Kid(child, node, m)] = W[Kid(child, node, m)]
    PROVE  /\ Where(node, n, d.hash) = k + 1
           /\ Fan(child, Merged(node, n, k + 1, d), n + 1, X, W2)
<1> DEFINE u == d.hash
           M == Merged(node, n, k + 1, d)
<1>1. \A i \in 0 .. n - 1 : node[i].hash \in Nat
  BY DEF Fan, Keyed
<1>2. /\ W[Kid(child, node, k)] = X \cap Slice(node, n, k)
      /\ u \in Nat /\ u \in X /\ u \in Slice(node, n, k) /\ x \in Nat /\ x \in Slice(node, n, k)
  BY DEF Fan
<1>3. /\ k >= 0 => node[k].hash < u
      /\ k + 1 < n => u < node[k + 1].hash
  <2>1. k >= 0 => node[k].hash <= x
    BY <1>2 DEF Slice
  <2>2. k >= 0 => k \in 0 .. n - 1
    OBVIOUS
  <2>3. k + 1 < n => u < node[k + 1].hash
    BY <1>2 DEF Slice
  <2> QED BY <1>1, <1>2, <2>1, <2>2, <2>3
<1>4. /\ \A i \in 0 .. k : node[i].hash < u
      /\ \A i \in k + 1 .. n - 1 : u < node[i].hash
  <2>1. ASSUME NEW i \in 0 .. k  PROVE node[i].hash < u
    <3>1. k \in 0 .. n - 1 /\ i \in 0 .. n - 1
      OBVIOUS
    <3>2. i < k => node[i].hash < node[k].hash
      BY <3>1 DEF Fan, Keyed
    <3> QED BY <1>1, <1>2, <1>3, <3>1, <3>2
  <2>2. ASSUME NEW i \in k + 1 .. n - 1  PROVE u < node[i].hash
    <3>1. k + 1 \in 0 .. n - 1 /\ i \in 0 .. n - 1
      OBVIOUS
    <3>2. k + 1 < i => node[k + 1].hash < node[i].hash
      BY <3>1 DEF Fan, Keyed
    <3> QED BY <1>1, <1>2, <1>3, <3>1, <3>2
  <2> QED BY <2>1, <2>2
<1> HIDE DEF u
<1>5. Where(node, n, u) = k + 1
  <2> DEFINE j == Where(node, n, u)
  <2>1. /\ j \in 0 .. n
        /\ j < n => u < node[j].hash
        /\ \A i \in 0 .. j - 1 : ~(u < node[i].hash)
    BY <1>1, <1>2, WhereIs
  <2> HIDE DEF j
  <2>2. ~(j < k + 1)
    <3> SUFFICES ASSUME j < k + 1  PROVE FALSE
      OBVIOUS
    <3>1. j \in 0 .. n - 1 /\ node[j].hash < u
      BY <1>4, <2>1
    <3> QED BY <1>1, <1>2, <2>1, <3>1
  <2>3. ~(j > k + 1)
    <3> SUFFICES ASSUME j > k + 1  PROVE FALSE
      OBVIOUS
    <3>1. k + 1 \in 0 .. j - 1 /\ k + 1 \in k + 1 .. n - 1
      BY <2>1
    <3> QED BY <1>4, <2>1, <3>1
  <2> QED BY <2>1, <2>2, <2>3 DEF j
<1>6. Keyed(M, n + 1, X)
  <2>1. \A i \in 0 .. n - 1 : node[i].hash # u
    BY <1>1, <1>2, <1>4
  <2>2. Keyed(node, n, X)
    BY DEF Fan
  <2> QED BY <1>2, <1>5, <2>1, <2>2, KeyedInsert DEF u
<1>7. ASSUME NEW i \in 0 .. n
      PROVE  M[i] = IF i < k + 1 THEN node[i] ELSE IF i = k + 1 THEN d ELSE node[i - 1]
  BY DEF Merged
<1> HIDE DEF M
<1>8. ASSUME NEW m \in -1 .. n  PROVE W2[Kid(child, M, m)] = X \cap Slice(M, n + 1, m)
  <2>1. CASE m < k
    <3>1. Kid(child, M, m) = Kid(child, node, m)
      <4>1. m >= 0 => M[m] = node[m]
        BY <1>7, <2>1
      <4> QED BY <4>1 DEF Kid
    <3>2. Slice(M, n + 1, m) = Slice(node, n, m)
      <4>1. /\ m >= 0 => M[m] = node[m]
            /\ M[m + 1] = node[m + 1]
            /\ m + 1 < n + 1 /\ m + 1 < n
        BY <1>7, <2>1
      <4> QED BY <4>1 DEF Slice
    <3>3. m \in -1 .. n - 1 /\ m # k
      BY <2>1
    <3> QED BY <3>1, <3>2, <3>3 DEF Fan
  <2>2. CASE m = k
    <3>1. Kid(child, M, m) = Kid(child, node, k)
      <4>1. m >= 0 => M[m] = node[m]
        BY <1>7, <2>2
      <4> QED BY <2>2, <4>1 DEF Kid
    <3>2. Slice(M, n + 1, k) = {h \in Slice(node, n, k) : h < u}
      <4>1. /\ k >= 0 => M[k] = node[k]
            /\ M[k + 1] = d /\ k + 1 < n + 1
        BY <1>7
      <4>2. k + 1 < n => k + 1 \in 0 .. n - 1
        OBVIOUS
      <4> QED BY <1>1, <1>2, <1>3, <4>1, <4>2 DEF Slice, u
    <3> QED BY <1>2, <2>2, <3>1, <3>2 DEF u
  <2>3. CASE m = k + 1
    <3>1. Kid(child, M, m) = d.buf
      BY <1>7, <2>3 DEF Kid
    <3>2. Slice(M, n + 1, k + 1) = {h \in Slice(node, n, k) : ~(h < u)}
      <4>1. /\ M[k + 1] = d
            /\ k + 2 < n + 1 => M[k + 2] = node[k + 1]
        BY <1>7
      <4>2. /\ k >= 0 => k \in 0 .. n - 1
            /\ k + 1 + 1 < n + 1 <=> k + 1 < n
            /\ k + 1 + 1 = k + 2 /\ k + 1 >= 0
        OBVIOUS
      <4> QED BY <1>1, <1>2, <1>3, <4>1, <4>2 DEF Slice, u
    <3> QED BY <1>2, <2>3, <3>1, <3>2 DEF u
  <2>4. CASE m > k + 1
    <3>1. M[m] = node[m - 1] /\ m - 1 \in 0 .. n - 1 /\ m - 1 # k
      BY <1>7, <2>4
    <3>2. Kid(child, M, m) = Kid(child, node, m - 1)
      BY <2>4, <3>1 DEF Kid
    <3>3. Slice(M, n + 1, m) = Slice(node, n, m - 1)
      <4>1. m + 1 < n + 1 => M[m + 1] = node[m]
        BY <1>7, <2>4
      <4>2. m + 1 < n + 1 <=> (m - 1) + 1 < n
        OBVIOUS
      <4>3. (m - 1) + 1 = m /\ m >= 0 /\ m - 1 >= 0
        BY <3>1
      <4> QED BY <3>1, <4>1, <4>2, <4>3 DEF Slice
    <3> QED BY <3>1, <3>2, <3>3 DEF Fan
  <2> QED BY <2>1, <2>2, <2>3, <2>4
<1>9. Fan(child, M, n + 1, X, W2)
  BY <1>6, <1>8 DEF Fan
<1> QED BY <1>5, <1>9 DEF M, u

\* The fan of a split page: the children before key h below that key's hash, and the
\* others, the first of them the child of the key itself.
LEMMA FanFront ==
    ASSUME NEW child, NEW node, NEW n \in Nat, NEW X \in SUBSET Nat, NEW W,
           Fan(child, node, n, X, W), NEW h \in 0 .. n - 1
    PROVE  Fan(child, node, h, {x \in X : x < node[h].hash}, W)
<1> DEFINE u == node[h].hash
           Y == {x \in X : x < u}
<1>1. \A i \in 0 .. n - 1 : node[i].hash \in Nat
  BY DEF Fan, Keyed
<1>2. \A i, j \in 0 .. n - 1 : i < j => node[i].hash < node[j].hash
  BY DEF Fan, Keyed
<1>3. Keyed(node, h, Y)
  <2>1. \A i \in 0 .. h - 1 : node[i].hash < node[h].hash
    BY <1>2
  <2>2. h \in 0 .. n /\ Keyed(node, n, X)
    BY DEF Fan
  <2> QED BY <2>1, <2>2, KeyedFront
<1>4. ASSUME NEW k \in -1 .. h - 1  PROVE W[Kid(child, node, k)] = Y \cap Slice(node, h, k)
  <2>1. W[Kid(child, node, k)] = X \cap Slice(node, n, k)
    BY DEF Fan
  <2>2. k + 1 < n /\ k + 1 \in 0 .. n - 1
    OBVIOUS
  <2>3. k + 1 = h \/ (k + 1 < h /\ node[k + 1].hash < u)
    BY <1>2
  <2>4. ASSUME NEW y \in X  PROVE y \in Slice(node, n, k) <=> y < u /\ y \in Slice(node, h, k)
    <3>1. y \in Nat
      OBVIOUS
    <3>2. CASE k + 1 = h
      BY <2>2, <3>1, <3>2 DEF Slice
    <3>3. CASE k + 1 < h /\ node[k + 1].hash < u
      BY <1>1, <2>2, <3>1, <3>3 DEF Slice
    <3> QED BY <2>3, <3>2, <3>3
  <2> QED BY <2>1, <2>4
<1> QED BY <1>3, <1>4 DEF Fan

\* The keys that follow slot h share out the hashes not below its own, over its child.
LEMMA FanBack ==
    ASSUME NEW child, NEW node, NEW n \in Nat, NEW X \in SUBSET Nat, NEW W,
           Fan(child, node, n, X, W), NEW h \in 0 .. n - 1
    PROVE  Fan(node[h].buf, After(node, h), n - h - 1, {x \in X : ~(x < node[h].hash)}, W)
<1> DEFINE u == node[h].hash
           Y == {x \in X : ~(x < u)}
           B == After(node, h)
<1>1. \A i \in 0 .. n - 1 : node[i].hash \in Nat
  BY DEF Fan, Keyed
<1>2. \A i, j \in 0 .. n - 1 : i < j => node[i].hash < node[j].hash
  BY DEF Fan, Keyed
<1>3. Keyed(B, n - h - 1, Y)
  <2>1. \A i \in h + 1 .. n - 1 : ~(node[i].hash < node[h].hash)
    BY <1>1, <1>2
  <2>2. Keyed(node, n, X)
    BY DEF Fan
  <2> QED BY <2>1, <2>2, KeyedBack
<1>4. ASSUME NEW i \in 0 .. n - h - 1 - 1
      PROVE  B[i] = node[h + 1 + i] /\ h + 1 + i \in h + 1 .. n - 1 /\ h + 1 + i \in 0 .. n - 1
  BY DEF After
<1> HIDE DEF B
<1>5. ASSUME NEW k \in -1 .. n - h - 1 - 1
      PROVE  W[Kid(node[h].buf, B, k)] = Y \cap Slice(B, n - h - 1, k)
  <2>1. h + 1 + k \in 0 .. n - 1
    OBVIOUS
  <2>2. W[Kid(child, node, h + 1 + k)] = X \cap Slice(node, n, h + 1 + k)
    BY <2>1 DEF Fan
  <2>3. Kid(node[h].buf, B, k) = Kid(child, node, h + 1 + k)
    <3>1. CASE k = -1
      BY <3>1 DEF Kid
    <3>2. CASE k >= 0
      BY <1>4, <3>2 DEF Kid
    <3> QED BY <3>1, <3>2
  <2>4. ASSUME NEW y \in X  PROVE y \in Slice(node, n, h + 1 + k) <=> ~(y < u) /\ y \in Slice(B, n - h - 1, k)
    <3>1. y \in Nat
      OBVIOUS
    <3>2. /\ k + 1 < n - h - 1 <=> h + 1 + k + 1 < n
          /\ k + 1 < n - h - 1 => B[k + 1] = node[h + 1 + k + 1]
      BY <1>4
    <3>3. CASE k = -1
      <4>1. node[h + 1 + k].hash = u /\ h + 1 + k >= 0 /\ ~(k >= 0) /\ u \in Nat
        BY <1>1, <3>3
      <4> QED BY <3>1, <3>2, <4>1 DEF Slice
    <3>4. CASE k >= 0
      <4>1. B[k] = node[h + 1 + k] /\ u < node[h + 1 + k].hash /\ h + 1 + k >= 0
        BY <1>2, <1>4, <3>4
      <4>2. u \in Nat /\ node[h + 1 + k].hash \in Nat
        BY <1>1, <2>1
      <4> QED BY <3>1, <3>2, <3>4, <4>1, <4>2 DEF Slice
    <3> QED BY <3>3, <3>4
  <2> QED BY <2>2, <2>3, <2>4
<1> QED BY <1>3, <1>5 DEF Fan, B

----------------------------------------------------------------------------
(* What a B+ tree is, whatever the sizes of its pages.  The pages 1..n are g; H has  *)
(* the height of each, R the hashes it is there for.  While a split climbs, page r   *)
(* is not hung yet and its parent still leads all of R[l] and R[r] to its neighbour  *)
(* l; otherwise l and r are 0.                                                       *)

KidSet(child, node, n) == {Kid(child, node, k) : k \in -1 .. n - 1}
Kids(pg) == KidSet(pg.child, pg.node, pg.len)

\* What the keys of its parent lead to a page.
Span(R, l, r) == [p \in DOMAIN R |-> IF p = l THEN R[l] \cup R[r] ELSE R[p]]

\* The root is there for all hashes and is the highest page.
Rooted(g, n, first, H, R, l, r) ==
    /\ first \in 1 .. n /\ first # r /\ g[first].parent = 0
    /\ Span(R, l, r)[first] = Nat
    /\ H[first] < n
    /\ \A p \in 1 .. n : H[p] <= H[first]

\* Every page has keys, its own, and those of an index page steer to its children.
Steered(pg, h, X, W) ==
    /\ pg.len \in Nat \ {0}
    /\ \/ pg.type = "leaf" /\ h = 0 /\ Keyed(pg.node, pg.len, X)
       \/ pg.type = "index" /\ h # 0 /\ Fan(pg.child, pg.node, pg.len, X, W)

\* The children of an index page are pages one level down that know their parent.
Fathered(g, n, H, p, r) ==
    g[p].type = "index" =>
        \A c \in Kids(g[p]) : c \in 1 .. n /\ c # r /\ H[c] + 1 = H[p] /\ g[c].parent = p

\* A page is a child of the page it takes for its parent.
KnowsParent(g, n, q) ==
    g[q].parent \in 1 .. n /\ g[g[q].parent].type = "index" /\ q \in Kids(g[g[q].parent])

Sound(g, n, first, H, R, l, r) ==
    /\ n \in Nat /\ H \in [1 .. n -> Nat] /\ R \in [1 .. n -> SUBSET Nat]
    /\ Rooted(g, n, first, H, R, l, r)
    /\ \A p \in 1 .. n : Steered(g[p], H[p], R[p], Span(R, l, r))
    /\ \A p \in 1 .. n : Fathered(g, n, H, p, r)
    /\ \A q \in 1 .. n : q # first /\ q # r => KnowsParent(g, n, q)
    /\ \A p, q \in 1 .. n : p # q /\ H[p] = H[q] => R[p] \cap R[q] = {}

\* Page r holds the hashes from u on of those page l was there for.
Torn(g, n, H, R, l, r, u) ==
    /\ l \in 1 .. n /\ r \in 1 .. n /\ l # r
    /\ H[l] = H[r] /\ g[r].parent = 0
    /\ u \in R[r] /\ R[l] # {}
    /\ \A x \in R[l] : x < u
    /\ \A x \in R[r] : ~(x < u)

\* Each child between two keys is among the children.
LEMMA KidIn ==
    ASSUME NEW child, NEW node, NEW n, NEW k \in -1 .. n - 1
    PROVE  Kid(child, node, k) \in KidSet(child, node, n)
BY DEF KidSet

\* None of this depends on the slots past the last in use.
Alike(a, b) ==
    /\ a.type = b.type /\ a.len = b.len /\ a.child = b.child /\ a.parent = b.parent
    /\ \A i \in 0 .. a.len - 1 : a.node[i] = b.node[i]

\* Pages alike in their slots in use have the same children.
LEMMA AlikeKids ==
    ASSUME NEW a, NEW b, a.len \in Nat, Alike(a, b)
    PROVE  Kids(a) = Kids(b)
<1>1. ASSUME NEW k \in -1 .. a.len - 1  PROVE Kid(a.child, a.node, k) = Kid(b.child, b.node, k)
  BY DEF Alike, Kid
<1>2. a.len = b.len
  BY DEF Alike
<1> QED BY <1>1, <1>2 DEF Kids, KidSet, Alike

\* So a tree is sound also when each page is replaced by one alike.
LEMMA SoundSame ==
    ASSUME NEW g, NEW g2, NEW n, NEW first, NEW H, NEW R, NEW l, NEW r,
           Sound(g, n, first, H, R, l, r), \A p \in 1 .. n : Alike(g[p], g2[p])
    PROVE  Sound(g2, n, first, H, R, l, r)
<1> DEFINE W == Span(R, l, r)
<1>0. \A p \in 1 .. n : /\ g[p].len \in Nat
                        /\ g[p].type = g2[p].type /\ g[p].len = g2[p].len
                        /\ g[p].child = g2[p].child /\ g[p].parent = g2[p].parent
                        /\ \A i \in 0 .. g[p].len - 1 : g[p].node[i] = g2[p].node[i]
  BY DEF Sound, Steered, Alike
<1>1. \A p \in 1 .. n : Kids(g[p]) = Kids(g2[p])
  BY <1>0, AlikeKids
<1>2. Rooted(g2, n, first, H, R, l, r)
  BY <1>0 DEF Sound, Rooted
<1> HIDE DEF W
<1>3. ASSUME NEW p \in 1 .. n  PROVE Steered(g2[p], H[p], R[p], W)
  <2>1. Steered(g[p], H[p], R[p], W)
    BY DEF Sound, W
  <2>2. Keyed(g[p].node, g[p].len, R[p]) => Keyed(g2[p].node, g[p].len, R[p])
    BY <1>0, KeyedSame
  <2>3. Fan(g[p].child, g[p].node, g[p].len, R[p], W) => Fan(g[p].child, g2[p].node, g[p].len, R[p], W)
    BY <1>0, FanSame
  <2> QED BY <1>0, <2>1, <2>2, <2>3 DEF Steered
<1>4. ASSUME NEW p \in 1 .. n  PROVE Fathered(g2, n, H, p, r)
  <2>1. Fathered(g, n, H, p, r)
    BY DEF Sound
  <2> QED BY <1>0, <1>1, <2>1 DEF Fathered
<1>5. ASSUME NEW q \in 1 .. n, q # first, q # r  PROVE KnowsParent(g2, n, q)
  <2>1. KnowsParent(g, n, q)
    BY <1>5 DEF Sound
  <2> QED BY <1>0, <1>1, <2>1 DEF KnowsParent
<1> QED BY <1>2, <1>3, <1>4, <1>5 DEF Sound, W

\* No page is there for nothing, so the children of a page are all different.
LEMMA NoneIdle ==
    ASSUME NEW g, NEW n, NEW first, NEW H, NEW R, NEW l, NEW r,
           Sound(g, n, first, H, R, l, r), NEW p \in 1 .. n
    PROVE  R[p] # {} /\ R[p] \in SUBSET Nat
<1>1. g[p].len \in Nat \ {0} /\ Keyed(g[p].node, g[p].len, R[p])
  BY DEF Sound, Steered, Fan
<1>2. g[p].node[0].hash \in R[p]
  BY <1>1 DEF Keyed
<1> QED BY <1>2 DEF Sound

\* A child that is there for something stands in one place of its page only.
LEMMA KidsDiffer ==
    ASSUME NEW child, NEW node, NEW n \in Nat, NEW X \in SUBSET Nat, NEW W, Fan(child, node, n, X, W),
           NEW k \in -1 .. n - 1, NEW m \in -1 .. n - 1, m # k, W[Kid(child, node, k)] # {}
    PROVE  Kid(child, node, k) # Kid(child, node, m)
<1>1. PICK x \in W[Kid(child, node, k)] : TRUE
  OBVIOUS
<1>2. x \notin W[Kid(child, node, m)]
  BY FanDistinct
<1> QED BY <1>1, <1>2

\* The children of a page with one more key.
LEMMA KidsInsert ==
    ASSUME NEW pg, pg.len \in Nat, NEW j \in 0 .. pg.len, NEW d,
           NEW pg2, pg2.child = pg.child, pg2.len = pg.len + 1, pg2.node = Merged(pg.node, pg.len, j, d)
    PROVE  Kids(pg2) = Kids(pg) \cup {d.buf}
<1> DEFINE child == pg.child
           node == pg.node
           n == pg.len
           m == pg2.len
           M == pg2.node
<1>0. n \in Nat /\ j \in 0 .. n /\ m = n + 1 /\ M = Merged(node, n, j, d) /\ pg2.child = child
  OBVIOUS
<1> HIDE DEF child, node, n, m, M
<1>1. ASSUME NEW k \in -1 .. n
      PROVE  Kid(child, M, k) = IF k < j THEN Kid(child, node, k) ELSE IF k = j THEN d.buf ELSE Kid(child, node, k - 1)
  BY <1>0 DEF Merged, Kid
<1>2. ASSUME NEW k \in -1 .. n  PROVE Kid(child, M, k) \in {Kid(child, node, i) : i \in -1 .. n - 1} \cup {d.buf}
  <2>1. CASE k < j
    BY <1>0, <1>1, <2>1
  <2>2. CASE k = j
    BY <1>0, <1>1, <2>2
  <2>3. CASE k > j
    <3>1. k - 1 \in -1 .. n - 1
      BY <1>0, <2>3
    <3> QED BY <1>1, <2>3, <3>1
  <2> QED BY <1>0, <2>1, <2>2, <2>3
<1>3. ASSUME NEW k \in -1 .. n - 1  PROVE Kid(child, node, k) \in {Kid(child, M, i) : i \in -1 .. n}
  <2>1. CASE k < j
    BY <1>0, <1>1, <2>1
  <2>2. CASE k >= j
    <3>1. k + 1 \in -1 .. n /\ k + 1 > j /\ (k + 1) - 1 = k
      BY <1>0, <2>2
    <3>2. Kid(child, M, k + 1) = Kid(child, node, k)
      BY <1>1, <3>1
    <3> QED BY <3>1, <3>2
  <2> QED BY <1>0, <2>1, <2>2
<1>4. d.buf \in {Kid(child, M, i) : i \in -1 .. n}
  BY <1>0, <1>1
<1>5. m - 1 = n
  BY <1>0
<1> USE DEF child, node, n, m, M
<1> QED BY <1>2, <1>3, <1>4, <1>5 DEF KidSet, Kids

\* The pages after key d of page r is put into slot j of page a.
Hung(g, a, r, j, d) ==
    [p \in DOMAIN g |->
        IF p = a THEN [type |-> g[a].type, parent |-> g[a].parent, child |-> g[a].child,
                       len |-> g[a].len + 1, node |-> Merged(g[a].node, g[a].len, j, d)]
        ELSE IF p = r THEN [type |-> g[r].type, parent |-> a, child |-> g[r].child,
                            len |-> g[r].len, node |-> g[r].node]
        ELSE g[p]]

\* Page r, key d's, is to go into slot j of page a, the parent of l.
Goes(g, l, r, d, a, j) == d.buf = r /\ a = g[l].parent /\ j = Where(g[a].node, g[a].len, d.hash)

\* Hanging page r beside its neighbour mends the tree.
LEMMA HungSound ==
    ASSUME NEW g, NEW n, NEW first, NEW H, NEW R, NEW l, NEW r, NEW d, DOMAIN g = 1 .. n,
           Sound(g, n, first, H, R, l, r), Torn(g, n, H, R, l, r, d.hash), l # first,
           NEW a, NEW j, Goes(g, l, r, d, a, j)
    PROVE  /\ a \in 1 .. n /\ g[a].type = "index" /\ a # r /\ j \in 0 .. g[a].len
           /\ Sound(Hung(g, a, r, j, d), n, first, H, R, 0, 0)
<1> SUFFICES ASSUME d.buf = r, a = g[l].parent, j = Where(g[a].node, g[a].len, d.hash)
             PROVE  /\ a \in 1 .. n /\ g[a].type = "index" /\ a # r /\ j \in 0 .. g[a].len
                    /\ Sound(Hung(g, a, r, j, d), n, first, H, R, 0, 0)
  BY DEF Goes
<1> DEFINE u == d.hash
           W == Span(R, l, r)
           W2 == Span(R, 0, 0)
           g2 == Hung(g, a, r, j, d)
           M == Merged(g[a].node, g[a].len, j, d)
<1>0. /\ n \in Nat /\ H \in [1 .. n -> Nat] /\ R \in [1 .. n -> SUBSET Nat]
      /\ l \in 1 .. n /\ r \in 1 .. n /\ l # r /\ H[l] = H[r]
      /\ u \in R[r] /\ R[l] # {}
      /\ \A x \in R[l] : x < u
      /\ \A x \in R[r] : ~(x < u)
  BY DEF Sound, Torn
<1>1. /\ a \in 1 .. n /\ g[a].type = "index" /\ l \in Kids(g[a])
      /\ g[a].len \in Nat \ {0} /\ H[a] # 0
      /\ Fan(g[a].child, g[a].node, g[a].len, R[a], W)
  BY <1>0 DEF Sound, KnowsParent, Steered
<1>2. H[l] + 1 = H[a] /\ a # r /\ a # l
  BY <1>0, <1>1 DEF Sound, Fathered
<1>3. W = [p \in 1 .. n |-> IF p = l THEN R[l] \cup R[r] ELSE R[p]]
  BY <1>0 DEF Span
<1>4. \A p \in 1 .. n : W2[p] = R[p]
  BY <1>0 DEF Span
<1>5. PICK k \in -1 .. g[a].len - 1 : l = Kid(g[a].child, g[a].node, k)
  BY <1>1 DEF Kids, KidSet
<1>6. /\ j = k + 1
      /\ Fan(g[a].child, M, g[a].len + 1, R[a], R)
  <2> DEFINE c == g[a].child
             nd == g[a].node
             N == g[a].len
  <2>1. N \in Nat /\ R[a] \in SUBSET Nat /\ Fan(c, nd, N, R[a], W)
    BY <1>0, <1>1
  <2>2. d.hash \in W[Kid(c, nd, k)]
    BY <1>0, <1>3, <1>5
  <2>3. PICK x \in R[l] : TRUE
    BY <1>0
  <2>4. x \in W[Kid(c, nd, k)] /\ x < d.hash
    BY <1>0, <1>3, <1>5, <2>3
  <2>5. R[Kid(c, nd, k)] = {h \in W[Kid(c, nd, k)] : h < d.hash}
    BY <1>0, <1>3, <1>5
  <2>6. R[d.buf] = {h \in W[Kid(c, nd, k)] : ~(h < d.hash)}
    BY <1>0, <1>3, <1>5
  <2>7. ASSUME NEW m \in -1 .. N - 1, m # k  PROVE R[Kid(c, nd, m)] = W[Kid(c, nd, m)]
    <3>1. Kid(c, nd, m) \in Kids(g[a])
      BY DEF Kids, KidSet
    <3>2. Kid(c, nd, m) \in 1 .. n
      BY <1>1, <3>1 DEF Sound, Fathered
    <3>3. W[Kid(c, nd, k)] # {}
      BY <2>2
    <3>4. Kid(c, nd, k) # Kid(c, nd, m)
      <4>1. k \in -1 .. N - 1 /\ m \in -1 .. N - 1
        OBVIOUS
      <4> HIDE DEF c, nd, N, W
      <4> QED BY <2>1, <2>7, <3>3, <4>1, KidsDiffer
    <3> QED BY <1>3, <1>5, <3>2, <3>4
  <2> HIDE DEF c, nd, N
  <2>8. /\ Where(nd, N, d.hash) = k + 1
        /\ Fan(c, Merged(nd, N, k + 1, d), N + 1, R[a], R)
    <3>1. k \in -1 .. N - 1
      BY DEF N
    <3> QED BY <2>1, <2>2, <2>4, <2>5, <2>6, <2>7, <3>1, FanInsert
  <2> QED BY <2>8 DEF c, nd, N
<1>7. j \in 0 .. g[a].len
  BY <1>1, <1>6
<1>8. /\ g2[a].type = "index" /\ g2[a].parent = g[a].parent /\ g2[a].child = g[a].child
      /\ g2[a].len = g[a].len + 1 /\ g2[a].node = M
      /\ g2[r].type = g[r].type /\ g2[r].parent = a /\ g2[r].child = g[r].child
      /\ g2[r].len = g[r].len /\ g2[r].node = g[r].node
      /\ \A p \in 1 .. n : p # a /\ p # r => g2[p] = g[p]
  BY <1>0, <1>1, <1>2 DEF Hung
<1> HIDE DEF g2, M, W, W2
<1>9. /\ Kids(g2[a]) = Kids(g[a]) \cup {r}
      /\ \A p \in 1 .. n : p # a => Kids(g2[p]) = Kids(g[p])
  <2>1. Kids(g2[a]) = Kids(g[a]) \cup {r}
    <3>1. g[a].len \in Nat
      BY <1>1
    <3>2. g2[a].node = Merged(g[a].node, g[a].len, j, d)
      BY <1>8 DEF M
    <3>3. Kids(g2[a]) = Kids(g[a]) \cup {d.buf}
      <4> DEFINE pg == g[a]
                 pg2 == g2[a]
      <4>1. /\ pg.len \in Nat /\ j \in 0 .. pg.len
            /\ pg2.child = pg.child /\ pg2.len = pg.len + 1
            /\ pg2.node = Merged(pg.node, pg.len, j, d)
        BY <3>1, <1>7, <1>8, <3>2
      <4> HIDE DEF pg, pg2
      <4>2. Kids(pg2) = Kids(pg) \cup {d.buf}
        BY ONLY <4>1, KidsInsert
      <4> QED BY <4>2 DEF pg, pg2
    <3> QED BY <3>3
  <2>2. ASSUME NEW p \in 1 .. n, p # a  PROVE Kids(g2[p]) = Kids(g[p])
    BY <1>8, <2>2 DEF Kids
  <2> QED BY <2>1, <2>2
<1>10. Rooted(g2, n, first, H, R, 0, 0)
  <2>1. first \in 1 .. n /\ first # r /\ g[first].parent = 0 /\ W[first] = Nat
        /\ H[first] < n /\ \A p \in 1 .. n : H[p] <= H[first]
    BY DEF Sound, Rooted, W
  <2>2. W2[first] = Nat
    BY <1>3, <1>4, <2>1
  <2>3. g2[first].parent = 0
    BY <1>8, <2>1
  <2>4. first # 0
    BY <1>0, <2>1
  <2> QED BY <2>1, <2>2, <2>3, <2>4 DEF Rooted, W2
<1>11. ASSUME NEW p \in 1 .. n  PROVE Steered(g2[p], H[p], R[p], W2)
  <2>0. ASSUME NEW child, NEW node, NEW N \in Nat, NEW X, Fan(child, node, N, X, R),
               \A m \in -1 .. N - 1 : Kid(child, node, m) \in 1 .. n
        PROVE  Fan(child, node, N, X, W2)
    BY <1>4, <2>0 DEF Fan
  <2>1. CASE p = a
    <3>1. \A m \in -1 .. (g[a].len + 1) - 1 : Kid(g[a].child, M, m) \in 1 .. n
      <4>1. Kids(g2[a]) \subseteq 1 .. n
        <5>1. Fathered(g, n, H, a, r)
          BY <1>1 DEF Sound
        <5>2. Kids(g[a]) \subseteq 1 .. n
          BY <1>1, <5>1 DEF Fathered
        <5> QED BY <1>0, <1>9, <5>2
      <4>2. KidSet(g[a].child, M, g[a].len + 1) \subseteq 1 .. n
        BY <1>8, <4>1 DEF Kids
      <4>3. ASSUME NEW m \in -1 .. (g[a].len + 1) - 1
            PROVE  Kid(g[a].child, M, m) \in KidSet(g[a].child, M, g[a].len + 1)
        BY ONLY KidIn
      <4> QED BY <4>2, <4>3
    <3>2. Fan(g[a].child, M, g[a].len + 1, R[a], W2)
      <4> DEFINE N == g[a].len + 1
                 c == g[a].child
                 X == R[a]
      <4>1. N \in Nat /\ Fan(c, M, N, X, R)
        BY <1>1, <1>6
      <4>2. \A m \in -1 .. N - 1 : Kid(c, M, m) \in 1 .. n
        BY <3>1
      <4> HIDE DEF N, c, X, M, W2
      <4>3. Fan(c, M, N, X, W2)
        BY ONLY <2>0, <4>1, <4>2
      <4> QED BY <4>3 DEF N, c, X
    <3>3. g2[p].type = "index" /\ g2[p].child = g[a].child /\ g2[p].len = g[a].len + 1 /\ g2[p].node = M
      BY <1>8, <2>1
    <3>4. g[a].len + 1 \in Nat \ {0} /\ H[p] # 0
      <4>1. g[a].len \in Nat /\ H[a] # 0
        BY <1>1
      <4> QED BY ONLY <2>1, <4>1
    <3> HIDE DEF g2, M, W2
    <3> QED BY ONLY <2>1, <3>2, <3>3, <3>4 DEF Steered
  <2>2. CASE p # a
    <3>1. Steered(g[p], H[p], R[p], W)
      BY DEF Sound, W
    <3>2. /\ g2[p].type = g[p].type /\ g2[p].len = g[p].len
          /\ g2[p].child = g[p].child /\ g2[p].node = g[p].node
      BY <1>8, <2>2
    <3>3. g[p].type = "index" => Fan(g[p].child, g[p].node, g[p].len, R[p], W2)
      <4> SUFFICES ASSUME g[p].type = "index"  PROVE Fan(g[p].child, g[p].node, g[p].len, R[p], W2)
        OBVIOUS
      <4>1. ASSUME NEW m \in -1 .. g[p].len - 1
            PROVE  /\ Kid(g[p].child, g[p].node, m) \in 1 .. n
                   /\ Kid(g[p].child, g[p].node, m) # l
        <5>1. Kid(g[p].child, g[p].node, m) \in Kids(g[p])
          BY DEF Kids, KidSet
        <5> QED BY <2>2, <5>1 DEF Sound, Fathered
      <4>2. Fan(g[p].child, g[p].node, g[p].len, R[p], W)
        BY <3>1 DEF Steered
      <4> QED BY <1>3, <1>4, <4>1, <4>2 DEF Fan
    <3> QED BY <3>1, <3>2, <3>3 DEF Steered
  <2> QED BY <2>1, <2>2
<1>12. ASSUME NEW p \in 1 .. n  PROVE Fathered(g2, n, H, p, 0)
  <2>1. ASSUME g[p].type = "index", NEW c \in Kids(g[p])
        PROVE  c \in 1 .. n /\ c # r /\ H[c] + 1 = H[p] /\ g2[c].parent = p
    <3>1. c \in 1 .. n /\ c # r /\ H[c] + 1 = H[p] /\ g[c].parent = p
      BY <2>1 DEF Sound, Fathered
    <3> QED BY <1>8, <3>1
  <2>2. p = a => r \in 1 .. n /\ H[r] + 1 = H[a] /\ g2[r].parent = a
    BY <1>0, <1>2, <1>8
  <2>3. g2[p].type = g[p].type
    BY <1>1, <1>8
  <2>4. ASSUME g2[p].type = "index", NEW c \in Kids(g2[p])
        PROVE  c \in 1 .. n /\ c # 0 /\ H[c] + 1 = H[p] /\ g2[c].parent = p
    <3>1. c \in Kids(g[p]) \/ (p = a /\ c = r)
      BY <1>9, <2>4
    <3>2. g[p].type = "index"
      BY <2>3, <2>4
    <3>3. c \in 1 .. n /\ H[c] + 1 = H[p] /\ g2[c].parent = p
      BY <2>1, <2>2, <3>1, <3>2
    <3> QED BY <3>3
  <2> QED BY <2>4 DEF Fathered
<1>13. ASSUME NEW q \in 1 .. n, q # first  PROVE KnowsParent(g2, n, q)
  <2>1. CASE q = r
    BY <1>1, <1>8, <1>9, <2>1 DEF KnowsParent
  <2>2. CASE q # r
    <3>1. g[q].parent \in 1 .. n /\ g[g[q].parent].type = "index" /\ q \in Kids(g[g[q].parent])
      BY <1>13, <2>2 DEF Sound, KnowsParent
    <3>2. g2[q].parent = g[q].parent
      BY <1>8, <2>2
    <3>3. g2[g[q].parent].type = "index"
      BY <1>8, <3>1
    <3>4. q \in Kids(g2[g[q].parent])
      BY <1>9, <3>1
    <3> QED BY <3>1, <3>2, <3>3, <3>4 DEF KnowsParent
  <2> QED BY <2>1, <2>2
<1>14. \A p, q \in 1 .. n : p # q /\ H[p] = H[q] => R[p] \cap R[q] = {}
  BY DEF Sound
<1>15. Sound(g2, n, first, H, R, 0, 0)
  BY <1>0, <1>10, <1>11, <1>12, <1>13, <1>14 DEF Sound, W2
<1> QED BY <1>1, <1>2, <1>7, <1>15 DEF g2

\* Page a keeps its first `keep` keys and a new page n + 1 gets `back`.
Parted(g, n, a, keep, back) ==
    [p \in 1 .. n + 1 |->
        IF p = n + 1
        THEN [type |-> g[a].type, parent |-> 0, child |-> back.child, len |-> back.len, node |-> back.node]
        ELSE [type |-> g[p].type, child |-> g[p].child, node |-> g[p].node,
              len |-> IF p = a THEN keep ELSE g[p].len,
              parent |-> IF g[a].type = "index" /\ p \in Kids(back) THEN n + 1 ELSE g[p].parent]]

PartedHeights(H, n, a) == [p \in 1 .. n + 1 |-> IF p = n + 1 THEN H[a] ELSE H[p]]

PartedRanges(R, n, a, u) ==
    [p \in 1 .. n + 1 |-> IF p = n + 1 THEN {x \in R[a] : ~(x < u)}
                          ELSE IF p = a THEN {x \in R[a] : x < u} ELSE R[p]]

\* The two halves are in order, and have the children of the page between them.
Halves(pg, keep, back, X, u, R) ==
    /\ keep \in Nat \ {0} /\ back.len \in Nat \ {0}
    /\ u \in X /\ \E x \in X : x < u
    /\ pg.type = "leaf" =>
         /\ Keyed(pg.node, keep, {x \in X : x < u})
         /\ Keyed(back.node, back.len, {x \in X : ~(x < u)})
    /\ pg.type = "index" =>
         /\ Fan(pg.child, pg.node, keep, {x \in X : x < u}, R)
         /\ Fan(back.child, back.node, back.len, {x \in X : ~(x < u)}, R)
         /\ Kids(pg) = KidSet(pg.child, pg.node, keep) \cup Kids(back)
         /\ KidSet(pg.child, pg.node, keep) \cap Kids(back) = {}

\* A split leaves a tree but for the new page, which is still to be hung.
LEMMA PartedSound ==
    ASSUME NEW g, NEW n, NEW first, NEW H, NEW R, NEW a \in 1 .. n, NEW keep, NEW back, NEW u,
           Sound(g, n, first, H, R, 0, 0), Halves(g[a], keep, back, R[a], u, R)
    PROVE  /\ Sound(Parted(g, n, a, keep, back), n + 1, first,
                    PartedHeights(H, n, a), PartedRanges(R, n, a, u), a, n + 1)
           /\ Torn(Parted(g, n, a, keep, back), n + 1, PartedHeights(H, n, a),
                   PartedRanges(R, n, a, u), a, n + 1, u)
<1> DEFINE g2 == Parted(g, n, a, keep, back)
           H2 == PartedHeights(H, n, a)
           R2 == PartedRanges(R, n, a, u)
           W == Span(R, 0, 0)
           W2 == Span(R2, a, n + 1)
           moved == IF g[a].type = "index" THEN Kids(back) ELSE {}
           r == n + 1
<1>0. /\ n \in Nat /\ r \in 1 .. n + 1 /\ a \in 1 .. n + 1 /\ r # a
      /\ \A p \in 1 .. n : p \in 1 .. n + 1 /\ p # r /\ p # 0
      /\ \A p \in 1 .. n + 1 : p # r => p \in 1 .. n
  BY DEF Sound
<1>1. /\ H \in [1 .. n -> Nat] /\ R \in [1 .. n -> SUBSET Nat]
      /\ keep \in Nat \ {0} /\ back.len \in Nat \ {0} /\ u \in R[a] /\ u \in Nat
      /\ \E x \in R[a] : x < u
  BY DEF Sound, Halves
<1>2. /\ H2 \in [1 .. n + 1 -> Nat] /\ H2[r] = H[a] /\ \A p \in 1 .. n : H2[p] = H[p]
  BY <1>0, <1>1 DEF PartedHeights
<1>3. /\ R2 \in [1 .. n + 1 -> SUBSET Nat]
      /\ R2[r] = {x \in R[a] : ~(x < u)} /\ R2[a] = {x \in R[a] : x < u}
      /\ \A p \in 1 .. n : p # a => R2[p] = R[p]
  BY <1>0, <1>1 DEF PartedRanges
<1>4. /\ \A p \in 1 .. n : W[p] = R[p] /\ W2[p] = R[p]
  <2>1. \A p \in 1 .. n : W[p] = R[p]
    BY <1>0, <1>1 DEF Span
  <2>2. W2 = [p \in 1 .. n + 1 |-> IF p = a THEN R2[a] \cup R2[r] ELSE R2[p]]
    BY <1>3 DEF Span
  <2> HIDE DEF R2, W2, r
  <2>3. R2[a] \cup R2[r] = R[a]
    BY <1>3
  <2> QED BY <1>0, <1>3, <2>1, <2>2, <2>3
<1>5. /\ g2[r].type = g[a].type /\ g2[r].parent = 0 /\ g2[r].child = back.child
      /\ g2[r].len = back.len /\ g2[r].node = back.node
      /\ g2[a].len = keep
      /\ \A p \in 1 .. n :
           /\ g2[p].type = g[p].type /\ g2[p].child = g[p].child /\ g2[p].node = g[p].node
           /\ p # a => g2[p].len = g[p].len
           /\ g2[p].parent = IF p \in moved THEN r ELSE g[p].parent
  BY <1>0 DEF Parted
<1> HIDE DEF g2, H2, R2, W, W2
<1>6. /\ g[a].type = "index" => Kids(g[a]) = Kids(g2[a]) \cup moved /\ Kids(g2[a]) \cap moved = {}
                               /\ Kids(g2[r]) = moved
      /\ \A p \in 1 .. n : p # a => Kids(g2[p]) = Kids(g[p])
  <2>1. g[a].type = "index" => /\ Kids(g[a]) = KidSet(g[a].child, g[a].node, keep) \cup Kids(back)
                               /\ KidSet(g[a].child, g[a].node, keep) \cap Kids(back) = {}
    BY DEF Halves
  <2>2. Kids(g2[a]) = KidSet(g[a].child, g[a].node, keep) /\ Kids(g2[r]) = Kids(back)
    BY <1>5 DEF Kids
  <2>3. \A p \in 1 .. n : p # a => Kids(g2[p]) = Kids(g[p])
    BY <1>5 DEF Kids
  <2> QED BY <2>1, <2>2, <2>3
<1>7. \A p \in 1 .. n : g[p].type = "index" =>
        \A c \in Kids(g[p]) : c \in 1 .. n /\ H[c] + 1 = H[p] /\ g[c].parent = p
  BY DEF Sound, Fathered
<1>8. g[a].type = "index" => \A c \in moved : c \in 1 .. n /\ H[c] + 1 = H[a] /\ g[c].parent = a
  BY <1>6, <1>7
<1>9. \A c \in moved : g[a].type = "index" /\ c \in 1 .. n /\ H[c] + 1 = H[a] /\ g[c].parent = a
  BY <1>8
<1>10. \A p \in 1 .. n : p \notin moved => g2[p].parent = g[p].parent
  BY <1>5
<1>11. \A p \in moved : g2[p].parent = r
  BY <1>5, <1>9
<1> HIDE DEF moved, r
<1>12. Rooted(g2, n + 1, first, H2, R2, a, r)
  <2>1. first \in 1 .. n /\ g[first].parent = 0 /\ W[first] = Nat
        /\ H[first] < n /\ \A p \in 1 .. n : H[p] <= H[first]
    BY DEF Sound, Rooted, W
  <2>2. first \notin moved
    <3> SUFFICES ASSUME first \in moved  PROVE FALSE
      OBVIOUS
    <3>1. H[first] + 1 = H[a] /\ H[a] <= H[first] /\ H[first] \in Nat /\ H[a] \in Nat
      BY <1>1, <1>9, <2>1
    <3> QED BY <3>1
  <2>3. g2[first].parent = 0 /\ first # r /\ first \in 1 .. n + 1 /\ W2[first] = Nat
    BY <1>0, <1>4, <1>10, <2>1, <2>2
  <2>4. H2[first] < n + 1
    BY <1>0, <1>1, <1>2, <2>1
  <2>5. ASSUME NEW p \in 1 .. n + 1  PROVE H2[p] <= H2[first]
    BY <1>0, <1>2, <2>1
  <2> QED BY <2>3, <2>4, <2>5 DEF Rooted, W2, r
<1>13. ASSUME NEW p \in 1 .. n + 1  PROVE Steered(g2[p], H2[p], R2[p], W2)
  <2>0. ASSUME NEW child, NEW node, NEW N, NEW X, NEW V, Fan(child, node, N, X, V),
               \A c \in 1 .. n : V[c] = R[c], KidSet(child, node, N) \subseteq 1 .. n
        PROVE  Fan(child, node, N, X, W2)
    <3>1. ASSUME NEW k \in -1 .. N - 1  PROVE Kid(child, node, k) \in 1 .. n
      BY <2>0 DEF KidSet
    <3> QED BY <1>4, <2>0, <3>1 DEF Fan
  <2>1. CASE p = r
    <3>1. Steered(g[a], H[a], R[a], W)
      BY DEF Sound, W
    <3>2. /\ g[a].type = "leaf" => Keyed(back.node, back.len, R2[r])
          /\ g[a].type = "index" => Fan(back.child, back.node, back.len, R2[r], R)
      BY <1>3 DEF Halves
    <3>3. g[a].type = "index" => Fan(back.child, back.node, back.len, R2[r], W2)
      <4> SUFFICES ASSUME g[a].type = "index"  PROVE Fan(back.child, back.node, back.len, R2[r], W2)
        OBVIOUS
      <4>1. KidSet(back.child, back.node, back.len) \subseteq 1 .. n
        BY <1>8 DEF Kids, moved
      <4> QED BY <2>0, <3>2, <4>1
    <3> QED BY <1>1, <1>2, <1>5, <2>1, <3>1, <3>2, <3>3 DEF Steered
  <2>2. CASE p = a
    <3>1. Steered(g[a], H[a], R[a], W)
      BY DEF Sound, W
    <3>2. /\ g[a].type = "leaf" => Keyed(g[a].node, keep, R2[a])
          /\ g[a].type = "index" => Fan(g[a].child, g[a].node, keep, R2[a], R)
      BY <1>3 DEF Halves
    <3>3. g[a].type = "index" => Fan(g[a].child, g[a].node, keep, R2[a], W2)
      <4> SUFFICES ASSUME g[a].type = "index"  PROVE Fan(g[a].child, g[a].node, keep, R2[a], W2)
        OBVIOUS
      <4>1. Kids(g2[a]) \subseteq 1 .. n
        BY <1>6, <1>7
      <4>2. KidSet(g[a].child, g[a].node, keep) \subseteq 1 .. n
        BY <1>5, <4>1 DEF Kids
      <4> QED BY <2>0, <3>2, <4>2
    <3> QED BY <1>1, <1>2, <1>5, <2>2, <3>1, <3>2, <3>3 DEF Steered
  <2>3. CASE p # r /\ p # a
    <3>0. p \in 1 .. n
      BY <1>0, <2>3
    <3>1. Steered(g[p], H[p], R[p], W)
      BY <3>0 DEF Sound, W
    <3>2. g[p].type = "index" => Fan(g[p].child, g[p].node, g[p].len, R[p], W2)
      <4> SUFFICES ASSUME g[p].type = "index"  PROVE Fan(g[p].child, g[p].node, g[p].len, R[p], W2)
        OBVIOUS
      <4>1. KidSet(g[p].child, g[p].node, g[p].len) \subseteq 1 .. n
        BY <1>7, <3>0 DEF Kids
      <4>2. Fan(g[p].child, g[p].node, g[p].len, R[p], W)
        BY <3>1 DEF Steered
      <4> QED BY <1>4, <2>0, <4>1, <4>2
    <3>3. /\ g2[p].type = g[p].type /\ g2[p].len = g[p].len
          /\ g2[p].child = g[p].child /\ g2[p].node = g[p].node
          /\ H2[p] = H[p] /\ R2[p] = R[p]
      BY <1>2, <1>3, <1>5, <2>3, <3>0
    <3> QED BY <3>1, <3>2, <3>3 DEF Steered
  <2> QED BY <2>1, <2>2, <2>3
<1>14. ASSUME NEW p \in 1 .. n + 1  PROVE Fathered(g2, n + 1, H2, p, r)
  <2> SUFFICES ASSUME g2[p].type = "index", NEW c \in Kids(g2[p])
               PROVE  c \in 1 .. n + 1 /\ c # r /\ H2[c] + 1 = H2[p] /\ g2[c].parent = p
    BY DEF Fathered
  <2>1. CASE p = r
    <3>1. g[a].type = "index" /\ c \in moved
      BY <1>5, <1>6, <2>1
    <3> QED BY <1>0, <1>2, <1>9, <1>11, <2>1, <3>1
  <2>2. CASE p = a
    <3>1. g[a].type = "index" /\ c \in Kids(g[a]) /\ c \notin moved
      BY <1>5, <1>6, <2>2
    <3> QED BY <1>0, <1>2, <1>7, <1>10, <2>2, <3>1
  <2>3. CASE p # r /\ p # a
    <3>1. p \in 1 .. n
      BY <1>0, <2>3
    <3>2. g[p].type = "index" /\ c \in Kids(g[p])
      BY <1>5, <1>6, <2>3, <3>1
    <3>3. c \in 1 .. n /\ H[c] + 1 = H[p] /\ g[c].parent = p
      BY <1>7, <3>1, <3>2
    <3>4. c \notin moved
      BY <1>9, <2>3, <3>3
    <3> QED BY <1>0, <1>2, <1>10, <3>1, <3>3, <3>4
  <2> QED BY <2>1, <2>2, <2>3
<1>15. ASSUME NEW q \in 1 .. n + 1, q # first, q # r  PROVE KnowsParent(g2, n + 1, q)
  <2>0. q \in 1 .. n
    BY <1>0, <1>15
  <2>1. CASE q \in moved
    BY <1>0, <1>5, <1>6, <1>9, <1>11, <2>1 DEF KnowsParent
  <2>2. CASE q \notin moved
    <3>1. g[q].parent \in 1 .. n /\ g[g[q].parent].type = "index" /\ q \in Kids(g[g[q].parent])
      <4>1. q # 0
        BY <1>0, <2>0
      <4> QED BY <1>15, <2>0, <4>1 DEF Sound, KnowsParent
    <3>2. g2[q].parent = g[q].parent
      BY <1>10, <2>0, <2>2
    <3>3. g2[g[q].parent].type = "index" /\ g[q].parent \in 1 .. n + 1
      BY <1>0, <1>5, <3>1
    <3>4. q \in Kids(g2[g[q].parent])
      BY <1>6, <2>2, <3>1
    <3> QED BY <3>2, <3>3, <3>4 DEF KnowsParent
  <2> QED BY <2>1, <2>2
<1>16. ASSUME NEW p \in 1 .. n + 1, NEW q \in 1 .. n + 1, p # q, H2[p] = H2[q]
       PROVE  R2[p] \cap R2[q] = {}
  <2>0. \A x, y \in 1 .. n : x # y /\ H[x] = H[y] => R[x] \cap R[y] = {}
    BY DEF Sound
  <2>1. \A x \in 1 .. n : R2[x] \subseteq R[x]
    BY <1>3
  <2>2. R2[r] \subseteq R[a] /\ R2[r] \cap R2[a] = {}
    BY <1>3
  <2>3. ASSUME NEW x \in 1 .. n, H2[x] = H2[r]  PROVE R2[r] \cap R2[x] = {}
    <3>1. CASE x = a
      BY <2>2, <3>1
    <3>2. CASE x # a
      BY <1>2, <2>0, <2>1, <2>2, <2>3, <3>2
    <3> QED BY <3>1, <3>2
  <2>4. CASE p = r
    BY <1>0, <1>16, <2>3, <2>4
  <2>5. CASE q = r
    BY <1>0, <1>16, <2>3, <2>5
  <2>6. CASE p # r /\ q # r
    <3>1. p \in 1 .. n /\ q \in 1 .. n
      BY <1>0, <2>6
    <3>2. R[p] \cap R[q] = {}
      BY <1>2, <1>16, <2>0, <3>1
    <3> QED BY <2>1, <3>1, <3>2
  <2> QED BY <2>4, <2>5, <2>6
<1>17. Sound(g2, n + 1, first, H2, R2, a, r)
  <2>1. n + 1 \in Nat
    BY <1>0
  <2> QED BY <1>2, <1>3, <1>12, <1>13, <1>14, <1>15, <1>16, <2>1 DEF Sound, W2, r
<1>18. Torn(g2, n + 1, H2, R2, a, r, u)
  <2>1. u \in R2[r] /\ \A x \in R2[a] : x < u
    BY <1>1, <1>3
  <2>2. R2[a] # {} /\ \A x \in R2[r] : ~(x < u)
    BY <1>1, <1>3
  <2>3. H2[a] = H2[r] /\ g2[r].parent = 0
    BY <1>2, <1>5
  <2> QED BY <1>0, <2>1, <2>2, <2>3 DEF Torn
<1> QED BY <1>17, <1>18 DEF g2, H2, R2, r

\* A new root n + 1 above page l and its neighbour, which is key d's.
Crowned(g, n, l, d) ==
    [p \in 1 .. n + 1 |->
        IF p = n + 1
        THEN [type |-> "index", parent |-> 0, child |-> l, len |-> 1, node |-> [i \in {0} |-> d]]
        ELSE [type |-> g[p].type, child |-> g[p].child, node |-> g[p].node, len |-> g[p].len,
              parent |-> IF p = l \/ p = d.buf THEN n + 1 ELSE g[p].parent]]

CrownedHeights(H, n, l) == [p \in 1 .. n + 1 |-> IF p = n + 1 THEN H[l] + 1 ELSE H[p]]

CrownedRanges(R, n) == [p \in 1 .. n + 1 |-> IF p = n + 1 THEN Nat ELSE R[p]]

\* When it was the root that was split, a new one mends the tree.
LEMMA CrownedSound ==
    ASSUME NEW g, NEW n, NEW H, NEW R, NEW l, NEW d,
           Sound(g, n, l, H, R, l, d.buf), Torn(g, n, H, R, l, d.buf, d.hash)
    PROVE  Sound(Crowned(g, n, l, d), n + 1, n + 1, CrownedHeights(H, n, l), CrownedRanges(R, n), 0, 0)
<1> DEFINE u == d.hash
           r == d.buf
           g2 == Crowned(g, n, l, d)
           H2 == CrownedHeights(H, n, l)
           R2 == CrownedRanges(R, n)
           W == Span(R, l, r)
           W2 == Span(R2, 0, 0)
           o == n + 1
           nd == [i \in {0} |-> d]
<1>0. /\ n \in Nat /\ o \in 1 .. n + 1 /\ o # 0
      /\ \A p \in 1 .. n : p \in 1 .. n + 1 /\ p # o /\ p # 0
      /\ \A p \in 1 .. n + 1 : p # o => p \in 1 .. n
  BY DEF Sound
<1>1. /\ H \in [1 .. n -> Nat] /\ R \in [1 .. n -> SUBSET Nat]
      /\ l \in 1 .. n /\ r \in 1 .. n /\ l # r /\ H[l] = H[r]
      /\ u \in R[r] /\ u \in Nat /\ \A x \in R[l] : x < u
      /\ \A x \in R[r] : ~(x < u)
  BY DEF Sound, Torn
<1>2. /\ H2 \in [1 .. n + 1 -> Nat] /\ H2[o] = H[l] + 1 /\ \A p \in 1 .. n : H2[p] = H[p]
  BY <1>0, <1>1 DEF CrownedHeights
<1>3. /\ R2 \in [1 .. n + 1 -> SUBSET Nat] /\ R2[o] = Nat /\ \A p \in 1 .. n : R2[p] = R[p]
  BY <1>0, <1>1 DEF CrownedRanges
<1>4. /\ \A p \in 1 .. n + 1 : W2[p] = R2[p]
      /\ \A p \in 1 .. n : p # l => W[p] = R[p]
      /\ W[l] = R[l] \cup R[r]
  <2>1. \A p \in 1 .. n + 1 : W2[p] = R2[p]
    <3> HIDE DEF R2
    <3> QED BY <1>3 DEF Span
  <2>2. W = [p \in 1 .. n |-> IF p = l THEN R[l] \cup R[r] ELSE R[p]]
    BY <1>1 DEF Span
  <2> QED BY <1>1, <2>1, <2>2
<1>5. /\ g2[o].type = "index" /\ g2[o].parent = 0 /\ g2[o].child = l /\ g2[o].len = 1 /\ g2[o].node = nd
      /\ \A p \in 1 .. n :
           /\ g2[p].type = g[p].type /\ g2[p].child = g[p].child /\ g2[p].node = g[p].node
           /\ g2[p].len = g[p].len
           /\ g2[p].parent = IF p = l \/ p = r THEN o ELSE g[p].parent
  BY <1>0 DEF Crowned
<1> HIDE DEF g2, H2, R2, W, W2
<1>6. Kids(g2[o]) = {l, r} /\ \A p \in 1 .. n : Kids(g2[p]) = Kids(g[p])
  <2>1. Kid(l, nd, -1) = l /\ Kid(l, nd, 0) = r /\ -1 .. 1 - 1 = {-1, 0}
    BY DEF Kid
  <2>2. KidSet(l, nd, 1) = {l, r}
    <3> HIDE DEF nd, r
    <3> QED BY <2>1 DEF KidSet
  <2> HIDE DEF nd, r
  <2> QED BY <1>5, <2>2 DEF Kids
<1>7. \A p \in 1 .. n : g[p].type = "index" =>
        \A c \in Kids(g[p]) : c \in 1 .. n /\ c # r /\ c # l /\ H[c] + 1 = H[p] /\ g[c].parent = p
  <2>1. g[l].parent = 0
    BY DEF Sound, Rooted
  <2> QED BY <1>0, <2>1 DEF Sound, Fathered
<1>8. W[l] = Nat /\ H[l] < n /\ \A p \in 1 .. n : H[p] <= H[l]
  BY DEF Sound, Rooted, W
<1> HIDE DEF o
<1>9. Rooted(g2, n + 1, o, H2, R2, 0, 0)
  <2>1. W2[o] = Nat
    BY <1>0, <1>3, <1>4
  <2>2. H2[o] < n + 1 /\ \A p \in 1 .. n + 1 : H2[p] <= H2[o]
    <3>1. H[l] \in Nat /\ \A p \in 1 .. n : H[p] \in Nat
      BY <1>1
    <3>2. H2[o] < n + 1
      BY <1>0, <1>2, <1>8, <3>1
    <3>3. ASSUME NEW p \in 1 .. n + 1  PROVE H2[p] <= H2[o]
      <4>1. CASE p = o
        BY <1>2, <3>1, <4>1
      <4>2. CASE p # o
        <5>1. p \in 1 .. n
          BY <1>0, <4>2
        <5>2. H[p] <= H[l] /\ H[p] \in Nat /\ H[l] \in Nat /\ H2[p] = H[p] /\ H2[o] = H[l] + 1
          BY <1>2, <1>8, <3>1, <5>1
        <5> QED BY ONLY <5>2
      <4> QED BY <4>1, <4>2
    <3> QED BY <3>2, <3>3
  <2> QED BY <1>0, <1>5, <2>1, <2>2 DEF Rooted, W2
<1>10. Fan(l, nd, 1, Nat, W2)
  <2>1. Keyed(nd, 1, Nat)
    <3>1. nd[0] = d /\ 0 .. 1 - 1 = {0}
      OBVIOUS
    <3> HIDE DEF nd
    <3> QED BY <1>1, <3>1 DEF Keyed
  <2>2. W2[l] = Nat \cap Slice(nd, 1, -1)
    <3>1. Slice(nd, 1, -1) = {h \in Nat : h < u}
      BY DEF Slice
    <3>2. W2[l] = R[l] /\ R[l] \cup R[r] = Nat
      BY <1>0, <1>1, <1>3, <1>4, <1>8
    <3> HIDE DEF nd, u, r
    <3> QED BY <1>1, <3>1, <3>2
  <2>3. W2[r] = Nat \cap Slice(nd, 1, 0)
    <3>1. Slice(nd, 1, 0) = {h \in Nat : u <= h}
      BY DEF Slice
    <3>2. W2[r] = R[r] /\ R[l] \cup R[r] = Nat
      BY <1>0, <1>1, <1>3, <1>4, <1>8
    <3> HIDE DEF nd, u, r
    <3> QED BY <1>1, <3>1, <3>2
  <2>4. Kid(l, nd, -1) = l /\ Kid(l, nd, 0) = r /\ -1 .. 1 - 1 = {-1, 0}
    BY DEF Kid
  <2> HIDE DEF nd, r
  <2> QED BY <2>1, <2>2, <2>3, <2>4 DEF Fan
<1>11. ASSUME NEW p \in 1 .. n + 1  PROVE Steered(g2[p], H2[p], R2[p], W2)
  <2>1. CASE p = o
    <3>1. H2[o] # 0
      BY <1>1, <1>2
    <3> HIDE DEF nd
    <3>2. Fan(g2[o].child, g2[o].node, g2[o].len, R2[o], W2)
      BY <1>3, <1>5, <1>10, Zenon
    <3>3. g2[o].len \in Nat \ {0} /\ g2[o].type = "index"
      BY <1>5
    <3> QED BY <2>1, <3>1, <3>2, <3>3, Zenon DEF Steered
  <2>2. CASE p # o
    <3>0. p \in 1 .. n
      BY <1>0, <2>2
    <3>1. Steered(g[p], H[p], R[p], W)
      BY <3>0 DEF Sound, W
    <3>2. g[p].type = "index" => Fan(g[p].child, g[p].node, g[p].len, R[p], W2)
      <4> SUFFICES ASSUME g[p].type = "index"  PROVE Fan(g[p].child, g[p].node, g[p].len, R[p], W2)
        OBVIOUS
      <4>1. ASSUME NEW k \in -1 .. g[p].len - 1
            PROVE  W2[Kid(g[p].child, g[p].node, k)] = W[Kid(g[p].child, g[p].node, k)]
        <5>1. Kid(g[p].child, g[p].node, k) \in Kids(g[p])
          BY DEF Kids, KidSet
        <5>2. Kid(g[p].child, g[p].node, k) \in 1 .. n /\ Kid(g[p].child, g[p].node, k) # l
          BY <1>7, <3>0, <5>1
        <5> QED BY <1>0, <1>3, <1>4, <5>2
      <4>2. Fan(g[p].child, g[p].node, g[p].len, R[p], W)
        BY <3>1 DEF Steered
      <4> QED BY <4>1, <4>2 DEF Fan
    <3> QED BY <1>2, <1>3, <1>5, <3>0, <3>1, <3>2 DEF Steered
  <2> QED BY <2>1, <2>2
<1>12. ASSUME NEW p \in 1 .. n + 1  PROVE Fathered(g2, n + 1, H2, p, 0)
  <2> SUFFICES ASSUME g2[p].type = "index", NEW c \in Kids(g2[p])
               PROVE  c \in 1 .. n + 1 /\ c # 0 /\ H2[c] + 1 = H2[p] /\ g2[c].parent = p
    BY DEF Fathered
  <2>1. CASE p = o
    <3>1. c = l \/ c = r
      BY <1>6, <2>1
    <3>2. c \in 1 .. n /\ H[c] = H[l]
      BY <1>1, <3>1
    <3>3. g2[c].parent = o
      BY <1>5, <3>1, <3>2
    <3> QED BY <1>0, <1>2, <2>1, <3>2, <3>3
  <2>2. CASE p # o
    <3>1. p \in 1 .. n
      BY <1>0, <2>2
    <3>2. c \in 1 .. n /\ c # r /\ c # l /\ H[c] + 1 = H[p] /\ g[c].parent = p
      BY <1>5, <1>6, <1>7, <3>1
    <3> QED BY <1>0, <1>2, <1>5, <3>1, <3>2
  <2> QED BY <2>1, <2>2
<1>13. ASSUME NEW q \in 1 .. n + 1, q # o  PROVE KnowsParent(g2, n + 1, q)
  <2>0. q \in 1 .. n
    BY <1>0, <1>13
  <2>1. CASE q = l \/ q = r
    <3>1. g2[q].parent = o /\ q \in Kids(g2[o])
      BY <1>1, <1>5, <1>6, <2>0, <2>1
    <3>2. o \in 1 .. n + 1 /\ g2[o].type = "index"
      BY <1>0, <1>5
    <3> QED BY ONLY <3>1, <3>2 DEF KnowsParent
  <2>2. CASE q # l /\ q # r
    <3>1. g[q].parent \in 1 .. n /\ g[g[q].parent].type = "index" /\ q \in Kids(g[g[q].parent])
      BY <2>0, <2>2 DEF Sound, KnowsParent
    <3>2. g2[q].parent = g[q].parent
      BY <1>5, <2>0, <2>2
    <3> QED BY <1>0, <1>5, <1>6, <3>1, <3>2 DEF KnowsParent
  <2> QED BY <2>1, <2>2
<1>14. ASSUME NEW p \in 1 .. n + 1, NEW q \in 1 .. n + 1, p # q, H2[p] = H2[q]
       PROVE  R2[p] \cap R2[q] = {}
  <2>1. \A x \in 1 .. n : H2[x] # H2[o]
    BY <1>1, <1>2, <1>8
  <2>2. p \in 1 .. n /\ q \in 1 .. n
    BY <1>0, <1>14, <2>1
  <2> QED BY <1>2, <1>3, <1>14, <2>2 DEF Sound
<1>15. n + 1 \in Nat
  BY <1>0
<1>16. Sound(g2, n + 1, o, H2, R2, 0, 0)
  BY <1>2, <1>3, <1>9, <1>11, <1>12, <1>13, <1>14, <1>15 DEF Sound, W2
<1> QED BY <1>16 DEF g2, H2, R2, o

----------------------------------------------------------------------------
(* The pages of the code, for slots with the bodies B. *)

LeafNodes(B) == [LeafSlots -> [hash: Nat, body: B]]
IndexNodes == [IndexSlots -> [hash: Nat, buf: Nat]]

LeafPages(B) == [type: {"leaf"}, left: Nat, right: Nat, parent: Nat, len: 0 .. leafstep,
                 child: Nat, node: LeafNodes(B)]
IndexPages == [type: {"index"}, left: Nat, right: Nat, parent: Nat, len: 0 .. indxkeys,
               child: Nat, node: IndexNodes]
PageSet(B) == LeafPages(B) \cup IndexPages

\* The slots a page of a type has.
Capacity(type) == IF type = "leaf" THEN leafstep ELSE indxkeys

PageArrays(B) == UNION {[1 .. k -> PageSet(B)] : k \in Nat}
Trees(B) == [first: Nat, left: Nat, right: Nat, used: Nat \ {0}, page: PageArrays(B)]

Typed(t, B) ==
    /\ t \in Trees(B)
    /\ t.page \in [Pages(t) -> PageSet(B)]
    /\ \A p \in Pages(t) : t.page[p].right < t.used

\* The fields of a page, by its type.
LEMMA PageFields ==
    ASSUME NEW B, NEW pg \in PageSet(B)
    PROVE  /\ pg.left \in Nat /\ pg.right \in Nat /\ pg.parent \in Nat /\ pg.child \in Nat
           /\ pg.len \in 0 .. Capacity(pg.type)
           /\ \/ pg.type = "leaf" /\ pg.node \in LeafNodes(B)
              \/ pg.type = "index" /\ pg.node \in IndexNodes
BY DEF PageSet, LeafPages, IndexPages, Capacity

\* A tree is typed when it has typed fields.
LEMMA TypedBy ==
    ASSUME NEW B, NEW t, NEW n \in Nat, NEW page \in [1 .. n -> PageSet(B)],
           NEW first \in Nat, NEW left \in Nat, NEW right \in Nat,
           t = [first |-> first, left |-> left, right |-> right, used |-> n + 1, page |-> page],
           \A p \in 1 .. n : page[p].right < n + 1
    PROVE  Typed(t, B)
<1>1. page \in PageArrays(B)
  BY DEF PageArrays
<1>2. n + 1 \in Nat \ {0}
  OBVIOUS
<1>3. t \in Trees(B)
  BY <1>1, <1>2 DEF Trees
<1>4. Pages(t) = 1 .. n /\ t.page = page /\ t.used = n + 1
  BY DEF Pages
<1> QED BY <1>3, <1>4 DEF Typed

\* The other way round.
LEMMA TreeFields ==
    ASSUME NEW B, NEW t, Typed(t, B)
    PROVE  /\ t.first \in Nat /\ t.left \in Nat /\ t.right \in Nat /\ t.used \in Nat \ {0}
           /\ t.used - 1 \in Nat /\ (t.used - 1) + 1 = t.used
           /\ t = [first |-> t.first, left |-> t.left, right |-> t.right, used |-> t.used, page |-> t.page]
           /\ t.page \in [1 .. t.used - 1 -> PageSet(B)]
           /\ \A p \in 1 .. t.used - 1 : t.page[p].right < t.used
BY DEF Typed, Trees, Pages

\* The same tree with other pages, or with one more.
LEMMA Repaged ==
    ASSUME NEW B, NEW t, Typed(t, B), NEW page \in [Pages(t) -> PageSet(B)],
           \A p \in Pages(t) : page[p].right < t.used
    PROVE  Typed([t EXCEPT !.page = page], B)
<1> DEFINE n == t.used - 1
           t2 == [t EXCEPT !.page = page]
<1>1. /\ t.first \in Nat /\ t.left \in Nat /\ t.right \in Nat /\ n \in Nat /\ n + 1 = t.used
      /\ t = [first |-> t.first, left |-> t.left, right |-> t.right, used |-> t.used, page |-> t.page]
  BY TreeFields
<1>2. t2 = [first |-> t.first, left |-> t.left, right |-> t.right, used |-> n + 1, page |-> page]
  BY <1>1
<1>3. page \in [1 .. n -> PageSet(B)] /\ \A p \in 1 .. n : page[p].right < n + 1
  BY <1>1 DEF Pages
<1> HIDE DEF n, t2
<1> QED BY <1>1, <1>2, <1>3, TypedBy DEF t2

\* bplus_grow adds one page, the last, and leaves the others as they were.
LEMMA GrowIs ==
    ASSUME NEW B, NEW t, Typed(t, B), NEW content \in PageSet(B), content.right < t.used + 1
    PROVE  LET g == Grow(t, content)
           IN  /\ Typed(g, B)
               /\ g.first = t.first /\ g.left = t.left /\ g.right = t.right /\ g.used = t.used + 1
               /\ g.page[t.used] = content
               /\ \A p \in Pages(t) : g.page[p] = t.page[p] /\ p # t.used
               /\ Pages(g) = Pages(t) \cup {t.used} /\ t.used \notin Pages(t)
<1> DEFINE g == Grow(t, content)
           u == t.used
           pg == [p \in 1 .. u |-> IF p = u THEN content ELSE t.page[p]]
<1>1. /\ t.first \in Nat /\ t.left \in Nat /\ t.right \in Nat /\ u \in Nat \ {0}
      /\ t = [first |-> t.first, left |-> t.left, right |-> t.right, used |-> u, page |-> t.page]
      /\ t.page \in [1 .. u - 1 -> PageSet(B)]
      /\ \A p \in 1 .. u - 1 : t.page[p].right < u
  BY TreeFields
<1>2. Pages(t) \cup {u} = 1 .. u
  BY <1>1 DEF Pages
<1>3. g = [first |-> t.first, left |-> t.left, right |-> t.right, used |-> u + 1, page |-> pg]
  <2> DEFINE old == [p \in Pages(t) \cup {t.used} |-> IF p = t.used THEN content ELSE t.page[p]]
  <2>1. old = pg
    BY <1>2
  <2>2. g = [t EXCEPT !.used = @ + 1, !.page = old]
    BY DEF Grow
  <2> HIDE DEF old, pg, g
  <2> QED BY <1>1, <2>1, <2>2
<1>4. /\ pg \in [1 .. u -> PageSet(B)]
      /\ \A p \in 1 .. u - 1 : pg[p] = t.page[p]
      /\ pg[u] = content
  BY <1>1
<1>5. ASSUME NEW p \in 1 .. u  PROVE pg[p].right < u + 1
  <2>1. CASE p = u
    BY <1>4, <2>1
  <2>2. CASE p # u
    <3>1. p \in 1 .. u - 1
      BY <1>1, <2>2
    <3>2. t.page[p] \in PageSet(B) /\ t.page[p].right < u
      BY <1>1, <3>1
    <3>3. t.page[p].right \in Nat
      BY <3>2, PageFields
    <3> QED BY <1>1, <1>4, <3>1, <3>2, <3>3
  <2> QED BY <2>1, <2>2
<1> HIDE DEF pg, g
<1>6. Typed(g, B)
  <2>1. u \in Nat
    BY <1>1
  <2> HIDE DEF u
  <2> QED BY <1>1, <1>3, <1>4, <1>5, <2>1, TypedBy
<1>7. Pages(t) = 1 .. u - 1 /\ u \notin Pages(t)
  BY <1>1 DEF Pages
<1>8. Pages(g) = Pages(t) \cup {u}
  BY <1>1, <1>2, <1>3 DEF Pages
<1>9. \A p \in Pages(t) : g.page[p] = t.page[p] /\ p # u
  BY <1>3, <1>4, <1>7
<1> QED BY <1>3, <1>4, <1>6, <1>7, <1>8, <1>9 DEF g

\* The new pages of the code are pages.
LEMMA NewPages ==
    ASSUME NEW B, NoBody \in B
    PROVE  /\ EmptyLeafNode \in LeafNodes(B) /\ EmptyIndexNode \in IndexNodes
           /\ NewLeaf \in LeafPages(B) /\ NewIndex \in IndexPages
<1>1. EmptyLeafNode \in LeafNodes(B)
  BY DEF EmptyLeafNode, LeafNodes
<1>2. EmptyIndexNode \in IndexNodes
  BY DEF EmptyIndexNode, IndexNodes
<1>3. 0 \in 0 .. leafstep /\ 0 \in 0 .. indxkeys
  BY PageShape
<1> QED BY <1>1, <1>2, <1>3 DEF NewLeaf, NewIndex, LeafPages, IndexPages

\* The nodes of a type.
Nodes(type, B) == IF type = "leaf" THEN LeafNodes(B) ELSE IndexNodes

\* A page with some of its fields changed.
LEMMA PageWith ==
    ASSUME NEW B, NEW pg \in PageSet(B), NEW left \in Nat, NEW right \in Nat, NEW parent \in Nat,
           NEW child \in Nat, NEW len \in 0 .. Capacity(pg.type), NEW node \in Nodes(pg.type, B)
    PROVE  /\ [pg EXCEPT !.left = left] \in PageSet(B)
           /\ [pg EXCEPT !.parent = parent] \in PageSet(B)
           /\ [pg EXCEPT !.len = len, !.right = right] \in PageSet(B)
           /\ [pg EXCEPT !.len = len, !.left = left, !.right = right] \in PageSet(B)
           /\ [pg EXCEPT !.node = node] \in PageSet(B)
           /\ [pg EXCEPT !.node = node, !.child = child] \in PageSet(B)
           /\ [pg EXCEPT !.len = len, !.node = node] \in PageSet(B)
<1>1. CASE pg \in LeafPages(B)
  <2>1. pg.type = "leaf" /\ len \in 0 .. leafstep /\ node \in LeafNodes(B)
    BY <1>1 DEF LeafPages, Capacity, Nodes
  <2> HIDE DEF LeafNodes
  <2>2. /\ [pg EXCEPT !.left = left] \in LeafPages(B)
        /\ [pg EXCEPT !.parent = parent] \in LeafPages(B)
        /\ [pg EXCEPT !.len = len, !.right = right] \in LeafPages(B)
    BY <1>1, <2>1 DEF LeafPages
  <2>3. /\ [pg EXCEPT !.len = len, !.left = left, !.right = right] \in LeafPages(B)
        /\ [pg EXCEPT !.node = node] \in LeafPages(B)
    BY <1>1, <2>1 DEF LeafPages
  <2>4. /\ [pg EXCEPT !.node = node, !.child = child] \in LeafPages(B)
        /\ [pg EXCEPT !.len = len, !.node = node] \in LeafPages(B)
    BY <1>1, <2>1 DEF LeafPages
  <2> QED BY <2>2, <2>3, <2>4 DEF PageSet
<1>2. CASE pg \in IndexPages
  <2>1. pg.type = "index" /\ len \in 0 .. indxkeys /\ node \in IndexNodes
    BY <1>2 DEF IndexPages, Capacity, Nodes
  <2> HIDE DEF IndexNodes
  <2>2. /\ [pg EXCEPT !.left = left] \in IndexPages
        /\ [pg EXCEPT !.parent = parent] \in IndexPages
        /\ [pg EXCEPT !.len = len, !.right = right] \in IndexPages
    BY <1>2, <2>1 DEF IndexPages
  <2>3. /\ [pg EXCEPT !.len = len, !.left = left, !.right = right] \in IndexPages
        /\ [pg EXCEPT !.node = node] \in IndexPages
    BY <1>2, <2>1 DEF IndexPages
  <2>4. /\ [pg EXCEPT !.node = node, !.child = child] \in IndexPages
        /\ [pg EXCEPT !.len = len, !.node = node] \in IndexPages
    BY <1>2, <2>1 DEF IndexPages
  <2> QED BY <2>2, <2>3, <2>4 DEF PageSet
<1> QED BY <1>1, <1>2 DEF PageSet

\* The same for one change at a time.
LEMMA PageWithNode ==
    ASSUME NEW B, NEW pg \in PageSet(B), NEW child \in Nat, NEW node \in Nodes(pg.type, B)
    PROVE  [pg EXCEPT !.node = node] \in PageSet(B) /\ [pg EXCEPT !.node = node, !.child = child] \in PageSet(B)
<1>1. pg.left \in Nat /\ pg.right \in Nat /\ pg.parent \in Nat /\ pg.len \in 0 .. Capacity(pg.type)
  BY PageFields
<1> QED BY <1>1, PageWith

\* Its length and slots.
LEMMA PageWithSlots ==
    ASSUME NEW B, NEW pg \in PageSet(B), NEW len \in 0 .. Capacity(pg.type), NEW node \in Nodes(pg.type, B)
    PROVE  [pg EXCEPT !.len = len, !.node = node] \in PageSet(B)
<1>1. pg.left \in Nat /\ pg.right \in Nat /\ pg.parent \in Nat /\ pg.child \in Nat
  BY PageFields
<1> QED BY <1>1, PageWith

\* Its parent.
LEMMA PageWithParent ==
    ASSUME NEW B, NEW pg \in PageSet(B), NEW parent \in Nat
    PROVE  /\ [pg EXCEPT !.parent = parent] \in PageSet(B)
           /\ [pg EXCEPT !.parent = parent].type = pg.type /\ [pg EXCEPT !.parent = parent].len = pg.len
           /\ [pg EXCEPT !.parent = parent].child = pg.child /\ [pg EXCEPT !.parent = parent].node = pg.node
           /\ [pg EXCEPT !.parent = parent].right = pg.right /\ [pg EXCEPT !.parent = parent].parent = parent
<1>1. pg.left \in Nat /\ pg.right \in Nat /\ pg.child \in Nat /\ pg.len \in 0 .. Capacity(pg.type)
      /\ pg.node \in Nodes(pg.type, B)
  BY PageFields DEF Nodes
<1>2. [pg EXCEPT !.parent = parent] \in PageSet(B)
  BY <1>1, PageWith
<1>3. pg \in LeafPages(B) \/ pg \in IndexPages
  BY DEF PageSet
<1> HIDE DEF LeafNodes, IndexNodes
<1>4. /\ [pg EXCEPT !.parent = parent].type = pg.type /\ [pg EXCEPT !.parent = parent].len = pg.len
      /\ [pg EXCEPT !.parent = parent].child = pg.child /\ [pg EXCEPT !.parent = parent].node = pg.node
      /\ [pg EXCEPT !.parent = parent].right = pg.right /\ [pg EXCEPT !.parent = parent].parent = parent
  BY <1>3 DEF LeafPages, IndexPages
<1> QED BY <1>2, <1>4

\* The first step of a split.
LEMMA SplitOffIs ==
    ASSUME NEW B, NoBody \in B, NEW t, Typed(t, B), NEW l \in Pages(t), NEW fresh \in PageSet(B),
           fresh.type = t.page[l].type,
           NEW rlen \in 0 .. Capacity(fresh.type), NEW llen \in 0 .. Capacity(fresh.type)
    PROVE  LET s == SplitOff(t, l, fresh, rlen, llen)
               r == t.used
           IN  /\ Typed(s, B)
               /\ s.first = t.first /\ s.left = t.left /\ s.right = t.right /\ s.used = t.used + 1
               /\ Pages(s) = Pages(t) \cup {r} /\ r \notin Pages(t)
               /\ s.page[r].type = fresh.type /\ s.page[r].len = rlen /\ s.page[r].node = fresh.node
               /\ s.page[r].child = fresh.child /\ s.page[r].parent = fresh.parent
               /\ s.page[r].right = t.page[l].right
               /\ s.page[l].len = llen /\ s.page[l].right = r
               /\ \A p \in Pages(t) :
                    /\ s.page[p].type = t.page[p].type /\ s.page[p].node = t.page[p].node
                    /\ s.page[p].child = t.page[p].child /\ s.page[p].parent = t.page[p].parent
                    /\ p # l => s.page[p].len = t.page[p].len /\ s.page[p].right = t.page[p].right
<1> DEFINE r == t.used
           b == t.page[l].right
           c == [fresh EXCEPT !.len = rlen, !.left = l, !.right = b]
           g == Grow(t, c)
           a == [t.page[l] EXCEPT !.len = llen, !.right = r]
           pg == [p \in DOMAIN g.page |-> IF p = l THEN a
                                         ELSE IF p = b THEN [t.page[p] EXCEPT !.left = r]
                                         ELSE g.page[p]]
           s == SplitOff(t, l, fresh, rlen, llen)
<1>1. /\ r \in Nat /\ l \in Nat /\ b \in Nat /\ b < r
      /\ t.page \in [Pages(t) -> PageSet(B)]
      /\ \A p \in Pages(t) : t.page[p].right < r
      /\ Pages(t) = 1 .. r - 1 /\ t.page[l] \in PageSet(B)
  <2>1. t.page[l] \in PageSet(B) /\ l \in Nat /\ t.used \in Nat
    BY TreeFields DEF Pages, Typed
  <2>2. b \in Nat
    BY <2>1, PageFields
  <2> QED BY <2>1, <2>2 DEF Typed, Pages
<1>2. c \in PageSet(B) /\ c.right = b /\ c.type = fresh.type /\ c.len = rlen
      /\ c.node = fresh.node /\ c.child = fresh.child /\ c.parent = fresh.parent
  <2>1. fresh.node \in Nodes(fresh.type, B) /\ fresh.parent \in Nat /\ fresh.child \in Nat
    BY PageFields DEF Nodes
  <2>2. c \in PageSet(B)
    BY <1>1, <2>1, PageWith
  <2>3. fresh \in LeafPages(B) \/ fresh \in IndexPages
    BY DEF PageSet
  <2>4. c.right = b /\ c.type = fresh.type /\ c.len = rlen
        /\ c.node = fresh.node /\ c.child = fresh.child /\ c.parent = fresh.parent
    BY <2>3 DEF LeafPages, IndexPages
  <2> QED BY <2>2, <2>4
<1> HIDE DEF c
<1>3. /\ Typed(g, B)
      /\ g.first = t.first /\ g.left = t.left /\ g.right = t.right /\ g.used = r + 1
      /\ g.page[r] = c
      /\ \A p \in Pages(t) : g.page[p] = t.page[p] /\ p # r
      /\ Pages(g) = Pages(t) \cup {r} /\ r \notin Pages(t)
  <2>1. c.right < t.used + 1
    BY <1>1, <1>2
  <2> HIDE DEF b
  <2> QED BY <1>2, <2>1, GrowIs
<1> HIDE DEF g
<1>4. s = [g EXCEPT !.page = pg]
  BY DEF SplitOff, g, c
<1>5. DOMAIN g.page = Pages(g)
  BY <1>3 DEF Typed
<1>6. a \in PageSet(B) /\ a.right = r /\ a.type = t.page[l].type /\ a.len = llen
      /\ a.node = t.page[l].node /\ a.child = t.page[l].child /\ a.parent = t.page[l].parent
  <2>1. t.page[l].node \in Nodes(t.page[l].type, B)
    BY <1>1, PageFields DEF Nodes
  <2>2. a \in PageSet(B)
    BY <1>1, <2>1, PageWith
  <2>3. t.page[l] \in LeafPages(B) \/ t.page[l] \in IndexPages
    BY <1>1 DEF PageSet
  <2>4. a.right = r /\ a.type = t.page[l].type /\ a.len = llen
        /\ a.node = t.page[l].node /\ a.child = t.page[l].child /\ a.parent = t.page[l].parent
    BY <2>3 DEF LeafPages, IndexPages
  <2> QED BY <2>2, <2>4
<1>7. ASSUME NEW p \in Pages(t), NEW e, e = [t.page[p] EXCEPT !.left = r]
      PROVE  /\ e \in PageSet(B) /\ e.right = t.page[p].right /\ e.type = t.page[p].type
             /\ e.len = t.page[p].len /\ e.node = t.page[p].node /\ e.child = t.page[p].child
             /\ e.parent = t.page[p].parent
  <2>1. t.page[p] \in PageSet(B)
    BY <1>1
  <2>2. t.page[p].node \in Nodes(t.page[p].type, B) /\ t.page[p].len \in 0 .. Capacity(t.page[p].type)
    BY <2>1, PageFields DEF Nodes
  <2>3. e \in PageSet(B)
    BY <1>1, <1>7, <2>1, <2>2, PageWith
  <2>4. t.page[p] \in LeafPages(B) \/ t.page[p] \in IndexPages
    BY <2>1 DEF PageSet
  <2>5. /\ e.right = t.page[p].right /\ e.type = t.page[p].type
        /\ e.len = t.page[p].len /\ e.node = t.page[p].node /\ e.child = t.page[p].child
        /\ e.parent = t.page[p].parent
    BY <1>7, <2>4 DEF LeafPages, IndexPages
  <2> QED BY <2>3, <2>5
<1> HIDE DEF a
<1>8. /\ pg[r] = c
      /\ pg[l] = a
      /\ \A p \in Pages(t) : p # l => \/ pg[p] = t.page[p]
                                     \/ pg[p] = [t.page[p] EXCEPT !.left = r]
  <2>1. r \in DOMAIN g.page /\ l \in DOMAIN g.page /\ r # l /\ r # b
    BY <1>1, <1>3, <1>5
  <2>2. \A p \in Pages(t) : p \in DOMAIN g.page /\ g.page[p] = t.page[p]
    BY <1>3, <1>5
  <2> QED BY <1>3, <2>1, <2>2
<1> HIDE DEF pg
<1>9. ASSUME NEW p \in Pages(g)  PROVE pg[p] \in PageSet(B) /\ pg[p].right < g.used
  <2>1. CASE p = r
    BY <1>1, <1>2, <1>3, <1>8, <2>1
  <2>2. CASE p = l
    BY <1>1, <1>3, <1>6, <1>8, <2>2
  <2>3. CASE p # r /\ p # l
    <3>1. p \in Pages(t) /\ (pg[p] = t.page[p] \/ pg[p] = [t.page[p] EXCEPT !.left = r])
      BY <1>3, <1>8, <2>3
    <3>2. t.page[p] \in PageSet(B) /\ t.page[p].right < r
      BY <1>1, <3>1
    <3>3. t.page[p].right \in Nat
      BY <3>2, PageFields
    <3>4. pg[p] \in PageSet(B) /\ pg[p].right = t.page[p].right
      BY <1>7, <3>1, <3>2
    <3> QED BY <1>1, <1>3, <3>2, <3>3, <3>4
  <2> QED BY <2>1, <2>2, <2>3
<1>10. pg \in [Pages(g) -> PageSet(B)]
  <2>1. pg = [p \in DOMAIN g.page |-> pg[p]]
    BY DEF pg
  <2> QED BY <1>5, <1>9, <2>1
<1> HIDE DEF s
<1>11. Typed(s, B)
  BY <1>3, <1>4, <1>9, <1>10, Repaged
<1>12. s.page = pg /\ s.first = g.first /\ s.left = g.left /\ s.right = g.right /\ s.used = g.used
  BY <1>3, <1>4 DEF Typed, Trees
<1>13. Pages(s) = Pages(g)
  BY <1>12 DEF Pages
<1>14. ASSUME NEW p \in Pages(t)
       PROVE  /\ pg[p].type = t.page[p].type /\ pg[p].node = t.page[p].node
              /\ pg[p].child = t.page[p].child /\ pg[p].parent = t.page[p].parent
              /\ p # l => pg[p].len = t.page[p].len /\ pg[p].right = t.page[p].right
  <2>1. p \in Pages(g) /\ p # r
    BY <1>3
  <2>2. CASE p = l
    BY <1>6, <1>8, <2>1, <2>2
  <2>3. CASE p # l
    BY <1>7, <1>8, <2>1, <2>3
  <2> QED BY <2>2, <2>3
<1> QED BY <1>2, <1>3, <1>6, <1>8, <1>11, <1>12, <1>13, <1>14 DEF s

----------------------------------------------------------------------------
(* Splits. *)

\* Merged slots are slots.
LEMMA MergedIn ==
    ASSUME NEW N \in Nat, NEW T, NEW node \in [0 .. N - 1 -> T], NEW n \in 0 .. N,
           NEW j \in 0 .. n, NEW d \in T
    PROVE  \A i \in 0 .. n : Merged(node, n, j, d)[i] \in T
<1> SUFFICES ASSUME NEW i \in 0 .. n  PROVE Merged(node, n, j, d)[i] \in T
  OBVIOUS
<1>1. Merged(node, n, j, d)[i] = IF i < j THEN node[i] ELSE IF i = j THEN d ELSE node[i - 1]
  BY DEF Merged
<1>2. i < j => i \in 0 .. N - 1
  OBVIOUS
<1>3. ~(i < j) /\ i # j => i - 1 \in 0 .. N - 1
  OBVIOUS
<1> QED BY <1>1, <1>2, <1>3

\* So are slots written over slots.
LEMMA OverIn ==
    ASSUME NEW N \in Nat, NEW T, NEW rest \in [0 .. N - 1 -> T], NEW n \in 0 .. N,
           NEW M, \A i \in 0 .. n - 1 : M[i] \in T
    PROVE  Over(M, n, rest) \in [0 .. N - 1 -> T]
BY DEF Over

\* The sizes of the halves of an index page and of a leaf.
LEMMA HalfIndex ==
    /\ indxkeys \div 2 \in 1 .. indxkeys - 1
    /\ (indxkeys + 1) \div 2 = indxkeys \div 2
    /\ (indxkeys - 1) \div 2 = (indxkeys \div 2) - 1
    /\ indxkeys - (indxkeys \div 2) = indxkeys \div 2
BY PageShape

\* A leaf has an odd number of slots: its halves, with the new slot, are equal.
LEMMA HalfLeaf ==
    /\ leafstep \div 2 \in 1 .. leafstep - 1
    /\ (leafstep + 1) \div 2 = (leafstep \div 2) + 1
    /\ leafstep - (leafstep \div 2) = (leafstep \div 2) + 1
BY PageShape

\* The part of a full index page's keys past the middle one.
BackOf(M) == [child |-> M[indxkeys \div 2].buf, len |-> indxkeys \div 2, node |-> After(M, indxkeys \div 2)]

IndexSlot == [hash: Nat, buf: Nat]

\* The key that moves up is the one in the middle of the merged keys.
LEMMA MiddleIs ==
    ASSUME NEW old \in IndexNodes, NEW d \in IndexSlot
    PROVE  Middle(old, d) = Merged(old, indxkeys, Where(old, indxkeys, d.hash), d)[indxkeys \div 2]
<1> DEFINE K == indxkeys
           half == K \div 2
           j == Where(old, K, d.hash)
<1>1. j \in 0 .. K
  <2>1. \A i \in 0 .. K - 1 : old[i].hash \in Nat
    BY DEF IndexNodes, IndexSlots
  <2>2. K \in Nat /\ d.hash \in Nat
    BY PageShape DEF IndexSlot
  <2> QED BY <2>1, <2>2, WhereIs
<1>2. /\ half \in 1 .. K - 1 /\ (K + 1) \div 2 = half /\ (K - 1) \div 2 = half - 1 /\ K \in Nat
  BY HalfIndex, PageShape
<1>3. Middle(old, d) = IF j = half THEN d ELSE IF j > half THEN old[half] ELSE old[half - 1]
  BY <1>2 DEF Middle
<1> HIDE DEF j, half
<1>4. Merged(old, K, j, d)[half] = IF half < j THEN old[half] ELSE IF half = j THEN d ELSE old[half - 1]
  BY <1>2 DEF Merged
<1>5. Merged(old, K, j, d)[half] = Middle(old, d)
  BY <1>1, <1>2, <1>3, <1>4
<1> QED BY <1>5 DEF half, j

\* What bplus_indexsplit writes into the two pages are the halves of the merged keys.
IndexHalved(old, d, K, half, j, M) ==
    /\ (IF j < half THEN Put(Paste(old, j, (half - 1) - j, old, j + 1), j, d) ELSE old)
           = Over(M, half, old)
    /\ (IF j > half
        THEN Put(Paste(old, j, K - j, Paste(old, half + 1, j - 1 - half, EmptyIndexNode, 0), j - half),
                 j - 1 - half, d)
        ELSE Paste(old, half, half, EmptyIndexNode, 0))
           = Over(After(M, half), half, EmptyIndexNode)
    /\ Over(M, half, old) \in IndexNodes
    /\ Over(After(M, half), half, EmptyIndexNode) \in IndexNodes
    /\ M[half] \in IndexSlot /\ j \in 0 .. K
    /\ \A i \in 0 .. half - 1 : Over(M, half, old)[i] = M[i]
    /\ \A i \in 0 .. half - 1 : Over(After(M, half), half, EmptyIndexNode)[i] = After(M, half)[i]

\* The keys bplus_indexsplit leaves on the left, and those it moves to the right.
LEMMA IndexHalves ==
    ASSUME NEW old \in IndexNodes, NEW d \in IndexSlot,
           NEW K, K = indxkeys, NEW half, half = K \div 2, NEW j, j = Where(old, K, d.hash),
           NEW M, M = Merged(old, K, j, d)
    PROVE  IndexHalved(old, d, K, half, j, M)
<1> DEFINE left == IF j < half THEN Put(Paste(old, j, (half - 1) - j, old, j + 1), j, d) ELSE old
           right == IF j > half
               THEN Put(Paste(old, j, K - j, Paste(old, half + 1, j - 1 - half, EmptyIndexNode, 0), j - half),
                        j - 1 - half, d)
               ELSE Paste(old, half, half, EmptyIndexNode, 0)
<1>1. /\ K \in Nat /\ half \in 1 .. K - 1 /\ K - half = half
      /\ half \in 0 .. K - 1 /\ half - 1 \in 0 .. K - 1 /\ half \in 0 .. K
  BY HalfIndex, PageShape
<1>2. /\ old \in [0 .. K - 1 -> IndexSlot] /\ EmptyIndexNode \in [0 .. K - 1 -> IndexSlot]
      /\ d.hash \in Nat
  BY DEF IndexNodes, IndexSlots, EmptyIndexNode, IndexSlot
<1>3. j \in 0 .. K
  <2>1. \A i \in 0 .. K - 1 : old[i].hash \in Nat
    BY <1>2 DEF IndexSlot
  <2> QED BY <1>1, <1>2, <2>1, WhereIs
<1>4. left = Over(M, half, old)
  <2>1. DOMAIN old = 0 .. K - 1 /\ old = [i \in 0 .. K - 1 |-> old[i]]
    BY <1>2
  <2> DEFINE last == half - 1
  <2>2. last \in 0 .. K - 1 /\ last + 1 = half
    BY <1>1
  <2>3. j < half <=> j <= last
    BY <1>1, <1>3
  <2>4. left = IF j <= last THEN Shifted(old, last, j, d) ELSE old
    BY <2>3 DEF Shifted
  <2> HIDE DEF last, left
  <2>5. (IF j <= last THEN Shifted(old, last, j, d) ELSE old) = Over(Merged(old, K, j, d), last + 1, old)
    BY ONLY <1>1, <1>3, <2>1, <2>2, LeftHalf
  <2> QED BY <2>2, <2>4, <2>5
<1>5. right = Over(After(M, half), half, EmptyIndexNode)
  <2>1. DOMAIN EmptyIndexNode = 0 .. K - 1
    BY <1>2
  <2>2. j > half <=> ~(j <= half)
    BY <1>1, <1>3
  <2>3. right = MovedRight(old, K, half, j, d, EmptyIndexNode)
    BY <1>1, <2>2 DEF MovedRight
  <2> HIDE DEF right
  <2>4. MovedRight(old, K, half, j, d, EmptyIndexNode)
            = Over(After(Merged(old, K, j, d), half), K - half, EmptyIndexNode)
    BY ONLY <1>1, <1>3, <2>1, RightHalf
  <2> QED BY <1>1, <2>3, <2>4
<1>6. \A i \in 0 .. K : M[i] \in IndexSlot
  <2>1. K \in 0 .. K
    BY <1>1
  <2> QED BY ONLY <1>1, <1>2, <1>3, <2>1, MergedIn, M = Merged(old, K, j, d), d \in IndexSlot
<1>7. \A i \in 0 .. half - 1 : After(M, half)[i] = M[half + 1 + i] /\ half + 1 + i \in 0 .. K
  BY <1>1 DEF After
<1>8. Over(M, half, old) \in [0 .. K - 1 -> IndexSlot]
  <2>1. \A i \in 0 .. half - 1 : M[i] \in IndexSlot
    BY <1>1, <1>6
  <2> QED BY ONLY <1>1, <1>2, <2>1, OverIn
<1>9. Over(After(M, half), half, EmptyIndexNode) \in [0 .. K - 1 -> IndexSlot]
  <2>1. \A i \in 0 .. half - 1 : After(M, half)[i] \in IndexSlot
    BY <1>6, <1>7
  <2> QED BY ONLY <1>1, <1>2, <2>1, OverIn
<1>10. \A i \in 0 .. half - 1 : i \in 0 .. K - 1 /\ i < half
  BY <1>1
<1>11. /\ \A i \in 0 .. half - 1 : Over(M, half, old)[i] = M[i]
       /\ \A i \in 0 .. half - 1 : Over(After(M, half), half, EmptyIndexNode)[i] = After(M, half)[i]
  BY <1>2, <1>10 DEF Over
<1>12. M[half] \in IndexSlot
  BY <1>1, <1>6
<1>13. IndexNodes = [0 .. K - 1 -> IndexSlot]
  BY DEF IndexNodes, IndexSlots, IndexSlot
<1> QED BY <1>3, <1>4, <1>5, <1>8, <1>9, <1>11, <1>12, <1>13 DEF IndexHalved

\* The children bplus_getchild finds are those between the keys.
LEMMA ChildrenAre ==
    ASSUME NEW pg, pg.len \in Nat
    PROVE  {GetChild(pg, k) : k \in -1 .. pg.len - 1} = Kids(pg)
<1>1. \A k \in -1 .. pg.len - 1 : GetChild(pg, k) = Kid(pg.child, pg.node, k)
  BY DEF GetChild, Kid
<1> QED BY <1>1 DEF Kids, KidSet

\* The tree after a page's keys are parted: page a keeps those before the middle
\* one, page r has those after it and is the parent of their children.
PartedTo(t, t2, a, keep, back, M, B) ==
    /\ Typed(t2, B)
    /\ t2.used = t.used + 1
    /\ Pages(t2) = Pages(t) \cup {t.used}
    /\ \A p \in Pages(t) :
         /\ t2.page[p].type = t.page[p].type
         /\ t2.page[p].child = t.page[p].child
         /\ t2.page[p].len = IF p = a THEN keep ELSE t.page[p].len
         /\ p # a => t2.page[p].node = t.page[p].node /\ t2.page[p].right = t.page[p].right
         /\ p = a => \A i \in 0 .. keep - 1 : t2.page[p].node[i] = M[i]
         /\ t2.page[p].parent = IF t.page[a].type = "index" /\ p \in Kids(back) THEN t.used
                                ELSE t.page[p].parent
    /\ t2.page[a].right = t.used
    /\ t2.page[t.used].right = t.page[a].right
    /\ t2.page[t.used].type = t.page[a].type
    /\ t2.page[t.used].parent = 0
    /\ t2.page[t.used].child = back.child
    /\ t2.page[t.used].len = back.len
    /\ \A i \in 0 .. back.len - 1 : t2.page[t.used].node[i] = back.node[i]

\* bplus_indexsplit parts the merged keys.
LEMMA IndexSplitIs ==
    ASSUME NEW B, NoBody \in B, NEW t, Typed(t, B), NEW a \in Pages(t), t.page[a].type = "index",
           NEW d \in IndexSlot, NEW M,
           M = Merged(t.page[a].node, indxkeys, Where(t.page[a].node, indxkeys, d.hash), d),
           t.used \notin Kids(BackOf(M))
    PROVE  /\ PartedTo(t, IndexSplit(t, a, d).tree, a, indxkeys \div 2, BackOf(M), M, B)
           /\ IndexSplit(t, a, d).tree.first = t.first
           /\ IndexSplit(t, a, d).tree.left = t.left
           /\ IndexSplit(t, a, d).tree.right = t.right
           /\ IndexSplit(t, a, d).up = [hash |-> M[indxkeys \div 2].hash, buf |-> t.used]
           /\ IndexSplit(t, a, d).up \in IndexSlot
<1> DEFINE r == t.used
           half == indxkeys \div 2
           old == t.page[a].node
           j == Where(old, indxkeys, d.hash)
           lnode == Over(M, half, old)
           rnode == Over(After(M, half), half, EmptyIndexNode)
           s == SplitOff(t, a, NewIndex, half, half)
           filled == [s.page EXCEPT ![a] = [@ EXCEPT !.node = lnode],
                                    ![r] = [@ EXCEPT !.node = rnode, !.child = M[half].buf]]
           adopted == Adopt(filled, r)
           t2 == [s EXCEPT !.page = adopted]
           back == BackOf(M)
<1>0. /\ half \in 1 .. indxkeys - 1 /\ (indxkeys + 1) \div 2 = half /\ (indxkeys - 1) \div 2 = half - 1
      /\ half \in Nat /\ indxkeys \in Nat
  BY HalfIndex, PageShape
<1>1. t.page[a] \in PageSet(B) /\ old \in IndexNodes /\ r \in Nat /\ a \in Nat /\ a # r
  <2>1. t.page[a] \in PageSet(B)
    BY DEF Typed
  <2>2. old \in IndexNodes
    BY <2>1, PageFields
  <2>3. r \in Nat /\ Pages(t) = 1 .. r - 1
    BY TreeFields DEF Pages
  <2> QED BY <2>1, <2>2, <2>3
<1>2. Middle(old, d) = M[half]
  BY <1>1, MiddleIs
<1>3. /\ (IF j < half THEN Put(Paste(old, j, (half - 1) - j, old, j + 1), j, d) ELSE old) = lnode
      /\ (IF j > half
          THEN Put(Paste(old, j, indxkeys - j, Paste(old, half + 1, j - 1 - half, EmptyIndexNode, 0), j - half),
                   j - 1 - half, d)
          ELSE Paste(old, half, half, EmptyIndexNode, 0)) = rnode
      /\ lnode \in IndexNodes /\ rnode \in IndexNodes
      /\ M[half] \in IndexSlot
      /\ \A i \in 0 .. half - 1 : lnode[i] = M[i]
      /\ \A i \in 0 .. half - 1 : rnode[i] = After(M, half)[i]
  <2> HIDE DEF half, old, j
  <2>1. half = indxkeys \div 2 /\ j = Where(old, indxkeys, d.hash) /\ M = Merged(old, indxkeys, j, d)
    BY DEF half, old, j
  <2> HIDE DEF lnode, rnode
  <2>2. IndexHalved(old, d, indxkeys, half, j, M)
    BY ONLY <1>1, <2>1, IndexHalves, d \in IndexSlot
  <2>3. lnode = Over(M, half, old) /\ rnode = Over(After(M, half), half, EmptyIndexNode)
    BY DEF lnode, rnode
  <2> QED BY ONLY <2>2, <2>3 DEF IndexHalved
<1>4. IndexSplit(t, a, d) = [tree |-> t2, up |-> [hash |-> M[half].hash, buf |-> r]]
  <2> HIDE DEF lnode, rnode
  <2> QED BY <1>0, <1>2, <1>3 DEF IndexSplit
<1> HIDE DEF lnode, rnode, half, old, j
<1>5. /\ Typed(s, B)
      /\ s.first = t.first /\ s.left = t.left /\ s.right = t.right /\ s.used = r + 1
      /\ Pages(s) = Pages(t) \cup {r} /\ r \notin Pages(t)
      /\ s.page[r].type = "index" /\ s.page[r].len = half
      /\ s.page[r].parent = 0
      /\ s.page[r].right = t.page[a].right
      /\ s.page[a].len = half /\ s.page[a].right = r
      /\ \A p \in Pages(t) :
           /\ s.page[p].type = t.page[p].type /\ s.page[p].node = t.page[p].node
           /\ s.page[p].child = t.page[p].child /\ s.page[p].parent = t.page[p].parent
           /\ p # a => s.page[p].len = t.page[p].len /\ s.page[p].right = t.page[p].right
  <2>1. NewIndex \in PageSet(B) /\ NewIndex.type = "index" /\ NewIndex.parent = 0
    BY NewPages DEF PageSet, NewIndex
  <2>2. half \in 0 .. Capacity(NewIndex.type)
    BY <1>0, <2>1 DEF Capacity
  <2>3. NewIndex.type = t.page[a].type
    BY <2>1
  <2> HIDE DEF s
  <2>4. s = SplitOff(t, a, NewIndex, half, half)
    BY DEF s
  <2> QED BY <2>1, <2>2, <2>3, <2>4, SplitOffIs
<1> HIDE DEF s
<1>6. /\ s.page \in [Pages(s) -> PageSet(B)] /\ DOMAIN s.page = Pages(s)
      /\ a \in Pages(s) /\ r \in Pages(s)
      /\ \A p \in Pages(s) : s.page[p].right < s.used
  BY <1>5 DEF Typed
<1>7. M[half].buf \in Nat /\ M[half].hash \in Nat
  BY <1>3 DEF IndexSlot
\* Filling the two pages.
<1>8. /\ DOMAIN filled = Pages(s)
      /\ \A p \in Pages(s) : p # a /\ p # r => filled[p] = s.page[p]
      /\ filled[a] = [s.page[a] EXCEPT !.node = lnode]
      /\ filled[r] = [s.page[r] EXCEPT !.node = rnode, !.child = M[half].buf]
  BY <1>1, <1>6
<1> HIDE DEF filled
<1>9. /\ filled[a] \in PageSet(B) /\ filled[a].right = s.page[a].right /\ filled[a].type = "index"
      /\ filled[a].parent = t.page[a].parent /\ filled[a].child = t.page[a].child
      /\ filled[a].len = half /\ filled[a].node = lnode
  <2>1. s.page[a] \in PageSet(B) /\ s.page[a].type = "index"
    BY <1>5, <1>6
  <2>2. lnode \in Nodes(s.page[a].type, B)
    BY <1>3, <2>1 DEF Nodes
  <2>3. filled[a] \in PageSet(B)
    <3>1. [s.page[a] EXCEPT !.node = lnode] \in PageSet(B)
      BY ONLY <1>7, <2>1, <2>2, PageWithNode
    <3> QED BY <1>8, <3>1
  <2>4. s.page[a] \in IndexPages
    BY <2>1 DEF PageSet, LeafPages
  <2>5. /\ filled[a].right = s.page[a].right /\ filled[a].type = s.page[a].type
        /\ filled[a].parent = s.page[a].parent /\ filled[a].child = s.page[a].child
        /\ filled[a].len = s.page[a].len /\ filled[a].node = lnode
    BY <1>8, <2>4 DEF IndexPages
  <2> QED BY <1>5, <2>1, <2>3, <2>5
<1>10. /\ filled[r] \in PageSet(B) /\ filled[r].right = s.page[r].right /\ filled[r].type = "index"
       /\ filled[r].parent = 0 /\ filled[r].child = M[half].buf
       /\ filled[r].len = half /\ filled[r].node = rnode
  <2>1. s.page[r] \in PageSet(B) /\ s.page[r].type = "index"
    BY <1>5, <1>6
  <2>2. rnode \in Nodes(s.page[r].type, B)
    BY <1>3, <2>1 DEF Nodes
  <2>3. filled[r] \in PageSet(B)
    <3>1. [s.page[r] EXCEPT !.node = rnode, !.child = M[half].buf] \in PageSet(B)
      BY ONLY <1>7, <2>1, <2>2, PageWithNode
    <3> QED BY <1>8, <3>1
  <2>4. s.page[r] \in IndexPages
    BY <2>1 DEF PageSet, LeafPages
  <2>5. /\ filled[r].right = s.page[r].right /\ filled[r].type = s.page[r].type
        /\ filled[r].parent = s.page[r].parent /\ filled[r].child = M[half].buf
        /\ filled[r].len = s.page[r].len /\ filled[r].node = rnode
    BY <1>8, <2>4 DEF IndexPages
  <2> QED BY <1>5, <2>1, <2>3, <2>5
\* The children that move.
<1>11. Kids(filled[r]) = Kids(back)
  <2>1. /\ back.child = M[half].buf /\ back.len = half /\ back.node = After(M, half)
    BY DEF BackOf, half
  <2> DEFINE b == [type |-> "index", len |-> back.len, child |-> back.child, parent |-> 0, node |-> back.node]
  <2>2. Kids(b) = Kids(back)
    BY DEF Kids
  <2>3. Alike(filled[r], b)
    <3>1. \A i \in 0 .. half - 1 : filled[r].node[i] = back.node[i]
      BY <1>3, <1>10, <2>1
    <3>2. b.type = "index" /\ b.len = half /\ b.child = back.child /\ b.parent = 0 /\ b.node = back.node
      BY <2>1
    <3> HIDE DEF b
    <3> QED BY ONLY <1>10, <2>1, <3>1, <3>2 DEF Alike
  <2>4. filled[r].len \in Nat
    BY <1>0, <1>10
  <2> HIDE DEF b, back
  <2>5. Kids(filled[r]) = Kids(b)
    BY <2>3, <2>4, AlikeKids
  <2> QED BY <2>2, <2>5
<1>12. adopted = [p \in Pages(s) |-> IF p \in Kids(back) THEN [filled[p] EXCEPT !.parent = r] ELSE filled[p]]
  <2>1. {GetChild(filled[r], k) : k \in -1 .. filled[r].len - 1} = Kids(filled[r])
    BY <1>0, <1>10, ChildrenAre
  <2> QED BY <1>8, <1>11, <2>1 DEF Adopt, Reparent
<1> HIDE DEF back
<1>13. \A p \in Pages(s) : filled[p] \in PageSet(B) /\ filled[p].right = s.page[p].right
  BY <1>6, <1>8, <1>9, <1>10
<1>14. ASSUME NEW p \in Pages(s)
       PROVE  /\ adopted[p] \in PageSet(B) /\ adopted[p].right < s.used /\ adopted[p].right = s.page[p].right
              /\ adopted[p].type = filled[p].type /\ adopted[p].len = filled[p].len
              /\ adopted[p].child = filled[p].child /\ adopted[p].node = filled[p].node
              /\ adopted[p].parent = IF p \in Kids(back) THEN r ELSE filled[p].parent
  <2>1. adopted[p] = IF p \in Kids(back) THEN [filled[p] EXCEPT !.parent = r] ELSE filled[p]
    BY <1>12
  <2> HIDE DEF adopted
  <2>2. filled[p] \in PageSet(B) /\ filled[p].right < s.used /\ filled[p].right = s.page[p].right
    BY <1>6, <1>13
  <2>3. filled[p] \in LeafPages(B) \/ filled[p] \in IndexPages
    BY <2>2 DEF PageSet
  <2>4. filled[p].node \in Nodes(filled[p].type, B) /\ filled[p].len \in 0 .. Capacity(filled[p].type)
    BY <2>2, PageFields DEF Nodes
  <2>5. CASE p \in Kids(back)
    <3>1. adopted[p] = [filled[p] EXCEPT !.parent = r]
      BY <2>1, <2>5
    <3>2. adopted[p] \in PageSet(B)
      BY <1>1, <2>2, <3>1, PageWithParent
    <3>3. /\ adopted[p].right = filled[p].right
          /\ adopted[p].type = filled[p].type /\ adopted[p].len = filled[p].len
          /\ adopted[p].child = filled[p].child /\ adopted[p].node = filled[p].node
          /\ adopted[p].parent = r
      BY <2>3, <3>1 DEF LeafPages, IndexPages
    <3> QED BY <2>2, <2>5, <3>2, <3>3
  <2>6. CASE p \notin Kids(back)
    BY <2>1, <2>2, <2>6
  <2> QED BY <2>5, <2>6
<1>15. adopted \in [Pages(s) -> PageSet(B)]
  <2>1. \A p \in Pages(s) : adopted[p] \in PageSet(B)
    BY <1>14
  <2>2. adopted = [p \in Pages(s) |-> adopted[p]]
    BY <1>12
  <2> HIDE DEF adopted
  <2> QED BY <2>1, <2>2
<1> HIDE DEF adopted
<1>16. Typed(t2, B)
  BY <1>5, <1>14, <1>15, Repaged
<1>17. t2.page = adopted /\ t2.first = s.first /\ t2.left = s.left /\ t2.right = s.right /\ t2.used = s.used
  BY <1>5 DEF Typed, Trees
<1>18. Pages(t2) = Pages(t) \cup {r}
  BY <1>5, <1>17 DEF Pages
<1> HIDE DEF t2
<1>19. ASSUME NEW p \in Pages(t)
       PROVE  /\ t2.page[p].type = t.page[p].type
              /\ t2.page[p].child = t.page[p].child
              /\ t2.page[p].len = IF p = a THEN half ELSE t.page[p].len
              /\ p # a => t2.page[p].node = t.page[p].node /\ t2.page[p].right = t.page[p].right
              /\ p = a => \A i \in 0 .. half - 1 : t2.page[p].node[i] = M[i]
              /\ t2.page[p].parent = IF t.page[a].type = "index" /\ p \in Kids(back) THEN r
                                     ELSE t.page[p].parent
  <2>0. t.page[a].type = "index"
    OBVIOUS
  <2>1. p \in Pages(s) /\ p # r
    BY <1>5
  <2>2. CASE p = a
    BY <1>3, <1>9, <1>14, <1>17, <2>1, <2>2
  <2>3. CASE p # a
    <3>1. /\ s.page[p].type = t.page[p].type /\ s.page[p].node = t.page[p].node
          /\ s.page[p].child = t.page[p].child /\ s.page[p].parent = t.page[p].parent
          /\ s.page[p].len = t.page[p].len /\ s.page[p].right = t.page[p].right
      BY <1>5, <2>3
    <3>2. filled[p] = s.page[p]
      BY <1>8, <2>1, <2>3
    <3>3. /\ adopted[p].type = filled[p].type /\ adopted[p].len = filled[p].len
          /\ adopted[p].child = filled[p].child /\ adopted[p].node = filled[p].node
          /\ adopted[p].right = filled[p].right
          /\ adopted[p].parent = IF p \in Kids(back) THEN r ELSE filled[p].parent
      BY <1>14, <2>1, <3>2
    <3> QED BY ONLY <1>17, <2>0, <2>3, <3>1, <3>2, <3>3
  <2> QED BY <2>2, <2>3
<1>20. /\ t2.page[r].type = t.page[a].type
       /\ t2.page[a].right = r /\ t2.page[r].right = t.page[a].right
       /\ t2.page[r].parent = 0
       /\ t2.page[r].child = back.child
       /\ t2.page[r].len = back.len
       /\ \A i \in 0 .. back.len - 1 : t2.page[r].node[i] = back.node[i]
  <2>1. /\ back.child = M[half].buf /\ back.len = half /\ back.node = After(M, half)
    BY DEF BackOf, half, back
  <2>2. r \notin Kids(back)
    BY DEF back
  <2>3. t2.page[a].right = r /\ t2.page[r].right = t.page[a].right
    BY <1>5, <1>6, <1>14, <1>17
  <2>4. t.page[a].type = "index"
    OBVIOUS
  <2>5. /\ adopted[r].type = filled[r].type /\ adopted[r].len = filled[r].len
        /\ adopted[r].child = filled[r].child /\ adopted[r].node = filled[r].node
        /\ adopted[r].parent = filled[r].parent
    BY <1>6, <1>14, <2>2
  <2> QED BY ONLY <1>3, <1>10, <1>17, <2>1, <2>3, <2>4, <2>5
<1>21. PartedTo(t, t2, a, half, back, M, B)
  BY <1>5, <1>16, <1>17, <1>18, <1>19, <1>20 DEF PartedTo
<1>22. [hash |-> M[half].hash, buf |-> r] \in IndexSlot
  BY <1>1, <1>7 DEF IndexSlot
<1>23. IndexSplit(t, a, d).tree = t2 /\ IndexSplit(t, a, d).up = [hash |-> M[half].hash, buf |-> r]
  BY <1>4 DEF t2
<1> QED BY <1>5, <1>17, <1>21, <1>22, <1>23 DEF half, back

\* The children of a page are those before one of its keys, and those from it on.
LEMMA KidsParted ==
    ASSUME NEW child, NEW node, NEW n \in Nat, NEW h \in 0 .. n - 1
    PROVE  KidSet(child, node, n)
               = KidSet(child, node, h) \cup KidSet(node[h].buf, After(node, h), (n - h) - 1)
<1> DEFINE m == (n - h) - 1
           late == KidSet(node[h].buf, After(node, h), m)
<1>1. \A k \in -1 .. m - 1 : /\ Kid(node[h].buf, After(node, h), k) = Kid(child, node, h + 1 + k)
                             /\ h + 1 + k \in -1 .. n - 1
  <2> SUFFICES ASSUME NEW k \in -1 .. m - 1
               PROVE  /\ Kid(node[h].buf, After(node, h), k) = Kid(child, node, h + 1 + k)
                      /\ h + 1 + k \in -1 .. n - 1
    OBVIOUS
  <2>1. CASE k = -1
    BY <2>1 DEF Kid
  <2>2. CASE k \in Nat
    <3>1. After(node, h)[k] = node[h + 1 + k]
      BY <2>2 DEF After
    <3> QED BY <2>2, <3>1 DEF Kid
  <2> QED BY <2>1, <2>2
<1>2. ASSUME NEW c \in KidSet(child, node, n)  PROVE c \in KidSet(child, node, h) \cup late
  <2>1. PICK k \in -1 .. n - 1 : c = Kid(child, node, k)
    BY <1>2 DEF KidSet
  <2>2. CASE k < h
    BY <2>1, <2>2 DEF KidSet
  <2>3. CASE ~(k < h)
    <3> DEFINE i == k - (h + 1)
    <3>1. i \in -1 .. m - 1 /\ h + 1 + i = k
      BY <2>3
    <3>2. Kid(node[h].buf, After(node, h), i) = Kid(child, node, h + 1 + i)
      BY <1>1, <3>1
    <3> QED BY <2>1, <3>1, <3>2 DEF KidSet
  <2> QED BY <2>2, <2>3
<1>3. ASSUME NEW c \in late  PROVE c \in KidSet(child, node, n)
  <2>1. PICK k \in -1 .. m - 1 : c = Kid(node[h].buf, After(node, h), k)
    BY <1>3 DEF KidSet
  <2> QED BY <1>1, <2>1 DEF KidSet
<1>4. ASSUME NEW c \in KidSet(child, node, h)  PROVE c \in KidSet(child, node, n)
  <2>1. PICK k \in -1 .. h - 1 : c = Kid(child, node, k)
    BY <1>4 DEF KidSet
  <2>2. k \in -1 .. n - 1
    BY <2>1
  <2> QED BY <2>1, <2>2 DEF KidSet
<1> QED BY <1>2, <1>3, <1>4

\* When no child is there for nothing, these are different ones.
LEMMA KidsApart ==
    ASSUME NEW child, NEW node, NEW n \in Nat, NEW X \in SUBSET Nat, NEW W, Fan(child, node, n, X, W),
           NEW h \in 0 .. n - 1, \A c \in KidSet(child, node, n) : W[c] # {}
    PROVE  KidSet(child, node, h) \cap KidSet(node[h].buf, After(node, h), (n - h) - 1) = {}
<1> DEFINE m == (n - h) - 1
<1> SUFFICES ASSUME NEW c, c \in KidSet(child, node, h),
                    c \in KidSet(node[h].buf, After(node, h), m)
             PROVE FALSE
  OBVIOUS
<1>1. PICK k \in -1 .. h - 1 : c = Kid(child, node, k)
  BY DEF KidSet
<1>2. PICK i \in -1 .. m - 1 : c = Kid(node[h].buf, After(node, h), i)
  BY DEF KidSet
<1> DEFINE e == h + 1 + i
<1>3. c = Kid(child, node, e)
  <2>1. CASE i = -1
    BY <1>2, <2>1 DEF Kid
  <2>2. CASE i \in Nat
    <3>1. After(node, h)[i] = node[h + 1 + i]
      BY <2>2 DEF After
    <3> QED BY <1>2, <2>2, <3>1 DEF Kid
  <2> QED BY <1>2, <2>1, <2>2
<1>4. k \in -1 .. n - 1 /\ e \in -1 .. n - 1 /\ e # k
  BY <1>1, <1>2
<1>5. W[Kid(child, node, k)] # {}
  BY <1>4, KidIn
<1> HIDE DEF e
<1>6. Kid(child, node, k) # Kid(child, node, e)
  BY <1>4, <1>5, KidsDiffer
<1> QED BY <1>1, <1>3, <1>6

\* The keys of a full index page and one more are halves around the middle one.
LEMMA HalvesIndex ==
    ASSUME NEW pg, NEW X \in SUBSET Nat, NEW R, NEW M, pg.type = "index", pg.len = indxkeys + 1, pg.node = M,
           Fan(pg.child, M, indxkeys + 1, X, R), \A c \in Kids(pg) : R[c] # {}
    PROVE  Halves(pg, indxkeys \div 2, BackOf(M), X, M[indxkeys \div 2].hash, R)
<1> DEFINE n == indxkeys + 1
           half == indxkeys \div 2
           u == M[half].hash
           back == BackOf(M)
<1>1. n \in Nat /\ half \in 0 .. n - 1 /\ half \in Nat \ {0} /\ (n - half) - 1 = half
      /\ n - half - 1 = half /\ 0 \in 0 .. n - 1 /\ 0 < half
  BY HalfIndex, PageShape
<1>2. back.child = M[half].buf /\ back.len = half /\ back.node = After(M, half)
  BY DEF BackOf
<1> HIDE DEF n, half, back
<1>3. Fan(pg.child, M, n, X, R)
  BY DEF n
<1>4. u \in X /\ M[0].hash \in X /\ M[0].hash < u
  BY <1>1, <1>3 DEF Fan, Keyed
<1>a. n \in Nat /\ half \in 0 .. n - 1
  BY <1>1
<1>5. Fan(pg.child, M, half, {x \in X : x < u}, R)
  BY ONLY <1>a, <1>3, X \in SUBSET Nat, FanFront
<1>6. Fan(back.child, back.node, back.len, {x \in X : ~(x < u)}, R)
  <2>1. Fan(M[half].buf, After(M, half), n - half - 1, {x \in X : ~(x < u)}, R)
    BY ONLY <1>a, <1>3, X \in SUBSET Nat, FanBack
  <2> QED BY <1>1, <1>2, <2>1
<1>7. Kids(pg) = KidSet(pg.child, M, n)
  BY DEF Kids, n
<1>8. Kids(back) = KidSet(M[half].buf, After(M, half), (n - half) - 1)
  BY <1>1, <1>2 DEF Kids
<1>9. Kids(pg) = KidSet(pg.child, M, half) \cup Kids(back)
  BY <1>1, <1>7, <1>8, KidsParted
<1>10. KidSet(pg.child, M, half) \cap Kids(back) = {}
  <2>1. \A c \in KidSet(pg.child, M, n) : R[c] # {}
    BY <1>7
  <2>2. KidSet(pg.child, M, half) \cap KidSet(M[half].buf, After(M, half), (n - half) - 1) = {}
    BY ONLY <1>a, <1>3, <2>1, X \in SUBSET Nat, KidsApart
  <2> QED BY <1>8, <2>2
<1>11. Halves(pg, half, back, X, u, R)
  BY <1>1, <1>2, <1>4, <1>5, <1>6, <1>9, <1>10 DEF Halves
<1> QED BY <1>11 DEF half, back

\* So are the slots of a full leaf and one more.
LeafBack(M) ==
    [child |-> 0, len |-> (leafstep \div 2) + 1, node |-> After(M, leafstep \div 2)]

\* The slots of a full leaf and one more are halves around the one in the middle.
LEMMA HalvesLeaf ==
    ASSUME NEW pg, NEW X \in SUBSET Nat, NEW R, NEW M, pg.type = "leaf", pg.node = M,
           Keyed(M, leafstep + 1, X)
    PROVE  Halves(pg, (leafstep \div 2) + 1, LeafBack(M), X, M[(leafstep \div 2) + 1].hash, R)
<1> DEFINE n == leafstep + 1
           half == leafstep \div 2
           m == half + 1
           u == M[m].hash
           back == LeafBack(M)
<1>1. n \in Nat /\ half \in 0 .. n - 1 /\ m \in 0 .. n /\ m \in 0 .. n - 1 /\ m \in Nat \ {0}
      /\ n - half - 1 = m /\ 0 \in 0 .. n - 1 /\ 0 < m
  BY HalfLeaf, PageShape
<1>2. back.len = m /\ back.node = After(M, half)
  BY DEF LeafBack
<1>a. half + 1 = m
  OBVIOUS
<1>b. n \in Nat /\ half \in 0 .. n - 1
  BY <1>1
<1> HIDE DEF n, half, m, back
<1>3. Keyed(M, n, X)
  BY DEF n
<1>4. u \in X /\ M[0].hash \in X /\ M[0].hash < u
  BY <1>1, <1>3 DEF Keyed
<1>5. \A i \in 0 .. m - 1 : M[i].hash < u
  BY <1>1, <1>3 DEF Keyed
<1>6. \A i \in m .. n - 1 : ~(M[i].hash < u)
  <2> SUFFICES ASSUME NEW i \in m .. n - 1  PROVE ~(M[i].hash < u)
    OBVIOUS
  <2>1. i \in 0 .. n - 1 /\ (i = m \/ m < i)
    BY <1>1
  <2>2. M[i].hash \in Nat /\ u \in Nat /\ (m < i => u < M[i].hash)
    BY <1>1, <1>3, <2>1 DEF Keyed
  <2> QED BY <2>1, <2>2
<1>7. Keyed(M, m, {x \in X : x < u})
  <2> HIDE DEF u
  <2> QED BY <1>1, <1>3, <1>5, KeyedFront
<1>8. Keyed(back.node, back.len, {x \in X : ~(x < u)})
  <2> HIDE DEF u
  <2>1. \A i \in half + 1 .. n - 1 : ~(M[i].hash < u)
    BY <1>a, <1>6
  <2>2. Keyed(After(M, half), n - half - 1, {x \in X : ~(x < u)})
    BY ONLY <1>b, <1>3, <2>1, X \in SUBSET Nat, KeyedBack
  <2> QED BY <1>1, <1>2, <2>2
<1>9. Halves(pg, m, back, X, u, R)
  BY <1>1, <1>2, <1>4, <1>7, <1>8 DEF Halves
<1> QED BY <1>9 DEF m, half, back

\* The pages of t are those of g, where page a has the slots M.
Pictured(g, t, a, M) ==
    \A p \in Pages(t) :
        /\ g[p].type = t.page[p].type /\ g[p].child = t.page[p].child /\ g[p].parent = t.page[p].parent
        /\ p # a => g[p].len = t.page[p].len /\ g[p].node = t.page[p].node
        /\ p = a => g[p].node = M

\* A split of the code's pages is a split of the tree.
LEMMA PartedTree ==
    ASSUME NEW B, NEW t, Typed(t, B), NEW a \in Pages(t), NEW keep, NEW back, NEW M, NEW t2,
           PartedTo(t, t2, a, keep, back, M, B), t2.first = t.first,
           NEW g, Pictured(g, t, a, M), NEW n, n = t.used - 1, NEW H, NEW R, NEW u,
           Sound(g, n, t.first, H, R, 0, 0), Halves(g[a], keep, back, R[a], u, R)
    PROVE  /\ Sound(t2.page, n + 1, t2.first, PartedHeights(H, n, a), PartedRanges(R, n, a, u), a, n + 1)
           /\ Torn(t2.page, n + 1, PartedHeights(H, n, a), PartedRanges(R, n, a, u), a, n + 1, u)
<1> DEFINE P == Parted(g, n, a, keep, back)
<1>1. Pages(t) = 1 .. n /\ n \in Nat /\ t.used = n + 1 /\ n + 1 \notin 1 .. n
  BY TreeFields DEF Pages
<1>2. a \in 1 .. n
  BY <1>1
<1>3. /\ Sound(P, n + 1, t.first, PartedHeights(H, n, a), PartedRanges(R, n, a, u), a, n + 1)
      /\ Torn(P, n + 1, PartedHeights(H, n, a), PartedRanges(R, n, a, u), a, n + 1, u)
  BY ONLY <1>2, PartedSound, Sound(g, n, t.first, H, R, 0, 0), Halves(g[a], keep, back, R[a], u, R)
<1>4. ASSUME NEW p \in 1 .. n + 1  PROVE Alike(P[p], t2.page[p])
  <2>1. CASE p = n + 1
    <3>1. P[p] = [type |-> g[a].type, parent |-> 0, child |-> back.child, len |-> back.len, node |-> back.node]
      BY <2>1 DEF Parted
    <3> HIDE DEF P
    <3>2. g[a].type = t.page[a].type
      BY DEF Pictured
    <3> QED BY <1>1, <2>1, <3>1, <3>2 DEF Alike, PartedTo
  <2>2. CASE p # n + 1
    <3>1. p \in Pages(t) /\ p \in 1 .. n
      BY <1>1, <2>2
    <3>2. P[p] = [type |-> g[p].type, child |-> g[p].child, node |-> g[p].node,
                  len |-> IF p = a THEN keep ELSE g[p].len,
                  parent |-> IF g[a].type = "index" /\ p \in Kids(back) THEN n + 1 ELSE g[p].parent]
      BY <2>2 DEF Parted
    <3> HIDE DEF P
    <3>3. /\ g[a].type = t.page[a].type
          /\ g[p].type = t.page[p].type /\ g[p].child = t.page[p].child /\ g[p].parent = t.page[p].parent
          /\ p # a => g[p].len = t.page[p].len /\ g[p].node = t.page[p].node
          /\ p = a => g[p].node = M
      BY <3>1 DEF Pictured
    <3>4. /\ t2.page[p].type = t.page[p].type
          /\ t2.page[p].child = t.page[p].child
          /\ t2.page[p].len = IF p = a THEN keep ELSE t.page[p].len
          /\ p # a => t2.page[p].node = t.page[p].node
          /\ p = a => \A i \in 0 .. keep - 1 : t2.page[p].node[i] = M[i]
          /\ t2.page[p].parent = IF t.page[a].type = "index" /\ p \in Kids(back) THEN n + 1
                                 ELSE t.page[p].parent
      BY <1>1, <3>1 DEF PartedTo
    <3>5. P[p].type = t2.page[p].type /\ P[p].child = t2.page[p].child /\ P[p].len = t2.page[p].len
      BY <3>2, <3>3, <3>4
    <3>6. P[p].parent = t2.page[p].parent
      BY <3>2, <3>3, <3>4
    <3>7. \A i \in 0 .. P[p].len - 1 : P[p].node[i] = t2.page[p].node[i]
      <4>1. CASE p = a
        BY <3>2, <3>3, <3>4, <4>1
      <4>2. CASE p # a
        BY <3>2, <3>3, <3>4, <4>2
      <4> QED BY <4>1, <4>2
    <3> QED BY <3>5, <3>6, <3>7 DEF Alike
  <2> QED BY <2>1, <2>2
<1> HIDE DEF P
<1>5. Sound(t2.page, n + 1, t2.first, PartedHeights(H, n, a), PartedRanges(R, n, a, u), a, n + 1)
  BY ONLY <1>3, <1>4, t2.first = t.first, SoundSame
<1>6. t2.page[n + 1].parent = 0
  BY <1>1 DEF PartedTo
<1> QED BY <1>3, <1>5, <1>6 DEF Torn

----------------------------------------------------------------------------
(* Step 3 of both splits. *)

\* A tree of the code that is a B+ tree, and one with a page still to be hung.
Mended(t, B, H, R) == Typed(t, B) /\ Sound(t.page, t.used - 1, t.first, H, R, 0, 0)

Unhung(t, B, H, R, l, up) ==
    /\ Typed(t, B) /\ up \in IndexSlot
    /\ Sound(t.page, t.used - 1, t.first, H, R, l, up.buf)
    /\ Torn(t.page, t.used - 1, H, R, l, up.buf, up.hash)

\* No page is added to the leaves, and none of them changes but for its parent.
SameLeaves(t, t2) ==
    /\ t2.left = t.left /\ t2.right = t.right
    /\ Pages(t) \subseteq Pages(t2)
    /\ \A p \in Pages(t2) : t2.page[p].type = "leaf" => p \in Pages(t) /\ t.page[p].type = "leaf"
    /\ \A p \in Pages(t) : t.page[p].type = "leaf" =>
         /\ t2.page[p].type = "leaf" /\ t2.page[p].len = t.page[p].len
         /\ t2.page[p].node = t.page[p].node /\ t2.page[p].right = t.page[p].right

\* And they stay there for the same hashes.
SameRanges(t, R, R2) == \A p \in Pages(t) : t.page[p].type = "leaf" => R2[p] = R[p]

\* Hanging a page mends the tree, or leaves one to be hung a level up.
HangDone(t, B, H, R, c2, H2, R2, level) ==
    /\ c2.open \in BOOLEAN
    /\ c2.open => /\ Unhung(c2.tree, B, H2, R2, c2.left, c2.up)
                  /\ H2[c2.left] = level /\ H2[c2.tree.first] = H[t.first]
    /\ ~c2.open => Mended(c2.tree, B, H2, R2)
    /\ SameLeaves(t, c2.tree) /\ SameRanges(t, R, R2)

\* The new root bplus_indexsplit writes above page l.
Crown(l, up) == [NewIndex EXCEPT !.len = 1, !.child = l, !.node = Put(EmptyIndexNode, 0, up)]

\* It is an index page without parent that has one key, of the child given.
LEMMA CrownIs ==
    ASSUME NEW B, NoBody \in B, NEW l \in Nat, NEW up \in IndexSlot
    PROVE  /\ Crown(l, up) \in PageSet(B) /\ Crown(l, up).type = "index" /\ Crown(l, up).parent = 0
           /\ Crown(l, up).child = l /\ Crown(l, up).len = 1 /\ Crown(l, up).node[0] = up
           /\ Crown(l, up).right = 0
<1> DEFINE node == Put(EmptyIndexNode, 0, up)
           crown == Crown(l, up)
<1>1. EmptyIndexNode \in IndexNodes /\ 0 \in IndexSlots /\ 1 \in 0 .. indxkeys
  <2>1. EmptyIndexNode \in IndexNodes
    BY NewPages
  <2> QED BY <2>1, PageShape DEF IndexSlots
<1>2. node \in IndexNodes /\ node[0] = up
  BY <1>1 DEF IndexNodes, IndexSlot, Put
<1>3. crown = [type |-> "index", left |-> 0, right |-> 0, parent |-> 0, len |-> 1, child |-> l, node |-> node]
  <2>1. crown = [NewIndex EXCEPT !.len = 1, !.child = l, !.node = node]
    BY DEF Crown
  <2>2. NewIndex = [type |-> "index", left |-> 0, right |-> 0, parent |-> 0,
                    len |-> 0, child |-> 0, node |-> EmptyIndexNode]
    BY DEF NewIndex
  <2> HIDE DEF crown, node
  <2> QED BY ONLY <2>1, <2>2
<1> HIDE DEF node, crown
<1>4. crown \in IndexPages
  BY <1>1, <1>2, <1>3 DEF IndexPages
<1>5. /\ crown.type = "index" /\ crown.parent = 0 /\ crown.child = l
      /\ crown.len = 1 /\ crown.node = node /\ crown.right = 0
  BY ONLY <1>3
<1>6. crown \in PageSet(B)
  BY <1>4 DEF PageSet
<1> QED BY <1>2, <1>5, <1>6 DEF crown

\* Pages with another parent are else as they were.
LEMMA ReparentIs ==
    ASSUME NEW B, NEW D, NEW pages \in [D -> PageSet(B)], NEW S, NEW r \in Nat
    PROVE  /\ Reparent(pages, S, r) \in [D -> PageSet(B)]
           /\ \A p \in D : p \notin S => Reparent(pages, S, r)[p] = pages[p]
           /\ \A p \in D :
                /\ Reparent(pages, S, r)[p].type = pages[p].type /\ Reparent(pages, S, r)[p].len = pages[p].len
                /\ Reparent(pages, S, r)[p].child = pages[p].child /\ Reparent(pages, S, r)[p].node = pages[p].node
                /\ Reparent(pages, S, r)[p].right = pages[p].right
                /\ Reparent(pages, S, r)[p].parent = IF p \in S THEN r ELSE pages[p].parent
<1> DEFINE f == Reparent(pages, S, r)
<1>1. f = [p \in D |-> IF p \in S THEN [pages[p] EXCEPT !.parent = r] ELSE pages[p]]
  BY DEF Reparent
<1>2. \A p \in D : f[p] = IF p \in S THEN [pages[p] EXCEPT !.parent = r] ELSE pages[p]
  BY <1>1
<1>3. f = [p \in D |-> f[p]]
  BY <1>1
<1> HIDE DEF f
<1>4. ASSUME NEW p \in D
      PROVE  /\ f[p] \in PageSet(B)
             /\ f[p].type = pages[p].type /\ f[p].len = pages[p].len
             /\ f[p].child = pages[p].child /\ f[p].node = pages[p].node
             /\ f[p].right = pages[p].right
             /\ f[p].parent = IF p \in S THEN r ELSE pages[p].parent
  <2>1. pages[p] \in PageSet(B)
    OBVIOUS
  <2>2. CASE p \in S
    <3>1. f[p] = [pages[p] EXCEPT !.parent = r]
      BY <1>2, <2>2
    <3> QED BY ONLY <2>1, <2>2, <3>1, r \in Nat, PageWithParent
  <2>3. CASE p \notin S
    BY <1>2, <2>1, <2>3
  <2> QED BY <2>2, <2>3
<1>5. f \in [D -> PageSet(B)]
  BY <1>3, <1>4
<1>6. \A p \in D : p \notin S => f[p] = pages[p]
  BY <1>2
<1> QED BY <1>4, <1>5, <1>6 DEF f

\* bplus_indexsplit makes a new root when the page it split had no parent.
LEMMA HangRoot ==
    ASSUME NEW B, NoBody \in B, NEW c, NEW t, t = c.tree, NEW H, NEW R,
           Unhung(t, B, H, R, c.left, c.up), t.page[c.left].parent = 0
    PROVE  /\ Mended(Hang(c).tree, B, CrownedHeights(H, t.used - 1, c.left), CrownedRanges(R, t.used - 1))
           /\ Hang(c).open = FALSE
           /\ SameLeaves(t, Hang(c).tree)
           /\ SameRanges(t, R, CrownedRanges(R, t.used - 1))
<1> DEFINE l == c.left
           up == c.up
           r == c.up.buf
           root == t.used
           n == t.used - 1
           grown == Grow(t, Crown(l, up))
           page == Reparent(grown.page, {l, r}, root)
           t2 == [first |-> root, left |-> grown.left, right |-> grown.right, used |-> root + 1, page |-> page]
           K == Crowned(t.page, n, l, up)
<1>1. /\ n \in Nat /\ root = n + 1 /\ Pages(t) = 1 .. n /\ t.first \in Nat /\ t.left \in Nat /\ t.right \in Nat
      /\ root \in Nat /\ Typed(t, B) /\ t.used = root /\ t.used - 1 = n
  BY TreeFields DEF Pages, Unhung
<1>2. /\ l \in 1 .. n /\ r \in 1 .. n /\ l # r /\ up \in IndexSlot /\ l \in Nat
      /\ Sound(t.page, n, t.first, H, R, l, r) /\ Torn(t.page, n, H, R, l, r, up.hash)
  BY DEF Unhung, Torn
<1> HIDE DEF n, root, l, r, up
<1>3. t.first = l
  <2>1. l # t.first => t.page[l].parent \in 1 .. n
    BY <1>2 DEF Sound, KnowsParent
  <2>2. t.page[l].parent = 0
    BY DEF l
  <2> QED BY <1>1, <2>1, <2>2
<1> DEFINE crown == Crown(l, up)
<1>4. /\ crown \in PageSet(B) /\ crown.type = "index" /\ crown.parent = 0 /\ crown.child = l
      /\ crown.len = 1 /\ crown.node[0] = up /\ crown.right = 0
  BY ONLY <1>2, NoBody \in B, CrownIs
<1> HIDE DEF crown
<1>5. /\ Typed(grown, B)
      /\ grown.first = t.first /\ grown.left = t.left /\ grown.right = t.right /\ grown.used = root + 1
      /\ grown.page[root] = crown
      /\ \A p \in Pages(t) : grown.page[p] = t.page[p] /\ p # root
      /\ Pages(grown) = Pages(t) \cup {root} /\ root \notin Pages(t)
  <2>1. crown.right < t.used + 1
    BY <1>1, <1>4
  <2>2. grown = Grow(t, crown)
    BY DEF crown
  <2> HIDE DEF grown
  <2> QED BY <1>1, <1>4, <2>1, <2>2, GrowIs
<1>6. Hang(c).tree = [grown EXCEPT !.first = root, !.page = page] /\ Hang(c).open = FALSE
  BY DEF Hang, root, l, r, up, Crown
<1> HIDE DEF grown
<1>7. /\ Pages(grown) = 1 .. n + 1
      /\ grown.page \in [1 .. n + 1 -> PageSet(B)]
      /\ \A p \in 1 .. n + 1 : grown.page[p].right < (n + 1) + 1
      /\ \A p \in 1 .. n + 1 : p \in 1 .. n \/ p = root
      /\ \A p \in 1 .. n : p \in 1 .. n + 1 /\ p # root
      /\ root \in 1 .. n + 1
  <2>1. Pages(grown) = 1 .. n + 1
    BY <1>1, <1>5 DEF Pages
  <2>2. grown.page \in [Pages(grown) -> PageSet(B)] /\ \A p \in Pages(grown) : grown.page[p].right < (n + 1) + 1
    BY <1>1, <1>5 DEF Typed
  <2>3. /\ \A p \in 1 .. n + 1 : p \in 1 .. n \/ p = root
        /\ \A p \in 1 .. n : p \in 1 .. n + 1 /\ p # root
        /\ root \in 1 .. n + 1
    BY <1>1
  <2> QED BY <2>1, <2>2, <2>3
<1>8. Hang(c).tree = t2
  <2>1. grown = [first |-> grown.first, left |-> grown.left, right |-> grown.right,
                 used |-> grown.used, page |-> grown.page]
    BY <1>5, TreeFields
  <2> HIDE DEF page
  <2> QED BY <1>5, <1>6, <2>1
<1>9. /\ page \in [1 .. n + 1 -> PageSet(B)]
      /\ \A p \in 1 .. n + 1 : p \notin {l, r} => page[p] = grown.page[p]
      /\ \A p \in 1 .. n + 1 :
            /\ page[p].type = grown.page[p].type /\ page[p].len = grown.page[p].len
            /\ page[p].child = grown.page[p].child /\ page[p].node = grown.page[p].node
            /\ page[p].right = grown.page[p].right
            /\ page[p].parent = IF p \in {l, r} THEN root ELSE grown.page[p].parent
  <2>1. root \in Nat
    BY <1>1
  <2>2. grown.page \in [1 .. n + 1 -> PageSet(B)]
    BY <1>7
  <2> DEFINE D == 1 .. n + 1
             S == {l, r}
  <2>3. grown.page \in [D -> PageSet(B)]
    BY <2>2
  <2>4. page = Reparent(grown.page, S, root)
    OBVIOUS
  <2> HIDE DEF D, S, page
  <2>5. /\ page \in [D -> PageSet(B)]
        /\ \A p \in D : p \notin S => page[p] = grown.page[p]
        /\ \A p \in D :
            /\ page[p].type = grown.page[p].type /\ page[p].len = grown.page[p].len
            /\ page[p].child = grown.page[p].child /\ page[p].node = grown.page[p].node
            /\ page[p].right = grown.page[p].right
            /\ page[p].parent = IF p \in S THEN root ELSE grown.page[p].parent
    BY ONLY <2>1, <2>3, <2>4, ReparentIs
  <2> QED BY <2>5 DEF D, S
<1> HIDE DEF page
<1>10. page[root] = crown
  BY <1>1, <1>2, <1>5, <1>7, <1>9
<1>11. ASSUME NEW p \in 1 .. n
      PROVE  /\ page[p].type = t.page[p].type /\ page[p].child = t.page[p].child
             /\ page[p].len = t.page[p].len /\ page[p].node = t.page[p].node
             /\ page[p].right = t.page[p].right
             /\ page[p].parent = IF p = l \/ p = r THEN root ELSE t.page[p].parent
  <2>1. p \in 1 .. n + 1 /\ grown.page[p] = t.page[p]
    BY <1>1, <1>5, <1>7
  <2> QED BY <1>9, <2>1
<1>12. Typed(t2, B)
  <2>1. n + 1 \in Nat /\ grown.left \in Nat /\ grown.right \in Nat
    BY <1>1, <1>5
  <2>2. t2 = [first |-> root, left |-> grown.left, right |-> grown.right, used |-> (n + 1) + 1, page |-> page]
    BY <1>1
  <2>3. \A p \in 1 .. n + 1 : page[p].right < (n + 1) + 1
    BY <1>7, <1>9
  <2>4. root \in Nat /\ page \in [1 .. n + 1 -> PageSet(B)]
    BY <1>1, <1>9
  <2> HIDE DEF t2
  <2> QED BY ONLY <2>1, <2>2, <2>3, <2>4, TypedBy
<1>13. Pages(t2) = 1 .. n + 1 /\ t2.used - 1 = n + 1
  BY <1>1 DEF Pages
<1>14. Sound(K, n + 1, n + 1, CrownedHeights(H, n, l), CrownedRanges(R, n), 0, 0)
  <2>1. Sound(t.page, n, l, H, R, l, up.buf) /\ Torn(t.page, n, H, R, l, up.buf, up.hash)
    BY <1>2, <1>3 DEF r, up
  <2> QED BY ONLY <2>1, CrownedSound
<1>15. ASSUME NEW p \in 1 .. n + 1  PROVE Alike(K[p], page[p])
  <2>1. CASE p = n + 1
    <3>1. K[p] = [type |-> "index", parent |-> 0, child |-> l, len |-> 1, node |-> [i \in {0} |-> up]]
      BY <2>1 DEF Crowned
    <3>2. page[p] = crown
      BY <1>1, <1>10, <2>1
    <3> HIDE DEF K
    <3>3. K[p].len = 1 /\ K[p].node[0] = up
      BY <3>1
    <3>4. \A i \in 0 .. K[p].len - 1 : K[p].node[i] = page[p].node[i]
      BY <1>4, <3>2, <3>3
    <3>5. K[p].type = "index" /\ K[p].parent = 0 /\ K[p].child = l
      BY <3>1
    <3> QED BY <1>4, <3>2, <3>3, <3>4, <3>5 DEF Alike
  <2>2. CASE p # n + 1
    <3>0. p \in 1 .. n
      BY <1>1, <2>2
    <3>1. K[p] = [type |-> t.page[p].type, child |-> t.page[p].child, node |-> t.page[p].node,
                  len |-> t.page[p].len,
                  parent |-> IF p = l \/ p = up.buf THEN n + 1 ELSE t.page[p].parent]
      BY <2>2 DEF Crowned
    <3> HIDE DEF K
    <3>2. /\ K[p].type = t.page[p].type /\ K[p].child = t.page[p].child /\ K[p].node = t.page[p].node
          /\ K[p].len = t.page[p].len
          /\ K[p].parent = IF p = l \/ p = up.buf THEN n + 1 ELSE t.page[p].parent
      BY ONLY <3>1
    <3>3. up.buf = r
      BY DEF up, r
    <3> QED BY <1>1, <1>11, <3>0, <3>2, <3>3 DEF Alike
  <2> QED BY <2>1, <2>2
<1> HIDE DEF K
<1>16. Mended(t2, B, CrownedHeights(H, n, l), CrownedRanges(R, n))
  <2>1. Sound(page, n + 1, n + 1, CrownedHeights(H, n, l), CrownedRanges(R, n), 0, 0)
    BY ONLY <1>14, <1>15, SoundSame
  <2> QED BY <1>1, <1>12, <1>13, <2>1 DEF Mended
<1>17. SameLeaves(t, t2)
  <2>1. ASSUME NEW p \in Pages(t2), page[p].type = "leaf"
        PROVE  p \in Pages(t) /\ t.page[p].type = "leaf"
    <3>1. p # root
      BY <1>4, <1>10, <2>1
    <3>2. p \in 1 .. n
      BY <1>7, <1>13, <3>1
    <3> QED BY <1>1, <1>11, <2>1, <3>2
  <2>2. Pages(t) \subseteq Pages(t2)
    BY <1>1, <1>7, <1>13
  <2>3. t2.left = t.left /\ t2.right = t.right /\ t2.page = page
    BY <1>5
  <2> HIDE DEF t2
  <2> QED BY <1>1, <1>11, <2>1, <2>2, <2>3 DEF SameLeaves
<1>18. SameRanges(t, R, CrownedRanges(R, n))
  BY <1>1, <1>7 DEF SameRanges, CrownedRanges
<1> QED BY <1>6, <1>8, <1>16, <1>17, <1>18 DEF n, l

\* The slots of a page of a type.
LeafSlot(B) == [hash: Nat, body: B]
SlotsOf(type, B) == IF type = "leaf" THEN LeafSlot(B) ELSE IndexSlot

\* The slots of a page, whatever its type, are a function from its slot numbers.
LEMMA NodesAre ==
    ASSUME NEW B, NEW pg \in PageSet(B)
    PROVE  /\ Capacity(pg.type) \in Nat \ {0} /\ pg.len \in 0 .. Capacity(pg.type)
           /\ Nodes(pg.type, B) = [0 .. Capacity(pg.type) - 1 -> SlotsOf(pg.type, B)]
           /\ pg.node \in [0 .. Capacity(pg.type) - 1 -> SlotsOf(pg.type, B)]
           /\ \A i \in 0 .. Capacity(pg.type) - 1 : pg.node[i].hash \in Nat
<1> DEFINE N == Capacity(pg.type)
           T == SlotsOf(pg.type, B)
<1>1. N \in Nat \ {0} /\ pg.len \in 0 .. N
  BY PageShape, PageFields DEF Capacity
<1>2. Nodes(pg.type, B) = [0 .. N - 1 -> T]
  BY DEF Nodes, SlotsOf, Capacity, LeafNodes, LeafSlots, LeafSlot, IndexNodes, IndexSlots, IndexSlot
<1>3. pg.node \in Nodes(pg.type, B)
  BY PageFields DEF Nodes
<1>4. \A d \in T : d.hash \in Nat
  BY DEF SlotsOf, LeafSlot, IndexSlot
<1> HIDE DEF N, T
<1>5. pg.node \in [0 .. N - 1 -> T]
  BY <1>2, <1>3
<1>6. \A i \in 0 .. N - 1 : pg.node[i].hash \in Nat
  BY <1>4, <1>5
<1> QED BY <1>1, <1>2, <1>5, <1>6 DEF N, T

\* indexadd and leafadd put the slot where it belongs.
LEMMA SlotAddIs ==
    ASSUME NEW B, NEW pg \in PageSet(B), HasRoom(pg), NEW d \in SlotsOf(pg.type, B), NEW j,
           j = Where(pg.node, pg.len, d.hash)
    PROVE  /\ SlotAdd(pg, d) \in PageSet(B)
           /\ SlotAdd(pg, d).type = pg.type /\ SlotAdd(pg, d).parent = pg.parent
           /\ SlotAdd(pg, d).child = pg.child /\ SlotAdd(pg, d).right = pg.right
           /\ SlotAdd(pg, d).len = pg.len + 1 /\ j \in 0 .. pg.len
           /\ SlotAdd(pg, d).node = Over(Merged(pg.node, pg.len, j, d), pg.len + 1, pg.node)
           /\ \A i \in 0 .. pg.len : SlotAdd(pg, d).node[i] = Merged(pg.node, pg.len, j, d)[i]
<1> DEFINE N == Capacity(pg.type)
           T == SlotsOf(pg.type, B)
           n == pg.len
           node == pg.node
           M == Merged(node, n, j, d)
           new == Over(M, n + 1, node)
           s == SlotAdd(pg, d)
<1>1. /\ N \in Nat \ {0} /\ n \in 0 .. N - 1 /\ n + 1 \in 0 .. N /\ n \in 0 .. N
      /\ Nodes(pg.type, B) = [0 .. N - 1 -> T]
      /\ node \in [0 .. N - 1 -> T]
      /\ \A i \in 0 .. N - 1 : node[i].hash \in Nat
      /\ d.hash \in Nat /\ d \in T /\ N \in Nat /\ n \in Nat
  <2>1. /\ N \in Nat \ {0} /\ n \in 0 .. N
        /\ Nodes(pg.type, B) = [0 .. N - 1 -> T]
        /\ node \in [0 .. N - 1 -> T]
        /\ \A i \in 0 .. N - 1 : node[i].hash \in Nat
    BY NodesAre
  <2>2. n < N
    BY DEF HasRoom, Capacity
  <2>3. d.hash \in Nat
    BY DEF SlotsOf, LeafSlot, IndexSlot
  <2> QED BY <2>1, <2>2, <2>3
<1>2. n + 1 \in 0 .. Capacity(pg.type)
  BY <1>1
<1>3. s = [pg EXCEPT !.len = n + 1, !.node = Shifted(node, n, j, d)]
  BY DEF SlotAdd, Shifted
<1>4. j = Where(node, n, d.hash)
  OBVIOUS
<1> HIDE DEF N, T, n, node
<1>5. j \in 0 .. n
  <2>1. \A i \in 0 .. n - 1 : node[i].hash \in Nat
    BY <1>1
  <2> QED BY ONLY <1>1, <1>4, <2>1, WhereIs
<1>6. Shifted(node, n, j, d) = new
  <2>1. DOMAIN node = 0 .. N - 1
    BY <1>1
  <2> QED BY ONLY <1>1, <1>5, <2>1, ShiftedSlots
<1>7. new \in [0 .. N - 1 -> T]
  <2>1. \A i \in 0 .. n : M[i] \in T
    BY ONLY <1>1, <1>5, MergedIn
  <2>2. \A i \in 0 .. (n + 1) - 1 : M[i] \in T
    BY <1>1, <2>1
  <2> HIDE DEF M
  <2> QED BY ONLY <1>1, <2>2, OverIn
<1>8. \A i \in 0 .. n : new[i] = M[i]
  BY <1>1 DEF Over
<1> HIDE DEF new, s
<1>9. s = [pg EXCEPT !.len = n + 1, !.node = new]
  BY <1>3, <1>6
<1>10. s \in PageSet(B)
  <2>1. new \in Nodes(pg.type, B)
    BY <1>1, <1>7
  <2>2. [pg EXCEPT !.len = n + 1, !.node = new] \in PageSet(B)
    BY ONLY <1>2, <2>1, pg \in PageSet(B), PageWithSlots
  <2> QED BY <1>9, <2>2
<1>11. /\ s.type = pg.type /\ s.parent = pg.parent /\ s.child = pg.child /\ s.right = pg.right
       /\ s.len = n + 1 /\ s.node = new
  <2>1. pg \in LeafPages(B) \/ pg \in IndexPages
    BY DEF PageSet
  <2> QED BY <1>9, <2>1 DEF LeafPages, IndexPages
<1>12. /\ s.node = Over(Merged(pg.node, pg.len, j, d), pg.len + 1, pg.node)
       /\ \A i \in 0 .. pg.len : s.node[i] = Merged(pg.node, pg.len, j, d)[i]
  BY <1>8, <1>11 DEF new, node, n
<1>13. j \in 0 .. pg.len /\ s.len = pg.len + 1
  BY <1>5, <1>11 DEF n
<1> QED BY <1>10, <1>11, <1>12, <1>13 DEF s

\* The tree when the parent of page r has been set, and its key is still to come.
Placed(t, r, a) == [t EXCEPT !.page = Reparent(t.page, {r}, a)]

\* Nothing but the parent of page r differs.
LEMMA PlacedIs ==
    ASSUME NEW B, NEW t, Typed(t, B), NEW r, NEW a \in Nat
    PROVE  /\ Typed(Placed(t, r, a), B)
           /\ Placed(t, r, a).first = t.first /\ Placed(t, r, a).left = t.left
           /\ Placed(t, r, a).right = t.right /\ Placed(t, r, a).used = t.used
           /\ Pages(Placed(t, r, a)) = Pages(t)
           /\ \A p \in Pages(t) : p # r => Placed(t, r, a).page[p] = t.page[p]
           /\ \A p \in Pages(t) :
                /\ Placed(t, r, a).page[p].type = t.page[p].type /\ Placed(t, r, a).page[p].len = t.page[p].len
                /\ Placed(t, r, a).page[p].child = t.page[p].child /\ Placed(t, r, a).page[p].node = t.page[p].node
                /\ Placed(t, r, a).page[p].right = t.page[p].right
                /\ Placed(t, r, a).page[p].parent = IF p = r THEN a ELSE t.page[p].parent
<1> DEFINE S == {r}
           D == Pages(t)
           page == Reparent(t.page, S, a)
           t2 == Placed(t, r, a)
<1>1. t2 = [t EXCEPT !.page = page]
  BY DEF Placed
<1>2. t.page \in [D -> PageSet(B)] /\ \A p \in D : t.page[p].right < t.used
  BY DEF Typed
<1>3. page = Reparent(t.page, S, a)
  OBVIOUS
<1>4. \A p : p \in S <=> p = r
  OBVIOUS
<1> HIDE DEF S, D, page, t2
<1>5. /\ page \in [D -> PageSet(B)]
      /\ \A p \in D : p \notin S => page[p] = t.page[p]
      /\ \A p \in D :
            /\ page[p].type = t.page[p].type /\ page[p].len = t.page[p].len
            /\ page[p].child = t.page[p].child /\ page[p].node = t.page[p].node
            /\ page[p].right = t.page[p].right
            /\ page[p].parent = IF p \in S THEN a ELSE t.page[p].parent
  BY ONLY <1>2, <1>3, a \in Nat, ReparentIs
<1>6. Typed(t2, B)
  <2>1. \A p \in D : page[p].right < t.used
    BY <1>2, <1>5
  <2> QED BY <1>1, <1>5, <2>1, Repaged DEF D
<1>7. /\ t2.first = t.first /\ t2.left = t.left /\ t2.right = t.right /\ t2.used = t.used
      /\ t2.page = page
  <2>1. t = [first |-> t.first, left |-> t.left, right |-> t.right, used |-> t.used, page |-> t.page]
    BY TreeFields
  <2> QED BY ONLY <1>1, <2>1
<1>8. Pages(t2) = D
  BY <1>7 DEF Pages, D
<1> QED BY <1>4, <1>5, <1>6, <1>7, <1>8 DEF t2, D

\* Page up.buf is to be hung under a, the parent of its neighbour l, at j.
Hangs(t, B, H, R, l, up, a, j) ==
    /\ Unhung(t, B, H, R, l, up)
    /\ a = t.page[l].parent /\ a # 0 /\ j = Where(t.page[a].node, t.page[a].len, up.hash)

HungWell(t, H, R, l, up, a, j) ==
    /\ a \in Pages(t) /\ a # up.buf /\ t.page[a].type = "index" /\ a \in Nat
    /\ j \in 0 .. t.page[a].len
    /\ H[a] = H[l] + 1
    /\ Sound(Hung(t.page, a, up.buf, j, up), t.used - 1, t.first, H, R, 0, 0)

\* A page with a parent can be hung under it.
LEMMA HungIs ==
    ASSUME NEW B, NEW t, NEW H, NEW R, NEW l, NEW up, NEW a, NEW j, Hangs(t, B, H, R, l, up, a, j)
    PROVE  HungWell(t, H, R, l, up, a, j)
<1> DEFINE n == t.used - 1
           r == up.buf
<1>0. /\ Unhung(t, B, H, R, l, up)
      /\ a = t.page[l].parent /\ a # 0 /\ j = Where(t.page[a].node, t.page[a].len, up.hash)
  BY DEF Hangs
<1>1. n \in Nat /\ Pages(t) = 1 .. n /\ DOMAIN t.page = 1 .. n
  BY <1>0, TreeFields DEF Pages, Unhung, Typed
<1>2. Sound(t.page, n, t.first, H, R, l, r) /\ Torn(t.page, n, H, R, l, r, up.hash)
  BY <1>0 DEF Unhung
<1> HIDE DEF n
<1>3. l # t.first
  <2>1. t.page[t.first].parent = 0
    BY <1>2 DEF Sound, Rooted
  <2> QED BY <1>0, <2>1
<1>4. /\ a \in 1 .. n /\ t.page[a].type = "index" /\ a # r /\ j \in 0 .. t.page[a].len
      /\ Sound(Hung(t.page, a, r, j, up), n, t.first, H, R, 0, 0)
  <2> DEFINE g == t.page
             first == t.first
  <2>1. up.buf = r /\ a = g[l].parent /\ j = Where(g[a].node, g[a].len, up.hash)
    BY <1>0
  <2> HIDE DEF r, g, first
  <2>2. DOMAIN g = 1 .. n /\ Sound(g, n, first, H, R, l, r) /\ Torn(g, n, H, R, l, r, up.hash) /\ l # first
    BY <1>1, <1>2, <1>3 DEF g, first
  <2>3. /\ a \in 1 .. n /\ g[a].type = "index" /\ a # r /\ j \in 0 .. g[a].len
        /\ Sound(Hung(g, a, r, j, up), n, first, H, R, 0, 0)
    <3>1. Goes(g, l, r, up, a, j)
      BY <2>1 DEF Goes
    <3> QED BY ONLY <2>2, <3>1, HungSound
  <2> QED BY <2>3 DEF g, first
<1>5. H[a] = H[l] + 1
  <2>1. l \in 1 .. n /\ l # r
    BY <1>2 DEF Torn
  <2>2. l \in Kids(t.page[a])
    BY <1>0, <1>2, <1>3, <2>1 DEF Sound, KnowsParent
  <2>3. H[l] + 1 = H[a]
    <3>1. Fathered(t.page, n, H, a, r)
      BY <1>2, <1>4 DEF Sound
    <3> HIDE DEF r
    <3> QED BY <1>4, <2>2, <3>1 DEF Fathered
  <2> QED BY <2>3
<1> QED BY ONLY <1>1, <1>4, <1>5 DEF n, HungWell

\* bplus_indexsplit hangs the page when the parent has room for its key.
LEMMA HangRoom ==
    ASSUME NEW B, NoBody \in B, NEW c, NEW t, t = c.tree, NEW H, NEW R,
           Unhung(t, B, H, R, c.left, c.up), NEW a, a = t.page[c.left].parent, a # 0, HasRoom(t.page[a])
    PROVE  /\ Mended(Hang(c).tree, B, H, R)
           /\ Hang(c).open = FALSE
           /\ SameLeaves(t, Hang(c).tree)
<1> DEFINE l == c.left
           up == c.up
           r == c.up.buf
           n == t.used - 1
           same == Placed(t, r, a)
           pg == t.page[a]
           j == Where(pg.node, pg.len, up.hash)
           page == [same.page EXCEPT ![a] = SlotAdd(pg, up)]
           t2 == [same EXCEPT !.page = page]
           G == Hung(t.page, a, r, j, up)
<1>2. /\ a \in Pages(t) /\ a # r /\ pg.type = "index" /\ a \in Nat
      /\ j \in 0 .. pg.len
      /\ Sound(G, n, t.first, H, R, 0, 0)
  <2>1. Unhung(t, B, H, R, l, up) /\ a = t.page[l].parent
    OBVIOUS
  <2>2. up.buf = r
    OBVIOUS
  <2>3. Hangs(t, B, H, R, l, up, a, j)
    BY <2>1 DEF Hangs
  <2> HIDE DEF l, up, r, j
  <2>4. HungWell(t, H, R, l, up, a, j)
    BY ONLY <2>3, HungIs
  <2> QED BY <2>2, <2>4 DEF HungWell
<1>3. Typed(t, B) /\ up \in IndexSlot /\ Pages(t) = 1 .. n
  BY DEF Unhung, Pages
<1>4. /\ Typed(same, B)
      /\ same.first = t.first /\ same.left = t.left /\ same.right = t.right /\ same.used = t.used
      /\ Pages(same) = Pages(t)
      /\ \A p \in Pages(t) : p # r => same.page[p] = t.page[p]
      /\ \A p \in Pages(t) :
           /\ same.page[p].type = t.page[p].type /\ same.page[p].len = t.page[p].len
           /\ same.page[p].child = t.page[p].child /\ same.page[p].node = t.page[p].node
           /\ same.page[p].right = t.page[p].right
           /\ same.page[p].parent = IF p = r THEN a ELSE t.page[p].parent
  <2>1. Typed(t, B) /\ a \in Nat
    BY <1>2, <1>3
  <2> HIDE DEF r
  <2> QED BY ONLY <2>1, PlacedIs
<1>5. same.page[a] = pg
  BY <1>2, <1>4
<1>6. Hang(c).tree = t2 /\ Hang(c).open = FALSE
  <2>1. Hang(c) = [tree |-> [same EXCEPT !.page[a] = SlotAdd(@, up)], left |-> a, up |-> up, open |-> FALSE]
    BY DEF Hang, Placed
  <2>2. [same EXCEPT !.page[a] = SlotAdd(@, up)] = t2
    <3> HIDE DEF same
    <3> QED BY <1>4, <1>5 DEF Typed, Trees
  <2> HIDE DEF same, t2
  <2> QED BY ONLY <2>1, <2>2
<1> DEFINE new == SlotAdd(pg, up)
           M == Merged(pg.node, pg.len, j, up)
<1>7. /\ new \in PageSet(B) /\ new.type = pg.type /\ new.parent = pg.parent
      /\ new.child = pg.child /\ new.right = pg.right
      /\ new.len = pg.len + 1
      /\ \A i \in 0 .. pg.len : new.node[i] = M[i]
  <2>1. pg \in PageSet(B)
    BY <1>2, <1>3 DEF Typed
  <2>2. up \in SlotsOf(pg.type, B)
    BY <1>2, <1>3 DEF SlotsOf
  <2>3. HasRoom(pg)
    OBVIOUS
  <2>4. j = Where(pg.node, pg.len, up.hash)
    OBVIOUS
  <2> HIDE DEF pg, j, up
  <2> QED BY ONLY <2>1, <2>2, <2>3, <2>4, SlotAddIs
<1> HIDE DEF same, G
<1>8. /\ DOMAIN page = Pages(t) /\ page[a] = new
      /\ \A p \in Pages(t) : p # a => page[p] = same.page[p]
      /\ page = [p \in Pages(t) |-> page[p]]
  BY <1>2, <1>4 DEF Typed
<1> HIDE DEF page, new
<1>9. Typed(t2, B)
  <2>1. \A p \in Pages(t) : same.page[p] \in PageSet(B) /\ same.page[p].right < same.used
    BY <1>4 DEF Typed
  <2>2. ASSUME NEW p \in Pages(t)  PROVE page[p] \in PageSet(B) /\ page[p].right < same.used
    <3>1. CASE p = a
      <4>1. new \in PageSet(B) /\ new.right = pg.right
        BY <1>7
      <4>2. page[p] = new /\ pg.right < same.used
        BY <1>5, <1>8, <2>1, <3>1
      <4> HIDE DEF pg
      <4> QED BY <4>1, <4>2
    <3>2. CASE p # a
      BY <1>8, <2>1, <3>2
    <3> QED BY <3>1, <3>2
  <2>3. page \in [Pages(same) -> PageSet(B)]
    BY <1>4, <1>8, <2>2
  <2> QED BY <1>4, <2>2, <2>3, Repaged
<1>10. t2.first = t.first /\ t2.left = t.left /\ t2.right = t.right /\ t2.used = t.used /\ t2.page = page
  BY <1>4 DEF Typed, Trees
<1>11. Pages(t2) = Pages(t)
  BY <1>10 DEF Pages
<1> HIDE DEF t2
<1>12. ASSUME NEW p \in 1 .. n  PROVE Alike(G[p], page[p])
  <2>1. p \in Pages(t) /\ p \in DOMAIN t.page
    BY <1>3 DEF Typed
  <2>2. CASE p = a
    <3>1. G[p] = [type |-> pg.type, parent |-> pg.parent, child |-> pg.child, len |-> pg.len + 1, node |-> M]
      BY <2>1, <2>2 DEF Hung, G
    <3>2. pg.len \in Nat
      <4>1. pg \in PageSet(B)
        BY <1>2, <1>3 DEF Typed
      <4> HIDE DEF pg
      <4> QED BY <4>1, NodesAre
    <3> HIDE DEF M, pg
    <3>3. /\ G[p].type = pg.type /\ G[p].parent = pg.parent /\ G[p].child = pg.child
          /\ G[p].len = pg.len + 1 /\ G[p].node = M
      BY ONLY <3>1
    <3>4. \A i \in 0 .. G[p].len - 1 : G[p].node[i] = page[p].node[i]
      <4>1. 0 .. G[p].len - 1 = 0 .. pg.len
        BY <3>2, <3>3
      <4>2. page[p] = new
        BY <1>8, <2>2
      <4> QED BY <1>7, <3>3, <4>1, <4>2
    <3> QED BY <1>7, <1>8, <2>2, <3>3, <3>4 DEF Alike
  <2>3. CASE p # a
    <3>1. page[p] = same.page[p]
      BY <1>8, <2>1, <2>3
    <3>2. G[p] = IF p = r THEN [type |-> t.page[r].type, parent |-> a, child |-> t.page[r].child,
                                len |-> t.page[r].len, node |-> t.page[r].node]
                 ELSE t.page[p]
      BY <2>1, <2>3 DEF Hung, G
    <3>3. CASE p = r
      <4>1. /\ G[p].type = t.page[p].type /\ G[p].parent = a /\ G[p].child = t.page[p].child
            /\ G[p].len = t.page[p].len /\ G[p].node = t.page[p].node
        BY ONLY <3>2, <3>3
      <4>2. /\ page[p].type = t.page[p].type /\ page[p].parent = a /\ page[p].child = t.page[p].child
            /\ page[p].len = t.page[p].len /\ page[p].node = t.page[p].node
        BY ONLY <1>4, <2>1, <3>1, <3>3
      <4> QED BY <4>1, <4>2 DEF Alike
    <3>4. CASE p # r
      BY ONLY <1>4, <2>1, <3>1, <3>2, <3>4 DEF Alike
    <3> QED BY <3>3, <3>4
  <2> QED BY <2>2, <2>3
<1>13. Sound(page, n, t.first, H, R, 0, 0)
  BY ONLY <1>2, <1>12, SoundSame
<1>14. Mended(t2, B, H, R)
  BY <1>9, <1>10, <1>13 DEF Mended
<1>15. ASSUME NEW p \in Pages(t)
       PROVE  /\ page[p].type = t.page[p].type
              /\ page[p].type = "leaf" => /\ page[p].len = t.page[p].len /\ page[p].node = t.page[p].node
                                          /\ page[p].right = t.page[p].right
  <2>1. CASE p = a
    BY <1>2, <1>7, <1>8, <2>1
  <2>2. CASE p # a
    BY ONLY <1>4, <1>8, <2>2
  <2> QED BY <2>1, <2>2
<1>16. SameLeaves(t, t2)
  BY <1>10, <1>11, <1>15 DEF SameLeaves
<1> QED BY <1>6, <1>14, <1>16

\* The keys of a full parent and the one to be hung, in halves around the middle one.
LEMMA HungHalves ==
    ASSUME NEW g, NEW n, NEW first, NEW H, NEW R, Sound(g, n, first, H, R, 0, 0),
           NEW a \in 1 .. n, NEW M, g[a].type = "index", g[a].len = indxkeys + 1, g[a].node = M
    PROVE  /\ Halves(g[a], indxkeys \div 2, BackOf(M), R[a], M[indxkeys \div 2].hash, R)
           /\ Kids(BackOf(M)) \subseteq 1 .. n
<1> DEFINE W == Span(R, 0, 0)
           pg == g[a]
           X == R[a]
<1>1. n \in Nat /\ R \in [1 .. n -> SUBSET Nat] /\ X \in SUBSET Nat
  BY DEF Sound
<1>2. W = R
  BY <1>1 DEF Span
<1>3. Fan(pg.child, M, indxkeys + 1, X, R)
  <2>1. Steered(pg, H[a], X, W)
    BY DEF Sound
  <2> HIDE DEF W, X
  <2> QED BY <1>2, <2>1 DEF Steered
<1>4. Kids(pg) \subseteq 1 .. n
  BY DEF Sound, Fathered
<1>5. \A c \in Kids(pg) : R[c] # {}
  BY <1>4, NoneIdle
<1>6. pg.type = "index" /\ pg.len = indxkeys + 1 /\ pg.node = M
  OBVIOUS
<1> HIDE DEF pg, X
<1>7. Halves(pg, indxkeys \div 2, BackOf(M), X, M[indxkeys \div 2].hash, R)
  BY ONLY <1>1, <1>3, <1>5, <1>6, HalvesIndex
<1>8. Kids(BackOf(M)) \subseteq Kids(pg)
  BY <1>6, <1>7 DEF Halves
<1> QED BY <1>4, <1>7, <1>8 DEF pg, X

\* bplus_indexsplit splits a full parent in turn, which leaves a page to be hung one
\* level up.
LEMMA HangFull ==
    ASSUME NEW B, NoBody \in B, NEW c, NEW t, t = c.tree, NEW H, NEW R,
           Unhung(t, B, H, R, c.left, c.up), NEW a, a = t.page[c.left].parent, a # 0, ~HasRoom(t.page[a])
    PROVE  \E H2, R2 : HangDone(t, B, H, R, Hang(c), H2, R2, H[c.left] + 1)
<1> DEFINE l == c.left
           up == c.up
           r == c.up.buf
           n == t.used - 1
           same == Placed(t, r, a)
           pg == t.page[a]
           j == Where(pg.node, pg.len, up.hash)
           G == Hung(t.page, a, r, j, up)
           half == indxkeys \div 2
           M == Merged(pg.node, indxkeys, Where(pg.node, indxkeys, up.hash), up)
           back == BackOf(M)
           u == M[half].hash
           s == IndexSplit(same, a, up)
           H2 == PartedHeights(H, n, a)
           R2 == PartedRanges(R, n, a, u)
<1>1. /\ a \in Pages(t) /\ a # r /\ pg.type = "index" /\ a \in Nat
      /\ j \in 0 .. pg.len
      /\ H[a] = H[l] + 1
      /\ Sound(G, n, t.first, H, R, 0, 0)
  <2>1. Unhung(t, B, H, R, l, up) /\ a = t.page[l].parent
    OBVIOUS
  <2>2. up.buf = r
    OBVIOUS
  <2>3. Hangs(t, B, H, R, l, up, a, j)
    BY <2>1 DEF Hangs
  <2> HIDE DEF l, up, r, j
  <2>4. HungWell(t, H, R, l, up, a, j)
    BY ONLY <2>3, HungIs
  <2> QED BY <2>2, <2>4 DEF HungWell
<1>2. /\ Typed(t, B) /\ up \in IndexSlot /\ Pages(t) = 1 .. n /\ n \in Nat /\ t.used = n + 1
      /\ t.first \in 1 .. n
  <2>1. Typed(t, B) /\ up \in IndexSlot
    BY DEF Unhung
  <2>2. t.first \in 1 .. n
    BY DEF Unhung, Sound, Rooted
  <2> QED BY <2>1, <2>2, TreeFields DEF Pages
<1>3. /\ Typed(same, B)
      /\ same.first = t.first /\ same.left = t.left /\ same.right = t.right /\ same.used = t.used
      /\ Pages(same) = Pages(t)
      /\ \A p \in Pages(t) : p # r => same.page[p] = t.page[p]
      /\ \A p \in Pages(t) :
           /\ same.page[p].type = t.page[p].type /\ same.page[p].len = t.page[p].len
           /\ same.page[p].child = t.page[p].child /\ same.page[p].node = t.page[p].node
           /\ same.page[p].right = t.page[p].right
           /\ same.page[p].parent = IF p = r THEN a ELSE t.page[p].parent
  <2>1. Typed(t, B) /\ a \in Nat
    BY <1>1, <1>2
  <2> HIDE DEF r
  <2> QED BY ONLY <2>1, PlacedIs
<1>4. same.page[a] = pg /\ pg.len = indxkeys
  <2>1. same.page[a] = pg
    BY <1>1, <1>3
  <2>2. pg \in PageSet(B)
    BY <1>1, <1>2 DEF Typed
  <2> HIDE DEF pg
  <2>3. pg.len \in 0 .. indxkeys
    BY <1>1, <2>2, NodesAre DEF Capacity
  <2>4. ~(pg.len < indxkeys)
    BY <1>1 DEF HasRoom, pg
  <2> QED BY <2>1, <2>3, <2>4, PageShape
<1>5. Hang(c) = [tree |-> s.tree, left |-> a, up |-> s.up, open |-> TRUE]
  BY DEF Hang, Placed
<1>6. /\ G[a].type = "index" /\ G[a].len = indxkeys + 1 /\ G[a].node = M
      /\ G[a].child = pg.child /\ G[a].parent = pg.parent
  <2>1. a \in DOMAIN t.page
    BY <1>1, <1>2 DEF Typed
  <2>2. G[a] = [type |-> pg.type, parent |-> pg.parent, child |-> pg.child,
                len |-> pg.len + 1, node |-> Merged(pg.node, pg.len, j, up)]
    BY <2>1 DEF Hung
  <2>3. pg.len = indxkeys /\ pg.type = "index"
    BY <1>1, <1>4
  <2>4. Merged(pg.node, pg.len, j, up) = M
    BY <2>3
  <2> HIDE DEF G, M, pg, j
  <2> QED BY ONLY <2>2, <2>3, <2>4
<1> HIDE DEF same, G, M, n, s
<1>7. Halves(G[a], half, back, R[a], u, R) /\ Kids(back) \subseteq 1 .. n
  <2>1. Sound(G, n, t.first, H, R, 0, 0) /\ a \in 1 .. n
    BY <1>1, <1>2
  <2> QED BY ONLY <1>6, <2>1, HungHalves
<1>8. /\ PartedTo(same, s.tree, a, half, back, M, B)
      /\ s.tree.first = same.first /\ s.tree.left = same.left /\ s.tree.right = same.right
      /\ s.up = [hash |-> u, buf |-> same.used] /\ s.up \in IndexSlot
  <2>1. a \in Pages(same) /\ same.page[a].type = "index" /\ Typed(same, B)
    BY <1>1, <1>3
  <2>2. M = Merged(same.page[a].node, indxkeys, Where(same.page[a].node, indxkeys, up.hash), up)
    BY <1>4 DEF M
  <2>3. same.used \notin Kids(BackOf(M))
    BY ONLY <1>2, <1>3, <1>7
  <2>4. up \in IndexSlot
    BY <1>2
  <2> HIDE DEF up
  <2>5. s = IndexSplit(same, a, up)
    BY DEF s, up
  <2>6. /\ PartedTo(same, IndexSplit(same, a, up).tree, a, indxkeys \div 2, BackOf(M), M, B)
        /\ IndexSplit(same, a, up).tree.first = same.first
        /\ IndexSplit(same, a, up).tree.left = same.left
        /\ IndexSplit(same, a, up).tree.right = same.right
        /\ IndexSplit(same, a, up).up = [hash |-> M[indxkeys \div 2].hash, buf |-> same.used]
        /\ IndexSplit(same, a, up).up \in IndexSlot
    BY ONLY <2>1, <2>2, <2>3, <2>4, NoBody \in B, IndexSplitIs
  <2> QED BY <2>5, <2>6
<1>9. ASSUME NEW p \in Pages(t), p # a
      PROVE  /\ G[p].type = t.page[p].type /\ G[p].child = t.page[p].child /\ G[p].len = t.page[p].len
             /\ G[p].node = t.page[p].node /\ G[p].parent = IF p = r THEN a ELSE t.page[p].parent
  <2>1. p \in DOMAIN t.page
    BY <1>2 DEF Typed
  <2>2. G[p] = IF p = r THEN [type |-> t.page[r].type, parent |-> a, child |-> t.page[r].child,
                              len |-> t.page[r].len, node |-> t.page[r].node]
               ELSE t.page[p]
    BY <1>9, <2>1 DEF Hung, G
  <2>3. CASE p = r
    BY <2>2, <2>3
  <2>4. CASE p # r
    BY <2>2, <2>4
  <2> QED BY <2>3, <2>4
<1>10. Pictured(G, same, a, M)
  <2> SUFFICES ASSUME NEW p \in Pages(same)
               PROVE /\ G[p].type = same.page[p].type /\ G[p].child = same.page[p].child
                     /\ G[p].parent = same.page[p].parent
                     /\ p # a => G[p].len = same.page[p].len /\ G[p].node = same.page[p].node
                     /\ p = a => G[p].node = M
    BY DEF Pictured
  <2>1. CASE p = a
    BY <1>1, <1>4, <1>6, <2>1
  <2>2. CASE p # a
    BY ONLY <1>3, <1>9, <2>2
  <2> QED BY <2>1, <2>2
<1>11. /\ Sound(s.tree.page, n + 1, s.tree.first, H2, R2, a, n + 1)
       /\ Torn(s.tree.page, n + 1, H2, R2, a, n + 1, u)
  <2>1. Typed(same, B) /\ a \in Pages(same) /\ n = same.used - 1
    BY <1>1, <1>2, <1>3 DEF n
  <2>2. PartedTo(same, s.tree, a, half, back, M, B) /\ s.tree.first = same.first
    BY <1>8
  <2>3. Sound(G, n, same.first, H, R, 0, 0)
    BY <1>1, <1>3
  <2>4. Halves(G[a], half, back, R[a], u, R)
    BY <1>7
  <2> DEFINE t2 == s.tree
  <2> HIDE DEF u, back, half, t2
  <2>5. PartedTo(same, t2, a, half, back, M, B) /\ t2.first = same.first
    BY <2>2 DEF t2
  <2>6. /\ Sound(t2.page, n + 1, t2.first, PartedHeights(H, n, a), PartedRanges(R, n, a, u), a, n + 1)
        /\ Torn(t2.page, n + 1, PartedHeights(H, n, a), PartedRanges(R, n, a, u), a, n + 1, u)
    BY ONLY <1>10, <2>1, <2>3, <2>4, <2>5, PartedTree
  <2> QED BY <2>6 DEF t2
<1>b. /\ Typed(s.tree, B) /\ s.tree.used = same.used + 1
      /\ Pages(s.tree) = Pages(same) \cup {same.used}
      /\ s.tree.page[a].type = same.page[a].type
      /\ s.tree.page[same.used].type = same.page[a].type
      /\ \A p \in Pages(same) : p # a =>
            /\ s.tree.page[p].type = same.page[p].type /\ s.tree.page[p].len = same.page[p].len
            /\ s.tree.page[p].node = same.page[p].node /\ s.tree.page[p].right = same.page[p].right
  <2>1. PartedTo(same, s.tree, a, half, back, M, B) /\ a \in Pages(same)
    BY <1>1, <1>3, <1>8
  <2> HIDE DEF half, back, u, pg, r, l, up, j
  <2> QED BY ONLY <2>1 DEF PartedTo
<1>12. s.up.hash = u /\ s.up.buf = n + 1 /\ s.tree.used - 1 = n + 1 /\ Typed(s.tree, B)
  <2> HIDE DEF u
  <2>1. same.used = n + 1 /\ n \in Nat
    BY <1>2, <1>3
  <2>2. s.up = [hash |-> u, buf |-> same.used]
    BY <1>8
  <2>3. s.up.hash = u /\ s.up.buf = same.used
    BY ONLY <2>2
  <2>4. s.tree.used = same.used + 1 /\ Typed(s.tree, B)
    BY <1>b
  <2> QED BY ONLY <2>1, <2>3, <2>4
<1>13. Unhung(s.tree, B, H2, R2, a, s.up)
  <2> HIDE DEF H2, R2, u
  <2> QED BY <1>8, <1>11, <1>12 DEF Unhung
<1>14. H2[a] = H[l] + 1 /\ H2[t.first] = H[t.first]
  <2>1. a \in 1 .. n + 1 /\ a # n + 1 /\ t.first \in 1 .. n + 1 /\ t.first # n + 1
    BY ONLY <1>1, <1>2
  <2> QED BY <1>1, <2>1 DEF PartedHeights
<1>15. SameLeaves(t, s.tree)
  <2>1. s.tree.left = t.left /\ s.tree.right = t.right /\ Pages(t) \subseteq Pages(s.tree)
    BY <1>3, <1>8, <1>b
  <2>2. ASSUME NEW p \in Pages(t), p # a
        PROVE  /\ s.tree.page[p].type = t.page[p].type /\ s.tree.page[p].len = t.page[p].len
               /\ s.tree.page[p].node = t.page[p].node /\ s.tree.page[p].right = t.page[p].right
    <3>1. p \in Pages(same) /\ p # a
      BY <1>3, <2>2
    <3>2. /\ same.page[p].type = t.page[p].type /\ same.page[p].len = t.page[p].len
          /\ same.page[p].node = t.page[p].node /\ same.page[p].right = t.page[p].right
      BY <1>3, <2>2
    <3>3. /\ s.tree.page[p].type = same.page[p].type /\ s.tree.page[p].len = same.page[p].len
          /\ s.tree.page[p].node = same.page[p].node /\ s.tree.page[p].right = same.page[p].right
      BY ONLY <1>b, <3>1
    <3> QED BY ONLY <3>2, <3>3
  <2>3. s.tree.page[a].type = "index"
    <3>1. same.page[a].type = pg.type
      BY <1>1, <1>3
    <3>2. s.tree.page[a].type = same.page[a].type
      BY <1>b
    <3> QED BY <1>1, <3>1, <3>2
  <2>4. ASSUME NEW p \in Pages(s.tree), s.tree.page[p].type = "leaf"
        PROVE  p \in Pages(t) /\ t.page[p].type = "leaf"
    <3>1. p \in Pages(t) \/ p = same.used
      BY <1>3, <1>b
    <3>2. s.tree.page[same.used].type = "index"
      <4>1. s.tree.page[same.used].type = same.page[a].type
        BY <1>b
      <4>2. same.page[a].type = pg.type
        BY <1>1, <1>3
      <4> QED BY <1>1, <4>1, <4>2
    <3> QED BY <2>2, <2>3, <2>4, <3>1, <3>2
  <2>5. \A p \in Pages(t) : t.page[p].type = "leaf" => p # a
    BY <1>1
  <2> QED BY <2>1, <2>2, <2>4, <2>5 DEF SameLeaves
<1>16. SameRanges(t, R, R2)
  <2> SUFFICES ASSUME NEW p \in Pages(t), t.page[p].type = "leaf"  PROVE R2[p] = R[p]
    BY DEF SameRanges
  <2>1. p # a /\ p \in 1 .. n /\ n \in Nat
    BY <1>1, <1>2
  <2>2. p \in 1 .. n + 1 /\ p # n + 1
    BY ONLY <2>1
  <2> QED BY <2>1, <2>2 DEF PartedRanges
<1>17. /\ Unhung(Hang(c).tree, B, H2, R2, Hang(c).left, Hang(c).up)
       /\ Hang(c).open = TRUE
       /\ H2[Hang(c).left] = H[c.left] + 1
       /\ Hang(c).tree.first = t.first
       /\ H2[t.first] = H[t.first]
       /\ SameLeaves(t, Hang(c).tree)
       /\ SameRanges(t, R, R2)
  <2> HIDE DEF H2, R2
  <2> QED BY ONLY <1>3, <1>5, <1>8, <1>13, <1>14, <1>15, <1>16
<1> HIDE DEF H2, R2
<1>18. HangDone(t, B, H, R, Hang(c), H2, R2, H[c.left] + 1)
  BY <1>17 DEF HangDone
<1> QED BY <1>18

\* What is true of the leaves after two steps.
LEMMA SameLeavesTwice ==
    ASSUME NEW t, NEW t1, NEW t2, NEW R, NEW R1, NEW R2,
           SameLeaves(t, t1), SameLeaves(t1, t2), SameRanges(t, R, R1), SameRanges(t1, R1, R2)
    PROVE  SameLeaves(t, t2) /\ SameRanges(t, R, R2)
<1>1. \A p \in Pages(t) : t.page[p].type = "leaf" =>
         /\ p \in Pages(t1) /\ t1.page[p].type = "leaf" /\ t1.page[p].len = t.page[p].len
         /\ t1.page[p].node = t.page[p].node /\ t1.page[p].right = t.page[p].right
  BY DEF SameLeaves
<1>2. \A p \in Pages(t1) : t1.page[p].type = "leaf" =>
         /\ t2.page[p].type = "leaf" /\ t2.page[p].len = t1.page[p].len
         /\ t2.page[p].node = t1.page[p].node /\ t2.page[p].right = t1.page[p].right
  BY DEF SameLeaves
<1>3. \A p \in Pages(t2) : t2.page[p].type = "leaf" => p \in Pages(t) /\ t.page[p].type = "leaf"
  BY DEF SameLeaves
<1>4. t2.left = t.left /\ t2.right = t.right /\ Pages(t) \subseteq Pages(t2)
  BY DEF SameLeaves
<1>5. SameLeaves(t, t2)
  BY <1>1, <1>2, <1>3, <1>4 DEF SameLeaves
<1>6. SameRanges(t, R, R2)
  BY <1>1 DEF SameRanges
<1> QED BY <1>5, <1>6

\* In each case hanging a page does that.
LEMMA HangIs ==
    ASSUME NEW B, NoBody \in B, NEW c, NEW H, NEW R, Unhung(c.tree, B, H, R, c.left, c.up)
    PROVE  \E H2, R2 : HangDone(c.tree, B, H, R, Hang(c), H2, R2, H[c.left] + 1)
<1> DEFINE t == c.tree
           a == t.page[c.left].parent
<1>1. CASE a = 0
  <2> DEFINE H2 == CrownedHeights(H, t.used - 1, c.left)
             R2 == CrownedRanges(R, t.used - 1)
  <2>1. /\ Mended(Hang(c).tree, B, H2, R2)
        /\ Hang(c).open = FALSE
        /\ SameLeaves(t, Hang(c).tree)
        /\ SameRanges(t, R, R2)
    <3>1. t.page[c.left].parent = 0 /\ t = c.tree /\ Unhung(t, B, H, R, c.left, c.up)
      BY <1>1
    <3> HIDE DEF t
    <3> QED BY ONLY <3>1, NoBody \in B, HangRoot
  <2> HIDE DEF H2, R2
  <2>2. HangDone(c.tree, B, H, R, Hang(c), H2, R2, H[c.left] + 1)
    BY <2>1 DEF HangDone
  <2> QED BY <2>2
<1>2. CASE a # 0 /\ HasRoom(t.page[a])
  <2>1. /\ Mended(Hang(c).tree, B, H, R)
        /\ Hang(c).open = FALSE
        /\ SameLeaves(t, Hang(c).tree)
    <3>1. t = c.tree /\ Unhung(t, B, H, R, c.left, c.up) /\ a = t.page[c.left].parent
      OBVIOUS
    <3> HIDE DEF t, a
    <3> QED BY ONLY <1>2, <3>1, NoBody \in B, HangRoom
  <2>2. SameRanges(t, R, R)
    BY DEF SameRanges
  <2>3. HangDone(c.tree, B, H, R, Hang(c), H, R, H[c.left] + 1)
    BY <2>1, <2>2 DEF HangDone
  <2> QED BY <2>3
<1>3. CASE a # 0 /\ ~HasRoom(t.page[a])
  <2>1. t = c.tree /\ Unhung(t, B, H, R, c.left, c.up) /\ a = t.page[c.left].parent
    OBVIOUS
  <2> HIDE DEF t, a
  <2>2. \E H2, R2 : HangDone(t, B, H, R, Hang(c), H2, R2, H[c.left] + 1)
    BY ONLY <1>3, <2>1, NoBody \in B, HangFull
  <2> QED BY <2>1, <2>2
<1> QED BY <1>1, <1>2, <1>3

\* What a step of the climb works on.
Climbs(B) ==
    {c \in [tree: Trees(B), left: Nat, up: IndexSlot, open: BOOLEAN] :
        c.open => \E H, R : Unhung(c.tree, B, H, R, c.left, c.up)}

\* One level of the climb leads to another state of the climb.
LEMMA HangClimbs ==
    ASSUME NEW B, NoBody \in B, NEW c \in Climbs(B), c.open
    PROVE  Hang(c) \in Climbs(B)
<1>1. PICK H, R : Unhung(c.tree, B, H, R, c.left, c.up)
  BY DEF Climbs
<1>2. PICK H2, R2 : HangDone(c.tree, B, H, R, Hang(c), H2, R2, H[c.left] + 1)
  BY <1>1, HangIs
<1>3. Hang(c).open \in BOOLEAN /\ Typed(Hang(c).tree, B)
  BY <1>2 DEF HangDone, Unhung, Mended
<1>4. Hang(c).open => Unhung(Hang(c).tree, B, H2, R2, Hang(c).left, Hang(c).up)
  BY <1>2 DEF HangDone
<1>5. /\ Hang(c) = [tree |-> Hang(c).tree, left |-> Hang(c).left, up |-> Hang(c).up, open |-> Hang(c).open]
      /\ \/ Hang(c).open = TRUE
         \/ Hang(c).left \in {c.tree.used, c.tree.page[c.left].parent} /\ Hang(c).up = c.up
  BY DEF Hang
<1>6. c.up \in IndexSlot /\ c.tree.used \in Nat /\ c.tree.page[c.left].parent \in Nat
  <2>1. Typed(c.tree, B) /\ c.left \in 1 .. c.tree.used - 1 /\ c.up \in IndexSlot
    BY <1>1 DEF Unhung, Torn
  <2>2. c.tree.page[c.left] \in PageSet(B)
    BY <2>1, TreeFields
  <2> QED BY <2>1, <2>2, TreeFields, PageFields
<1>7. Hang(c).left \in Nat /\ Hang(c).up \in IndexSlot
  <2>1. CASE Hang(c).open
    <3>1. Hang(c).up \in IndexSlot /\ Hang(c).left \in 1 .. Hang(c).tree.used - 1
      BY <1>4, <2>1 DEF Unhung, Torn
    <3> QED BY <3>1
  <2>2. CASE ~Hang(c).open
    BY <1>5, <1>6, <2>2
  <2> QED BY <2>1, <2>2
<1>8. Hang(c).tree \in Trees(B)
  BY <1>3 DEF Typed
<1>9. Hang(c) \in [tree: Trees(B), left: Nat, up: IndexSlot, open: BOOLEAN]
  <2> DEFINE h == Hang(c)
  <2>1. h = [tree |-> h.tree, left |-> h.left, up |-> h.up, open |-> h.open]
    BY <1>5
  <2>2. h.tree \in Trees(B) /\ h.left \in Nat /\ h.up \in IndexSlot /\ h.open \in BOOLEAN
    BY <1>3, <1>7, <1>8
  <2> HIDE DEF h
  <2>3. h \in [tree: Trees(B), left: Nat, up: IndexSlot, open: BOOLEAN]
    BY ONLY <2>1, <2>2
  <2> QED BY <2>3 DEF h
<1> QED BY <1>4, <1>9 DEF Climbs

\* The climb of HangAll.
ClimbIs(g, t, l, up) ==
    g = [n \in Nat |->
            IF n = 0 THEN [tree |-> t, left |-> l, up |-> up, open |-> TRUE]
            ELSE LET c == g[n - 1] IN IF c.open THEN Hang(c) ELSE c]

\* The recursion of bplus_indexsplit defines a function.
LEMMA ClimbExists ==
    ASSUME NEW B, NoBody \in B, NEW t, NEW l, NEW up, NEW H, NEW R, Unhung(t, B, H, R, l, up)
    PROVE  \E g : ClimbIs(g, t, l, up)
<1> DEFINE X == Climbs(B)
           start == [tree |-> t, left |-> l, up |-> up, open |-> TRUE]
           E == [c \in X |-> IF c.open THEN Hang(c) ELSE c]
<1>1. start \in X
  <2>1. t \in Trees(B) /\ l \in Nat /\ up \in IndexSlot
    BY DEF Unhung, Torn, Typed
  <2>2. start.tree = t /\ start.left = l /\ start.up = up
    OBVIOUS
  <2>3. start \in [tree: Trees(B), left: Nat, up: IndexSlot, open: BOOLEAN]
    BY <2>1
  <2>4. \E H2, R2 : Unhung(start.tree, B, H2, R2, start.left, start.up)
    BY <2>2
  <2> HIDE DEF start
  <2> QED BY <2>3, <2>4 DEF Climbs
<1>2. E \in [X -> X]
  BY HangClimbs
<1>3. \A c \in X : E[c] = IF c.open THEN Hang(c) ELSE c
  OBVIOUS
<1> HIDE DEF X, E, start
<1>4. PICK g \in [Nat -> X] : RecursOn(g, start, E)
  BY <1>1, <1>2, RecursionOnNat
<1>5. ASSUME NEW n \in Nat
      PROVE  g[n] = IF n = 0 THEN start ELSE LET c == g[n - 1] IN IF c.open THEN Hang(c) ELSE c
  <2>1. g[n] = IF n = 0 THEN start ELSE E[g[n - 1]]
    BY <1>4 DEF RecursOn
  <2>2. n # 0 => g[n - 1] \in X
    BY <1>4
  <2> QED BY <1>3, <2>1, <2>2
<1>6. g = [n \in Nat |-> g[n]]
  BY <1>4
<1>7. ClimbIs(g, t, l, up)
  BY <1>5, <1>6, Zenon DEF ClimbIs, start
<1> QED BY <1>7

\* However far the climb goes, it ends, and the tree is a B+ tree again with the leaves
\* of the start.
THEOREM HangAllIs ==
    ASSUME NEW B, NoBody \in B, NEW t, NEW l, NEW up, NEW H, NEW R, Unhung(t, B, H, R, l, up), H[l] = 0
    PROVE  \E H2, R2 : /\ Mended(HangAll(t, l, up), B, H2, R2)
                       /\ SameLeaves(t, HangAll(t, l, up)) /\ SameRanges(t, R, R2)
<1> DEFINE g == CHOOSE g : ClimbIs(g, t, l, up)
           start == [tree |-> t, left |-> l, up |-> up, open |-> TRUE]
           T == {n \in Nat : \E H2, R2 : HangDone(t, B, H, R, g[n], H2, R2, n)}
<1>1. ClimbIs(g, t, l, up)
  BY ClimbExists, Zenon
<1>2. HangAll(t, l, up) = g[t.used].tree
  BY Zenon DEF HangAll, ClimbIs
<1> HIDE DEF g
<1>3. ASSUME NEW n \in Nat
      PROVE  g[n] = IF n = 0 THEN start ELSE LET c == g[n - 1] IN IF c.open THEN Hang(c) ELSE c
  BY <1>1 DEF ClimbIs
<1>4. 0 \in T
  <2>2. start.open = TRUE /\ start.tree = t /\ start.left = l /\ start.up = up
    OBVIOUS
  <2> HIDE DEF start
  <2>1. g[0] = start
    BY <1>3
  <2>3. SameLeaves(t, t) /\ SameRanges(t, R, R)
    BY DEF SameLeaves, SameRanges
  <2>4. HangDone(t, B, H, R, g[0], H, R, 0)
    BY <2>1, <2>2, <2>3 DEF HangDone
  <2> QED BY <2>4
<1>5. ASSUME NEW n \in T  PROVE n + 1 \in T
  <2>0. n \in Nat /\ n + 1 \in Nat /\ (n + 1) - 1 = n /\ n + 1 # 0
    OBVIOUS
  <2> DEFINE c == g[n]
  <2>1. PICK H1, R1 : HangDone(t, B, H, R, c, H1, R1, n)
    OBVIOUS
  <2>2. g[n + 1] = IF c.open THEN Hang(c) ELSE c
    BY <1>3, <2>0
  <2> HIDE DEF c, T
  <2>3. CASE c.open
    <3>1. /\ Unhung(c.tree, B, H1, R1, c.left, c.up) /\ H1[c.left] = n
          /\ H1[c.tree.first] = H[t.first]
          /\ SameLeaves(t, c.tree) /\ SameRanges(t, R, R1)
      BY <2>1, <2>3 DEF HangDone
    <3>2. PICK H2, R2 : HangDone(c.tree, B, H1, R1, Hang(c), H2, R2, H1[c.left] + 1)
      BY <3>1, HangIs
    <3>3. SameLeaves(c.tree, Hang(c).tree) /\ SameRanges(c.tree, R1, R2)
      BY <3>2 DEF HangDone
    <3>4. SameLeaves(t, Hang(c).tree) /\ SameRanges(t, R, R2)
      BY ONLY <3>1, <3>3, SameLeavesTwice
    <3>5. HangDone(t, B, H, R, Hang(c), H2, R2, n + 1)
      BY <3>1, <3>2, <3>4 DEF HangDone
    <3> QED BY <2>0, <2>2, <2>3, <3>5 DEF T
  <2>4. CASE ~c.open
    <3>1. HangDone(t, B, H, R, c, H1, R1, n + 1)
      BY <2>1, <2>4 DEF HangDone
    <3> QED BY <2>0, <2>2, <2>4, <3>1 DEF T
  <2> QED BY <2>3, <2>4
<1>6. T = Nat
  <2>1. T \in SUBSET Nat /\ \A n \in T : n + 1 \in T
    BY <1>5
  <2> HIDE DEF T
  <2> QED BY <1>4, <2>1, Induction
<1>7. t.used \in Nat /\ H[t.first] < t.used
  <2>1. t.used \in Nat /\ Sound(t.page, t.used - 1, t.first, H, R, l, up.buf)
    BY TreeFields DEF Unhung
  <2>2. t.first \in 1 .. t.used - 1 /\ H \in [1 .. t.used - 1 -> Nat] /\ H[t.first] < t.used - 1
    BY <2>1 DEF Sound, Rooted
  <2> QED BY <2>1, <2>2
<1> DEFINE c == g[t.used]
<1>8. PICK H2, R2 : HangDone(t, B, H, R, c, H2, R2, t.used)
  BY <1>6, <1>7
<1> HIDE DEF c
<1>9. ~c.open
  <2> SUFFICES ASSUME c.open  PROVE FALSE
    OBVIOUS
  <2>1. /\ Unhung(c.tree, B, H2, R2, c.left, c.up)
        /\ H2[c.left] = t.used /\ H2[c.tree.first] = H[t.first]
    BY <1>8 DEF HangDone
  <2>2. /\ c.left \in 1 .. c.tree.used - 1
        /\ Sound(c.tree.page, c.tree.used - 1, c.tree.first, H2, R2, c.left, c.up.buf)
    BY <2>1 DEF Unhung, Torn
  <2>3. H2[c.left] <= H2[c.tree.first]
    BY <2>2 DEF Sound, Rooted
  <2>4. H[t.first] \in Nat
    <3>1. Sound(t.page, t.used - 1, t.first, H, R, l, up.buf)
      BY DEF Unhung
    <3> QED BY <3>1 DEF Sound, Rooted
  <2> QED BY <1>7, <2>1, <2>3, <2>4
<1>10. Mended(c.tree, B, H2, R2) /\ SameLeaves(t, c.tree) /\ SameRanges(t, R, R2)
  BY <1>8, <1>9 DEF HangDone
<1> QED BY <1>2, <1>10 DEF c

----------------------------------------------------------------------------
(* Insertion. *)

\* The pages with slot d in leaf l, at j.
Stuffed(g, l, j, d) ==
    [p \in DOMAIN g |->
        IF p = l THEN [type |-> g[l].type, parent |-> g[l].parent, child |-> g[l].child,
                       len |-> g[l].len + 1, node |-> Merged(g[l].node, g[l].len, j, d)]
        ELSE g[p]]

\* A leaf can get a new hash of those it is there for, in the place Where finds.
LEMMA StuffedSound ==
    ASSUME NEW g, NEW n, NEW first, NEW H, NEW R, Sound(g, n, first, H, R, 0, 0), DOMAIN g = 1 .. n,
           NEW l \in 1 .. n, g[l].type = "leaf", NEW d, d.hash \in R[l],
           \A i \in 0 .. g[l].len - 1 : g[l].node[i].hash # d.hash
    PROVE  Sound(Stuffed(g, l, Where(g[l].node, g[l].len, d.hash), d), n, first, H, R, 0, 0)
<1> DEFINE N == g[l].len
           nd == g[l].node
           j == Where(nd, N, d.hash)
           M == Merged(nd, N, j, d)
           g2 == Stuffed(g, l, j, d)
           W == Span(R, 0, 0)
<1>1. n \in Nat /\ R \in [1 .. n -> SUBSET Nat] /\ R[l] \in SUBSET Nat
  BY DEF Sound
<1>2. Steered(g[l], H[l], R[l], W)
  BY DEF Sound
<1>3. N \in Nat \ {0} /\ H[l] = 0 /\ Keyed(nd, N, R[l])
  <2> HIDE DEF W
  <2> QED BY <1>2 DEF Steered
<1>4. Keyed(M, N + 1, R[l])
  <2>1. N \in Nat /\ \A i \in 0 .. N - 1 : nd[i].hash # d.hash
    BY <1>3
  <2> DEFINE X == R[l]
  <2>2. X \in SUBSET Nat /\ Keyed(nd, N, X) /\ d.hash \in X
    BY <1>1, <1>3
  <2> HIDE DEF N, nd, X
  <2>3. Keyed(Merged(nd, N, Where(nd, N, d.hash), d), N + 1, X)
    BY ONLY <2>1, <2>2, KeyedInsert
  <2> QED BY <2>3 DEF X
<1>5. g2[l] = [type |-> "leaf", parent |-> g[l].parent, child |-> g[l].child, len |-> N + 1, node |-> M]
  BY DEF Stuffed
<1>6. \A p \in 1 .. n : p # l => g2[p] = g[p]
  BY DEF Stuffed
<1> HIDE DEF g2, M, j
<1>7. g2[l].type = "leaf" /\ g2[l].parent = g[l].parent /\ g2[l].child = g[l].child
      /\ g2[l].len = N + 1 /\ g2[l].node = M
  BY ONLY <1>5
<1>8. \A p \in 1 .. n : g2[p].type = g[p].type /\ g2[p].parent = g[p].parent
  BY <1>6, <1>7
<1>9. \A p \in 1 .. n : g2[p].type = "index" => g2[p] = g[p]
  BY <1>6, <1>7
<1>10. Rooted(g2, n, first, H, R, 0, 0)
  <2>1. Rooted(g, n, first, H, R, 0, 0)
    BY DEF Sound
  <2> QED BY <1>8, <2>1 DEF Rooted
<1>11. ASSUME NEW p \in 1 .. n  PROVE Steered(g2[p], H[p], R[p], W)
  <2>1. CASE p = l
    <3>1. N + 1 \in Nat \ {0}
      BY <1>3
    <3> HIDE DEF W, N
    <3> QED BY <1>3, <1>4, <1>7, <2>1, <3>1 DEF Steered
  <2>2. CASE p # l
    BY <1>6, <2>2 DEF Sound
  <2> QED BY <2>1, <2>2
<1>12. ASSUME NEW p \in 1 .. n  PROVE Fathered(g2, n, H, p, 0)
  <2>1. Fathered(g, n, H, p, 0)
    BY DEF Sound
  <2>2. g2[p].type = "index" => g2[p] = g[p] /\ g[p].type = "index"
    BY <1>8, <1>9
  <2> QED BY <1>8, <2>1, <2>2 DEF Fathered
<1>13. ASSUME NEW q \in 1 .. n, q # first  PROVE KnowsParent(g2, n, q)
  <2>1. KnowsParent(g, n, q)
    BY <1>1, <1>13 DEF Sound
  <2>2. g2[q].parent = g[q].parent /\ g[q].parent \in 1 .. n /\ g[g[q].parent].type = "index"
    BY <1>8, <2>1 DEF KnowsParent
  <2>3. g2[g[q].parent] = g[g[q].parent]
    BY <1>8, <1>9, <2>2
  <2> QED BY <2>1, <2>2, <2>3 DEF KnowsParent
<1>14. \A p, q \in 1 .. n : p # q /\ H[p] = H[q] => R[p] \cap R[q] = {}
  BY DEF Sound
<1>15. H \in [1 .. n -> Nat]
  BY DEF Sound
<1>16. Sound(g2, n, first, H, R, 0, 0)
  BY <1>1, <1>10, <1>11, <1>12, <1>13, <1>14, <1>15 DEF Sound
<1> QED BY <1>16 DEF g2, j

\* The slots bplus_leafsplit leaves on the left, and those it moves to the right.
LEMMA LeafHalves ==
    ASSUME NEW B, NoBody \in B, NEW old \in LeafNodes(B), NEW d \in LeafSlot(B),
           NEW L, L = leafstep, NEW half, half = L \div 2, NEW j, j = Where(old, L, d.hash),
           NEW M, M = Merged(old, L, j, d)
    PROVE  /\ (IF j <= half THEN Put(Paste(old, j, half - j, old, j + 1), j, d) ELSE old)
                  = Over(M, half + 1, old)
           /\ (IF j <= half
               THEN Paste(old, half, half + 1, EmptyLeafNode, 0)
               ELSE Put(Paste(old, j, L - j, Paste(old, half + 1, j - 1 - half, EmptyLeafNode, 0), j - half),
                        j - 1 - half, d))
                  = Over(After(M, half), half + 1, EmptyLeafNode)
           /\ Over(M, half + 1, old) \in LeafNodes(B)
           /\ Over(After(M, half), half + 1, EmptyLeafNode) \in LeafNodes(B)
           /\ j \in 0 .. L
           /\ \A i \in 0 .. L : M[i] \in LeafSlot(B)
           /\ \A i \in 0 .. half : Over(M, half + 1, old)[i] = M[i]
           /\ \A i \in 0 .. half : /\ Over(After(M, half), half + 1, EmptyLeafNode)[i] = After(M, half)[i]
                                   /\ After(M, half)[i] = M[half + 1 + i]
<1> DEFINE left == IF j <= half THEN Put(Paste(old, j, half - j, old, j + 1), j, d) ELSE old
           right == IF j <= half
               THEN Paste(old, half, half + 1, EmptyLeafNode, 0)
               ELSE Put(Paste(old, j, L - j, Paste(old, half + 1, j - 1 - half, EmptyLeafNode, 0), j - half),
                        j - 1 - half, d)
<1>1. /\ L \in Nat /\ half \in 0 .. L - 1 /\ L - half = half + 1 /\ half + 1 \in 0 .. L
      /\ half \in Nat
  BY HalfLeaf, PageShape
<1>2. /\ old \in [0 .. L - 1 -> LeafSlot(B)] /\ EmptyLeafNode \in [0 .. L - 1 -> LeafSlot(B)]
      /\ d.hash \in Nat
  BY DEF LeafNodes, LeafSlots, EmptyLeafNode, LeafSlot
<1>3. j \in 0 .. L
  <2>1. \A i \in 0 .. L - 1 : old[i].hash \in Nat
    BY <1>2 DEF LeafSlot
  <2> QED BY <1>1, <1>2, <2>1, WhereIs
<1>4. left = Over(M, half + 1, old)
  <2>1. DOMAIN old = 0 .. L - 1 /\ old = [i \in 0 .. L - 1 |-> old[i]]
    BY <1>2
  <2>2. left = IF j <= half THEN Shifted(old, half, j, d) ELSE old
    BY DEF Shifted
  <2> HIDE DEF left
  <2>3. (IF j <= half THEN Shifted(old, half, j, d) ELSE old) = Over(Merged(old, L, j, d), half + 1, old)
    BY ONLY <1>1, <1>3, <2>1, LeftHalf
  <2> QED BY <2>2, <2>3
<1>5. right = Over(After(M, half), half + 1, EmptyLeafNode)
  <2>1. DOMAIN EmptyLeafNode = 0 .. L - 1
    BY <1>2
  <2>2. right = MovedRight(old, L, half, j, d, EmptyLeafNode)
    BY <1>1 DEF MovedRight
  <2> HIDE DEF right
  <2>3. MovedRight(old, L, half, j, d, EmptyLeafNode)
            = Over(After(Merged(old, L, j, d), half), L - half, EmptyLeafNode)
    BY ONLY <1>1, <1>3, <2>1, RightHalf
  <2> QED BY <1>1, <2>2, <2>3
<1>6. \A i \in 0 .. L : M[i] \in LeafSlot(B)
  <2>1. L \in 0 .. L
    BY <1>1
  <2> QED BY ONLY <1>1, <1>2, <1>3, <2>1, MergedIn, M = Merged(old, L, j, d), d \in LeafSlot(B)
<1>7. \A i \in 0 .. half : After(M, half)[i] = M[half + 1 + i] /\ half + 1 + i \in 0 .. L
  BY <1>1 DEF After
<1>8. \A i \in 0 .. half : i \in 0 .. L - 1 /\ i < half + 1 /\ i \in 0 .. L
  BY <1>1
<1>9. \A i \in 0 .. (half + 1) - 1 : i \in 0 .. half
  BY <1>1
<1>10. Over(M, half + 1, old) \in [0 .. L - 1 -> LeafSlot(B)]
  <2>1. \A i \in 0 .. (half + 1) - 1 : M[i] \in LeafSlot(B)
    BY <1>6, <1>8, <1>9
  <2> QED BY ONLY <1>1, <1>2, <2>1, OverIn
<1>11. Over(After(M, half), half + 1, EmptyLeafNode) \in [0 .. L - 1 -> LeafSlot(B)]
  <2>1. \A i \in 0 .. (half + 1) - 1 : After(M, half)[i] \in LeafSlot(B)
    BY <1>6, <1>7, <1>9
  <2> QED BY ONLY <1>1, <1>2, <2>1, OverIn
<1>12. /\ \A i \in 0 .. half : Over(M, half + 1, old)[i] = M[i]
       /\ \A i \in 0 .. half : Over(After(M, half), half + 1, EmptyLeafNode)[i] = After(M, half)[i]
  BY <1>2, <1>8 DEF Over
<1>13. LeafNodes(B) = [0 .. L - 1 -> LeafSlot(B)]
  BY DEF LeafNodes, LeafSlots, LeafSlot
<1> QED BY <1>3, <1>4, <1>5, <1>6, <1>7, <1>10, <1>11, <1>12, <1>13

\* Leaf l of t2 keeps the first half of the slots M, and the new leaf has the others;
\* the other leaves stay, but the leaf to the right of l is now to the right of the new one.
LeafParted(t, t2, l, M) ==
    LET half == leafstep \div 2
        r == t.used
    IN  /\ t2.left = t.left
        /\ Pages(t) \subseteq Pages(t2) /\ r \in Pages(t2) /\ r \notin Pages(t)
        /\ \A p \in Pages(t2) : t2.page[p].type = "leaf" =>
             p = r \/ (p \in Pages(t) /\ t.page[p].type = "leaf")
        /\ \A p \in Pages(t) : t.page[p].type = "leaf" /\ p # l =>
             /\ t2.page[p].type = "leaf" /\ t2.page[p].len = t.page[p].len
             /\ t2.page[p].node = t.page[p].node /\ t2.page[p].right = t.page[p].right
        /\ t2.page[l].type = "leaf" /\ t2.page[l].len = half + 1
        /\ t2.page[l].node = Over(M, half + 1, t.page[l].node)
        /\ t2.page[r].type = "leaf" /\ t2.page[r].len = half + 1
        /\ t2.page[r].node = Over(After(M, half), half + 1, EmptyLeafNode)
        /\ t2.page[l].right = r /\ t2.page[r].right = t.page[l].right

\* Steps 1 and 2 of bplus_leafsplit: the tree before the new leaf is hung.
Filled(t, l, lnode, rnode) ==
    LET r == t.used
        half == leafstep \div 2
        s == SplitOff(t, l, NewLeaf, half + 1, half + 1)
    IN  [s EXCEPT !.right = IF t.page[l].right = 0 THEN r ELSE @,
                  !.page = [s.page EXCEPT ![l] = [@ EXCEPT !.node = lnode],
                                          ![r] = [@ EXCEPT !.node = rnode]]]

\* It is the tree a split leaves, when both halves hold what the split gives them.
LEMMA FilledIs ==
    ASSUME NEW B, NoBody \in B, NEW t, Typed(t, B), NEW l \in Pages(t), t.page[l].type = "leaf",
           NEW M, NEW lnode \in LeafNodes(B), NEW rnode \in LeafNodes(B),
           lnode = Over(M, (leafstep \div 2) + 1, t.page[l].node),
           rnode = Over(After(M, leafstep \div 2), (leafstep \div 2) + 1, EmptyLeafNode),
           \A i \in 0 .. leafstep \div 2 : lnode[i] = M[i],
           \A i \in 0 .. leafstep \div 2 : rnode[i] = After(M, leafstep \div 2)[i]
    PROVE  /\ PartedTo(t, Filled(t, l, lnode, rnode), l, (leafstep \div 2) + 1, LeafBack(M), M, B)
           /\ LeafParted(t, Filled(t, l, lnode, rnode), l, M)
           /\ Filled(t, l, lnode, rnode).first = t.first
<1> DEFINE r == t.used
           half == leafstep \div 2
           s == SplitOff(t, l, NewLeaf, half + 1, half + 1)
           page == [s.page EXCEPT ![l] = [@ EXCEPT !.node = lnode], ![r] = [@ EXCEPT !.node = rnode]]
           right == IF t.page[l].right = 0 THEN r ELSE s.right
           t2 == [s EXCEPT !.right = right, !.page = page]
           back == LeafBack(M)
<1>0. /\ half \in Nat /\ half + 1 \in 0 .. leafstep /\ leafstep \in Nat
  BY HalfLeaf, PageShape
<1>1. t.page[l] \in PageSet(B) /\ r \in Nat /\ l \in Nat /\ l # r /\ Pages(t) = 1 .. r - 1
  <2>1. t.page[l] \in PageSet(B)
    BY DEF Typed
  <2>2. r \in Nat /\ Pages(t) = 1 .. r - 1
    BY TreeFields DEF Pages
  <2> QED BY <2>1, <2>2
<1>2. Filled(t, l, lnode, rnode) = t2
  BY DEF Filled
<1> HIDE DEF half
<1>3. /\ Typed(s, B)
      /\ s.first = t.first /\ s.left = t.left /\ s.right = t.right /\ s.used = r + 1
      /\ Pages(s) = Pages(t) \cup {r} /\ r \notin Pages(t)
      /\ s.page[r].type = "leaf" /\ s.page[r].len = half + 1
      /\ s.page[r].parent = 0 /\ s.page[r].child = 0
      /\ s.page[r].right = t.page[l].right
      /\ s.page[l].len = half + 1 /\ s.page[l].right = r
      /\ \A p \in Pages(t) :
           /\ s.page[p].type = t.page[p].type /\ s.page[p].node = t.page[p].node
           /\ s.page[p].child = t.page[p].child /\ s.page[p].parent = t.page[p].parent
           /\ p # l => s.page[p].len = t.page[p].len /\ s.page[p].right = t.page[p].right
  <2>1. NewLeaf \in PageSet(B) /\ NewLeaf.type = "leaf" /\ NewLeaf.parent = 0 /\ NewLeaf.child = 0
    BY NewPages DEF PageSet, NewLeaf
  <2>2. half + 1 \in 0 .. Capacity(NewLeaf.type)
    BY <1>0, <2>1 DEF Capacity
  <2>3. NewLeaf.type = t.page[l].type
    BY <2>1
  <2> HIDE DEF s
  <2>4. s = SplitOff(t, l, NewLeaf, half + 1, half + 1)
    BY DEF s
  <2> QED BY <2>1, <2>2, <2>3, <2>4, SplitOffIs
<1> HIDE DEF s
<1>4. /\ s.page \in [Pages(s) -> PageSet(B)] /\ DOMAIN s.page = Pages(s)
      /\ l \in Pages(s) /\ r \in Pages(s)
      /\ \A p \in Pages(s) : s.page[p].right < s.used
  BY <1>3 DEF Typed
<1>5. /\ page = [p \in Pages(s) |-> page[p]]
      /\ \A p \in Pages(s) : p # l /\ p # r => page[p] = s.page[p]
      /\ page[l] = [s.page[l] EXCEPT !.node = lnode]
      /\ page[r] = [s.page[r] EXCEPT !.node = rnode]
  BY <1>1, <1>4
<1> HIDE DEF page
<1>6. ASSUME NEW q \in Pages(s), NEW node \in LeafNodes(B), s.page[q].type = "leaf",
             page[q] = [s.page[q] EXCEPT !.node = node]
      PROVE  /\ page[q] \in PageSet(B) /\ page[q].right = s.page[q].right /\ page[q].type = "leaf"
             /\ page[q].parent = s.page[q].parent /\ page[q].child = s.page[q].child
             /\ page[q].len = s.page[q].len /\ page[q].node = node
  <2>1. s.page[q] \in PageSet(B)
    BY <1>4
  <2>2. node \in Nodes(s.page[q].type, B)
    BY <1>6 DEF Nodes
  <2>3. page[q] \in PageSet(B)
    <3>1. 0 \in Nat
      OBVIOUS
    <3>2. [s.page[q] EXCEPT !.node = node] \in PageSet(B)
      BY ONLY <2>1, <2>2, <3>1, PageWithNode
    <3> QED BY <1>6, <3>2
  <2>4. s.page[q] \in LeafPages(B)
    BY <1>6, <2>1 DEF PageSet, IndexPages
  <2>5. /\ page[q].right = s.page[q].right /\ page[q].type = s.page[q].type
        /\ page[q].parent = s.page[q].parent /\ page[q].child = s.page[q].child
        /\ page[q].len = s.page[q].len /\ page[q].node = node
    BY <1>6, <2>4 DEF LeafPages
  <2> QED BY <1>6, <2>3, <2>5
<1>7. /\ page[l] \in PageSet(B) /\ page[l].right = r /\ page[l].type = "leaf"
      /\ page[l].parent = t.page[l].parent /\ page[l].child = t.page[l].child
      /\ page[l].len = half + 1 /\ page[l].node = lnode
  <2>1. s.page[l].type = "leaf"
    BY <1>3
  <2>2. /\ page[l] \in PageSet(B) /\ page[l].right = s.page[l].right /\ page[l].type = "leaf"
        /\ page[l].parent = s.page[l].parent /\ page[l].child = s.page[l].child
        /\ page[l].len = s.page[l].len /\ page[l].node = lnode
    BY <1>4, <1>5, <1>6, <2>1
  <2> QED BY ONLY <1>3, <2>2, l \in Pages(t)
<1>8. /\ page[r] \in PageSet(B) /\ page[r].right = t.page[l].right /\ page[r].type = "leaf"
      /\ page[r].parent = 0 /\ page[r].child = 0
      /\ page[r].len = half + 1 /\ page[r].node = rnode
  <2>1. s.page[r].type = "leaf"
    BY <1>3
  <2>2. /\ page[r] \in PageSet(B) /\ page[r].right = s.page[r].right /\ page[r].type = "leaf"
        /\ page[r].parent = s.page[r].parent /\ page[r].child = s.page[r].child
        /\ page[r].len = s.page[r].len /\ page[r].node = rnode
    BY <1>4, <1>5, <1>6, <2>1
  <2> QED BY ONLY <1>3, <2>2
<1>9. ASSUME NEW p \in Pages(s)  PROVE page[p] \in PageSet(B) /\ page[p].right < s.used
  <2>1. CASE p = l
    BY <1>3, <1>4, <1>7, <2>1
  <2>2. CASE p = r
    BY <1>3, <1>4, <1>8, <2>2
  <2>3. CASE p # l /\ p # r
    BY <1>4, <1>5, <2>3
  <2> QED BY <2>1, <2>2, <2>3
<1>10. right \in Nat
  BY <1>1, <1>3, TreeFields
<1> HIDE DEF right
<1>11. /\ t2 = [first |-> s.first, left |-> s.left, right |-> right, used |-> s.used, page |-> page]
       /\ s.first \in Nat /\ s.left \in Nat /\ s.used \in Nat \ {0} /\ Pages(s) = 1 .. s.used - 1
  <2>1. /\ s = [first |-> s.first, left |-> s.left, right |-> s.right, used |-> s.used, page |-> s.page]
        /\ s.first \in Nat /\ s.left \in Nat /\ s.used \in Nat \ {0}
    BY <1>3, TreeFields
  <2>3. t2 = [s EXCEPT !.right = right, !.page = page]
    OBVIOUS
  <2> HIDE DEF t2
  <2>2. t2 = [first |-> s.first, left |-> s.left, right |-> right, used |-> s.used, page |-> page]
    BY ONLY <2>1, <2>3
  <2> QED BY <2>1, <2>2 DEF Pages
<1>12. Typed(t2, B)
  <2> DEFINE n == s.used - 1
  <2>1. n \in Nat /\ s.used = n + 1 /\ Pages(s) = 1 .. n
    BY <1>11
  <2> HIDE DEF n, t2
  <2>2. page \in [1 .. n -> PageSet(B)]
    BY <1>5, <1>9, <2>1
  <2>3. \A p \in 1 .. n : page[p].right < n + 1
    BY <1>9, <2>1
  <2>4. t2 = [first |-> s.first, left |-> s.left, right |-> right, used |-> n + 1, page |-> page]
    BY <1>11, <2>1
  <2>5. s.first \in Nat /\ s.left \in Nat
    BY <1>11
  <2> QED BY ONLY <1>10, <2>1, <2>2, <2>3, <2>4, <2>5, TypedBy
<1>13. t2.page = page /\ t2.first = t.first /\ t2.left = t.left /\ t2.used = r + 1 /\ Pages(t2) = Pages(s)
  BY <1>3, <1>11 DEF Pages
<1> HIDE DEF t2
<1>14. ASSUME NEW p \in Pages(t), p # l
       PROVE  /\ page[p].type = t.page[p].type /\ page[p].child = t.page[p].child
              /\ page[p].len = t.page[p].len /\ page[p].node = t.page[p].node
              /\ page[p].right = t.page[p].right /\ page[p].parent = t.page[p].parent
  <2>1. page[p] = s.page[p]
    BY <1>3, <1>5, <1>14
  <2> QED BY <1>3, <1>14, <2>1
<1>15. /\ back.child = 0 /\ back.len = half + 1 /\ back.node = After(M, half)
  BY DEF LeafBack, half
<1> HIDE DEF back
<1>16. \A i \in 0 .. (half + 1) - 1 : lnode[i] = M[i] /\ rnode[i] = After(M, half)[i]
  BY <1>0 DEF half
<1>17. PartedTo(t, t2, l, half + 1, back, M, B)
  <2> SUFFICES ASSUME NEW p \in Pages(t)
               PROVE  /\ t2.page[p].type = t.page[p].type
                      /\ t2.page[p].child = t.page[p].child
                      /\ t2.page[p].len = IF p = l THEN half + 1 ELSE t.page[p].len
                      /\ p # l => t2.page[p].node = t.page[p].node /\ t2.page[p].right = t.page[p].right
                      /\ p = l => \A i \in 0 .. (half + 1) - 1 : t2.page[p].node[i] = M[i]
                      /\ t2.page[p].parent = t.page[p].parent
    BY <1>3, <1>7, <1>8, <1>12, <1>13, <1>15, <1>16 DEF PartedTo
  <2>1. CASE p = l
    BY <1>7, <1>13, <1>16, <2>1
  <2>2. CASE p # l
    BY <1>13, <1>14, <2>2
  <2> QED BY <2>1, <2>2
<1>18. lnode = Over(M, half + 1, t.page[l].node) /\ rnode = Over(After(M, half), half + 1, EmptyLeafNode)
  BY DEF half
<1>19. ASSUME NEW p \in Pages(t2), t2.page[p].type = "leaf"
       PROVE  p = r \/ (p \in Pages(t) /\ t.page[p].type = "leaf")
  <2>1. p = r \/ p \in Pages(t)
    BY <1>3, <1>13
  <2>2. p \in Pages(t) /\ p # l => t.page[p].type = "leaf"
    BY <1>13, <1>14, <1>19
  <2> QED BY <2>1, <2>2
<1>20. LeafParted(t, t2, l, M)
  <2>1. Pages(t) \subseteq Pages(t2) /\ r \in Pages(t2) /\ r \notin Pages(t)
    BY <1>3, <1>13
  <2> QED BY <1>7, <1>8, <1>13, <1>14, <1>18, <1>19, <2>1 DEF LeafParted, half
<1> QED BY <1>2, <1>13, <1>17, <1>20 DEF back, half

\* The leaves after a climb that changes none of them.
LEMMA LeafPartedStays ==
    ASSUME NEW t, NEW t1, NEW t2, NEW l \in Pages(t), NEW M, LeafParted(t, t1, l, M), SameLeaves(t1, t2)
    PROVE  LeafParted(t, t2, l, M)
<1> DEFINE r == t.used
           half == leafstep \div 2
<1>1. /\ t1.left = t.left
      /\ Pages(t) \subseteq Pages(t1) /\ r \in Pages(t1) /\ r \notin Pages(t)
      /\ \A p \in Pages(t1) : t1.page[p].type = "leaf" =>
             p = r \/ (p \in Pages(t) /\ t.page[p].type = "leaf")
      /\ \A p \in Pages(t) : t.page[p].type = "leaf" /\ p # l =>
             /\ t1.page[p].type = "leaf" /\ t1.page[p].len = t.page[p].len
             /\ t1.page[p].node = t.page[p].node /\ t1.page[p].right = t.page[p].right
      /\ t1.page[l].type = "leaf" /\ t1.page[l].len = half + 1
      /\ t1.page[l].node = Over(M, half + 1, t.page[l].node)
      /\ t1.page[r].type = "leaf" /\ t1.page[r].len = half + 1
      /\ t1.page[r].node = Over(After(M, half), half + 1, EmptyLeafNode)
      /\ t1.page[l].right = r /\ t1.page[r].right = t.page[l].right
  BY DEF LeafParted
<1>2. /\ t2.left = t1.left
      /\ Pages(t1) \subseteq Pages(t2)
      /\ \A p \in Pages(t2) : t2.page[p].type = "leaf" => p \in Pages(t1) /\ t1.page[p].type = "leaf"
      /\ \A p \in Pages(t1) : t1.page[p].type = "leaf" =>
           /\ t2.page[p].type = "leaf" /\ t2.page[p].len = t1.page[p].len
           /\ t2.page[p].node = t1.page[p].node /\ t2.page[p].right = t1.page[p].right
  BY DEF SameLeaves
<1> HIDE DEF r, half
<1>3. \A p \in Pages(t2) : t2.page[p].type = "leaf" => p = r \/ (p \in Pages(t) /\ t.page[p].type = "leaf")
  BY <1>1, <1>2
<1>4. ASSUME NEW p \in Pages(t), t.page[p].type = "leaf", p # l
      PROVE  /\ t2.page[p].type = "leaf" /\ t2.page[p].len = t.page[p].len
             /\ t2.page[p].node = t.page[p].node /\ t2.page[p].right = t.page[p].right
  <2>1. /\ t1.page[p].type = "leaf" /\ t1.page[p].len = t.page[p].len
        /\ t1.page[p].node = t.page[p].node /\ t1.page[p].right = t.page[p].right /\ p \in Pages(t1)
    BY <1>1, <1>4
  <2>2. /\ t2.page[p].type = "leaf" /\ t2.page[p].len = t1.page[p].len
        /\ t2.page[p].node = t1.page[p].node /\ t2.page[p].right = t1.page[p].right
    BY <1>2, <2>1
  <2> QED BY ONLY <2>1, <2>2
<1>5. /\ t2.page[l].type = "leaf" /\ t2.page[l].len = half + 1
      /\ t2.page[l].node = Over(M, half + 1, t.page[l].node)
      /\ t2.page[l].right = r
  <2>1. l \in Pages(t1)
    BY <1>1
  <2> QED BY <1>1, <1>2, <2>1
<1>6. /\ t2.page[r].type = "leaf" /\ t2.page[r].len = half + 1
      /\ t2.page[r].node = Over(After(M, half), half + 1, EmptyLeafNode)
      /\ t2.page[r].right = t.page[l].right
  BY <1>1, <1>2
<1>7. Pages(t) \subseteq Pages(t2) /\ r \in Pages(t2) /\ r \notin Pages(t) /\ t2.left = t.left
  BY <1>1, <1>2
<1> QED BY <1>3, <1>4, <1>5, <1>6, <1>7 DEF LeafParted, r, half

\* What the leaves are there for when leaf l has been split at hash u.
LeafShares(t, R, R2, l, u) ==
    /\ \A p \in Pages(t) : t.page[p].type = "leaf" /\ p # l => R2[p] = R[p]
    /\ R2[l] = {x \in R[l] : x < u}
    /\ R2[t.used] = {x \in R[l] : ~(x < u)}

\* bplus_leafsplit on a full leaf leaves a B+ tree that has the new slot.
THEOREM LeafSplitIs ==
    ASSUME NEW B, NoBody \in B, NEW t, NEW H, NEW R, Mended(t, B, H, R),
           NEW l \in Pages(t), t.page[l].type = "leaf", ~HasRoom(t.page[l]),
           NEW d \in LeafSlot(B), d.hash \in R[l],
           \A i \in 0 .. t.page[l].len - 1 : t.page[l].node[i].hash # d.hash,
           NEW M, M = Merged(t.page[l].node, leafstep, Where(t.page[l].node, leafstep, d.hash), d)
    PROVE  \E H2, R2 : /\ Mended(LeafSplit(t, l, d).tree, B, H2, R2)
                       /\ LeafParted(t, LeafSplit(t, l, d).tree, l, M)
                       /\ LeafShares(t, R, R2, l, M[(leafstep \div 2) + 1].hash)
<1> DEFINE n == t.used - 1
           r == t.used
           half == leafstep \div 2
           old == t.page[l].node
           j == Where(old, leafstep, d.hash)
           lnode == Over(M, half + 1, old)
           rnode == Over(After(M, half), half + 1, EmptyLeafNode)
           filled == Filled(t, l, lnode, rnode)
           u == M[half + 1].hash
           up == [hash |-> rnode[0].hash, buf |-> r]
           G == Stuffed(t.page, l, j, d)
           H1 == PartedHeights(H, n, l)
           R1 == PartedRanges(R, n, l, u)
<1>1. /\ Typed(t, B) /\ Sound(t.page, n, t.first, H, R, 0, 0)
      /\ n \in Nat /\ Pages(t) = 1 .. n /\ t.used = n + 1 /\ DOMAIN t.page = 1 .. n
      /\ r \in Nat
  <2>1. Typed(t, B) /\ Sound(t.page, n, t.first, H, R, 0, 0)
    BY DEF Mended
  <2> QED BY <2>1, TreeFields DEF Pages, Typed
<1>2. /\ t.page[l] \in PageSet(B) /\ old \in LeafNodes(B) /\ t.page[l].len = leafstep
  <2>1. t.page[l] \in PageSet(B)
    BY <1>1 DEF Typed
  <2>2. old \in LeafNodes(B)
    BY <2>1, PageFields
  <2>3. t.page[l].len \in 0 .. leafstep
    BY <2>1, NodesAre DEF Capacity
  <2>4. ~(t.page[l].len < leafstep)
    BY DEF HasRoom
  <2> QED BY <2>1, <2>2, <2>3, <2>4, PageShape
<1>3. half \in Nat /\ half + 1 \in 0 .. leafstep /\ (leafstep + 1) \div 2 = half + 1 /\ 0 \in 0 .. half
      /\ half + 1 + 0 = half + 1
  BY HalfLeaf, PageShape
<1>4. /\ (IF j <= half THEN Put(Paste(old, j, half - j, old, j + 1), j, d) ELSE old) = lnode
      /\ (IF j <= half
          THEN Paste(old, half, half + 1, EmptyLeafNode, 0)
          ELSE Put(Paste(old, j, leafstep - j, Paste(old, half + 1, j - 1 - half, EmptyLeafNode, 0), j - half),
                   j - 1 - half, d)) = rnode
      /\ lnode \in LeafNodes(B) /\ rnode \in LeafNodes(B)
      /\ j \in 0 .. leafstep
      /\ \A i \in 0 .. leafstep : M[i] \in LeafSlot(B)
      /\ \A i \in 0 .. half : lnode[i] = M[i]
      /\ \A i \in 0 .. half : rnode[i] = After(M, half)[i] /\ After(M, half)[i] = M[half + 1 + i]
  <2>1. half = leafstep \div 2 /\ j = Where(old, leafstep, d.hash) /\ M = Merged(old, leafstep, j, d)
    OBVIOUS
  <2> HIDE DEF half, old, j
  <2> QED BY ONLY <1>2, <2>1, LeafHalves, d \in LeafSlot(B), NoBody \in B
<1>5. LeafSplit(t, l, d).tree = HangAll(filled, l, up)
  <2> HIDE DEF lnode, rnode
  <2> QED BY <1>3, <1>4 DEF LeafSplit, Filled
<1>6. rnode[0] = M[half + 1] /\ rnode[0].hash = u /\ u \in Nat
  BY <1>3, <1>4 DEF LeafSlot
<1>7. up \in IndexSlot /\ up.hash = u /\ up.buf = n + 1
  BY <1>1, <1>6 DEF IndexSlot
<1> HIDE DEF lnode, rnode, filled, up
<1>8. /\ PartedTo(t, filled, l, half + 1, LeafBack(M), M, B)
      /\ LeafParted(t, filled, l, M)
      /\ filled.first = t.first
  <2>1. lnode = Over(M, (leafstep \div 2) + 1, t.page[l].node)
    BY DEF lnode
  <2>2. rnode = Over(After(M, leafstep \div 2), (leafstep \div 2) + 1, EmptyLeafNode)
    BY DEF rnode
  <2>3. \A i \in 0 .. leafstep \div 2 : lnode[i] = M[i]
    BY <1>4
  <2>4. \A i \in 0 .. leafstep \div 2 : rnode[i] = After(M, leafstep \div 2)[i]
    BY <1>4
  <2>5. lnode \in LeafNodes(B) /\ rnode \in LeafNodes(B) /\ Typed(t, B)
    BY <1>1, <1>4
  <2>6. filled = Filled(t, l, lnode, rnode)
    BY DEF filled
  <2> HIDE DEF half
  <2>7. /\ PartedTo(t, Filled(t, l, lnode, rnode), l, (leafstep \div 2) + 1, LeafBack(M), M, B)
        /\ LeafParted(t, Filled(t, l, lnode, rnode), l, M)
        /\ Filled(t, l, lnode, rnode).first = t.first
    BY ONLY <2>1, <2>2, <2>3, <2>4, <2>5, NoBody \in B, l \in Pages(t), t.page[l].type = "leaf", FilledIs
  <2> QED BY <2>6, <2>7 DEF half
\* The tree with a leaf that is one slot too long.
<1>9. Sound(G, n, t.first, H, R, 0, 0)
  <2> DEFINE g == t.page
             k == Where(g[l].node, g[l].len, d.hash)
  <2>1. Sound(g, n, t.first, H, R, 0, 0) /\ DOMAIN g = 1 .. n /\ l \in 1 .. n /\ g[l].type = "leaf"
    BY <1>1
  <2>2. \A i \in 0 .. g[l].len - 1 : g[l].node[i].hash # d.hash
    OBVIOUS
  <2>3. k = j
    BY <1>2
  <2> HIDE DEF g, n, G, j
  <2>4. Sound(Stuffed(g, l, Where(g[l].node, g[l].len, d.hash), d), n, t.first, H, R, 0, 0)
    BY ONLY <2>1, <2>2, d.hash \in R[l], StuffedSound
  <2>5. G = Stuffed(g, l, k, d)
    BY <2>3 DEF G, g
  <2> QED BY <2>4, <2>5
<1>10. /\ G[l].type = "leaf" /\ G[l].len = leafstep + 1 /\ G[l].node = M
       /\ G[l].parent = t.page[l].parent /\ G[l].child = t.page[l].child
       /\ \A p \in 1 .. n : p # l => G[p] = t.page[p]
  <2>1. G[l] = [type |-> t.page[l].type, parent |-> t.page[l].parent, child |-> t.page[l].child,
                len |-> t.page[l].len + 1, node |-> Merged(old, t.page[l].len, j, d)]
    BY <1>1 DEF Stuffed
  <2>2. \A p \in 1 .. n : p # l => G[p] = t.page[p]
    BY <1>1 DEF Stuffed
  <2>3. Merged(old, t.page[l].len, j, d) = M
    BY <1>2
  <2> HIDE DEF G, j, old
  <2> QED BY ONLY <1>2, <2>1, <2>2, <2>3, t.page[l].type = "leaf"
<1> HIDE DEF G
<1>11. Halves(G[l], half + 1, LeafBack(M), R[l], u, R)
  <2>1. Steered(G[l], H[l], R[l], Span(R, 0, 0)) /\ R[l] \in SUBSET Nat
    BY <1>1, <1>9 DEF Sound
  <2>2. Keyed(M, leafstep + 1, R[l])
    BY <1>10, <2>1 DEF Steered
  <2> DEFINE pg == G[l]
             X == R[l]
  <2>3. X \in SUBSET Nat /\ pg.type = "leaf" /\ pg.node = M /\ Keyed(M, leafstep + 1, X)
    BY <1>10, <2>1, <2>2
  <2> HIDE DEF pg, X
  <2>4. Halves(pg, (leafstep \div 2) + 1, LeafBack(M), X, M[(leafstep \div 2) + 1].hash, R)
    BY ONLY <2>3, HalvesLeaf
  <2> QED BY <2>4 DEF pg, X
<1>12. Pictured(G, t, l, M)
  <2> SUFFICES ASSUME NEW p \in Pages(t)
               PROVE /\ G[p].type = t.page[p].type /\ G[p].child = t.page[p].child
                     /\ G[p].parent = t.page[p].parent
                     /\ p # l => G[p].len = t.page[p].len /\ G[p].node = t.page[p].node
                     /\ p = l => G[p].node = M
    BY DEF Pictured
  <2>1. CASE p = l
    BY <1>10, <2>1
  <2>2. CASE p # l
    BY <1>1, <1>10, <2>2
  <2> QED BY <2>1, <2>2
<1>13. /\ Sound(filled.page, n + 1, filled.first, H1, R1, l, n + 1)
       /\ Torn(filled.page, n + 1, H1, R1, l, n + 1, u)
  <2>1. n = t.used - 1
    OBVIOUS
  <2> DEFINE keep == half + 1
             back == LeafBack(M)
  <2>2. /\ PartedTo(t, filled, l, keep, back, M, B) /\ filled.first = t.first
        /\ Halves(G[l], keep, back, R[l], u, R) /\ Typed(t, B)
    BY <1>1, <1>8, <1>11
  <2> HIDE DEF u, keep, back, n
  <2>3. /\ Sound(filled.page, n + 1, filled.first, PartedHeights(H, n, l), PartedRanges(R, n, l, u), l, n + 1)
        /\ Torn(filled.page, n + 1, PartedHeights(H, n, l), PartedRanges(R, n, l, u), l, n + 1, u)
    BY ONLY <1>9, <1>12, <2>1, <2>2, l \in Pages(t), PartedTree
  <2> QED BY <2>3
<1>14. Typed(filled, B) /\ filled.used - 1 = n + 1
  BY <1>1, <1>8 DEF PartedTo
<1>15. H1[l] = 0
  <2>1. Steered(t.page[l], H[l], R[l], Span(R, 0, 0))
    BY <1>1 DEF Sound
  <2>2. H[l] = 0
    BY <2>1 DEF Steered
  <2>3. l \in 1 .. n + 1 /\ l # n + 1
    BY <1>1
  <2> QED BY <2>2, <2>3 DEF PartedHeights
<1>16. SameRanges(filled, R1, R1)
  BY DEF SameRanges
<1>17. LeafShares(t, R, R1, l, u)
  <2>1. \A p \in 1 .. n + 1 : R1[p] = IF p = n + 1 THEN {x \in R[l] : ~(x < u)}
                                      ELSE IF p = l THEN {x \in R[l] : x < u} ELSE R[p]
    BY DEF PartedRanges
  <2>2. \A p \in 1 .. n : p \in 1 .. n + 1 /\ p # n + 1
    BY <1>1
  <2>3. n + 1 \in 1 .. n + 1
    BY <1>1
  <2> HIDE DEF R1, n, u
  <2> QED BY <1>1, <2>1, <2>2, <2>3 DEF LeafShares
<1> HIDE DEF H1, R1, u
<1>18. Unhung(filled, B, H1, R1, l, up)
  BY <1>7, <1>13, <1>14 DEF Unhung
<1>19. PICK H2, R2 : /\ Mended(HangAll(filled, l, up), B, H2, R2)
                     /\ SameLeaves(filled, HangAll(filled, l, up)) /\ SameRanges(filled, R1, R2)
  BY ONLY <1>15, <1>18, NoBody \in B, HangAllIs
<1>20. LeafParted(t, HangAll(filled, l, up), l, M)
  BY ONLY <1>8, <1>19, l \in Pages(t), LeafPartedStays
<1>21. LeafShares(t, R, R2, l, u)
  <2>1. /\ \A p \in Pages(t) : t.page[p].type = "leaf" /\ p # l => p \in Pages(filled) /\ filled.page[p].type = "leaf"
        /\ l \in Pages(filled) /\ filled.page[l].type = "leaf"
        /\ t.used \in Pages(filled) /\ filled.page[t.used].type = "leaf"
    BY <1>8 DEF LeafParted
  <2> QED BY <1>17, <1>19, <2>1 DEF LeafShares, SameRanges
<1> QED BY <1>5, <1>19, <1>20, <1>21 DEF u, half

----------------------------------------------------------------------------
(* Search. *)

\* Every page of a B+ tree is typed, and its kind goes by its height.
LEMMA MendedPages ==
    ASSUME NEW B, NEW t, NEW H, NEW R, Mended(t, B, H, R), NEW p \in Pages(t)
    PROVE  /\ t.page[p] \in PageSet(B) /\ H[p] \in Nat /\ R[p] \in SUBSET Nat
           /\ t.page[p].len \in Nat \ {0} /\ t.page[p].len <= Capacity(t.page[p].type)
           /\ Keyed(t.page[p].node, t.page[p].len, R[p])
           /\ \A i \in 0 .. t.page[p].len - 1 : t.page[p].node[i].hash \in Nat
           /\ t.page[p].type = "leaf" <=> H[p] = 0
           /\ t.page[p].type # "leaf" =>
                /\ t.page[p].type = "index"
                /\ Fan(t.page[p].child, t.page[p].node, t.page[p].len, R[p], R)
                /\ \A c \in Kids(t.page[p]) : c \in Pages(t) /\ H[c] + 1 = H[p] /\ t.page[c].parent = p
<1>1. /\ t.page[p] \in PageSet(B) /\ p \in 1 .. t.used - 1 /\ Pages(t) = 1 .. t.used - 1
      /\ Sound(t.page, t.used - 1, t.first, H, R, 0, 0)
  BY DEF Mended, Typed, Pages
<1>2. Span(R, 0, 0) = R
  <2>1. R \in [1 .. t.used - 1 -> SUBSET Nat]
    BY <1>1 DEF Sound
  <2>2. \A q \in 1 .. t.used - 1 : q # 0
    OBVIOUS
  <2> QED BY <2>1, <2>2 DEF Span
<1>3. H[p] \in Nat /\ R[p] \in SUBSET Nat
  BY <1>1 DEF Sound
<1>4. Steered(t.page[p], H[p], R[p], R) /\ Fathered(t.page, t.used - 1, H, p, 0)
  BY <1>1, <1>2 DEF Sound
<1>5. t.page[p].len \in Nat \ {0} /\ Keyed(t.page[p].node, t.page[p].len, R[p])
  BY <1>4 DEF Steered, Fan
<1>6. \A i \in 0 .. t.page[p].len - 1 : t.page[p].node[i].hash \in Nat
  BY <1>3, <1>5 DEF Keyed
<1>7. t.page[p].len <= Capacity(t.page[p].type)
  BY <1>1, NodesAre
<1>8. t.page[p].type = "leaf" <=> H[p] = 0
  BY <1>4 DEF Steered
<1>9. t.page[p].type # "leaf" =>
        t.page[p].type = "index" /\ Fan(t.page[p].child, t.page[p].node, t.page[p].len, R[p], R)
  BY <1>4 DEF Steered
<1>10. t.page[p].type # "leaf" =>
         \A c \in Kids(t.page[p]) : c \in Pages(t) /\ H[c] + 1 = H[p] /\ t.page[c].parent = p
  BY <1>1, <1>4, <1>9 DEF Fathered
<1> QED BY <1>1, <1>3, <1>5, <1>6, <1>7, <1>8, <1>9, <1>10

\* A page leads a hash it is there for to a child that is there for it.
LEMMA GoesDown ==
    ASSUME NEW B, NEW t, NEW H, NEW R, Mended(t, B, H, R), NEW p \in Pages(t), t.page[p].type # "leaf",
           NEW h \in R[p], NEW c, c = GetChild(t.page[p], Branch(t.page[p], h))
    PROVE  c \in Pages(t) /\ H[c] + 1 = H[p] /\ h \in R[c]
<1> DEFINE pg == t.page[p]
           k == Branch(pg, h)
<1>1. /\ pg.len \in Nat /\ R[p] \in SUBSET Nat /\ \A i \in 0 .. pg.len - 1 : pg.node[i].hash \in Nat
      /\ Fan(pg.child, pg.node, pg.len, R[p], R)
      /\ \A x \in Kids(pg) : x \in Pages(t) /\ H[x] + 1 = H[p]
  BY MendedPages
<1>2. h \in Nat
  BY <1>1
<1> HIDE DEF pg
<1>3. /\ k \in -1 .. pg.len - 1
      /\ k >= 0 => h >= pg.node[k].hash
      /\ \A i \in k + 1 .. pg.len - 1 : h < pg.node[i].hash
  BY <1>1, <1>2, BranchIs
<1>4. c = Kid(pg.child, pg.node, k)
  <2>1. c = GetChild(pg, k)
    BY DEF pg
  <2> HIDE DEF k
  <2> QED BY <1>1, <1>3, <2>1 DEF GetChild, Kid
<1> HIDE DEF k
<1>5. c \in Kids(pg)
  BY <1>3, <1>4 DEF Kids, KidSet
<1>6. h \in Slice(pg.node, pg.len, k)
  <2>1. k >= 0 => pg.node[k].hash <= h
    <3>1. k >= 0 => pg.node[k].hash \in Nat
      BY <1>1, <1>3
    <3> QED BY <1>2, <1>3, <3>1
  <2>2. k + 1 < pg.len => h < pg.node[k + 1].hash
    <3>1. k + 1 < pg.len => k + 1 \in k + 1 .. pg.len - 1
      BY <1>1, <1>3
    <3> QED BY <1>3, <3>1
  <2> QED BY <1>2, <2>1, <2>2 DEF Slice
<1>7. R[c] = R[p] \cap Slice(pg.node, pg.len, k)
  BY <1>1, <1>3, <1>4 DEF Fan
<1> QED BY <1>1, <1>5, <1>6, <1>7

\* The descent of FindLeaf.
DescentIs(g, t, h) ==
    g = [p \in {0} \cup Pages(t) |->
            IF p = 0 \/ t.page[p].type = "leaf" THEN p
            ELSE g[GetChild(t.page[p], Branch(t.page[p], h))]]

\* The child a page leads to is one level lower.
LEMMA BranchDown ==
    ASSUME NEW B, NEW t, NEW H, NEW R, Mended(t, B, H, R), NEW p \in Pages(t), t.page[p].type # "leaf",
           NEW h \in Nat, NEW c, c = GetChild(t.page[p], Branch(t.page[p], h))
    PROVE  c \in Pages(t) /\ H[c] + 1 = H[p]
<1> DEFINE pg == t.page[p]
           k == Branch(pg, h)
<1>1. /\ pg.len \in Nat /\ \A i \in 0 .. pg.len - 1 : pg.node[i].hash \in Nat
      /\ \A x \in Kids(pg) : x \in Pages(t) /\ H[x] + 1 = H[p]
  BY MendedPages
<1> HIDE DEF pg
<1>2. k \in -1 .. pg.len - 1
  BY <1>1, BranchIs
<1>3. c = GetChild(pg, k)
  BY DEF pg
<1> HIDE DEF k
<1>4. c \in Kids(pg)
  BY <1>1, <1>2, <1>3, ChildrenAre
<1> QED BY <1>1, <1>4

\* The loop of bplus_findleaf defines a function: it ends at a leaf.
LEMMA DescentExists ==
    ASSUME NEW B, NEW t, NEW H, NEW R, Mended(t, B, H, R), NEW h \in Nat
    PROVE  \E g : DescentIs(g, t, h)
<1> DEFINE D == {0} \cup Pages(t)
           Stop == {p \in D : p = 0 \/ t.page[p].type = "leaf"}
           val == [p \in D |-> p]
           next == [p \in D |-> GetChild(t.page[p], Branch(t.page[p], h))]
           m == [p \in D |-> IF p = 0 THEN 0 ELSE H[p]]
<1>1. val \in [D -> D]
  OBVIOUS
<1>2. m \in [D -> Nat]
  <2>1. \A p \in Pages(t) : H[p] \in Nat
    BY MendedPages
  <2> QED BY <2>1
<1>3. ASSUME NEW p \in D, p \notin Stop  PROVE next[p] \in D /\ m[next[p]] < m[p]
  <2>1. p \in Pages(t) /\ t.page[p].type # "leaf" /\ p # 0
    BY <1>3
  <2> DEFINE c == GetChild(t.page[p], Branch(t.page[p], h))
  <2>2. next[p] = c
    OBVIOUS
  <2>3. c \in Pages(t) /\ H[c] + 1 = H[p]
    BY <2>1, BranchDown
  <2>4. c \in Nat \ {0} /\ H[c] \in Nat
    <3>1. H[c] \in Nat
      BY <2>3, MendedPages
    <3>2. t.used \in Nat
      BY TreeFields DEF Mended
    <3>3. c \in 1 .. t.used - 1
      BY <2>3 DEF Pages
    <3> HIDE DEF c
    <3> QED BY <3>1, <3>2, <3>3
  <2> HIDE DEF c, next
  <2>5. m[c] = H[c] /\ m[p] = H[p] /\ c \in D
    BY <2>1, <2>3, <2>4
  <2> QED BY <2>2, <2>3, <2>4, <2>5
<1>4. \A p \in D : val[p] = p /\ next[p] = GetChild(t.page[p], Branch(t.page[p], h))
  OBVIOUS
<1>5. \A p \in D : p \in Stop <=> p = 0 \/ t.page[p].type = "leaf"
  OBVIOUS
<1> HIDE DEF D, Stop, val, next, m
<1>6. PICK g \in [D -> D] : RunsOn(g, D, Stop, val, next)
  BY <1>1, <1>2, <1>3, RunDefines
<1>7. ASSUME NEW p \in D
      PROVE  g[p] = IF p = 0 \/ t.page[p].type = "leaf" THEN p
                    ELSE g[GetChild(t.page[p], Branch(t.page[p], h))]
  <2>1. g[p] = IF p \in Stop THEN val[p] ELSE g[next[p]]
    BY <1>6 DEF RunsOn
  <2> QED BY <1>4, <1>5, <2>1
<1>8. g = [p \in D |-> g[p]]
  BY <1>6
<1>9. DescentIs(g, t, h)
  BY <1>7, <1>8, Zenon DEF DescentIs, D
<1> QED BY <1>9

\* The page at the top, where the search starts.
LEMMA MendedFirst ==
    ASSUME NEW B, NEW t, NEW H, NEW R, Mended(t, B, H, R)
    PROVE  /\ t.first \in Pages(t) /\ t.first # 0 /\ R[t.first] = Nat
           /\ t.page[t.first].parent = 0 /\ H[t.first] < t.used
<1>1. /\ t.used \in Nat /\ Pages(t) = 1 .. t.used - 1
      /\ Rooted(t.page, t.used - 1, t.first, H, R, 0, 0)
      /\ H \in [1 .. t.used - 1 -> Nat] /\ R \in [1 .. t.used - 1 -> SUBSET Nat]
  BY TreeFields DEF Mended, Sound, Pages
<1>2. t.first \in 1 .. t.used - 1 /\ t.first # 0 /\ t.page[t.first].parent = 0 /\ H[t.first] < t.used - 1
  BY <1>1 DEF Rooted
<1>3. R[t.first] = Nat
  BY <1>1, <1>2 DEF Rooted, Span
<1>4. H[t.first] \in Nat
  BY <1>1, <1>2
<1> QED BY <1>1, <1>2, <1>3, <1>4

\* bplus_findleaf comes to the leaf that is there for the hash.
LEMMA FindLeafIs ==
    ASSUME NEW B, NEW t, NEW H, NEW R, Mended(t, B, H, R), NEW h \in Nat
    PROVE  /\ FindLeaf(t, h) \in Pages(t) /\ FindLeaf(t, h) # 0
           /\ t.page[FindLeaf(t, h)].type = "leaf" /\ h \in R[FindLeaf(t, h)]
<1> DEFINE g == CHOOSE g : DescentIs(g, t, h)
           T == {n \in Nat : \A p \in Pages(t) : H[p] <= n /\ h \in R[p] =>
                     g[p] \in Pages(t) /\ t.page[g[p]].type = "leaf" /\ h \in R[g[p]]}
<1>1. DescentIs(g, t, h)
  BY DescentExists, Zenon
<1>2. FindLeaf(t, h) = g[t.first]
  BY Zenon DEF FindLeaf, DescentIs
<1> HIDE DEF g
<1>3. ASSUME NEW p \in Pages(t)
      PROVE  g[p] = IF t.page[p].type = "leaf" THEN p ELSE g[GetChild(t.page[p], Branch(t.page[p], h))]
  <2>1. p # 0
    BY DEF Pages
  <2> QED BY <1>1, <2>1 DEF DescentIs
<1>4. 0 \in T
  <2> SUFFICES ASSUME NEW p \in Pages(t), H[p] <= 0, h \in R[p]
               PROVE  g[p] \in Pages(t) /\ t.page[g[p]].type = "leaf" /\ h \in R[g[p]]
    OBVIOUS
  <2>1. H[p] \in Nat /\ (t.page[p].type = "leaf" <=> H[p] = 0)
    BY MendedPages
  <2>2. t.page[p].type = "leaf"
    BY <2>1
  <2> QED BY <1>3, <2>2
<1>5. ASSUME NEW n \in T  PROVE n + 1 \in T
  <2>0. n \in Nat /\ n + 1 \in Nat
    OBVIOUS
  <2> SUFFICES ASSUME NEW p \in Pages(t), H[p] <= n + 1, h \in R[p]
               PROVE  g[p] \in Pages(t) /\ t.page[g[p]].type = "leaf" /\ h \in R[g[p]]
    BY <2>0
  <2>1. CASE t.page[p].type = "leaf"
    BY <1>3, <2>1
  <2>2. CASE t.page[p].type # "leaf"
    <3> DEFINE c == GetChild(t.page[p], Branch(t.page[p], h))
    <3>1. c \in Pages(t) /\ H[c] + 1 = H[p] /\ h \in R[c]
      BY <2>2, GoesDown
    <3>2. H[c] \in Nat
      BY <3>1, MendedPages
    <3>3. g[p] = g[c]
      BY <1>3, <2>2
    <3> HIDE DEF c
    <3>4. H[c] <= n
      BY <2>0, <3>1, <3>2
    <3> QED BY <3>1, <3>3, <3>4
  <2> QED BY <2>1, <2>2
<1>6. T = Nat
  <2>1. T \in SUBSET Nat
    OBVIOUS
  <2> HIDE DEF T
  <2> QED BY <1>4, <1>5, <2>1, Induction
<1>7. t.first \in Pages(t) /\ h \in R[t.first] /\ H[t.first] \in Nat
  BY MendedFirst, MendedPages
<1>8. g[t.first] \in Pages(t) /\ t.page[g[t.first]].type = "leaf" /\ h \in R[g[t.first]]
  BY <1>6, <1>7
<1>9. 0 \notin Pages(t)
  BY DEF Pages
<1> QED BY <1>2, <1>8, <1>9

\* And no other is.
LEMMA OneLeaf ==
    ASSUME NEW B, NEW t, NEW H, NEW R, Mended(t, B, H, R), NEW p \in Pages(t), t.page[p].type = "leaf",
           NEW q \in Pages(t), t.page[q].type = "leaf", NEW h \in R[p], h \in R[q]
    PROVE  p = q
<1>1. H[p] = 0 /\ H[q] = 0
  BY MendedPages
<1>2. p # q => R[p] \cap R[q] = {}
  BY <1>1 DEF Mended, Sound, Pages
<1> QED BY <1>2

\* The halving of Search.
HalvingIs(g, leaf, h) ==
    g = [r \in (0 .. leafstep) \X (0 .. leafstep) |->
            LET mid == (r[1] + r[2]) \div 2 IN
            IF r[1] >= r[2] THEN mid
            ELSE IF h > leaf.node[mid].hash THEN g[<<mid + 1, r[2]>>]
            ELSE IF h < leaf.node[mid].hash THEN g[<<r[1], mid>>]
            ELSE mid]

\* The middle of a range.
LEMMA MidIn ==
    ASSUME NEW lo \in Nat, NEW hi \in Nat, lo < hi, NEW mid, mid = (lo + hi) \div 2
    PROVE  mid \in lo .. hi - 1 /\ mid \in Nat
OBVIOUS

\* The halving of bplus_search defines a function: its range shrinks.
LEMMA HalvingExists ==
    ASSUME NEW B, NEW leaf \in LeafPages(B), NEW h \in Nat
    PROVE  \E g : HalvingIs(g, leaf, h)
<1> DEFINE N == leafstep
           D == (0 .. N) \X (0 .. N)
           mid == [r \in D |-> (r[1] + r[2]) \div 2]
           Stop == {r \in D : \/ r[1] >= r[2]
                              \/ ~(h > leaf.node[mid[r]].hash) /\ ~(h < leaf.node[mid[r]].hash)}
           next == [r \in D |-> IF h > leaf.node[mid[r]].hash THEN <<mid[r] + 1, r[2]>> ELSE <<r[1], mid[r]>>]
           m == [r \in D |-> IF r[1] >= r[2] THEN 0 ELSE r[2] - r[1]]
<1>0. N \in Nat
  BY PageShape
<1>1. \A r \in D : mid[r] = (r[1] + r[2]) \div 2
  OBVIOUS
<1>2. mid \in [D -> Int]
  <2>1. \A r \in D : (r[1] + r[2]) \div 2 \in Int
    BY <1>0
  <2> QED BY <2>1
<1>3. \A r \in D : m[r] = IF r[1] >= r[2] THEN 0 ELSE r[2] - r[1]
  OBVIOUS
<1>4. m \in [D -> Nat]
  <2> SUFFICES ASSUME NEW r \in D  PROVE (IF r[1] >= r[2] THEN 0 ELSE r[2] - r[1]) \in Nat
    OBVIOUS
  <2>1. r[1] \in Nat /\ r[2] \in Nat
    BY <1>0
  <2> QED BY <2>1
<1>5. \A r \in D : next[r] = IF h > leaf.node[mid[r]].hash THEN <<mid[r] + 1, r[2]>> ELSE <<r[1], mid[r]>>
  OBVIOUS
<1>6. \A r \in D : r \in Stop <=> \/ r[1] >= r[2]
                                  \/ ~(h > leaf.node[mid[r]].hash) /\ ~(h < leaf.node[mid[r]].hash)
  OBVIOUS
<1>7. ASSUME NEW r \in D, r \notin Stop  PROVE next[r] \in D /\ m[next[r]] < m[r]
  <2>1. r[1] \in 0 .. N /\ r[2] \in 0 .. N
    OBVIOUS
  <2> DEFINE lo == r[1]
             hi == r[2]
             c == mid[r]
  <2>2. lo \in Nat /\ hi \in Nat /\ hi <= N /\ lo < hi /\ c = (lo + hi) \div 2 /\ m[r] = hi - lo
    BY <1>0, <1>1, <1>3, <1>6, <1>7, <2>1
  <2>3. next[r] = <<c + 1, hi>> \/ next[r] = <<lo, c>>
    BY <1>5
  <2> HIDE DEF lo, hi, c, D, m, next, mid
  <2>4. c \in lo .. hi - 1 /\ c \in Nat
    BY <2>2, MidIn
  <2>5. CASE next[r] = <<c + 1, hi>>
    <3>1. c + 1 \in 0 .. N /\ hi \in 0 .. N
      BY <1>0, <2>2, <2>4
    <3>2. <<c + 1, hi>> \in D
      BY <3>1 DEF D
    <3>3. m[<<c + 1, hi>>] = IF c + 1 >= hi THEN 0 ELSE hi - (c + 1)
      BY <1>3, <3>2
    <3> QED BY <2>2, <2>4, <2>5, <3>2, <3>3
  <2>6. CASE next[r] = <<lo, c>>
    <3>1. c \in 0 .. N /\ lo \in 0 .. N
      BY <1>0, <2>2, <2>4
    <3>2. <<lo, c>> \in D
      BY <3>1 DEF D
    <3>3. m[<<lo, c>>] = IF lo >= c THEN 0 ELSE c - lo
      BY <1>3, <3>2
    <3> QED BY <2>2, <2>4, <2>6, <3>2, <3>3
  <2> QED BY <2>3, <2>5, <2>6
<1>8. D = (0 .. leafstep) \X (0 .. leafstep)
  OBVIOUS
<1> HIDE DEF D, Stop, mid, next, m
<1>9. PICK g \in [D -> Int] : RunsOn(g, D, Stop, mid, next)
  BY <1>2, <1>4, <1>7, RunDefines
<1>10. ASSUME NEW r \in D
       PROVE  g[r] = LET c == (r[1] + r[2]) \div 2 IN
                     IF r[1] >= r[2] THEN c
                     ELSE IF h > leaf.node[c].hash THEN g[<<c + 1, r[2]>>]
                     ELSE IF h < leaf.node[c].hash THEN g[<<r[1], c>>]
                     ELSE c
  <2>1. g[r] = IF r \in Stop THEN mid[r] ELSE g[next[r]]
    BY <1>9 DEF RunsOn
  <2> QED BY <1>1, <1>5, <1>6, <2>1
<1>11. g = [r \in D |-> g[r]]
  BY <1>9
<1>12. HalvingIs(g, leaf, h)
  BY <1>8, <1>10, <1>11, Zenon DEF HalvingIs
<1> QED BY <1>12

\* It comes to the slot with the hash if one in use has it.
LEMMA HalvingFinds ==
    ASSUME NEW B, NEW leaf \in LeafPages(B), NEW h \in Nat, NEW X, Keyed(leaf.node, leaf.len, X),
           X \in SUBSET Nat, NEW g, HalvingIs(g, leaf, h),
           NEW i \in 0 .. leaf.len - 1, leaf.node[i].hash = h
    PROVE  g[<<0, leaf.len>>] = i
<1> DEFINE N == leafstep
           n == leaf.len
           T == {k \in Nat : \A lo, hi \in 0 .. n : lo <= i /\ i < hi /\ hi - lo <= k => g[<<lo, hi>>] = i}
<1>0. N \in Nat /\ n \in 0 .. N /\ n \in Nat
  <2>1. leaf.len \in 0 .. leafstep
    BY DEF LeafPages
  <2> QED BY <2>1, PageShape
<1>1. ASSUME NEW lo \in 0 .. n, NEW hi \in 0 .. n
      PROVE  g[<<lo, hi>>] = LET mid == (lo + hi) \div 2 IN
                             IF lo >= hi THEN mid
                             ELSE IF h > leaf.node[mid].hash THEN g[<<mid + 1, hi>>]
                             ELSE IF h < leaf.node[mid].hash THEN g[<<lo, mid>>]
                             ELSE mid
  <2> DEFINE r == <<lo, hi>>
  <2>1. r \in (0 .. leafstep) \X (0 .. leafstep) /\ r[1] = lo /\ r[2] = hi
    BY <1>0
  <2> HIDE DEF r
  <2>2. g[r] = LET mid == (r[1] + r[2]) \div 2 IN
               IF r[1] >= r[2] THEN mid
               ELSE IF h > leaf.node[mid].hash THEN g[<<mid + 1, r[2]>>]
               ELSE IF h < leaf.node[mid].hash THEN g[<<r[1], mid>>]
               ELSE mid
    BY <2>1 DEF HalvingIs
  <2>3. g[r] = LET mid == (lo + hi) \div 2 IN
               IF lo >= hi THEN mid
               ELSE IF h > leaf.node[mid].hash THEN g[<<mid + 1, hi>>]
               ELSE IF h < leaf.node[mid].hash THEN g[<<lo, mid>>]
               ELSE mid
    BY <2>1, <2>2
  <2> QED BY <2>3 DEF r
<1>2. \A k \in 0 .. n - 1 : leaf.node[k].hash \in Nat
  BY DEF Keyed
<1>3. \A k \in 0 .. n - 1 : (k < i => leaf.node[k].hash < h) /\ (i < k => h < leaf.node[k].hash)
  BY DEF Keyed
<1> HIDE DEF n
<1>4. 0 \in T
  BY <1>0
<1>5. ASSUME NEW k \in T  PROVE k + 1 \in T
  <2>0. k \in Nat /\ k + 1 \in Nat
    OBVIOUS
  <2> SUFFICES ASSUME NEW lo \in 0 .. n, NEW hi \in 0 .. n, lo <= i, i < hi, hi - lo <= k + 1
               PROVE  g[<<lo, hi>>] = i
    BY <2>0
  <2> DEFINE mid == (lo + hi) \div 2
  <2>1. mid \in lo .. hi - 1 /\ mid \in Nat /\ mid \in 0 .. n - 1
    <3>1. lo \in Nat /\ hi \in Nat /\ lo < hi /\ hi <= n
      BY <1>0
    <3>2. mid \in lo .. hi - 1 /\ mid \in Nat
      BY <3>1, MidIn
    <3> HIDE DEF mid
    <3> QED BY <3>1, <3>2, <1>0
  <2>2. g[<<lo, hi>>] = IF h > leaf.node[mid].hash THEN g[<<mid + 1, hi>>]
                        ELSE IF h < leaf.node[mid].hash THEN g[<<lo, mid>>]
                        ELSE mid
    BY <1>0, <1>1
  <2> HIDE DEF mid
  <2>3. i \in Nat
    BY <1>0
  <2>4. CASE mid < i
    <3>1. h > leaf.node[mid].hash
      BY <1>2, <1>3, <2>1, <2>4
    <3>2. mid + 1 \in 0 .. n /\ mid + 1 <= i /\ hi - (mid + 1) <= k
      BY <1>0, <2>0, <2>1, <2>3, <2>4
    <3> QED BY <2>2, <3>1, <3>2
  <2>5. CASE i < mid
    <3>1. h < leaf.node[mid].hash /\ ~(h > leaf.node[mid].hash)
      BY <1>2, <1>3, <2>1, <2>5
    <3>2. mid \in 0 .. n /\ mid - lo <= k
      BY <1>0, <2>0, <2>1
    <3> QED BY <2>2, <2>5, <3>1, <3>2
  <2>6. CASE i = mid
    BY <1>2, <2>1, <2>2, <2>6
  <2> QED BY <2>1, <2>3, <2>4, <2>5, <2>6
<1>6. T = Nat
  <2>1. T \in SUBSET Nat
    OBVIOUS
  <2> HIDE DEF T
  <2> QED BY <1>4, <1>5, <2>1, Induction
<1>7. n \in T
  BY <1>0, <1>6
<1>8. 0 \in 0 .. n /\ n \in 0 .. n /\ 0 <= i /\ i < n /\ n - 0 <= n
  <2>1. i \in 0 .. n - 1
    BY DEF n
  <2> QED BY <1>0, <2>1
<1> QED BY <1>7, <1>8 DEF n

\* The slots in use, and what it takes for no others to be found: the hashes that
\* earlier splits left behind are in use as well.
InUse(t) ==
    UNION {{t.page[p].node[i] : i \in 0 .. t.page[p].len - 1} :
             p \in {q \in Pages(t) : t.page[q].type = "leaf"}}
Clean(t) ==
    /\ \A s \in InUse(t) : s.hash # 0
    /\ \A p \in Pages(t) : t.page[p].type = "leaf" =>
         \A i \in LeafSlots : \/ t.page[p].node[i].hash = 0
                              \/ \E s \in InUse(t) : s.hash = t.page[p].node[i].hash

\* The slots in use are those below the length of some leaf.
LEMMA InUseIs ==
    ASSUME NEW t, NEW s
    PROVE  s \in InUse(t) <=> \E p \in Pages(t) : /\ t.page[p].type = "leaf"
                                                  /\ \E i \in 0 .. t.page[p].len - 1 : s = t.page[p].node[i]
BY DEF InUse

\* bplus_search finds the slot with the hash, and nothing when none in use has it.
THEOREM SearchIs ==
    ASSUME NEW B, NEW t, NEW H, NEW R, Mended(t, B, H, R), Clean(t), NEW h \in Nat \ {0}
    PROVE  /\ (\A s \in InUse(t) : s.hash # h) => Search(t, h) = <<0, 0>>
           /\ \A s \in InUse(t) : s.hash = h => Search(t, h) # <<0, 0>> /\ Slot(t, Search(t, h)) = s
<1> DEFINE p == FindLeaf(t, h)
           leaf == t.page[p]
           g == CHOOSE g : HalvingIs(g, leaf, h)
           m == g[<<0, leaf.len>>]
<1>1. p \in Pages(t) /\ p # 0 /\ leaf.type = "leaf" /\ h \in R[p]
  BY FindLeafIs
<1>2. /\ leaf \in LeafPages(B) /\ leaf.len \in Nat /\ leaf.len <= leafstep
      /\ R[p] \in SUBSET Nat /\ Keyed(leaf.node, leaf.len, R[p])
  <2>1. /\ leaf \in PageSet(B) /\ leaf.len \in Nat /\ leaf.len <= Capacity(leaf.type)
        /\ R[p] \in SUBSET Nat /\ Keyed(leaf.node, leaf.len, R[p])
    BY <1>1, MendedPages
  <2> QED BY <1>1, <2>1 DEF PageSet, IndexPages, Capacity
<1>3. Search(t, h) = IF p = 0 THEN <<0, 0>>
                     ELSE IF m \in LeafSlots /\ leaf.node[m].hash = h THEN <<p, m>>
                     ELSE <<0, 0>>
  <2> HIDE DEF p
  <2>1. Search(t, h) = LET q == FindLeaf(t, h)
                           f == CHOOSE f : HalvingIs(f, t.page[q], h)
                           k == f[<<0, t.page[q].len>>]
                       IN  IF q = 0 THEN <<0, 0>>
                           ELSE IF k \in LeafSlots /\ t.page[q].node[k].hash = h THEN <<q, k>>
                           ELSE <<0, 0>>
    BY Zenon DEF Search, HalvingIs
  <2> QED BY <2>1, Zenon DEF p
<1> HIDE DEF p
<1>4. HalvingIs(g, leaf, h)
  <2>1. \E f : HalvingIs(f, leaf, h)
    <3> HIDE DEF leaf
    <3> QED BY <1>2, HalvingExists
  <2> QED BY <2>1, Zenon
<1> HIDE DEF g, leaf
<1>5. ASSUME \A s \in InUse(t) : s.hash # h  PROVE Search(t, h) = <<0, 0>>
  <2>1. m \in LeafSlots => leaf.node[m].hash # h
    BY <1>1, <1>5 DEF Clean, leaf
  <2> QED BY <1>3, <2>1
<1>6. ASSUME NEW s \in InUse(t), s.hash = h  PROVE Search(t, h) # <<0, 0>> /\ Slot(t, Search(t, h)) = s
  <2>1. PICK q \in Pages(t) : t.page[q].type = "leaf" /\ \E i \in 0 .. t.page[q].len - 1 : s = t.page[q].node[i]
    BY InUseIs
  <2>2. PICK i \in 0 .. t.page[q].len - 1 : s = t.page[q].node[i]
    BY <2>1
  <2>3. h \in R[q]
    <3>1. Keyed(t.page[q].node, t.page[q].len, R[q])
      BY MendedPages
    <3> QED BY <1>6, <2>2, <3>1 DEF Keyed
  <2>4. q = p
    <3>1. t.page[p].type = "leaf"
      BY <1>1 DEF leaf
    <3> QED BY <1>1, <2>1, <2>3, <3>1, OneLeaf
  <2>5. i \in 0 .. leaf.len - 1 /\ leaf.node[i] = s /\ leaf.node[i].hash = h
    BY <1>6, <2>2, <2>4 DEF leaf
  <2>6. m = i
    <3> HIDE DEF m
    <3>1. g[<<0, leaf.len>>] = i
      BY <1>2, <1>4, <2>5, HalvingFinds
    <3> QED BY <3>1 DEF m
  <2>7. i \in LeafSlots
    BY <1>2, <2>5, PageShape DEF LeafSlots
  <2>8. Search(t, h) = <<p, i>>
    BY <1>1, <1>3, <2>5, <2>6, <2>7
  <2>9. Slot(t, <<p, i>>) = s
    BY <2>5 DEF Slot, leaf
  <2>10. <<p, i>> # <<0, 0>>
    BY <1>1
  <2> QED BY <2>8, <2>9, <2>10
<1> QED BY <1>5, <1>6

----------------------------------------------------------------------------
(* The order of the leaves. *)

\* The right links lead from the leaf for the lowest hashes through all of them upward:
\* v is where the leaf at the right link begins and leaf p ends.
Follows(R, p, q) ==
    \E v \in R[q] : /\ \A z \in R[q] : z >= v
                    /\ \A x \in R[p] : \A y \in Nat : y >= x => (y \in R[p] <=> y < v)
Chained(t, R) ==
    /\ t.left \in Pages(t) /\ t.page[t.left].type = "leaf" /\ 0 \in R[t.left]
    /\ \A p \in Pages(t) : t.page[p].type = "leaf" =>
         IF t.page[p].right = 0 THEN \A x \in R[p] : \A y \in Nat : y >= x => y \in R[p]
         ELSE /\ t.page[p].right \in Pages(t) /\ t.page[t.page[p].right].type = "leaf"
              /\ Follows(R, p, t.page[p].right)

\* The slots of the merged node.
LEMMA MergedSlots ==
    ASSUME NEW node, NEW n \in Nat, NEW j \in 0 .. n, NEW d, NEW M, M = Merged(node, n, j, d)
    PROVE  /\ \A i \in 0 .. n : M[i] = d \/ \E k \in 0 .. n - 1 : M[i] = node[k]
           /\ \A k \in 0 .. n - 1 : \E i \in 0 .. n : M[i] = node[k]
           /\ M[j] = d
<1>1. \A i \in 0 .. n : M[i] = IF i < j THEN node[i] ELSE IF i = j THEN d ELSE node[i - 1]
  BY DEF Merged
<1>2. ASSUME NEW i \in 0 .. n  PROVE M[i] = d \/ \E k \in 0 .. n - 1 : M[i] = node[k]
  <2>1. CASE i < j
    <3>1. i \in 0 .. n - 1 /\ M[i] = node[i]
      BY <1>1, <2>1
    <3> QED BY <3>1
  <2>2. CASE i = j
    BY <1>1, <2>2
  <2>3. CASE i > j
    <3>1. i - 1 \in 0 .. n - 1 /\ M[i] = node[i - 1]
      BY <1>1, <2>3
    <3> QED BY <3>1
  <2> QED BY <2>1, <2>2, <2>3
<1>3. ASSUME NEW k \in 0 .. n - 1  PROVE \E i \in 0 .. n : M[i] = node[k]
  <2>1. CASE k < j
    <3>1. k \in 0 .. n /\ M[k] = node[k]
      BY <1>1, <2>1
    <3> QED BY <3>1
  <2>2. CASE k >= j
    <3>1. k + 1 \in 0 .. n /\ k + 1 > j /\ (k + 1) - 1 = k
      BY <2>2
    <3>2. M[k + 1] = node[k]
      BY <1>1, <3>1
    <3> QED BY <3>1, <3>2
  <2> QED BY <2>1, <2>2
<1> QED BY <1>1, <1>2, <1>3

\* A tree after an insertion: a B+ tree, in order, with slot d and those it had.
Inserted(t, t2, B, d, H2, R2) ==
    /\ Mended(t2, B, H2, R2) /\ Chained(t2, R2) /\ Clean(t2)
    /\ InUse(t2) = InUse(t) \cup {d}

\* bplus_insert into a leaf with room.
LEMMA RoomIs ==
    ASSUME NEW B, NEW t, NEW H, NEW R, Mended(t, B, H, R), Chained(t, R), Clean(t),
           NEW l \in Pages(t), t.page[l].type = "leaf", HasRoom(t.page[l]),
           NEW d \in LeafSlot(B), d.hash \in R[l], d.hash # 0,
           \A i \in 0 .. t.page[l].len - 1 : t.page[l].node[i].hash # d.hash
    PROVE  Inserted(t, [t EXCEPT !.page[l] = SlotAdd(@, d)], B, d, H, R)
<1> DEFINE n == t.used - 1
           leaf == t.page[l]
           j == Where(leaf.node, leaf.len, d.hash)
           M == Merged(leaf.node, leaf.len, j, d)
           page == [p \in Pages(t) |-> IF p = l THEN SlotAdd(t.page[l], d) ELSE t.page[p]]
           t2 == [t EXCEPT !.page = page]
           G == Stuffed(t.page, l, j, d)
<1>0. [t EXCEPT !.page[l] = SlotAdd(@, d)] = t2
  <2>1. t.page \in [Pages(t) -> PageSet(B)]
    BY DEF Mended, Typed
  <2>2. [t.page EXCEPT ![l] = SlotAdd(@, d)] = page
    BY <2>1
  <2>3. [t EXCEPT !.page[l] = SlotAdd(@, d)] = [t EXCEPT !.page = [t.page EXCEPT ![l] = SlotAdd(@, d)]]
    OBVIOUS
  <2> QED BY <2>2, <2>3
<1>1. /\ Typed(t, B) /\ Sound(t.page, n, t.first, H, R, 0, 0)
      /\ n \in Nat /\ Pages(t) = 1 .. n /\ DOMAIN t.page = 1 .. n /\ t.used \in Nat
      /\ \A p \in Pages(t) : t.page[p] \in PageSet(B) /\ t.page[p].right < t.used
  <2>1. Typed(t, B) /\ Sound(t.page, n, t.first, H, R, 0, 0)
    BY DEF Mended
  <2> QED BY <2>1, TreeFields DEF Pages, Typed
<1>2. leaf \in PageSet(B) /\ d \in SlotsOf(leaf.type, B) /\ leaf.len \in Nat
  BY <1>1, MendedPages DEF SlotsOf
<1>3. /\ SlotAdd(leaf, d) \in PageSet(B)
      /\ SlotAdd(leaf, d).type = leaf.type /\ SlotAdd(leaf, d).parent = leaf.parent
      /\ SlotAdd(leaf, d).child = leaf.child /\ SlotAdd(leaf, d).right = leaf.right
      /\ SlotAdd(leaf, d).len = leaf.len + 1 /\ j \in 0 .. leaf.len
      /\ SlotAdd(leaf, d).node = Over(M, leaf.len + 1, leaf.node)
      /\ \A i \in 0 .. leaf.len : SlotAdd(leaf, d).node[i] = M[i]
  <2>1. HasRoom(leaf)
    OBVIOUS
  <2>2. j = Where(leaf.node, leaf.len, d.hash)
    OBVIOUS
  <2> HIDE DEF leaf, j
  <2> QED BY <1>2, <2>1, <2>2, SlotAddIs
<1>4. \A p \in Pages(t) : page[p] = IF p = l THEN SlotAdd(leaf, d) ELSE t.page[p]
  OBVIOUS
<1>5. page \in [Pages(t) -> PageSet(B)]
  BY <1>1, <1>3
<1> HIDE DEF page
<1>6. Typed(t2, B)
  <2>1. \A p \in Pages(t) : page[p].right < t.used
    <3> HIDE DEF leaf
    <3>1. l \in Pages(t) /\ leaf.right < t.used
      BY <1>1 DEF leaf
    <3> QED BY <1>1, <1>3, <1>4, <3>1
  <2> QED BY <1>1, <1>5, <2>1, Repaged
<1>7. /\ t2.page = page /\ t2.used = t.used /\ t2.first = t.first /\ t2.left = t.left
      /\ Pages(t2) = Pages(t)
  <2>1. t = [first |-> t.first, left |-> t.left, right |-> t.right, used |-> t.used, page |-> t.page]
    BY <1>1, TreeFields
  <2> QED BY <2>1 DEF Pages
<1> HIDE DEF t2
<1>8. Sound(G, n, t.first, H, R, 0, 0)
  <2> DEFINE g == t.page
             k == Where(g[l].node, g[l].len, d.hash)
  <2>1. Sound(g, n, t.first, H, R, 0, 0) /\ DOMAIN g = 1 .. n /\ l \in 1 .. n /\ g[l].type = "leaf"
    BY <1>1
  <2>2. \A i \in 0 .. g[l].len - 1 : g[l].node[i].hash # d.hash
    OBVIOUS
  <2>3. k = j
    OBVIOUS
  <2> HIDE DEF g, n, G, j
  <2>4. Sound(Stuffed(g, l, Where(g[l].node, g[l].len, d.hash), d), n, t.first, H, R, 0, 0)
    BY ONLY <2>1, <2>2, d.hash \in R[l], StuffedSound
  <2>5. G = Stuffed(g, l, k, d)
    BY <2>3 DEF G, g
  <2> QED BY <2>4, <2>5
<1>9. \A p \in 1 .. n : Alike(G[p], page[p])
  <2> SUFFICES ASSUME NEW p \in 1 .. n  PROVE Alike(G[p], page[p])
    OBVIOUS
  <2>1. CASE p = l
    <3> DEFINE a == G[p]
               b == page[p]
    <3>1. a = [type |-> leaf.type, parent |-> leaf.parent, child |-> leaf.child,
               len |-> leaf.len + 1, node |-> M]
      BY <1>1, <2>1 DEF Stuffed
    <3>2. b = SlotAdd(leaf, d)
      BY <1>1, <1>4, <2>1
    <3> HIDE DEF a, b, leaf, M
    <3>3. a.type = leaf.type /\ a.parent = leaf.parent /\ a.child = leaf.child /\ a.len = leaf.len + 1 /\ a.node = M
      BY <3>1
    <3>4. \A i \in 0 .. a.len - 1 : i \in 0 .. leaf.len
      BY <1>2, <3>3
    <3>5. Alike(a, b)
      BY <1>3, <3>2, <3>3, <3>4 DEF Alike
    <3> QED BY <3>5 DEF a, b
  <2>2. CASE p # l
    <3>1. G[p] = t.page[p] /\ page[p] = t.page[p]
      BY <1>1, <1>4, <2>2 DEF Stuffed
    <3> QED BY <3>1 DEF Alike
  <2> QED BY <2>1, <2>2
<1> HIDE DEF G
<1>10. Mended(t2, B, H, R)
  <2>1. Sound(page, n, t.first, H, R, 0, 0)
    BY ONLY <1>8, <1>9, SoundSame
  <2> QED BY <1>6, <1>7, <2>1 DEF Mended
<1>11. \A p \in Pages(t) : /\ t2.page[p].type = t.page[p].type /\ t2.page[p].right = t.page[p].right
                           /\ p # l => t2.page[p].len = t.page[p].len /\ t2.page[p].node = t.page[p].node
  BY <1>3, <1>4, <1>7
<1>12. Chained(t2, R)
  BY <1>7, <1>11 DEF Chained
<1>13. /\ t2.page[l].len = leaf.len + 1 /\ t2.page[l].node = Over(M, leaf.len + 1, leaf.node)
       /\ \A i \in 0 .. leaf.len : t2.page[l].node[i] = M[i]
  BY <1>3, <1>4, <1>7
<1>14. /\ \A i \in 0 .. leaf.len : M[i] = d \/ \E k \in 0 .. leaf.len - 1 : M[i] = leaf.node[k]
       /\ \A k \in 0 .. leaf.len - 1 : \E i \in 0 .. leaf.len : M[i] = leaf.node[k]
       /\ M[j] = d
  <2>1. M = Merged(leaf.node, leaf.len, j, d)
    OBVIOUS
  <2>2. leaf.len \in Nat /\ j \in 0 .. leaf.len
    BY <1>2, <1>3
  <2> DEFINE node == leaf.node
             k == leaf.len
  <2> HIDE DEF leaf, j, M, node, k
  <2>3. M = Merged(node, k, j, d) /\ k \in Nat /\ j \in 0 .. k
    BY <2>1, <2>2 DEF node, k
  <2>4. /\ \A i \in 0 .. k : M[i] = d \/ \E x \in 0 .. k - 1 : M[i] = node[x]
        /\ \A x \in 0 .. k - 1 : \E i \in 0 .. k : M[i] = node[x]
        /\ M[j] = d
    BY ONLY <2>3, MergedSlots
  <2> QED BY <2>4 DEF node, k
<1> HIDE DEF M, j
<1>15. InUse(t2) = InUse(t) \cup {d}
  <2>1. ASSUME NEW s \in InUse(t2)  PROVE s \in InUse(t) \cup {d}
    <3>1. PICK p \in Pages(t2) : t2.page[p].type = "leaf" /\ \E i \in 0 .. t2.page[p].len - 1 : s = t2.page[p].node[i]
      BY InUseIs
    <3>2. PICK i \in 0 .. t2.page[p].len - 1 : s = t2.page[p].node[i]
      BY <3>1
    <3>3. CASE p = l
      <4>1. i \in 0 .. leaf.len /\ s = M[i]
        <5>1. t2.page[p].len - 1 = leaf.len
          BY <1>2, <1>13, <3>3
        <5> QED BY <1>13, <3>2, <3>3, <5>1
      <4>2. s = d \/ \E k \in 0 .. t.page[l].len - 1 : s = t.page[l].node[k]
        BY <1>14, <4>1
      <4> QED BY <4>2, InUseIs
    <3>4. CASE p # l
      <4>1. p \in Pages(t) /\ t.page[p].type = "leaf" /\ i \in 0 .. t.page[p].len - 1 /\ s = t.page[p].node[i]
        BY <1>7, <1>11, <3>1, <3>2, <3>4
      <4> QED BY <4>1, InUseIs
    <3> QED BY <3>3, <3>4
  <2>2. ASSUME NEW s \in InUse(t)  PROVE s \in InUse(t2)
    <3>1. PICK p \in Pages(t) : t.page[p].type = "leaf" /\ \E i \in 0 .. t.page[p].len - 1 : s = t.page[p].node[i]
      BY InUseIs
    <3>2. PICK i \in 0 .. t.page[p].len - 1 : s = t.page[p].node[i]
      BY <3>1
    <3>3. CASE p = l
      <4>1. \E k \in 0 .. leaf.len : M[k] = s
        BY <1>14, <3>2, <3>3
      <4>2. PICK k \in 0 .. leaf.len : M[k] = s
        BY <4>1
      <4>3. k \in 0 .. t2.page[l].len - 1 /\ s = t2.page[l].node[k]
        BY <1>2, <1>13, <4>2
      <4> QED BY <1>7, <1>11, <4>3, InUseIs
    <3>4. CASE p # l
      <4>1. p \in Pages(t2) /\ t2.page[p].type = "leaf" /\ i \in 0 .. t2.page[p].len - 1 /\ s = t2.page[p].node[i]
        BY <1>7, <1>11, <3>1, <3>2, <3>4
      <4> QED BY <4>1, InUseIs
    <3> QED BY <3>3, <3>4
  <2>3. d \in InUse(t2)
    <3>1. j \in 0 .. t2.page[l].len - 1 /\ d = t2.page[l].node[j]
      BY <1>2, <1>3, <1>13, <1>14
    <3> QED BY <1>7, <1>11, <3>1, InUseIs
  <2> QED BY <2>1, <2>2, <2>3
<1>16. Clean(t2)
  <2>1. \A s \in InUse(t2) : s.hash # 0
    BY <1>15 DEF Clean
  <2>2. ASSUME NEW p \in Pages(t2), t2.page[p].type = "leaf", NEW i \in LeafSlots
        PROVE  t2.page[p].node[i].hash = 0 \/ \E s \in InUse(t2) : s.hash = t2.page[p].node[i].hash
    <3>1. p \in Pages(t) /\ t.page[p].type = "leaf"
      BY <1>7, <1>11, <2>2
    <3>2. t.page[p].node[i].hash = 0 \/ \E s \in InUse(t) : s.hash = t.page[p].node[i].hash
      BY <3>1 DEF Clean
    <3>3. CASE p = l /\ i < leaf.len + 1
      <4>1. i \in 0 .. t2.page[l].len - 1
        BY <1>2, <1>13, <3>3 DEF LeafSlots
      <4>2. t2.page[p].node[i] \in InUse(t2)
        BY <2>2, <3>3, <4>1, InUseIs
      <4> QED BY <4>2
    <3>4. CASE p = l /\ ~(i < leaf.len + 1)
      <4>1. DOMAIN leaf.node = LeafSlots
        <5>1. leaf.type = "leaf" /\ leaf \in PageSet(B)
          BY <1>2
        <5> QED BY <5>1, PageFields DEF LeafNodes
      <4>2. t2.page[p].node[i] = t.page[p].node[i]
        BY <1>13, <3>4, <4>1 DEF Over
      <4> QED BY <1>15, <3>2, <4>2
    <3>5. CASE p # l
      BY <1>11, <1>15, <3>1, <3>2, <3>5
    <3> QED BY <3>3, <3>4, <3>5
  <2> QED BY <2>1, <2>2 DEF Clean
<1> QED BY <1>0, <1>10, <1>12, <1>15, <1>16 DEF Inserted

\* The split leaf and the new one follow each other in place of the one leaf.
LEMMA ChainedSplit ==
    ASSUME NEW B, NEW t, NEW H, NEW R, Mended(t, B, H, R), Chained(t, R),
           NEW l \in Pages(t), t.page[l].type = "leaf", NEW M, NEW t2, LeafParted(t, t2, l, M),
           NEW H2, NEW R2, Mended(t2, B, H2, R2), NEW u, LeafShares(t, R, R2, l, u), u \in R2[t.used]
    PROVE  Chained(t2, R2)
<1> DEFINE r == t.used
           half == leafstep \div 2
<1>1. /\ t2.left = t.left
      /\ Pages(t) \subseteq Pages(t2) /\ r \in Pages(t2) /\ r \notin Pages(t)
      /\ \A p \in Pages(t2) : t2.page[p].type = "leaf" =>
             p = r \/ (p \in Pages(t) /\ t.page[p].type = "leaf")
      /\ \A p \in Pages(t) : t.page[p].type = "leaf" =>
             t2.page[p].type = "leaf" /\ (p # l => t2.page[p].right = t.page[p].right)
      /\ t2.page[r].type = "leaf" /\ t2.page[l].right = r /\ t2.page[r].right = t.page[l].right
  BY DEF LeafParted
<1>2. /\ \A p \in Pages(t) : t.page[p].type = "leaf" /\ p # l => R2[p] = R[p]
      /\ R2[l] = {x \in R[l] : x < u} /\ R2[r] = {x \in R[l] : ~(x < u)}
  BY DEF LeafShares
<1>3. R[l] \in SUBSET Nat /\ u \in R[l] /\ u \in Nat
  <2>1. R[l] \in SUBSET Nat
    BY MendedPages
  <2> QED BY <1>2, <2>1
<1>4. PICK w \in R2[l] : TRUE
  <2>1. l \in Pages(t2)
    BY <1>1
  <2>2. t2.page[l].len \in Nat \ {0} /\ Keyed(t2.page[l].node, t2.page[l].len, R2[l])
    BY <2>1, MendedPages
  <2> QED BY <2>2 DEF Keyed
<1>5. w \in R[l] /\ w < u /\ w \in Nat
  BY <1>2, <1>3, <1>4
<1>6. r # 0
  BY <1>1 DEF Pages
<1>7. \A p \in Pages(t) : \A x \in R[p] : x \in Nat
  BY MendedPages
<1>8. \A p \in Pages(t) : t.page[p].type = "leaf" =>
        IF t.page[p].right = 0 THEN \A x \in R[p] : \A y \in Nat : y >= x => y \in R[p]
        ELSE /\ t.page[p].right \in Pages(t) /\ t.page[t.page[p].right].type = "leaf"
             /\ Follows(R, p, t.page[p].right)
  BY DEF Chained
<1> HIDE DEF r, half
\* Past w, everything below u is in the old leaf.
<1>9. ASSUME NEW x \in R[l], x < u, NEW y \in Nat, y >= x, y < u  PROVE y \in R[l]
  <2>1. CASE t.page[l].right = 0
    BY <1>8, <1>9, <2>1
  <2>2. CASE t.page[l].right # 0
    <3>1. Follows(R, l, t.page[l].right)
      BY <1>8, <2>2
    <3>2. PICK v \in R[t.page[l].right] : \A x1 \in R[l] : \A y1 \in Nat : y1 >= x1 => (y1 \in R[l] <=> y1 < v)
      BY <3>1 DEF Follows
    <3>3. v \in Nat
      BY <1>7, <1>8, <2>2
    <3>4. u < v
      BY <1>3, <3>2
    <3> QED BY <1>3, <1>7, <1>9, <3>2, <3>3, <3>4
  <2> QED BY <2>1, <2>2
<1>10. Follows(R2, l, r)
  <2>1. \A z \in R2[r] : z >= u
    BY <1>2, <1>3
  <2>2. ASSUME NEW x \in R2[l], NEW y \in Nat, y >= x  PROVE y \in R2[l] <=> y < u
    <3>1. x \in R[l] /\ x < u
      BY <1>2
    <3>2. y < u => y \in R[l]
      BY <1>9, <2>2, <3>1
    <3> QED BY <1>2, <3>2
  <2>3. u \in R2[r]
    BY DEF r
  <2> QED BY <2>1, <2>2, <2>3 DEF Follows
<1>11. ASSUME t.page[l].right # 0  PROVE Follows(R2, r, t.page[l].right)
  <2> DEFINE q == t.page[l].right
  <2>1. q \in Pages(t) /\ t.page[q].type = "leaf" /\ Follows(R, l, q)
    BY <1>8, <1>11
  <2> HIDE DEF q
  <2>2. PICK v \in R[q] : /\ \A z \in R[q] : z >= v
                          /\ \A x \in R[l] : \A y \in Nat : y >= x => (y \in R[l] <=> y < v)
    BY <2>1 DEF Follows
  <2>3. v \in Nat /\ u < v
    BY <1>3, <1>7, <2>1, <2>2
  <2>4. q # l
    <3> SUFFICES ASSUME q = l  PROVE FALSE
      OBVIOUS
    <3>1. v \in R[l] /\ v >= v
      BY <2>2, <2>3
    <3>2. v < v
      BY <2>2, <2>3, <3>1
    <3> QED BY <2>3, <3>2
  <2>5. R2[q] = R[q]
    BY <1>2, <2>1, <2>4
  <2>6. ASSUME NEW x \in R2[r], NEW y \in Nat, y >= x  PROVE y \in R2[r] <=> y < v
    <3>1. x \in R[l] /\ x \in Nat /\ ~(x < u)
      BY <1>2, <1>3
    <3>2. ~(y < u)
      BY <1>3, <2>6, <3>1
    <3>3. y \in R[l] <=> y < v
      BY <2>2, <2>6, <3>1
    <3> QED BY <1>2, <3>2, <3>3
  <2>7. Follows(R2, r, q)
    BY <2>2, <2>5, <2>6 DEF Follows
  <2> QED BY <2>7 DEF q
<1>12. ASSUME NEW p \in Pages(t), t.page[p].type = "leaf", p # l, t.page[p].right # 0
       PROVE  Follows(R2, p, t.page[p].right)
  <2> DEFINE q == t.page[p].right
  <2>1. q \in Pages(t) /\ t.page[q].type = "leaf" /\ Follows(R, p, q)
    BY <1>8, <1>12
  <2> HIDE DEF q
  <2>2. PICK v \in R[q] : /\ \A z \in R[q] : z >= v
                          /\ \A x \in R[p] : \A y \in Nat : y >= x => (y \in R[p] <=> y < v)
    BY <2>1 DEF Follows
  <2>3. R2[p] = R[p] /\ v \in Nat
    BY <1>2, <1>7, <1>12, <2>1
  <2>4. v \in R2[q] /\ \A z \in R2[q] : z >= v
    <3>1. CASE q # l
      BY <1>2, <2>1, <2>2, <3>1
    <3>2. CASE q = l
      <4>1. v \in R[l] /\ w >= v
        BY <1>5, <2>2, <3>2
      <4>2. v < u
        BY <1>3, <1>5, <2>3, <4>1
      <4> QED BY <1>2, <2>2, <3>2, <4>1, <4>2
    <3> QED BY <3>1, <3>2
  <2>5. Follows(R2, p, q)
    BY <2>2, <2>3, <2>4 DEF Follows
  <2> QED BY <2>5 DEF q
<1>13. t2.left \in Pages(t2) /\ t2.page[t2.left].type = "leaf" /\ 0 \in R2[t2.left]
  <2>1. t.left \in Pages(t) /\ t.page[t.left].type = "leaf" /\ 0 \in R[t.left]
    BY DEF Chained
  <2>2. t.left = l => 0 < u
    BY <1>3, <1>5
  <2>3. 0 \in R2[t.left]
    BY <1>2, <2>1, <2>2
  <2> QED BY <1>1, <2>1, <2>3
<1>14. ASSUME NEW p \in Pages(t2), t2.page[p].type = "leaf"
       PROVE  IF t2.page[p].right = 0 THEN \A x \in R2[p] : \A y \in Nat : y >= x => y \in R2[p]
              ELSE /\ t2.page[p].right \in Pages(t2) /\ t2.page[t2.page[p].right].type = "leaf"
                   /\ Follows(R2, p, t2.page[p].right)
  <2>1. CASE p = l
    BY <1>1, <1>6, <1>10, <2>1
  <2>2. CASE p = r
    <3>1. CASE t.page[l].right = 0
      <4>1. \A x \in R[l] : \A y \in Nat : y >= x => y \in R[l]
        BY <1>8, <3>1
      <4>2. ASSUME NEW x \in R2[r], NEW y \in Nat, y >= x  PROVE y \in R2[r]
        <5>1. x \in R[l] /\ x \in Nat /\ ~(x < u)
          BY <1>2, <1>3
        <5>2. ~(y < u) /\ y \in R[l]
          BY <1>3, <4>1, <4>2, <5>1
        <5> QED BY <1>2, <5>2
      <4> QED BY <1>1, <2>2, <3>1, <4>2
    <3>2. CASE t.page[l].right # 0
      BY <1>1, <1>8, <1>11, <2>2, <3>2
    <3> QED BY <3>1, <3>2
  <2>3. CASE p # l /\ p # r
    <3>1. p \in Pages(t) /\ t.page[p].type = "leaf" /\ t2.page[p].right = t.page[p].right /\ R2[p] = R[p]
      BY <1>1, <1>2, <1>14, <2>3
    <3>2. CASE t.page[p].right = 0
      BY <1>8, <3>1, <3>2
    <3>3. CASE t.page[p].right # 0
      BY <1>1, <1>8, <1>12, <2>3, <3>1, <3>3
    <3> QED BY <3>2, <3>3
  <2> QED BY <2>1, <2>2, <2>3
<1> QED BY <1>13, <1>14 DEF Chained

\* bplus_insert into a full leaf.
LEMMA SplitIs ==
    ASSUME NEW B, NoBody \in B, NEW t, NEW H, NEW R, Mended(t, B, H, R), Chained(t, R), Clean(t),
           NEW l \in Pages(t), t.page[l].type = "leaf", ~HasRoom(t.page[l]),
           NEW d \in LeafSlot(B), d.hash \in R[l], d.hash # 0,
           \A i \in 0 .. t.page[l].len - 1 : t.page[l].node[i].hash # d.hash
    PROVE  \E H2, R2 : Inserted(t, LeafSplit(t, l, d).tree, B, d, H2, R2)
<1> DEFINE half == leafstep \div 2
           r == t.used
           old == t.page[l].node
           j == Where(old, leafstep, d.hash)
           M == Merged(old, leafstep, j, d)
           t2 == LeafSplit(t, l, d).tree
           u == M[half + 1].hash
<1>1. half \in Nat /\ half + 1 <= leafstep /\ (half + 1) + half = leafstep
  BY HalfLeaf, PageShape
<1>2. PICK H2, R2 : Mended(t2, B, H2, R2) /\ LeafParted(t, t2, l, M) /\ LeafShares(t, R, R2, l, u)
  <2>1. M = Merged(t.page[l].node, leafstep, Where(t.page[l].node, leafstep, d.hash), d)
    OBVIOUS
  <2> HIDE DEF M
  <2> QED BY <2>1, LeafSplitIs
<1>3. /\ t.page[l].len = leafstep /\ \A i \in 0 .. leafstep - 1 : old[i].hash \in Nat
      /\ old \in LeafNodes(B)
  <2>1. t.page[l] \in PageSet(B) /\ t.page[l].len \in Nat /\ t.page[l].len <= leafstep
    BY MendedPages DEF Capacity
  <2>2. ~(t.page[l].len < leafstep)
    BY DEF HasRoom
  <2>3. t.page[l].len = leafstep
    BY <2>1, <2>2, PageShape
  <2>4. \A i \in 0 .. t.page[l].len - 1 : t.page[l].node[i].hash \in Nat
    BY MendedPages
  <2>5. old \in LeafNodes(B)
    BY <2>1, PageFields
  <2> QED BY <2>3, <2>4, <2>5
<1>4. j \in 0 .. leafstep
  <2>1. leafstep \in Nat /\ d.hash \in Nat
    BY PageShape DEF LeafSlot
  <2> HIDE DEF old
  <2> QED BY <1>3, <2>1, WhereIs
<1>5. /\ \A i \in 0 .. leafstep : M[i] = d \/ \E k \in 0 .. leafstep - 1 : M[i] = old[k]
      /\ \A k \in 0 .. leafstep - 1 : \E i \in 0 .. leafstep : M[i] = old[k]
      /\ M[j] = d
  <2>1. M = Merged(old, leafstep, j, d) /\ leafstep \in Nat
    BY PageShape
  <2> HIDE DEF old, j, M
  <2> QED BY ONLY <1>4, <2>1, MergedSlots
<1> HIDE DEF M, t2, j
<1>6. /\ Pages(t) \subseteq Pages(t2) /\ r \in Pages(t2) /\ r \notin Pages(t)
      /\ \A p \in Pages(t2) : t2.page[p].type = "leaf" =>
             p = r \/ (p \in Pages(t) /\ t.page[p].type = "leaf")
      /\ \A p \in Pages(t) : t.page[p].type = "leaf" /\ p # l =>
             /\ t2.page[p].type = "leaf" /\ t2.page[p].len = t.page[p].len
             /\ t2.page[p].node = t.page[p].node
      /\ t2.page[l].type = "leaf" /\ t2.page[l].len = half + 1 /\ l \in Pages(t2)
      /\ t2.page[l].node = Over(M, half + 1, old)
      /\ t2.page[r].type = "leaf" /\ t2.page[r].len = half + 1
      /\ t2.page[r].node = Over(After(M, half), half + 1, EmptyLeafNode)
  BY <1>2 DEF LeafParted
<1>7. ASSUME NEW i \in LeafSlots
      PROVE  /\ t2.page[l].node[i] = IF i < half + 1 THEN M[i] ELSE old[i]
             /\ t2.page[r].node[i] = IF i < half + 1 THEN M[half + 1 + i] ELSE EmptyLeafNode[i]
             /\ i \in Nat
  <2>1. DOMAIN old = LeafSlots /\ DOMAIN EmptyLeafNode = LeafSlots /\ i \in Nat
    BY <1>3 DEF LeafNodes, EmptyLeafNode, LeafSlots
  <2>2. After(M, half)[i] = M[half + 1 + i]
    BY <2>1 DEF After
  <2> HIDE DEF old, half
  <2> QED BY <1>6, <2>1, <2>2 DEF Over
<1>8. ASSUME NEW i \in 0 .. half
      PROVE  i \in LeafSlots /\ i < half + 1 /\ i \in 0 .. leafstep /\ half + 1 + i \in 0 .. leafstep
  <2> HIDE DEF half
  <2> QED BY <1>1 DEF LeafSlots
<1>9. ASSUME NEW i \in 0 .. half  PROVE t2.page[l].node[i] = M[i] /\ t2.page[r].node[i] = M[half + 1 + i]
  BY <1>7, <1>8
<1>10. (half + 1) - 1 = half
  BY <1>1
<1> HIDE DEF half, old
<1>11. \A i \in 0 .. leafstep : M[i] \in InUse(t2)
  <2> SUFFICES ASSUME NEW i \in 0 .. leafstep  PROVE M[i] \in InUse(t2)
    OBVIOUS
  <2>1. CASE i <= half
    <3>1. i \in 0 .. t2.page[l].len - 1 /\ t2.page[l].node[i] = M[i]
      BY <1>1, <1>6, <1>9, <1>10, <2>1
    <3> QED BY <1>6, <3>1, InUseIs
  <2>2. CASE ~(i <= half)
    <3> DEFINE k == i - (half + 1)
    <3>1. k \in 0 .. half /\ half + 1 + k = i
      BY <1>1, <2>2
    <3> HIDE DEF k
    <3>2. k \in 0 .. t2.page[r].len - 1 /\ t2.page[r].node[k] = M[i]
      BY <1>6, <1>9, <1>10, <3>1
    <3> QED BY <1>6, <3>2, InUseIs
  <2> QED BY <2>1, <2>2
<1>12. InUse(t2) = InUse(t) \cup {d}
  <2>0. ASSUME NEW i \in 0 .. leafstep  PROVE M[i] \in InUse(t) \cup {d}
    <3>1. M[i] = d \/ \E k \in 0 .. t.page[l].len - 1 : M[i] = t.page[l].node[k]
      BY <1>3, <1>5 DEF old
    <3> QED BY <3>1, InUseIs
  <2>1. ASSUME NEW s \in InUse(t2)  PROVE s \in InUse(t) \cup {d}
    <3>1. PICK p \in Pages(t2) : t2.page[p].type = "leaf" /\ \E i \in 0 .. t2.page[p].len - 1 : s = t2.page[p].node[i]
      BY InUseIs
    <3>2. PICK i \in 0 .. t2.page[p].len - 1 : s = t2.page[p].node[i]
      BY <3>1
    <3>3. CASE p = l
      <4>1. i \in 0 .. half /\ i \in 0 .. leafstep /\ s = M[i]
        BY <1>6, <1>8, <1>9, <1>10, <3>2, <3>3
      <4> QED BY <2>0, <4>1
    <3>4. CASE p = r
      <4>1. i \in 0 .. half /\ s = M[half + 1 + i]
        BY <1>6, <1>9, <1>10, <3>2, <3>4
      <4> QED BY <1>8, <2>0, <4>1
    <3>5. CASE p # l /\ p # r
      <4>1. p \in Pages(t) /\ t.page[p].type = "leaf"
        BY <1>6, <3>1, <3>5
      <4>2. i \in 0 .. t.page[p].len - 1 /\ s = t.page[p].node[i]
        BY <1>6, <3>2, <3>5, <4>1
      <4> QED BY <4>1, <4>2, InUseIs
    <3> QED BY <3>3, <3>4, <3>5
  <2>2. ASSUME NEW s \in InUse(t)  PROVE s \in InUse(t2)
    <3>1. PICK p \in Pages(t) : t.page[p].type = "leaf" /\ \E i \in 0 .. t.page[p].len - 1 : s = t.page[p].node[i]
      BY InUseIs
    <3>2. PICK i \in 0 .. t.page[p].len - 1 : s = t.page[p].node[i]
      BY <3>1
    <3>3. CASE p = l
      <4>1. i \in 0 .. leafstep - 1 /\ s = old[i]
        BY <1>3, <3>2, <3>3 DEF old
      <4>2. PICK k \in 0 .. leafstep : M[k] = s
        BY <1>5, <4>1
      <4> QED BY <1>11, <4>2
    <3>4. CASE p # l
      <4>1. /\ p \in Pages(t2) /\ t2.page[p].type = "leaf"
            /\ i \in 0 .. t2.page[p].len - 1 /\ s = t2.page[p].node[i]
        BY <1>6, <3>1, <3>2, <3>4
      <4> QED BY <4>1, InUseIs
    <3> QED BY <3>3, <3>4
  <2>3. d \in InUse(t2)
    BY <1>4, <1>5, <1>11
  <2> QED BY <2>1, <2>2, <2>3
<1>13. Clean(t2)
  <2>1. \A s \in InUse(t2) : s.hash # 0
    BY <1>12 DEF Clean
  <2>2. ASSUME NEW p \in Pages(t2), t2.page[p].type = "leaf", NEW i \in LeafSlots
        PROVE  t2.page[p].node[i].hash = 0 \/ \E s \in InUse(t2) : s.hash = t2.page[p].node[i].hash
    <3>1. i < half + 1 => i \in 0 .. half /\ i \in 0 .. leafstep /\ half + 1 + i \in 0 .. leafstep
      <4>1. i \in Nat
        BY <1>7
      <4>2. i < half + 1 => i \in 0 .. half
        BY <1>1, <4>1
      <4> QED BY <1>8, <4>2
    <3>2. CASE p = l
      <4>1. CASE i < half + 1
        BY <1>7, <1>11, <3>1, <3>2, <4>1
      <4>2. CASE ~(i < half + 1)
        <5>1. t2.page[p].node[i] = t.page[l].node[i]
          BY <1>7, <3>2, <4>2 DEF old
        <5>2. t.page[l].node[i].hash = 0 \/ \E s \in InUse(t) : s.hash = t.page[l].node[i].hash
          BY DEF Clean
        <5> QED BY <1>12, <5>1, <5>2
      <4> QED BY <4>1, <4>2
    <3>3. CASE p = r
      <4>1. EmptyLeafNode[i].hash = 0
        BY DEF EmptyLeafNode
      <4>2. CASE i < half + 1
        BY <1>7, <1>11, <3>1, <3>3, <4>2
      <4>3. CASE ~(i < half + 1)
        BY <1>7, <3>3, <4>1, <4>3
      <4> QED BY <4>2, <4>3
    <3>4. CASE p # l /\ p # r
      <4>1. p \in Pages(t) /\ t.page[p].type = "leaf" /\ t2.page[p].node = t.page[p].node
        BY <1>6, <2>2, <3>4
      <4>2. t.page[p].node[i].hash = 0 \/ \E s \in InUse(t) : s.hash = t.page[p].node[i].hash
        BY <4>1 DEF Clean
      <4> QED BY <1>12, <4>1, <4>2
    <3> QED BY <3>2, <3>3, <3>4
  <2> QED BY <2>1, <2>2 DEF Clean
<1>14. u \in R2[t.used]
  <2>1. Keyed(t2.page[r].node, t2.page[r].len, R2[r])
    BY <1>2, <1>6, MendedPages
  <2>2. 0 \in 0 .. half /\ 0 \in 0 .. t2.page[r].len - 1 /\ half + 1 + 0 = half + 1
    BY <1>1, <1>6, <1>10
  <2>3. t2.page[r].node[0].hash \in R2[r]
    BY <2>1, <2>2 DEF Keyed
  <2>4. t2.page[r].node[0] = M[half + 1]
    BY <1>9, <2>2
  <2> QED BY <2>3, <2>4
<1> HIDE DEF u
<1>15. Chained(t2, R2)
  BY ONLY <1>2, <1>14, Mended(t, B, H, R), Chained(t, R), l \in Pages(t), t.page[l].type = "leaf", ChainedSplit
<1>16. Inserted(t, t2, B, d, H2, R2)
  BY <1>2, <1>12, <1>13, <1>15 DEF Inserted
<1> QED BY <1>16 DEF t2

\* The empty tree.
LEMMA PreparedIs ==
    ASSUME NEW B
    PROVE  /\ Typed(Prepared, B) /\ Pages(Prepared) = {} /\ InUse(Prepared) = {}
           /\ Prepared.first = 0 /\ Prepared.left = 0 /\ Prepared.right = 0 /\ Prepared.used = 1
<1>1. /\ Prepared.first = 0 /\ Prepared.left = 0 /\ Prepared.right = 0 /\ Prepared.used = 1
      /\ Prepared = [first |-> 0, left |-> 0, right |-> 0, used |-> 0 + 1, page |-> << >>]
  BY DEF Prepared
<1>2. << >> \in [1 .. 0 -> PageSet(B)]
  OBVIOUS
<1>3. \A p \in 1 .. 0 : FALSE
  OBVIOUS
<1> DEFINE page == << >>
<1>4. page \in [1 .. 0 -> PageSet(B)]
  BY <1>2
<1>5. Prepared = [first |-> 0, left |-> 0, right |-> 0, used |-> 0 + 1, page |-> page]
  BY <1>1
<1>6. 0 \in Nat
  OBVIOUS
<1> HIDE DEF page
<1>7. \A p \in 1 .. 0 : page[p].right < 0 + 1
  BY <1>3
<1>8. Typed(Prepared, B)
  BY <1>4, <1>5, <1>6, <1>7, TypedBy
<1>9. Pages(Prepared) = {}
  BY <1>1 DEF Pages
<1> QED BY <1>1, <1>8, <1>9 DEF InUse

\* bplus_insert into it.
LEMMA FirstIs ==
    ASSUME NEW B, NoBody \in B, NEW d \in LeafSlot(B), d.hash # 0
    PROVE  \E H2, R2 : Inserted(Prepared, Insert(Prepared, d).tree, B, d, H2, R2)
<1> DEFINE t == Prepared
           leaf == SlotAdd(NewLeaf, d)
           g == Grow(t, leaf)
           t2 == [g EXCEPT !.first = 1, !.left = 1, !.right = 1]
           H == [p \in 1 .. 1 |-> 0]
           R == [p \in 1 .. 1 |-> Nat]
<1>1. /\ Typed(t, B) /\ Pages(t) = {} /\ InUse(t) = {}
      /\ t.first = 0 /\ t.left = 0 /\ t.right = 0 /\ t.used = 1
  BY PreparedIs
<1>2. Insert(t, d).tree = t2
  BY <1>1 DEF Insert
<1> HIDE DEF t
<1>3. /\ NewLeaf \in PageSet(B) /\ NewLeaf.type = "leaf" /\ NewLeaf.len = 0 /\ NewLeaf.parent = 0
      /\ NewLeaf.right = 0 /\ NewLeaf.node = EmptyLeafNode
  <2>1. NewLeaf \in PageSet(B)
    BY NewPages DEF PageSet
  <2> QED BY <2>1 DEF NewLeaf
<1>4. /\ leaf \in PageSet(B) /\ leaf.type = "leaf" /\ leaf.len = 1 /\ leaf.parent = 0 /\ leaf.right = 0
      /\ leaf.node = Over(Merged(EmptyLeafNode, 0, 0, d), 1, EmptyLeafNode) /\ leaf.node[0] = d
  <2> DEFINE j == Where(NewLeaf.node, NewLeaf.len, d.hash)
  <2>1. HasRoom(NewLeaf) /\ d \in SlotsOf(NewLeaf.type, B)
    BY <1>3, PageShape DEF HasRoom, SlotsOf
  <2> HIDE DEF j
  <2>2. /\ leaf \in PageSet(B)
        /\ leaf.type = NewLeaf.type /\ leaf.parent = NewLeaf.parent
        /\ leaf.right = NewLeaf.right
        /\ leaf.len = NewLeaf.len + 1 /\ j \in 0 .. NewLeaf.len
        /\ leaf.node = Over(Merged(NewLeaf.node, NewLeaf.len, j, d), NewLeaf.len + 1, NewLeaf.node)
        /\ \A i \in 0 .. NewLeaf.len : leaf.node[i] = Merged(NewLeaf.node, NewLeaf.len, j, d)[i]
    BY <1>3, <2>1, SlotAddIs DEF j
  <2> HIDE DEF leaf
  <2>3. j = 0 /\ 0 \in 0 .. NewLeaf.len /\ NewLeaf.len + 1 = 1
    BY <1>3, <2>2
  <2>4. Merged(NewLeaf.node, 0, 0, d)[0] = d
    BY DEF Merged
  <2>5. leaf.node[0] = d
    BY <1>3, <2>2, <2>3, <2>4
  <2> QED BY <1>3, <2>2, <2>3, <2>5
<1> HIDE DEF leaf
<1>5. /\ Typed(g, B) /\ g.used = 2 /\ g.page[1] = leaf /\ Pages(g) = {1}
  <2>1. leaf.right < t.used + 1
    BY <1>1, <1>4
  <2>2. /\ Typed(g, B) /\ g.used = t.used + 1 /\ g.page[t.used] = leaf /\ Pages(g) = Pages(t) \cup {t.used}
    BY <1>1, <1>4, <2>1, GrowIs
  <2> QED BY <1>1, <2>2
<1> HIDE DEF g
<1>6. /\ t2.first = 1 /\ t2.left = 1 /\ t2.right = 1 /\ t2.used = 2 /\ t2.page = g.page
      /\ t2 = [first |-> 1, left |-> 1, right |-> 1, used |-> 1 + 1, page |-> g.page]
      /\ g.page \in [1 .. 1 -> PageSet(B)]
  <2>1. /\ g = [first |-> g.first, left |-> g.left, right |-> g.right, used |-> g.used, page |-> g.page]
        /\ g.page \in [1 .. g.used - 1 -> PageSet(B)]
    BY <1>5, TreeFields
  <2>2. g.used - 1 = 1 /\ g.used = 1 + 1
    BY <1>5
  <2>3. t2 = [first |-> 1, left |-> 1, right |-> 1, used |-> g.used, page |-> g.page]
    <3> DEFINE a == g.first
               b == g.left
               c == g.right
               u == g.used
               pages == g.page
    <3>1. g = [first |-> a, left |-> b, right |-> c, used |-> u, page |-> pages]
      BY <2>1
    <3>2. t2 = [g EXCEPT !.first = 1, !.left = 1, !.right = 1]
      OBVIOUS
    <3> HIDE DEF a, b, c, u, pages, t2
    <3>3. t2 = [first |-> 1, left |-> 1, right |-> 1, used |-> u, page |-> pages]
      BY ONLY <3>1, <3>2
    <3> QED BY <3>3 DEF u, pages
  <2> HIDE DEF t2
  <2> QED BY <2>1, <2>2, <2>3
<1> DEFINE page == g.page
<1>7. Typed(t2, B)
  <2>1. \A p \in 1 .. 1 : page[p].right < 1 + 1
    BY <1>4, <1>5
  <2>2. page \in [1 .. 1 -> PageSet(B)] /\ t2 = [first |-> 1, left |-> 1, right |-> 1, used |-> 1 + 1, page |-> page]
    BY <1>6
  <2>3. 1 \in Nat
    OBVIOUS
  <2> HIDE DEF t2, page
  <2> QED BY <2>1, <2>2, <2>3, TypedBy
<1> HIDE DEF t2
<1>8. Pages(t2) = {1} /\ t2.page[1] = leaf /\ 1 .. t2.used - 1 = {1} /\ t2.used - 1 = 1
  BY <1>5, <1>6 DEF Pages
<1>9. Sound(page, 1, 1, H, R, 0, 0)
  <2>1. H \in [1 .. 1 -> Nat] /\ R \in [1 .. 1 -> SUBSET Nat] /\ H[1] = 0 /\ R[1] = Nat
    OBVIOUS
  <2>2. \A p \in 1 .. 1 : p = 1
    OBVIOUS
  <2> HIDE DEF H, R
  <2>3. Span(R, 0, 0)[1] = Nat
    BY <2>1 DEF Span
  <2>4. page[1].type = "leaf" /\ page[1].len = 1 /\ page[1].parent = 0 /\ page[1].node[0] = d
    BY <1>4, <1>5
  <2> HIDE DEF page
  <2>5. Rooted(page, 1, 1, H, R, 0, 0)
    BY <2>1, <2>2, <2>3, <2>4 DEF Rooted
  <2>6. Keyed(page[1].node, 1, R[1])
    <3>1. \A i \in 0 .. 1 - 1 : i = 0
      OBVIOUS
    <3>2. d.hash \in Nat
      BY DEF LeafSlot
    <3> QED BY <2>1, <2>4, <3>1, <3>2 DEF Keyed
  <2>7. Steered(page[1], H[1], R[1], Span(R, 0, 0))
    BY <2>1, <2>4, <2>6 DEF Steered
  <2>8. Fathered(page, 1, H, 1, 0)
    BY <2>4 DEF Fathered
  <2> QED BY <2>1, <2>2, <2>5, <2>7, <2>8 DEF Sound
<1>10. Mended(t2, B, H, R)
  BY <1>6, <1>7, <1>8, <1>9 DEF Mended
<1>11. Chained(t2, R)
  <2>1. R[1] = Nat
    OBVIOUS
  <2> HIDE DEF R
  <2> QED BY <1>4, <1>6, <1>8, <2>1 DEF Chained
<1>12. InUse(t2) = {d}
  <2>1. \A i \in 0 .. leaf.len - 1 : i = 0
    BY <1>4
  <2>2. 0 \in 0 .. leaf.len - 1
    BY <1>4
  <2>3. ASSUME NEW s  PROVE s \in InUse(t2) <=> s = d
    <3>1. s \in InUse(t2) <=> \E i \in 0 .. leaf.len - 1 : s = leaf.node[i]
      BY <1>4, <1>8, InUseIs
    <3> QED BY <1>4, <2>1, <2>2, <3>1
  <2> QED BY <2>3
<1>13. Clean(t2)
  <2>1. ASSUME NEW i \in LeafSlots  PROVE leaf.node[i].hash = 0 \/ leaf.node[i].hash = d.hash
    <3>1. CASE i = 0
      BY <1>4, <3>1
    <3>2. CASE i # 0
      <4>1. DOMAIN EmptyLeafNode = LeafSlots /\ EmptyLeafNode[i].hash = 0 /\ ~(i < 1)
        BY <3>2 DEF EmptyLeafNode, LeafSlots
      <4> QED BY <1>4, <4>1 DEF Over
    <3> QED BY <3>1, <3>2
  <2> QED BY <1>8, <1>12, <2>1 DEF Clean
<1> HIDE DEF H, R
<1>14. Inserted(t, t2, B, d, H, R)
  BY <1>1, <1>10, <1>11, <1>12, <1>13 DEF Inserted
<1> QED BY <1>2, <1>14 DEF t

\* What the tree of the code always is.
Fine(t, B) == t = Prepared \/ \E H, R : Mended(t, B, H, R) /\ Chained(t, R) /\ Clean(t)

\* Search in the empty tree.
LEMMA SearchPrepared ==
    ASSUME NEW h
    PROVE  Search(Prepared, h) = <<0, 0>>
<1> DEFINE t == Prepared
           g == CHOOSE g : DescentIs(g, t, h)
           f == [p \in {0} |-> p]
<1>1. Pages(t) = {} /\ t.first = 0
  BY PreparedIs
<1> HIDE DEF t
<1>2. DescentIs(f, t, h)
  <2>1. {0} \cup Pages(t) = {0}
    BY <1>1
  <2>2. f = [p \in {0} |-> IF p = 0 \/ t.page[p].type = "leaf" THEN p ELSE f[GetChild(t.page[p], Branch(t.page[p], h))]]
    OBVIOUS
  <2> HIDE DEF f
  <2> QED BY <2>1, <2>2 DEF DescentIs
<1>3. DescentIs(g, t, h)
  <2> HIDE DEF f
  <2> QED BY <1>2, Zenon
<1>4. FindLeaf(t, h) = g[t.first]
  BY Zenon DEF FindLeaf, DescentIs
<1> HIDE DEF g
<1>5. g[0] = 0
  <2>1. 0 \in {0} \cup Pages(t)
    OBVIOUS
  <2> QED BY <1>3, <2>1 DEF DescentIs
<1>6. FindLeaf(t, h) = 0
  BY <1>1, <1>4, <1>5
<1>7. Search(t, h) = <<0, 0>>
  BY <1>6 DEF Search
<1> QED BY <1>7 DEF t

\* strhash_write keeps the tree fine, and adds its slot when none has the hash.
THEOREM WrittenIs ==
    ASSUME NEW B, NoBody \in B, NEW t, Fine(t, B), NEW d \in LeafSlot(B), d.hash # 0
    PROVE  /\ Fine(Written(t, d).tree, B)
           /\ InUse(Written(t, d).tree) =
                IF \E s \in InUse(t) : s.hash = d.hash THEN InUse(t) ELSE InUse(t) \cup {d}
<1>0. d.hash \in Nat \ {0}
  BY DEF LeafSlot
<1>1. CASE t = Prepared
  <2>1. InUse(t) = {} /\ Search(t, d.hash) = <<0, 0>>
    BY <1>1, PreparedIs, SearchPrepared
  <2>2. Written(t, d).tree = Insert(t, d).tree
    BY <2>1 DEF Written
  <2>3. PICK H2, R2 : Inserted(t, Insert(t, d).tree, B, d, H2, R2)
    BY <1>1, FirstIs
  <2> QED BY <2>1, <2>2, <2>3 DEF Inserted, Fine
<1>2. CASE t # Prepared
  <2>1. PICK H, R : Mended(t, B, H, R) /\ Chained(t, R) /\ Clean(t)
    BY <1>2 DEF Fine
  <2>2. CASE \E s \in InUse(t) : s.hash = d.hash
    <3>1. Search(t, d.hash) # <<0, 0>>
      BY <1>0, <2>1, <2>2, SearchIs
    <3>2. Written(t, d).tree = t
      BY <3>1 DEF Written
    <3> QED BY <2>2, <3>2
  <2>3. CASE ~\E s \in InUse(t) : s.hash = d.hash
    <3> DEFINE l == FindLeaf(t, d.hash)
    <3>1. Search(t, d.hash) = <<0, 0>>
      BY <1>0, <2>1, <2>3, SearchIs
    <3>2. l \in Pages(t) /\ t.page[l].type = "leaf" /\ d.hash \in R[l] /\ t.first # 0
      BY <1>0, <2>1, FindLeafIs, MendedFirst
    <3>3. Written(t, d).tree = IF HasRoom(t.page[l]) THEN [t EXCEPT !.page[l] = SlotAdd(@, d)]
                               ELSE LeafSplit(t, l, d).tree
      <4>1. Written(t, d).tree = Insert(t, d).tree
        BY <3>1 DEF Written
      <4> QED BY <3>2, <4>1 DEF Insert
    <3> HIDE DEF l
    <3>4. \A i \in 0 .. t.page[l].len - 1 : t.page[l].node[i].hash # d.hash
      BY <2>3, <3>2, InUseIs
    <3>5. \E H2, R2 : Inserted(t, Written(t, d).tree, B, d, H2, R2)
      <4>1. CASE HasRoom(t.page[l])
        <5>1. Inserted(t, [t EXCEPT !.page[l] = SlotAdd(@, d)], B, d, H, R)
          BY <2>1, <3>2, <3>4, <4>1, RoomIs
        <5> QED BY <3>3, <4>1, <5>1
      <4>2. CASE ~HasRoom(t.page[l])
        <5>1. \E H2, R2 : Inserted(t, LeafSplit(t, l, d).tree, B, d, H2, R2)
          BY <2>1, <3>2, <3>4, <4>2, SplitIs
        <5> QED BY <3>3, <4>2, <5>1
      <4> QED BY <4>1, <4>2
    <3>6. PICK H2, R2 : Inserted(t, Written(t, d).tree, B, d, H2, R2)
      BY <3>5
    <3> QED BY <2>3, <3>6 DEF Inserted, Fine
  <2> QED BY <2>2, <2>3
<1> QED BY <1>1, <1>2
=============================================================================
