------------------------------ MODULE WalkProofs ------------------------------
(***************************************************************************)
(* Proofs about Walk, for any instructions and any length of the buffer:   *)
(* the tables of the walks have the room they need, and what travel prints *)
(* and reports is what can run.  And about Executable, for any tables: the *)
(* sections that are asked for are the sections that are listed.  And      *)
(* about Assembly, for any words and any lines: what the walks take for a  *)
(* branch is what is shown as one.                                         *)
(***************************************************************************)
EXTENDS Binary, Recursion, SequenceTheorems, FiniteSetTheorems

----------------------------------------------------------------------------
(* The quicksort of travel. *)

\* The rows of a table, whose addresses are all different.
Rows(b) == {b[k] : k \in 1 .. Len(b)}
Distinct(b) == \A k, l \in 1 .. Len(b) : b[k].addr = b[l].addr => k = l
Ascending(b) == \A k, l \in 1 .. Len(b) : k < l => b[k].addr < b[l].addr

\* A sequence with one element replaced.
LEMMA Replaced ==
    ASSUME NEW S, NEW b \in Seq(S), NEW i \in 1 .. Len(b), NEW x \in S
    PROVE  /\ [b EXCEPT ![i] = x] \in Seq(S)
           /\ Len([b EXCEPT ![i] = x]) = Len(b)
           /\ \A k \in 1 .. Len(b) : [b EXCEPT ![i] = x][k] = IF k = i THEN x ELSE b[k]
  OBVIOUS

\* A set of numbers up to a bound has a greatest one.
LEMMA MaxIs ==
    ASSUME NEW lo \in Nat, NEW hi \in Nat, NEW S \in SUBSET (lo .. hi), S # {}
    PROVE  Max(S) \in S /\ \A k \in S : k <= Max(S)
<1> DEFINE T == {hi - k : k \in S}
<1>1. T \in SUBSET Nat /\ T # {}
  <2>1. \A k \in S : hi - k \in Nat
    OBVIOUS
  <2> QED BY <2>1
<1>2. PICK n \in T : \A i \in T : n <= i
  <2> HIDE DEF T
  <2> QED BY <1>1, LeastNumber
<1>3. PICK k \in S : n = hi - k
  OBVIOUS
<1>4. \A i \in S : k >= i
  <2> SUFFICES ASSUME NEW i \in S  PROVE k >= i
    OBVIOUS
  <2>1. n <= hi - i
    BY <1>2
  <2>2. i \in Int /\ k \in Int /\ hi \in Int
    OBVIOUS
  <2> QED BY <1>3, <2>1, <2>2
<1> HIDE DEF T
<1>5. Max(S) \in S /\ \A i \in S : Max(S) >= i
  BY <1>4, Zenon DEF Max
<1>6. \A i \in S : i \in Int
  OBVIOUS
<1>7. \A x, y \in Int : x >= y => y <= x
  OBVIOUS
<1> QED BY <1>5, <1>6, <1>7, Zenon

\* And a least one.
LEMMA MinIs ==
    ASSUME NEW S \in SUBSET Nat, S # {}
    PROVE  Min(S) \in S /\ \A k \in S : Min(S) <= k
<1>1. PICK n \in S : \A i \in S : n <= i
  BY LeastNumber
<1> QED BY <1>1, Zenon DEF Min

\* Where a round of the quicksort leaves off.
Meets(r, h, l) ==
    /\ h \in r.lo .. r.hi /\ l \in r.lo .. h
    /\ h = r.lo \/ r.buf[h].addr < r.p.addr
    /\ \A k \in h + 1 .. r.hi : ~(r.buf[k].addr < r.p.addr)
    /\ l = h \/ (l # r.lo /\ r.buf[l].addr > r.p.addr)
    /\ \A k \in r.lo .. l - 1 : k = r.lo \/ ~(r.buf[k].addr > r.p.addr)

\* What it has moved by then.
Moved(r, h, l) == [[r.buf EXCEPT ![r.lo] = r.buf[h]] EXCEPT
                     ![h] = IF l = r.lo THEN r.buf[h] ELSE r.buf[l]]

\* A round of the quicksort.
LEMMA SweptIs ==
    ASSUME NEW r \in Sorting
    PROVE  \E h, l \in Nat : Meets(r, h, l)
             /\ Swept(r) = [buf |-> Moved(r, h, l), lo |-> l, hi |-> h, p |-> r.p]
<1> DEFINE H == {k \in r.lo .. r.hi : k = r.lo \/ r.buf[k].addr < r.p.addr}
           h == Max(H)
           L == {k \in r.lo .. h : k = h \/ (k # r.lo /\ r.buf[k].addr > r.p.addr)}
           l == Min(L)
<1>0. r.lo \in Nat /\ r.hi \in Nat /\ r.lo <= r.hi /\ 1 <= r.lo /\ r.hi <= Len(r.buf) /\ r.buf \in Seq(Row)
  BY DEF Sorting
<1>1. h \in H /\ \A k \in H : k <= h
  <2>1. H \in SUBSET (r.lo .. r.hi) /\ r.lo \in H
    BY <1>0
  <2> HIDE DEF H
  <2> QED BY <1>0, <2>1, MaxIs
<1>2. h \in r.lo .. r.hi /\ (h = r.lo \/ r.buf[h].addr < r.p.addr) /\ h \in Nat
  <2> HIDE DEF h
  <2> QED BY <1>0, <1>1
<1>3. \A k \in h + 1 .. r.hi : ~(r.buf[k].addr < r.p.addr)
  <2> HIDE DEF h
  <2> SUFFICES ASSUME NEW k \in h + 1 .. r.hi, r.buf[k].addr < r.p.addr  PROVE FALSE
    OBVIOUS
  <2>1. k \in r.lo .. r.hi /\ ~(k <= h)
    BY <1>0, <1>2
  <2>2. k \in H
    BY <2>1
  <2> QED BY <1>1, <2>1, <2>2
<1> HIDE DEF H, h
<1>4. l \in L /\ \A k \in L : l <= k
  <2>1. L \in SUBSET Nat /\ h \in L
    BY <1>0, <1>2
  <2> HIDE DEF L
  <2> QED BY <2>1, MinIs
<1>5. l \in r.lo .. h /\ (l = h \/ (l # r.lo /\ r.buf[l].addr > r.p.addr)) /\ l \in Nat
  <2> HIDE DEF l
  <2> QED BY <1>0, <1>2, <1>4
<1>6. \A k \in r.lo .. l - 1 : k = r.lo \/ ~(r.buf[k].addr > r.p.addr)
  <2> HIDE DEF l
  <2> SUFFICES ASSUME NEW k \in r.lo .. l - 1, k # r.lo, r.buf[k].addr > r.p.addr  PROVE FALSE
    OBVIOUS
  <2>1. k \in r.lo .. h /\ ~(l <= k)
    BY <1>0, <1>2, <1>5
  <2>2. k \in L
    BY <2>1
  <2> QED BY <1>4, <2>1, <2>2
<1>7. Swept(r) = [buf |-> Moved(r, h, l), lo |-> l, hi |-> h, p |-> r.p]
  BY Zenon DEF Swept, Moved, h, H
<1> HIDE DEF L, l
<1> QED BY <1>2, <1>3, <1>5, <1>6, <1>7 DEF Meets

\* The table with p in the hole.
Filled(r) == [r.buf EXCEPT ![r.lo] = r.p]

\* What holds between the rounds: only smaller rows on the left of the hole, only greater
\* ones on the right of hi.
Parting(r) ==
    /\ Distinct(Filled(r))
    /\ \A k \in 1 .. r.lo - 1 : r.buf[k].addr < r.p.addr
    /\ \A k \in r.hi + 1 .. Len(r.buf) : r.buf[k].addr > r.p.addr

\* The fields of a sort.
LEMMA SortingIs ==
    ASSUME NEW r \in Sorting
    PROVE  /\ r.buf \in Seq(Row) /\ r.lo \in 1 .. r.hi /\ r.hi \in r.lo .. Len(r.buf)
           /\ r.p \in Row /\ r.lo \in Nat /\ r.hi \in Nat /\ Len(r.buf) \in Nat
  BY DEF Sorting

\* c is a with its places permuted by s, and back by t.
Permutes(a, c, n, s, t) ==
    /\ Len(a) = n /\ Len(c) = n
    /\ s \in [1 .. n -> 1 .. n] /\ t \in [1 .. n -> 1 .. n]
    /\ \A k \in 1 .. n : t[s[k]] = k /\ s[t[k]] = k
    /\ \A k \in 1 .. n : c[k] = a[s[k]]

\* What a permutation of the places leaves alone.
LEMMA Permuted ==
    ASSUME NEW a, NEW c, NEW n, NEW s, NEW t, Permutes(a, c, n, s, t)
    PROVE  (Distinct(a) => Distinct(c)) /\ Rows(c) = Rows(a)
<1> USE DEF Permutes
<1>1. ASSUME Distinct(a)  PROVE Distinct(c)
  <2> SUFFICES ASSUME NEW k \in 1 .. n, NEW l \in 1 .. n, c[k].addr = c[l].addr  PROVE k = l
    BY DEF Distinct
  <2>1. s[k] \in 1 .. n /\ s[l] \in 1 .. n /\ a[s[k]].addr = a[s[l]].addr
    OBVIOUS
  <2>2. s[k] = s[l]
    BY <1>1, <2>1 DEF Distinct
  <2> QED BY <2>2
<1>2. ASSUME NEW x \in Rows(c)  PROVE x \in Rows(a)
  <2>1. PICK k \in 1 .. n : x = c[k]
    BY DEF Rows
  <2>2. s[k] \in 1 .. n /\ x = a[s[k]]
    BY <2>1
  <2> QED BY <2>2 DEF Rows
<1>3. ASSUME NEW x \in Rows(a)  PROVE x \in Rows(c)
  <2>1. PICK k \in 1 .. n : x = a[k]
    BY DEF Rows
  <2>2. t[k] \in 1 .. n /\ s[t[k]] = k
    OBVIOUS
  <2>3. c[t[k]] = x
    BY <2>1, <2>2
  <2> QED BY <2>2, <2>3 DEF Rows
<1> QED BY <1>1, <1>2, <1>3

\* A round moves the hole and rearranges the rows.
LEMMA SweptKeeps ==
    ASSUME NEW r \in Sorting, r.lo # r.hi
    PROVE  /\ Swept(r) \in Sorting
           /\ Swept(r).hi - Swept(r).lo < r.hi - r.lo
           /\ Len(Swept(r).buf) = Len(r.buf)
           /\ Parting(r) => Parting(Swept(r)) /\ Rows(Filled(Swept(r))) = Rows(Filled(r))
<1>1. PICK h, l \in Nat : Meets(r, h, l)
        /\ Swept(r) = [buf |-> Moved(r, h, l), lo |-> l, hi |-> h, p |-> r.p]
  BY SweptIs
<1> DEFINE b == r.buf
           i == r.lo
           j == r.hi
           p == r.p
           m == Moved(r, h, l)
           n == Len(b)
<1>2. b \in Seq(Row) /\ i \in 1 .. n /\ j \in i .. n /\ i < j /\ p \in Row /\ n \in Nat
  BY SortingIs
<1>3. /\ h \in i .. j /\ l \in i .. h
      /\ h = i \/ b[h].addr < p.addr
      /\ \A k \in h + 1 .. j : ~(b[k].addr < p.addr)
      /\ l = h \/ (l # i /\ b[l].addr > p.addr)
      /\ \A k \in i .. l - 1 : k = i \/ ~(b[k].addr > p.addr)
  BY <1>1 DEF Meets
<1>4. /\ m \in Seq(Row) /\ Len(m) = n
      /\ \A k \in 1 .. n : m[k] = IF k = h THEN (IF l = i THEN b[h] ELSE b[l])
                                  ELSE IF k = i THEN b[h] ELSE b[k]
  <2> DEFINE m1 == [b EXCEPT ![i] = b[h]]
             x == IF l = i THEN b[h] ELSE b[l]
  <2>1. h \in 1 .. n /\ l \in 1 .. n
    BY <1>2, <1>3
  <2>2. b[h] \in Row /\ b[l] \in Row
    BY <1>2, <2>1
  <2>3. x \in Row
    BY <2>2
  <2>4. m1 \in Seq(Row) /\ Len(m1) = n /\ \A k \in 1 .. n : m1[k] = IF k = i THEN b[h] ELSE b[k]
    <3> HIDE DEF b, i
    <3> QED BY <1>2, <2>2, Replaced
  <2>5. m = [m1 EXCEPT ![h] = x]
    BY DEF Moved
  <2> HIDE DEF b, i, m1, m, x
  <2>6. m \in Seq(Row) /\ Len(m) = n /\ \A k \in 1 .. n : m[k] = IF k = h THEN x ELSE m1[k]
    BY <2>1, <2>3, <2>4, <2>5, Replaced
  <2> QED BY <2>4, <2>6 DEF x
<1>5. Swept(r) = [buf |-> m, lo |-> l, hi |-> h, p |-> p]
  BY <1>1
<1>6. Filled(r) = [b EXCEPT ![i] = p]
  BY DEF Filled
<1>7. Parting(r) <=> /\ Distinct(Filled(r))
                     /\ \A k \in 1 .. i - 1 : b[k].addr < p.addr
                     /\ \A k \in j + 1 .. n : b[k].addr > p.addr
  BY DEF Parting
<1> HIDE DEF b, i, j, p, m
<1>8. Swept(r) \in Sorting
  BY <1>2, <1>3, <1>4, <1>5 DEF Sorting
<1>9. Swept(r).hi - Swept(r).lo < j - i
  <2>1. h = i => l = i
    BY <1>2, <1>3
  <2>2. h # i => l # i
    BY <1>2, <1>3
  <2> QED BY <1>2, <1>3, <1>5, <2>1, <2>2
<1>10. Len(Swept(r).buf) = n
  BY <1>4, <1>5
<1>11. ASSUME Parting(r)  PROVE Parting(Swept(r)) /\ Rows(Filled(Swept(r))) = Rows(Filled(r))
  <2> DEFINE a == Filled(r)
             c == Filled(Swept(r))
             s == [k \in 1 .. n |-> IF k = l THEN i ELSE IF k = h THEN l ELSE IF k = i THEN h ELSE k]
             t == [k \in 1 .. n |-> IF k = i THEN l ELSE IF k = h THEN i ELSE IF k = l THEN h ELSE k]
  <2>1. a \in Seq(Row) /\ Len(a) = n /\ \A k \in 1 .. n : a[k] = IF k = i THEN p ELSE b[k]
    BY <1>2, <1>6, Replaced
  <2>2. l \in 1 .. n /\ h \in 1 .. n
    BY <1>2, <1>3
  <2>3. c \in Seq(Row) /\ Len(c) = n /\ \A k \in 1 .. n : c[k] = IF k = l THEN p ELSE m[k]
    <3>1. c = [m EXCEPT ![l] = p]
      BY <1>5 DEF Filled
    <3> HIDE DEF c
    <3> QED BY <1>2, <1>4, <2>2, <3>1, Replaced
  <2>4. (l = i => h = i) /\ (h = i => l = i)
    BY <1>2, <1>3
  <2> HIDE DEF a, c
  <2>5. s \in [1 .. n -> 1 .. n] /\ t \in [1 .. n -> 1 .. n]
    BY <1>2, <2>2
  <2>6. \A k \in 1 .. n : t[s[k]] = k /\ s[t[k]] = k
    <3> SUFFICES ASSUME NEW k \in 1 .. n  PROVE t[s[k]] = k /\ s[t[k]] = k
      OBVIOUS
    <3>1. s[k] \in 1 .. n /\ t[k] \in 1 .. n
      BY <2>5
    <3>2. \A x \in 1 .. n : s[x] = IF x = l THEN i ELSE IF x = h THEN l ELSE IF x = i THEN h ELSE x
      OBVIOUS
    <3>3. \A x \in 1 .. n : t[x] = IF x = i THEN l ELSE IF x = h THEN i ELSE IF x = l THEN h ELSE x
      OBVIOUS
    <3> HIDE DEF s, t
    <3>4. i \in 1 .. n
      BY <1>2
    <3>5. t[s[k]] = k
      BY ONLY <2>2, <2>4, <3>2, <3>3, <3>4, k \in 1 .. n
    <3>6. s[t[k]] = k
      BY ONLY <2>2, <2>4, <3>2, <3>3, <3>4, k \in 1 .. n
    <3> QED BY <3>5, <3>6
  <2>7. \A k \in 1 .. n : c[k] = a[s[k]]
    <3> SUFFICES ASSUME NEW k \in 1 .. n  PROVE c[k] = a[s[k]]
      OBVIOUS
    <3>1. CASE k = l
      BY <1>2, <2>1, <2>3, <3>1
    <3>2. CASE k # l /\ k = h
      <4>1. s[k] = l /\ l # i
        BY <2>4, <3>2
      <4>2. m[k] = b[l]
        BY <1>4, <2>2, <3>2, <4>1
      <4> QED BY <2>1, <2>2, <2>3, <3>2, <4>1, <4>2
    <3>3. CASE k # l /\ k # h /\ k = i
      <4>1. s[k] = h /\ h # i
        BY <3>3
      <4>2. m[k] = b[h]
        BY <1>4, <3>3
      <4> QED BY <2>1, <2>2, <2>3, <3>3, <4>1, <4>2
    <3>4. CASE k # l /\ k # h /\ k # i
      <4>1. s[k] = k
        BY <3>4
      <4>2. m[k] = b[k]
        BY <1>4, <3>4
      <4> QED BY <2>1, <2>3, <3>4, <4>1, <4>2
    <3> QED BY <3>1, <3>2, <3>3, <3>4
  <2> HIDE DEF s, t, n
  <2>8. (Distinct(a) => Distinct(c)) /\ Rows(c) = Rows(a)
    <3>1. n \in Nat /\ Len(a) = n /\ Len(c) = n
      BY <1>2, <2>1, <2>3
    <3>2. Permutes(a, c, n, s, t)
      BY ONLY <2>5, <2>6, <2>7, <3>1 DEF Permutes
    <3> QED BY ONLY <3>2, Permuted
  <2>9. ASSUME NEW k \in i + 1 .. n  PROVE b[k].addr # p.addr
    <3>1. k \in 1 .. n /\ i \in 1 .. n /\ k # i
      BY <1>2
    <3>2. a[k] = b[k] /\ a[i] = p
      BY <2>1, <3>1
    <3> QED BY <1>7, <1>11, <2>1, <3>1, <3>2 DEF Distinct, a
  <2>10. \A k \in 1 .. n : b[k].addr \in Int
    <3>1. \A k \in 1 .. n : b[k] \in Row
      BY <1>2 DEF n
    <3> QED BY <3>1 DEF Row
  <2>11. p.addr \in Int
    BY <1>2 DEF Row
  <2>12. ASSUME NEW k \in 1 .. l - 1  PROVE m[k].addr < p.addr
    <3>1. k \in 1 .. n /\ k # h
      BY <1>2, <1>3
    <3>2. CASE k \in 1 .. i - 1
      <4>1. m[k] = b[k]
        BY <1>2, <1>4, <3>1, <3>2
      <4> QED BY <1>7, <1>11, <3>2, <4>1
    <3>3. CASE k = i
      <4>1. h # i /\ m[k] = b[h]
        BY <1>4, <3>1, <3>3
      <4> QED BY <1>3, <4>1
    <3>4. CASE k \in i + 1 .. l - 1
      <4>1. m[k] = b[k] /\ ~(b[k].addr > p.addr) /\ k \in i + 1 .. n
        BY <1>2, <1>3, <1>4, <3>1, <3>4
      <4> QED BY <2>9, <2>10, <2>11, <3>1, <4>1
    <3> QED BY <1>2, <1>3, <3>2, <3>3, <3>4
  <2>13. ASSUME NEW k \in h + 1 .. n  PROVE m[k].addr > p.addr
    <3>1. k \in 1 .. n /\ k # h /\ k # i /\ k \in i + 1 .. n
      BY <1>2, <1>3
    <3>2. m[k] = b[k]
      BY <1>4, <3>1
    <3>3. CASE k \in j + 1 .. n
      BY <1>7, <1>11, <3>2, <3>3
    <3>4. CASE k \in h + 1 .. j
      <4>1. ~(b[k].addr < p.addr)
        BY <1>3, <3>4
      <4> QED BY <2>9, <2>10, <2>11, <3>1, <3>2, <4>1
    <3> QED BY <1>2, <1>3, <3>3, <3>4
  <2>14. Distinct(a)
    BY <1>7, <1>11 DEF a
  <2>15. Parting(Swept(r))
    <3>1. /\ Swept(r).buf = m /\ Swept(r).lo = l /\ Swept(r).hi = h /\ Swept(r).p = p
      BY <1>5
    <3> QED BY <1>4, <2>8, <2>12, <2>13, <2>14, <3>1 DEF Parting, c
  <2> QED BY <2>8, <2>15 DEF a, c
<1> QED BY <1>8, <1>9, <1>10, <1>11 DEF i, j, b

\* The rounds one after the other.
HoleIs(g) == g = [r \in Sorting |-> IF r.lo = r.hi THEN [r EXCEPT !.buf[r.lo] = r.p] ELSE g[Swept(r)]]

\* What a sort is with the hole filled.
LEMMA FilledIs ==
    ASSUME NEW r \in Sorting
    PROVE  /\ [r EXCEPT !.buf[r.lo] = r.p] \in Sorting
           /\ [r EXCEPT !.buf[r.lo] = r.p].buf = Filled(r)
           /\ [r EXCEPT !.buf[r.lo] = r.p].lo = r.lo
           /\ [r EXCEPT !.buf[r.lo] = r.p].hi = r.hi
           /\ Filled(r) \in Seq(Row) /\ Len(Filled(r)) = Len(r.buf)
           /\ \A k \in 1 .. Len(r.buf) : Filled(r)[k] = IF k = r.lo THEN r.p ELSE r.buf[k]
<1> DEFINE q == [r EXCEPT !.buf[r.lo] = r.p]
<1>1. /\ r.buf \in Seq(Row) /\ r.lo \in 1 .. Len(r.buf) /\ r.p \in Row
      /\ r.lo \in Nat /\ r.hi \in Nat /\ Len(r.buf) \in Nat /\ r.lo <= r.hi /\ r.hi <= Len(r.buf)
  BY SortingIs
<1>2. /\ Filled(r) \in Seq(Row) /\ Len(Filled(r)) = Len(r.buf)
      /\ \A k \in 1 .. Len(r.buf) : Filled(r)[k] = IF k = r.lo THEN r.p ELSE r.buf[k]
  BY <1>1, Replaced DEF Filled
<1>3. r = [buf |-> r.buf, lo |-> r.lo, hi |-> r.hi, p |-> r.p]
  BY DEF Sorting
<1>4. q = [r EXCEPT !.buf = Filled(r)]
  BY DEF Filled
<1>5. q = [buf |-> Filled(r), lo |-> r.lo, hi |-> r.hi, p |-> r.p]
  <2> HIDE DEF q
  <2> QED BY <1>3, <1>4
<1> HIDE DEF q
<1>6. q \in Sorting
  BY <1>1, <1>2, <1>5 DEF Sorting
<1>7. q.buf = Filled(r) /\ q.lo = r.lo /\ q.hi = r.hi
  BY <1>5
<1> QED BY <1>2, <1>6, <1>7 DEF q

\* They come to an end.
LEMMA HoleExists == Hole \in [Sorting -> Sorting] /\ HoleIs(Hole)
<1> DEFINE Stop == {r \in Sorting : r.lo = r.hi}
           val == [r \in Sorting |-> [r EXCEPT !.buf[r.lo] = r.p]]
           next == [r \in Sorting |-> Swept(r)]
           m == [r \in Sorting |-> r.hi - r.lo]
<1>1. val \in [Sorting -> Sorting]
  BY FilledIs
<1>2. m \in [Sorting -> Nat]
  <2> SUFFICES ASSUME NEW r \in Sorting  PROVE r.hi - r.lo \in Nat
    OBVIOUS
  <2>1. r.lo \in Nat /\ r.hi \in Nat /\ r.lo <= r.hi
    BY SortingIs
  <2> QED BY <2>1
<1>3. ASSUME NEW r \in Sorting, r \notin Stop  PROVE next[r] \in Sorting /\ m[next[r]] < m[r]
  <2>1. r.lo # r.hi
    BY <1>3
  <2>2. next[r] = Swept(r)
    OBVIOUS
  <2>3. Swept(r) \in Sorting /\ Swept(r).hi - Swept(r).lo < r.hi - r.lo
    BY <2>1, SweptKeeps
  <2>4. m[Swept(r)] = Swept(r).hi - Swept(r).lo /\ m[r] = r.hi - r.lo
    BY <2>3
  <2> QED BY <2>2, <2>3, <2>4
<1>4. \A r \in Sorting : val[r] = [r EXCEPT !.buf[r.lo] = r.p] /\ next[r] = Swept(r)
  OBVIOUS
<1>5. \A r \in Sorting : r \in Stop <=> r.lo = r.hi
  OBVIOUS
<1> HIDE DEF Stop, val, next, m
<1>6. PICK g \in [Sorting -> Sorting] : RunsOn(g, Sorting, Stop, val, next)
  BY <1>1, <1>2, <1>3, RunDefines
<1>7. ASSUME NEW r \in Sorting
      PROVE  g[r] = IF r.lo = r.hi THEN [r EXCEPT !.buf[r.lo] = r.p] ELSE g[Swept(r)]
  <2>1. g[r] = IF r \in Stop THEN val[r] ELSE g[next[r]]
    BY <1>6 DEF RunsOn
  <2> QED BY <1>4, <1>5, <2>1
<1>8. g = [r \in Sorting |-> g[r]]
  BY <1>6
<1>9. HoleIs(g)
  BY <1>7, <1>8, Zenon DEF HoleIs
<1>10. Hole = CHOOSE f : HoleIs(f)
  BY Zenon DEF Hole, HoleIs
<1>11. HoleIs(Hole)
  BY <1>9, <1>10, Zenon
<1> DEFINE T == {n \in Nat : \A r \in Sorting : m[r] <= n => Hole[r] = g[r]}
<1>12. \A r \in Sorting : Hole[r] = IF r.lo = r.hi THEN [r EXCEPT !.buf[r.lo] = r.p] ELSE Hole[Swept(r)]
  BY <1>11, Zenon DEF HoleIs
<1>13. \A r \in Sorting : r.lo # r.hi => Swept(r) \in Sorting /\ m[Swept(r)] < m[r] /\ m[Swept(r)] \in Nat
  BY <1>2, <1>3, <1>4, <1>5
<1>14. T = Nat
  <2>1. 0 \in T
    <3> SUFFICES ASSUME NEW r \in Sorting, m[r] <= 0  PROVE Hole[r] = g[r]
      OBVIOUS
    <3>1. m[r] \in Nat
      BY <1>2
    <3>2. r.lo = r.hi
      BY <1>13, <3>1
    <3> QED BY <1>7, <1>12, <3>2
  <2>2. ASSUME NEW n \in T  PROVE n + 1 \in T
    <3>0. n \in Nat /\ n + 1 \in Nat
      OBVIOUS
    <3> SUFFICES ASSUME NEW r \in Sorting, m[r] <= n + 1  PROVE Hole[r] = g[r]
      BY <3>0
    <3>1. m[r] \in Nat
      BY <1>2
    <3>2. r.lo # r.hi => Hole[Swept(r)] = g[Swept(r)]
      <4> SUFFICES ASSUME r.lo # r.hi  PROVE Hole[Swept(r)] = g[Swept(r)]
        OBVIOUS
      <4>1. Swept(r) \in Sorting /\ m[Swept(r)] <= n
        BY <1>13, <3>0, <3>1
      <4> QED BY <4>1
    <3> QED BY <1>7, <1>12, <3>2
  <2>3. T \in SUBSET Nat
    OBVIOUS
  <2> HIDE DEF T
  <2> QED BY <2>1, <2>2, <2>3, Induction
<1>15. ASSUME NEW r \in Sorting  PROVE Hole[r] \in Sorting
  <2>1. m[r] \in T /\ m[r] <= m[r]
    BY <1>2, <1>14
  <2>2. Hole[r] = g[r]
    BY <2>1
  <2> QED BY <1>6, <2>2
<1>16. Hole = [r \in Sorting |-> Hole[r]]
  BY <1>11, <1>12, Zenon DEF HoleIs
<1> QED BY <1>11, <1>15, <1>16

\* At the end: the rows of a, those on the left of hi below the one there, and the others
\* above.
Parted(q, a) ==
    /\ Rows(q.buf) = Rows(a) /\ Distinct(q.buf)
    /\ \A k \in 1 .. q.hi - 1 : q.buf[k].addr < q.buf[q.hi].addr
    /\ \A k \in q.hi + 1 .. Len(q.buf) : q.buf[k].addr > q.buf[q.hi].addr

\* The rounds leave the table parted.
LEMMA HoleParts ==
    ASSUME NEW r \in Sorting
    PROVE  /\ Hole[r] \in Sorting /\ Len(Hole[r].buf) = Len(r.buf)
           /\ Parting(r) => Parted(Hole[r], Filled(r))
<1> DEFINE Good(x) == Len(Hole[x].buf) = Len(x.buf) /\ (Parting(x) => Parted(Hole[x], Filled(x)))
           T == {n \in Nat : \A x \in Sorting : x.hi - x.lo <= n => Good(x)}
<1>1. Hole \in [Sorting -> Sorting]
  BY HoleExists
<1>2. ASSUME NEW x \in Sorting
      PROVE  Hole[x] = IF x.lo = x.hi THEN [x EXCEPT !.buf[x.lo] = x.p] ELSE Hole[Swept(x)]
  BY HoleExists, Zenon DEF HoleIs
<1>3. ASSUME NEW x \in Sorting, x.lo = x.hi  PROVE Good(x)
  <2>1. Hole[x].buf = Filled(x) /\ Hole[x].hi = x.lo
    BY <1>2, <1>3, FilledIs
  <2>2. Len(Filled(x)) = Len(x.buf)
        /\ \A k \in 1 .. Len(x.buf) : Filled(x)[k] = IF k = x.lo THEN x.p ELSE x.buf[k]
    BY FilledIs
  <2>3. x.lo \in 1 .. Len(x.buf) /\ Len(x.buf) \in Nat
    BY SortingIs
  <2>4. ASSUME Parting(x)  PROVE Parted(Hole[x], Filled(x))
    <3>1. Distinct(Filled(x))
      BY <2>4 DEF Parting
    <3>2. ASSUME NEW k \in 1 .. x.lo - 1  PROVE Filled(x)[k].addr < Filled(x)[x.lo].addr
      <4>1. x.buf[k].addr < x.p.addr
        BY <2>4 DEF Parting
      <4>2. Filled(x)[k] = x.buf[k] /\ Filled(x)[x.lo] = x.p
        BY <2>2, <2>3
      <4> QED BY <4>1, <4>2
    <3>3. ASSUME NEW k \in x.lo + 1 .. Len(x.buf)  PROVE Filled(x)[k].addr > Filled(x)[x.lo].addr
      <4>1. x.buf[k].addr > x.p.addr
        BY <1>3, <2>4 DEF Parting
      <4>2. Filled(x)[k] = x.buf[k] /\ Filled(x)[x.lo] = x.p
        BY <2>2, <2>3
      <4> QED BY <4>1, <4>2
    <3> QED BY <2>1, <2>2, <3>1, <3>2, <3>3 DEF Parted
  <2> QED BY <2>1, <2>2, <2>4
<1>4. ASSUME NEW x \in Sorting, x.lo # x.hi, Good(Swept(x))  PROVE Good(x)
  <2>1. Hole[x] = Hole[Swept(x)]
    BY <1>2, <1>4
  <2>2. Len(Swept(x).buf) = Len(x.buf)
        /\ (Parting(x) => Parting(Swept(x)) /\ Rows(Filled(Swept(x))) = Rows(Filled(x)))
    BY <1>4, SweptKeeps
  <2>3. ASSUME Parting(x)  PROVE Parted(Hole[x], Filled(x))
    <3>1. Parted(Hole[x], Filled(Swept(x))) /\ Rows(Filled(Swept(x))) = Rows(Filled(x))
      BY <1>4, <2>1, <2>2, <2>3
    <3> QED BY <3>1 DEF Parted
  <2> QED BY <1>4, <2>1, <2>2, <2>3
<1> HIDE DEF Good
<1>5. T = Nat
  <2>0. ASSUME NEW x \in Sorting  PROVE x.lo \in Nat /\ x.hi \in Nat /\ x.lo <= x.hi
    BY SortingIs
  <2>1. 0 \in T
    <3> SUFFICES ASSUME NEW x \in Sorting, x.hi - x.lo <= 0  PROVE Good(x)
      OBVIOUS
    <3>1. x.lo = x.hi
      BY <2>0
    <3> QED BY <1>3, <3>1
  <2>2. ASSUME NEW n \in T  PROVE n + 1 \in T
    <3>0. n \in Nat /\ n + 1 \in Nat
      OBVIOUS
    <3> SUFFICES ASSUME NEW x \in Sorting, x.hi - x.lo <= n + 1  PROVE Good(x)
      BY <3>0
    <3>1. CASE x.lo = x.hi
      BY <1>3, <3>1
    <3>2. CASE x.lo # x.hi
      <4>1. Swept(x) \in Sorting /\ Swept(x).hi - Swept(x).lo < x.hi - x.lo
        BY <3>2, SweptKeeps
      <4>2. Swept(x).hi - Swept(x).lo <= n
        <5>1. /\ Swept(x).lo \in Nat /\ Swept(x).hi \in Nat /\ x.lo \in Nat /\ x.hi \in Nat
          BY <2>0, <4>1
        <5> QED BY <3>0, <4>1, <5>1
      <4>3. Good(Swept(x))
        BY <4>1, <4>2
      <4> QED BY <1>4, <3>2, <4>3
    <3> QED BY <3>1, <3>2
  <2>3. T \in SUBSET Nat
    OBVIOUS
  <2> HIDE DEF T
  <2> QED BY <2>1, <2>2, <2>3, Induction
<1>6. Good(r)
  <2>1. r.hi - r.lo \in Nat
    <3>1. r.lo \in Nat /\ r.hi \in Nat /\ r.lo <= r.hi
      BY SortingIs
    <3> QED BY <3>1
  <2>2. r.hi - r.lo \in T /\ r.hi - r.lo <= r.hi - r.lo
    BY <1>5, <2>1
  <2> QED BY <2>2
<1> QED BY <1>1, <1>6 DEF Good

\* known_sort on more than two rows: the first of them put in its place, and what is on
\* its left and on its right.
Split(b) == Hole[[buf |-> b, lo |-> 1, hi |-> Len(b), p |-> b[1]]]
Left(b) == SubSeq(Split(b).buf, 1, Split(b).hi - 1)
Right(b) == SubSeq(Split(b).buf, Split(b).hi + 1, Len(b))
Middle(b) == Split(b).buf[Split(b).hi]

\* A part of a sequence.
LEMMA SubSeqIs ==
    ASSUME NEW S, NEW b \in Seq(S), NEW i \in 1 .. Len(b) + 1, NEW j \in i - 1 .. Len(b)
    PROVE  /\ SubSeq(b, i, j) \in Seq(S) /\ Len(SubSeq(b, i, j)) = j - i + 1
           /\ \A k \in 1 .. j - i + 1 : SubSeq(b, i, j)[k] = b[i + k - 1]
  OBVIOUS

\* The parts of the table.
LEMMA SplitIs ==
    ASSUME NEW b \in Seq(Row), Len(b) >= 1
    PROVE  /\ Split(b).buf \in Seq(Row) /\ Len(Split(b).buf) = Len(b)
           /\ Split(b).hi \in 1 .. Len(b) /\ Middle(b) \in Row
           /\ Left(b) \in Seq(Row) /\ Len(Left(b)) = Split(b).hi - 1
           /\ \A k \in 1 .. Split(b).hi - 1 : Left(b)[k] = Split(b).buf[k]
           /\ Right(b) \in Seq(Row) /\ Len(Right(b)) = Len(b) - Split(b).hi
           /\ \A k \in 1 .. Len(b) - Split(b).hi : Right(b)[k] = Split(b).buf[Split(b).hi + k]
           /\ Distinct(b) => Parted(Split(b), b)
<1> DEFINE r == [buf |-> b, lo |-> 1, hi |-> Len(b), p |-> b[1]]
           n == Len(b)
           c == Split(b).buf
           h == Split(b).hi
<1>1. n \in Nat /\ b[1] \in Row /\ 1 \in 1 .. n
  OBVIOUS
<1>2. r \in Sorting /\ r.buf = b /\ r.lo = 1 /\ r.hi = n /\ r.p = b[1]
  BY <1>1 DEF Sorting
<1>3. Split(b) = Hole[r]
  BY DEF Split
<1> HIDE DEF r
<1>4. Split(b) \in Sorting /\ Len(c) = n /\ (Parting(r) => Parted(Split(b), Filled(r)))
  BY <1>2, <1>3, HoleParts
<1>5. c \in Seq(Row) /\ h \in 1 .. n
  BY <1>4, SortingIs
<1>6. ASSUME Distinct(b)  PROVE Parted(Split(b), b)
  <2>1. Filled(r) = b
    <3>1. Filled(r) = [b EXCEPT ![1] = b[1]]
      BY <1>2 DEF Filled
    <3> QED BY <1>1, <3>1
  <2>2. Parting(r)
    BY <1>1, <1>2, <1>6, <2>1 DEF Parting
  <2> QED BY <1>4, <2>1, <2>2
<1>7. Left(b) = SubSeq(c, 1, h - 1) /\ Right(b) = SubSeq(c, h + 1, n) /\ Middle(b) = c[h]
  BY DEF Left, Right, Middle
<1>8. /\ Left(b) \in Seq(Row) /\ Len(Left(b)) = h - 1
      /\ \A k \in 1 .. h - 1 : Left(b)[k] = c[k]
  <2> HIDE DEF c, h, n
  <2>1. 1 \in 1 .. Len(c) + 1 /\ h - 1 \in 1 - 1 .. Len(c)
    BY <1>1, <1>4, <1>5
  <2>2. /\ SubSeq(c, 1, h - 1) \in Seq(Row) /\ Len(SubSeq(c, 1, h - 1)) = h - 1 - 1 + 1
        /\ \A k \in 1 .. h - 1 - 1 + 1 : SubSeq(c, 1, h - 1)[k] = c[1 + k - 1]
    BY <1>5, <2>1, SubSeqIs
  <2> QED BY <1>5, <1>7, <2>2
<1>9. /\ Right(b) \in Seq(Row) /\ Len(Right(b)) = n - h
      /\ \A k \in 1 .. n - h : Right(b)[k] = c[h + k]
  <2> HIDE DEF c, h, n
  <2>1. h + 1 \in 1 .. Len(c) + 1 /\ n \in (h + 1) - 1 .. Len(c)
    BY <1>1, <1>4, <1>5
  <2>2. /\ SubSeq(c, h + 1, n) \in Seq(Row) /\ Len(SubSeq(c, h + 1, n)) = n - (h + 1) + 1
        /\ \A k \in 1 .. n - (h + 1) + 1 : SubSeq(c, h + 1, n)[k] = c[(h + 1) + k - 1]
    BY <1>5, <2>1, SubSeqIs
  <2> QED BY <1>1, <1>5, <1>7, <2>2
<1>10. Middle(b) \in Row
  <2> HIDE DEF c, h, n
  <2> QED BY <1>4, <1>5, <1>7
<1> QED BY <1>4, <1>5, <1>6, <1>8, <1>9, <1>10

\* One call of known_sort, whose own calls are answered by f.
Sort(f, b) ==
    IF Len(b) <= 1 THEN b
    ELSE IF Len(b) = 2
    THEN IF b[1].addr < b[2].addr THEN b ELSE <<b[2], b[1]>>
    ELSE f[Left(b)] \o <<Middle(b)>> \o f[Right(b)]
SortIs(f) == f = [b \in Seq(Row) |-> Sort(f, b)]

\* Three parts of a table, one after the other.
LEMMA Joined ==
    ASSUME NEW S, NEW a \in Seq(S), NEW x \in S, NEW c \in Seq(S), NEW b, b = a \o <<x>> \o c
    PROVE  /\ b \in Seq(S) /\ Len(b) = Len(a) + 1 + Len(c)
           /\ \A k \in 1 .. Len(a) : b[k] = a[k]
           /\ b[Len(a) + 1] = x
           /\ \A k \in 1 .. Len(c) : b[Len(a) + 1 + k] = c[k]
<1> DEFINE d == a \o <<x>>
<1>1. /\ d \in Seq(S) /\ Len(d) = Len(a) + 1 /\ Len(a) \in Nat
      /\ \A k \in 1 .. Len(a) : d[k] = a[k]
      /\ d[Len(a) + 1] = x
  OBVIOUS
<1>0. b = d \o c
  OBVIOUS
<1> HIDE DEF d
<1>2. /\ b \in Seq(S) /\ Len(b) = Len(d) + Len(c) /\ Len(c) \in Nat
      /\ \A k \in 1 .. Len(d) : b[k] = d[k]
      /\ \A k \in 1 .. Len(c) : b[Len(d) + k] = c[k]
  BY <1>0, <1>1
<1>3. \A k \in 1 .. Len(a) : k \in 1 .. Len(d)
  BY <1>1
<1>4. Len(a) + 1 \in 1 .. Len(d)
  BY <1>1
<1>5. /\ b \in Seq(S) /\ Len(b) = Len(a) + 1 + Len(c)
      /\ \A k \in 1 .. Len(a) : b[k] = a[k]
      /\ b[Len(a) + 1] = x
      /\ \A k \in 1 .. Len(c) : b[Len(a) + 1 + k] = c[k]
  BY <1>1, <1>2, <1>3, <1>4
<1> QED BY <1>5

\* A call gives a table if its own calls do, and depends on them only.
LEMMA SortTypes ==
    ASSUME NEW f, NEW b \in Seq(Row)
    PROVE  /\ (Len(b) > 2 => f[Left(b)] \in Seq(Row) /\ f[Right(b)] \in Seq(Row)) => Sort(f, b) \in Seq(Row)
           /\ \A g : (Len(b) > 2 => f[Left(b)] = g[Left(b)] /\ f[Right(b)] = g[Right(b)])
                     => Sort(f, b) = Sort(g, b)
<1>0. Len(b) \in Nat
  OBVIOUS
<1>a. \A n \in Nat : n <= 1 \/ n = 2 \/ n > 2
  OBVIOUS
<1>b. \A n \in Nat : n > 2 => ~(n <= 1) /\ n # 2 /\ n >= 1
  OBVIOUS
<1>1. CASE Len(b) <= 1
  BY <1>1 DEF Sort
<1>2. CASE Len(b) = 2
  <2>0. ~(Len(b) <= 1)
    BY <1>2
  <2>1. 1 \in 1 .. Len(b) /\ 2 \in 1 .. Len(b)
    BY <1>2
  <2>2. <<b[2], b[1]>> \in Seq(Row)
    BY <2>1
  <2> QED BY <1>2, <2>0, <2>2 DEF Sort
<1>3. CASE Len(b) > 2
  <2>0. ~(Len(b) <= 1) /\ Len(b) # 2 /\ Len(b) >= 1
    BY <1>0, <1>b, <1>3
  <2>1. \A g : Sort(g, b) = g[Left(b)] \o <<Middle(b)>> \o g[Right(b)]
    BY <2>0, Zenon DEF Sort
  <2>2. Middle(b) \in Row
    BY <2>0, SplitIs
  <2>3. ASSUME f[Left(b)] \in Seq(Row), f[Right(b)] \in Seq(Row)
        PROVE  f[Left(b)] \o <<Middle(b)>> \o f[Right(b)] \in Seq(Row)
    BY <2>2, <2>3, Joined
  <2> QED BY <1>3, <2>1, <2>3
<1> QED BY <1>0, <1>a, <1>1, <1>2, <1>3

\* The parts of a table are shorter than it is.
LEMMA PartsAreShorter ==
    ASSUME NEW b \in Seq(Row), Len(b) > 2
    PROVE  /\ Left(b) \in Seq(Row) /\ Right(b) \in Seq(Row)
           /\ Len(Left(b)) < Len(b) /\ Len(Right(b)) < Len(b)
           /\ Len(Left(b)) \in Nat /\ Len(Right(b)) \in Nat
<1>1. Len(b) \in Nat /\ Len(b) >= 1
  OBVIOUS
<1>2. /\ Left(b) \in Seq(Row) /\ Right(b) \in Seq(Row) /\ Split(b).hi \in 1 .. Len(b)
      /\ Len(Left(b)) = Split(b).hi - 1 /\ Len(Right(b)) = Len(b) - Split(b).hi
  BY <1>1, SplitIs
<1> QED BY <1>1, <1>2

\* The quicksort comes to an end.
LEMMA SortExists == SortIs(known_sort)
<1> DEFINE S == Seq(Row)
           m == [b \in S |-> Len(b)]
           a == [b \in S |-> b]
           E == [f \in [S -> S] |-> [b \in S |-> Sort(f, b)]]
<1>1. m \in [S -> Nat] /\ a \in [S -> S]
  OBVIOUS
<1>2. \A b \in S : m[b] = Len(b) /\ Len(b) \in Nat
  OBVIOUS
<1>3. \A f \in [S -> S] : E[f] = [b \in S |-> Sort(f, b)]
  OBVIOUS
<1>4. \A b \in S : Len(b) > 2 => Left(b) \in S /\ Right(b) \in S
                                 /\ Len(Left(b)) < Len(b) /\ Len(Right(b)) < Len(b)
  BY PartsAreShorter
<1>5. \A f : \A b \in S : (Len(b) > 2 => f[Left(b)] \in S /\ f[Right(b)] \in S) => Sort(f, b) \in S
  BY SortTypes
<1>6. \A f, g : \A b \in S : (Len(b) > 2 => f[Left(b)] = g[Left(b)] /\ f[Right(b)] = g[Right(b)])
                             => Sort(f, b) = Sort(g, b)
  BY SortTypes
<1> HIDE DEF S, m, a, E
<1>7. \A f \in [S -> S] : \A b \in S : Sort(f, b) \in S /\ E[f][b] = Sort(f, b)
  BY <1>3, <1>4, <1>5
<1>8. E \in [[S -> S] -> [S -> S]]
  <2>1. \A f \in [S -> S] : [b \in S |-> Sort(f, b)] \in [S -> S]
    BY <1>7
  <2> QED BY <2>1 DEF E
<1>9. ASSUME NEW f \in [S -> S], NEW g \in [S -> S], NEW b \in S,
             \A c \in S : m[c] < m[b] => f[c] = g[c]
      PROVE  E[f][b] = E[g][b]
  <2>1. Len(b) > 2 => f[Left(b)] = g[Left(b)] /\ f[Right(b)] = g[Right(b)]
    BY <1>2, <1>4, <1>9
  <2> QED BY <1>6, <1>7, <2>1
<1>10. \A f, g \in [S -> S] : \A b \in S :
         (\A c \in S : m[c] < m[b] => f[c] = g[c]) => E[f][b] = E[g][b]
  BY <1>9
<1>11. \E g \in [S -> S] : g = E[g]
  <2>1. LooksDown(E, [S -> S], S, m)
    BY <1>10, Zenon DEF LooksDown
  <2>2. \A D, T : \A n \in [D -> Nat] : \A c \in [D -> T] : \A J \in [[D -> T] -> [D -> T]] :
          LooksDown(J, [D -> T], D, n) => \E g \in [D -> T] : g = J[g]
    BY SmallerDefines, Zenon
  <2>3. \A n \in [S -> Nat] : \A c \in [S -> S] : \A J \in [[S -> S] -> [S -> S]] :
          LooksDown(J, [S -> S], S, n) => \E g \in [S -> S] : g = J[g]
    <3>1. \A T : \A n \in [S -> Nat] : \A c \in [S -> T] : \A J \in [[S -> T] -> [S -> T]] :
            LooksDown(J, [S -> T], S, n) => \E g \in [S -> T] : g = J[g]
      BY ONLY <2>2, Zenon
    <3> QED BY ONLY <3>1, Zenon
  <2>4. m \in [S -> Nat]
    BY <1>1
  <2>5. a \in [S -> S]
    BY <1>1
  <2>6. \A J \in [[S -> S] -> [S -> S]] :
          LooksDown(J, [S -> S], S, m) => \E g \in [S -> S] : g = J[g]
    BY ONLY <2>3, <2>4, <2>5
  <2> QED BY ONLY <1>8, <2>1, <2>6
<1>12. PICK g \in [S -> S] : g = E[g]
  BY <1>11
<1>13. SortIs(g)
  BY <1>3, <1>12, Zenon DEF SortIs, S
<1>14. known_sort = CHOOSE f : SortIs(f)
  BY Zenon DEF known_sort, SortIs, Sort, Left, Right, Middle, Split
<1> QED BY <1>13, <1>14, Zenon

\* A table with the rows of b, in ascending order.
SortOf(b, c) == c \in Seq(Row) /\ Len(c) = Len(b) /\ Rows(c) = Rows(b) /\ Ascending(c)

\* A call sorts if its own calls do.
LEMMA SortSorts ==
    ASSUME NEW f, NEW b \in Seq(Row), Distinct(b),
           Len(b) > 2 => /\ Distinct(Left(b)) => SortOf(Left(b), f[Left(b)])
                         /\ Distinct(Right(b)) => SortOf(Right(b), f[Right(b)])
    PROVE  SortOf(b, Sort(f, b))
<1>0. Len(b) \in Nat
  OBVIOUS
<1>a. \A n \in Nat : n <= 1 \/ n = 2 \/ n > 2
  OBVIOUS
<1>b. \A n \in Nat : n > 2 => ~(n <= 1) /\ n # 2 /\ n >= 1
  OBVIOUS
<1>1. CASE Len(b) <= 1
  <2>1. Sort(f, b) = b
    BY <1>1 DEF Sort
  <2>2. Ascending(b)
    BY <1>0, <1>1 DEF Ascending
  <2> QED BY <2>1, <2>2 DEF SortOf
<1>2. CASE Len(b) = 2
  <2>0. ~(Len(b) <= 1)
    BY <1>2
  <2>1. b[1] \in Row /\ b[2] \in Row /\ 1 \in 1 .. Len(b) /\ 2 \in 1 .. Len(b)
    <3>1. 1 \in 1 .. Len(b) /\ 2 \in 1 .. Len(b)
      BY <1>2
    <3> QED BY <3>1
  <2>2. b[1].addr # b[2].addr /\ b[1].addr \in Int /\ b[2].addr \in Int
    BY <2>1 DEF Distinct, Row
  <2>3. CASE b[1].addr < b[2].addr
    <3>1. Sort(f, b) = b
      BY <1>2, <2>0, <2>3 DEF Sort
    <3>2. Ascending(b)
      <4> SUFFICES ASSUME NEW k \in 1 .. Len(b), NEW l \in 1 .. Len(b), k < l  PROVE b[k].addr < b[l].addr
        BY DEF Ascending
      <4>1. k = 1 /\ l = 2
        BY <1>2
      <4> QED BY <2>3, <4>1
    <3> QED BY <3>1, <3>2 DEF SortOf
  <2>4. CASE ~(b[1].addr < b[2].addr)
    <3> DEFINE c == <<b[2], b[1]>>
    <3>1. Sort(f, b) = c
      BY <1>2, <2>0, <2>4 DEF Sort
    <3>2. c \in Seq(Row) /\ Len(c) = 2 /\ c[1] = b[2] /\ c[2] = b[1]
      BY <2>1
    <3> HIDE DEF c
    <3>3. Ascending(c)
      <4> SUFFICES ASSUME NEW k \in 1 .. 2, NEW l \in 1 .. 2, k < l  PROVE c[k].addr < c[l].addr
        BY <3>2 DEF Ascending
      <4>1. k = 1 /\ l = 2
        OBVIOUS
      <4> QED BY <2>2, <2>4, <3>2, <4>1
    <3>4. \A s : Len(s) = 2 => Rows(s) = {s[1], s[2]}
      <4>1. 1 .. 2 = {1, 2}
        OBVIOUS
      <4> QED BY <4>1 DEF Rows
    <3>5. Rows(c) = {c[1], c[2]} /\ Rows(b) = {b[1], b[2]}
      BY <1>2, <3>2, <3>4
    <3> QED BY <1>2, <3>1, <3>2, <3>3, <3>5 DEF SortOf
  <2> QED BY <2>3, <2>4
<1>3. CASE Len(b) > 2
  <2> DEFINE n == Len(b)
             d == Split(b).buf
             h == Split(b).hi
             L == f[Left(b)]
             R == f[Right(b)]
             M == Middle(b)
             c == L \o <<M>> \o R
  <2>0. ~(n <= 1) /\ n # 2 /\ n >= 1
    BY <1>0, <1>b, <1>3
  <2>1. /\ d \in Seq(Row) /\ Len(d) = n /\ h \in 1 .. n /\ M \in Row
        /\ Left(b) \in Seq(Row) /\ Len(Left(b)) = h - 1
        /\ \A k \in 1 .. h - 1 : Left(b)[k] = d[k]
        /\ Right(b) \in Seq(Row) /\ Len(Right(b)) = n - h
        /\ \A k \in 1 .. n - h : Right(b)[k] = d[h + k]
        /\ Parted(Split(b), b)
    BY <2>0, SplitIs
  <2>2. Rows(d) = Rows(b) /\ Distinct(d) /\ M = d[h]
        /\ (\A k \in 1 .. h - 1 : d[k].addr < M.addr)
        /\ \A k \in h + 1 .. n : d[k].addr > M.addr
    BY <2>1 DEF Parted, Middle
  <2>3. Sort(f, b) = c
    BY <2>0, Zenon DEF Sort
  <2> HIDE DEF n, d, h
  <2>4. n \in Nat /\ h \in Nat
    BY <1>0, <2>1 DEF n
  <2>5. Distinct(Left(b))
    <3> SUFFICES ASSUME NEW k \in 1 .. h - 1, NEW l \in 1 .. h - 1, Left(b)[k].addr = Left(b)[l].addr
                 PROVE  k = l
      BY <2>1 DEF Distinct
    <3>1. k \in 1 .. n /\ l \in 1 .. n /\ d[k].addr = d[l].addr
      BY <2>1, <2>4
    <3> QED BY <2>1, <2>2, <3>1 DEF Distinct
  <2>6. Distinct(Right(b))
    <3> SUFFICES ASSUME NEW k \in 1 .. n - h, NEW l \in 1 .. n - h, Right(b)[k].addr = Right(b)[l].addr
                 PROVE  k = l
      BY <2>1 DEF Distinct
    <3>0. h + k \in 1 .. n /\ h + l \in 1 .. n
      <4>1. h \in 1 .. n
        BY <2>1
      <4> QED BY ONLY <2>4, <4>1
    <3>a. Right(b)[k] = d[h + k] /\ Right(b)[l] = d[h + l]
      BY <2>1
    <3>1. h + k \in 1 .. n /\ h + l \in 1 .. n /\ d[h + k].addr = d[h + l].addr
      BY <3>0, <3>a
    <3>2. h + k = h + l
      BY <2>1, <2>2, <3>1 DEF Distinct
    <3> QED BY <2>4, <3>2
  <2>7. /\ L \in Seq(Row) /\ Len(L) = h - 1 /\ Rows(L) = Rows(Left(b)) /\ Ascending(L)
        /\ R \in Seq(Row) /\ Len(R) = n - h /\ Rows(R) = Rows(Right(b)) /\ Ascending(R)
    BY <1>3, <2>1, <2>5, <2>6 DEF SortOf
  <2> HIDE DEF L, R, M
  <2>a. c = L \o <<M>> \o R
    OBVIOUS
  <2> HIDE DEF c
  <2>8. /\ c \in Seq(Row) /\ Len(c) = Len(L) + 1 + Len(R)
        /\ \A k \in 1 .. Len(L) : c[k] = L[k]
        /\ c[Len(L) + 1] = M
        /\ \A k \in 1 .. Len(R) : c[Len(L) + 1 + k] = R[k]
    <3>1. L \in Seq(Row) /\ R \in Seq(Row) /\ M \in Row
      BY <2>1, <2>7
    <3> QED BY ONLY <2>a, <3>1, Joined
  <2>9. /\ Len(c) = n
        /\ \A k \in 1 .. h - 1 : c[k] = L[k]
        /\ c[h] = M
        /\ \A k \in 1 .. n - h : c[h + k] = R[k]
    <3>1. Len(L) + 1 = h /\ Len(L) + 1 + Len(R) = n
      BY <2>4, <2>7
    <3> QED BY <2>7, <2>8, <3>1
  <2>10. \A x \in Rows(L) : \E k \in 1 .. h - 1 : x = d[k]
    <3> SUFFICES ASSUME NEW x \in Rows(Left(b))  PROVE \E k \in 1 .. h - 1 : x = d[k]
      BY <2>7
    <3>1. PICK k \in 1 .. Len(Left(b)) : x = Left(b)[k]
      BY DEF Rows
    <3> QED BY ONLY <2>1, <3>1
  <2>11. \A x \in Rows(R) : \E k \in 1 .. n - h : x = d[h + k]
    <3> SUFFICES ASSUME NEW x \in Rows(Right(b))  PROVE \E k \in 1 .. n - h : x = d[h + k]
      BY <2>7
    <3>1. PICK k \in 1 .. Len(Right(b)) : x = Right(b)[k]
      BY DEF Rows
    <3> QED BY ONLY <2>1, <3>1
  <2>12. \A k \in 1 .. h - 1 : d[k] \in Rows(L)
    <3> SUFFICES ASSUME NEW k \in 1 .. h - 1  PROVE d[k] \in Rows(Left(b))
      BY <2>7
    <3> QED BY <2>1 DEF Rows
  <2>13. \A k \in 1 .. n - h : d[h + k] \in Rows(R)
    <3> SUFFICES ASSUME NEW k \in 1 .. n - h  PROVE d[h + k] \in Rows(Right(b))
      BY <2>7
    <3> QED BY <2>1 DEF Rows
  <2>14. \A k \in 1 .. h - 1 : L[k] \in Rows(L)
    BY <2>7 DEF Rows
  <2>15. \A k \in 1 .. n - h : R[k] \in Rows(R)
    BY <2>7 DEF Rows
  <2>16. ASSUME NEW k \in 1 .. n
         PROVE  \/ k \in 1 .. h - 1 /\ c[k] = L[k]
                \/ k = h /\ c[k] = M
                \/ k - h \in 1 .. n - h /\ c[k] = R[k - h]
    <3>1. k \in 1 .. h - 1 \/ k = h \/ (k - h \in 1 .. n - h /\ h + (k - h) = k)
      BY <2>1, <2>4
    <3> QED BY <2>9, <3>1
  <2>17. \A k \in 1 .. h - 1 : L[k].addr < M.addr
    BY <2>2, <2>10, <2>14
  <2>18. \A k \in 1 .. n - h : R[k].addr > M.addr
    <3> SUFFICES ASSUME NEW k \in 1 .. n - h  PROVE R[k].addr > M.addr
      OBVIOUS
    <3>1. PICK l \in 1 .. n - h : R[k] = d[h + l]
      BY <2>11, <2>15
    <3>2. h + l \in h + 1 .. n
      BY <2>4, <2>1
    <3> QED BY <2>2, <3>1, <3>2
  <2>19. (\A k \in 1 .. h - 1 : L[k].addr \in Int) /\ M.addr \in Int /\ \A k \in 1 .. n - h : R[k].addr \in Int
    <3>1. (\A k \in 1 .. h - 1 : L[k] \in Row) /\ \A k \in 1 .. n - h : R[k] \in Row
      BY <2>7
    <3> QED BY <2>1, <3>1 DEF Row
  <2>20. Ascending(c)
    <3> SUFFICES ASSUME NEW k \in 1 .. n, NEW l \in 1 .. n, k < l  PROVE c[k].addr < c[l].addr
      BY <2>9 DEF Ascending
    <3>1. CASE k \in 1 .. h - 1 /\ l \in 1 .. h - 1
      BY <2>7, <2>9, <3>1 DEF Ascending
    <3>2. CASE k \in 1 .. h - 1 /\ l = h
      BY <2>9, <2>17, <3>2
    <3>3. CASE k \in 1 .. h - 1 /\ l - h \in 1 .. n - h
      <4>1. c[k] = L[k] /\ c[l] = R[l - h]
        BY <2>4, <2>16, <3>3
      <4>2. L[k].addr < M.addr /\ R[l - h].addr > M.addr
        BY <2>17, <2>18, <3>3
      <4> QED BY <2>19, <3>3, <4>1, <4>2
    <3>4. CASE k = h /\ l - h \in 1 .. n - h
      <4>1. c[k] = M /\ c[l] = R[l - h]
        BY <2>4, <2>16, <3>4
      <4>2. R[l - h].addr > M.addr
        BY <2>18, <3>4
      <4> QED BY <2>19, <3>4, <4>1, <4>2
    <3>5. CASE k - h \in 1 .. n - h /\ l - h \in 1 .. n - h
      <4>1. c[k] = R[k - h] /\ c[l] = R[l - h]
        BY <2>4, <2>16, <3>5
      <4>2. k - h < l - h
        BY <2>4
      <4> QED BY <2>7, <3>5, <4>1, <4>2 DEF Ascending
    <3> QED BY <2>4, <2>16, <3>1, <3>2, <3>3, <3>4, <3>5
  <2>21. ASSUME NEW x \in Rows(c)  PROVE x \in Rows(d)
    <3>1. PICK k \in 1 .. n : x = c[k]
      BY <2>9 DEF Rows
    <3>2. \E l \in 1 .. n : x = d[l]
      <4>1. CASE k \in 1 .. h - 1 /\ c[k] = L[k]
        <5>1. PICK l \in 1 .. h - 1 : x = d[l]
          BY <2>10, <2>14, <3>1, <4>1
        <5> QED BY <2>1, <2>4, <5>1
      <4>2. CASE k = h /\ c[k] = M
        BY <2>1, <2>2, <3>1, <4>2
      <4>3. CASE k - h \in 1 .. n - h /\ c[k] = R[k - h]
        <5>1. PICK l \in 1 .. n - h : x = d[h + l]
          BY <2>11, <2>15, <3>1, <4>3
        <5>2. h + l \in 1 .. n
          BY <2>1, <2>4
        <5> QED BY <5>1, <5>2
      <4> QED BY <2>16, <4>1, <4>2, <4>3
    <3> QED BY <2>1, <3>2 DEF Rows
  <2>22. ASSUME NEW x \in Rows(d)  PROVE x \in Rows(c)
    <3>1. PICK k \in 1 .. n : x = d[k]
      BY <2>1 DEF Rows
    <3>2. \E l \in 1 .. n : x = c[l]
      <4>1. CASE k \in 1 .. h - 1
        <5>1. PICK l \in 1 .. h - 1 : x = L[l]
          BY <2>7, <2>12, <3>1, <4>1 DEF Rows
        <5>2. l \in 1 .. n
          BY <2>1, <2>4
        <5> QED BY <2>9, <5>1, <5>2
      <4>2. CASE k = h
        BY <2>1, <2>2, <2>9, <3>1, <4>2
      <4>3. CASE k - h \in 1 .. n - h
        <5>0. h + (k - h) = k
          BY <2>4
        <5>1. PICK l \in 1 .. n - h : x = R[l]
          BY <2>7, <2>13, <3>1, <4>3, <5>0 DEF Rows
        <5>2. h + l \in 1 .. n
          BY <2>1, <2>4
        <5> QED BY <2>9, <5>1, <5>2
      <4>4. k \in 1 .. h - 1 \/ k = h \/ k - h \in 1 .. n - h
        BY <2>4, <2>1
      <4> QED BY <4>1, <4>2, <4>3, <4>4
    <3> QED BY <2>9, <3>2 DEF Rows
  <2>23. Rows(c) = Rows(b)
    BY <2>2, <2>21, <2>22
  <2> QED BY <2>3, <2>8, <2>9, <2>20, <2>23 DEF SortOf, n
<1> QED BY <1>0, <1>a, <1>1, <1>2, <1>3

(* known_sort sorts: it gives the rows it was given, in ascending order. *)
THEOREM SortIsSort ==
    ASSUME NEW b \in Seq(Row), Distinct(b)
    PROVE  SortOf(b, known_sort[b])
<1> DEFINE T == {n \in Nat : \A x \in Seq(Row) : Len(x) <= n /\ Distinct(x) => SortOf(x, known_sort[x])}
<1>1. \A x \in Seq(Row) : known_sort[x] = Sort(known_sort, x)
  BY SortExists, Zenon DEF SortIs
<1>2. T = Nat
  <2>1. 0 \in T
    <3> SUFFICES ASSUME NEW x \in Seq(Row), Len(x) <= 0, Distinct(x)  PROVE SortOf(x, known_sort[x])
      OBVIOUS
    <3>1. ~(Len(x) > 2)
      OBVIOUS
    <3> QED BY <1>1, <3>1, SortSorts
  <2>2. ASSUME NEW n \in T  PROVE n + 1 \in T
    <3>0. n \in Nat /\ n + 1 \in Nat
      OBVIOUS
    <3> SUFFICES ASSUME NEW x \in Seq(Row), Len(x) <= n + 1, Distinct(x)  PROVE SortOf(x, known_sort[x])
      BY <3>0
    <3>1. Len(x) \in Nat
      OBVIOUS
    <3>2. ASSUME Len(x) > 2
          PROVE  /\ Left(x) \in Seq(Row) /\ Len(Left(x)) <= n
                 /\ Right(x) \in Seq(Row) /\ Len(Right(x)) <= n
      BY <3>0, <3>1, <3>2, PartsAreShorter
    <3>3. Len(x) > 2 => /\ Distinct(Left(x)) => SortOf(Left(x), known_sort[Left(x)])
                        /\ Distinct(Right(x)) => SortOf(Right(x), known_sort[Right(x)])
      BY <3>2
    <3> QED BY <1>1, <3>3, SortSorts
  <2>3. T \in SUBSET Nat
    OBVIOUS
  <2> HIDE DEF T
  <2> QED BY <2>1, <2>2, <2>3, Induction
<1>3. Len(b) \in Nat /\ Len(b) <= Len(b)
  OBVIOUS
<1>4. \A n \in T : Len(b) <= n => SortOf(b, known_sort[b])
  OBVIOUS
<1> HIDE DEF T
<1> QED BY <1>2, <1>3, <1>4

----------------------------------------------------------------------------
(* The invariants. *)

Travels == cmd = "travel_x8664"
Address == 0 .. len - 1

\* What has been looked at is what has been disassembled.
CodeRead ==
    /\ code \in [Address -> Instr \cup {Unread}]
    /\ seen = {a \in Address : code[a] # Unread}

\* follow: a caller waits at a call it has read, and a target is entered once; before any
\* call has returned or jump been taken, the calls that are open are the targets listed.
Frame == [called : Int, cur : Int, j : Nat, far : Int]
FollowInv ==
    /\ known \in Seq(Address) /\ frames \in Seq(Frame) /\ stack = << >>
    /\ pc \in {"walk", "end"} /\ (pc = "walk" => Len(frames) >= 1)
    /\ \A k \in 1 .. Len(frames) - 1 : frames[k].j \in seen
    /\ \A k, l \in 1 .. Len(known) : known[k] = known[l] => k = l
    /\ Len(frames) <= Len(known) + 1
    /\ Len(frames) = Len(known) + 1 => \A k \in 1 .. Len(known) : frames[k + 1].called = known[k]

\* travel.
Kept == [head : Address, tail : Nat, save : Nat, type : {"call", "cond", "jump"}]
TravelTypes ==
    /\ known \in Seq(Row) /\ stack \in Seq(Kept) /\ frames = << >>
    /\ here \in [entry : Address, j : Nat, self : Nat]
    /\ pc \in {"walk", "sort", "end"}

\* A block is listed once, and every block that is open is.
Once ==
    /\ Distinct(known) /\ (\A k \in 1 .. Len(known) : known[k].addr \in Address)
    /\ Len(stack) < Len(known)

\* Row m is that of the block at head, and printed up to there.
PrintedTo(m, head, to) ==
    m \in 1 .. Len(known) /\ known[m].addr = head /\ known[m].llll .. to - 1 \subseteq Printed

\* The range of a row holds its address, and only what is printed.
RowsTrue ==
    \A k \in 1 .. Len(known) :
      /\ known[k].llll <= known[k].addr /\ known[k].addr <= known[k].rrrr
      /\ known[k].llll .. known[k].rrrr - 1 \subseteq Printed

\* So is the walk at a place in its own block, up to where it is printed, ...
HereTrue == pc = "walk" => here.entry <= here.j /\ PrintedTo(here.self, here.entry, here.j)

\* ... and what is kept for later: behind a branch, and printed up to there.
KeptTrue ==
    \A k \in 1 .. Len(stack) :
      LET e == stack[k] IN
      /\ e.tail = e.save /\ e.head < e.save /\ e.save \in BehindBranch
      /\ \E m \in 1 .. Len(known) : PrintedTo(m, e.head, e.save)

\* What is printed, or taken for it.
Done == Printed \cup (Targets \cap BehindBranch)
Listed ==
    \A k \in 1 .. Len(known) :
      known[k].addr \in Done \/ (pc = "walk" /\ here.j = here.entry /\ here.entry = known[k].addr)

\* What can run after what was printed is printed, or taken for it, or what the walk comes
\* to next or has kept for later.
Later == {stack[k].save : k \in Saved}
Reached ==
    IF pc = "walk" THEN After(seen) \subseteq Done \cup {here.j} \cup Later
    ELSE stack = << >> => After(seen) \subseteq Done

TravelInv ==
    /\ TravelTypes /\ Once /\ RowsTrue /\ HereTrue /\ KeptTrue /\ Listed /\ Reached
    /\ pc = "end" => Ascending(known)

\* An entry behind the end of the buffer: nothing is read.
Beyond ==
    /\ pc \in {"walk", "sort", "end"} /\ frames = << >> /\ stack = << >> /\ seen = {}
    /\ here.j \in Nat /\ here.j >= len /\ known = <<Block(here.j)>>

\* Every row has a place, and a reason.
Addr(k) == IF Travels THEN known[k].addr ELSE known[k]
Bounded ==
    /\ Len(known) <= Room
    /\ \E at \in Entries : \A k \in DOMAIN known : Addr(k) \in Goals(at)

IInv ==
    /\ cmd \in Commands /\ CodeRead /\ Bounded
    /\ IF pc = "overrun" THEN TablesBounded
       ELSE IF Travels THEN TravelInv \/ Beyond ELSE FollowInv

----------------------------------------------------------------------------
(* Reading. *)

\* An address is a place inside the buffer.
LEMMA AddressIs == \A a \in Int : Inside(a) <=> a \in Address
  BY BoundsOK DEF Inside, Address

\* The instruction at j is read, and nothing that was read before changes.
LEMMA ReadsAre ==
    ASSUME CodeRead, NEW j \in Address, NEW i \in Held(j), Disasm(j, i)
    PROVE  /\ CodeRead' /\ seen' = seen \cup {j} /\ seen \subseteq Address
           /\ i \in Instr /\ code'[j] = i
           /\ \A a \in seen : code'[a] = code[a] /\ code[a] \in Instr
<1>1. /\ code \in [Address -> Instr \cup {Unread}] /\ seen = {a \in Address : code[a] # Unread}
      /\ code' = [code EXCEPT ![j] = i] /\ seen' = seen \cup {j}
  BY DEF CodeRead, Disasm
<1>2. i \in Instr /\ i # Unread
  <2>1. CASE code[j] = Unread
    BY <2>1, UnreadOK DEF Held
  <2>2. CASE code[j] # Unread
    <3>1. i = code[j] /\ code[j] \in Instr
      BY <1>1, <2>2 DEF Held
    <3> QED BY <2>2, <3>1
  <2> QED BY <2>1, <2>2
<1>3. code' \in [Address -> Instr \cup {Unread}] /\ code'[j] = i
  BY <1>1, <1>2
<1>4. ASSUME NEW a \in seen  PROVE code'[a] = code[a] /\ code[a] \in Instr
  <2>1. a \in Address /\ code[a] # Unread /\ code[a] \in Instr
    BY <1>1
  <2>2. a = j => i = code[a]
    BY <2>1 DEF Held
  <2> QED BY <1>1, <2>1, <2>2
<1>5. seen' = {a \in Address : code'[a] # Unread}
  BY <1>1, <1>2
<1> QED BY <1>1, <1>2, <1>3, <1>4, <1>5 DEF CodeRead

\* What an instruction is.
LEMMA InstrIs == \A i \in Instr : i.kind \in Kinds /\ i.size \in Nat /\ i.size > 0 /\ i.to \in Int
  BY InstrOK

\* There are no more distinct things in a row than there are things.
LEMMA TooMany ==
    ASSUME NEW W, IsFiniteSet(W), NEW n \in Nat, NEW f \in [1 .. n -> W],
           \A k, l \in 1 .. n : f[k] = f[l] => k = l
    PROVE  Cardinality(W) \in Nat /\ Cardinality(W) >= n
<1>1. f \in Injection(1 .. n, W)
  BY DEF Injection, IsInjective
<1>2. Cardinality(1 .. n) <= Cardinality(W)
  BY <1>1, FS_Injection
<1>3. Cardinality(1 .. n) = n
  BY FS_Interval
<1>4. Cardinality(W) \in Nat
  BY FS_CardinalityType
<1> QED BY <1>2, <1>3, <1>4

\* The places branched to are finitely many, ...
LEMMA GoalsFinite ==
    ASSUME NEW at \in Entries, NEW G, G \subseteq Address \cup {at}
    PROVE  IsFiniteSet(G)
<1>1. IsFiniteSet(Address)
  BY FS_Interval, BoundsOK DEF Address
<1>2. IsFiniteSet(Address \cup {at})
  BY <1>1, FS_AddElement
<1> QED BY <1>2, FS_Subset

\* ... and an instruction adds where it goes.
LEMMA GoalsGrow ==
    ASSUME CodeRead, NEW j \in Address, NEW i \in Held(j), Disasm(j, i), cmd' = cmd, NEW at
    PROVE  /\ Goals(at) \subseteq Goals(at)'
           /\ i.kind \in Entering /\ Inside(i.to) => i.to \in Goals(at)'
<1>1. /\ seen' = seen \cup {j} /\ i \in Instr /\ code'[j] = i
      /\ \A a \in seen : code'[a] = code[a] /\ code[a] \in Instr
  BY ReadsAre
<1>2. Entering' = Entering
  BY DEF Entering
<1>3. ASSUME NEW b \in Goals(at)  PROVE b \in Goals(at)'
  <2>1. CASE cmd = "travel_x8664" /\ b = at
    BY <2>1 DEF Goals
  <2>2. CASE ~(cmd = "travel_x8664" /\ b = at)
    <3>1. PICK a \in seen : b = code[a].to /\ code[a].kind \in Entering /\ Inside(b)
      BY <2>2 DEF Goals
    <3>2. a \in seen' /\ b = code'[a].to /\ code'[a].kind \in Entering' /\ Inside(b)
      BY <1>1, <1>2, <3>1
    <3> QED BY <3>2 DEF Goals, Inside
  <2> QED BY <2>1, <2>2
<1>4. ASSUME i.kind \in Entering, Inside(i.to)  PROVE i.to \in Goals(at)'
  <2>1. j \in seen' /\ i.to = code'[j].to /\ code'[j].kind \in Entering'
    BY <1>1, <1>2, <1>4
  <2> QED BY <1>4, <2>1 DEF Goals, Inside
<1> QED BY <1>3, <1>4

\* A table whose new rows have a reason.
LEMMA StaysBounded ==
    ASSUME Bounded, cmd' = cmd, \A at \in Entries : Goals(at) \subseteq Goals(at)',
           \A k \in DOMAIN known' : \/ k \in DOMAIN known /\ Addr(k)' = Addr(k)
                                   \/ \A at \in Entries : Addr(k)' \in Goals(at)',
           Len(known') <= Room
    PROVE  Bounded'
<1>1. PICK at \in Entries : \A k \in DOMAIN known : Addr(k) \in Goals(at)
  BY DEF Bounded
<1>2. \A k \in DOMAIN known' : Addr(k)' \in Goals(at)'
  BY <1>1
<1>3. Room' = Room
  BY DEF Room
<1> QED BY <1>2, <1>3 DEF Bounded

\* A row too many has a reason as well.
LEMMA Overruns ==
    ASSUME Bounded, CodeRead', cmd' = cmd, \A at \in Entries : Goals(at) \subseteq Goals(at)',
           NEW a, \A at \in Entries : a \in Goals(at)',
           Full, DOMAIN known = 1 .. Len(known), Len(known) \in Nat,
           DOMAIN known' = 1 .. Len(known'), Len(known') = Len(known),
           \A k \in DOMAIN known : Addr(k)' = Addr(k) /\ Addr(k) # a,
           \A k, l \in DOMAIN known : Addr(k) = Addr(l) => k = l,
           Len(stack') <= Room, Len(frames') <= Room + 1
    PROVE  TablesBounded' /\ Bounded'
<1> DEFINE n == Len(known)
           f == [k \in 1 .. n + 1 |-> IF k = n + 1 THEN a ELSE Addr(k)]
<1>0. n \in Nat /\ n = Room /\ Room' = Room
  BY DEF Full, Room
<1>1. PICK at \in Entries : \A k \in DOMAIN known : Addr(k) \in Goals(at)
  BY DEF Bounded
<1>2. \A k \in 1 .. n : Addr(k)' = Addr(k) /\ Addr(k) # a /\ Addr(k)' \in Goals(at)'
  BY <1>1
<1>3. \A k \in 1 .. n + 1 : k # n + 1 => k \in 1 .. n
  BY <1>0
<1>4. f \in [1 .. n + 1 -> Goals(at)']
  BY <1>2, <1>3
<1>5. \A k, l \in 1 .. n + 1 : f[k] = f[l] => k = l
  BY <1>2, <1>3
<1>6. IsFiniteSet(Goals(at)')
  <2>1. ASSUME NEW b \in Goals(at)', b # at  PROVE b \in Address
    <3>1. PICK x \in seen' : b = code'[x].to /\ Inside(b)
      BY <2>1 DEF Goals, Inside
    <3>2. code'[x] \in Instr
      BY DEF CodeRead
    <3>3. b \in Int
      BY <3>1, <3>2, InstrIs
    <3> QED BY <3>1, <3>3, AddressIs
  <2> DEFINE G == Goals(at)'
  <2>2. G \subseteq Address \cup {at}
    BY <2>1
  <2> HIDE DEF G
  <2>3. IsFiniteSet(G)
    BY <2>2, GoalsFinite
  <2> QED BY <2>3 DEF G
<1>7. Cardinality(Goals(at)') \in Nat /\ Cardinality(Goals(at)') >= n + 1
  <2>1. n + 1 \in Nat
    BY <1>0
  <2> HIDE DEF f, n
  <2> QED BY <1>4, <1>5, <1>6, <2>1, TooMany
<1>8. Cardinality(Goals(at)') > Room'
  BY <1>0, <1>7
<1>9. Bounded'
  BY <1>0, <1>2 DEF Bounded
<1>10. /\ \A k, l \in DOMAIN known' : Addr(k)' = Addr(l)' => k = l
       /\ \A k \in DOMAIN known' : Addr(k)' \in Goals(at)'
  BY <1>2
<1> QED BY <1>0, <1>8, <1>9, <1>10 DEF TablesBounded, Addr, Travels

----------------------------------------------------------------------------
(* follow *)

\* The activation that runs.
LEMMA Running ==
    ASSUME FollowInv, pc = "walk"
    PROVE  /\ sp \in Nat /\ sp = Len(frames) /\ sp >= 1 /\ F = frames[sp] /\ F \in Frame
           /\ F.j \in Nat /\ F.called \in Int /\ F.cur \in Int /\ F.far \in Int
<1>1. frames \in Seq(Frame) /\ Len(frames) >= 1 /\ Len(frames) \in Nat
  BY DEF FollowInv
<1>2. frames[Len(frames)] \in Frame
  BY <1>1
<1> QED BY <1>1, <1>2 DEF sp, F, Frame

\* It is replaced by another one.
LEMMA Replace ==
    ASSUME FollowInv, pc = "walk", NEW fr \in Frame, frames' = [frames EXCEPT ![sp] = fr], seen \subseteq seen'
    PROVE  /\ frames' \in Seq(Frame) /\ Len(frames') = Len(frames)
           /\ \A k \in 1 .. Len(frames') - 1 : frames'[k].j \in seen'
           /\ fr.called = F.called => \A k \in 1 .. Len(frames) : frames'[k].called = frames[k].called
<1>1. frames \in Seq(Frame) /\ sp \in 1 .. Len(frames) /\ sp = Len(frames) /\ Len(frames) \in Nat
  BY Running DEF FollowInv
<1>2. /\ frames' \in Seq(Frame) /\ Len(frames') = Len(frames)
      /\ \A k \in 1 .. Len(frames) : frames'[k] = IF k = sp THEN fr ELSE frames[k]
  BY <1>1, Replaced
<1>3. \A k \in 1 .. Len(frames) - 1 : k \in 1 .. Len(frames) /\ k # sp /\ frames[k].j \in seen
  BY <1>1 DEF FollowInv
<1>4. ASSUME fr.called = F.called, NEW k \in 1 .. Len(frames)  PROVE frames'[k].called = frames[k].called
  BY <1>2, <1>4 DEF F
<1> QED BY <1>2, <1>3, <1>4

\* It goes on behind its instruction.
LEMMA GoesOn ==
    ASSUME FollowInv, pc = "walk", NEW fr \in Frame, NEW size \in Nat, GoOn(fr, size), seen \subseteq seen'
    PROVE  /\ frames' \in Seq(Frame) /\ Len(frames') = Len(frames)
           /\ \A k \in 1 .. Len(frames') - 1 : frames'[k].j \in seen'
           /\ fr.called = F.called => \A k \in 1 .. Len(frames) : frames'[k].called = frames[k].called
<1> DEFINE to == [fr EXCEPT !.j = @ + size]
<1>1. to \in Frame /\ to.called = fr.called
  BY DEF Frame
<1>2. frames' = [frames EXCEPT ![sp] = to]
  BY DEF GoOn
<1> HIDE DEF to
<1> QED BY <1>1, <1>2, Replace

\* It ends, and its caller goes on behind the call.
LEMMA Leaves ==
    ASSUME FollowInv, CodeRead, pc = "walk", Leave, seen \subseteq seen'
    PROVE  /\ frames' \in Seq(Frame) /\ Len(frames') = Len(frames) - 1
           /\ pc' \in {"walk", "end"} /\ (pc' = "walk" => Len(frames') >= 1)
           /\ \A k \in 1 .. Len(frames') - 1 : frames'[k].j \in seen'
<1>1. frames \in Seq(Frame) /\ sp = Len(frames) /\ sp \in Nat /\ sp >= 1
  BY Running DEF FollowInv
<1>2. CASE sp = 1
  BY <1>1, <1>2 DEF Leave
<1>3. CASE sp # 1
  <2> DEFINE rest == SubSeq(frames, 1, sp - 1)
             up == frames[sp - 1]
             size == code[up.j].size
             back == [up EXCEPT !.j = @ + size]
  <2>1. /\ rest \in Seq(Frame) /\ Len(rest) = sp - 1
        /\ \A k \in 1 .. sp - 1 : rest[k] = frames[k]
    <3>1. 1 \in 1 .. Len(frames) + 1 /\ sp - 1 \in 1 - 1 .. Len(frames)
      BY <1>1
    <3>2. /\ rest \in Seq(Frame) /\ Len(rest) = sp - 1 - 1 + 1
          /\ \A k \in 1 .. sp - 1 - 1 + 1 : rest[k] = frames[1 + k - 1]
      BY <1>1, <3>1, SubSeqIs
    <3> HIDE DEF rest
    <3> QED BY <1>1, <3>2
  <2>2. sp - 1 \in 1 .. sp - 1 /\ sp - 1 \in 1 .. Len(rest)
    BY <1>1, <1>3, <2>1
  <2>3. up \in Frame /\ up.j \in seen /\ rest[sp - 1] = up
    BY <1>1, <2>1, <2>2 DEF FollowInv
  <2>4. size \in Nat
    <3>1. code[up.j] \in Instr
      BY <2>3 DEF CodeRead
    <3> QED BY <3>1, InstrIs
  <2>5. frames' = [rest EXCEPT ![sp - 1] = back] /\ pc' = "walk"
    <3>1. frames' = [rest EXCEPT ![sp - 1].j = @ + size] /\ pc' = pc
      BY <1>3 DEF Leave
    <3> HIDE DEF rest, size
    <3> QED BY <2>3, <3>1
  <2> HIDE DEF size
  <2>6. back \in Frame
    BY <2>3, <2>4 DEF Frame
  <2> HIDE DEF rest, up, back
  <2>7. /\ frames' \in Seq(Frame) /\ Len(frames') = sp - 1
        /\ \A k \in 1 .. sp - 1 : frames'[k] = IF k = sp - 1 THEN back ELSE rest[k]
    BY <2>1, <2>2, <2>5, <2>6, Replaced
  <2>8. ASSUME NEW k \in 1 .. (sp - 1) - 1  PROVE frames'[k].j \in seen'
    <3>1. k \in 1 .. sp - 1 /\ k # sp - 1 /\ k \in 1 .. Len(frames) - 1
      BY <1>1
    <3>2. frames'[k] = frames[k]
      BY <2>1, <2>7, <3>1
    <3> QED BY <3>1, <3>2 DEF FollowInv
  <2>9. sp - 1 >= 1
    BY <1>1, <1>3
  <2> QED BY <1>1, <2>5, <2>7, <2>8, <2>9
<1> QED BY <1>2, <1>3

\* A target that was not known is entered.
LEMMA Entered ==
    ASSUME FollowInv, NEW a \in Int, Inside(a), ~knowncheck(a), known' = Append(known, a)
    PROVE  /\ known' \in Seq(Address) /\ Len(known') = Len(known) + 1
           /\ \A k, l \in 1 .. Len(known') : known'[k] = known'[l] => k = l
           /\ known'[Len(known) + 1] = a /\ \A k \in 1 .. Len(known) : known'[k] = known[k]
<1>1. known \in Seq(Address) /\ a \in Address /\ Len(known) \in Nat
  BY AddressIs DEF FollowInv
<1>2. /\ known' \in Seq(Address) /\ Len(known') = Len(known) + 1
      /\ known'[Len(known) + 1] = a
      /\ \A k \in 1 .. Len(known) : known'[k] = known[k]
  BY <1>1
<1>3. \A k \in 1 .. Len(known) : known[k] # a
  BY DEF knowncheck
<1>4. ASSUME NEW k \in 1 .. Len(known'), NEW l \in 1 .. Len(known'), known'[k] = known'[l]
      PROVE  k = l
  <2>1. k \in 1 .. Len(known) \/ k = Len(known) + 1
    BY <1>1, <1>2
  <2>2. l \in 1 .. Len(known) \/ l = Len(known) + 1
    BY <1>1, <1>2
  <2>3. CASE k \in 1 .. Len(known) /\ l \in 1 .. Len(known)
    BY <1>2, <1>4, <2>3 DEF FollowInv
  <2> QED BY <1>2, <1>3, <1>4, <2>1, <2>2, <2>3
<1> QED BY <1>2, <1>4

\* A step that leaves the table alone and opens no activation.
LEMMA SameTable ==
    ASSUME FollowInv, UNCHANGED <<known, stack>>, frames' \in Seq(Frame), Len(frames') <= Len(frames),
           pc' \in {"walk", "end"}, pc' = "walk" => Len(frames') >= 1,
           \A k \in 1 .. Len(frames') - 1 : frames'[k].j \in seen',
           Len(frames') = Len(frames) => \A k \in 1 .. Len(frames) : frames'[k].called = frames[k].called
    PROVE  FollowInv'
<1>1. Len(frames') \in Nat /\ Len(frames) \in Nat /\ Len(known) \in Nat
  BY DEF FollowInv
<1>2. Len(frames) <= Len(known) + 1 /\ UNCHANGED <<known, stack>>
  BY DEF FollowInv
<1>3. Len(frames') <= Len(known') + 1
  BY <1>1, <1>2
<1>4. ASSUME Len(frames') = Len(known') + 1, NEW k \in 1 .. Len(known')
      PROVE  frames'[k + 1].called = known'[k]
  <2>1. Len(frames) = Len(known) + 1 /\ Len(frames') = Len(frames)
    BY <1>1, <1>2, <1>4
  <2>2. k + 1 \in 1 .. Len(frames) /\ k \in 1 .. Len(known) /\ known'[k] = known[k]
    BY <1>1, <1>2, <1>4, <2>1
  <2>3. frames'[k + 1].called = frames[k + 1].called
    BY <2>1, <2>2
  <2>4. frames[k + 1].called = known[k]
    BY <2>1, <2>2 DEF FollowInv
  <2> QED BY <2>2, <2>3, <2>4
<1> QED BY <1>3, <1>4 DEF FollowInv

\* A step of follow on an instruction keeps the invariant.
LEMMA FollowKeeps ==
    ASSUME FollowInv, CodeRead, Bounded, ~Travels, InFollow, NEW i \in Held(F.j), follow_one(i)
    PROVE  /\ CodeRead' /\ Bounded'
           /\ IF pc' = "overrun" THEN TablesBounded' ELSE FollowInv'
<1>0. pc = "walk" /\ F.j < len
  BY DEF InFollow
<1>1. /\ sp \in Nat /\ sp = Len(frames) /\ sp >= 1 /\ F = frames[sp] /\ F \in Frame
      /\ F.j \in Nat /\ F.called \in Int /\ F.cur \in Int /\ F.far \in Int
  BY <1>0, Running
<1>2. F.j \in Address
  BY <1>0, <1>1, BoundsOK DEF Address
<1>3. Disasm(F.j, i)
  BY DEF follow_one, follow_ret, follow_cond, follow_jump, follow_call, follow_plain
<1>4. CodeRead' /\ seen' = seen \cup {F.j} /\ i \in Instr
  BY <1>2, <1>3, ReadsAre
<1>5. i.kind \in Kinds /\ i.size \in Nat /\ i.size > 0 /\ i.to \in Int
  BY <1>4, InstrIs
<1> DEFINE Goal == Bounded' /\ IF pc' = "overrun" THEN TablesBounded' ELSE FollowInv'
<1>20. cmd' = cmd /\ Room' = Room
  BY DEF follow_one, follow_ret, follow_cond, follow_jump, follow_call, follow_plain, Room
<1>21. \A at \in Entries : Goals(at) \subseteq Goals(at)'
  BY <1>2, <1>3, <1>20, GoalsGrow
<1>22. ASSUME i.kind \in {"jump", "call"}, Inside(i.to)  PROVE \A at \in Entries : i.to \in Goals(at)'
  <2>1. i.kind \in Entering
    BY <1>22 DEF Entering
  <2> QED BY <1>2, <1>3, <1>20, <1>22, <2>1, GoalsGrow
<1>23. DOMAIN known = 1 .. Len(known) /\ Len(known) \in Nat /\ ~Travels' /\ Len(known) <= Room /\ Room \in Nat
  BY <1>20, TablesOK DEF FollowInv, Travels, Bounded, Room
<1>24. ASSUME UNCHANGED known  PROVE Bounded'
  <2>1. \A k \in DOMAIN known' : k \in DOMAIN known /\ Addr(k)' = Addr(k)
    BY <1>20, <1>24 DEF Addr, Travels
  <2> QED BY <1>20, <1>21, <1>23, <1>24, <2>1, StaysBounded
<1>25. ASSUME known' = Append(known, i.to), ~Full, Inside(i.to), i.kind \in {"jump", "call"}
       PROVE  Bounded'
  <2>1. known \in Seq(Address) /\ i.to \in Address
    BY <1>5, <1>25, AddressIs DEF FollowInv
  <2>2. /\ DOMAIN known' = 1 .. Len(known) + 1 /\ Len(known') = Len(known) + 1
        /\ known'[Len(known) + 1] = i.to /\ \A k \in 1 .. Len(known) : known'[k] = known[k]
    BY <1>25, <2>1
  <2>3. ASSUME NEW k \in DOMAIN known'
        PROVE  \/ k \in DOMAIN known /\ Addr(k)' = Addr(k)
               \/ \A at \in Entries : Addr(k)' \in Goals(at)'
    <3>1. k \in 1 .. Len(known) \/ k = Len(known) + 1
      BY <1>23, <2>2
    <3>2. CASE k = Len(known) + 1
      <4>1. Addr(k)' = i.to
        BY <1>23, <2>2, <3>2 DEF Addr
      <4> QED BY <1>22, <1>25, <4>1
    <3>3. CASE k \in 1 .. Len(known)
      <4>1. Addr(k)' = Addr(k)
        BY <1>23, <2>2, <3>3 DEF Addr
      <4> QED BY <1>23, <3>3, <4>1
    <3> QED BY <3>1, <3>2, <3>3
  <2>5. Len(known) # Room
    BY <1>25 DEF Full
  <2>7. \A n, r \in Nat : n <= r /\ n # r => n + 1 <= r
    OBVIOUS
  <2>8. Len(known) \in Nat /\ Room \in Nat /\ Len(known) <= Room /\ Len(known') = Len(known) + 1
    BY <1>23, <2>2
  <2>4. Len(known') <= Room
    BY ONLY <2>5, <2>7, <2>8
  <2> QED BY <1>20, <1>21, <2>3, <2>4, StaysBounded
<1>26. ASSUME i.kind \in {"jump", "call"}, Inside(i.to), ~knowncheck(i.to), Full, UNCHANGED <<known, frames, stack>>
       PROVE  TablesBounded' /\ Bounded'
  <2>1. Len(stack') <= Room /\ Len(frames') <= Room + 1
    <3>1. stack = << >> /\ Len(frames) <= Len(known) + 1 /\ Len(frames) \in Nat
      BY DEF FollowInv
    <3> QED BY <1>23, <1>26, <3>1
  <2>2. \A k \in DOMAIN known : Addr(k)' = Addr(k) /\ Addr(k) # i.to
    BY <1>20, <1>26 DEF Addr, Travels, knowncheck
  <2>3. \A k, l \in DOMAIN known : Addr(k) = Addr(l) => k = l
    BY <1>23 DEF Addr, FollowInv
  <2> QED BY <1>4, <1>20, <1>21, <1>22, <1>23, <1>26, <2>1, <2>2, <2>3, Overruns
<1>27. ASSUME FollowInv', Bounded'  PROVE Goal
  BY <1>27 DEF FollowInv
<1>6. ASSUME NEW fr \in Frame, fr.called = F.called, GoOn(fr, i.size), UNCHANGED <<known, stack, pc>>  PROVE FollowInv'
  <2>1. /\ frames' \in Seq(Frame) /\ Len(frames') = Len(frames)
        /\ \A k \in 1 .. Len(frames') - 1 : frames'[k].j \in seen'
        /\ \A k \in 1 .. Len(frames) : frames'[k].called = frames[k].called
    BY <1>0, <1>4, <1>5, <1>6, GoesOn
  <2>2. Len(frames') <= Len(frames) /\ Len(frames') >= 1
    BY <1>1, <2>1
  <2> QED BY <1>0, <1>6, <2>1, <2>2, SameTable
<1>7. ASSUME follow_ret(i)  PROVE FollowInv' /\ UNCHANGED known
  <2>1. CASE StillMore(i.size)
    BY <1>1, <1>6, <1>7, <2>1 DEF follow_ret
  <2>2. CASE ~StillMore(i.size)
    <3>1. Leave /\ UNCHANGED <<known, stack>>
      BY <1>7, <2>2 DEF follow_ret
    <3>2. /\ frames' \in Seq(Frame) /\ Len(frames') = Len(frames) - 1
          /\ pc' \in {"walk", "end"} /\ (pc' = "walk" => Len(frames') >= 1)
          /\ \A k \in 1 .. Len(frames') - 1 : frames'[k].j \in seen'
      BY <1>0, <1>4, <3>1, Leaves
    <3>3. Len(frames') <= Len(frames)
      BY <1>1, <3>2
    <3>4. Len(frames') # Len(frames)
      BY <1>1, <3>2
    <3> QED BY <3>1, <3>2, <3>3, <3>4, SameTable
  <2> QED BY <2>1, <2>2
<1>8. ASSUME follow_cond(i)  PROVE FollowInv' /\ UNCHANGED known
  <2> DEFINE fr == [F EXCEPT !.far = IF @ < i.to THEN i.to ELSE @]
  <2>1. fr \in Frame /\ fr.called = F.called
    BY <1>1, <1>5 DEF Frame
  <2>2. GoOn(fr, i.size) /\ UNCHANGED <<known, stack, pc>>
    BY <1>8 DEF follow_cond
  <2> HIDE DEF fr
  <2> QED BY <1>6, <2>1, <2>2
<1>9. ASSUME follow_jump(i)  PROVE Goal
  <2>1. CASE JumpSkipped(i.to, i.size)
    BY <1>1, <1>6, <1>9, <1>24, <1>27, <2>1 DEF follow_jump
  <2>3. CASE ~JumpSkipped(i.to, i.size) /\ Full
    <3>1. /\ pc' = "overrun" /\ i.kind = "jump" /\ UNCHANGED <<known, frames, stack>>
          /\ Inside(i.to) /\ ~knowncheck(i.to)
      BY <1>9, <2>3 DEF follow_jump, JumpSkipped
    <3> QED BY <1>26, <2>3, <3>1
  <2>2. CASE ~JumpSkipped(i.to, i.size) /\ ~Full
    <3> DEFINE fr == [called |-> F.called, cur |-> i.to, j |-> i.to, far |-> i.to]
    <3>1. /\ known' = Append(known, i.to) /\ frames' = [frames EXCEPT ![sp] = fr]
          /\ UNCHANGED <<stack, pc>> /\ i.kind = "jump"
      BY <1>9, <2>2 DEF follow_jump
    <3>2. Inside(i.to) /\ ~knowncheck(i.to)
      BY <2>2 DEF JumpSkipped
    <3>3. fr \in Frame
      BY <1>1, <1>5, <3>2, AddressIs, BoundsOK DEF Frame, Inside
    <3> HIDE DEF fr
    <3>4. /\ frames' \in Seq(Frame) /\ Len(frames') = Len(frames)
          /\ \A k \in 1 .. Len(frames') - 1 : frames'[k].j \in seen'
      BY <1>0, <1>4, <3>1, <3>3, Replace
    <3>5. /\ known' \in Seq(Address) /\ Len(known') = Len(known) + 1
          /\ \A k, l \in 1 .. Len(known') : known'[k] = known'[l] => k = l
      BY <1>5, <3>1, <3>2, Entered
    <3>6. Len(frames') <= Len(known') + 1 /\ Len(frames') >= 1
      <4>1. Len(frames) <= Len(known) + 1 /\ Len(known) \in Nat
        BY DEF FollowInv
      <4> QED BY <1>1, <3>4, <3>5, <4>1
    <3>7. Len(frames') # Len(known') + 1
      <4>1. Len(frames) <= Len(known) + 1 /\ Len(known) \in Nat
        BY DEF FollowInv
      <4> QED BY <1>1, <3>4, <3>5, <4>1
    <3>8. FollowInv'
      BY <1>0, <3>1, <3>4, <3>5, <3>6, <3>7 DEF FollowInv
    <3> QED BY <1>25, <1>27, <2>2, <3>1, <3>2, <3>8
  <2> QED BY <2>1, <2>2, <2>3
<1>10. ASSUME follow_call(i)  PROVE Goal
  <2> DEFINE Skipped == ~Inside(i.to) \/ stackcheck(i.to) \/ (sp <= Room /\ knowncheck(i.to))
  <2>0. sp <= Len(known) + 1
    BY <1>1 DEF FollowInv
  <2>1. CASE Skipped
    BY <1>1, <1>6, <1>10, <1>24, <1>27, <2>1 DEF follow_call
  <2>3. CASE ~Skipped /\ (sp > Room \/ Full)
    <3>1. /\ pc' = "overrun" /\ i.kind = "call" /\ UNCHANGED <<known, frames, stack>>
          /\ Inside(i.to) /\ ~stackcheck(i.to)
      BY <1>10, <2>3 DEF follow_call
    <3>2. Full
      BY <1>1, <1>23, <2>0, <2>3 DEF Full
    <3>3. ~knowncheck(i.to)
      <4>1. CASE sp <= Room
        BY <2>3, <4>1
      <4>2. CASE sp > Room
        <5>1. Len(frames) = Len(known) + 1
          BY <1>1, <1>23, <2>0, <4>2
        <5>2. ASSUME NEW k \in DOMAIN known, known[k] = i.to  PROVE FALSE
          <6>1. k \in 1 .. Len(known) /\ k + 1 \in 2 .. sp
            BY <1>1, <1>23, <5>1
          <6>2. frames[k + 1].called = i.to
            BY <5>1, <5>2, <6>1 DEF FollowInv
          <6> QED BY <3>1, <6>1, <6>2 DEF stackcheck
        <5> QED BY <5>2 DEF knowncheck
      <4> QED BY <1>1, <1>23, <4>1, <4>2
    <3> QED BY <1>26, <3>1, <3>2, <3>3
  <2>2. CASE ~Skipped /\ ~(sp > Room \/ Full)
    <3> DEFINE fr == [called |-> i.to, cur |-> i.to, j |-> i.to, far |-> i.to]
    <3>1. /\ known' = Append(known, i.to) /\ frames' = Append(frames, fr)
          /\ UNCHANGED <<stack, pc>> /\ i.kind = "call"
      BY <1>10, <2>2 DEF follow_call
    <3>2. Inside(i.to) /\ ~knowncheck(i.to) /\ ~Full
      BY <1>1, <1>23, <2>2
    <3>3. fr \in Frame /\ fr.called = i.to
      BY <1>1, <1>5, <3>2, AddressIs, BoundsOK DEF Frame, Inside
    <3> HIDE DEF fr
    <3>4. /\ frames' \in Seq(Frame) /\ Len(frames') = Len(frames) + 1
          /\ \A k \in 1 .. Len(frames) : frames'[k] = frames[k]
          /\ frames'[Len(frames) + 1] = fr
      <4>1. frames \in Seq(Frame)
        BY DEF FollowInv
      <4> QED BY <3>1, <3>3, <4>1
    <3>5. /\ known' \in Seq(Address) /\ Len(known') = Len(known) + 1
          /\ \A k, l \in 1 .. Len(known') : known'[k] = known'[l] => k = l
          /\ known'[Len(known) + 1] = i.to /\ \A k \in 1 .. Len(known) : known'[k] = known[k]
      BY <1>5, <3>1, <3>2, Entered
    <3>6. Len(frames') <= Len(known') + 1 /\ Len(frames') >= 1
      <4>1. Len(frames) <= Len(known) + 1 /\ Len(known) \in Nat
        BY DEF FollowInv
      <4> QED BY <1>1, <3>4, <3>5, <4>1
    <3>8. ASSUME Len(frames') = Len(known') + 1, NEW k \in 1 .. Len(known')
          PROVE  frames'[k + 1].called = known'[k]
      <4>1. Len(frames) = Len(known) + 1 /\ Len(frames) \in Nat
        BY <1>1, <1>23, <3>4, <3>5, <3>8
      <4>2. CASE k = Len(known) + 1
        BY <3>3, <3>4, <3>5, <4>1, <4>2
      <4>3. CASE k # Len(known) + 1
        <5>1. k \in 1 .. Len(known) /\ k + 1 \in 1 .. Len(frames)
          BY <1>23, <3>5, <4>1, <4>3
        <5>2. frames[k + 1].called = known[k]
          BY <4>1, <5>1 DEF FollowInv
        <5> QED BY <3>4, <3>5, <5>1, <5>2
      <4> QED BY <4>2, <4>3
    <3>7. ASSUME NEW k \in 1 .. Len(frames') - 1  PROVE frames'[k].j \in seen'
      <4>1. k \in 1 .. Len(frames) /\ frames'[k] = frames[k]
        BY <1>1, <3>4
      <4>2. CASE k = sp
        BY <1>1, <1>4, <4>1, <4>2
      <4>3. CASE k # sp
        <5>1. k \in 1 .. Len(frames) - 1
          BY <1>1, <4>1, <4>3
        <5> QED BY <1>4, <4>1, <5>1 DEF FollowInv
      <4> QED BY <4>2, <4>3
    <3>9. FollowInv'
      BY <1>0, <3>1, <3>4, <3>5, <3>6, <3>7, <3>8 DEF FollowInv
    <3> QED BY <1>25, <1>27, <3>1, <3>2, <3>9
  <2> QED BY <2>1, <2>2, <2>3
<1>11. ASSUME follow_plain(i)  PROVE FollowInv' /\ UNCHANGED known
  BY <1>1, <1>6, <1>11 DEF follow_plain
<1> QED BY <1>4, <1>7, <1>8, <1>9, <1>10, <1>11, <1>24, <1>27 DEF follow_one

\* The end of the buffer keeps the invariant.
LEMMA FollowEndKeeps ==
    ASSUME FollowInv, CodeRead, follow_off_the_end
    PROVE  FollowInv' /\ CodeRead'
<1>1. pc = "walk" /\ Leave /\ UNCHANGED <<cmd, code, known, stack, here, seen>>
  BY DEF follow_off_the_end
<1>2. /\ frames' \in Seq(Frame) /\ Len(frames') = Len(frames) - 1
      /\ pc' \in {"walk", "end"} /\ (pc' = "walk" => Len(frames') >= 1)
      /\ \A k \in 1 .. Len(frames') - 1 : frames'[k].j \in seen'
  BY <1>1, Leaves
<1>3. Len(frames') <= Len(frames) /\ Len(frames') # Len(frames)
  BY <1>2 DEF FollowInv
<1>4. FollowInv'
  BY <1>1, <1>2, <1>3, SameTable
<1> QED BY <1>1, <1>4 DEF CodeRead

----------------------------------------------------------------------------
(* travel *)

\* What may run after the instruction i at j.
AfterIt(j, i) ==
    {b \in Address : \/ i.kind \notin {"ret", "jump"} /\ b = j + i.size
                     \/ i.kind \in {"cond", "jump", "call"} /\ b = i.to}

\* More is printed by an instruction, and more can run after it.
LEMMA PrintsMore ==
    ASSUME CodeRead, NEW j \in Address, NEW i \in Held(j), Disasm(j, i)
    PROVE  /\ Printed \subseteq Printed' /\ j .. j + i.size - 1 \subseteq Printed' /\ j \in Printed'
           /\ BehindBranch \subseteq BehindBranch' /\ Done \subseteq Done'
           /\ i.kind \in {"cond", "jump"} => i.to \in Targets'
           /\ i.kind \in {"cond", "jump", "call"} => j + i.size \in BehindBranch'
           /\ After(seen)' \subseteq After(seen) \cup AfterIt(j, i)
<1>1. /\ seen' = seen \cup {j} /\ i \in Instr /\ code'[j] = i
      /\ \A a \in seen : code'[a] = code[a] /\ code[a] \in Instr
  BY ReadsAre
<1>2. i.size \in Nat /\ i.size > 0 /\ j \in Int
  BY <1>1, InstrIs, BoundsOK DEF Address
<1>3. Printed \subseteq Printed'
  BY <1>1 DEF Printed
<1>4. j .. j + i.size - 1 \subseteq Printed'
  BY <1>1 DEF Printed
<1>5. j \in Printed'
  <2>1. j \in j .. j + i.size - 1
    BY <1>2
  <2> QED BY <1>4, <2>1
<1>6. BehindBranch \subseteq BehindBranch' /\ Targets \subseteq Targets'
  BY <1>1 DEF BehindBranch, Targets
<1>7. Done \subseteq Done'
  BY <1>3, <1>6 DEF Done
<1>8. i.kind \in {"cond", "jump"} => i.to \in Targets'
  BY <1>1 DEF Targets
<1>9. i.kind \in {"cond", "jump", "call"} => j + i.size \in BehindBranch'
  BY <1>1 DEF BehindBranch
<1>10. ASSUME NEW b \in After(seen)'  PROVE b \in After(seen) \cup AfterIt(j, i)
  <2>1. /\ Inside(b)
        /\ \/ \E a \in seen' : code'[a].kind \notin {"ret", "jump"} /\ b = a + code'[a].size
           \/ \E a \in seen' : code'[a].kind \in {"cond", "jump", "call"} /\ b = code'[a].to
    BY DEF After, Inside
  <2>2. PICK a \in seen' : \/ code'[a].kind \notin {"ret", "jump"} /\ b = a + code'[a].size
                           \/ code'[a].kind \in {"cond", "jump", "call"} /\ b = code'[a].to
    BY <2>1
  <2>3. CASE a \in seen
    <3>1. code'[a] = code[a]
      BY <1>1, <2>3
    <3> QED BY <2>1, <2>2, <2>3, <3>1 DEF After
  <2>4. CASE a = j
    <3>1. b \in Int
      BY <1>1, <1>2, <2>2, <2>4, InstrIs
    <3>2. b \in Address
      BY <2>1, <3>1, AddressIs
    <3> QED BY <1>1, <2>2, <2>4, <3>2 DEF AfterIt
  <2> QED BY <1>1, <2>3, <2>4
<1> QED BY <1>3, <1>4, <1>5, <1>6, <1>7, <1>8, <1>9, <1>10

\* known_check finds a row by its address.
LEMMA KnownCheckIs ==
    ASSUME known \in Seq(Row), Distinct(known), NEW a
    PROVE  /\ known_check(a) # 0 => known_check(a) \in 1 .. Len(known) /\ known[known_check(a)].addr = a
           /\ \A k \in 1 .. Len(known) : known[k].addr = a => known_check(a) = k
<1> DEFINE S == {k \in DOMAIN known : known[k].addr = a}
<1>1. DOMAIN known = 1 .. Len(known) /\ Len(known) \in Nat
  OBVIOUS
<1>2. CASE S = {}
  <2>1. known_check(a) = 0
    BY <1>2 DEF known_check
  <2> QED BY <1>1, <1>2, <2>1
<1>3. CASE S # {}
  <2>1. known_check(a) = Min(S)
    BY <1>3 DEF known_check
  <2>2. S \in SUBSET Nat
    BY <1>1
  <2>3. Min(S) \in S
    <3> HIDE DEF S
    <3> QED BY <1>3, <2>2, MinIs
  <2>4. known_check(a) \in 1 .. Len(known) /\ known[known_check(a)].addr = a
    BY <1>1, <2>1, <2>3
  <2> QED BY <2>4 DEF Distinct
<1> QED BY <1>2, <1>3

\* A table that may take the place of the one of travel: it has its addresses, and its rows
\* are true when the step is over, up to what is kept for later as well.
TableOK(b) ==
    /\ b \in Seq(Row) /\ Len(b) >= Len(known)
    /\ \A k \in 1 .. Len(known) : b[k].addr = known[k].addr
    /\ Distinct(b) /\ (\A k \in 1 .. Len(b) : b[k].addr \in Address)
    /\ \A k \in 1 .. Len(b) :
         /\ b[k].llll <= b[k].addr /\ b[k].addr <= b[k].rrrr
         /\ b[k].llll .. b[k].rrrr - 1 \subseteq Printed'
    /\ \A k \in 1 .. Len(stack) :
         /\ stack[k].save \in BehindBranch'
         /\ \E m \in 1 .. Len(known) :
              known[m].addr = stack[k].head /\ b[m].llll .. stack[k].save - 1 \subseteq Printed'

\* The fields of a row.
LEMMA RowIs == \A r \in Row : r.addr \in Int /\ r.llll \in Int /\ r.rrrr \in Int
  BY DEF Row

\* The table may stay as it is.
LEMMA TableStays ==
    ASSUME TravelInv, Printed \subseteq Printed', BehindBranch \subseteq BehindBranch'
    PROVE  TableOK(known)
<1>1. known \in Seq(Row) /\ Len(known) \in Nat /\ Len(known) >= Len(known)
  BY DEF TravelInv, TravelTypes
<1>2. Distinct(known) /\ \A k \in 1 .. Len(known) : known[k].addr \in Address
  BY DEF TravelInv, Once
<1>3. \A k \in 1 .. Len(known) :
         /\ known[k].llll <= known[k].addr /\ known[k].addr <= known[k].rrrr
         /\ known[k].llll .. known[k].rrrr - 1 \subseteq Printed'
  BY DEF TravelInv, RowsTrue
<1>4. \A k \in 1 .. Len(stack) :
         /\ stack[k].save \in BehindBranch'
         /\ \E m \in 1 .. Len(known) :
              known[m].addr = stack[k].head /\ known[m].llll .. stack[k].save - 1 \subseteq Printed'
  BY DEF TravelInv, KeptTrue, PrintedTo
<1> QED BY <1>1, <1>2, <1>3, <1>4 DEF TableOK

\* A row may be changed: its range in it, and its left end not beyond what it was.
LEMMA TableChanges ==
    ASSUME NEW b, TableOK(b), NEW m \in 1 .. Len(b), NEW r \in Row, r.addr = b[m].addr,
           r.llll <= r.addr, r.addr <= r.rrrr, r.llll .. r.rrrr - 1 \subseteq Printed',
           \A to \in Nat : b[m].llll .. to - 1 \subseteq Printed' => r.llll .. to - 1 \subseteq Printed',
           stack \in Seq(Kept), known \in Seq(Row)
    PROVE  TableOK([b EXCEPT ![m] = r]) /\ Len([b EXCEPT ![m] = r]) = Len(b)
<1> DEFINE c == [b EXCEPT ![m] = r]
<1>1. b \in Seq(Row) /\ Len(b) >= Len(known) /\ Len(b) \in Nat /\ Len(known) \in Nat
  BY DEF TableOK
<1>2. c \in Seq(Row) /\ Len(c) = Len(b) /\ \A k \in 1 .. Len(b) : c[k] = IF k = m THEN r ELSE b[k]
  BY <1>1, Replaced
<1> HIDE DEF c
<1>3. \A k \in 1 .. Len(b) : c[k].addr = b[k].addr
  BY <1>2
<1>4. \A k \in 1 .. Len(known) : k \in 1 .. Len(b)
  BY <1>1
<1>5. \A k \in 1 .. Len(known) : c[k].addr = known[k].addr
  BY <1>3, <1>4 DEF TableOK
<1>6. Distinct(c) /\ \A k \in 1 .. Len(c) : c[k].addr \in Address
  BY <1>2, <1>3 DEF TableOK, Distinct
<1>7. ASSUME NEW k \in 1 .. Len(c)
      PROVE  /\ c[k].llll <= c[k].addr /\ c[k].addr <= c[k].rrrr
             /\ c[k].llll .. c[k].rrrr - 1 \subseteq Printed'
  BY <1>2 DEF TableOK
<1>8. ASSUME NEW k \in 1 .. Len(stack)
      PROVE  /\ stack[k].save \in BehindBranch'
             /\ \E n \in 1 .. Len(known) :
                  known[n].addr = stack[k].head /\ c[n].llll .. stack[k].save - 1 \subseteq Printed'
  <2>1. stack[k].save \in Nat
    <3>1. stack[k] \in Kept
      OBVIOUS
    <3> QED BY <3>1 DEF Kept
  <2>2. PICK n \in 1 .. Len(known) :
               known[n].addr = stack[k].head /\ b[n].llll .. stack[k].save - 1 \subseteq Printed'
    BY DEF TableOK
  <2>3. c[n].llll .. stack[k].save - 1 \subseteq Printed'
    BY <1>2, <1>4, <2>1, <2>2
  <2> QED BY <2>2, <2>3 DEF TableOK
<1>9. TableOK(c)
  BY <1>1, <1>2, <1>5, <1>6, <1>7, <1>8 DEF TableOK
<1> QED BY <1>2, <1>9 DEF c

\* A row may be added for a target that is not known.
LEMMA TableGrows ==
    ASSUME NEW b, TableOK(b), Len(b) = Len(known), NEW a \in Int, Inside(a), known_check(a) = 0,
           stack \in Seq(Kept), known \in Seq(Row), Distinct(known)
    PROVE  /\ TableOK(Append(b, Block(a))) /\ Len(Append(b, Block(a))) = Len(known) + 1
           /\ Append(b, Block(a))[Len(known) + 1] = Block(a)
           /\ \A k \in 1 .. Len(known) : Append(b, Block(a))[k] = b[k]
<1> DEFINE c == Append(b, Block(a))
           n == Len(known)
<1>1. b \in Seq(Row) /\ Len(b) = n /\ n \in Nat /\ Block(a) \in Row
  BY DEF TableOK, Block, Row
<1>2. c \in Seq(Row) /\ Len(c) = n + 1 /\ c[n + 1] = Block(a) /\ \A k \in 1 .. n : c[k] = b[k]
  BY <1>1
<1>3. Block(a).addr = a /\ Block(a).llll = a /\ Block(a).rrrr = a /\ a \in Address
  BY AddressIs DEF Block
<1> HIDE DEF c
<1>4. \A k \in 1 .. n : known[k].addr # a
  <2> SUFFICES ASSUME NEW k \in 1 .. n, known[k].addr = a  PROVE FALSE
    OBVIOUS
  <2>1. known_check(a) = k
    BY KnownCheckIs
  <2> QED BY <1>1, <2>1
<1>5. \A k \in 1 .. n : c[k].addr = known[k].addr
  BY <1>2 DEF TableOK
<1>6. \A k \in 1 .. Len(c) : k \in 1 .. n \/ k = n + 1
  BY <1>1, <1>2
<1>7. Distinct(c)
  <2> SUFFICES ASSUME NEW k \in 1 .. Len(c), NEW l \in 1 .. Len(c), c[k].addr = c[l].addr  PROVE k = l
    BY DEF Distinct
  <2> QED BY <1>2, <1>3, <1>4, <1>5, <1>6 DEF Distinct
<1>8. \A k \in 1 .. Len(c) : c[k].addr \in Address
  BY <1>1, <1>2, <1>3, <1>6 DEF TableOK
<1>9. ASSUME NEW k \in 1 .. Len(c)
      PROVE  /\ c[k].llll <= c[k].addr /\ c[k].addr <= c[k].rrrr
             /\ c[k].llll .. c[k].rrrr - 1 \subseteq Printed'
  <2>1. a .. a - 1 = {}
    OBVIOUS
  <2>2. CASE k = n + 1
    BY <1>2, <1>3, <2>1, <2>2
  <2>3. CASE k \in 1 .. n
    BY <1>1, <1>2, <2>3 DEF TableOK
  <2> QED BY <1>6, <2>2, <2>3
<1>10. \A k \in 1 .. Len(stack) :
         /\ stack[k].save \in BehindBranch'
         /\ \E m \in 1 .. n :
              known[m].addr = stack[k].head /\ c[m].llll .. stack[k].save - 1 \subseteq Printed'
  BY <1>2 DEF TableOK
<1>11. Len(c) >= n
  BY <1>1, <1>2
<1>12. TableOK(c)
  BY <1>2, <1>5, <1>7, <1>8, <1>9, <1>10, <1>11 DEF TableOK
<1> QED BY <1>2, <1>12 DEF c

\* The fields of what is kept, and of where the walk is.
LEMMA KeptIs ==
    ASSUME TravelInv, NEW k \in 1 .. Len(stack)
    PROVE  /\ stack[k] \in Kept /\ stack[k].head \in Address /\ stack[k].head \in Nat
           /\ stack[k].save \in Nat /\ stack[k].tail = stack[k].save /\ stack[k].head < stack[k].save
           /\ \E m \in 1 .. Len(known) : PrintedTo(m, stack[k].head, stack[k].save)
<1>1. stack[k] \in Kept
  BY DEF TravelInv, TravelTypes
<1> DEFINE e == stack[k]
<1>2. e.head \in Address /\ e.save \in Nat
  BY <1>1 DEF Kept
<1>3. e.head \in Nat
  BY <1>2, BoundsOK DEF Address
<1>4. e.tail = e.save /\ e.head < e.save /\ \E m \in 1 .. Len(known) : PrintedTo(m, e.head, e.save)
  BY DEF TravelInv, KeptTrue
<1> QED BY <1>1, <1>2, <1>3, <1>4

\* A step to table b that goes nowhere new: every row is printed, or taken for it.
StepTo(b) == known' = b /\ TableOK(b) /\ (\A k \in 1 .. Len(b) : b[k].addr \in Done') /\ frames' = frames

\* The same of the table after the step.
PrintedThen(m, head, to) ==
    m \in 1 .. Len(known') /\ known'[m].addr = head /\ known'[m].llll .. to - 1 \subseteq Printed'

\* What was kept is kept as true in the new table.
LEMMA StaysKept ==
    ASSUME TravelInv, TableOK(known'), NEW k \in 1 .. Len(stack)
    PROVE  /\ stack[k].tail = stack[k].save /\ stack[k].head < stack[k].save
           /\ stack[k].save \in BehindBranch'
           /\ \E m \in 1 .. Len(known') : m \in 1 .. Len(known) /\ known[m].addr = stack[k].head
                /\ known'[m].addr = stack[k].head
                /\ known'[m].llll .. stack[k].save - 1 \subseteq Printed'
<1>1. PICK m \in 1 .. Len(known) :
        known[m].addr = stack[k].head /\ known'[m].llll .. stack[k].save - 1 \subseteq Printed'
  BY DEF TableOK
<1>2. m \in 1 .. Len(known') /\ known'[m].addr = known[m].addr
  <2>1. known' \in Seq(Row) /\ Len(known') >= Len(known) /\ Len(known) \in Nat /\ Len(known') \in Nat
    BY DEF TableOK, TravelInv, TravelTypes
  <2> QED BY <2>1 DEF TableOK
<1> QED BY <1>1, <1>2, KeptIs DEF TableOK

\* Back to what is kept.
LEMMA GoesBack ==
    ASSUME TravelInv, pc = "walk", Back, StepTo(known'), After(seen)' \subseteq Done' \cup Later
    PROVE  TravelInv'
<1>0. /\ TableOK(known') /\ frames' = << >> /\ stack \in Seq(Kept) /\ Len(stack) \in Nat
      /\ known \in Seq(Row) /\ Len(known) \in Nat /\ Len(stack) < Len(known) /\ Distinct(known)
      /\ here \in [entry : Address, j : Nat, self : Nat]
  BY DEF StepTo, TravelInv, TravelTypes, Once
<1>1. known' \in Seq(Row) /\ Len(known') \in Nat /\ Len(known') >= Len(known)
  BY <1>0 DEF TableOK
<1>2. Distinct(known') /\ \A k \in 1 .. Len(known') : known'[k].addr \in Address
  BY <1>0 DEF TableOK
<1>3. RowsTrue'
  BY <1>0 DEF TableOK, RowsTrue
<1>4. Listed'
  BY DEF StepTo, Listed
<1>5. Saved \in SUBSET (1 .. Len(stack))
  BY <1>0 DEF Saved
<1>6. CASE Saved = {}
  <2>1. pc' = "sort" /\ stack' = << >> /\ here' = here
    BY <1>6 DEF Back
  <2>2. TravelTypes'
    BY <1>0, <1>1, <2>1 DEF TravelTypes
  <2>3. Once'
    BY <1>0, <1>1, <1>2, <2>1 DEF Once
  <2>4. HereTrue' /\ KeptTrue'
    BY <2>1 DEF HereTrue, KeptTrue
  <2>5. Reached'
    <3>1. Later = {}
      BY <1>6 DEF Later
    <3> QED BY <2>1, <3>1 DEF Reached
  <2> QED BY <1>3, <1>4, <2>1, <2>2, <2>3, <2>4, <2>5 DEF TravelInv
<1>7. CASE Saved # {}
  <2> DEFINE s == Max(Saved)
             e == stack[s]
  <2>1. s \in Saved /\ \A k \in Saved : k <= s
    <3>1. 0 \in Nat /\ Saved \in SUBSET (0 .. Len(stack))
      BY <1>0, <1>5
    <3> QED BY <1>0, <1>7, <3>1, MaxIs
  <2>2. /\ stack' = SubSeq(stack, 1, s - 1) /\ pc' = "walk"
        /\ here' = [entry |-> e.head, j |-> e.save, self |-> known_check(e.head)]
    BY <1>7 DEF Back
  <2> HIDE DEF s
  <2>3. s \in 1 .. Len(stack) /\ s \in Nat
    BY <1>5, <2>1
  <2>4. /\ stack' \in Seq(Kept) /\ Len(stack') = s - 1
        /\ \A k \in 1 .. s - 1 : k \in 1 .. Len(stack) /\ stack'[k] = stack[k]
    <3>1. 1 \in 1 .. Len(stack) + 1 /\ s - 1 \in 1 - 1 .. Len(stack)
      BY <1>0, <2>3
    <3>2. /\ SubSeq(stack, 1, s - 1) \in Seq(Kept) /\ Len(SubSeq(stack, 1, s - 1)) = s - 1 - 1 + 1
          /\ \A k \in 1 .. s - 1 - 1 + 1 : SubSeq(stack, 1, s - 1)[k] = stack[1 + k - 1]
      BY <1>0, <3>1, SubSeqIs
    <3> QED BY <1>0, <2>2, <2>3, <3>2
  <2>5. /\ e.head \in Address /\ e.head \in Nat /\ e.save \in Nat /\ e.head < e.save
    BY <2>3, KeptIs
  <2>6. PICK m \in 1 .. Len(known') : m \in 1 .. Len(known) /\ known[m].addr = e.head
          /\ known'[m].addr = e.head /\ known'[m].llll .. e.save - 1 \subseteq Printed'
    BY <1>0, <2>3, StaysKept
  <2>7. known_check(e.head) = m
    BY <1>0, <2>6, KnownCheckIs
  <2>8. here'.entry = e.head /\ here'.j = e.save /\ here'.self = m
        /\ here' \in [entry : Address, j : Nat, self : Nat]
    <3>1. m \in Nat
      OBVIOUS
    <3> HIDE DEF e
    <3> QED BY <2>2, <2>5, <2>7, <3>1
  <2> HIDE DEF e
  <2>9. TravelTypes'
    BY <1>0, <1>1, <2>2, <2>4, <2>8 DEF TravelTypes
  <2>10. Once'
    <3>1. Len(stack) < Len(known) /\ Len(known') >= Len(known) /\ Len(stack') < Len(stack)
      BY <1>0, <1>1, <1>2, <2>3, <2>4 DEF Once
    <3>2. Len(stack') < Len(known')
      BY <3>1, <1>0, <1>1, <2>4
    <3> QED BY <3>2, <1>0, <1>1, <1>2 DEF Once
  <2>11. HereTrue'
    BY <2>5, <2>6, <2>8 DEF HereTrue, PrintedTo
  <2>12. KeptTrue'
    <3> SUFFICES ASSUME NEW k \in 1 .. s - 1
                 PROVE  /\ stack'[k].tail = stack'[k].save /\ stack'[k].head < stack'[k].save
                        /\ stack'[k].save \in BehindBranch'
                        /\ \E n \in 1 .. Len(known') : PrintedThen(n, stack'[k].head, stack'[k].save)
      BY <2>4 DEF KeptTrue, PrintedTo, PrintedThen
    <3>1. k \in 1 .. Len(stack) /\ stack'[k] = stack[k]
      BY <2>4
    <3>2. /\ stack[k].tail = stack[k].save /\ stack[k].head < stack[k].save
          /\ stack[k].save \in BehindBranch'
          /\ \E n \in 1 .. Len(known') : n \in 1 .. Len(known) /\ known[n].addr = stack[k].head
               /\ known'[n].addr = stack[k].head
               /\ known'[n].llll .. stack[k].save - 1 \subseteq Printed'
      BY <1>0, <3>1, StaysKept
    <3> QED BY <3>1, <3>2 DEF PrintedThen
  <2>13. Later \subseteq {here'.j} \cup Later'
    <3> SUFFICES ASSUME NEW k \in Saved  PROVE stack[k].save \in {here'.j} \cup Later'
      BY DEF Later
    <3>1. CASE k = s
      BY <2>8, <3>1 DEF e
    <3>2. CASE k # s
      <4>1. k \in 1 .. s - 1
        BY <1>5, <2>1, <2>3, <3>2
      <4>2. stack'[k] = stack[k] /\ k \in DOMAIN stack'
        BY <2>3, <2>4, <4>1
      <4>3. k \in Saved'
        BY <4>2 DEF Saved
      <4> QED BY <4>2, <4>3 DEF Later
    <3> QED BY <3>1, <3>2
  <2>14. Reached'
    BY <2>2, <2>13 DEF Reached
  <2> QED BY <1>3, <1>4, <2>2, <2>9, <2>10, <2>11, <2>12, <2>14 DEF TravelInv
<1> QED BY <1>6, <1>7

\* On behind the instruction.
LEMMA GoesBehind ==
    ASSUME TravelInv, pc = "walk", NEW i, Skip(i), i.size \in Nat, StepTo(known'),
           known'[here.self].llll .. Behind(i) - 1 \subseteq Printed',
           After(seen)' \subseteq Done' \cup {Behind(i)} \cup Later
    PROVE  TravelInv'
<1>0. /\ TableOK(known') /\ frames' = << >> /\ stack \in Seq(Kept) /\ Len(stack) \in Nat
      /\ known \in Seq(Row) /\ Len(known) \in Nat /\ Len(stack) < Len(known)
      /\ here \in [entry : Address, j : Nat, self : Nat]
      /\ here.self \in 1 .. Len(known) /\ known[here.self].addr = here.entry /\ here.entry <= here.j
  BY DEF StepTo, TravelInv, TravelTypes, Once, HereTrue, PrintedTo
<1>1. known' \in Seq(Row) /\ Len(known') \in Nat /\ Len(known') >= Len(known)
  BY <1>0 DEF TableOK
<1>2. Distinct(known') /\ \A k \in 1 .. Len(known') : known'[k].addr \in Address
  BY <1>0 DEF TableOK
<1>3. RowsTrue'
  BY <1>0 DEF TableOK, RowsTrue
<1>4. Listed'
  BY DEF StepTo, Listed
<1>5. UNCHANGED <<stack, pc>> /\ here' = [here EXCEPT !.j = Behind(i)]
  BY DEF Skip
<1>6. Behind(i) \in Nat /\ Behind(i) >= here.j /\ here.j \in Nat /\ here.entry \in Nat
  BY <1>0, BoundsOK DEF Behind, Address
<1>7. here'.entry = here.entry /\ here'.j = Behind(i) /\ here'.self = here.self
      /\ here' \in [entry : Address, j : Nat, self : Nat]
  BY <1>0, <1>5, <1>6
<1>8. TravelTypes' /\ Once'
  BY <1>0, <1>1, <1>2, <1>5, <1>7 DEF TravelTypes, Once, TravelInv
<1>9. HereTrue'
  <2>1. here.self \in 1 .. Len(known') /\ known'[here.self].addr = here.entry
    BY <1>0, <1>1 DEF TableOK
  <2>2. here.entry <= Behind(i)
    BY <1>0, <1>6
  <2> QED BY <1>7, <2>1, <2>2 DEF HereTrue, PrintedTo
<1>10. KeptTrue'
  <2> SUFFICES ASSUME NEW k \in 1 .. Len(stack)
               PROVE  /\ stack[k].tail = stack[k].save /\ stack[k].head < stack[k].save
                      /\ stack[k].save \in BehindBranch'
                      /\ \E n \in 1 .. Len(known') : PrintedThen(n, stack[k].head, stack[k].save)
    BY <1>5 DEF KeptTrue, PrintedTo, PrintedThen
  <2> QED BY <1>0, <1>5, StaysKept DEF PrintedThen
<1>11. Later' = Later
  BY <1>5 DEF Later, Saved
<1>12. Reached'
  BY <1>5, <1>7, <1>11 DEF Reached
<1> QED BY <1>3, <1>4, <1>5, <1>8, <1>9, <1>10, <1>12 DEF TravelInv

\* Into a new block.
LEMMA Enters ==
    ASSUME TravelInv, pc = "walk", NEW i, NEW type \in {"call", "cond", "jump"}, Enter(i, type),
           i.size \in Nat, i.size > 0, i.to \in Address, frames' = frames,
           TableOK(known'), Len(known') = Len(known) + 1, known'[Len(known) + 1] = Block(i.to),
           \A k \in 1 .. Len(known) : known'[k].addr \in Done',
           known'[here.self].llll .. Behind(i) - 1 \subseteq Printed', Behind(i) \in BehindBranch',
           After(seen)' \subseteq Done' \cup {i.to} \cup Later \cup (IF type = "jump" THEN {} ELSE {Behind(i)})
    PROVE  TravelInv'
<1> DEFINE e == [head |-> here.entry, tail |-> Behind(i), save |-> Behind(i), type |-> type]
           n == Len(stack)
<1>0. /\ frames' = << >> /\ stack \in Seq(Kept) /\ n \in Nat
      /\ known \in Seq(Row) /\ Len(known) \in Nat /\ n < Len(known)
      /\ here \in [entry : Address, j : Nat, self : Nat]
      /\ here.self \in 1 .. Len(known) /\ known[here.self].addr = here.entry /\ here.entry <= here.j
  BY DEF TravelInv, TravelTypes, Once, HereTrue, PrintedTo
<1>1. known' \in Seq(Row) /\ Len(known') \in Nat
  BY DEF TableOK
<1>2. Distinct(known') /\ \A k \in 1 .. Len(known') : known'[k].addr \in Address
  BY DEF TableOK
<1>3. RowsTrue'
  BY DEF TableOK, RowsTrue
<1>4. Block(i.to).addr = i.to /\ Block(i.to).llll = i.to /\ i.to \in Nat
  BY BoundsOK DEF Block, Address
<1>5. /\ stack' = Append(stack, e) /\ pc' = pc
      /\ here' = [entry |-> i.to, j |-> i.to, self |-> Len(known) + 1]
  BY DEF Enter
<1>6. Behind(i) \in Nat /\ Behind(i) > here.entry /\ here.entry \in Address
  BY <1>0, BoundsOK DEF Behind, Address
<1>7. e \in Kept
  BY <1>6 DEF Kept
<1>8. /\ stack' \in Seq(Kept) /\ Len(stack') = n + 1 /\ stack'[n + 1] = e
      /\ \A k \in 1 .. n : stack'[k] = stack[k]
  <2> HIDE DEF e
  <2> QED BY <1>0, <1>5, <1>7
<1>9. here'.entry = i.to /\ here'.j = i.to /\ here'.self = Len(known) + 1
      /\ here' \in [entry : Address, j : Nat, self : Nat]
  BY <1>0, <1>4, <1>5
<1>10. \A k \in 1 .. Len(known') : k \in 1 .. Len(known) \/ k = Len(known) + 1
  <2>1. Len(known) \in Nat /\ Len(known') = Len(known) + 1
    BY <1>0
  <2> QED BY ONLY <2>1
<1>11. TravelTypes' /\ Once'
  BY <1>0, <1>1, <1>2, <1>5, <1>8, <1>9 DEF TravelTypes, Once, TravelInv
<1>12. HereTrue'
  <2>1. Len(known) + 1 \in 1 .. Len(known') /\ known'[Len(known) + 1].addr = i.to
    BY <1>0, <1>4
  <2>2. i.to .. i.to - 1 = {} /\ i.to <= i.to
    BY <1>4
  <2> QED BY <1>4, <1>9, <2>1, <2>2 DEF HereTrue, PrintedTo
<1>13. KeptTrue'
  <2> SUFFICES ASSUME NEW k \in 1 .. n + 1
               PROVE  /\ stack'[k].tail = stack'[k].save /\ stack'[k].head < stack'[k].save
                      /\ stack'[k].save \in BehindBranch'
                      /\ \E m \in 1 .. Len(known') : PrintedThen(m, stack'[k].head, stack'[k].save)
    BY <1>8 DEF KeptTrue, PrintedTo, PrintedThen
  <2>1. CASE k \in 1 .. n
    <3>1. stack'[k] = stack[k]
      BY <1>8, <2>1
    <3>2. /\ stack[k].tail = stack[k].save /\ stack[k].head < stack[k].save
          /\ stack[k].save \in BehindBranch'
          /\ \E m \in 1 .. Len(known') : m \in 1 .. Len(known) /\ known[m].addr = stack[k].head
               /\ known'[m].addr = stack[k].head
               /\ known'[m].llll .. stack[k].save - 1 \subseteq Printed'
      BY <2>1, StaysKept
    <3> QED BY <3>1, <3>2 DEF PrintedThen
  <2>2. CASE k = n + 1
    <3>1. stack'[k].head = here.entry /\ stack'[k].save = Behind(i) /\ stack'[k].tail = Behind(i)
      BY <1>8, <2>2
    <3>2. here.self \in 1 .. Len(known') /\ known'[here.self].addr = here.entry
      BY <1>0 DEF TableOK
    <3>3. PrintedThen(here.self, stack'[k].head, stack'[k].save)
      <4>1. /\ here.self \in 1 .. Len(known') /\ known'[here.self].addr = stack'[k].head
            /\ known'[here.self].llll .. stack'[k].save - 1 \subseteq Printed'
        BY <3>1, <3>2
      <4> QED BY <4>1 DEF PrintedThen
    <3> QED BY <1>6, <3>1, <3>2, <3>3
  <2> QED BY <1>0, <2>1, <2>2
<1>14. Listed'
  <2> SUFFICES ASSUME NEW k \in 1 .. Len(known')
               PROVE  known'[k].addr \in Done' \/ (pc' = "walk" /\ here'.j = here'.entry
                                                   /\ here'.entry = known'[k].addr)
    BY DEF Listed
  <2> QED BY <1>4, <1>5, <1>9, <1>10
<1>15. Later \subseteq Later'
  <2> SUFFICES ASSUME NEW k \in Saved  PROVE stack[k].save \in Later'
    BY DEF Later
  <2>1. k \in 1 .. n /\ stack[k].type \in {"call", "cond"}
    BY <1>0 DEF Saved
  <2>2. stack'[k] = stack[k] /\ k \in DOMAIN stack'
    BY <1>0, <1>8, <2>1
  <2>3. k \in Saved'
    BY <2>1, <2>2 DEF Saved
  <2> QED BY <2>2, <2>3 DEF Later
<1>16. type # "jump" => Behind(i) \in Later'
  <2> SUFFICES ASSUME type # "jump"  PROVE Behind(i) \in Later'
    OBVIOUS
  <2>1. n + 1 \in DOMAIN stack' /\ stack'[n + 1].type \in {"call", "cond"} /\ stack'[n + 1].save = Behind(i)
    BY <1>0, <1>8
  <2>2. n + 1 \in Saved'
    BY <2>1 DEF Saved
  <2> QED BY <2>1, <2>2 DEF Later
<1>17. Reached'
  BY <1>5, <1>9, <1>15, <1>16 DEF Reached
<1> QED BY <1>3, <1>5, <1>11, <1>12, <1>13, <1>14, <1>17 DEF TravelInv

\* What holds when travel has read an instruction, whatever it does about it.
Came(i) ==
    /\ here.j \in Address /\ here.self \in 1 .. Len(known) /\ known[here.self].llll \in Int
    /\ known[here.self].llll <= here.entry /\ here.entry \in Int /\ here.entry <= here.j
    /\ known[here.self].addr = here.entry /\ here.j \in Int
    /\ i \in Instr /\ i.size \in Nat /\ i.size > 0 /\ i.to \in Int
    /\ Printed \subseteq Printed' /\ Done \subseteq Done' /\ BehindBranch \subseteq BehindBranch'
    /\ i.kind \in {"cond", "jump"} => i.to \in Targets'
    /\ i.kind \in {"cond", "jump", "call"} => Behind(i) \in BehindBranch'
    /\ known[here.self].llll .. Behind(i) - 1 \subseteq Printed'
    /\ \A k \in 1 .. Len(known) : known[k].addr \in Done'
    /\ After(seen)' \subseteq Done' \cup Later \cup AfterIt(here.j, i)

LEMMA Comes ==
    ASSUME TravelInv, CodeRead, InTravel, NEW i \in Held(here.j), Disasm(here.j, i)
    PROVE  Came(i) /\ CodeRead' /\ pc = "walk"
<1>0. /\ pc = "walk" /\ here \in [entry : Address, j : Nat, self : Nat] /\ here.j < len
      /\ known \in Seq(Row) /\ here.self \in 1 .. Len(known) /\ known[here.self].addr = here.entry
      /\ here.entry <= here.j /\ known[here.self].llll .. here.j - 1 \subseteq Printed
  BY DEF InTravel, TravelInv, TravelTypes, HereTrue, PrintedTo
<1>1. here.j \in Address /\ here.j \in Nat /\ here.entry \in Int
  BY <1>0, BoundsOK DEF Address
<1>2. known[here.self].llll \in Int /\ known[here.self].llll <= here.entry
  <2>1. known[here.self] \in Row
    BY <1>0
  <2> QED BY <1>0, <2>1, RowIs DEF TravelInv, RowsTrue
<1>3. CodeRead' /\ i \in Instr
  BY <1>1, ReadsAre
<1>4. i.size \in Nat /\ i.size > 0 /\ i.to \in Int
  BY <1>3, InstrIs
<1>5. /\ Printed \subseteq Printed' /\ here.j .. here.j + i.size - 1 \subseteq Printed' /\ here.j \in Printed'
      /\ BehindBranch \subseteq BehindBranch' /\ Done \subseteq Done'
      /\ i.kind \in {"cond", "jump"} => i.to \in Targets'
      /\ i.kind \in {"cond", "jump", "call"} => here.j + i.size \in BehindBranch'
      /\ After(seen)' \subseteq After(seen) \cup AfterIt(here.j, i)
  BY <1>1, PrintsMore
<1>6. known[here.self].llll .. Behind(i) - 1 \subseteq Printed'
  <2> SUFFICES ASSUME NEW a \in known[here.self].llll .. Behind(i) - 1  PROVE a \in Printed'
    OBVIOUS
  <2>1. a \in known[here.self].llll .. here.j - 1 \/ a \in here.j .. here.j + i.size - 1
    BY <1>1, <1>2, <1>4 DEF Behind
  <2> QED BY <1>0, <1>5, <2>1
<1>7. Printed' \subseteq Done'
  BY DEF Done
<1>8. \A k \in 1 .. Len(known) : known[k].addr \in Done'
  BY <1>5, <1>7 DEF TravelInv, Listed
<1>9. After(seen)' \subseteq Done' \cup Later \cup AfterIt(here.j, i)
  <2>1. After(seen) \subseteq Done \cup {here.j} \cup Later
    BY <1>0 DEF TravelInv, Reached
  <2> QED BY <1>5, <1>7, <2>1
<1>10. i.kind \in {"cond", "jump", "call"} => Behind(i) \in BehindBranch'
  BY <1>5 DEF Behind
<1> QED BY <1>0, <1>1, <1>2, <1>3, <1>4, <1>5, <1>6, <1>8, <1>9, <1>10 DEF Came

\* The tables a step may leave: the same, with the row of this block stretched, or with a row
\* added to that.
LEMMA Tables ==
    ASSUME TravelInv, NEW i, Came(i)
    PROVE  /\ TableOK(known) /\ TableOK(Stretched(i)) /\ Len(Stretched(i)) = Len(known)
           /\ Stretched(i)[here.self].llll = known[here.self].llll
           /\ \A k \in 1 .. Len(known) : Stretched(i)[k].addr = known[k].addr
<1> DEFINE m == here.self
           r == [known[m] EXCEPT !.rrrr = Behind(i)]
           c == [known EXCEPT ![m] = r]
<1>0. /\ known \in Seq(Row) /\ stack \in Seq(Kept) /\ m \in 1 .. Len(known)
      /\ here.j \in Int /\ i.size \in Nat /\ i.size > 0 /\ here.entry \in Int
      /\ known[m].addr = here.entry /\ here.entry <= here.j
      /\ known[m].llll <= here.entry /\ known[m].llll \in Int
      /\ known[m].llll .. Behind(i) - 1 \subseteq Printed'
  BY DEF TravelInv, TravelTypes, Came
<1>1. TableOK(known)
  BY TableStays DEF Came
<1>2. known[m] \in Row /\ Behind(i) \in Int /\ here.entry <= Behind(i)
  BY <1>0 DEF Behind
<1>3. r \in Row /\ r.addr = known[m].addr /\ r.llll = known[m].llll /\ r.rrrr = Behind(i)
  BY <1>2 DEF Row
<1>4. Stretched(i) = c
  BY DEF Stretched
<1> HIDE DEF r
<1>5. /\ r.llll <= r.addr /\ r.addr <= r.rrrr /\ r.llll .. r.rrrr - 1 \subseteq Printed'
      /\ \A to \in Nat : known[m].llll .. to - 1 \subseteq Printed' => r.llll .. to - 1 \subseteq Printed'
  BY <1>0, <1>2, <1>3
<1> HIDE DEF m
<1>6. TableOK(c) /\ Len(c) = Len(known)
  BY <1>0, <1>1, <1>3, <1>5, TableChanges
<1>7. c[m] = r /\ \A k \in 1 .. Len(known) : c[k] = IF k = m THEN r ELSE known[k]
  BY <1>0, <1>3, Replaced
<1> QED BY <1>0, <1>1, <1>3, <1>4, <1>6, <1>7 DEF m

\* A target that is inside the block, known, open, or between the ends of an open block is
\* printed, or taken for it.
LEMMA Covered ==
    ASSUME TravelInv, NEW i, Came(i), pc = "walk"
    PROVE  /\ StillInside(i.to) => i.to \in Done'
           /\ known_check(i.to) # 0 => i.to \in Done'
           /\ checkrecur(i.to) => i.to \in Done'
           /\ i.kind \in {"cond", "jump"} /\ checkmerge(i.to) => i.to \in Done'
<1>0. /\ known \in Seq(Row) /\ Distinct(known) /\ stack \in Seq(Kept)
      /\ DOMAIN stack = 1 .. Len(stack) /\ i.to \in Int
  BY DEF TravelInv, TravelTypes, Once, Came
<1>1. Printed' \subseteq Done' /\ Printed \subseteq Done'
  BY DEF Done, Came
<1>2. ASSUME StillInside(i.to)  PROVE i.to \in Done'
  <2>1. /\ i.to >= here.entry /\ i.to < here.j /\ here.j \in Int /\ here.entry \in Int
        /\ known[here.self].llll <= here.entry /\ known[here.self].llll \in Int
        /\ known[here.self].llll .. here.j - 1 \subseteq Printed
    BY <1>2 DEF StillInside, Came, TravelInv, HereTrue, PrintedTo
  <2>2. i.to \in known[here.self].llll .. here.j - 1
    BY <1>0, <2>1
  <2> QED BY <1>1, <2>1, <2>2
<1>3. ASSUME known_check(i.to) # 0  PROVE i.to \in Done'
  <2>1. known_check(i.to) \in 1 .. Len(known) /\ known[known_check(i.to)].addr = i.to
    BY <1>0, <1>3, KnownCheckIs
  <2> QED BY <2>1 DEF Came
\* All of an open block is printed.
<1>4. ASSUME NEW k \in 1 .. Len(stack), stack[k].head <= i.to, i.to < stack[k].save  PROVE i.to \in Done'
  <2>1. stack[k].head \in Nat /\ stack[k].save \in Nat
    BY KeptIs
  <2>2. PICK m \in 1 .. Len(known) : known[m].addr = stack[k].head /\ known[m].llll .. stack[k].save - 1 \subseteq Printed
    BY KeptIs DEF PrintedTo
  <2>3. known[m].llll <= known[m].addr /\ known[m].llll \in Int
    <3>1. known[m] \in Row
      BY <1>0
    <3> QED BY <3>1, RowIs DEF TravelInv, RowsTrue
  <2>4. i.to \in known[m].llll .. stack[k].save - 1
    BY <1>0, <1>4, <2>1, <2>2, <2>3
  <2> QED BY <1>1, <2>2, <2>4
<1>5. ASSUME checkrecur(i.to)  PROVE i.to \in Done'
  <2>1. PICK k \in 1 .. Len(stack) : stack[k].head = i.to
    BY <1>0, <1>5 DEF checkrecur
  <2>2. stack[k].head \in Nat /\ stack[k].save \in Nat /\ stack[k].head < stack[k].save
    BY KeptIs
  <2> QED BY <1>4, <2>1, <2>2
<1>6. ASSUME i.kind \in {"cond", "jump"}, checkmerge(i.to)  PROVE i.to \in Done'
  <2>1. PICK k \in 1 .. Len(stack) : stack[k].head <= i.to /\ i.to <= stack[k].tail
    BY <1>0, <1>6 DEF checkmerge
  <2>2. stack[k].head \in Nat /\ stack[k].save \in Nat /\ stack[k].tail = stack[k].save
    BY KeptIs
  <2>3. CASE i.to < stack[k].save
    BY <1>4, <2>1, <2>3
  <2>4. CASE i.to = stack[k].save
    <3>1. stack[k].save \in BehindBranch'
      BY DEF Came, TravelInv, KeptTrue
    <3>2. i.to \in Targets'
      BY <1>6 DEF Came
    <3> QED BY <2>4, <3>1, <3>2 DEF Done
  <2> QED BY <1>0, <2>1, <2>2, <2>3, <2>4
<1> QED BY <1>2, <1>3, <1>5, <1>6

\* The block is stretched, and the walk goes nowhere new.
LEMMA Stretches ==
    ASSUME TravelInv, NEW i, Came(i), known' = Stretched(i), frames' = frames
    PROVE  StepTo(known') /\ known'[here.self].llll .. Behind(i) - 1 \subseteq Printed'
<1>1. /\ TableOK(Stretched(i)) /\ Len(Stretched(i)) = Len(known)
      /\ Stretched(i)[here.self].llll = known[here.self].llll
      /\ \A k \in 1 .. Len(known) : Stretched(i)[k].addr = known[k].addr
  BY Tables
<1>2. \A k \in 1 .. Len(known') : known'[k].addr \in Done'
  BY <1>1 DEF Came
<1>3. known'[here.self].llll .. Behind(i) - 1 \subseteq Printed'
  BY <1>1 DEF Came
<1> QED BY <1>1, <1>2, <1>3 DEF StepTo

\* The block is stretched, and a row added.
LEMMA Adds ==
    ASSUME TravelInv, NEW i, Came(i), Inside(i.to), known_check(i.to) = 0,
           known' = Append(Stretched(i), Block(i.to)), frames' = frames
    PROVE  /\ TableOK(known') /\ Len(known') = Len(known) + 1 /\ known'[Len(known) + 1] = Block(i.to)
           /\ \A k \in 1 .. Len(known) : known'[k].addr \in Done'
           /\ known'[here.self].llll .. Behind(i) - 1 \subseteq Printed' /\ i.to \in Address
           /\ i.to \in Done' => StepTo(known')
<1>0. /\ stack \in Seq(Kept) /\ known \in Seq(Row) /\ Distinct(known) /\ i.to \in Int
      /\ here.self \in 1 .. Len(known) /\ Len(known) \in Nat
  BY DEF TravelInv, TravelTypes, Once, Came
<1>1. /\ TableOK(Stretched(i)) /\ Len(Stretched(i)) = Len(known)
      /\ Stretched(i)[here.self].llll = known[here.self].llll
      /\ \A k \in 1 .. Len(known) : Stretched(i)[k].addr = known[k].addr
  BY Tables
<1>2. /\ TableOK(known') /\ Len(known') = Len(known) + 1 /\ known'[Len(known) + 1] = Block(i.to)
      /\ \A k \in 1 .. Len(known) : known'[k] = Stretched(i)[k]
  BY <1>0, <1>1, TableGrows
<1>3. \A k \in 1 .. Len(known) : known'[k].addr \in Done'
  BY <1>1, <1>2 DEF Came
<1>4. known'[here.self].llll .. Behind(i) - 1 \subseteq Printed'
  BY <1>0, <1>1, <1>2 DEF Came
<1>5. i.to \in Address
  BY <1>0, AddressIs
<1>6. ASSUME i.to \in Done'  PROVE StepTo(known')
  <2>1. Block(i.to).addr = i.to
    BY DEF Block
  <2>2. \A k \in 1 .. Len(known') : k \in 1 .. Len(known) \/ k = Len(known) + 1
    BY ONLY <1>0, <1>2
  <2>3. \A k \in 1 .. Len(known') : known'[k].addr \in Done'
    BY <1>2, <1>3, <1>6, <2>1, <2>2
  <2> QED BY <1>2, <2>3 DEF StepTo
<1> QED BY <1>2, <1>3, <1>4, <1>5, <1>6

\* A step of travel on an instruction keeps the invariant.
LEMMA TravelKeeps ==
    ASSUME TravelInv, CodeRead, Bounded, Travels, InTravel, NEW i \in Held(here.j), travel_one(i)
    PROVE  /\ CodeRead' /\ Bounded'
           /\ IF pc' = "overrun" THEN TablesBounded' ELSE TravelInv'
<1>1. Disasm(here.j, i) /\ frames' = frames
  BY DEF travel_one, travel_ret, travel_call, travel_cond, travel_jump, travel_plain
<1>2. Came(i) /\ CodeRead' /\ pc = "walk"
  BY <1>1, Comes
<1>3. /\ i.size \in Nat /\ i.size > 0 /\ i.to \in Int
      /\ After(seen)' \subseteq Done' \cup Later \cup AfterIt(here.j, i)
      /\ i.kind \in {"cond", "jump", "call"} => Behind(i) \in BehindBranch'
  BY <1>2 DEF Came
<1>4. /\ StillInside(i.to) => i.to \in Done'
      /\ known_check(i.to) # 0 => i.to \in Done'
      /\ checkrecur(i.to) => i.to \in Done'
      /\ i.kind \in {"cond", "jump"} /\ checkmerge(i.to) => i.to \in Done'
  BY <1>2, Covered
\* What comes after the instruction, by its kind.
<1>5. /\ i.kind = "ret" => AfterIt(here.j, i) = {}
      /\ i.kind \in {"call", "cond"} => AfterIt(here.j, i) \subseteq {Behind(i), i.to}
      /\ i.kind = "jump" => AfterIt(here.j, i) \subseteq {i.to}
      /\ i.kind = "plain" => AfterIt(here.j, i) \subseteq {Behind(i)}
      /\ ~Inside(i.to) => i.to \notin AfterIt(here.j, i)
  <2>1. ~Inside(i.to) => i.to \notin Address
    BY <1>3, AddressIs
  <2> QED BY <2>1 DEF AfterIt, Behind
\* The table is bounded, and so it is when it is overrun.
<1> DEFINE Goal == Bounded' /\ IF pc' = "overrun" THEN TablesBounded' ELSE TravelInv'
<1>20. cmd' = cmd /\ Room' = Room
  BY DEF travel_one, travel_ret, travel_call, travel_cond, travel_jump, travel_plain, Room
<1>21. here.j \in Address
  BY <1>2 DEF Came
<1>22. \A at \in Entries : Goals(at) \subseteq Goals(at)'
  BY <1>1, <1>20, <1>21, GoalsGrow
<1>23. ASSUME i.kind \in {"cond", "jump", "call"}, Inside(i.to)  PROVE \A at \in Entries : i.to \in Goals(at)'
  <2>1. i.kind \in Entering
    BY <1>23 DEF Entering, Travels
  <2> QED BY <1>1, <1>20, <1>21, <1>23, <2>1, GoalsGrow
<1>24. /\ known \in Seq(Row) /\ DOMAIN known = 1 .. Len(known) /\ Len(known) \in Nat
       /\ Travels' /\ Len(known) <= Room /\ Room \in Nat
  BY <1>20, TablesOK DEF TravelInv, TravelTypes, Travels, Bounded, Room
<1>25. ASSUME known' \in Seq(Row), Len(known') = Len(known),
              \A k \in 1 .. Len(known) : known'[k].addr = known[k].addr
       PROVE  Bounded' /\ DOMAIN known' = 1 .. Len(known') /\ \A k \in DOMAIN known : Addr(k)' = Addr(k)
  <2>1. DOMAIN known' = 1 .. Len(known)
    BY <1>25
  <2>2. \A k \in DOMAIN known' : k \in DOMAIN known /\ Addr(k)' = Addr(k)
    BY <1>24, <1>25, <2>1 DEF Addr
  <2> QED BY <1>20, <1>22, <1>24, <1>25, <2>1, <2>2, StaysBounded
<1>26. /\ Stretched(i) \in Seq(Row) /\ Len(Stretched(i)) = Len(known)
       /\ \A k \in 1 .. Len(known) : Stretched(i)[k].addr = known[k].addr
  BY <1>2, Tables DEF TableOK
<1>27. ASSUME known' = Stretched(i)  PROVE Bounded'
  BY <1>25, <1>26, <1>27
<1>28. ASSUME known' = Append(Stretched(i), Block(i.to)), ~Full, Inside(i.to),
              i.kind \in {"cond", "jump", "call"}
       PROVE  Bounded'
  <2>1. Block(i.to) \in Row /\ Block(i.to).addr = i.to
    BY <1>3 DEF Block, Row
  <2>2. /\ DOMAIN known' = 1 .. Len(known) + 1 /\ Len(known') = Len(known) + 1
        /\ known'[Len(known) + 1] = Block(i.to) /\ \A k \in 1 .. Len(known) : known'[k] = Stretched(i)[k]
    <3> DEFINE c == Stretched(i)
               r == Block(i.to)
    <3>1. c \in Seq(Row) /\ Len(c) = Len(known) /\ r \in Row /\ known' = Append(c, r) /\ Len(known) \in Nat
      BY <1>24, <1>26, <1>28, <2>1
    <3> HIDE DEF c, r
    <3>2. /\ DOMAIN known' = 1 .. Len(known) + 1 /\ Len(known') = Len(known) + 1
          /\ known'[Len(known) + 1] = r /\ \A k \in 1 .. Len(known) : known'[k] = c[k]
      BY ONLY <3>1
    <3> QED BY <3>2 DEF c, r
  <2>3. ASSUME NEW k \in DOMAIN known'
        PROVE  \/ k \in DOMAIN known /\ Addr(k)' = Addr(k)
               \/ \A at \in Entries : Addr(k)' \in Goals(at)'
    <3>1. k \in 1 .. Len(known) \/ k = Len(known) + 1
      BY ONLY <1>24, <2>2, <2>3
    <3>2. CASE k = Len(known) + 1
      <4>1. Addr(k)' = i.to
        BY <1>24, <2>1, <2>2, <3>2 DEF Addr
      <4> QED BY <1>23, <1>28, <4>1
    <3>3. CASE k \in 1 .. Len(known)
      <4>1. Addr(k)' = Addr(k)
        BY <1>24, <1>26, <2>2, <3>3 DEF Addr
      <4> QED BY <1>24, <3>3, <4>1
    <3> QED BY <3>1, <3>2, <3>3
  <2>4. Len(known) # Room
    BY <1>28 DEF Full
  <2>7. \A n, r \in Nat : n <= r /\ n # r => n + 1 <= r
    OBVIOUS
  <2>8. Len(known) \in Nat /\ Room \in Nat /\ Len(known) <= Room /\ Len(known') = Len(known) + 1
    BY <1>24, <2>2
  <2>5. Len(known') <= Room
    BY ONLY <2>4, <2>7, <2>8
  <2> QED BY <1>20, <1>22, <2>3, <2>5, StaysBounded
<1>29. ASSUME Overrun(i), Full, Inside(i.to), known_check(i.to) = 0, i.kind \in {"cond", "jump", "call"}
       PROVE  Goal
  <2>0. pc' = "overrun" /\ known' = Stretched(i) /\ UNCHANGED <<stack, frames>>
    BY <1>1, <1>29 DEF Overrun
  <2>1. /\ DOMAIN known' = 1 .. Len(known') /\ Len(known') = Len(known)
        /\ \A k \in DOMAIN known : Addr(k)' = Addr(k)
    BY <1>25, <1>26, <2>0
  <2>2. Distinct(known)
    BY DEF TravelInv, Once
  <2>3. ASSUME NEW k \in DOMAIN known  PROVE Addr(k) # i.to
    <3>1. known[k].addr = i.to => known_check(i.to) = k
      BY <1>24, <2>2, KnownCheckIs
    <3> QED BY <1>24, <1>29, <3>1 DEF Addr
  <2>4. \A k, l \in DOMAIN known : Addr(k) = Addr(l) => k = l
    BY <1>24, <2>2 DEF Addr, Distinct
  <2>5. Len(stack') <= Room /\ Len(frames') <= Room + 1
    <3>1. stack \in Seq(Kept) /\ Len(stack) < Len(known) /\ Len(frames) = 0
      BY DEF TravelInv, TravelTypes, Once
    <3>2. Len(stack) \in Nat /\ Len(stack') = Len(stack) /\ Len(frames') = 0
      BY <2>0, <3>1
    <3> QED BY ONLY <1>24, <3>1, <3>2
  <2>6. TablesBounded' /\ Bounded'
    BY <1>2, <1>20, <1>22, <1>23, <1>24, <1>29, <2>1, <2>3, <2>4, <2>5, Overruns
  <2> QED BY <2>0, <2>6
<1>30. ASSUME TravelInv', Bounded'  PROVE Goal
  BY <1>30 DEF TravelInv, TravelTypes
\* The three ways to go on.
<1>6. ASSUME known' = Stretched(i), Skip(i), ~Inside(i.to) \/ i.to \in Done', i.kind # "ret"  PROVE Goal
  <2>1. StepTo(known') /\ known'[here.self].llll .. Behind(i) - 1 \subseteq Printed'
    BY <1>1, <1>2, <1>6, Stretches
  <2>2. i.kind \in Kinds
    BY <1>2, InstrIs DEF Came
  <2>3. After(seen)' \subseteq Done' \cup {Behind(i)} \cup Later
    BY <1>3, <1>5, <1>6, <2>2 DEF Kinds
  <2>4. TravelInv'
    BY <1>2, <1>3, <1>6, <2>1, <2>3, GoesBehind
  <2> QED BY <1>6, <1>27, <1>30, <2>4
<1>7. ASSUME known' = Append(Stretched(i), Block(i.to)), Inside(i.to), known_check(i.to) = 0, ~Full,
             NEW type \in {"call", "cond", "jump"}, i.kind = type, Enter(i, type)
      PROVE  Goal
  <2>1. /\ TableOK(known') /\ Len(known') = Len(known) + 1 /\ known'[Len(known) + 1] = Block(i.to)
        /\ \A k \in 1 .. Len(known) : known'[k].addr \in Done'
        /\ known'[here.self].llll .. Behind(i) - 1 \subseteq Printed' /\ i.to \in Address
    BY <1>1, <1>2, <1>7, Adds
  <2>2. After(seen)' \subseteq Done' \cup {i.to} \cup Later \cup (IF type = "jump" THEN {} ELSE {Behind(i)})
    BY <1>3, <1>5, <1>7
  <2>3. Behind(i) \in BehindBranch'
    BY <1>3, <1>7
  <2>4. TravelInv'
    BY <1>1, <1>2, <1>3, <1>7, <2>1, <2>2, <2>3, Enters
  <2>5. Bounded'
    BY <1>7, <1>28
  <2> QED BY <1>30, <2>4, <2>5
<1>8. ASSUME travel_ret(i)  PROVE Goal
  <2>1. i.kind = "ret" /\ known' = Stretched(i) /\ Back
    BY <1>8 DEF travel_ret
  <2>2. StepTo(known')
    BY <1>1, <1>2, <2>1, Stretches
  <2>3. After(seen)' \subseteq Done' \cup Later
    BY <1>3, <1>5, <2>1
  <2>4. TravelInv'
    BY <1>2, <2>1, <2>2, <2>3, GoesBack
  <2> QED BY <1>27, <1>30, <2>1, <2>4
<1>9. ASSUME travel_call(i)  PROVE Goal
  <2>0. i.kind = "call"
    BY <1>9 DEF travel_call
  <2>1. CASE ~Inside(i.to) \/ checkrecur(i.to) \/ known_check(i.to) # 0
    <3>1. known' = Stretched(i) /\ Skip(i)
      BY <1>9, <2>1 DEF travel_call
    <3> QED BY <1>4, <1>6, <2>0, <2>1, <3>1
  <2>3. CASE ~(~Inside(i.to) \/ checkrecur(i.to) \/ known_check(i.to) # 0) /\ Full
    <3>1. Overrun(i)
      BY <1>9, <2>3 DEF travel_call
    <3> QED BY <1>29, <2>0, <2>3, <3>1
  <2>2. CASE ~(~Inside(i.to) \/ checkrecur(i.to) \/ known_check(i.to) # 0) /\ ~Full
    <3>1. known' = Append(Stretched(i), Block(i.to)) /\ Enter(i, "call")
      BY <1>9, <2>2 DEF travel_call
    <3> QED BY <1>7, <2>0, <2>2, <3>1
  <2> QED BY <2>1, <2>2, <2>3
<1>10. ASSUME travel_cond(i)  PROVE Goal
  <2>0. i.kind = "cond"
    BY <1>10 DEF travel_cond
  <2>1. CASE ~Inside(i.to) \/ StillInside(i.to) \/ known_check(i.to) # 0
    <3>1. known' = Stretched(i) /\ Skip(i)
      BY <1>10, <2>1 DEF travel_cond
    <3> QED BY <1>4, <1>6, <2>0, <2>1, <3>1
  <2>3. CASE ~(~Inside(i.to) \/ StillInside(i.to) \/ known_check(i.to) # 0) /\ Full
    <3>1. Overrun(i)
      BY <1>10, <2>3 DEF travel_cond
    <3> QED BY <1>29, <2>0, <2>3, <3>1
  <2>2. CASE ~(~Inside(i.to) \/ StillInside(i.to) \/ known_check(i.to) # 0) /\ ~Full
    <3>1. /\ known' = Append(Stretched(i), Block(i.to))
          /\ IF checkmerge(i.to) THEN Skip(i) ELSE Enter(i, "cond")
      BY <1>10, <2>2 DEF travel_cond
    <3>2. CASE checkmerge(i.to)
      <4>1. i.to \in Done'
        BY <1>4, <2>0, <3>2
      <4>2. StepTo(known') /\ known'[here.self].llll .. Behind(i) - 1 \subseteq Printed'
        BY <1>1, <1>2, <2>2, <3>1, <4>1, Adds
      <4>3. After(seen)' \subseteq Done' \cup {Behind(i)} \cup Later
        BY <1>3, <1>5, <2>0, <4>1
      <4>4. TravelInv'
        BY <1>2, <1>3, <3>1, <3>2, <4>2, <4>3, GoesBehind
      <4> QED BY <1>28, <1>30, <2>0, <2>2, <3>1, <4>4
    <3>3. CASE ~checkmerge(i.to)
      BY <1>7, <2>0, <2>2, <3>1, <3>3
    <3> QED BY <3>2, <3>3
  <2> QED BY <2>1, <2>2, <2>3
<1>11. ASSUME travel_jump(i)  PROVE Goal
  <2>0. i.kind = "jump"
    BY <1>11 DEF travel_jump
  <2>1. CASE ~Inside(i.to) \/ StillInside(i.to)
    <3>1. known' = Stretched(i) /\ Skip(i)
      BY <1>11, <2>1 DEF travel_jump
    <3> QED BY <1>4, <1>6, <2>0, <2>1, <3>1
  <2>2. CASE ~(~Inside(i.to) \/ StillInside(i.to)) /\ known_check(i.to) # 0
    <3>1. known' = Stretched(i) /\ Back
      BY <1>11, <2>2 DEF travel_jump
    <3>2. StepTo(known')
      BY <1>1, <1>2, <3>1, Stretches
    <3>3. After(seen)' \subseteq Done' \cup Later
      BY <1>3, <1>4, <1>5, <2>0, <2>2
    <3>4. TravelInv'
      BY <1>2, <3>1, <3>2, <3>3, GoesBack
    <3> QED BY <1>27, <1>30, <3>1, <3>4
  <2>4. CASE ~(~Inside(i.to) \/ StillInside(i.to)) /\ known_check(i.to) = 0 /\ Full
    <3>1. Overrun(i)
      BY <1>11, <2>4 DEF travel_jump
    <3> QED BY <1>29, <2>0, <2>4, <3>1
  <2>3. CASE ~(~Inside(i.to) \/ StillInside(i.to)) /\ known_check(i.to) = 0 /\ ~Full
    <3>1. /\ known' = Append(Stretched(i), Block(i.to))
          /\ IF checkmerge(i.to) THEN Back ELSE Enter(i, "jump")
      BY <1>11, <2>3 DEF travel_jump
    <3>2. CASE checkmerge(i.to)
      <4>1. i.to \in Done'
        BY <1>4, <2>0, <3>2
      <4>2. StepTo(known')
        BY <1>1, <1>2, <2>3, <3>1, <4>1, Adds
      <4>3. After(seen)' \subseteq Done' \cup Later
        BY <1>3, <1>5, <2>0, <4>1
      <4>4. TravelInv'
        BY <1>2, <3>1, <3>2, <4>2, <4>3, GoesBack
      <4> QED BY <1>28, <1>30, <2>0, <2>3, <3>1, <4>4
    <3>3. CASE ~checkmerge(i.to)
      BY <1>7, <2>0, <2>3, <3>1, <3>3
    <3> QED BY <3>2, <3>3
  <2> QED BY <2>1, <2>2, <2>3, <2>4
<1>12. ASSUME travel_plain(i)  PROVE Goal
  <2>1. i.kind = "plain" /\ Skip(i) /\ known' = known
    BY <1>12 DEF travel_plain
  <2>2. TableOK(known)
    BY <1>2, Tables
  <2>3. StepTo(known') /\ known'[here.self].llll .. Behind(i) - 1 \subseteq Printed'
    BY <1>1, <1>2, <2>1, <2>2 DEF StepTo, Came
  <2>4. After(seen)' \subseteq Done' \cup {Behind(i)} \cup Later
    BY <1>3, <1>5, <2>1
  <2>5. TravelInv'
    BY <1>2, <1>3, <2>1, <2>3, <2>4, GoesBehind
  <2>6. Bounded'
    BY <1>24, <1>25, <2>1
  <2> QED BY <1>30, <2>5, <2>6
<1> QED BY <1>2, <1>8, <1>9, <1>10, <1>11, <1>12 DEF travel_one

\* Nothing is printed by a step that reads nothing.
LEMMA PrintsNoMore ==
    ASSUME UNCHANGED <<code, seen>>
    PROVE  /\ Printed' = Printed /\ BehindBranch' = BehindBranch /\ Done' = Done
           /\ After(seen)' = After(seen) /\ (CodeRead => CodeRead')
  BY DEF Printed, BehindBranch, Targets, Done, After, CodeRead

\* The table of a merge: the row of this block to the end of the other one, and the other one
\* from the start of this one.
LEMMA Merges ==
    ASSUME TravelInv, pc = "walk", UNCHANGED <<code, seen>>,
           NEW that \in 1 .. Len(known), known[that].addr = here.j, here.j # here.entry
    PROVE  TableOK(Merged(that)) /\ Len(Merged(that)) = Len(known)
<1> DEFINE m == here.self
           r == [known[m] EXCEPT !.rrrr = known[that].rrrr]
           c == [known EXCEPT ![m] = r]
           q == [known[that] EXCEPT !.llll = known[m].llll]
<1>0. /\ known \in Seq(Row) /\ stack \in Seq(Kept) /\ m \in 1 .. Len(known)
      /\ known[m].addr = here.entry /\ here.entry <= here.j
      /\ known[m].llll .. here.j - 1 \subseteq Printed
      /\ here \in [entry : Address, j : Nat, self : Nat]
  BY DEF TravelInv, TravelTypes, HereTrue, PrintedTo
<1>1. /\ known[m] \in Row /\ known[that] \in Row /\ m # that
      /\ here.j \in Int /\ here.entry \in Int
  BY <1>0, BoundsOK DEF Address
<1>2. /\ known[m].llll \in Int /\ known[m].llll <= here.entry
      /\ known[that].llll \in Int /\ known[that].rrrr \in Int /\ known[that].llll <= here.j
      /\ here.j <= known[that].rrrr
      /\ known[that].llll .. known[that].rrrr - 1 \subseteq Printed
  BY <1>0, <1>1, RowIs DEF TravelInv, RowsTrue
<1>3. Printed' = Printed /\ BehindBranch' = BehindBranch
  BY PrintsNoMore
<1>4. TableOK(known)
  BY <1>3, TableStays
<1>5. /\ r \in Row /\ r.addr = known[m].addr /\ r.llll = known[m].llll /\ r.rrrr = known[that].rrrr
      /\ q \in Row /\ q.addr = known[that].addr /\ q.llll = known[m].llll /\ q.rrrr = known[that].rrrr
  BY <1>1, <1>2 DEF Row
<1>6. known[m].llll .. known[that].rrrr - 1 \subseteq Printed'
  <2> SUFFICES ASSUME NEW a \in known[m].llll .. known[that].rrrr - 1  PROVE a \in Printed
    BY <1>3
  <2>1. a \in known[m].llll .. here.j - 1 \/ a \in known[that].llll .. known[that].rrrr - 1
    BY <1>1, <1>2
  <2> QED BY <1>0, <1>2, <2>1
<1>7. Merged(that) = [c EXCEPT ![that] = q]
  <2>1. known[that] = c[that] /\ that # m
    BY <1>0, <1>1
  <2> QED BY <1>0, <1>1 DEF Merged
<1> HIDE DEF r, m
<1>8. TableOK(c) /\ Len(c) = Len(known)
  <2>1. /\ r.llll <= r.addr /\ r.addr <= r.rrrr /\ r.llll .. r.rrrr - 1 \subseteq Printed'
        /\ \A to \in Nat : known[m].llll .. to - 1 \subseteq Printed' => r.llll .. to - 1 \subseteq Printed'
    BY <1>0, <1>1, <1>2, <1>5, <1>6
  <2> QED BY <1>0, <1>4, <1>5, <2>1, TableChanges
<1>9. c[that] = known[that]
  BY <1>0, <1>1, <1>5, Replaced
<1> HIDE DEF c, q
<1>10. /\ q.llll <= q.addr /\ q.addr <= q.rrrr /\ q.llll .. q.rrrr - 1 \subseteq Printed'
  BY <1>1, <1>0, <1>2, <1>5, <1>6
<1>11. ASSUME NEW to \in Nat, c[that].llll .. to - 1 \subseteq Printed'
       PROVE  q.llll .. to - 1 \subseteq Printed'
  <2> SUFFICES ASSUME NEW a \in known[m].llll .. to - 1  PROVE a \in Printed
    BY <1>3, <1>5
  <2>1. a \in known[m].llll .. here.j - 1 \/ a \in known[that].llll .. to - 1
    BY <1>1, <1>2
  <2> QED BY <1>0, <1>3, <1>9, <1>11, <2>1
<1>12. that \in 1 .. Len(c) /\ q.addr = c[that].addr
  BY <1>5, <1>8, <1>9
<1>13. TableOK([c EXCEPT ![that] = q]) /\ Len([c EXCEPT ![that] = q]) = Len(c)
  BY <1>0, <1>5, <1>8, <1>10, <1>11, <1>12, TableChanges
<1> QED BY <1>7, <1>8, <1>13

\* A merge keeps the invariant.
LEMMA MergeKeeps ==
    ASSUME TravelInv, CodeRead, travel_merge
    PROVE  TravelInv' /\ CodeRead'
<1> DEFINE that == known_check(here.j)
<1>1. /\ pc = "walk" /\ that # 0 /\ here.j # here.entry
      /\ known' = Merged(that) /\ Back /\ UNCHANGED <<cmd, code, frames, seen>>
  BY DEF travel_merge, Merging, InTravel
<1>2. known \in Seq(Row) /\ Distinct(known) /\ Len(known) \in Nat
  BY DEF TravelInv, TravelTypes, Once
<1>3. that \in 1 .. Len(known) /\ known[that].addr = here.j
  BY <1>1, <1>2, KnownCheckIs
<1> HIDE DEF that
<1>4. TableOK(known') /\ Len(known') = Len(known)
  BY <1>1, <1>3, Merges
<1>5. Done' = Done /\ After(seen)' = After(seen) /\ CodeRead'
  BY <1>1, PrintsNoMore
<1>6. \A k \in 1 .. Len(known) : known[k].addr \in Done
  BY <1>1 DEF TravelInv, Listed
<1>7. StepTo(known')
  BY <1>1, <1>4, <1>5, <1>6 DEF StepTo, TableOK
<1>8. After(seen)' \subseteq Done' \cup Later
  BY <1>1, <1>3, <1>5, <1>6 DEF TravelInv, Reached
<1> QED BY <1>1, <1>5, <1>7, <1>8, GoesBack

\* So does the end of the buffer: what was kept for later stays on the stack.
LEMMA EndKeeps ==
    ASSUME TravelInv, CodeRead, travel_off_the_end
    PROVE  TravelInv' /\ CodeRead'
<1>1. /\ pc = "walk" /\ here.j >= len /\ pc' = "sort"
      /\ UNCHANGED <<cmd, code, known, frames, stack, here, seen>>
  BY DEF travel_off_the_end
<1>2. /\ Printed' = Printed /\ BehindBranch' = BehindBranch /\ Done' = Done
      /\ After(seen)' = After(seen) /\ CodeRead'
  BY <1>1, PrintsNoMore
<1>3. TravelTypes' /\ Once'
  BY <1>1 DEF TravelInv, TravelTypes, Once, Distinct
<1>4. RowsTrue' /\ HereTrue'
  BY <1>1, <1>2 DEF TravelInv, RowsTrue, HereTrue
<1>5. KeptTrue'
  BY <1>1, <1>2 DEF TravelInv, KeptTrue, PrintedTo
<1>6. here.entry \in Address /\ here.j \in Nat
  BY DEF TravelInv, TravelTypes
<1>7. here.j # here.entry /\ ~Inside(here.j)
  BY <1>1, <1>6, BoundsOK DEF Address, Inside
<1>8. Listed'
  BY <1>1, <1>2, <1>7 DEF TravelInv, Listed
<1>9. Reached'
  <2> SUFFICES ASSUME stack = << >>  PROVE After(seen) \subseteq Done
    BY <1>1, <1>2 DEF Reached
  <2>1. Later = {}
    BY DEF Later, Saved
  <2>2. here.j \notin After(seen)
    BY <1>7 DEF After
  <2> QED BY <1>1, <2>1, <2>2 DEF TravelInv, Reached
<1> QED BY <1>1, <1>2, <1>3, <1>4, <1>5, <1>8, <1>9 DEF TravelInv

\* And so does the report, which sorts the table.
LEMMA ReportKeeps ==
    ASSUME TravelInv, CodeRead, travel_report
    PROVE  TravelInv' /\ CodeRead'
<1>1. /\ pc = "sort" /\ pc' = "end" /\ known' = known_sort[known]
      /\ UNCHANGED <<cmd, code, frames, stack, here, seen>>
  BY DEF travel_report
<1>2. /\ Printed' = Printed /\ BehindBranch' = BehindBranch /\ Done' = Done
      /\ After(seen)' = After(seen) /\ CodeRead'
  BY <1>1, PrintsNoMore
<1>3. known \in Seq(Row) /\ Distinct(known)
  BY DEF TravelInv, TravelTypes, Once
<1>4. /\ known' \in Seq(Row) /\ Len(known') = Len(known)
      /\ Rows(known') = Rows(known) /\ Ascending(known')
  BY <1>1, <1>3, SortIsSort DEF SortOf
<1>5. \A k \in 1 .. Len(known') : \E m \in 1 .. Len(known) : known'[k] = known[m]
  BY <1>4 DEF Rows
<1>6. \A m \in 1 .. Len(known) : \E k \in 1 .. Len(known') : known[m] = known'[k]
  BY <1>4 DEF Rows
<1>7. Distinct(known')
  <2> SUFFICES ASSUME NEW k \in 1 .. Len(known'), NEW l \in 1 .. Len(known'),
                      known'[k].addr = known'[l].addr
               PROVE  k = l
    BY DEF Distinct
  <2>1. known'[k] \in Row /\ known'[l] \in Row
    BY <1>4
  <2>2. ~(known'[k].addr < known'[l].addr) /\ ~(known'[l].addr < known'[k].addr)
    BY <2>1, RowIs
  <2>3. ~(k < l) /\ ~(l < k)
    BY <1>4, <2>2 DEF Ascending
  <2> QED BY <2>3
<1>8. TravelTypes'
  BY <1>1, <1>4 DEF TravelInv, TravelTypes
<1>9. Once'
  <2>1. \A k \in 1 .. Len(known') : known'[k].addr \in Address
    BY <1>5 DEF TravelInv, Once
  <2> QED BY <1>1, <1>4, <1>7, <2>1 DEF TravelInv, Once
<1>10. RowsTrue'
  BY <1>2, <1>5 DEF TravelInv, RowsTrue
<1>11. HereTrue'
  BY <1>1 DEF HereTrue
<1>12. KeptTrue'
  <2> SUFFICES ASSUME NEW k \in 1 .. Len(stack)
               PROVE  /\ stack[k].tail = stack[k].save /\ stack[k].head < stack[k].save
                      /\ stack[k].save \in BehindBranch
                      /\ \E n \in 1 .. Len(known') : PrintedThen(n, stack[k].head, stack[k].save)
    BY <1>1, <1>2 DEF KeptTrue, PrintedTo, PrintedThen
  <2>1. PICK m \in 1 .. Len(known) : known[m].addr = stack[k].head /\ known[m].llll .. stack[k].save - 1 \subseteq Printed
    BY KeptIs DEF PrintedTo
  <2>2. PICK n \in 1 .. Len(known') : known[m] = known'[n]
    BY <1>6
  <2>3. PrintedThen(n, stack[k].head, stack[k].save)
    BY <1>2, <2>1, <2>2 DEF PrintedThen
  <2> QED BY <2>3 DEF TravelInv, KeptTrue
<1>13. Listed'
  BY <1>1, <1>2, <1>5 DEF TravelInv, Listed
<1>14. Reached'
  BY <1>1, <1>2 DEF TravelInv, Reached
<1> QED BY <1>2, <1>4, <1>8, <1>9, <1>10, <1>11, <1>12, <1>13, <1>14 DEF TravelInv

\* The report keeps the addresses, and so their bounds.
LEMMA ReportBounded ==
    ASSUME Bounded, Travels, travel_report, known \in Seq(Row), Distinct(known)
    PROVE  Bounded' /\ Len(known') = Len(known) /\ Rows(known') = Rows(known)
<1>1. known' = known_sort[known] /\ cmd' = cmd /\ seen' = seen /\ code' = code
  BY DEF travel_report
<1>2. known' \in Seq(Row) /\ Len(known') = Len(known) /\ Rows(known') = Rows(known)
  BY <1>1, SortIsSort DEF SortOf
<1>3. DOMAIN known = 1 .. Len(known) /\ DOMAIN known' = 1 .. Len(known')
  BY <1>2
<1>4. Travels' /\ Room' = Room /\ \A at : Goals(at)' = Goals(at)
  BY <1>1 DEF Travels, Room, Goals, Entering
<1>5. PICK at \in Entries : \A k \in DOMAIN known : Addr(k) \in Goals(at)
  BY DEF Bounded
<1>6. ASSUME NEW k \in DOMAIN known'  PROVE Addr(k)' \in Goals(at)'
  <2>1. PICK m \in 1 .. Len(known) : known'[k] = known[m]
    BY <1>2, <1>3 DEF Rows
  <2>2. Addr(k)' = Addr(m)
    BY <1>4, <2>1 DEF Addr
  <2> QED BY <1>3, <1>4, <1>5, <2>1, <2>2
<1>7. Len(known') <= Room'
  BY <1>2, <1>4 DEF Bounded
<1>8. Bounded'
  BY <1>6, <1>7 DEF Bounded
<1> QED BY <1>2, <1>8

\* A step that leaves the table alone, and reads nothing.
LEMMA SameBounds ==
    ASSUME Bounded, UNCHANGED <<cmd, code, known, seen>>
    PROVE  Bounded'
<1>1. Room' = Room /\ (\A at : Goals(at)' = Goals(at)) /\ \A k : Addr(k)' = Addr(k)
  BY DEF Room, Goals, Entering, Addr, Travels
<1> QED BY <1>1 DEF Bounded

\* A merge keeps the addresses.
LEMMA MergeBounded ==
    ASSUME Bounded, TravelInv, Travels, travel_merge
    PROVE  Bounded'
<1> DEFINE that == known_check(here.j)
<1>1. pc = "walk" /\ that # 0 /\ here.j # here.entry /\ known' = Merged(that) /\ UNCHANGED <<cmd, code, seen>>
  BY DEF travel_merge, Merging, InTravel
<1>2. known \in Seq(Row) /\ Distinct(known) /\ Len(known) \in Nat /\ DOMAIN known = 1 .. Len(known)
  BY DEF TravelInv, TravelTypes, Once
<1>3. that \in 1 .. Len(known) /\ known[that].addr = here.j
  BY <1>1, <1>2, KnownCheckIs
<1> HIDE DEF that
<1>4. TableOK(known') /\ Len(known') = Len(known)
  BY <1>1, <1>3, Merges
<1>5. /\ known' \in Seq(Row) /\ DOMAIN known' = 1 .. Len(known)
      /\ \A k \in 1 .. Len(known) : known'[k].addr = known[k].addr
  BY <1>4 DEF TableOK
<1>6. \A k \in DOMAIN known' : k \in DOMAIN known /\ Addr(k)' = Addr(k)
  BY <1>1, <1>2, <1>5 DEF Addr, Travels
<1>7. \A at \in Entries : Goals(at) \subseteq Goals(at)'
  BY <1>1 DEF Goals, Entering
<1>8. Len(known') <= Room
  BY <1>4 DEF Bounded
<1> QED BY <1>1, <1>6, <1>7, <1>8, StaysBounded

\* A walk that begins behind the end of the buffer reads nothing and ends.
LEMMA BeyondKeeps ==
    ASSUME Beyond, Bounded, CodeRead, Travels, Next
    PROVE  Beyond' /\ Bounded' /\ CodeRead' /\ cmd' = cmd
<1> DEFINE b == Block(here.j)
<1>1. here.j \in Nat /\ here.j >= len /\ len \in Nat /\ known = <<b>> /\ cmd = "travel_x8664"
  BY BoundsOK DEF Beyond, Travels
<1>2. b \in Row
  BY <1>1 DEF Block, Row
<1> HIDE DEF b
<1>3. known \in Seq(Row) /\ Len(known) = 1 /\ DOMAIN known = {1} /\ known[1] = b
  BY <1>1, <1>2
<1>4. ~InTravel /\ ~InFollow /\ ~Merging /\ ~follow_off_the_end
  BY <1>1 DEF InTravel, InFollow, Merging, follow_off_the_end
<1>5. CASE travel_off_the_end
  <2>1. pc' = "sort" /\ UNCHANGED <<cmd, code, known, frames, stack, here, seen>>
    BY <1>5 DEF travel_off_the_end
  <2>2. Bounded'
    BY <2>1, SameBounds
  <2> QED BY <2>1, <2>2 DEF Beyond, CodeRead
<1>6. CASE travel_report
  <2>1. pc' = "end" /\ UNCHANGED <<cmd, code, frames, stack, here, seen>> /\ known' = known_sort[known]
    BY <1>6 DEF travel_report
  <2>2. Distinct(known)
    BY <1>3 DEF Distinct
  <2>3. Bounded' /\ Len(known') = 1 /\ Rows(known') = Rows(known)
    BY <1>3, <1>6, <2>2, ReportBounded
  <2>4. known' \in Seq(Row)
    BY <1>3, <2>1, <2>2, SortIsSort DEF SortOf
  <2>5. known'[1] = b
    <3>1. known'[1] \in Rows(known)
      BY <2>3 DEF Rows
    <3> QED BY <1>3, <3>1 DEF Rows
  <2>6. known' = <<b>>
    BY <2>3, <2>4, <2>5
  <2> QED BY <1>1, <2>1, <2>3, <2>6 DEF Beyond, CodeRead, b
<1> QED BY <1>4, <1>5, <1>6 DEF Next, travel_merge

----------------------------------------------------------------------------
(* The theorems. *)

\* The walks begin with nothing read, at an entry.
LEMMA InitHolds == Init => IInv
<1> SUFFICES ASSUME Init  PROVE IInv
  OBVIOUS
<1>1. /\ cmd \in Commands /\ code = [a \in 0 .. len - 1 |-> Unread] /\ seen = {}
      /\ stack = << >> /\ pc = "walk"
  BY DEF Init
<1>2. CodeRead
  BY <1>1 DEF CodeRead, Address
<1>4. CASE Travels
  <2>0. PICK at \in Entries :
          known = <<Block(at)>> /\ here = [entry |-> at, j |-> at, self |-> 1] /\ frames = << >>
    BY <1>4 DEF Init, Travels
  <2>1. at \in Nat
    BY EntriesOK
  <2>2. Block(at) \in Row /\ Block(at).addr = at /\ Block(at).llll = at /\ Block(at).rrrr = at
    BY <2>1 DEF Block, Row
  <2>3. known \in Seq(Row) /\ Len(known) = 1 /\ DOMAIN known = 1 .. 1 /\ \A k \in 1 .. 1 : known[k] = Block(at)
    <3> DEFINE r == Block(at)
    <3>1. r \in Row /\ known = <<r>>
      BY <2>0, <2>2
    <3> HIDE DEF r
    <3>2. known \in Seq(Row) /\ Len(known) = 1 /\ DOMAIN known = 1 .. 1 /\ \A k \in 1 .. 1 : known[k] = r
      BY ONLY <3>1
    <3> QED BY <3>2 DEF r
  <2>4. at .. at - 1 = {}
    BY <2>1
  <2>5. Bounded
    <3>1. Room \in Nat /\ Room >= 1
      BY TablesOK DEF Room
    <3>2. Addr(1) = at /\ at \in Goals(at)
      BY <1>4, <2>2, <2>3 DEF Addr, Goals, Travels
    <3>3. \A k \in DOMAIN known : k = 1
      BY <2>3
    <3> QED BY <2>3, <3>1, <3>2, <3>3 DEF Bounded
  <2>6. CASE at < len
    <3>0. at \in Address
      BY <2>1, <2>6, BoundsOK DEF Address
    <3>1. TravelTypes
      BY <1>1, <2>0, <2>1, <2>3, <3>0 DEF TravelTypes
    <3>2. Once
      BY <1>1, <2>2, <2>3, <3>0 DEF Once, Distinct
    <3>3. RowsTrue /\ KeptTrue
      BY <1>1, <2>1, <2>2, <2>3, <2>4 DEF RowsTrue, KeptTrue
    <3>4. HereTrue
      BY <2>0, <2>1, <2>2, <2>3, <2>4 DEF HereTrue, PrintedTo
    <3>5. Listed
      BY <1>1, <2>0, <2>2, <2>3 DEF Listed
    <3>6. Reached
      <4>1. After(seen) = {}
        BY <1>1 DEF After
      <4> QED BY <1>1, <4>1 DEF Reached
    <3>7. TravelInv
      BY <1>1, <3>1, <3>2, <3>3, <3>4, <3>5, <3>6 DEF TravelInv
    <3> QED BY <1>1, <1>2, <1>4, <2>5, <3>7 DEF IInv
  <2>7. CASE ~(at < len)
    <3>1. here.j = at /\ at >= len
      BY <2>0, <2>1, <2>7, BoundsOK
    <3>2. Beyond
      BY <1>1, <2>0, <2>1, <3>1 DEF Beyond
    <3> QED BY <1>1, <1>2, <1>4, <2>5, <3>2 DEF IInv
  <2> QED BY <2>6, <2>7
<1>5. CASE ~Travels
  <2>0. PICK at \in Entries :
          known = << >> /\ frames = <<[called |-> -1, cur |-> at, j |-> at, far |-> at]>>
    BY <1>5 DEF Init, Travels
  <2> DEFINE fr == [called |-> -1, cur |-> at, j |-> at, far |-> at]
  <2>1. known = << >> /\ frames = <<fr>> /\ at \in Nat
    BY <2>0, EntriesOK
  <2>2. fr \in Frame
    BY <2>1 DEF Frame
  <2> HIDE DEF fr
  <2>3. frames \in Seq(Frame) /\ Len(frames) = 1
    BY <2>1, <2>2
  <2>4. FollowInv
    BY <1>1, <2>1, <2>3 DEF FollowInv
  <2>5. Bounded
    <3>1. Room \in Nat
      BY TablesOK DEF Room
    <3>2. Len(known) = 0 /\ DOMAIN known = {}
      BY <2>1
    <3> QED BY <3>1, <3>2 DEF Bounded
  <2> QED BY <1>1, <1>2, <1>5, <2>4, <2>5 DEF IInv
<1> QED BY <1>4, <1>5

\* Every step keeps the invariant.
LEMMA NextKeeps == IInv /\ [Next]_vars => IInv'
<1> SUFFICES ASSUME IInv, [Next]_vars  PROVE IInv'
  OBVIOUS
<1>0. CodeRead /\ Bounded /\ cmd \in Commands
  BY DEF IInv
<1>1. CASE UNCHANGED vars
  <2>1. UNCHANGED <<cmd, code, known, frames, stack, here, seen, pc>>
    BY <1>1 DEF vars
  <2>2. /\ Printed' = Printed /\ BehindBranch' = BehindBranch /\ Done' = Done
        /\ After(seen)' = After(seen) /\ CodeRead'
    BY <1>0, <2>1, PrintsNoMore
  <2>3. FollowInv' <=> FollowInv
    BY <2>1 DEF FollowInv
  <2>4. (TravelTypes' <=> TravelTypes) /\ (Once' <=> Once) /\ (Ascending(known)' <=> Ascending(known))
    BY <2>1 DEF TravelTypes, Once, Distinct, Ascending
  <2>5. (RowsTrue' <=> RowsTrue) /\ (Listed' <=> Listed)
    BY <2>1, <2>2 DEF RowsTrue, Listed
  <2>6. (HereTrue' <=> HereTrue) /\ (KeptTrue' <=> KeptTrue)
    BY <2>1, <2>2 DEF HereTrue, KeptTrue, PrintedTo
  <2>7. Later' = Later
    BY <2>1 DEF Later, Saved
  <2>8. Reached' <=> Reached
    BY <2>1, <2>2, <2>7 DEF Reached
  <2>9. TravelInv' <=> TravelInv
    BY <2>1, <2>4, <2>5, <2>6, <2>8 DEF TravelInv
  <2>10. Bounded'
    BY <1>0, <2>1, SameBounds
  <2>11. TablesBounded' <=> TablesBounded
    <3>1. Room' = Room /\ \A at : Goals(at)' = Goals(at)
      BY <2>1 DEF Room, Goals, Entering
    <3> QED BY <2>1, <3>1 DEF TablesBounded
  <2>12. Beyond' <=> Beyond
    BY <2>1 DEF Beyond
  <2> QED BY <1>0, <2>1, <2>2, <2>3, <2>9, <2>10, <2>11, <2>12 DEF IInv, Travels
<1>2. CASE Next /\ pc = "overrun"
  BY <1>2 DEF Next, follow_off_the_end, travel_off_the_end, travel_merge, Merging, travel_report, InFollow, InTravel
<1>3. CASE Next /\ pc # "overrun" /\ Travels /\ Beyond
  <2>1. Beyond' /\ Bounded' /\ CodeRead' /\ cmd' = cmd
    BY <1>0, <1>3, BeyondKeeps
  <2>2. Travels' /\ pc' # "overrun"
    BY <1>3, <2>1 DEF Beyond, Travels
  <2> QED BY <1>0, <2>1, <2>2 DEF IInv
<1>4. CASE Next /\ pc # "overrun" /\ Travels /\ TravelInv
  <2>0. ~follow_off_the_end /\ ~InFollow
    BY <1>4 DEF follow_off_the_end, InFollow, Travels
  <2>1. ASSUME cmd' = cmd, CodeRead', Bounded', TravelInv'  PROVE IInv'
    BY <1>0, <1>4, <2>1 DEF IInv, Travels, TravelInv, TravelTypes
  <2>2. CASE travel_off_the_end
    <3>1. UNCHANGED <<cmd, code, known, seen>>
      BY <2>2 DEF travel_off_the_end
    <3> QED BY <1>0, <1>4, <2>1, <2>2, <3>1, EndKeeps, SameBounds
  <2>3. CASE travel_merge
    <3>1. cmd' = cmd
      BY <2>3 DEF travel_merge
    <3> QED BY <1>0, <1>4, <2>1, <2>3, <3>1, MergeKeeps, MergeBounded
  <2>4. CASE travel_report
    <3>1. cmd' = cmd /\ known \in Seq(Row) /\ Distinct(known)
      BY <1>4, <2>4 DEF travel_report, TravelInv, TravelTypes, Once
    <3> QED BY <1>0, <1>4, <2>1, <2>4, <3>1, ReportKeeps, ReportBounded
  <2>5. CASE InTravel /\ ~Merging /\ \E i \in Held(here.j) : travel_one(i)
    <3>1. PICK i \in Held(here.j) : travel_one(i)
      BY <2>5
    <3>2. cmd' = cmd
      BY <3>1 DEF travel_one, travel_ret, travel_call, travel_cond, travel_jump, travel_plain
    <3>3. CodeRead' /\ Bounded' /\ (IF pc' = "overrun" THEN TablesBounded' ELSE TravelInv')
      BY <1>0, <1>4, <2>5, <3>1, TravelKeeps
    <3>4. CASE pc' = "overrun"
      BY <1>0, <3>2, <3>3, <3>4 DEF IInv
    <3> QED BY <2>1, <3>2, <3>3, <3>4
  <2> QED BY <1>4, <2>0, <2>2, <2>3, <2>4, <2>5 DEF Next
<1>5. CASE Next /\ pc # "overrun" /\ ~Travels /\ FollowInv
  <2>0. ~travel_off_the_end /\ ~travel_merge /\ ~travel_report /\ ~InTravel
    BY <1>5 DEF travel_off_the_end, travel_merge, Merging, travel_report, InTravel, Travels, FollowInv
  <2>1. ASSUME cmd' = cmd, CodeRead', Bounded', FollowInv'  PROVE IInv'
    BY <1>0, <1>5, <2>1 DEF IInv, Travels, FollowInv
  <2>2. CASE follow_off_the_end
    <3>1. UNCHANGED <<cmd, code, known, seen>>
      BY <2>2 DEF follow_off_the_end
    <3> QED BY <1>0, <1>5, <2>1, <2>2, <3>1, FollowEndKeeps, SameBounds
  <2>3. CASE InFollow /\ \E i \in Held(F.j) :
               IF cmd = "follow_x8664" THEN follow_one(i) ELSE travel_arm64_one(i)
    <3>1. PICK i \in Held(F.j) : follow_one(i)
      BY <2>3 DEF travel_arm64_one
    <3>2. cmd' = cmd
      BY <3>1 DEF follow_one, follow_ret, follow_cond, follow_jump, follow_call, follow_plain
    <3>3. CodeRead' /\ Bounded' /\ (IF pc' = "overrun" THEN TablesBounded' ELSE FollowInv')
      BY <1>0, <1>5, <2>3, <3>1, FollowKeeps
    <3>4. CASE pc' = "overrun"
      BY <1>0, <3>2, <3>3, <3>4 DEF IInv
    <3> QED BY <2>1, <3>2, <3>3, <3>4
  <2> QED BY <1>5, <2>0, <2>2, <2>3 DEF Next
<1> QED BY <1>1, <1>2, <1>3, <1>4, <1>5 DEF IInv

\* The tables are bounded where the invariant holds.
LEMMA BoundsFollow == IInv => TablesBounded
<1> SUFFICES ASSUME IInv, pc # "overrun"  PROVE TablesBounded
  BY DEF IInv
<1>0. Bounded /\ Room \in Nat
  BY TablesOK DEF IInv, Room
<1>1. CASE Travels /\ TravelInv
  <2>1. TravelTypes /\ Once /\ cmd = "travel_x8664"
    BY <1>1 DEF TravelInv, Travels
  <2>2. DOMAIN known = 1 .. Len(known) /\ Len(known) \in Nat /\ Len(frames) = 0 /\ Len(stack) \in Nat
    BY <2>1 DEF TravelTypes
  <2>3. \A k, l \in DOMAIN known : Addr(k) = Addr(l) => k = l
    BY <1>1, <2>1, <2>2 DEF Once, Distinct, Addr
  <2>4. Len(known) <= Room /\ Len(stack) <= Room /\ Len(frames) <= Room + 1
    BY <1>0, <2>1, <2>2 DEF Once, Bounded
  <2> QED BY <1>0, <2>3, <2>4 DEF TablesBounded, Bounded, Addr, Travels
<1>2. CASE Travels /\ Beyond
  <2>1. DOMAIN known = 1 .. 1 /\ Len(frames) = 0 /\ Len(stack) = 0
    BY <1>2 DEF Beyond
  <2>2. \A k, l \in DOMAIN known : k = l
    BY <2>1
  <2>3. Len(known) <= Room /\ Len(stack) <= Room /\ Len(frames) <= Room + 1
    BY <1>0, <2>1 DEF Bounded
  <2> QED BY <1>0, <2>2, <2>3 DEF TablesBounded, Bounded, Addr, Travels
<1>3. CASE ~Travels /\ FollowInv
  <2>2. DOMAIN known = 1 .. Len(known) /\ Len(known) \in Nat /\ Len(frames) \in Nat /\ Len(stack) = 0
    BY <1>3 DEF FollowInv
  <2>3. \A k, l \in DOMAIN known : Addr(k) = Addr(l) => k = l
    BY <1>3, <2>2 DEF FollowInv, Addr
  <2>4. Len(known) <= Room /\ Len(stack) <= Room /\ Len(frames) <= Room + 1
    BY <1>0, <1>3, <2>2 DEF FollowInv, Bounded
  <2> QED BY <1>0, <2>3, <2>4 DEF TablesBounded, Bounded, Addr, Travels
<1> QED BY <1>1, <1>2, <1>3 DEF IInv

\* The listing is true where the invariant holds.
LEMMA ListingFollows == IInv => ListingTrue
<1> SUFFICES ASSUME IInv, cmd = "travel_x8664", pc = "end"
             PROVE  /\ stack = << >> => After(seen) \subseteq Printed \cup (Targets \cap BehindBranch)
                    /\ \A k \in 1 .. Len(known) - 1 : known[k].addr < known[k + 1].addr
                    /\ \A k \in DOMAIN known : known[k].llll .. known[k].rrrr - 1 \subseteq Printed
  BY DEF ListingTrue, ReachablePrinted, ReportTrue
<1>0. CASE Beyond
  <2>1. known = <<Block(here.j)>> /\ here.j \in Nat /\ seen = {}
    BY <1>0 DEF Beyond
  <2>2. After(seen) = {}
    BY <2>1 DEF After
  <2>3. Len(known) = 1 /\ DOMAIN known = {1} /\ known[1].llll = here.j /\ known[1].rrrr = here.j
    BY <2>1 DEF Block
  <2>4. here.j .. here.j - 1 = {} /\ 1 .. 1 - 1 = {}
    BY <2>1
  <2> QED BY <2>2, <2>3, <2>4
<1> SUFFICES ASSUME TravelInv
             PROVE  /\ stack = << >> => After(seen) \subseteq Printed \cup (Targets \cap BehindBranch)
                    /\ \A k \in 1 .. Len(known) - 1 : known[k].addr < known[k + 1].addr
                    /\ \A k \in DOMAIN known : known[k].llll .. known[k].rrrr - 1 \subseteq Printed
  BY <1>0 DEF IInv, Travels
<1>1. TravelInv
  OBVIOUS
<1>2. known \in Seq(Row) /\ DOMAIN known = 1 .. Len(known) /\ Len(known) \in Nat
  BY <1>1 DEF TravelInv, TravelTypes
<1>3. stack = << >> => After(seen) \subseteq Printed \cup (Targets \cap BehindBranch)
  BY <1>1 DEF TravelInv, Reached, Done
<1>4. ASSUME NEW k \in 1 .. Len(known) - 1  PROVE known[k].addr < known[k + 1].addr
  <2>1. k \in 1 .. Len(known) /\ k + 1 \in 1 .. Len(known) /\ k < k + 1
    BY <1>2
  <2> QED BY <1>1, <2>1 DEF TravelInv, Ascending
<1>5. \A k \in DOMAIN known : known[k].llll .. known[k].rrrr - 1 \subseteq Printed
  BY <1>1, <1>2 DEF TravelInv, RowsTrue
<1> QED BY <1>3, <1>4, <1>5

(* The invariant of the walks: what has been read is what was printed, a target is listed
   once, and of everything that can run after what was printed, either it is printed or it
   is where the walk goes next or will come back to. *)
THEOREM WalkInvariant == Spec => []IInv
<1>1. Init => IInv
  BY InitHolds
<1>2. IInv /\ [Next]_vars => IInv'
  BY NextKeeps
<1> QED BY <1>1, <1>2, PTL DEF Spec

(* What the unchecked tables of addresses and blocks, and the stacks beside them, hold
   (knowntable and stack of lv1/analyse): a place that a printed branch goes to is listed
   once, and nothing is written behind a table unless there are more such places than it
   has rows, whatever the buffer and the size of the tables. *)
THEOREM TablesAreBounded == Spec => []TablesBounded
<1>1. IInv => TablesBounded
  BY BoundsFollow
<1> QED BY <1>1, WalkInvariant, PTL

(* What travel_x8664 prints is every byte that can run, but for what checkmerge takes for
   done, and its report is in ascending order and names nothing that was not printed, for
   every buffer and every instruction set of the kinds it looks at. *)
THEOREM ListingIsTrue == Spec => []ListingTrue
<1>1. IInv => ListingTrue
  BY ListingFollows
<1> QED BY <1>1, WalkInvariant, PTL

----------------------------------------------------------------------------
(* The listing of an executable.  What follows is about a file x and the   *)
(* section w asked for.                                                    *)

Entry == [part : Nat \cup (Nat \X Nat), cpu : {"x8664", "arm64", "riscv64", "mips64", "ppc"},
          base : {"own", "low32"}]
PartOf(x, p) == [part |-> p, cpu |-> x.machine, base |-> IF x.machine = "x8664" THEN "own" ELSE "low32"]
AskedOf(x, w, s) ==
    IF w = AnySection THEN s.name \in (IF x.kind = "elf64" THEN EntryNames ELSE TextNames)
    ELSE s.name = w /\ ~s.runs
PrecedesIn(x, a, b) == IF x.kind = "mach" THEN a[1] < b[1] \/ (a[1] = b[1] /\ a[2] < b[2]) ELSE a < b

\* The sections of the first rows, and of the first sections of the first commands.
RowsBefore(x, w, r) == {i \in DOMAIN x.sects : i < r /\ AskedOf(x, w, x.sects[i])}
SectsBefore(x, w, c, n) ==
    {p \in (DOMAIN x.cmds) \X (1 .. MaxSect) :
       /\ x.cmds[p[1]].cmd = 25 /\ p[2] \in DOMAIN x.cmds[p[1]].sects
       /\ AskedOf(x, w, x.cmds[p[1]].sects[p[2]])
       /\ p[1] < c \/ (p[1] = c /\ p[2] <= n)}

\* A listing l has behind its first h entries those of the parts D, in their order.
Lists(x, l, h, D) ==
    /\ l \in Seq(Entry) /\ h \in {0, 1} /\ Len(l) >= h
    /\ h = 1 => l[1] = PartOf(x, 0)
    /\ \A i \in h + 1 .. Len(l) : \E p \in D : l[i] = PartOf(x, p)
    /\ \A p \in D : \E i \in h + 1 .. Len(l) : l[i] = PartOf(x, p)
    /\ \A i, j \in h + 1 .. Len(l) : i < j => PrecedesIn(x, l[i].part, l[j].part)

\* The parts that come after all of D are put behind them.
LEMMA ListGrows ==
    ASSUME NEW x, NEW l, NEW h, NEW D, Lists(x, l, h, D),
           NEW p, PartOf(x, p) \in Entry, \A o \in D : PrecedesIn(x, o, p)
    PROVE  Lists(x, Append(l, PartOf(x, p)), h, D \cup {p})
<1> DEFINE m == Append(l, PartOf(x, p))
           n == Len(l)
<1>1. /\ l \in Seq(Entry) /\ h \in {0, 1} /\ n >= h /\ n \in Nat
      /\ h = 1 => l[1] = PartOf(x, 0)
      /\ \A i \in h + 1 .. n : \E o \in D : l[i] = PartOf(x, o)
      /\ \A o \in D : \E i \in h + 1 .. n : l[i] = PartOf(x, o)
      /\ \A i, j \in h + 1 .. n : i < j => PrecedesIn(x, l[i].part, l[j].part)
  BY DEF Lists
<1>2. /\ m \in Seq(Entry) /\ Len(m) = n + 1 /\ m[n + 1] = PartOf(x, p)
      /\ \A i \in 1 .. n : m[i] = l[i]
  BY <1>1
<1> HIDE DEF m, n
<1>3. \A i \in h + 1 .. Len(m) : (i \in h + 1 .. n /\ m[i] = l[i]) \/ (i = n + 1 /\ m[i] = PartOf(x, p))
  <2>1. \A i \in h + 1 .. Len(m) : i = n + 1 \/ (i \in h + 1 .. n /\ i \in 1 .. n)
    BY <1>1, <1>2
  <2> QED BY <1>2, <2>1
<1>4. \A i \in h + 1 .. n : i \in h + 1 .. Len(m) /\ m[i] = l[i]
  <2>1. \A i \in h + 1 .. n : i \in h + 1 .. Len(m) /\ i \in 1 .. n
    BY <1>1, <1>2
  <2> QED BY <1>2, <2>1
<1>5. n + 1 \in h + 1 .. Len(m)
  BY <1>1, <1>2
<1>6. \A o : PartOf(x, o).part = o
  BY DEF PartOf
<1>7. \A i \in h + 1 .. Len(m) : \E o \in D \cup {p} : m[i] = PartOf(x, o)
  BY <1>1, <1>3
<1>8. \A o \in D \cup {p} : \E i \in h + 1 .. Len(m) : m[i] = PartOf(x, o)
  BY <1>1, <1>2, <1>4, <1>5
<1>9. ASSUME NEW i \in h + 1 .. Len(m), NEW j \in h + 1 .. Len(m), i < j
      PROVE  PrecedesIn(x, m[i].part, m[j].part)
  <2>1. i \in h + 1 .. n /\ m[i] = l[i]
    BY <1>1, <1>2, <1>3, <1>9
  <2>2. CASE j \in h + 1 .. n /\ m[j] = l[j]
    BY <1>1, <1>9, <2>1, <2>2
  <2>3. CASE m[j] = PartOf(x, p)
    <3>1. PICK o \in D : l[i] = PartOf(x, o)
      BY <1>1, <2>1
    <3> QED BY <1>6, <2>1, <2>3, <3>1
  <2> QED BY <1>3, <2>2, <2>3
<1>10. Len(m) >= h /\ (h = 1 => m[1] = PartOf(x, 0))
  <2>1. h = 1 => 1 \in 1 .. n
    BY <1>1
  <2> QED BY <1>1, <1>2, <2>1
<1>11. Lists(x, m, h, D \cup {p})
  BY <1>1, <1>2, <1>7, <1>8, <1>9, <1>10 DEF Lists
<1> QED BY <1>11 DEF m

\* A table of sections is a sequence.
LEMMA TableIs ==
    ASSUME NEW S, NEW t \in UpTo(S)
    PROVE  t \in Seq(S) /\ Len(t) \in 0 .. MaxSect /\ DOMAIN t = 1 .. Len(t)
<1>1. PICK n \in 0 .. MaxSect : t \in [1 .. n -> S]
  BY DEF UpTo
<1>2. n \in Nat /\ t \in Seq(S) /\ Len(t) = n /\ DOMAIN t = 1 .. n
  BY <1>1, ExecutableAssumption
<1> QED BY <1>1, <1>2

\* Any part of the tables can be listed.
LEMMA EntriesAre ==
    ASSUME NEW x, x.machine \in {"x8664", "arm64", "riscv64", "mips64", "ppc"}
    PROVE  /\ \A p \in Nat : PartOf(x, p) \in Entry
           /\ \A c, n \in Nat : PartOf(x, <<c, n>>) \in Entry
<1>1. ASSUME NEW p \in Nat \cup (Nat \X Nat) PROVE PartOf(x, p) \in Entry
  BY DEF PartOf, Entry
<1>2. \A c, n \in Nat : <<c, n>> \in Nat \X Nat
  OBVIOUS
<1> QED BY <1>1, <1>2

\* One row more of a table without commands.
LEMMA RowMore ==
    ASSUME NEW x, NEW w, NEW l, NEW h, NEW r \in Nat, DOMAIN x.sects = 1 .. Len(x.sects), Len(x.sects) \in Nat,
           r \in DOMAIN x.sects, x.kind # "mach", Lists(x, l, h, RowsBefore(x, w, r)),
           x.machine \in {"x8664", "arm64", "riscv64", "mips64", "ppc"}
    PROVE  Lists(x, IF AskedOf(x, w, x.sects[r]) THEN Append(l, PartOf(x, r)) ELSE l, h, RowsBefore(x, w, r + 1))
<1> DEFINE D == RowsBefore(x, w, r)
           D1 == RowsBefore(x, w, r + 1)
<1>1. \A i \in DOMAIN x.sects : i \in Nat /\ (i < r + 1 <=> i < r \/ i = r) /\ (i = r => ~(i < r))
  OBVIOUS
<1>2. CASE AskedOf(x, w, x.sects[r])
  <2>1. D1 = D \cup {r}
    BY <1>1, <1>2 DEF RowsBefore
  <2>2. PartOf(x, r) \in Entry
    BY EntriesAre
  <2>3. \A o \in D : PrecedesIn(x, o, r)
    BY DEF RowsBefore, PrecedesIn
  <2>4. Lists(x, l, h, D)
    OBVIOUS
  <2> HIDE DEF D, D1
  <2>5. Lists(x, Append(l, PartOf(x, r)), h, D1)
    BY <2>1, <2>2, <2>3, <2>4, ListGrows
  <2> QED BY <1>2, <2>5 DEF D1
<1>3. CASE ~AskedOf(x, w, x.sects[r])
  <2>1. D1 = D
    BY <1>1, <1>3 DEF RowsBefore
  <2> QED BY <1>3, <2>1
<1> QED BY <1>2, <1>3

\* One section more of a command.
LEMMA SectMore ==
    ASSUME NEW x, NEW w, NEW l, NEW h, NEW c \in Nat, NEW n \in Nat, x.kind = "mach",
           c \in DOMAIN x.cmds, DOMAIN x.cmds \subseteq Nat, x.cmds[c].cmd = 25,
           n + 1 \in DOMAIN x.cmds[c].sects, n + 1 <= MaxSect,
           Lists(x, l, h, SectsBefore(x, w, c, n)),
           x.machine \in {"x8664", "arm64", "riscv64", "mips64", "ppc"}
    PROVE  Lists(x, IF AskedOf(x, w, x.cmds[c].sects[n + 1]) THEN Append(l, PartOf(x, <<c, n + 1>>)) ELSE l,
                 h, SectsBefore(x, w, c, n + 1))
<1> DEFINE D == SectsBefore(x, w, c, n)
           D1 == SectsBefore(x, w, c, n + 1)
           P == (DOMAIN x.cmds) \X (1 .. MaxSect)
           k == n + 1
           Is(p) == x.cmds[p[1]].cmd = 25 /\ p[2] \in DOMAIN x.cmds[p[1]].sects
                    /\ AskedOf(x, w, x.cmds[p[1]].sects[p[2]])
<1>1. D = {p \in P : Is(p) /\ (p[1] < c \/ (p[1] = c /\ p[2] <= n))}
      /\ D1 = {p \in P : Is(p) /\ (p[1] < c \/ (p[1] = c /\ p[2] <= k))}
  BY DEF SectsBefore
<1>2. MaxSect \in Nat /\ k \in Nat /\ k \in 1 .. MaxSect
  BY ExecutableAssumption
<1>3. \A p \in P : p[1] \in Nat /\ p[2] \in Nat /\ p = <<p[1], p[2]>>
  BY <1>2
<1>4. \A i \in Nat : (i <= k <=> (i <= n \/ i = k)) /\ (i <= n => i < k)
  OBVIOUS
<1>5. <<c, k>> \in P /\ <<c, k>>[1] = c /\ <<c, k>>[2] = k
  BY <1>2
<1>6. Is(<<c, k>>) <=> AskedOf(x, w, x.cmds[c].sects[k])
  BY <1>5
<1>7. Lists(x, l, h, D)
  OBVIOUS
<1> HIDE DEF D, D1, P, Is
<1>8. \A p \in P : p[1] = c /\ p[2] = k => p = <<c, k>>
  BY ONLY <1>3
<1>9. c \in Nat /\ n \in Nat
  OBVIOUS
<1>10. \A p \in P : (p[1] < c \/ (p[1] = c /\ p[2] <= k)) <=> ((p[1] < c \/ (p[1] = c /\ p[2] <= n)) \/ p = <<c, k>>)
  <2> HIDE DEF k
  <2>1. ~(c < c)
    BY ONLY <1>9
  <2> QED BY ONLY <1>2, <1>3, <1>4, <1>5, <1>8, <2>1
<1>11. k = n + 1
  OBVIOUS
<1> HIDE DEF k
<1>12. CASE Is(<<c, k>>)
  <2>1. D1 = D \cup {<<c, k>>}
    BY ONLY <1>1, <1>5, <1>10, <1>12
  <2>2. PartOf(x, <<c, k>>) \in Entry
    BY <1>2, EntriesAre
  <2>3. \A o \in D : PrecedesIn(x, o, <<c, k>>)
    <3> TAKE o \in D
    <3>1. o \in P /\ (o[1] < c \/ (o[1] = c /\ o[2] <= n))
      BY ONLY <1>1
    <3>2. o[1] < c \/ (o[1] = c /\ o[2] < k)
      BY ONLY <1>3, <1>4, <3>1
    <3> QED BY <1>5, <3>2 DEF PrecedesIn
  <2>4. Lists(x, Append(l, PartOf(x, <<c, k>>)), h, D1)
    BY <1>7, <2>1, <2>2, <2>3, ListGrows
  <2> QED BY <1>6, <1>11, <1>12, <2>4 DEF D1
<1>13. CASE ~Is(<<c, k>>)
  <2>1. D1 = D
    BY ONLY <1>1, <1>5, <1>10, <1>13
  <2> QED BY <1>6, <1>7, <1>11, <1>13, <2>1 DEF D1
<1> QED BY <1>12, <1>13

----------------------------------------------------------------------------
(* The walks over the tables. *)

Machines == {"x8664", "arm64", "riscv64", "mips64", "ppc"}
WrongIn(x) ==
    \/ x.machine = "mips64"
    \/ x.kind = "pe" /\ (x.machine # "x8664" \/ x.magic = 0)
    \/ x.kind = "mach" /\ \E c \in DOMAIN x.cmds : x.cmds[c].empty
Lead(x) == IF x.kind = "elf64" /\ x.phoff THEN 1 ELSE 0
RowsAll(x, w) == IF x.kind = "pe" \/ x.shoff THEN RowsBefore(x, w, Len(x.sects) + 1) ELSE {}

\* The inductive invariant: at each row what the tables before it ask for is listed.
ExeInv ==
    /\ stage = "" => listed = << >>
    /\ stage = "program" => /\ exe \in elf64_hdr /\ exe.kind = "elf64"
                            /\ row = 1 /\ listed = << >>
    /\ stage = "sections" =>
         /\ (exe \in elf64_hdr /\ exe.kind = "elf64" /\ exe.shoff) \/ exe \in pe
         /\ row \in 1 .. Len(exe.sects) + 1
         /\ ~WrongIn(exe) => Lists(exe, listed, Lead(exe), RowsBefore(exe, want, row))
    /\ stage = "commands" =>
         /\ exe \in mach_header_64 /\ exe.machine # "ppc"
         /\ row \in 1 .. Len(exe.cmds) + 1
         /\ ~WrongIn(exe) => place = row /\ Lists(exe, listed, 0, SectsBefore(exe, want, row, 0))
    /\ stage = "end" /\ exe.kind \in {"elf64", "pe", "mach"} /\ exe.machine # "ppc" /\ ~WrongIn(exe) =>
         /\ exe.kind # "mach" => /\ exe \in elf64_hdr \cup pe
                                 /\ Lists(exe, listed, Lead(exe), RowsAll(exe, want))
         /\ exe.kind = "mach" => /\ exe \in mach_header_64
                                 /\ Lists(exe, listed, 0, SectsBefore(exe, want, Len(exe.cmds) + 1, 0))

\* What is in the files of each kind.
LEMMA ElfIs ==
    ASSUME NEW x \in elf64_hdr
    PROVE  /\ x.machine \in Machines /\ x.kind \in {"elf64", "elf32"} /\ x.phoff \in BOOLEAN /\ x.shoff \in BOOLEAN
           /\ DOMAIN x.sects = 1 .. Len(x.sects) /\ Len(x.sects) \in Nat
  BY TableIs DEF elf64_hdr, Machines
LEMMA PeIs ==
    ASSUME NEW x \in pe
    PROVE  /\ x.machine \in Machines /\ x.kind = "pe"
           /\ DOMAIN x.sects = 1 .. Len(x.sects) /\ Len(x.sects) \in Nat
  BY TableIs DEF pe, Machines
LEMMA MachIs ==
    ASSUME NEW x \in mach_header_64
    PROVE  /\ x.machine \in Machines \ {"mips64"} /\ x.kind = "mach"
           /\ DOMAIN x.cmds = 1 .. Len(x.cmds) /\ Len(x.cmds) \in Nat
           /\ \A c \in DOMAIN x.cmds : LET sects == x.cmds[c].sects
                                       IN  /\ sects \in Seq(section_64) /\ Len(sects) \in 0 .. MaxSect
                                           /\ DOMAIN sects = 1 .. Len(sects)
<1>1. x.cmds \in UpTo(command_19)
  BY DEF mach_header_64
<1>2. x.cmds \in Seq(command_19) /\ Len(x.cmds) \in Nat /\ DOMAIN x.cmds = 1 .. Len(x.cmds)
  BY <1>1, TableIs
<1>3. ASSUME NEW c \in DOMAIN x.cmds
      PROVE  /\ x.cmds[c].sects \in Seq(section_64) /\ Len(x.cmds[c].sects) \in 0 .. MaxSect
             /\ DOMAIN x.cmds[c].sects = 1 .. Len(x.cmds[c].sects)
  <2>1. x.cmds[c] \in command_19
    BY <1>2
  <2>2. x.cmds[c].sects \in UpTo(section_64)
    BY <2>1 DEF command_19
  <2> QED BY <2>2, TableIs
<1> QED BY <1>2, <1>3 DEF mach_header_64, Machines

\* A segment has its sections listed.
LEMMA SegmentIs ==
    ASSUME exe \in mach_header_64, NEW c \in DOMAIN exe.cmds, exe.cmds[c].cmd = 25,
           Lists(exe, listed, 0, SectsBefore(exe, want, c, 0))
    PROVE  Lists(exe, disasm_macho64_seg19(c), 0, SectsBefore(exe, want, c, Len(exe.cmds[c].sects)))
<1> DEFINE t == exe.cmds[c].sects
           N == Len(t)
           Listings == Seq(Entry)
           More(l, j) == IF AskedOf(exe, want, t[j]) THEN Append(l, PartOf(exe, <<c, j>>)) ELSE l
           E == [j \in 1 .. N |-> [l \in Listings |-> More(l, j)]]
           Runs(g) == g = [j \in 0 .. Len(exe.cmds[c].sects) |->
                             IF j = 0 THEN listed
                             ELSE Disassembled(g[j - 1], shoulddisasm(exe.cmds[c].sects[j], TextNames), Part(<<c, j>>))]
           list == CHOOSE g : Runs(g)
<1>1. /\ exe.machine \in Machines \ {"mips64"} /\ exe.kind = "mach" /\ c \in Nat
      /\ DOMAIN exe.cmds \subseteq Nat /\ N \in 0 .. MaxSect /\ DOMAIN t = 1 .. N /\ N = Len(exe.cmds[c].sects)
  BY MachIs
<1>2. listed \in Listings
  BY DEF Lists
<1>3. MaxSect \in Nat /\ N \in Nat
  BY <1>1, ExecutableAssumption
<1>4. \A j \in 1 .. N : j \in Nat /\ PartOf(exe, <<c, j>>) \in Entry
  BY <1>1, EntriesAre DEF Machines
<1>5. \A l, j : Disassembled(l, shoulddisasm(t[j], TextNames), Part(<<c, j>>)) = More(l, j)
  BY <1>1 DEF Disassembled, shoulddisasm, Part, PartOf, AskedOf
<1> HIDE DEF N
<1>6. E \in [1 .. N -> [Listings -> Listings]]
  <2>1. \A j \in 1 .. N : \A l \in Listings : More(l, j) \in Listings
    BY <1>4
  <2> HIDE DEF More, Listings
  <2> QED BY <2>1
<1>7. PICK h \in [0 .. N -> Listings] : Recurs(h, N, listed, E)
  <2> HIDE DEF E, Listings
  <2> QED BY <1>2, <1>3, <1>6, RecursionDefines
<1>8. /\ h[0] = listed
      /\ \A j \in 1 .. N : h[j] = More(h[j - 1], j)
  <2> HIDE DEF More, Listings
  <2>1. \A j \in 0 .. N : h[j] = IF j = 0 THEN listed ELSE E[j][h[j - 1]]
    <3> HIDE DEF E
    <3> QED BY <1>7 DEF Recurs
  <2>2. 0 \in 0 .. N /\ \A j \in 1 .. N : j \in 0 .. N /\ j # 0 /\ j - 1 \in 0 .. N
    BY <1>3
  <2>3. \A j \in 1 .. N : E[j][h[j - 1]] = More(h[j - 1], j)
    BY <1>7, <2>2
  <2> HIDE DEF E
  <2> QED BY <2>1, <2>2, <2>3
<1> HIDE DEF More, E, Listings, t
<1>9. Runs(h)
  <2> DEFINE L == Len(exe.cmds[c].sects)
             G(j) == IF j = 0 THEN listed
                     ELSE Disassembled(h[j - 1], shoulddisasm(exe.cmds[c].sects[j], TextNames), Part(<<c, j>>))
  <2>1. \A j \in 0 .. N : h[j] = G(j)
    <3>1. \A j \in 0 .. N : j = 0 \/ (j # 0 /\ j \in 1 .. N)
      BY <1>3
    <3>2. \A j : Disassembled(h[j - 1], shoulddisasm(exe.cmds[c].sects[j], TextNames), Part(<<c, j>>)) = More(h[j - 1], j)
      BY <1>5, Zenon DEF t
    <3> QED BY <1>8, <3>1, <3>2
  <2> HIDE DEF G
  <2>2. h = [j \in 0 .. N |-> h[j]]
    BY <1>7
  <2>3. h = [j \in 0 .. N |-> G(j)]
    BY <2>1, <2>2, Zenon
  <2>4. N = L
    BY <1>1
  <2>5. h = [j \in 0 .. L |-> G(j)]
    BY <2>3, <2>4, Zenon
  <2> QED BY <2>5, Zenon DEF G
<1>10. Runs(list)
  BY <1>9, Zenon
<1>11. disasm_macho64_seg19(c) = list[N]
  BY <1>1, Zenon DEF disasm_macho64_seg19
<1> HIDE DEF list
<1>12. /\ list[0] = listed
       /\ \A j \in 1 .. N : list[j] = More(list[j - 1], j)
  <2>1. \A j \in 0 .. N : list[j] = IF j = 0 THEN listed ELSE More(list[j - 1], j)
    <3>1. \A j \in 0 .. N :
            list[j] = IF j = 0 THEN listed
                      ELSE Disassembled(list[j - 1], shoulddisasm(exe.cmds[c].sects[j], TextNames), Part(<<c, j>>))
      BY <1>1, <1>10, Zenon
    <3>2. \A l, j : Disassembled(l, shoulddisasm(exe.cmds[c].sects[j], TextNames), Part(<<c, j>>)) = More(l, j)
      BY <1>5, Zenon DEF t
    <3> HIDE DEF N
    <3> QED BY ONLY <3>1, <3>2, Zenon
  <2>2. 0 \in 0 .. N /\ \A j \in 1 .. N : j \in 0 .. N /\ j # 0
    BY <1>3
  <2> QED BY <2>1, <2>2
<1> DEFINE T == {j \in 0 .. N : Lists(exe, list[j], 0, SectsBefore(exe, want, c, j))}
<1>13. 0 \in T
  BY <1>3, <1>12
<1>14. \A j \in 0 .. N - 1 : j \in T => j + 1 \in T
  <2> SUFFICES ASSUME NEW j \in 0 .. N - 1, j \in T PROVE j + 1 \in T
    OBVIOUS
  <2>1. j \in Nat /\ j + 1 \in 1 .. N /\ j + 1 \in 0 .. N /\ j + 1 <= MaxSect /\ (j + 1) - 1 = j
    BY <1>1, <1>3
  <2>2. list[j + 1] = More(list[j], j + 1)
    BY <1>12, <2>1
  <2>3. Lists(exe, More(list[j], j + 1), 0, SectsBefore(exe, want, c, j + 1))
    <3>1. Lists(exe, list[j], 0, SectsBefore(exe, want, c, j))
      OBVIOUS
    <3> QED BY <1>1, <2>1, <3>1, SectMore DEF More, t, Machines
  <2> QED BY <2>1, <2>2, <2>3
<1>15. N \in T
  <2> HIDE DEF T
  <2>1. \A j \in 0 .. N : j \in T
    BY <1>3, <1>13, <1>14, InductionUpTo
  <2> QED BY <1>3, <2>1
<1> QED BY <1>1, <1>11, <1>15

\* A row of an elf or a pe.
LEMMA RowStep == ExeInv /\ (disasm_elf64_section \/ disasm_pe64) => ExeInv'
<1> SUFFICES ASSUME ExeInv, disasm_elf64_section \/ disasm_pe64  PROVE ExeInv'
  OBVIOUS
<1> DEFINE s == exe.sects[row]
<1>1. /\ stage = "sections" /\ row <= Len(exe.sects) /\ row' = row + 1
      /\ exe' = exe /\ want' = want /\ stage' = stage
  BY DEF disasm_elf64_section, disasm_pe64
<1>2. /\ (exe \in elf64_hdr /\ exe.kind = "elf64" /\ exe.shoff) \/ exe \in pe
      /\ row \in 1 .. Len(exe.sects) + 1
      /\ ~WrongIn(exe) => Lists(exe, listed, Lead(exe), RowsBefore(exe, want, row))
  BY <1>1 DEF ExeInv
<1>3. /\ exe.machine \in Machines /\ exe.kind # "mach" /\ exe.kind \in {"elf64", "pe"}
      /\ DOMAIN exe.sects = 1 .. Len(exe.sects) /\ Len(exe.sects) \in Nat
  BY <1>2, ElfIs, PeIs
<1>4. row \in Nat /\ row \in DOMAIN exe.sects /\ row + 1 \in 1 .. Len(exe.sects) + 1
  BY <1>1, <1>2, <1>3
<1>5. ASSUME ~WrongIn(exe)
      PROVE  listed' = IF AskedOf(exe, want, s) THEN Append(listed, PartOf(exe, row)) ELSE listed
  <2>1. CASE disasm_elf64_section
    <3>1. exe.kind = "elf64" /\ exe.machine # "mips64"
      BY <1>5, <2>1 DEF disasm_elf64_section, WrongIn
    <3> QED BY <2>1, <3>1 DEF disasm_elf64_section, Disassembled, shoulddisasm, Part, PartOf, AskedOf
  <2>2. CASE disasm_pe64
    <3>1. exe.kind = "pe" /\ exe.machine = "x8664" /\ exe.magic # 0
      BY <1>5, <2>2 DEF disasm_pe64, WrongIn
    <3> QED BY <2>2, <3>1 DEF disasm_pe64, disasm_pe64_nt, Disassembled, shoulddisasm, PartOf, AskedOf
  <2> QED BY <2>1, <2>2
<1>6. ~WrongIn(exe) => Lists(exe, listed', Lead(exe), RowsBefore(exe, want, row + 1))
  BY <1>2, <1>3, <1>4, <1>5, RowMore DEF Machines
<1> QED BY <1>1, <1>2, <1>4, <1>6 DEF ExeInv

\* The rows of a table are done.
LEMMA RowsDone == ExeInv /\ sections_done => ExeInv'
<1> SUFFICES ASSUME ExeInv, sections_done  PROVE ExeInv'
  OBVIOUS
<1>1. /\ stage = "sections" /\ row > Len(exe.sects) /\ stage' = "end"
      /\ exe' = exe /\ want' = want /\ listed' = listed
  BY DEF sections_done
<1>2. /\ (exe \in elf64_hdr /\ exe.kind = "elf64" /\ exe.shoff) \/ exe \in pe
      /\ row \in 1 .. Len(exe.sects) + 1
      /\ ~WrongIn(exe) => Lists(exe, listed, Lead(exe), RowsBefore(exe, want, row))
  BY <1>1 DEF ExeInv
<1>3. exe.kind \in {"elf64", "pe"} /\ (exe.kind = "pe" \/ exe.shoff) /\ Len(exe.sects) \in Nat
  BY <1>2, ElfIs, PeIs
<1>4. row = Len(exe.sects) + 1
  BY <1>1, <1>2, <1>3
<1>5. ~WrongIn(exe) => Lists(exe, listed, Lead(exe), RowsAll(exe, want))
  BY <1>2, <1>3, <1>4 DEF RowsAll
<1> QED BY <1>1, <1>2, <1>3, <1>5 DEF ExeInv

\* Nothing is listed yet.
LEMMA EmptyLists == \A x : Lists(x, << >>, 0, {})
  BY DEF Lists

\* The first segment of an elf.
LEMMA ProgramStep == ExeInv /\ disasm_elf64_program => ExeInv'
<1> SUFFICES ASSUME ExeInv, disasm_elf64_program  PROVE ExeInv'
  OBVIOUS
<1>1. /\ stage = "program" /\ stage' = (IF exe.shoff THEN "sections" ELSE "end")
      /\ listed' = Disassembled(listed, exe.phoff, Part(0))
      /\ exe' = exe /\ want' = want /\ row' = row
  BY DEF disasm_elf64_program
<1>2. exe \in elf64_hdr /\ exe.kind = "elf64" /\ row = 1 /\ listed = << >>
  BY <1>1 DEF ExeInv
<1>3. /\ exe.machine \in Machines /\ exe.phoff \in BOOLEAN /\ exe.shoff \in BOOLEAN
      /\ DOMAIN exe.sects = 1 .. Len(exe.sects) /\ Len(exe.sects) \in Nat
  BY <1>2, ElfIs
<1>4. RowsBefore(exe, want, 1) = {}
  BY <1>3 DEF RowsBefore
<1>5. ~WrongIn(exe) => Lists(exe, listed', Lead(exe), {})
  <2> SUFFICES ASSUME ~WrongIn(exe) PROVE Lists(exe, listed', Lead(exe), {})
    OBVIOUS
  <2>1. exe.machine # "mips64"
    BY DEF WrongIn
  <2>2. CASE exe.phoff
    <3>1. listed' = << PartOf(exe, 0) >> /\ Lead(exe) = 1
      BY <1>1, <1>2, <2>1, <2>2 DEF Disassembled, Part, PartOf, Lead
    <3>2. PartOf(exe, 0) \in Entry
      BY <1>3, EntriesAre DEF Machines
    <3> DEFINE e == PartOf(exe, 0)
    <3>3. << e >> \in Seq(Entry) /\ Len(<< e >>) = 1 /\ << e >>[1] = e /\ 1 + 1 .. 1 = {}
      BY <3>2
    <3> HIDE DEF e
    <3>4. Lists(exe, << e >>, 1, {})
      BY <3>3 DEF Lists, e
    <3> QED BY <3>1, <3>4 DEF e
  <2>3. CASE ~exe.phoff
    BY <1>1, <1>2, <2>3, EmptyLists DEF Disassembled, Lead
  <2> QED BY <2>2, <2>3
<1>6. CASE exe.shoff
  <2>1. row \in 1 .. Len(exe.sects) + 1
    BY <1>2, <1>3
  <2> QED BY <1>1, <1>2, <1>4, <1>5, <1>6, <2>1 DEF ExeInv
<1>7. CASE ~exe.shoff
  <2>1. RowsAll(exe, want) = {}
    BY <1>2, <1>7 DEF RowsAll
  <2> QED BY <1>1, <1>2, <1>5, <1>7, <2>1 DEF ExeInv
<1> QED BY <1>6, <1>7

\* A command of a mach file.
LEMMA CommandStep == ExeInv /\ disasm_macho64 => ExeInv'
<1> SUFFICES ASSUME ExeInv, disasm_macho64  PROVE ExeInv'
  OBVIOUS
<1>1. /\ stage = "commands" /\ row <= Len(exe.cmds) /\ row' = row + 1
      /\ listed' = (IF exe.cmds[place].cmd = 25 THEN disasm_macho64_seg19(place) ELSE listed)
      /\ place' = (IF exe.cmds[place].empty THEN place ELSE place + 1)
      /\ exe' = exe /\ want' = want /\ stage' = stage
  BY DEF disasm_macho64
<1>2. /\ exe \in mach_header_64 /\ exe.machine # "ppc" /\ row \in 1 .. Len(exe.cmds) + 1
      /\ ~WrongIn(exe) => place = row /\ Lists(exe, listed, 0, SectsBefore(exe, want, row, 0))
  BY <1>1 DEF ExeInv
<1>3. /\ exe.kind = "mach" /\ DOMAIN exe.cmds = 1 .. Len(exe.cmds) /\ Len(exe.cmds) \in Nat
      /\ \A c \in DOMAIN exe.cmds : /\ Len(exe.cmds[c].sects) \in 0 .. MaxSect
                                    /\ DOMAIN exe.cmds[c].sects = 1 .. Len(exe.cmds[c].sects)
  BY <1>2, MachIs
<1>4. row \in Nat /\ row \in DOMAIN exe.cmds /\ row + 1 \in 1 .. Len(exe.cmds) + 1
  BY <1>1, <1>2, <1>3
<1>5. ASSUME ~WrongIn(exe)
      PROVE  place' = row + 1 /\ Lists(exe, listed', 0, SectsBefore(exe, want, row + 1, 0))
  <2>1. place = row /\ ~exe.cmds[row].empty
    BY <1>2, <1>3, <1>4, <1>5 DEF WrongIn
  <2>2. place' = row + 1
    BY <1>1, <2>1
  <2> DEFINE n == Len(exe.cmds[row].sects)
             P == (DOMAIN exe.cmds) \X (1 .. MaxSect)
             Is(p) == exe.cmds[p[1]].cmd = 25 /\ p[2] \in DOMAIN exe.cmds[p[1]].sects
                      /\ AskedOf(exe, want, exe.cmds[p[1]].sects[p[2]])
  <2>3. /\ SectsBefore(exe, want, row + 1, 0) = {p \in P : Is(p) /\ (p[1] < row + 1 \/ (p[1] = row + 1 /\ p[2] <= 0))}
        /\ SectsBefore(exe, want, row, 0) = {p \in P : Is(p) /\ (p[1] < row \/ (p[1] = row /\ p[2] <= 0))}
        /\ SectsBefore(exe, want, row, n) = {p \in P : Is(p) /\ (p[1] < row \/ (p[1] = row /\ p[2] <= n))}
    BY DEF SectsBefore
  <2>4. \A p \in P : /\ p[1] \in Nat /\ p[2] \in 1 .. MaxSect
                     /\ Is(p) => exe.cmds[p[1]].cmd = 25 /\ p[2] \in 1 .. Len(exe.cmds[p[1]].sects)
    BY <1>3
  <2>5. \A p \in P : /\ ~(p[2] <= 0)
                     /\ p[1] < row + 1 <=> (p[1] < row \/ p[1] = row)
    <3>1. \A i \in 1 .. MaxSect : ~(i <= 0)
      BY ExecutableAssumption
    <3>2. \A i \in Nat : i < row + 1 <=> (i < row \/ i = row)
      BY <1>4
    <3> HIDE DEF P, Is
    <3> QED BY ONLY <2>4, <3>1, <3>2
  <2>6. \A p \in P : Is(p) /\ p[1] = row => p[2] <= n /\ exe.cmds[row].cmd = 25
    <3>1. n \in Nat
      BY <1>3, <1>4, ExecutableAssumption
    <3>2. \A i \in 1 .. n : i <= n
      BY <3>1
    <3>3. \A p \in P : Is(p) /\ p[1] = row => exe.cmds[row].cmd = 25 /\ p[2] \in 1 .. n
      BY <2>4
    <3> HIDE DEF P, Is, n
    <3> QED BY ONLY <3>2, <3>3
  <2>7. CASE exe.cmds[row].cmd = 25
    <3>1. SectsBefore(exe, want, row + 1, 0) = SectsBefore(exe, want, row, n)
      <4> HIDE DEF P, Is, n
      <4> QED BY ONLY <2>3, <2>5, <2>6
    <3>2. Lists(exe, disasm_macho64_seg19(row), 0, SectsBefore(exe, want, row, n))
      BY <1>2, <1>4, <1>5, <2>7, SegmentIs
    <3> QED BY <1>1, <2>1, <2>2, <2>7, <3>1, <3>2
  <2>8. CASE exe.cmds[row].cmd # 25
    <3>1. SectsBefore(exe, want, row + 1, 0) = SectsBefore(exe, want, row, 0)
      <4> HIDE DEF P, Is, n
      <4> QED BY ONLY <2>3, <2>5, <2>6, <2>8
    <3> QED BY <1>1, <1>2, <1>5, <2>1, <2>2, <2>8, <3>1
  <2> QED BY <2>7, <2>8
<1> QED BY <1>1, <1>2, <1>4, <1>5 DEF ExeInv

\* The commands are done.
LEMMA CommandsDone == ExeInv /\ commands_done => ExeInv'
<1> SUFFICES ASSUME ExeInv, commands_done  PROVE ExeInv'
  OBVIOUS
<1>1. /\ stage = "commands" /\ row > Len(exe.cmds) /\ stage' = "end"
      /\ exe' = exe /\ want' = want /\ listed' = listed
  BY DEF commands_done
<1>2. /\ exe \in mach_header_64 /\ row \in 1 .. Len(exe.cmds) + 1
      /\ ~WrongIn(exe) => Lists(exe, listed, 0, SectsBefore(exe, want, row, 0))
  BY <1>1 DEF ExeInv
<1>3. exe.kind = "mach" /\ Len(exe.cmds) \in Nat
  BY <1>2, MachIs
<1>4. row = Len(exe.cmds) + 1
  BY <1>1, <1>2, <1>3
<1> QED BY <1>1, <1>2, <1>3, <1>4 DEF ExeInv

\* The command begins.
LEMMA DisasmStep ==
    ASSUME ExeInv, NEW files, files \in {elf64_hdr, pe, mach_header_64, object}, disasm(files)
    PROVE  ExeInv'
<1>1. stage = "" /\ exe' \in files /\ row' = 1 /\ place' = 1 /\ listed' = << >>
  BY DEF disasm, ExeInv
<1>2. CASE exe'.kind = "elf64" /\ exe' \in elf64_hdr
  <2>1. stage' = "program"
    BY <1>2 DEF disasm, check_elf, check_mach, check_pe
  <2> QED BY <1>1, <1>2, <2>1 DEF ExeInv
<1>3. CASE exe' \in elf64_hdr /\ exe'.kind = "elf32"
  <2>1. stage' = "end"
    BY <1>3 DEF disasm, check_elf, check_mach, check_pe
  <2> QED BY <1>1, <1>3, <2>1 DEF ExeInv
<1>4. CASE exe' \in pe
  <2>1. exe'.kind = "pe" /\ Len(exe'.sects) \in Nat /\ DOMAIN exe'.sects = 1 .. Len(exe'.sects)
    BY <1>4, PeIs
  <2>2. stage' \in {"sections", "crash"}
    BY <2>1 DEF disasm, check_elf, check_mach, check_pe
  <2>3. RowsBefore(exe', want', 1) = {} /\ Lead(exe') = 0 /\ 1 \in 1 .. Len(exe'.sects) + 1
    BY <2>1 DEF RowsBefore, Lead
  <2> QED BY <1>1, <1>4, <2>2, <2>3, EmptyLists DEF ExeInv
<1>5. CASE exe' \in mach_header_64
  <2>1. exe'.kind = "mach" /\ Len(exe'.cmds) \in Nat /\ DOMAIN exe'.cmds = 1 .. Len(exe'.cmds)
    BY <1>5, MachIs
  <2>2. CASE exe'.machine = "ppc"
    <3>1. stage' = "end"
      BY <2>1, <2>2 DEF disasm, check_elf, check_mach, check_pe
    <3> QED BY <1>1, <2>2, <3>1 DEF ExeInv
  <2>3. CASE exe'.machine # "ppc"
    <3>1. stage' = "commands"
      BY <2>1, <2>3 DEF disasm, check_elf, check_mach, check_pe
    <3>2. SectsBefore(exe', want', 1, 0) = {}
      <4>1. \A p \in (DOMAIN exe'.cmds) \X (1 .. MaxSect) : ~(p[1] < 1 \/ (p[1] = 1 /\ p[2] <= 0))
        BY <2>1, ExecutableAssumption
      <4> QED BY <4>1 DEF SectsBefore
    <3>3. 1 \in 1 .. Len(exe'.cmds) + 1
      BY <2>1
    <3> QED BY <1>1, <1>5, <2>1, <2>3, <3>1, <3>2, <3>3, EmptyLists DEF ExeInv
  <2> QED BY <2>2, <2>3
<1>6. CASE exe' \in object
  <2>1. exe'.kind \in {"object", "other"}
    BY <1>6 DEF object
  <2>2. stage' = "end"
    BY <2>1 DEF disasm, check_elf, check_mach, check_pe
  <2> QED BY <1>1, <2>1, <2>2 DEF ExeInv
<1>7. exe' \in elf64_hdr => exe'.kind \in {"elf64", "elf32"}
  BY ElfIs
<1> QED BY <1>1, <1>2, <1>3, <1>4, <1>5, <1>6, <1>7

LEMMA ExeInvHolds == ExeSpec => []ExeInv
<1>1. Untouched => ExeInv
  BY DEF Untouched, Unwritten, ExeInv
<1>2. ExeInv /\ [ExeStep]_file => ExeInv'
  <2> SUFFICES ASSUME ExeInv, [ExeStep]_file PROVE ExeInv'
    OBVIOUS
  <2>1. CASE disasm(elf64_hdr) \/ disasm(pe) \/ disasm(mach_header_64) \/ disasm(object)
    BY <2>1, DisasmStep
  <2>2. CASE disasm_elf64_program
    BY <2>2, ProgramStep
  <2>3. CASE disasm_elf64_section \/ disasm_pe64
    BY <2>3, RowStep
  <2>4. CASE sections_done
    BY <2>4, RowsDone
  <2>5. CASE disasm_macho64
    BY <2>5, CommandStep
  <2>6. CASE commands_done
    BY <2>6, CommandsDone
  <2>7. CASE UNCHANGED file
    BY <2>7 DEF ExeInv, file
  <2> QED BY <2>1, <2>2, <2>3, <2>4, <2>5, <2>6, <2>7 DEF ExeStep
<1> QED BY <1>1, <1>2, PTL DEF ExeSpec

\* What the walks count is what a reader of the tables would name.
LEMMA WantedIs ==
    /\ Unlisted = WrongIn(exe)
    /\ exe \in elf64_hdr /\ exe.kind = "elf64" => Wanted = RowsAll(exe, want)
    /\ exe \in pe => Wanted = RowsAll(exe, want)
    /\ exe \in mach_header_64 => Wanted = SectsBefore(exe, want, Len(exe.cmds) + 1, 0)
<1>1. \A s : Asked(s) = AskedOf(exe, want, s)
  BY DEF Asked, AskedOf
<1>2. ASSUME exe.kind # "mach", DOMAIN exe.sects = 1 .. Len(exe.sects), Len(exe.sects) \in Nat
      PROVE  Wanted = RowsAll(exe, want)
  <2>1. \A i \in DOMAIN exe.sects : i < Len(exe.sects) + 1
    BY <1>2
  <2>2. Wanted = {i \in DOMAIN exe.sects : exe.kind = "pe" \/ exe.shoff} \cap
                 {i \in DOMAIN exe.sects : Asked(exe.sects[i])}
    BY <1>2 DEF Wanted
  <2>3. RowsBefore(exe, want, Len(exe.sects) + 1) = {i \in DOMAIN exe.sects : Asked(exe.sects[i])}
    BY <1>1, <2>1 DEF RowsBefore
  <2> QED BY <2>2, <2>3 DEF RowsAll
<1>3. ASSUME exe \in mach_header_64
      PROVE  Wanted = SectsBefore(exe, want, Len(exe.cmds) + 1, 0)
  <2>1. exe.kind = "mach" /\ DOMAIN exe.cmds = 1 .. Len(exe.cmds) /\ Len(exe.cmds) \in Nat
    BY <1>3, MachIs
  <2>2. \A p \in (DOMAIN exe.cmds) \X (1 .. MaxSect) : p[1] < Len(exe.cmds) + 1
    BY <2>1
  <2> QED BY <1>1, <2>1, <2>2 DEF Wanted, SectsBefore
<1> QED BY <1>2, <1>3, ElfIs, PeIs DEF Unlisted, WrongIn

\* A listing is what was asked for.
AsListed(h, D) ==
    LET rows == SubSeq(listed, h + 1, Len(listed))
    IN  /\ h = 1 => listed[1] = Part(0)
        /\ {rows[i] : i \in DOMAIN rows} = {Part(p) : p \in D}
        /\ \A i \in 2 .. Len(rows) : Before(rows[i - 1].part, rows[i].part)
LEMMA AsListedIs ==
    ASSUME NEW h, NEW D, Lists(exe, listed, h, D), h = (IF exe.kind = "elf64" /\ exe.phoff THEN 1 ELSE 0)
    PROVE  AsListed(h, D)
<1> DEFINE n == Len(listed)
           rows == SubSeq(listed, h + 1, n)
<1>1. \A p : Part(p) = PartOf(exe, p)
  BY DEF Part, PartOf
<1>2. /\ listed \in Seq(Entry) /\ h \in {0, 1} /\ n >= h /\ n \in Nat
      /\ h = 1 => listed[1] = PartOf(exe, 0)
      /\ \A i \in h + 1 .. n : \E p \in D : listed[i] = PartOf(exe, p)
      /\ \A p \in D : \E i \in h + 1 .. n : listed[i] = PartOf(exe, p)
      /\ \A i, j \in h + 1 .. n : i < j => PrecedesIn(exe, listed[i].part, listed[j].part)
  BY DEF Lists
<1>3. /\ Len(rows) = n - h /\ DOMAIN rows = 1 .. n - h
      /\ \A i \in 1 .. n - h : rows[i] = listed[h + i]
  <2>1. h + 1 \in 1 .. n + 1 /\ n \in (h + 1) - 1 .. n /\ (n - (h + 1)) + 1 = n - h
    BY <1>2
  <2>2. \A i \in 1 .. n - h : ((h + 1) + i) - 1 = h + i
    BY <1>2
  <2> HIDE DEF n
  <2>3. /\ rows \in Seq(Entry) /\ Len(rows) = (n - (h + 1)) + 1
        /\ \A k \in 1 .. (n - (h + 1)) + 1 : rows[k] = listed[((h + 1) + k) - 1]
    <3>1. \A i \in 1 .. Len(listed) + 1 : \A j \in i - 1 .. Len(listed) :
            /\ SubSeq(listed, i, j) \in Seq(Entry) /\ Len(SubSeq(listed, i, j)) = (j - i) + 1
            /\ \A k \in 1 .. (j - i) + 1 : SubSeq(listed, i, j)[k] = listed[(i + k) - 1]
      BY <1>2, SubSeqIs
    <3>2. n = Len(listed)
      BY DEF n
    <3> QED BY ONLY <2>1, <3>1, <3>2, Zenon
  <2>4. DOMAIN rows = 1 .. Len(rows)
    BY <2>3
  <2> QED BY ONLY <2>1, <2>2, <2>3, <2>4
<1> HIDE DEF rows, n
<1>4. \A i \in 1 .. n - h : h + i \in h + 1 .. n
  BY <1>2
<1>5. \A k \in h + 1 .. n : k - h \in 1 .. n - h /\ h + (k - h) = k
  BY <1>2
<1>6. {rows[i] : i \in DOMAIN rows} = {Part(p) : p \in D}
  <2>1. \A i \in DOMAIN rows : \E p \in D : rows[i] = Part(p)
    BY <1>1, <1>2, <1>3, <1>4
  <2>2. \A p \in D : \E i \in DOMAIN rows : Part(p) = rows[i]
    <3> TAKE p \in D
    <3>1. PICK k \in h + 1 .. n : listed[k] = PartOf(exe, p)
      BY <1>2
    <3>2. k - h \in DOMAIN rows /\ rows[k - h] = listed[k]
      BY <1>3, <1>5
    <3> QED BY <1>1, <3>1, <3>2
  <2> QED BY <2>1, <2>2
<1>7. ASSUME NEW i \in 2 .. Len(rows) PROVE Before(rows[i - 1].part, rows[i].part)
  <2>1. /\ i - 1 \in 1 .. n - h /\ i \in 1 .. n - h
        /\ h + (i - 1) < h + i
    BY <1>2, <1>3
  <2>2. PrecedesIn(exe, rows[i - 1].part, rows[i].part)
    BY <1>2, <1>3, <1>4, <2>1
  <2> QED BY <2>2 DEF PrecedesIn, Before
<1> QED BY <1>1, <1>2, <1>6, <1>7 DEF rows, n, AsListed

(* For tables of any length and any names of sections: when the listing of an elf, a pe
   or a mach file ends, each section asked for is in it once and no other, in the order
   of the file, but for the files of Unlisted. *)
THEOREM ListingHolds == ExeSpec => []ListedAsAsked
<1>1. ExeInv => ListedAsAsked
  <2> DEFINE h == IF exe.kind = "elf64" /\ exe.phoff THEN 1 ELSE 0
             Ends == stage = "end" /\ exe.kind \in {"elf64", "pe", "mach"} /\ exe.machine # "ppc" /\ ~Unlisted
  <2> SUFFICES ASSUME ExeInv, Ends PROVE ListedAsAsked
    BY DEF ListedAsAsked
  <2>1. \E D : D = Wanted /\ Lists(exe, listed, h, D)
    <3>1. /\ exe.kind # "mach" => exe \in elf64_hdr \cup pe /\ Lists(exe, listed, Lead(exe), RowsAll(exe, want))
          /\ exe.kind = "mach" => exe \in mach_header_64
                                  /\ Lists(exe, listed, 0, SectsBefore(exe, want, Len(exe.cmds) + 1, 0))
      BY WantedIs DEF ExeInv
    <3>2. h = Lead(exe) /\ (exe.kind = "mach" => h = 0)
      BY DEF Lead
    <3>3. exe.kind # "mach" => Wanted = RowsAll(exe, want)
      <4>1. exe.kind # "mach" => exe.kind \in {"elf64", "pe"}
        OBVIOUS
      <4>2. exe.kind # "mach" => (exe \in elf64_hdr /\ exe.kind = "elf64") \/ exe \in pe
        BY <3>1, <4>1, ElfIs, PeIs
      <4> QED BY <4>2, WantedIs
    <3>4. exe.kind = "mach" => Wanted = SectsBefore(exe, want, Len(exe.cmds) + 1, 0)
      BY <3>1, WantedIs
    <3> HIDE DEF h
    <3> QED BY <3>1, <3>2, <3>3, <3>4
  <2>2. Lists(exe, listed, h, Wanted) /\ h = (IF exe.kind = "elf64" /\ exe.phoff THEN 1 ELSE 0)
    BY <2>1
  <2> HIDE DEF h
  <2>3. AsListed(h, Wanted)
    BY <2>2, AsListedIs
  <2> QED BY <2>3 DEF ListedAsAsked, AsListed, h
<1> QED BY <1>1, ExeInvHolds, PTL

----------------------------------------------------------------------------
(* Assembly: the words of arm64, as the walks and the listing read them. *)

Words == [b31 : 0 .. 1, b30 : 0 .. 1, b29 : 0 .. 1, b24 : 0 .. 31, b22 : 0 .. 3, b21 : 0 .. 1,
          b16 : 0 .. 31, b10 : 0 .. 63, b5 : 0 .. 31, b0 : 0 .. 31]
Branches == {"b", "bl", "ret", "b.cond", "cbz", "cbnz", "tbz", "tbnz"}

LEMMA ShowIs ==
    ASSUME NEW op, NEW sz, NEW regs, NEW rest, NEW sign
    PROVE  /\ Show(op, sz, regs, rest).op = op /\ Show(op, sz, regs, rest).regs = regs /\ Show(op, sz, regs, rest).rest = rest
           /\ Signs(op, sz, sign, regs, rest).op = op
           /\ Unknown.op = "unknown"
BY DEF Show, Signs, Unknown

LEMMA BitsAre ==
    ASSUME NEW w \in Words
    PROVE  /\ w.b31 \in {0, 1} /\ w.b30 \in {0, 1} /\ w.b29 \in {0, 1} /\ w.b21 \in {0, 1}
           /\ w.b24 \in 0 .. 31 /\ w.b22 \in {0, 1, 2, 3} /\ w.b16 \in 0 .. 31 /\ w.b10 \in 0 .. 63
           /\ w.b5 \in 0 .. 31 /\ w.b0 \in 0 .. 31
BY DEF Words

LEMMA FirstAre ==
    ASSUME NEW w \in Words
    PROVE  /\ ShownAddImm(w).op \notin Branches
           /\ ShownLogicalImm(w).op \notin Branches
           /\ ShownMoveWide(w).op \notin Branches
           /\ ShownBitfield(w).op \notin Branches
           /\ ShownExtract(w).op \notin Branches
<1> USE BitsAre DEF Branches
<1>1. AddSub(w) \notin Branches
  BY DEF AddSub
<1>2. ShownAddImm(w).op \notin Branches
  BY <1>1, ShowIs DEF ShownAddImm
<1>3. ShownLogicalImm(w).op \notin Branches
  BY ShowIs DEF ShownLogicalImm
<1>4. ShownMoveWide(w).op \notin Branches
  <2>1. CASE <<w.b30, w.b29>> = <<0, 1>>
    BY <2>1, ShowIs DEF ShownMoveWide
  <2>2. CASE <<w.b30, w.b29>> # <<0, 1>>
    <3> DEFINE op == <<"movn", "none", "movz", "movk">>[2 * w.b30 + w.b29 + 1]
    <3>1. op \notin Branches
      OBVIOUS
    <3>2. ShownMoveWide(w).op = op
      BY <2>2, ShowIs DEF ShownMoveWide
    <3> QED BY <3>1, <3>2
  <2> QED BY <2>1, <2>2
<1>5. ShownBitfield(w).op \notin Branches
  <2>1. CASE w.b22 # w.b31 \/ <<w.b30, w.b29>> = <<1, 1>>
    BY <2>1, ShowIs DEF ShownBitfield
  <2>2. CASE w.b22 = w.b31 /\ <<w.b30, w.b29>> # <<1, 1>>
    <3> DEFINE op == <<"sbfm", "bfm", "ubfm">>[2 * w.b30 + w.b29 + 1]
    <3>1. ~(w.b30 = 1 /\ w.b29 = 1)
      BY <2>2
    <3>2. op \notin Branches
      BY <3>1
    <3>3. ShownBitfield(w).op = op
      BY <2>2, ShowIs DEF ShownBitfield
    <3> QED BY <3>2, <3>3
  <2> QED BY <2>1, <2>2
<1>6. ShownExtract(w).op \notin Branches
  BY ShowIs DEF ShownExtract
<1> QED BY <1>2, <1>3, <1>4, <1>5, <1>6

LEMMA ImmediatesAre ==
    ASSUME NEW w \in Words
    PROVE  disasm_arm64_100x(w).op \notin Branches
<1>1. CASE w.b24 = 16
  BY <1>1, BitsAre, ShowIs DEF disasm_arm64_100x, Branches
<1>2. CASE w.b24 = 17
  BY <1>2, BitsAre, ShowIs, FirstAre DEF disasm_arm64_100x, Branches
<1>3. CASE w.b24 = 18
  BY <1>3, BitsAre, ShowIs, FirstAre DEF disasm_arm64_100x, Branches
<1>4. CASE w.b24 = 19
  BY <1>4, BitsAre, ShowIs, FirstAre DEF disasm_arm64_100x, Branches
<1>5. CASE w.b24 \notin 16 .. 19
  BY <1>5, BitsAre, ShowIs, FirstAre DEF disasm_arm64_100x, Branches
<1> QED BY <1>1, <1>2, <1>3, <1>4, <1>5, BitsAre

LEMMA MemoryAre ==
    ASSUME NEW w \in Words
    PROVE  disasm_arm64_x1x0(w).op \notin Branches
<1>1. ShownUnscaled(w, "w").op \notin Branches \/ w.b22 >= 2
  BY BitsAre, ShowIs DEF ShownUnscaled, Branches
<1>2. ShownUnscaled(w, "x").op \notin Branches \/ w.b22 >= 2
  BY BitsAre, ShowIs DEF ShownUnscaled, Branches
<1>3. ShownPair(w).op \notin Branches
  BY BitsAre, ShowIs DEF ShownPair, Branches
<1>4. ShownLiteral(w).op \notin Branches
  BY BitsAre, ShowIs DEF ShownLiteral, Branches
<1>5. <<"str", "ldr", "ldrsw">>[w.b22 + 1] \notin Branches \/ w.b22 = 3
  BY BitsAre DEF Branches
<1>6. <<"str", "ldr">>[(w.b22 % 2) + 1] \notin Branches
  <2>1. w.b22 % 2 \in {0, 1}
    BY BitsAre
  <2> QED BY <2>1 DEF Branches
<1>7. "unknown" \notin Branches
  BY DEF Branches
<1>8. w.b22 \in {0, 1, 2, 3}
  BY BitsAre
<1> DEFINE a == Top(w) \in {<<0, 0, 0>>, <<0, 1, 0>>} /\ w.b24 = 24
           b == Top(w) = <<1, 0, 1>> /\ w.b24 = 24 /\ w.b22 < 2
           c == Top(w) = <<1, 0, 1>> /\ w.b24 \in {8, 9}
           d == Top(w) = <<1, 0, 1>> /\ w.b24 = 25 /\ w.b22 < 3
           e == Top(w) = <<1, 1, 1>> /\ w.b24 = 24 /\ w.b22 < 2 /\ w.b21 = 0
           f == Top(w) = <<1, 1, 1>> /\ w.b24 \in {25, 29}
<1>9. CASE a
  BY <1>9, <1>4 DEF disasm_arm64_x1x0
<1>10. CASE b
  BY <1>10, <1>1, <1>8 DEF disasm_arm64_x1x0, Top
<1>11. CASE c
  BY <1>11, <1>3 DEF disasm_arm64_x1x0, Top
<1>12. CASE d
  BY <1>12, <1>5, ShowIs DEF disasm_arm64_x1x0, Top
<1>13. CASE e
  BY <1>13, <1>2, <1>8 DEF disasm_arm64_x1x0, Top
<1>14. CASE f
  BY <1>14, <1>6, ShowIs DEF disasm_arm64_x1x0, Top
<1>15. CASE ~a /\ ~b /\ ~c /\ ~d /\ ~e /\ ~f
  BY <1>15, <1>7, ShowIs DEF disasm_arm64_x1x0
<1> QED BY <1>9, <1>10, <1>11, <1>12, <1>13, <1>14, <1>15

LEMMA RegistersAre ==
    ASSUME NEW w \in Words
    PROVE  disasm_arm64_x101(w).op \notin Branches
<1>1. ShownTwoSource(w).op \notin Branches
  <2>1. TwoSource[w.b10] \notin Branches
    BY BitsAre DEF TwoSource, Branches
  <2>2. TwoSourceSized[w.b10][1] \notin Branches
    BY BitsAre DEF TwoSourceSized, Branches
  <2>3. <<"subp", "subps">>[w.b29 + 1] \notin Branches /\ "unknown" \notin Branches
    BY BitsAre DEF Branches
  <2> QED BY <2>1, <2>2, <2>3 DEF ShownTwoSource, Show, Unknown
<1>2. ShownOneSource(w).op \notin Branches
  BY BitsAre, ShowIs DEF ShownOneSource, Branches
<1>3. ShownLogical(w).op \notin Branches \/ w.b22 >= 2
  BY BitsAre, ShowIs DEF ShownLogical, Branches
<1>4. AddSub(w) \notin Branches
  BY BitsAre DEF AddSub, Branches
<1>5. ShownAddShifted(w).op \notin Branches
  BY <1>4, ShowIs DEF ShownAddShifted, Branches
<1>6. ShownAddExtended(w).op \notin Branches
  BY <1>4, ShowIs DEF ShownAddExtended, Branches
<1>7. ShownCarryOrFlags(w).op \notin Branches
  <2>1. <<"adc", "adcs", "sbc", "sbcs">>[2 * w.b30 + w.b29 + 1] \notin Branches
    BY BitsAre DEF Branches
  <2>2. {"rmif", "setf8", "setf16", "unknown"} \cap Branches = {}
    BY DEF Branches
  <2> QED BY <2>1, <2>2 DEF ShownCarryOrFlags, Show, Unknown
<1>8. ShownCompare(w).op \notin Branches
  BY BitsAre, ShowIs DEF ShownCompare, Branches
<1>9. ShownSelect(w).op \notin Branches
  <2>1. w.b10 % 2 \in {0, 1}
    BY BitsAre
  <2>2. <<"csel", "csinc", "csinv", "csneg">>[2 * w.b30 + (w.b10 % 2) + 1] \notin Branches
    BY <2>1, BitsAre DEF Branches
  <2> QED BY <2>2, ShowIs DEF ShownSelect
<1>10. ShownThreeSource(w).op \notin Branches
  <2>1. 2^5 = 32
    BY SMT
  <2>2. w.b10 \div 32 \in {0, 1}
    BY BitsAre
  <2>3. <<"madd", "msub">>[w.b10 \div 32 + 1] \notin Branches /\ "unknown" \notin Branches
    BY <2>2 DEF Branches
  <2> QED BY <2>1, <2>3, ShowIs DEF ShownThreeSource
<1> QED BY <1>1, <1>2, <1>3, <1>5, <1>6, <1>7, <1>8, <1>9, <1>10, BitsAre, ShowIs DEF disasm_arm64_x101, Branches

LEMMA SystemsAre ==
    ASSUME NEW w \in Words
    PROVE  /\ disasm_arm64_msr(w).op \notin Branches
           /\ disasm_arm64_mrs(w).op \notin Branches
           /\ ShownException(w).op \notin Branches
<1>1. {"fixed", "whole", "msr", "mrs", "unknown", "brk", "hlt"} \cap Branches = {}
  BY DEF Branches
<1>2. disasm_arm64_msr(w).op \in {"fixed", "whole", "msr"}
  BY DEF disasm_arm64_msr, Show
<1>3. disasm_arm64_mrs(w).op = "mrs"
  BY ShowIs DEF disasm_arm64_mrs
<1>4. ShownException(w).op \notin Branches
  <2>1. w.b0 \in 1 .. 3 => /\ <<"svc", "hvc", "smc">>[w.b0] \notin Branches
                           /\ <<"dcps1", "dcps2", "dcps3">>[w.b0] \notin Branches
    BY DEF Branches
  <2> DEFINE class == 2 * w.b22 + w.b21
             name == CASE class = 0 /\ w.b0 \in 1 .. 3 -> <<"svc", "hvc", "smc">>[w.b0]
                       [] class = 1 /\ w.b0 = 0 -> "brk"
                       [] class = 2 /\ w.b0 = 0 -> "hlt"
                       [] class = 5 /\ w.b0 \in 1 .. 3 -> <<"dcps1", "dcps2", "dcps3">>[w.b0]
                       [] OTHER -> "unknown"
  <2>2. name \notin Branches
    BY <1>1, <2>1
  <2>3. ShownException(w).op = name \/ ShownException(w).op = "unknown"
    BY DEF ShownException, Show, Unknown
  <2> QED BY <1>1, <2>2, <2>3
<1> QED BY <1>1, <1>2, <1>3, <1>4

\* Whether a branch goes through a register and returns, for the listing and for the walk.
LEMMA ReturnsAre ==
    ASSUME NEW w \in Words, w.b24 \in {22, 23}
    PROVE  LET s == ShownBranchRegister(w)
               r == w.b24 = 22 /\ w.b22 = 1 /\ w.b21 = 0 /\ w.b16 = 31 /\ w.b10 = 0 /\ w.b0 = 0
           IN  /\ r => s.op = "ret" /\ s.regs[1] = w.b5
               /\ ~r => s.op \notin Branches
<1> DEFINE class == 8 * (w.b24 % 2) + 2 * w.b22 + w.b21
           s == ShownBranchRegister(w)
<1>1. class = 2 <=> w.b24 = 22 /\ w.b22 = 1 /\ w.b21 = 0
  BY BitsAre
<1>2. {"br", "braa", "blr", "blraa", "retaa", "eret", "eretaa", "drps", "braa_reg", "blraa_reg", "unknown"} \cap Branches = {}
  BY DEF Branches
<1>3. ASSUME class = 2, w.b16 = 31, w.b10 = 0, w.b0 = 0
      PROVE  s.op = "ret" /\ s.regs[1] = w.b5
  <2>1. s = Show("ret", "x", <<w.b5>>, <<"none">>)
    BY <1>3 DEF ShownBranchRegister
  <2> QED BY <2>1, ShowIs
<1>4. ASSUME ~(class = 2 /\ w.b16 = 31 /\ w.b10 = 0 /\ w.b0 = 0)
      PROVE  s.op \notin Branches
  <2>1. s.op \in {"br", "braa", "blr", "blraa", "retaa", "eret", "eretaa", "drps", "braa_reg", "blraa_reg", "unknown"}
    <3> DEFINE keyed == w.b10 \in {2, 3}
               key == IF w.b10 = 2 THEN "a" ELSE "b"
               To(op) == Show(op, "x", <<w.b5>>, <<"none">>)
               Keyed(op) == Show(op, "x", << >>, <<key>>)
               plain == w.b10 = 0 /\ w.b0 = 0
               return == keyed /\ w.b5 = 31 /\ w.b0 = 31
               earlier == (class \in {0, 1} /\ keyed /\ w.b0 = 31) \/ (class \in {2, 4} /\ return)
               names == {"br", "braa", "blr", "blraa", "retaa", "eret", "eretaa", "drps", "braa_reg", "blraa_reg", "unknown"}
    <3>1. \A op \in names : To(op).op \in names /\ Keyed(op).op \in names
      BY DEF Show
    <3>2. Unknown.op \in names
      BY DEF Unknown, Show
    <3>3. s = IF w.b16 # 31 \/ class \notin {0, 1, 2, 4, 5, 8, 9} THEN Unknown
        ELSE CASE class = 0 /\ plain -> To("br")
               [] class = 0 /\ keyed /\ w.b0 = 31 -> Keyed("braa")
               [] class = 1 /\ plain -> To("blr")
               [] class = 1 /\ keyed /\ w.b0 = 31 -> Keyed("blraa")
               [] class = 2 /\ plain -> To("ret")
               [] class = 2 /\ return -> Keyed("retaa")
               [] class = 4 /\ plain -> To("eret")
               [] class = 4 /\ return -> Keyed("eretaa")
               [] class = 5 /\ plain /\ w.b5 = 31 -> Keyed("drps")
               [] class < 9 /\ keyed /\ ~earlier -> Keyed("braa_reg")
               [] class = 9 /\ keyed -> Keyed("blraa_reg")
               [] OTHER -> Unknown
      BY DEF ShownBranchRegister
    <3>4. w.b16 # 31 \/ class \notin {0, 1, 2, 4, 5, 8, 9} \/ ~(class = 2 /\ plain)
      BY <1>4
    <3>5. To("br").op \in names /\ To("blr").op \in names /\ To("eret").op \in names
      BY <3>1
    <3>6. /\ Keyed("braa").op \in names /\ Keyed("blraa").op \in names /\ Keyed("retaa").op \in names
          /\ Keyed("eretaa").op \in names /\ Keyed("drps").op \in names
          /\ Keyed("braa_reg").op \in names /\ Keyed("blraa_reg").op \in names
      BY <3>1
    <3> HIDE DEF class, plain, keyed, return, earlier, To, Keyed, key, names
    <3>7. s.op \in names
      BY <3>2, <3>3, <3>4, <3>5, <3>6
    <3> QED BY <3>7 DEF names
  <2> QED BY <2>1, <1>2
<1> QED BY <1>1, <1>3, <1>4

\* A word as the walks take it and as the listing shows it.
Agrees(w, s) ==
    \/ /\ Seen(w).kind = KindOf(s)
       /\ Seen(w).kind \in {"cond", "jump", "call"} =>
            Seen(w).to = s.rest[2] \/ (s.rest[2] = 2^27 /\ Seen(w).to = -(2^27))
    \/ s.op = "b.cond" /\ w.b0 >= 16

LEMMA PlainKind ==
    ASSUME NEW s, s.op \notin Branches
    PROVE  KindOf(s) = "plain"
BY DEF KindOf, Branches

\* A word that is no branch to either of them.
LEMMA PlainAgrees ==
    ASSUME NEW w, NEW s, Seen(w).kind = "plain", s.op \notin Branches
    PROVE  Agrees(w, s)
BY PlainKind DEF Agrees

LEMMA FarIs ==
    ASSUME NEW w \in Words
    PROVE  /\ imm26(w) \in Nat /\ imm26(w) < 2^26
           /\ 4 * Signed(imm26(w), 26) = 4 * ShownFar(w) \/ (4 * ShownFar(w) = 2^27 /\ 4 * Signed(imm26(w), 26) = -(2^27))
<1>1. 2^5 = 32 /\ 2^11 = 2048 /\ 2^16 = 65536 /\ 2^17 = 131072 /\ 2^24 = 16777216 /\ 2^25 = 33554432 /\ 2^26 = 67108864
      /\ 2^27 = 134217728 /\ 26 - 1 = 25
  BY SMT
<1> DEFINE a == imm19(w)
           v == imm26(w)
<1>2. a = w.b5 + 32 * w.b10 + 2048 * w.b16 + 65536 * w.b21 + 131072 * w.b22
  BY <1>1 DEF imm19
<1>3. a \in Nat /\ a < 524288
  <2>1. /\ w.b5 \in Nat /\ w.b5 <= 31 /\ w.b10 \in Nat /\ w.b10 <= 63 /\ w.b16 \in Nat /\ w.b16 <= 31
        /\ w.b21 \in Nat /\ w.b21 <= 1 /\ w.b22 \in Nat /\ w.b22 <= 3
    BY BitsAre
  <2> HIDE DEF a
  <2> QED BY ONLY <1>2, <2>1, SMT
<1>4. w.b24 % 4 \in 0 .. 3 /\ w.b0 \in 0 .. 31
  BY BitsAre
<1>5. v = w.b0 + 32 * a + 16777216 * (w.b24 % 4)
  BY <1>1 DEF imm26
<1>6. v \in Nat /\ v < 67108864
  BY <1>3, <1>4, <1>5
<1>7. Signed(v, 26) = IF v >= 33554432 THEN v - 67108864 ELSE v
  BY <1>1 DEF Signed
<1>8. ShownFar(w) = IF v > 33554432 THEN v - 67108864 ELSE v
  BY <1>1 DEF ShownFar
<1> HIDE DEF v
<1>9. 4 * Signed(v, 26) = 4 * ShownFar(w) \/ (4 * ShownFar(w) = 134217728 /\ 4 * Signed(v, 26) = -134217728)
  BY <1>6, <1>7, <1>8
<1> QED BY <1>1, <1>6, <1>9 DEF v

\* The words of b24 20 to 23, one test after the other.
LEMMA BranchesAgree ==
    ASSUME NEW w \in Words, w.b24 \in 20 .. 23
    PROVE  Agrees(w, disasm_arm64_101x(w))
<1> DEFINE s == disasm_arm64_101x(w)
           kind == w.b24 - 20
<1>1. w.b31 \in {0, 1} /\ w.b30 \in {0, 1} /\ w.b29 \in {0, 1} /\ w.b0 \in 0 .. 31
  BY BitsAre
<1>2. w.b24 \div 4 = 5 /\ kind \in {0, 1, 2, 3} /\ (kind = 0 <=> w.b24 = 20) /\ (kind = 1 <=> w.b24 = 21)
  OBVIOUS
<1>3. Top(w) = <<w.b31, w.b30, w.b29>>
  BY DEF Top
<1>4. CASE Top(w) = <<0, 1, 0>> /\ kind = 0
  <2>1. s = Show("b.cond", "none", << >>, <<"pc", 4 * Signed(imm19(w), 19), w.b0 % 16>>)
    BY <1>4, <1>3 DEF disasm_arm64_101x
  <2>2. s.op = "b.cond" /\ s.rest[2] = 4 * Signed(imm19(w), 19)
    BY <2>1 DEF Show
  <2>3. CASE w.b0 < 16
    <3>1. Seen(w) = [kind |-> "cond", to |-> 4 * Signed(imm19(w), 19)]
      BY <1>4, <1>2, <1>3, <2>3 DEF Seen
    <3> QED BY <2>2, <3>1 DEF Agrees, KindOf
  <2> QED BY <2>2, <2>3, <1>1 DEF Agrees
<1>5. CASE Top(w) = <<0, 0, 0>>
  <2>1. s = Show("b", "none", << >>, <<"pc", 4 * ShownFar(w)>>)
    BY <1>5, <1>3 DEF disasm_arm64_101x
  <2>2. s.op = "b" /\ s.rest[2] = 4 * ShownFar(w)
    BY <2>1 DEF Show
  <2>3. Seen(w) = [kind |-> "jump", to |-> 4 * Signed(imm26(w), 26)]
    BY <1>5, <1>2, <1>3 DEF Seen
  <2> QED BY <2>2, <2>3, FarIs DEF Agrees, KindOf
<1>6. CASE Top(w) = <<1, 0, 0>>
  <2>1. s = Show("bl", "none", << >>, <<"pc", 4 * ShownFar(w)>>)
    BY <1>6, <1>3 DEF disasm_arm64_101x
  <2>2. s.op = "bl" /\ s.rest[2] = 4 * ShownFar(w)
    BY <2>1 DEF Show
  <2>3. Seen(w) = [kind |-> "call", to |-> 4 * Signed(imm26(w), 26)]
    BY <1>6, <1>2, <1>3 DEF Seen
  <2> QED BY <2>2, <2>3, FarIs DEF Agrees, KindOf
<1>7. CASE <<w.b30, w.b29>> = <<0, 1>> /\ kind < 2
  <2>1. s = Show(<<"cbz", "cbnz">>[kind + 1], Sz(w), <<w.b0>>, <<"pc", 4 * Signed(imm19(w), 19)>>)
    BY <1>7, <1>3 DEF disasm_arm64_101x
  <2>2. s.op \in {"cbz", "cbnz"} /\ s.rest[2] = 4 * Signed(imm19(w), 19)
    BY <2>1, <1>2, <1>7 DEF Show
  <2>3. Seen(w) = [kind |-> "cond", to |-> 4 * Signed(imm19(w), 19)]
    BY <1>7, <1>2, <1>3 DEF Seen
  <2> QED BY <2>2, <2>3 DEF Agrees, KindOf
<1>8. CASE <<w.b30, w.b29>> = <<0, 1>> /\ kind >= 2
  <2>1. s = Show(<<"tbz", "tbnz">>[kind - 1], Sz(w), <<w.b0>>,
                <<"pc", 4 * ShownTest(w), (imm19(w) \div 2^14) + 2^5 * w.b31>>)
    BY <1>8, <1>3 DEF disasm_arm64_101x
  <2>2. s.op \in {"tbz", "tbnz"} /\ s.rest[2] = 4 * ShownTest(w)
    BY <2>1, <1>2, <1>8 DEF Show
  <2>3. Seen(w) = [kind |-> "cond", to |-> 4 * Signed(imm14(w), 14)]
    BY <1>8, <1>2, <1>3 DEF Seen
  <2> QED BY <2>2, <2>3 DEF Agrees, KindOf, ShownTest
<1>9. CASE Top(w) = <<1, 1, 0>> /\ kind < 2
  <2>1. s.op \notin Branches
    <3>1. CASE kind = 0
      BY <1>9, <1>3, <3>1, SystemsAre DEF disasm_arm64_101x
    <3>2. CASE kind = 1 /\ w.b22 = 0
      BY <1>9, <1>3, <3>2, SystemsAre DEF disasm_arm64_101x
    <3>3. CASE kind = 1 /\ w.b22 # 0
      BY <1>9, <1>3, <3>3 DEF disasm_arm64_101x, Unknown, Show, Branches
    <3> QED BY <1>9, <1>2, <3>1, <3>2, <3>3
  <2>2. Seen(w).kind = "plain"
    BY <1>9, <1>2, <1>3 DEF Seen
  <2> QED BY <2>1, <2>2, PlainAgrees
<1>10. CASE Top(w) = <<1, 1, 0>> /\ kind >= 2
  <2> DEFINE r == w.b24 = 22 /\ w.b22 = 1 /\ w.b21 = 0 /\ w.b16 = 31 /\ w.b10 = 0 /\ w.b0 = 0
  <2>1. s = ShownBranchRegister(w)
    BY <1>10, <1>3 DEF disasm_arm64_101x
  <2>2. w.b24 \in {22, 23}
    BY <1>10
  <2>3. CASE r
    <3>1. s.op = "ret" /\ s.regs[1] = w.b5
      BY <2>1, <2>2, <2>3, ReturnsAre
    <3>2. Seen(w).kind = IF w.b5 \in {30, 31} THEN "ret" ELSE "plain"
      BY <1>10, <1>3, <2>3 DEF Seen
    <3> QED BY <3>1, <3>2 DEF Agrees, KindOf
  <2>4. CASE ~r
    <3>1. s.op \notin Branches
      BY <2>1, <2>2, <2>4, ReturnsAre
    <3>2. Seen(w).kind = "plain"
      BY <1>10, <1>3, <2>4 DEF Seen
    <3> QED BY <3>1, <3>2, PlainAgrees
  <2> QED BY <2>3, <2>4
<1>11. CASE \/ Top(w) = <<0, 1, 0>> /\ kind # 0
            \/ <<w.b30, w.b29>> = <<1, 1>>
  <2>1. s = Unknown
    BY <1>11, <1>3 DEF disasm_arm64_101x
  <2>2. Seen(w).kind = "plain"
    BY <1>11, <1>2, <1>3 DEF Seen
  <2> QED BY <2>1, <2>2, PlainAgrees DEF Unknown, Show, Branches
<1>12. \/ Top(w) = <<0, 1, 0>> \/ Top(w) = <<0, 0, 0>> \/ Top(w) = <<1, 0, 0>> \/ <<w.b30, w.b29>> = <<0, 1>>
       \/ Top(w) = <<1, 1, 0>> \/ <<w.b30, w.b29>> = <<1, 1>>
  BY <1>1, <1>3
<1>13. kind < 2 \/ kind >= 2
  BY <1>2
<1> QED BY <1>4, <1>5, <1>6, <1>7, <1>8, <1>9, <1>10, <1>11, <1>12, <1>13

\* The walks and the listing of arm64 agree on every word.
LEMMA WordsAgree ==
    ASSUME NEW w \in Words
    PROVE  Agrees(w, disasm_arm64_one(w))
<1>1. CASE w.b24 \in 20 .. 23
  BY <1>1, BranchesAgree DEF disasm_arm64_one
<1>2. CASE w.b24 \notin 20 .. 23
  <2>1. Seen(w).kind = "plain"
    BY <1>2, BitsAre DEF Seen
  <2>2. disasm_arm64_one(w).op \notin Branches
    BY <1>2, ImmediatesAre, MemoryAre, RegistersAre DEF disasm_arm64_one, Unknown, Show, Branches
  <2> QED BY <2>1, <2>2, PlainAgrees
<1> QED BY <1>1, <1>2

----------------------------------------------------------------------------
(* Assembly: the words that are assembled. *)

LEMMA LowIs ==
    ASSUME NEW v \in Int
    PROVE  Low(v, 2) \in 0 .. 3 /\ Low(v, 5) \in 0 .. 31 /\ Low(v, 6) \in 0 .. 63 /\ Low(v, 3) \in 0 .. 7
<1>1. 2^2 = 4 /\ 2^5 = 32 /\ 2^6 = 64 /\ 2^3 = 8
  BY SMT
<1> QED BY <1>1 DEF Low

LEMMA NoWordIs == NoWord \in Words
<1>1. DOMAIN Width = {"b31", "b30", "b29", "b24", "b22", "b21", "b16", "b10", "b5", "b0"}
  BY DEF Width
<1>2. NoWord = [b31 |-> 0, b30 |-> 0, b29 |-> 0, b24 |-> 0, b22 |-> 0, b21 |-> 0, b16 |-> 0, b10 |-> 0, b5 |-> 0, b0 |-> 0]
  BY <1>1 DEF NoWord
<1> QED BY <1>2 DEF Words

LEMMA ImmAre ==
    ASSUME NEW op \in 0 .. 1, NEW rd \in Nat, NEW rn \in Nat, NEW imm \in Nat, NEW s \in 0 .. 1, NEW sf \in 0 .. 1
    PROVE  imm_encode(op, rd, rn, imm, s, sf) \in Words
<1>1. 2^12 = 4096 /\ 2^24 = 16777216 /\ 2^11 = 2048 /\ 2^6 = 64
  BY SMT
<1> DEFINE at(shift, v) == Fields(sf, op, s, 17, shift, v \div 2048, v \div 64, v, rn, rd)
<1>2. ASSUME NEW v \in Nat, v < 4096, NEW shift \in 0 .. 1 PROVE at(shift, v) \in Words
  <2>1. \E high \in 0 .. 1, low \in Int : high = v \div 2048 /\ low = v \div 64
    BY <1>2
  <2>2. PICK high \in 0 .. 1, low \in Int : high = v \div 2048 /\ low = v \div 64
    BY <2>1
  <2>3. Low(shift, 2) \in 0 .. 3 /\ Low(low, 5) \in 0 .. 31 /\ Low(v, 6) \in 0 .. 63
        /\ Low(rn, 5) \in 0 .. 31 /\ Low(rd, 5) \in 0 .. 31
    BY <2>2, LowIs
  <2>4. at(shift, v) = Fields(sf, op, s, 17, shift, high, low, v, rn, rd)
    BY <2>2
  <2>5. Fields(sf, op, s, 17, shift, high, low, v, rn, rd) \in Words
    <3>1. high \in 0 .. 1 /\ sf \in 0 .. 1 /\ op \in 0 .. 1 /\ s \in 0 .. 1
      BY <2>2
    <3> QED BY ONLY <3>1, <2>3 DEF Fields, Words
  <2> QED BY <2>4, <2>5
<1>3. imm < 16777216 => imm \div 4096 \in Nat /\ imm \div 4096 < 4096
  OBVIOUS
<1>4. imm_encode(op, rd, rn, imm, s, sf) =
         IF imm < 4096 THEN at(0, imm)
         ELSE IF imm < 16777216 /\ imm % 4096 = 0 THEN at(1, imm \div 4096) ELSE NoWord
  BY <1>1 DEF imm_encode
<1> HIDE DEF at
<1> QED BY <1>2, <1>3, <1>4, NoWordIs

LEMMA ExtAre ==
    ASSUME NEW op \in 0 .. 1, NEW rd \in Nat, NEW rn \in Nat, NEW rm \in Nat, NEW option \in Nat, NEW sh \in Nat,
           NEW s \in 0 .. 1, NEW sf \in 0 .. 1
    PROVE  regext_encode(op, rd, rn, rm, option, sh, s, sf) \in Words
<1> DEFINE b10 == 8 * option + Low(sh, 3)
<1>1. b10 \in Int
  BY LowIs
<1> HIDE DEF b10
<1>2. Low(0, 2) \in 0 .. 3 /\ Low(rm, 5) \in 0 .. 31 /\ Low(b10, 6) \in 0 .. 63
      /\ Low(rn, 5) \in 0 .. 31 /\ Low(rd, 5) \in 0 .. 31
  BY <1>1, LowIs
<1>3. regext_encode(op, rd, rn, rm, option, sh, s, sf) = Fields(sf, op, s, 11, 0, 1, rm, b10, rn, rd)
  BY DEF regext_encode, b10
<1>4. Fields(sf, op, s, 11, 0, 1, rm, b10, rn, rd) \in Words
  BY <1>2 DEF Fields, Words
<1> QED BY <1>3, <1>4

LEMMA ShiftAre ==
    ASSUME NEW op \in 0 .. 1, NEW rd \in Nat, NEW rn \in Nat, NEW rm \in Nat, NEW sh \in Nat, NEW type \in Nat,
           NEW s \in 0 .. 1, NEW sf \in 0 .. 1
    PROVE  regshift_encode(op, rd, rn, rm, sh, type, s, sf) \in Words
<1>1. Low(type, 2) \in 0 .. 3 /\ Low(rm, 5) \in 0 .. 31 /\ Low(sh, 6) \in 0 .. 63
      /\ Low(rn, 5) \in 0 .. 31 /\ Low(rd, 5) \in 0 .. 31
  BY LowIs
<1> QED BY <1>1 DEF regshift_encode, Fields, Words

Spelt == STRING \cup {"digit", "=", "+", "(", ")", "comma", "none", "<", ">"}
Toks == [c : Spelt, v : Nat]

LEMMA TokensAre ==
    ASSUME NEW l \in Line
    PROVE  assembly_oneline(l) \in Seq(Toks)
<1>1. /\ l.op \in Op64 /\ l.sz \in STRING /\ l.how \in STRING /\ l.d \in Nat /\ l.n \in Nat /\ l.m \in Nat
      /\ l.amt \in Nat \cup {None} /\ (l.how \in {"<", ">"} => l.amt # None)
  BY AssemblyAssumption
<1>2. \A c \in Spelt, v \in Nat : Tok(c, v) \in Toks
  BY DEF Tok, Toks
<1>s. {"digit", "=", "+", "(", ")", "comma", "none", "<", ">"} \subseteq Spelt /\ l.sz \in Spelt /\ l.how \in Spelt
  BY <1>1 DEF Spelt
<1>3. \A r \in Nat : Reg(l.sz, r) \in Toks
  <2> TAKE r \in Nat
  <2>1. (IF r = ZR THEN 0 ELSE r) \in Nat
    OBVIOUS
  <2> QED BY <2>1, <1>s, <1>2 DEF Reg
<1>4. \A c \in Spelt : Sym(c) \in Toks
  BY <1>2 DEF Sym
<1>r. Reg(l.sz, l.d) \in Toks /\ Reg(l.sz, l.n) \in Toks /\ Reg(l.sz, l.m) \in Toks
  BY <1>1, <1>3
<1>y. Sym("=") \in Toks /\ Sym("+") \in Toks /\ Sym("(") \in Toks /\ Sym(")") \in Toks /\ Sym("comma") \in Toks
      /\ Sym(l.how) \in Toks
  BY <1>s, <1>4
<1>d. \A v \in Nat : Tok("digit", v) \in Toks
  BY <1>s, <1>2
<1>5. Operand(l) \in Seq(Toks)
  <2>1. CASE l.how = "imm"
    BY <2>1, <1>1, <1>d DEF Operand
  <2>2. CASE l.how \in {"none", "tight"}
    BY <2>2, <1>r DEF Operand
  <2>3. CASE l.how \in {"<", ">"}
    <3>1. Tok("digit", l.amt) \in Toks
      BY <2>3, <1>1, <1>d
    <3> QED BY <2>3, <3>1, <1>r, <1>y DEF Operand
  <2>4. CASE l.how \notin {"imm", "none", "tight", "<", ">"}
    <3> DEFINE more == IF l.amt = None THEN << >> ELSE <<Sym("comma"), Tok("digit", l.amt)>>
               open == <<Sym(l.how), Sym("("), Reg(l.sz, l.m)>>
               close == <<Sym(")")>>
    <3>1. more \in Seq(Toks)
      <4>1. CASE l.amt = None
        BY <4>1
      <4>2. CASE l.amt # None
        <5>1. l.amt \in Nat
          BY <4>2, <1>1
        <5>2. Tok("digit", l.amt) \in Toks
          BY <5>1, <1>d
        <5> QED BY <5>2, <4>2, <1>y
      <4> QED BY <4>1, <4>2
    <3>2. open \in Seq(Toks) /\ close \in Seq(Toks)
      BY <1>r, <1>y
    <3>3. Operand(l) = open \o more \o close
      BY <2>4 DEF Operand
    <3> HIDE DEF open, more, close
    <3> QED BY <3>1, <3>2, <3>3
  <2> QED BY <2>1, <2>2, <2>3, <2>4
<1>6. CASE l.op \in {"cmp", "cmn"}
  BY <1>6, <1>r, <1>y DEF assembly_oneline
<1>7. CASE l.op = "mov"
  BY <1>7, <1>r, <1>y DEF assembly_oneline
<1>8. CASE l.op \notin {"cmp", "cmn", "mov"}
  <2> DEFINE front == <<Reg(l.sz, l.d), Sym("="), Reg(l.sz, l.n), Sym("+")>>
  <2>1. front \in Seq(Toks)
    BY <1>r, <1>y
  <2>2. assembly_oneline(l) = front \o Operand(l)
    BY <1>8 DEF assembly_oneline
  <2> HIDE DEF front
  <2> QED BY <2>1, <2>2, <1>5
<1> QED BY <1>6, <1>7, <1>8

LEMMA PlaceIs ==
    ASSUME NEW S, NEW s \in Seq(S), NEW name, Within(name, s)
    PROVE  Place(s, name) - 1 \in Nat
<1>1. \E i \in DOMAIN s : s[i] = name
  BY DEF Within
<1>2. Place(s, name) \in DOMAIN s
  BY <1>1 DEF Place
<1> QED BY <1>2

\* What the assembler makes of a line is a word.
LEMMA AssembledAre ==
    ASSUME NEW l \in Line, NEW junk \in Nat
    PROVE  assembly_compile_arm64(l.op, assembly_oneline(l), junk) \in Words
<1> DEFINE toks == assembly_oneline(l)
           buf == [i \in 0 .. 8 |-> IF i < Len(toks) THEN toks[i + 1] ELSE Tok("none", junk)]
           cnt == Len(toks)
           sf == IF buf[0].c = "x" THEN 1 ELSE 0
<1>1. toks \in Seq(Toks)
  BY TokensAre
<1>2. \A i \in 0 .. 8 : buf[i] \in Toks
  <2> TAKE i \in 0 .. 8
  <2>1. CASE i < Len(toks)
    <3>1. i + 1 \in 1 .. Len(toks)
      BY <2>1, <1>1
    <3> QED BY <3>1, <2>1, <1>1
  <2>2. CASE ~(i < Len(toks))
    <3>1. "none" \in Spelt
      BY DEF Spelt
    <3>2. Tok("none", junk) \in Toks
      BY <3>1 DEF Tok, Toks
    <3> QED BY <3>2, <2>2
  <2> QED BY <2>1, <2>2
<1>3. \A i \in 0 .. 8 : buf[i].v \in Nat
  BY <1>2 DEF Toks
<1>4. l.op \in Op64
  BY AssemblyAssumption
<1>5. sf \in 0 .. 1
  OBVIOUS
<1>6. cnt \in Nat
  BY <1>1
<1>7. assembly_compile_arm64(l.op, toks, junk) =
        CASE l.op \in {"mov", "orr"} -> assembly_arm64_orr(buf)
          [] l.op \in {"add", "adds", "cmn"} -> assembly_arm64_add(l.op, cnt, buf)
          [] l.op \in {"sub", "subs", "cmp"} -> assembly_arm64_sub(l.op, cnt, buf)
  BY DEF assembly_compile_arm64
<1> HIDE DEF buf, cnt
<1>8. assembly_arm64_orr(buf) \in Words
  <2>1. 2^5 = 32
    BY SMT
  <2>2. buf[2].v \in Nat /\ buf[0].v \in Nat
    BY <1>3
  <2>3. (buf[2].v \div 32) % 2 \in 0 .. 1
    BY <2>2
  <2>4. Low(0, 2) \in 0 .. 3 /\ Low(buf[2].v, 5) \in 0 .. 31 /\ Low(0, 6) \in 0 .. 63
        /\ Low(31, 5) \in 0 .. 31 /\ Low(buf[0].v, 5) \in 0 .. 31
    BY <2>2, LowIs
  <2>5. Fields(sf, 0, 1, 10, 0, (buf[2].v \div 32) % 2, buf[2].v, 0, 31, buf[0].v) \in Words
    BY <1>5, <2>3, <2>4 DEF Fields, Words
  <2> QED BY <2>1, <2>5, NoWordIs DEF assembly_arm64_orr
<1>9. ASSUME NEW op \in 0 .. 1, NEW what \in {0, 1, 2} PROVE assembly_arm64_addsub(op, what, cnt, buf) \in Words
  <2> DEFINE sized == buf[0].c = buf[2].c /\ buf[0].c \in {"x", "w"}
             s == IF what = 1 THEN 1 ELSE 0
             d0 == buf[0].v
             s0 == buf[2].v
             kind == buf[4].c
             signed == kind = buf[0].c
             sign == IF buf[5].c = ">" THEN 1 ELSE 0
             shift == Place(Shifts, kind) - 1
             extend == Place(Extends, kind) - 1
             by == IF cnt > 7 THEN buf[8].v ELSE 0
             shifts == Within(kind, Shifts)
             extends == Within(kind, Extends)
             W == assembly_arm64_addsub(op, what, cnt, buf)
             wide == 2 + sf
             Sh(type, v) == regshift_encode(op, d0, s0, v[1], v[2], type, s, sf)
  <2>1. s \in 0 .. 1 /\ d0 \in Nat /\ s0 \in Nat /\ buf[4].v \in Nat /\ buf[6].v \in Nat /\ buf[8].v \in Nat
        /\ sign \in Nat /\ by \in Nat /\ wide \in Nat
    BY <1>3, <1>5
  <2>2. W = CASE what = 2 -> regext_encode(op, 31, d0, s0, wide, 0, 1, sf)
              [] what < 2 /\ ~sized -> NoWord
              [] what < 2 /\ sized /\ kind = "digit" -> imm_encode(op, d0, s0, buf[4].v, s, sf)
              [] what < 2 /\ sized /\ signed ->
                   IF cnt = 7 THEN Sh(sign, <<buf[4].v, buf[6].v>>) ELSE Sh(0, <<buf[4].v, 0>>)
              [] what < 2 /\ sized /\ shifts -> Sh(shift, <<buf[6].v, buf[8].v>>)
              [] what < 2 /\ sized /\ extends -> regext_encode(op, d0, s0, buf[6].v, extend, by, s, sf)
              [] OTHER -> NoWord
    BY DEF assembly_arm64_addsub
  <2>3. shifts => shift \in Nat
    <3> DEFINE S == {"lsl", "lsr", "asr"}
    <3>1. Shifts \in Seq(S)
      BY DEF Shifts
    <3> QED BY <3>1, PlaceIs
  <2>4. extends => extend \in Nat
    <3> DEFINE S == {"uxtb", "uxth", "uxtw", "uxtx", "sxtb", "sxth", "sxtw", "sxtx"}
    <3>1. Extends \in Seq(S)
      BY DEF Extends
    <3> QED BY <3>1, PlaceIs
  <2>5. regext_encode(op, 31, d0, s0, wide, 0, 1, sf) \in Words
    <3> HIDE DEF wide, d0, s0, sf
    <3>1. 31 \in Nat /\ 0 \in Nat /\ 1 \in 0 .. 1
      OBVIOUS
    <3> QED BY <3>1, <1>5, <2>1, ExtAre
  <2>6. imm_encode(op, d0, s0, buf[4].v, s, sf) \in Words
    BY <1>5, <2>1, ImmAre
  <2>7. \A type, a, b : Sh(type, <<a, b>>) = regshift_encode(op, d0, s0, a, b, type, s, sf)
    OBVIOUS
  <2>8. Sh(sign, <<buf[4].v, buf[6].v>>) \in Words /\ Sh(0, <<buf[4].v, 0>>) \in Words
        /\ (shifts => Sh(shift, <<buf[6].v, buf[8].v>>) \in Words)
    BY <1>5, <2>1, <2>3, <2>7, ShiftAre
  <2>9. extends => regext_encode(op, d0, s0, buf[6].v, extend, by, s, sf) \in Words
    BY <1>5, <2>1, <2>4, ExtAre
  <2> HIDE DEF sized, s, d0, s0, kind, signed, sign, shift, extend, by, shifts, extends, W, wide, Sh
  <2>10. W \in Words
    BY <2>2, <2>5, <2>6, <2>8, <2>9, NoWordIs
  <2> QED BY <2>10 DEF W
<1>10. assembly_arm64_add(l.op, cnt, buf) \in Words /\ assembly_arm64_sub(l.op, cnt, buf) \in Words
  BY <1>9 DEF assembly_arm64_add, assembly_arm64_sub
<1> QED BY <1>4, <1>7, <1>8, <1>10 DEF Op64

----------------------------------------------------------------------------
(* Assembly: the instructions of x86-64, by their first byte. *)

Branches86 == {"j", "call", "jmp", "ret"}

\* The bytes as the walks take them and as the listing shows them.
Agrees86(p, s) ==
    /\ X!Seen86(p).kind = KindOf86(s)
    /\ s.to.k = "rel" /\ X!Seen86(p).kind # "plain" =>
         X!Seen86(p).from = s.to.from /\ X!Seen86(p).disp = s.to.disp /\ X!Seen86(p).from = s.len

LEMMA PlainAgrees86 ==
    ASSUME NEW p, NEW s, X!Seen86(p).kind = "plain", s.op \notin Branches86
    PROVE  Agrees86(p, s)
BY DEF Agrees86, KindOf86, Branches86

LEMMA RefusedAre ==
    /\ X!Refused.op = "none" /\ X!Unknown86.op = "error" /\ X!Refused.len = 0
    /\ \A n, b : X!Plain86(n, b).op = "plain"
BY DEF X!Refused, X!Unknown86, X!Plain86, X!Show86

\* The operations that several instructions are named from.
LEMMA NamesAre86 ==
    /\ \A i \in 1 .. 8 : X!Arith[i] \notin Branches86 /\ X!Shift[i] \notin Branches86 /\ X!ShownUnary[i] \notin Branches86
    /\ {"none", "error", "plain", "movsxd", "push", "imul", "test", "xchg", "mov", "lea", "x", "loop",
        "cmov", "movzx", "jmpe", "bswap"} \cap Branches86 = {}
    /\ \A i \in 1 .. 7 : <<"inc", "dec", "call*", "call*", "jmp*", "jmp*", "push">>[i] \notin Branches86
BY DEF X!Arith, X!Shift, X!ShownUnary, Branches86

LEMMA BitsAre86 ==
    ASSUME NEW m \in Nat
    PROVE  X!bit3(m) \in 0 .. 7
BY DEF X!bit3

\* One opcode after the other: nothing but the branches has the name of one.
LEMMA ArithAre86 ==
    ASSUME NEW p, NEW fx, NEW j, X!at(p, 0) \in Nat, X!at(p, 0) < 64, X!at(p, 0) % 8 < 6
    PROVE  X!ShownArith(p, j, fx).op \notin Branches86
<1> DEFINE op == X!at(p, 0)
           name == X!Arith[op \div 8 + 1]
           m == X!RM(p, j, fx, IF op % 2 = 0 THEN X!Reg8(fx, X!bit0(X!at(p, 1))) ELSE X!Word0(fx, p))
           r == IF op % 2 = 0 THEN X!Reg8(fx, X!bit3(X!at(p, 1))) ELSE X!Word3(fx, p)
<1>1. op \div 8 + 1 \in 1 .. 8 /\ op % 8 \in 0 .. 5
  OBVIOUS
<1>2. name \notin Branches86
  BY <1>1, NamesAre86
<1>3. /\ X!ArithTo(name, m, r).op = name /\ X!ArithFrom(name, m, r).op = name
      /\ X!ArithAccumulator(p, name).op = name
  BY DEF X!ArithTo, X!ArithFrom, X!ArithAccumulator, X!Show86
<1>4. X!ShownArith(p, j, fx) =
        CASE op % 8 < 2 -> X!ArithTo(name, m, r)
          [] op % 8 \in {2, 3} -> X!ArithFrom(name, m, r)
          [] op % 8 \in {4, 5} -> X!ArithAccumulator(p, name)
  BY DEF X!ShownArith
<1> DEFINE o == op % 8
<1>5. o \in 0 .. 5
  BY <1>1
<1> HIDE DEF op, name, m, r, o
<1> QED BY <1>2, <1>3, <1>4, <1>5 DEF o

LEMMA GroupsAre86 ==
    ASSUME NEW p, NEW fx, NEW j, X!at(p, 1) \in Nat
    PROVE  X!ShownGroup(p, j, fx).op \notin Branches86
<1> DEFINE m == X!at(p, 1)
           name == IF X!at(p, 0) >= 192 THEN X!Shift[X!bit3(m) + 1] ELSE X!Arith[X!bit3(m) + 1]
<1>1. X!bit3(m) + 1 \in 1 .. 8
  BY BitsAre86
<1>2. name \notin Branches86
  BY <1>1, NamesAre86
<1>3. X!ShownGroup(p, j, fx).op = name
  BY DEF X!ShownGroup, X!Show86
<1> QED BY <1>2, <1>3

LEMMA UnaryAre86 ==
    ASSUME NEW p, NEW fx, NEW j, X!at(p, 1) \in Nat
    PROVE  X!ShownF6F7(p, j, fx).op \notin Branches86 /\ X!ShownFEFF(p, j, fx).op \notin Branches86
<1> DEFINE kind == X!bit3(X!at(p, 1))
<1>1. kind \in 0 .. 7
  BY BitsAre86
<1>2. X!ShownF6F7(p, j, fx).op \in {"test", "none", X!ShownUnary[kind + 1]}
  BY DEF X!ShownF6F7, X!Show86, X!Refused
<1>3. X!ShownUnary[kind + 1] \notin Branches86
  BY <1>1, NamesAre86
<1>4. CASE kind = 7
  BY <1>2, <1>3, <1>4, NamesAre86 DEF X!ShownFEFF, X!Show86, X!Refused
<1>5. CASE kind # 7
  <2> DEFINE name == <<"inc", "dec", "call*", "call*", "jmp*", "jmp*", "push">>[kind + 1]
  <2>1. kind + 1 \in 1 .. 7
    BY <1>1, <1>5
  <2>2. name \notin Branches86
    BY <2>1, NamesAre86
  <2>3. X!ShownFEFF(p, j, fx).op \in {"none", name}
    BY DEF X!ShownFEFF, X!Show86, X!Refused
  <2> HIDE DEF name
  <2> QED BY <1>2, <1>3, <2>2, <2>3, NamesAre86
<1> QED BY <1>4, <1>5

LEMMA OthersAre86 ==
    ASSUME NEW p, NEW fx, NEW j
    PROVE  /\ X!ShownExtend(p, j, fx).op = "movsxd" /\ X!ShownPush(p).op = "push" /\ X!ShownImul(p, j, fx).op = "imul"
           /\ X!ShownLea(p, j, fx).op = "lea" /\ X!ShownLoad(p, fx).op = "mov"
           /\ X!at(p, 0) \in 132 .. 139 => X!ShownMove(p, j, fx).op \in {"test", "xchg", "mov"}
           /\ X!at(p, 0) \in (160 .. 163) \cup {168, 169} => X!ShownAccumulator(p).op \in {"test", "mov"}
           /\ X!ShownStore(p, j, fx).op \in {"x", "mov", "none"}
<1>1. /\ X!ShownExtend(p, j, fx).op = "movsxd" /\ X!ShownPush(p).op = "push" /\ X!ShownImul(p, j, fx).op = "imul"
      /\ X!ShownLea(p, j, fx).op = "lea"
  BY DEF X!ShownExtend, X!ShownPush, X!ShownImul, X!ShownLea, X!Show86
<1>2. X!ShownLoad(p, fx).op = "mov"
  BY DEF X!ShownLoad, X!Show86
<1>3. ASSUME X!at(p, 0) \in 132 .. 139 PROVE X!ShownMove(p, j, fx).op \in {"test", "xchg", "mov"}
  BY <1>3 DEF X!ShownMove, X!Show86
<1>4. ASSUME X!at(p, 0) \in (160 .. 163) \cup {168, 169} PROVE X!ShownAccumulator(p).op \in {"test", "mov"}
  BY <1>4 DEF X!ShownAccumulator, X!Show86
<1>5. X!ShownStore(p, j, fx).op \in {"x", "mov", "none"}
  BY DEF X!ShownStore, X!Show86, X!Refused
<1> QED BY <1>1, <1>2, <1>3, <1>4, <1>5

\* The opcodes whose operation is in the byte behind them.
Grouped == {128, 129, 131, 192, 193, 246, 247, 254, 255}
Jumps == (112 .. 127) \cup {232, 233, 235}

\* An instruction with an opcode of one byte.
LEMMA NormalAre86 ==
    ASSUME NEW p, X!at(p, 0) \in Nat, X!at(p, 0) \notin Jumps,
           X!at(p, 0) \in Grouped => X!at(p, 1) \in Nat
    PROVE  X!disasm_x8664_normal(<< >>, p).op \notin Branches86
<1> DEFINE fx == X!Prefixes(<< >>)
           j == Len(<< >>)
           op == X!at(p, 0)
           s == X!disasm_x8664_normal(<< >>, p)
<1>2. op \in 224 .. 227 => X!ShownBranch(p, j).op = "loop"
  BY DEF X!ShownBranch, X!Show86
<1>3. op < 64 /\ op % 8 < 6 => X!ShownArith(p, j, fx).op \notin Branches86
  BY ArithAre86
<1>4. op \in {128, 129, 131, 192, 193} => X!ShownGroup(p, j, fx).op \notin Branches86
  BY GroupsAre86 DEF Grouped
<1>5. /\ op \in {246, 247} => X!ShownF6F7(p, j, fx).op \notin Branches86
      /\ op \in {254, 255} => X!ShownFEFF(p, j, fx).op \notin Branches86
  BY UnaryAre86 DEF Grouped
<1>6. /\ X!ShownExtend(p, j, fx).op = "movsxd" /\ X!ShownPush(p).op = "push" /\ X!ShownImul(p, j, fx).op = "imul"
      /\ X!ShownLea(p, j, fx).op = "lea" /\ X!ShownLoad(p, fx).op = "mov"
      /\ X!ShownStore(p, j, fx).op \in {"x", "mov", "none"}
  BY OthersAre86
<1>7. /\ op \in 132 .. 139 => X!ShownMove(p, j, fx).op \in {"test", "xchg", "mov"}
      /\ op \in (160 .. 163) \cup {168, 169} => X!ShownAccumulator(p).op \in {"test", "mov"}
  BY OthersAre86
<1>8. op \in (112 .. 127) \cup (224 .. 227) \cup {232, 233, 235} => op \in 224 .. 227
  BY DEF Jumps
<1>9. X!Refused.op = "none" /\ \A n, b : X!Plain86(n, b).op = "plain"
  BY RefusedAre
<1>10. {"none", "plain", "movsxd", "push", "imul", "test", "xchg", "mov", "lea", "x", "loop"} \cap Branches86 = {}
  BY NamesAre86
<1>11. {X!ShownExtend(p, j, fx).op, X!ShownPush(p).op, X!ShownImul(p, j, fx).op, X!ShownLea(p, j, fx).op,
        X!ShownLoad(p, fx).op, X!ShownStore(p, j, fx).op, X!Refused.op} \cap Branches86 = {}
  BY <1>6, <1>9, <1>10
<1>12. /\ op \in 132 .. 139 => X!ShownMove(p, j, fx).op \notin Branches86
       /\ op \in (160 .. 163) \cup {168, 169} => X!ShownAccumulator(p).op \notin Branches86
       /\ op \in (112 .. 127) \cup (224 .. 227) \cup {232, 233, 235} => X!ShownBranch(p, j).op \notin Branches86
       /\ \A n, b : X!Plain86(n, b).op \notin Branches86
  <2>1. "plain" \notin Branches86 /\ "loop" \notin Branches86 /\ "test" \notin Branches86 /\ "xchg" \notin Branches86
        /\ "mov" \notin Branches86
    BY <1>10
  <2>2. \A n, b : X!Plain86(n, b).op \notin Branches86
    BY <1>9, <2>1
  <2>3. op \in 132 .. 139 => X!ShownMove(p, j, fx).op \notin Branches86
    BY <1>7, <2>1
  <2>4. op \in (160 .. 163) \cup {168, 169} => X!ShownAccumulator(p).op \notin Branches86
    BY <1>7, <2>1
  <2>5. op \in (112 .. 127) \cup (224 .. 227) \cup {232, 233, 235} => X!ShownBranch(p, j).op \notin Branches86
    BY <1>2, <1>8, <2>1
  <2> QED BY <2>2, <2>3, <2>4, <2>5
<1> DEFINE o1 == op < 64 /\ op % 8 < 6
           o2 == op = 99 /\ j > 0
           o3 == op \in {104, 106}
           o4 == op \in {105, 107}
           o5 == op \in (112 .. 127) \cup (224 .. 227) \cup {232, 233, 235}
           o6 == op \in {128, 129, 131, 192, 193}
           o7 == op \in 132 .. 139
           o8 == op = 141
           o9 == op \in (160 .. 163) \cup {168, 169}
           o10 == op \in 176 .. 191
           o11 == op \in {198, 199}
           o12 == op \in DOMAIN X!Fixed
           o13 == op = 243 /\ X!Take(p, 1, 3) = <<15, 30, 250>>
           o14 == op \in {246, 247}
           o15 == op \in {254, 255}
<1> HIDE DEF o1, o2, o3, o4, o5, o6, o7, o8, o9, o10, o11, o12, o13, o14, o15
<1>13. s = CASE o1 -> X!ShownArith(p, j, fx) [] o2 -> X!ShownExtend(p, j, fx) [] o3 -> X!ShownPush(p)
             [] o4 -> X!ShownImul(p, j, fx) [] o5 -> X!ShownBranch(p, j) [] o6 -> X!ShownGroup(p, j, fx)
             [] o7 -> X!ShownMove(p, j, fx) [] o8 -> X!ShownLea(p, j, fx) [] o9 -> X!ShownAccumulator(p)
             [] o10 -> X!ShownLoad(p, fx) [] o11 -> X!ShownStore(p, j, fx)
             [] o12 -> X!Plain86(X!Fixed[op], X!Take(p, 0, X!Fixed[op]))
             [] o13 -> X!Plain86(4, X!Take(p, 0, 4))
             [] o14 -> X!ShownF6F7(p, j, fx) [] o15 -> X!ShownFEFF(p, j, fx) [] OTHER -> X!Refused
  BY DEF X!disasm_x8664_normal, o1, o2, o3, o4, o5, o6, o7, o8, o9, o10, o11, o12, o13, o14, o15
<1>14. /\ o1 => X!ShownArith(p, j, fx).op \notin Branches86
       /\ o5 => X!ShownBranch(p, j).op \notin Branches86
       /\ o6 => X!ShownGroup(p, j, fx).op \notin Branches86
       /\ o7 => X!ShownMove(p, j, fx).op \notin Branches86
       /\ o9 => X!ShownAccumulator(p).op \notin Branches86
       /\ o14 => X!ShownF6F7(p, j, fx).op \notin Branches86
       /\ o15 => X!ShownFEFF(p, j, fx).op \notin Branches86
  BY <1>3, <1>4, <1>5, <1>12 DEF o1, o5, o6, o7, o9, o14, o15
<1> HIDE DEF s, j, fx, op
<1>15. /\ X!ShownExtend(p, j, fx).op \notin Branches86 /\ X!ShownPush(p).op \notin Branches86
       /\ X!ShownImul(p, j, fx).op \notin Branches86 /\ X!ShownLea(p, j, fx).op \notin Branches86
       /\ X!ShownLoad(p, fx).op \notin Branches86 /\ X!ShownStore(p, j, fx).op \notin Branches86
       /\ X!Refused.op \notin Branches86
       /\ X!Plain86(X!Fixed[op], X!Take(p, 0, X!Fixed[op])).op \notin Branches86
       /\ X!Plain86(4, X!Take(p, 0, 4)).op \notin Branches86
  BY <1>11, <1>12
<1>16. s.op \notin Branches86
  BY ONLY <1>13, <1>14, <1>15, ZenonT(60)
<1> QED BY <1>16 DEF s

LEMMA JumpsAre86 ==
    ASSUME NEW p, X!at(p, 0) \in Jumps
    PROVE  LET op == X!at(p, 0)
               n == IF op \in {232, 233} THEN 4 ELSE 1
               s == X!disasm_x8664_normal(<< >>, p)
           IN  /\ s.op = (CASE op \in 112 .. 127 -> "j" [] op = 232 -> "call" [] OTHER -> "jmp")
               /\ s.len = 1 + n /\ s.to = X!Rel(1 + n, X!Take(p, 1, n))
               /\ [s EXCEPT !.len = @ + 0] = s
<1> DEFINE op == X!at(p, 0)
           n == IF op \in {232, 233} THEN 4 ELSE 1
<1>1. op \in (112 .. 127) \cup {232, 233, 235}
  BY DEF Jumps
<1>2. X!disasm_x8664_normal(<< >>, p) = X!ShownBranch(p, 0)
  <2>1. op \notin DOMAIN X!Fixed /\ Len(<< >>) = 0
    BY <1>1 DEF X!Fixed
  <2>2. ~(op < 64) /\ op \notin {99, 104, 105, 106, 107, 128, 129, 131, 141, 168, 169, 192, 193, 198, 199, 243, 246, 247, 254, 255}
        /\ op \notin 132 .. 139 /\ op \notin 160 .. 163 /\ op \notin 176 .. 191
    BY <1>1
  <2> QED BY <1>1, <2>1, <2>2 DEF X!disasm_x8664_normal
<1>3. X!ShownBranch(p, 0) = X!Show86(1 + n, CASE op \in 112 .. 127 -> "j" [] op \in 224 .. 227 -> "loop"
                  [] op = 232 -> "call" [] OTHER -> "jmp", X!Rel(0 + 1 + n, X!Take(p, 1, n)), X!Imm(<<op>>))
  BY DEF X!ShownBranch
<1>4. 0 + 1 + n = 1 + n /\ op \notin 224 .. 227
  BY <1>1
<1> QED BY <1>1, <1>2, <1>3, <1>4 DEF X!Show86

\* The opcodes of two bytes.
LEMMA TwoBytesAre86 ==
    ASSUME NEW p
    PROVE  LET s == X!disasm_x8664_0f(15, p, 0) IN
           /\ X!at(p, 1) \notin 128 .. 143 => s.op \notin Branches86
           /\ X!at(p, 1) \in 128 .. 143 => s.op = "j" /\ s.len = 6 /\ s.to = X!Rel(6, X!Take(p, 2, 4))
<1> DEFINE s == X!disasm_x8664_0f(15, p, 0)
           op == X!at(p, 1)
<1>1. /\ X!ShownCmov(p, 0).op = "cmov" /\ X!ShownMovzx(p, 0).op = "movzx" /\ X!ShownImul2(15, p, 0).op = "imul"
  BY DEF X!ShownCmov, X!ShownMovzx, X!ShownImul2, X!Two, X!Show86
<1>2. X!ShownHigh(15, p, 0).op \in {"jmpe", "bswap", "plain", "error"}
  BY DEF X!ShownHigh, X!Plain86, X!Unknown86, X!Show86
<1>3. X!ShownMovaps(p).op \in {"plain", "none"}
  BY DEF X!ShownMovaps, X!Plain86, X!Refused, X!Show86
<1>4. \A n, b : X!Plain86(n, b).op = "plain"
  BY RefusedAre
<1>5. {"none", "error", "plain", "imul", "cmov", "movzx", "jmpe", "bswap"} \cap Branches86 = {}
  BY NamesAre86
<1> DEFINE jump == X!Show86(6, "j", X!Rel(0 + 6, X!Take(p, 2, 4)), X!Imm(<<op - 16>>))
<1>6. s = CASE op \in X!TwoByte -> X!Plain86(2, X!Take(p, 0, 2))
            [] <<op, X!at(p, 2)>> \in X!ThreeByte -> X!Plain86(3, X!Take(p, 0, 3))
            [] op = 31 -> X!Plain86(X!NopSize(X!at(p, 2)), X!Take(p, 0, 2))
            [] op = 41 /\ X!ShownMovaps(p) # X!Refused -> X!ShownMovaps(p)
            [] op \in 64 .. 79 -> X!ShownCmov(p, 0)
            [] op \in {182, 183} -> X!ShownMovzx(p, 0)
            [] op \in 128 .. 143 -> jump
            [] op = 175 -> X!ShownImul2(15, p, 0)
            [] OTHER -> X!ShownHigh(15, p, 0)
  BY DEF X!disasm_x8664_0f
<1>7. op \in 128 .. 143 => op \notin X!TwoByte /\ <<op, X!at(p, 2)>> \notin X!ThreeByte
  BY DEF X!TwoByte, X!Machine, X!ThreeByte
<1>8. jump.op = "j" /\ jump.len = 6 /\ jump.to = X!Rel(6, X!Take(p, 2, 4))
  BY DEF X!Show86
<1> HIDE DEF jump
<1>9. op \in 128 .. 143 => s = jump
  BY <1>6, <1>7
<1> HIDE DEF s
<1>10. op \notin 128 .. 143 => s.op \notin Branches86
  BY <1>1, <1>2, <1>3, <1>4, <1>5, <1>6
<1> QED BY <1>8, <1>9, <1>10 DEF s

\* The walks and the listing of x86-64 agree on every instruction without a prefix.
LEMMA BytesAgree86 ==
    ASSUME NEW p, X!at(p, 0) \in Nat, X!at(p, 0) \notin Front, X!at(p, 0) \in Grouped => X!at(p, 1) \in Nat
    PROVE  Agrees86(p, X!disasm_x8664_one(p))
<1> DEFINE op == X!at(p, 0)
           s == X!disasm_x8664_one(p)
           one == X!disasm_x8664_1b(p)
           normal == X!disasm_x8664_normal(<< >>, p)
<1>1. op \notin {102, 103} /\ op \notin 64 .. 79
  BY DEF Front
<1>2. s = CASE one # X!Refused -> one
            [] one = X!Refused /\ op = 15 -> X!disasm_x8664_0f(op, p, 0)
            [] one = X!Refused /\ op \in 64 .. 79 -> X!disasm_x8664_4x(p)
            [] one = X!Refused /\ op = 102 -> X!disasm_x8664_66(p)
            [] one = X!Refused /\ op = 103 -> X!disasm_x8664_67(p)
            [] OTHER -> X!Prefixed(normal, 0)
  BY DEF X!disasm_x8664_one
<1>3. Jumps \cap X!OneByte = {} /\ 15 \notin X!OneByte /\ 195 \in X!OneByte
  BY DEF X!OneByte, Jumps
<1> DEFINE short == op \in X!OneByte /\ ~(op = 243 /\ X!at(p, 1) = 15)
           b1 == X!Show86(1, IF op = 195 THEN "ret" ELSE "plain", X!Imm(X!Take(p, 0, 1)), X!NoOperand)
<1>4. one = IF short THEN b1 ELSE X!Refused
  BY DEF X!disasm_x8664_1b
<1>5. b1 # X!Refused /\ b1.op = (IF op = 195 THEN "ret" ELSE "plain") /\ b1.to.k = "imm"
  BY DEF X!Refused, X!Show86, X!Imm
<1> HIDE DEF b1
<1>6. CASE op = 195
  <2>1. s = b1
    BY <1>2, <1>3, <1>4, <1>5, <1>6
  <2>2. X!Seen86(p).kind = "ret"
    BY <1>6 DEF X!Seen86
  <2> QED BY <1>5, <1>6, <2>1, <2>2 DEF Agrees86, KindOf86
<1>7. CASE op = 15
  <2>1. s = X!disasm_x8664_0f(15, p, 0)
    BY <1>2, <1>3, <1>4, <1>7
  <2>2. CASE X!at(p, 1) \in 128 .. 143
    <3>1. s.op = "j" /\ s.len = 6 /\ s.to = X!Rel(6, X!Take(p, 2, 4))
      BY <2>1, <2>2, TwoBytesAre86
    <3>2. X!Seen86(p) = [kind |-> "cond", from |-> 6, disp |-> X!Take(p, 2, 4)]
      BY <1>7, <2>2 DEF X!Seen86
    <3> HIDE DEF s
    <3> QED BY <3>1, <3>2 DEF Agrees86, KindOf86, X!Rel, s
  <2>3. CASE X!at(p, 1) \notin 128 .. 143
    <3>1. s.op \notin Branches86
      BY <2>1, <2>3, TwoBytesAre86
    <3>2. X!Seen86(p).kind = "plain"
      BY <1>7, <2>3 DEF X!Seen86
    <3> QED BY <3>1, <3>2, PlainAgrees86
  <2> QED BY <2>2, <2>3
<1>8. CASE op \in Jumps
  <2> DEFINE n == IF op \in {232, 233} THEN 4 ELSE 1
             name == CASE op \in 112 .. 127 -> "j" [] op = 232 -> "call" [] OTHER -> "jmp"
  <2>1. normal.op = name /\ normal.len = 1 + n /\ normal.to = X!Rel(1 + n, X!Take(p, 1, n))
        /\ [normal EXCEPT !.len = @ + 0] = normal
    BY <1>8, JumpsAre86
  <2>2. op # 15 /\ op \notin X!OneByte
    BY <1>3, <1>8 DEF Jumps
  <2>3. s = X!Prefixed(normal, 0)
    BY <1>1, <1>2, <1>4, <2>2
  <2>4. normal # X!Refused
    BY <2>1, RefusedAre
  <2>5. s = [normal EXCEPT !.len = @ + 0]
    BY <2>3, <2>4 DEF X!Prefixed
  <2>7. s.op = name /\ s.len = 1 + n /\ s.to = X!Rel(1 + n, X!Take(p, 1, n))
    BY <2>1, <2>5
  <2>8. /\ op \in 112 .. 127 => X!Seen86(p) = [kind |-> "cond", from |-> 2, disp |-> X!Take(p, 1, 1)]
        /\ op = 232 => X!Seen86(p) = [kind |-> "call", from |-> 5, disp |-> X!Take(p, 1, 4)]
        /\ op = 233 => X!Seen86(p) = [kind |-> "jump", from |-> 5, disp |-> X!Take(p, 1, 4)]
        /\ op = 235 => X!Seen86(p) = [kind |-> "jump", from |-> 2, disp |-> X!Take(p, 1, 1)]
    <3>1. op \notin {15, 195}
      BY <1>8 DEF Jumps
    <3>2. op \in 112 .. 127 => X!Seen86(p) = [kind |-> "cond", from |-> 2, disp |-> X!Take(p, 1, 1)]
      <4> SUFFICES ASSUME op \in 112 .. 127 PROVE X!Seen86(p) = [kind |-> "cond", from |-> 2, disp |-> X!Take(p, 1, 1)]
        OBVIOUS
      <4>1. op \notin {15, 195, 232, 233, 235}
        OBVIOUS
      <4> HIDE DEF op
      <4> QED BY <4>1 DEF X!Seen86, op
    <3>3. op = 232 => X!Seen86(p) = [kind |-> "call", from |-> 5, disp |-> X!Take(p, 1, 4)]
      BY DEF X!Seen86
    <3>4. op = 233 => X!Seen86(p) = [kind |-> "jump", from |-> 5, disp |-> X!Take(p, 1, 4)]
      BY DEF X!Seen86
    <3>5. op = 235 => X!Seen86(p) = [kind |-> "jump", from |-> 2, disp |-> X!Take(p, 1, 1)]
      BY DEF X!Seen86
    <3> QED BY <3>2, <3>3, <3>4, <3>5
  <2> HIDE DEF s, normal
  <2>9. Agrees86(p, s)
    <3>1. CASE op \in 112 .. 127
      BY <3>1, <2>7, <2>8 DEF Agrees86, KindOf86, X!Rel
    <3>2. CASE op = 232
      BY <3>2, <2>7, <2>8 DEF Agrees86, KindOf86, X!Rel
    <3>3. CASE op = 233
      BY <3>3, <2>7, <2>8 DEF Agrees86, KindOf86, X!Rel
    <3>4. CASE op = 235
      BY <3>4, <2>7, <2>8 DEF Agrees86, KindOf86, X!Rel
    <3> QED BY <1>8, <3>1, <3>2, <3>3, <3>4 DEF Jumps
  <2> QED BY <2>9 DEF s
<1>9. CASE op # 195 /\ op # 15 /\ op \notin Jumps
  <2>1. X!Seen86(p).kind = "plain"
    BY <1>9 DEF X!Seen86, Jumps
  <2>2. normal.op \notin Branches86
    BY <1>9, NormalAre86
  <2>3. s \in {b1, X!Unknown86, [normal EXCEPT !.len = @ + 0]}
    BY <1>1, <1>2, <1>4, <1>9 DEF X!Prefixed
  <2>4. "error" \notin Branches86 /\ "plain" \notin Branches86 /\ X!Unknown86.op = "error"
    BY NamesAre86, RefusedAre
  <2>5. [normal EXCEPT !.len = @ + 0].op = normal.op
    OBVIOUS
  <2> HIDE DEF s, normal
  <2>6. s.op \notin Branches86
    BY <1>5, <1>9, <2>2, <2>3, <2>4, <2>5
  <2> QED BY <2>1, <2>6, PlainAgrees86 DEF s
<1> QED BY <1>6, <1>7, <1>8, <1>9

----------------------------------------------------------------------------
(* Assembly: the bytes that are assembled. *)

\* How the bytes of a line begin, as far as the listing looks for the name of an operation.
Starts(b) ==
    /\ Len(b) \in Nat
    /\ Len(b) >= 1 => b[1] \in Nat /\ (b[1] \in Grouped => Len(b) >= 2 /\ b[2] \in Nat)

\* An operand as it is read: a register, a number, or what makes an address.
Operand86(x) ==
    \/ x.k = "reg" /\ x.size \in {8, 16, 32, 64} /\ x.n \in Nat
    \/ x.k = "num" /\ x.v \in Nat
    \/ x.k = "sib"

LEMMA KindIs86 ==
    ASSUME NEW x, Operand86(x)
    PROVE  /\ X!Kind(x) \in {0, 8, 16, 32, 64, 99}
           /\ X!Kind(x) = 0 => x.k = "num" /\ x.v \in Nat
           /\ X!Kind(x) \in {8, 16, 32, 64} => x.k = "reg" /\ x.n \in Nat
           /\ x.k = "num" => X!Kind(x) = 0
           /\ x.k = "reg" => X!Kind(x) = x.size /\ x.size \in {8, 16, 32, 64}
BY DEF X!Kind, Operand86

LEMMA ModRMIs ==
    ASSUME NEW top \in Nat, NEW reg \in Nat, NEW rm \in Nat
    PROVE  X!ModRM(top, reg, rm) \in Nat
<1>1. ASSUME NEW v \in Nat, NEW one \in Nat PROVE X!Bit(v, one) \in Nat
  BY DEF X!Bit
<1>2. top % 4 \in Nat /\ reg \div 8 \in Nat /\ reg % 8 \in Nat /\ rm \div 8 \in Nat /\ rm % 8 \in Nat
  OBVIOUS
<1>3. X!Bit(top % 4, reg \div 8) \in Nat /\ X!Bit(reg % 8, rm \div 8) \in Nat
  BY <1>1, <1>2
<1> QED BY <1>2, <1>3 DEF X!ModRM

LEMMA Int4Is ==
    ASSUME NEW d
    PROVE  \E S : X!Int4(d) \in Seq(S) /\ Len(X!Int4(d)) = 4
<1> DEFINE S == {(d \div 256^(i - 1)) % 256 : i \in 1 .. 4}
<1>1. X!Int4(d) \in [1 .. 4 -> S]
  BY DEF X!Int4
<1> DEFINE f == X!Int4(d)
<1> HIDE DEF S, f
<1>2. f \in Seq(S)
  <2>1. f \in [1 .. 4 -> S] /\ 4 \in Nat
    BY <1>1 DEF f
  <2>2. \A n \in Nat : \A g \in [1 .. n -> S] : g \in Seq(S)
    OBVIOUS
  <2> QED BY <2>1, <2>2
<1>3. Len(f) = 4
  BY <1>1 DEF f
<1> QED BY <1>2, <1>3 DEF f

LEMMA JoinedIs ==
    ASSUME NEW S, NEW s \in Seq(S), NEW T, NEW t \in Seq(T)
    PROVE  s \o t \in Seq(S \cup T)
<1>1. s \in Seq(S \cup T) /\ t \in Seq(S \cup T)
  OBVIOUS
<1> QED BY <1>1

\* What is written behind the first bytes is a sequence of whatever it is of.
LEMMA SibIs ==
    ASSUME NEW reg, NEW td
    PROVE  \E S : X!modrm_sib(reg, td) \in Seq(S)
<1> DEFINE d == IF td.d = X!None THEN 0 ELSE td.d
           a == X!ModRM(0, reg, 4)
           m1 == X!ModRM(1, reg, 5)
           m2 == X!ModRM(0, reg, td.b)
           m3 == X!ModRM(1, reg, td.b)
           m4 == X!ModRM(2, reg, td.b)
           m5 == X!ModRM(td.s, td.i, 5)
           m6 == X!ModRM(2, reg, 4)
           m7 == X!ModRM(td.s, td.i, td.b)
           S == {a, m1, m2, m3, m4, m5, m6, m7, 37, 0, d}
<1>1. PICK T : X!Int4(d) \in Seq(T)
  BY Int4Is
<1>2. X!modrm_sib(reg, td) \in {<<a, 37>> \o X!Int4(d), <<m1, 0>>, <<m2>>, <<m3, d>>, <<m4>> \o X!Int4(d),
                                 <<a, m5>> \o X!Int4(d), <<m6, m7>> \o X!Int4(d)}
  BY DEF X!modrm_sib
<1> HIDE DEF a, m1, m2, m3, m4, m5, m6, m7, d
<1>3. <<m1, 0>> \in Seq(S) /\ <<m2>> \in Seq(S) /\ <<m3, d>> \in Seq(S) /\ <<a, 37>> \in Seq(S) /\ <<m4>> \in Seq(S)
      /\ <<a, m5>> \in Seq(S) /\ <<m6, m7>> \in Seq(S)
  OBVIOUS
<1> DEFINE U == S \cup T  i4 == X!Int4(d)
<1> HIDE DEF S, i4
<1>4. <<m1, 0>> \in Seq(U) /\ <<m2>> \in Seq(U) /\ <<m3, d>> \in Seq(U)
  BY <1>3
<1>5. <<a, 37>> \o i4 \in Seq(U) /\ <<m4>> \o i4 \in Seq(U) /\ <<a, m5>> \o i4 \in Seq(U) /\ <<m6, m7>> \o i4 \in Seq(U)
  BY <1>1, <1>3, JoinedIs DEF i4
<1>6. X!modrm_sib(reg, td) \in Seq(U)
  BY <1>2, <1>4, <1>5 DEF i4
<1> QED BY <1>6

\* Bytes in front of others, the first of which is read alone.
LEMMA AloneStarts ==
    ASSUME NEW S, NEW t \in Seq(S), NEW a \in Nat \ Grouped, NEW b, NEW c
    PROVE  Starts(<<a>> \o t) /\ Starts(<<a, b>> \o t) /\ Starts(<<a, b, c>> \o t)
<1>2. /\ Len(<<a>> \o t) \in Nat /\ (<<a>> \o t)[1] = a
      /\ Len(<<a, b>> \o t) \in Nat /\ (<<a, b>> \o t)[1] = a
      /\ Len(<<a, b, c>> \o t) \in Nat /\ (<<a, b, c>> \o t)[1] = a
  OBVIOUS
<1> QED BY <1>2 DEF Starts

LEMMA PairStarts ==
    ASSUME NEW a \in Nat, NEW b, a \in Grouped => b \in Nat, NEW c
    PROVE  Starts(<<a, b>>) /\ Starts(<<a, b, c>>) /\ Starts(<< >>)
<1>1. Starts(<<a, b>>)
  BY DEF Starts
<1>2. Starts(<<a, b, c>>)
  BY DEF Starts
<1>3. Starts(<< >>)
  BY DEF Starts
<1> QED BY <1>1, <1>2, <1>3

\* One operation after the other.
LEMMA OpcodeStarts ==
    ASSUME NEW opcode \in Nat, opcode \notin Grouped, NEW src, NEW dst, Operand86(src), Operand86(dst)
    PROVE  Starts(X!assembly_x8664_opcode(opcode, src, dst))
<1> DEFINE size == X!Kind(dst)
           from == X!Kind(src)
           pre == CASE size = 16 -> <<102>> [] size = 64 -> <<72>> [] OTHER -> << >>
           or2 == IF (opcode \div 2) % 2 = 1 THEN opcode ELSE opcode + 2
           modrm == X!ModRM(3, src.n, dst.n)
           low == X!ModRM(3, 0, dst.n)
           m6 == X!ModRM(3, 6, dst.n)
           v == X!Byte(src.v)
           s1 == X!modrm_sib(dst.n, src.td)
           s2 == X!modrm_sib(src.n, dst.td)
           b == X!assembly_x8664_opcode(opcode, src, dst)
<1>1. b = CASE size \in {16, 32, 64} /\ from = size -> pre \o <<opcode, modrm>>
            [] size = 8 /\ from = 0 -> IF dst.n = 0 THEN <<52, v>> ELSE <<128, m6, v>>
            [] size \in {16, 32, 64} /\ from = 0 -> pre \o <<opcode, low, v>>
            [] size = 64 /\ from = 99 -> <<72, or2>> \o s1
            [] size = 99 /\ from = 64 -> <<72, opcode>> \o s2
            [] OTHER -> << >>
  BY DEF X!assembly_x8664_opcode
<1>2. size = 8 => m6 \in Nat
  <2>1. size = 8 => dst.n \in Nat
    BY KindIs86
  <2>2. 3 \in Nat /\ 6 \in Nat
    OBVIOUS
  <2> HIDE DEF size
  <2> QED BY <2>1, <2>2, ModRMIs
<1>3. 52 \in Nat \ Grouped /\ 102 \in Nat \ Grouped /\ 72 \in Nat \ Grouped
  BY DEF Grouped
<1>4. Starts(<<72, or2>> \o s1) /\ Starts(<<72, opcode>> \o s2)
  <2>1. PICK S : s1 \in Seq(S)
    BY SibIs
  <2>2. PICK T : s2 \in Seq(T)
    BY SibIs
  <2> HIDE DEF s1, s2, or2
  <2> QED BY <2>1, <2>2, <1>3, AloneStarts
<1>5. Starts(<<52, v>>) /\ Starts(<< >>) /\ (size = 8 => Starts(<<128, m6, v>>))
  <2> HIDE DEF v, m6, size
  <2> QED BY <1>2, <1>3, PairStarts
<1>6. Starts(pre \o <<opcode, modrm>>) /\ Starts(pre \o <<opcode, low, v>>)
  <2> HIDE DEF modrm, low, v, size
  <2> DEFINE t == <<opcode, modrm>>  u == <<opcode, low, v>>
  <2>1. t \in Seq({opcode, modrm}) /\ u \in Seq({opcode, low, v})
    OBVIOUS
  <2>2. Starts(t) /\ Starts(u)
    BY PairStarts
  <2> HIDE DEF t, u
  <2>3. << >> \o t = t /\ << >> \o u = u
    BY <2>1
  <2>4. Starts(<<102>> \o t) /\ Starts(<<102>> \o u) /\ Starts(<<72>> \o t) /\ Starts(<<72>> \o u)
    BY <2>1, <1>3, AloneStarts
  <2>5. Starts(pre \o t) /\ Starts(pre \o u)
    <3>1. pre = <<102>> \/ pre = <<72>> \/ pre = << >>
      OBVIOUS
    <3> HIDE DEF pre
    <3> QED BY <3>1, <2>2, <2>3, <2>4
  <2> QED BY <2>5 DEF t, u
<1>7. Starts(b)
  <2> HIDE DEF b, size, from, pre, modrm, low, v, m6, s1, s2, or2
  <2> QED BY <1>1, <1>4, <1>5, <1>6
<1> QED BY <1>7

LEMMA MovStarts ==
    ASSUME NEW dst, NEW src, Operand86(src), Operand86(dst)
    PROVE  Starts(X!assembly_x8664_mov(dst, src))
<1> DEFINE kinds == <<X!Kind(dst), X!Kind(src)>>
           modrm == X!ModRM(3, src.n, dst.n)
           low == X!ModRM(3, 0, dst.n)
           v == X!Byte(src.v)
           i4 == X!Int4(src.v)
           m == X!ModRM(1, 0, IF dst.td.b = X!None THEN 0 ELSE dst.td.b)
           w == IF dst.td.d = X!None THEN 0 ELSE X!Byte(dst.td.d)
           o == X!assembly_x8664_opcode(137, src, dst)
           b == X!assembly_x8664_mov(dst, src)
           n == 176 + dst.n
           k == 184 + (dst.n % 8)
<1>1. b = CASE kinds = <<8, 8>> -> <<136, modrm>>
            [] kinds = <<8, 0>> -> <<n, v>>
            [] kinds = <<16, 0>> -> <<102, n>> \o SubSeq(i4, 1, 2)
            [] kinds = <<32, 0>> -> <<k>> \o i4
            [] kinds = <<64, 0>> -> <<72, 199, low>> \o i4
            [] kinds = <<99, 0>> -> <<199, m, w>> \o i4
            [] OTHER -> o
  BY DEF X!assembly_x8664_mov
<1>2. 136 \in Nat \ Grouped /\ 102 \in Nat \ Grouped /\ 72 \in Nat \ Grouped /\ 199 \in Nat \ Grouped
      /\ 137 \in Nat /\ 137 \notin Grouped
  BY DEF Grouped
<1>3. Starts(o)
  BY <1>2, OpcodeStarts
<1>4. PICK S : i4 \in Seq(S) /\ Len(i4) = 4
  BY Int4Is
<1>5. kinds = <<8, 0>> => n \in Nat /\ v \in Nat
  BY KindIs86 DEF X!Byte
<1>6. kinds = <<32, 0>> => k \in Nat \ Grouped
  <2> SUFFICES ASSUME kinds = <<32, 0>> PROVE k \in Nat \ Grouped
    OBVIOUS
  <2>1. dst.n \in Nat
    BY KindIs86
  <2>2. k \in 184 .. 191
    BY <2>1
  <2> QED BY <2>2 DEF Grouped
<1> HIDE DEF kinds, modrm, low, v, i4, m, w, o, b, n, k
<1>7. Starts(<<136, modrm>>) /\ (kinds = <<8, 0>> => Starts(<<n, v>>))
  BY <1>2, <1>5, PairStarts
<1>8. Starts(<<72, 199, low>> \o i4) /\ Starts(<<199, m, w>> \o i4) /\ (kinds = <<32, 0>> => Starts(<<k>> \o i4))
  <2>1. Starts(<<72, 199, low>> \o i4)
    BY <1>2, <1>4, AloneStarts
  <2>2. Starts(<<199, m, w>> \o i4)
    BY <1>2, <1>4, AloneStarts
  <2>3. kinds = <<32, 0>> => Starts(<<k>> \o i4)
    BY <1>4, <1>6, AloneStarts
  <2> QED BY <2>1, <2>2, <2>3
<1>9. Starts(<<102, n>> \o SubSeq(i4, 1, 2))
  <2> DEFINE t == SubSeq(i4, 1, 2)
  <2>1. t \in Seq(S)
    BY <1>4
  <2> HIDE DEF t
  <2>2. Starts(<<102, n>> \o t)
    BY <2>1, <1>2, AloneStarts
  <2> QED BY <2>2 DEF t
<1>10. Starts(b)
  BY <1>1, <1>3, <1>7, <1>8, <1>9
<1> QED BY <1>10 DEF b

LEMMA ShortStarts ==
    ASSUME NEW dst, NEW src, Operand86(src), Operand86(dst), dst.k = "reg", src.k = "num",
           NEW acc \in Nat, acc \notin Grouped, NEW reg \in Nat
    PROVE  Starts(X!Short(dst, src, acc, reg))
<1> DEFINE m == X!ModRM(3, reg, dst.n)
           v == X!Byte(src.v)
           pre == CASE dst.size = 8 -> <<128>> [] dst.size = 16 -> <<102, 131>>
                    [] dst.size = 32 -> <<131>> [] dst.size = 64 -> <<72, 131>>
           b == X!Short(dst, src, acc, reg)
<1>1. b = IF dst.size = 8 /\ dst.n = 0 THEN <<acc, v>> ELSE pre \o <<m, v>>
  BY DEF X!Short
<1>2. dst.n \in Nat /\ dst.size \in {8, 16, 32, 64} /\ 3 \in Nat
  BY KindIs86
<1>3. m \in Nat
  BY <1>2, ModRMIs
<1>4. pre \in {<<128>>, <<102, 131>>, <<131>>, <<72, 131>>}
  BY <1>2
<1>5. 102 \in Nat \ Grouped /\ 72 \in Nat \ Grouped
  BY DEF Grouped
<1> HIDE DEF m, v, pre, b
<1> DEFINE t == <<m, v>>
<1>6. t \in Seq({m, v}) /\ Len(t) = 2 /\ t[1] = m
  OBVIOUS
<1> HIDE DEF t
<1>7. Starts(<<102, 131>> \o t) /\ Starts(<<72, 131>> \o t)
  BY <1>5, <1>6, AloneStarts
<1>8. Starts(<<128>> \o t) /\ Starts(<<131>> \o t)
  <2>1. /\ Len(<<128>> \o t) = 3 /\ (<<128>> \o t)[1] = 128 /\ (<<128>> \o t)[2] = m
        /\ Len(<<131>> \o t) = 3 /\ (<<131>> \o t)[1] = 131 /\ (<<131>> \o t)[2] = m
    <3> DEFINE h == <<128>>  k == <<131>>
           U == {128, 131, m, v}
    <3>3. h \in Seq(U) /\ Len(h) = 1 /\ h[1] = 128 /\ k \in Seq(U) /\ Len(k) = 1 /\ k[1] = 131
      OBVIOUS
    <3>5. t \in Seq(U)
      BY DEF t
    <3> HIDE DEF h, k, U
    <3>4. /\ Len(h \o t) = 3 /\ (h \o t)[1] = 128 /\ (h \o t)[2] = m
          /\ Len(k \o t) = 3 /\ (k \o t)[1] = 131 /\ (k \o t)[2] = m
      <4>1. ASSUME NEW S, NEW f \in Seq(S), Len(f) = 1, NEW g \in Seq(S), Len(g) = 2
            PROVE  Len(f \o g) = 3 /\ (f \o g)[1] = f[1] /\ (f \o g)[2] = g[1]
        <5> DEFINE q == f \o g
        <5>1. Len(q) = Len(f) + Len(g) /\ \A i \in 1 .. Len(f) + Len(g) : q[i] = IF i <= Len(f) THEN f[i] ELSE g[i - Len(f)]
          BY ConcatProperties
        <5> HIDE DEF q
        <5>2. Len(q) = 3 /\ q[1] = f[1] /\ q[2] = g[1]
          BY <5>1, <4>1
        <5> QED BY <5>2 DEF q
      <4>2. Len(h \o t) = 3 /\ (h \o t)[1] = h[1] /\ (h \o t)[2] = t[1]
        BY <4>1, <3>3, <3>5, <1>6
      <4>3. Len(k \o t) = 3 /\ (k \o t)[1] = k[1] /\ (k \o t)[2] = t[1]
        BY <4>1, <3>3, <3>5, <1>6
      <4> QED BY <4>2, <4>3, <3>3, <1>6
    <3> QED BY <3>4 DEF h, k
  <2> QED BY <2>1, <1>3 DEF Starts
<1>9. Starts(pre \o t)
  BY <1>4, <1>7, <1>8
<1>10. Starts(<<acc, v>>)
  BY PairStarts
<1>11. Starts(b)
  BY <1>1, <1>9, <1>10 DEF t
<1> QED BY <1>11 DEF b

LEMMA LogicalStarts ==
    ASSUME NEW dst, NEW src, Operand86(src), Operand86(dst), NEW opcode \in Nat, opcode \notin Grouped,
           NEW acc \in Nat, acc \notin Grouped, NEW reg \in Nat
    PROVE  Starts(X!Logical(dst, src, opcode, acc, reg))
<1> DEFINE m == X!ModRM(3, reg, dst.n)
           v == X!Byte(src.v)
           o == X!assembly_x8664_opcode(opcode, src, dst)
           small == X!Kind(dst) = 8 /\ X!Kind(src) = 0
           b == X!Logical(dst, src, opcode, acc, reg)
<1>1. b = CASE small /\ dst.n = 0 -> <<acc, v>> [] small /\ dst.n # 0 -> <<128, m, v>> [] OTHER -> o
  BY DEF X!Logical
<1>2. Starts(o)
  BY OpcodeStarts
<1>3. Starts(<<acc, v>>)
  BY PairStarts
<1>4. small => Starts(<<128, m, v>>)
  <2> SUFFICES ASSUME small PROVE Starts(<<128, m, v>>)
    OBVIOUS
  <2>1. dst.n \in Nat /\ 3 \in Nat /\ 128 \in Nat
    BY KindIs86
  <2>2. m \in Nat
    BY <2>1, ModRMIs
  <2> HIDE DEF m, v, small
  <2> QED BY <2>1, <2>2, PairStarts
<1> HIDE DEF m, v, o, small, b
<1>5. Starts(b)
  BY <1>1, <1>2, <1>3, <1>4
<1> QED BY <1>5 DEF b

\* All operations but lea take their operands as they are read.
LEMMA OperationStarts ==
    ASSUME NEW dst, NEW src, Operand86(src), Operand86(dst)
    PROVE  /\ Starts(X!assembly_x8664_add(dst, src)) /\ Starts(X!assembly_x8664_sub(dst, src))
           /\ Starts(X!assembly_x8664_cmp(dst, src)) /\ Starts(X!assembly_x8664_or(dst, src))
           /\ Starts(X!assembly_x8664_and(dst, src)) /\ Starts(X!assembly_x8664_xor(dst, src))
           /\ Starts(X!assembly_x8664_test(dst, src)) /\ Starts(X!assembly_x8664_xchg(dst, src))
           /\ Starts(X!assembly_x8664_imul(dst, src))
<1>1. {1, 4, 9, 15, 33, 41, 44, 49, 52, 57, 133, 135} \subseteq Nat \ Grouped
  BY DEF Grouped
<1>2. Starts(X!assembly_x8664_opcode(1, src, dst)) /\ Starts(X!assembly_x8664_opcode(41, src, dst))
  BY <1>1, OpcodeStarts
<1>3. Starts(X!assembly_x8664_opcode(133, src, dst)) /\ Starts(X!assembly_x8664_opcode(135, src, dst))
  BY <1>1, OpcodeStarts
<1>4. Starts(X!assembly_x8664_opcode(15, src, dst)) /\ Starts(<< >>)
  BY <1>1, OpcodeStarts, PairStarts
<1>5. dst.k = "reg" /\ src.k = "num" => Starts(X!Short(dst, src, 4, 0)) /\ Starts(X!Short(dst, src, 44, 5))
  BY <1>1, ShortStarts
<1>6. Starts(X!Logical(dst, src, 57, 4, 0)) /\ Starts(X!Logical(dst, src, 9, 4, 0))
  BY <1>1, LogicalStarts
<1>7. Starts(X!Logical(dst, src, 33, 4, 0)) /\ Starts(X!Logical(dst, src, 49, 52, 6))
  BY <1>1, LogicalStarts
<1>8. Starts(X!assembly_x8664_add(dst, src)) /\ Starts(X!assembly_x8664_sub(dst, src))
  BY <1>2, <1>5 DEF X!assembly_x8664_add, X!assembly_x8664_sub
<1>9. /\ Starts(X!assembly_x8664_cmp(dst, src)) /\ Starts(X!assembly_x8664_or(dst, src))
      /\ Starts(X!assembly_x8664_and(dst, src)) /\ Starts(X!assembly_x8664_xor(dst, src))
  BY <1>6, <1>7 DEF X!assembly_x8664_cmp, X!assembly_x8664_or, X!assembly_x8664_and, X!assembly_x8664_xor
<1>10. /\ Starts(X!assembly_x8664_test(dst, src)) /\ Starts(X!assembly_x8664_xchg(dst, src))
       /\ Starts(X!assembly_x8664_imul(dst, src))
  BY <1>3, <1>4 DEF X!assembly_x8664_test, X!assembly_x8664_xchg, X!assembly_x8664_imul
<1> QED BY <1>8, <1>9, <1>10

LEMMA LeaStarts ==
    ASSUME NEW dst, NEW src, NEW junk
    PROVE  Starts(X!assembly_x8664_lea(dst, src, junk))
<1> DEFINE t == X!modrm_sib(dst.n, X!x8664_scaleindexbaseimm(src.terms, junk))
<1>1. PICK S : t \in Seq(S)
  BY SibIs
<1>2. X!assembly_x8664_lea(dst, src, junk) = IF X!Kind(dst) = 64 THEN <<72, 141>> \o t ELSE << >>
  BY DEF X!assembly_x8664_lea
<1>3. 72 \in Nat \ Grouped /\ 1 \in Nat
  BY DEF Grouped
<1> HIDE DEF t
<1>4. Starts(<<72, 141>> \o t)
  BY <1>1, <1>3, AloneStarts
<1>5. Starts(<< >>)
  BY DEF Starts
<1> QED BY <1>2, <1>4, <1>5

\* A line, as it is typed.
Line86(l) ==
    /\ l.op \in {"mov", "add", "sub", "cmp", "or", "and", "xor", "test", "xchg", "imul", "lea"}
    /\ \A x \in {l.to, l.from} : x \in Reads86 \/ x.k = "sum"

LEMMA WrittenStarts ==
    ASSUME NEW l, Line86(l), NEW junk
    PROVE  Starts(X!Written(l, junk))
<1> DEFINE dst == X!get_reg_or_sib(l.to, junk)
           src == X!get_reg_or_sib(l.from, junk)
<1>1. ASSUME NEW x, x \in Reads86 \/ x.k = "sum" PROVE Operand86(X!get_reg_or_sib(x, junk))
  <2>1. CASE x.k = "sum"
    BY <2>1 DEF X!get_reg_or_sib, Operand86
  <2>2. CASE x.k # "sum"
    <3>1. X!get_reg_or_sib(x, junk) = x
      BY <2>2 DEF X!get_reg_or_sib
    <3>2. Operand86(x)
      BY <1>1, <2>2 DEF Reads86, Operand86
    <3> QED BY <3>1, <3>2
  <2> QED BY <2>1, <2>2
<1>2. Operand86(dst) /\ Operand86(src)
  BY <1>1 DEF Line86
<1>3. X!Written(l, junk) =
        CASE l.op = "lea" -> X!assembly_x8664_lea(l.to, l.from, junk)
          [] l.op = "mov" -> X!assembly_x8664_mov(dst, src)
          [] l.op = "add" -> X!assembly_x8664_add(dst, src)
          [] l.op = "sub" -> X!assembly_x8664_sub(dst, src)
          [] l.op = "cmp" -> X!assembly_x8664_cmp(dst, src)
          [] l.op = "or" -> X!assembly_x8664_or(dst, src)
          [] l.op = "and" -> X!assembly_x8664_and(dst, src)
          [] l.op = "xor" -> X!assembly_x8664_xor(dst, src)
          [] l.op = "test" -> X!assembly_x8664_test(dst, src)
          [] l.op = "xchg" -> X!assembly_x8664_xchg(dst, src)
          [] l.op = "imul" -> X!assembly_x8664_imul(dst, src)
  BY DEF X!Written
<1> HIDE DEF dst, src
<1>4. Starts(X!assembly_x8664_lea(l.to, l.from, junk)) /\ Starts(X!assembly_x8664_mov(dst, src))
  BY <1>2, LeaStarts, MovStarts
<1>5. /\ Starts(X!assembly_x8664_add(dst, src)) /\ Starts(X!assembly_x8664_sub(dst, src))
      /\ Starts(X!assembly_x8664_cmp(dst, src)) /\ Starts(X!assembly_x8664_or(dst, src))
      /\ Starts(X!assembly_x8664_and(dst, src)) /\ Starts(X!assembly_x8664_xor(dst, src))
      /\ Starts(X!assembly_x8664_test(dst, src)) /\ Starts(X!assembly_x8664_xchg(dst, src))
      /\ Starts(X!assembly_x8664_imul(dst, src))
  BY <1>2, OperationStarts
<1>6. l.op \in {"mov", "add", "sub", "cmp", "or", "and", "xor", "test", "xchg", "imul", "lea"}
  BY DEF Line86
<1> QED BY <1>3, <1>4, <1>5, <1>6

\* What the assembler of x86-64 makes of a line is read alike by the walks and the listing.
LEMMA AssembledAgree86 ==
    ASSUME NEW l, Line86(l), NEW junk \in Nat
    PROVE  LET p == X!assembly_compile_x8664(l, junk) IN
           p[1] \notin Front => Agrees86(p, X!disasm_x8664_one(p))
<1> DEFINE p == X!assembly_compile_x8664(l, junk)
           bytes == X!Written(l, junk)
           S == {IF i <= Len(bytes) THEN bytes[i] ELSE junk : i \in 1 .. 12}
<1>1. p = [i \in 1 .. 12 |-> IF i <= Len(bytes) THEN bytes[i] ELSE junk]
  BY DEF X!assembly_compile_x8664
<1>2. Starts(bytes)
  BY WrittenStarts
<1>3. p[1] = (IF 1 <= Len(bytes) THEN bytes[1] ELSE junk) /\ p[2] = (IF 2 <= Len(bytes) THEN bytes[2] ELSE junk)
  BY <1>1
<1>4. p \in [1 .. 12 -> S] /\ 12 \in Nat
  BY <1>1
<1> HIDE DEF p, S, bytes
<1>5. Len(p) = 12
  BY <1>4
<1>6. X!at(p, 0) = p[1] /\ X!at(p, 1) = p[2]
  BY <1>5 DEF X!at
<1>7. p[1] \in Nat /\ (p[1] \in Grouped => p[2] \in Nat)
  BY <1>2, <1>3 DEF Starts
<1>8. p[1] \notin Front => Agrees86(p, X!disasm_x8664_one(p))
  BY <1>6, <1>7, BytesAgree86
<1> QED BY <1>8 DEF p

\* Any bytes at all are read alike.
LEMMA BytesOfFile ==
    ASSUME NEW b \in Seq(Bytes), NEW t \in Seq(Bytes), NEW m \in Bytes, NEW s \in Bytes, Len(b) >= 1
    PROVE  LET p == b \o <<m, s>> \o t IN p[1] \notin Front => Agrees86(p, X!disasm_x8664_one(p))
<1> DEFINE u == <<m, s>>
           v == b \o u
           p == v \o t
<1>1. u \in Seq(Bytes) /\ Len(u) = 2
  OBVIOUS
<1> HIDE DEF u
<1>2. v \in Seq(Bytes) /\ Len(v) = Len(b) + Len(u)
  BY <1>1, ConcatProperties
<1>3. Len(b) \in Nat /\ Len(t) \in Nat
  OBVIOUS
<1> HIDE DEF v
<1>4. p \in Seq(Bytes) /\ Len(p) = Len(v) + Len(t)
  BY <1>2, ConcatProperties
<1> HIDE DEF p
<1>5. Len(p) >= 3 /\ Len(p) \in Nat
  BY <1>1, <1>2, <1>3, <1>4
<1>6. p[1] \in Bytes /\ p[2] \in Bytes
  BY <1>4, <1>5
<1>7. X!at(p, 0) = p[1] /\ X!at(p, 1) = p[2]
  BY <1>5 DEF X!at
<1>8. p[1] \in Nat /\ p[2] \in Nat
  <2>1. \A x \in Bytes : x \in Nat
    BY DEF Bytes
  <2> QED BY <2>1, <1>6
<1>9. p[1] \notin Front => Agrees86(p, X!disasm_x8664_one(p))
  BY <1>7, <1>8, BytesAgree86
<1> QED BY <1>9 DEF p, v, u

\* What has been shown is what the walks and the listing made of one word.
ShownAlike ==
    /\ tool = "none" => shown = Blank
    /\ tool = "asm_x8664" => first.op \in Op86
    /\ tool = "disasm_x8664" => first.bytes \in Seq(Bytes) /\ Len(first.bytes) >= 1
    /\ Arm64Word => Agrees(word, shown)
    /\ X8664Word /\ word[1] \notin Front => Agrees86(word, shown)

LEMMA ShownAlikeInit == Fresh => ShownAlike
BY DEF Fresh, ShownAlike, Arm64Word, X8664Word

LEMMA ShownAlikeNext == ShownAlike /\ [ToolStep]_tools => ShownAlike'
<1> SUFFICES ASSUME ShownAlike, [ToolStep]_tools PROVE ShownAlike'
  OBVIOUS
<1>1. ASSUME NEW name, NEW firsts, read_first(name, firsts),
             name = "asm_x8664" => \A f \in firsts : f.op \in Op86,
             name = "disasm_x8664" => \A f \in firsts : f.bytes \in Seq(Bytes) /\ Len(f.bytes) >= 1,
             name # "none"
      PROVE  ShownAlike'
  BY <1>1 DEF read_first, ShownAlike, Arm64Word, X8664Word
<1>2. CASE \/ read_first("asm_arm64", [op : {l.op : l \in Line}])
           \/ read_first("asm_x8664", [op : Op86])
           \/ read_first("disasm_arm64", [bits : {w.b24 : w \in Word}])
  <2>1. \A f \in [op : Op86] : f.op \in Op86
    OBVIOUS
  <2> QED BY <1>1, <1>2, <2>1
<1>3. CASE \E pre \in Prefix86 : read_first("disasm_x8664", [bytes : {pre \o <<op>> : op \in 0 .. 255}])
  <2>1. PICK pre \in Prefix86 : read_first("disasm_x8664", [bytes : {pre \o <<op>> : op \in 0 .. 255}])
    BY <1>3
  <2>2. pre \in Seq(Bytes)
    BY AssemblyAssumption
  <2>3. ASSUME NEW op \in 0 .. 255 PROVE pre \o <<op>> \in Seq(Bytes) /\ Len(pre \o <<op>>) >= 1
    <3> DEFINE o == <<op>>
    <3>1. o \in Seq(Bytes) /\ Len(o) = 1
      BY DEF Bytes
    <3> HIDE DEF o
    <3>2. pre \o o \in Seq(Bytes) /\ Len(pre \o o) = Len(pre) + Len(o)
      BY <2>2, <3>1, ConcatProperties
    <3>3. Len(pre) \in Nat
      BY <2>2
    <3> QED BY <3>1, <3>2, <3>3 DEF o
  <2>4. \A f \in [bytes : {pre \o <<op>> : op \in 0 .. 255}] : f.bytes \in Seq(Bytes) /\ Len(f.bytes) >= 1
    BY <2>3
  <2> QED BY <1>1, <2>1, <2>4
<1>4. CASE \/ read_first("asm_riscv64", [op : {l.op : l \in RvLine}])
           \/ read_first("asm_mips64", [op : {"mov", "add"}])
           \/ \E name \in {"disasm_riscv64", "disasm_mips64"} : read_first(name, [bits : {w.opcode : w \in RvWord}])
  BY <1>1, <1>4
<1>5. CASE asm_arm64
  <2>1. /\ tool = "asm_arm64" /\ tool' = tool /\ line' \in Line /\ line'.op = first.op /\ past' \in Nat
        /\ word' = assembly_compile_arm64(first.op, assembly_oneline(line'), past') /\ shown' = disasm_arm64_one(word')
    BY <1>5, AssemblyAssumption DEF asm_arm64, Reads
  <2>2. word' \in Words
    BY <2>1, AssembledAre
  <2>3. Agrees(word', shown')
    BY <2>1, <2>2, WordsAgree
  <2> QED BY <2>1, <2>3 DEF ShownAlike, Arm64Word, X8664Word
<1>6. CASE asm_x8664
  <2>1. /\ tool = "asm_x8664" /\ tool' = tool /\ first' = first /\ past' \in Nat
        /\ word' = X!assembly_compile_x8664(line', past') /\ shown' = X!disasm_x8664_one(word')
    BY <1>6, AssemblyAssumption DEF asm_x8664, Reads
  <2>2. first.op \in Op86
    BY <2>1 DEF ShownAlike
  <2>3. Line86(line')
    <3>1. CASE line' \in PlainLines
      BY <3>1, <2>2, AssemblyAssumption DEF PlainLines, Line86
    <3>2. CASE \E sum \in Sum86 : line' \in IntoSum(sum) \cup OutOfSum(sum)
      BY <3>2, <2>2, AssemblyAssumption DEF IntoSum, OutOfSum, Line86
    <3> QED BY <1>6, <3>1, <3>2 DEF asm_x8664
  <2>4. word'[1] \notin Front => Agrees86(word', shown')
    BY <2>1, <2>3, AssembledAgree86
  <2> QED BY <2>1, <2>2, <2>4 DEF ShownAlike, Arm64Word, X8664Word
<1>7. CASE disasm_arm64
  <2>1. tool = "disasm_arm64" /\ tool' = tool /\ word' \in Word /\ shown' = disasm_arm64_one(word')
    BY <1>7 DEF disasm_arm64, Reads
  <2>2. word' \in Words
    BY <2>1, AssemblyAssumption DEF Words
  <2>3. Agrees(word', shown')
    BY <2>1, <2>2, WordsAgree
  <2> QED BY <2>1, <2>3 DEF ShownAlike, Arm64Word, X8664Word
<1>8. CASE disasm_x8664
  <2>1. tool = "disasm_x8664" /\ tool' = tool /\ first' = first /\ shown' = X!disasm_x8664_one(word')
    BY <1>8 DEF disasm_x8664, Reads
  <2>2. PICK m \in Modrm86, s \in Sib86 : word' = first.bytes \o <<m, s>> \o Rest86
    BY <1>8 DEF disasm_x8664
  <2>3. m \in Bytes /\ s \in Bytes /\ Rest86 \in Seq(Bytes)
    BY AssemblyAssumption
  <2>4. first.bytes \in Seq(Bytes) /\ Len(first.bytes) >= 1
    BY <2>1 DEF ShownAlike
  <2>5. word'[1] \notin Front => Agrees86(word', shown')
    BY <2>1, <2>2, <2>3, <2>4, BytesOfFile
  <2> QED BY <2>1, <2>4, <2>5 DEF ShownAlike, Arm64Word, X8664Word
<1>9. CASE asm_riscv64 \/ disasm_riscv64 \/ asm_mips64 \/ disasm_mips64
  <2>1. tool \in {"asm_riscv64", "disasm_riscv64", "asm_mips64", "disasm_mips64"} /\ tool' = tool
    BY <1>9 DEF asm_riscv64, disasm_riscv64, asm_mips64, disasm_mips64, Reads
  <2> QED BY <2>1 DEF ShownAlike, Arm64Word, X8664Word
<1>10. CASE UNCHANGED tools
  BY <1>10 DEF tools, ShownAlike, Arm64Word, X8664Word
<1> QED BY <1>2, <1>3, <1>4, <1>5, <1>6, <1>7, <1>8, <1>9, <1>10 DEF ToolStep

LEMMA ShownAlikeHolds == ShownAlike => WalkSeesWhatIsShown
<1> SUFFICES ASSUME ShownAlike PROVE WalkSeesWhatIsShown
  OBVIOUS
<1>1. Arm64Word => Agrees(word, shown)
  BY DEF ShownAlike
<1>2. X8664Word /\ word[1] \notin Front => Agrees86(word, shown)
  BY DEF ShownAlike
<1> QED BY <1>1, <1>2 DEF WalkSeesWhatIsShown, Agrees, Agrees86

(* WalkSeesWhatIsShown for every word: the walks of lv1/analyse and the listing agree on
   every word of arm64 and every instruction of x86-64 without a prefix on whether it is
   a branch and where to, whether the word was assembled or read from a file. *)
THEOREM WalksAsShown == AssemblySpec => []WalkSeesWhatIsShown
BY ShownAlikeInit, ShownAlikeNext, ShownAlikeHolds, PTL DEF AssemblySpec

----------------------------------------------------------------------------
(* The commands together. *)

(* The commands of main share no state: whatever Binary does to the state of Assembly and
   of Executable is a step of theirs, so that what is proved of them holds of the program. *)
THEOREM CommandsKeepApart == MainSpec => AssemblySpec /\ ExeSpec
<1>1. main => Fresh /\ Untouched
  BY DEF main
<1>2. [Step]_<<vars, tools, file>> => [ToolStep]_tools /\ [ExeStep]_file
  BY DEF Step
<1> QED BY <1>1, <1>2, PTL DEF MainSpec, AssemblySpec, ExeSpec

(* What the run checks of both, of every buffer, word and table. *)
THEOREM BinaryHolds == MainSpec => [](WalkSeesWhatIsShown /\ ListedAsAsked)
BY CommandsKeepApart, WalksAsShown, ListingHolds, PTL
=============================================================================
