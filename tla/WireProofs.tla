----------------------------- MODULE WireProofs -----------------------------
(***************************************************************************)
(* Proofs about what the learner makes of a file and keeps of it.          *)
(*                                                                         *)
(* Wire, for any set of chips, any initial capacity and any number of      *)
(* relations: its types, the shape of its two chains, and that they keep   *)
(* the logs of RelLog.  Parsers, for any text: the flags of the C and the  *)
(* Java parser follow the rules of the language, the names reported are    *)
(* whole, and the parsers of lines and of drawings make of a text what is  *)
(* meant.                                                                  *)
(***************************************************************************)
EXTENDS Wire, Parsers, Recursion, FiniteSetTheorems, SequenceTheorems

\* Chain data `..2` is chain data with relation n + 1 appended at end c.
Appended(n, c, end, prev, next, first, last, end2, prev2, next2, first2, last2) ==
    /\ \A i \in 1 .. n : end2[i] = end[i]
    /\ end2[n + 1] = c
    /\ \A i \in 1 .. n : prev2[i] = prev[i]
    /\ prev2[n + 1] = last[c]
    /\ \A i \in 1 .. n : next2[i] = IF i = last[c] THEN n + 1 ELSE next[i]
    /\ next2[n + 1] = 0
    /\ \A x \in Chip : first2[x] = IF x = c /\ first[c] = 0 THEN n + 1 ELSE first[x]
    /\ \A x \in Chip : last2[x] = IF x = c THEN n + 1 ELSE last[x]

\* The ends after relation n + 1 is appended with end c.
LEMMA AppendEnds ==
    ASSUME NEW n \in Nat, NEW c \in Chip,
           NEW end \in [1 .. n -> Chip], NEW prev, NEW next, NEW first, NEW last,
           NEW end2, NEW prev2, NEW next2, NEW first2, NEW last2,
           EndsOK(n, end, first, last),
           Appended(n, c, end, prev, next, first, last, end2, prev2, next2, first2, last2)
    PROVE  EndsOK(n + 1, end2, first2, last2)
<1>0. /\ \A i \in 1 .. n : end2[i] = end[i]
      /\ end2[n + 1] = c
      /\ \A i \in 1 .. n : prev2[i] = prev[i]
      /\ prev2[n + 1] = last[c]
      /\ \A i \in 1 .. n : next2[i] = IF i = last[c] THEN n + 1 ELSE next[i]
      /\ next2[n + 1] = 0
      /\ \A x \in Chip : first2[x] = IF x = c /\ first[c] = 0 THEN n + 1 ELSE first[x]
      /\ \A x \in Chip : last2[x] = IF x = c THEN n + 1 ELSE last[x]
  BY DEF Appended
<1> SUFFICES ASSUME NEW x \in Chip
             PROVE  \/ /\ first2[x] = 0 /\ last2[x] = 0
                       /\ \A i \in 1 .. n + 1 : end2[i] # x
                    \/ /\ first2[x] \in 1 .. n + 1 /\ last2[x] \in 1 .. n + 1
                       /\ end2[first2[x]] = x /\ end2[last2[x]] = x
                       /\ \A i \in 1 .. n + 1 :
                            end2[i] = x => first2[x] <= i /\ i <= last2[x]
  BY DEF EndsOK
<1>1. \/ /\ first[x] = 0 /\ last[x] = 0
         /\ \A i \in 1 .. n : end[i] # x
      \/ /\ first[x] \in 1 .. n /\ last[x] \in 1 .. n
         /\ end[first[x]] = x /\ end[last[x]] = x
         /\ \A i \in 1 .. n : end[i] = x => first[x] <= i /\ i <= last[x]
  BY DEF EndsOK
<1>2. CASE x # c
  BY <1>0, <1>1, <1>2
<1>3. CASE x = c /\ first[c] = 0
  BY <1>0, <1>1, <1>3
<1>4. CASE x = c /\ first[c] # 0
  BY <1>0, <1>1, <1>4
<1> QED BY <1>2, <1>3, <1>4

\* The forward links after relation n + 1 is appended behind last[c].
LEMMA AppendNext ==
    ASSUME NEW n \in Nat, NEW c \in Chip,
           NEW end \in [1 .. n -> Chip], NEW prev, NEW next, NEW first, NEW last,
           NEW end2, NEW prev2, NEW next2, NEW first2, NEW last2,
           EndsOK(n, end, first, last), NextOK(n, end, next, last),
           Appended(n, c, end, prev, next, first, last, end2, prev2, next2, first2, last2)
    PROVE  NextOK(n + 1, end2, next2, last2)
<1>0. /\ \A i \in 1 .. n : end2[i] = end[i]
      /\ end2[n + 1] = c
      /\ \A i \in 1 .. n : prev2[i] = prev[i]
      /\ prev2[n + 1] = last[c]
      /\ \A i \in 1 .. n : next2[i] = IF i = last[c] THEN n + 1 ELSE next[i]
      /\ next2[n + 1] = 0
      /\ \A x \in Chip : first2[x] = IF x = c /\ first[c] = 0 THEN n + 1 ELSE first[x]
      /\ \A x \in Chip : last2[x] = IF x = c THEN n + 1 ELSE last[x]
  BY DEF Appended
<1> SUFFICES ASSUME NEW i \in 1 .. n + 1
             PROVE  \/ next2[i] = 0 /\ i = last2[end2[i]]
                    \/ /\ next2[i] \in i + 1 .. n + 1
                       /\ end2[next2[i]] = end2[i]
                       /\ \A j \in i + 1 .. next2[i] - 1 : end2[j] # end2[i]
  BY DEF NextOK
<1>1. CASE i = n + 1
  BY <1>0, <1>1
<1>2. CASE i \in 1 .. n /\ i = last[c]
  <2>1. end[i] = c /\ \A j \in 1 .. n : end[j] = c => j <= i
    BY <1>2 DEF EndsOK
  <2> QED BY <1>0, <1>2, <2>1
<1>3. CASE i \in 1 .. n /\ i # last[c]
  <2>1. \/ next[i] = 0 /\ i = last[end[i]]
        \/ /\ next[i] \in i + 1 .. n
           /\ end[next[i]] = end[i]
           /\ \A j \in i + 1 .. next[i] - 1 : end[j] # end[i]
    BY <1>3 DEF NextOK
  <2>2. next2[i] = next[i] /\ end2[i] = end[i] /\ end[i] \in Chip
    BY <1>0, <1>3
  <2> QED BY <1>0, <1>3, <2>1, <2>2
<1> QED BY <1>1, <1>2, <1>3

\* The backward links after relation n + 1 is appended behind last[c].
LEMMA AppendPrev ==
    ASSUME NEW n \in Nat, NEW c \in Chip,
           NEW end \in [1 .. n -> Chip], NEW prev, NEW next, NEW first, NEW last,
           NEW end2, NEW prev2, NEW next2, NEW first2, NEW last2,
           EndsOK(n, end, first, last), NextOK(n, end, next, last),
           PrevOK(n, end, prev, next, first),
           Appended(n, c, end, prev, next, first, last, end2, prev2, next2, first2, last2)
    PROVE  PrevOK(n + 1, end2, prev2, next2, first2)
<1>0. /\ \A i \in 1 .. n : end2[i] = end[i]
      /\ end2[n + 1] = c
      /\ \A i \in 1 .. n : prev2[i] = prev[i]
      /\ prev2[n + 1] = last[c]
      /\ \A i \in 1 .. n : next2[i] = IF i = last[c] THEN n + 1 ELSE next[i]
      /\ next2[n + 1] = 0
      /\ \A x \in Chip : first2[x] = IF x = c /\ first[c] = 0 THEN n + 1 ELSE first[x]
      /\ \A x \in Chip : last2[x] = IF x = c THEN n + 1 ELSE last[x]
  BY DEF Appended
<1> SUFFICES ASSUME NEW i \in 1 .. n + 1
             PROVE  /\ next2[i] # 0 => prev2[next2[i]] = i
                    /\ \/ prev2[i] = 0 /\ i = first2[end2[i]]
                       \/ prev2[i] \in 1 .. i - 1 /\ next2[prev2[i]] = i
  BY DEF PrevOK
<1>1. \/ first[c] = 0 /\ last[c] = 0
      \/ first[c] \in 1 .. n /\ last[c] \in 1 .. n /\ end[last[c]] = c
  BY DEF EndsOK
<1>2. CASE i = n + 1
  BY <1>0, <1>1, <1>2
<1>3. CASE i \in 1 .. n
  <2>1. next2[i] # 0 => prev2[next2[i]] = i
    <3>1. next[i] = 0 \/ next[i] \in 1 .. n
      BY <1>3 DEF NextOK
    <3> QED BY <1>0, <3>1, <1>3 DEF PrevOK
  <2>2. \/ prev2[i] = 0 /\ i = first2[end2[i]]
        \/ prev2[i] \in 1 .. i - 1 /\ next2[prev2[i]] = i
    <3>1. end2[i] = end[i] /\ prev2[i] = prev[i] /\ end[i] \in Chip
      BY <1>0, <1>3
    <3>2. CASE prev[i] = 0 /\ i = first[end[i]]
      BY <1>0, <1>3, <3>1, <3>2
    <3>3. CASE prev[i] \in 1 .. i - 1 /\ next[prev[i]] = i
      <4>1. prev[i] # last[c]
        <5>1. prev[i] \in 1 .. n /\ next[prev[i]] # 0
          BY <1>3, <3>3
        <5>2. end[prev[i]] = end[i]
          BY <5>1, <3>3 DEF NextOK
        <5>3. i <= last[end[i]]
          BY <1>3, <3>1 DEF EndsOK
        <5>4. prev[i] = last[c] => end[prev[i]] = c
          BY <1>1, <3>3
        <5> QED BY <5>2, <5>3, <5>4, <3>3, <1>3
      <4> QED BY <1>0, <1>3, <3>1, <3>3, <4>1
    <3> QED BY <1>0, <1>3, <3>2, <3>3 DEF PrevOK
  <2> QED BY <2>1, <2>2
<1> QED BY <1>2, <1>3

----------------------------------------------------------------------------
\* A relation appended at the end of the chains of a chip leaves them chains.
LEMMA AppendChained ==
    ASSUME NEW n \in Nat, NEW c \in Chip,
           NEW end \in [1 .. n -> Chip], NEW prev, NEW next, NEW first, NEW last,
           Chained(n, end, prev, next, first, last),
           NEW end2, NEW prev2, NEW next2, NEW first2, NEW last2,
           Appended(n, c, end, prev, next, first, last, end2, prev2, next2, first2, last2)
    PROVE  Chained(n + 1, end2, prev2, next2, first2, last2)
<1>1. EndsOK(n + 1, end2, first2, last2)
  BY AppendEnds DEF Chained
<1>2. NextOK(n + 1, end2, next2, last2)
  BY AppendNext DEF Chained
<1>3. PrevOK(n + 1, end2, prev2, next2, first2)
  BY AppendPrev DEF Chained
<1> QED BY <1>1, <1>2, <1>3 DEF Chained

----------------------------------------------------------------------------
(* The walk along a chain, and what an append makes of it. *)

\* g lists, for every relation, the walk from it on.
Walked(g, n, link) ==
    g = [j \in 0 .. n |-> IF j = 0 THEN << >> ELSE <<j>> \o g[link[j]]]

\* The links of a chain only go forward.
NextUp(n, link) == \A j \in 1 .. n : link[j] = 0 \/ link[j] \in j + 1 .. n

(* Links that only go forward can be followed to their end from every relation. *)
LEMMA WalkExists ==
    ASSUME NEW n \in Nat, NEW link, NextUp(n, link)
    PROVE  \E g \in [0 .. n -> Seq(Nat)] : Walked(g, n, link)
<1> DEFINE Known(k) == {0} \cup (n - k + 1 .. n)
           Part(g, k) == \A j \in Known(k) : g[j] = IF j = 0 THEN << >> ELSE <<j>> \o g[link[j]]
           T == {k \in 0 .. n : \E g \in [0 .. n -> Seq(Nat)] : Part(g, k)}
<1>1. 0 \in T
  <2> DEFINE g == [j \in 0 .. n |-> << >>]
  <2>1. g \in [0 .. n -> Seq(Nat)]
    OBVIOUS
  <2>2. Known(0) = {0} /\ g[0] = << >>
    OBVIOUS
  <2> HIDE DEF g
  <2>3. Part(g, 0)
    BY <2>2, Zenon
  <2> HIDE DEF Part
  <2> QED BY <2>1, <2>3
<1>2. ASSUME NEW k \in 0 .. n - 1, k \in T PROVE k + 1 \in T
  <2>1. PICK g \in [0 .. n -> Seq(Nat)] : Part(g, k)
    BY <1>2
  <2> DEFINE i == n - k
             h == [g EXCEPT ![i] = <<i>> \o g[link[i]]]
  <2>2. i \in 1 .. n /\ i \in Nat
    OBVIOUS
  <2>3. link[i] \in 0 .. n /\ link[i] # i
    BY <2>2 DEF NextUp
  <2> HIDE DEF i
  <2>4. <<i>> \o g[link[i]] \in Seq(Nat)
    <3>1. <<i>> \in Seq(Nat) /\ g[link[i]] \in Seq(Nat)
      BY <2>2, <2>3
    <3> QED BY <3>1
  <2>5. h \in [0 .. n -> Seq(Nat)]
    BY <2>4
  <2>6. ASSUME NEW j \in Known(k + 1)
        PROVE  h[j] = IF j = 0 THEN << >> ELSE <<j>> \o h[link[j]]
    <3>1. CASE j = i
      <4>1. h[i] = <<i>> \o g[link[i]] /\ h[link[i]] = g[link[i]]
        BY <2>2, <2>3
      <4>2. h[i] = <<i>> \o h[link[i]] /\ i # 0
        <5> HIDE DEF h
        <5> QED BY <2>2, <4>1
      <4> HIDE DEF h
      <4> QED BY <3>1, <4>2, Zenon
    <3>2. CASE j # i
      <4>1. j \in Known(k) /\ j \in 0 .. n
        BY <2>2, <3>2 DEF i
      <4>2. j # 0 => link[j] \in 0 .. n /\ link[j] # i
        <5> SUFFICES ASSUME j # 0 PROVE link[j] \in 0 .. n /\ link[j] # i
          OBVIOUS
        <5>1. j \in i + 1 .. n /\ j \in 1 .. n
          BY <4>1, <2>2 DEF i
        <5>2. link[j] = 0 \/ link[j] \in j + 1 .. n
          BY <5>1 DEF NextUp
        <5> QED BY <5>1, <5>2, <2>2
      <4>3. g[j] = IF j = 0 THEN << >> ELSE <<j>> \o g[link[j]]
        BY <2>1, <4>1
      <4>4. h[j] = g[j]
        BY <3>2, <4>1
      <4>5. j # 0 => h[link[j]] = g[link[j]]
        BY <4>2
      <4> HIDE DEF h
      <4> QED BY <4>3, <4>4, <4>5
    <3> QED BY <3>1, <3>2
  <2>7. Part(h, k + 1)
    BY <2>6, Zenon
  <2> HIDE DEF h, Part
  <2>8. k + 1 \in 0 .. n
    OBVIOUS
  <2> QED BY <2>5, <2>7, <2>8
<1> HIDE DEF T
<1>3. \A k \in 0 .. n : k \in T
  BY <1>1, <1>2, InductionUpTo
<1>4. PICK g \in [0 .. n -> Seq(Nat)] : Part(g, n)
  <2>1. n \in 0 .. n
    OBVIOUS
  <2> HIDE DEF Part
  <2> QED BY <1>3, <2>1 DEF T
<1>5. Known(n) = 0 .. n
  OBVIOUS
<1> HIDE DEF Known
<1>6. \A j \in 0 .. n : g[j] = IF j = 0 THEN << >> ELSE <<j>> \o g[link[j]]
  BY <1>4, <1>5
<1>7. g = [j \in 0 .. n |-> g[j]]
  OBVIOUS
<1>8. Walked(g, n, link)
  BY <1>6, <1>7, Zenon DEF Walked
<1> QED BY <1>8

FollowIs(g, n, link) ==
    /\ \A i : Follow(n, link, i) = g[i]
    /\ g[0] = << >>
    /\ \A j \in 1 .. n : g[j] = <<j>> \o g[link[j]]

(* Follow is that walk. *)
LEMMA FollowWalks ==
    ASSUME NEW n \in Nat, NEW link, NextUp(n, link)
    PROVE  \E g \in [0 .. n -> Seq(Nat)] : FollowIs(g, n, link)
<1> DEFINE g == CHOOSE g : Walked(g, n, link)
<1>1. PICK h \in [0 .. n -> Seq(Nat)] : Walked(h, n, link)
  BY WalkExists
<1>2. Walked(g, n, link)
  BY <1>1
<1>3. \A i : Follow(n, link, i) = g[i]
  BY Zenon DEF Follow, Walked
<1> HIDE DEF g
<1>4. g[0] = << >> /\ \A j \in 1 .. n : g[j] = <<j>> \o g[link[j]]
  <2>1. 0 \in 0 .. n /\ \A j \in 1 .. n : j \in 0 .. n /\ j # 0
    OBVIOUS
  <2> QED BY <1>2, <2>1 DEF Walked
<1> DEFINE T == {j \in 1 .. n : g[j] \in Seq(Nat)}
<1>e. g[0] \in Seq(Nat)
  <2>1. << >> \in Seq(Nat)
    OBVIOUS
  <2> QED BY <1>4, <2>1
<1>5. ASSUME NEW j \in 1 .. n, \A i \in j + 1 .. n : i \in T  PROVE j \in T
  <2>1. link[j] = 0 \/ link[j] \in T
    BY <1>5 DEF NextUp
  <2>2. g[link[j]] \in Seq(Nat)
    BY <1>e, <2>1
  <2>3. <<j>> \in Seq(Nat)
    OBVIOUS
  <2>4. <<j>> \o g[link[j]] \in Seq(Nat)
    BY <2>2, <2>3
  <2> QED BY <1>4, <2>4
<1> HIDE DEF T
<1>6. \A j \in 1 .. n : j \in T
  BY <1>5, InductionDown
<1>7. g \in [0 .. n -> Seq(Nat)]
  <2>1. g = [j \in 0 .. n |-> g[j]]
    BY <1>2 DEF Walked
  <2>2. \A j \in 0 .. n : g[j] \in Seq(Nat)
    <3>1. \A j \in 0 .. n : j = 0 \/ j \in 1 .. n
      OBVIOUS
    <3> QED BY <1>e, <1>6, <3>1 DEF T
  <2> QED BY <2>1, <2>2
<1> QED BY <1>3, <1>4, <1>7 DEF FollowIs

(* One relation in front of a walk, and one behind it. *)
LEMMA LongerWalk ==
    ASSUME NEW s \in Seq(Nat), NEW i \in Nat, NEW m \in Nat
    PROVE  /\ <<i>> \o Append(s, m) = Append(<<i>> \o s, m)
           /\ <<i>> \o << >> = <<i>>
           /\ <<i>> \o <<m>> = Append(<<i>>, m)
           /\ Append(<< >>, m) = <<m>>
<1>1. <<i>> \in Seq(Nat) /\ <<m>> \in Seq(Nat) /\ << >> \in Seq(Nat)
  OBVIOUS
<1>2. <<i>> \o s \in Seq(Nat)
  BY <1>1, ConcatProperties
<1>3. Append(s, m) = s \o <<m>> /\ Append(<<i>> \o s, m) = (<<i>> \o s) \o <<m>>
      /\ Append(<<i>>, m) = <<i>> \o <<m>> /\ Append(<< >>, m) = << >> \o <<m>>
  BY <1>1, <1>2, AppendIsConcat
<1>4. (<<i>> \o s) \o <<m>> = <<i>> \o (s \o <<m>>)
  BY <1>1, ConcatAssociative
<1>5. <<i>> \o << >> = <<i>> /\ << >> \o <<m>> = <<m>>
  BY <1>1, ConcatEmptySeq
<1> QED BY <1>3, <1>4, <1>5

(* After relation n + 1 is appended with end c, the walk from the first relation of c
   goes on to it, and the walks of all the others are what they were. *)
LEMMA AppendWalk ==
    ASSUME NEW n \in Nat, NEW c \in Chip,
           NEW end \in [1 .. n -> Chip], NEW prev, NEW next, NEW first, NEW last,
           NEW end2, NEW prev2, NEW next2, NEW first2, NEW last2,
           Chained(n, end, prev, next, first, last),
           Appended(n, c, end, prev, next, first, last, end2, prev2, next2, first2, last2)
    PROVE  \A x \in Chip :
             Follow(n + 1, next2, first2[x]) =
               IF x = c THEN Append(Follow(n, next, first[x]), n + 1) ELSE Follow(n, next, first[x])
<1>1. EndsOK(n, end, first, last) /\ NextOK(n, end, next, last) /\ NextOK(n + 1, end2, next2, last2)
  BY AppendNext DEF Chained
<1>2. /\ \A i \in 1 .. n : next2[i] = IF i = last[c] THEN n + 1 ELSE next[i]
      /\ next2[n + 1] = 0
      /\ \A x \in Chip : first2[x] = IF x = c /\ first[c] = 0 THEN n + 1 ELSE first[x]
  BY DEF Appended
<1>3. NextUp(n, next) /\ NextUp(n + 1, next2)
  BY <1>1 DEF NextOK, NextUp
<1>4. PICK g \in [0 .. n -> Seq(Nat)] : FollowIs(g, n, next)
  BY <1>3, FollowWalks
<1>5. PICK h \in [0 .. n + 1 -> Seq(Nat)] : FollowIs(h, n + 1, next2)
  <2>1. n + 1 \in Nat
    OBVIOUS
  <2> QED BY <1>3, <2>1, FollowWalks
<1> USE DEF FollowIs
<1>6. h[n + 1] = <<n + 1>>
  <2>1. n + 1 \in 1 .. n + 1 /\ n + 1 \in Nat
    OBVIOUS
  <2>2. h[n + 1] = <<n + 1>> \o << >>
    <3>1. h[n + 1] = <<n + 1>> \o h[next2[n + 1]]
      BY <1>5, <2>1
    <3> QED BY <1>2, <1>5, <3>1
  <2>3. << >> \in Seq(Nat)
    OBVIOUS
  <2> QED BY <2>1, <2>2, <2>3, LongerWalk
<1> DEFINE T == {j \in 1 .. n : h[j] = IF end[j] = c THEN Append(g[j], n + 1) ELSE g[j]}
<1>7. ASSUME NEW j \in 1 .. n, \A i \in j + 1 .. n : i \in T  PROVE j \in T
  <2>1. /\ g[j] = <<j>> \o g[next[j]] /\ h[j] = <<j>> \o h[next2[j]]
        /\ next2[j] = IF j = last[c] THEN n + 1 ELSE next[j]
    <3>1. j \in 1 .. n + 1
      OBVIOUS
    <3> QED BY <1>2, <1>4, <1>5, <3>1
  <2>2. j \in Nat /\ n + 1 \in Nat /\ end[j] \in Chip
    OBVIOUS
  <2>3. \A x \in Chip : last[x] = 0 \/ (last[x] \in 1 .. n /\ end[last[x]] = x)
    BY <1>1 DEF EndsOK
  <2>4. CASE next[j] = 0 /\ j = last[end[j]]
    <3>1. g[j] = <<j>>
      <4>1. << >> \in Seq(Nat)
        OBVIOUS
      <4> QED BY <1>4, <2>1, <2>2, <2>4, <4>1, LongerWalk
    <3>2. CASE end[j] = c
      <4>1. h[j] = <<j>> \o <<n + 1>>
        BY <1>6, <2>1, <2>4, <3>2
      <4>2. << >> \in Seq(Nat)
        OBVIOUS
      <4>3. h[j] = Append(<<j>>, n + 1)
        BY <2>2, <4>1, <4>2, LongerWalk
      <4> QED BY <3>1, <3>2, <4>3
    <3>3. CASE end[j] # c
      <4>1. j # last[c]
        <5>1. last[c] = 0 \/ end[last[c]] = c
          BY <2>3
        <5> QED BY <3>3, <5>1
      <4>2. h[j] = g[j]
        BY <1>4, <1>5, <2>1, <2>4, <4>1
      <4> QED BY <3>3, <4>2
    <3> QED BY <3>2, <3>3
  <2>5. CASE next[j] \in j + 1 .. n /\ end[next[j]] = end[j]
    <3> DEFINE k == next[j]
    <3>1. k \in T /\ k \in 1 .. n
      BY <1>7, <2>5
    <3>2. j # last[c]
      <4> SUFFICES ASSUME j = last[c] PROVE FALSE
        OBVIOUS
      <4>1. end[j] = c /\ end[k] = c /\ k > j
        <5>1. last[c] = 0 \/ end[last[c]] = c
          BY <2>3
        <5>2. j = last[c] /\ j \in 1 .. n /\ n \in Nat
          OBVIOUS
        <5>3. end[j] = c
          BY ONLY <5>1, <5>2
        <5>4. j \in 1 .. n /\ n \in Nat
          OBVIOUS
        <5>5. k > j /\ end[k] = c
          BY ONLY <2>5, <5>3, <5>4
        <5> QED BY ONLY <5>3, <5>5
      <4>2. k <= last[c]
        BY <1>1, <3>1, <4>1 DEF EndsOK
      <4>3. j = last[c] /\ j \in Nat /\ k \in 1 .. n /\ n \in Nat
        BY <2>2, <3>1
      <4> HIDE DEF k
      <4> QED BY ONLY <4>1, <4>2, <4>3
    <3>3. h[j] = <<j>> \o h[k] /\ g[j] = <<j>> \o g[k] /\ end[k] = end[j]
      BY <2>1, <2>5, <3>2
    <3>4. g[k] \in Seq(Nat)
      BY <3>1
    <3> HIDE DEF k
    <3>5. CASE end[j] = c
      <4>1. h[j] = <<j>> \o Append(g[k], n + 1)
        BY <3>1, <3>3, <3>5
      <4>2. h[j] = Append(g[j], n + 1)
        BY <2>2, <3>3, <3>4, <4>1, LongerWalk
      <4> QED BY <3>5, <4>2
    <3>6. CASE end[j] # c
      BY <3>1, <3>3, <3>6
    <3> QED BY <3>5, <3>6
  <2> QED BY <1>1, <2>4, <2>5 DEF NextOK
<1> HIDE DEF T
<1>8. \A j \in 1 .. n : j \in T
  BY <1>7, InductionDown
<1> SUFFICES ASSUME NEW x \in Chip
             PROVE  h[first2[x]] = IF x = c THEN Append(g[first[x]], n + 1) ELSE g[first[x]]
  <2>1. (\A i : Follow(n, next, i) = g[i]) /\ (\A i : Follow(n + 1, next2, i) = h[i])
    BY <1>4, <1>5
  <2> QED BY <2>1
<1>9. first[x] = 0 \/ (first[x] \in 1 .. n /\ end[first[x]] = x)
  BY <1>1 DEF EndsOK
<1>10. CASE first[x] = 0
  <2>1. << >> \in Seq(Nat) /\ n + 1 \in Nat
    OBVIOUS
  <2>2. Append(<< >>, n + 1) = <<n + 1>>
    BY <2>1, LongerWalk
  <2>3. CASE x = c
    BY <1>2, <1>4, <1>6, <1>10, <2>2, <2>3
  <2>4. CASE x # c
    BY <1>2, <1>4, <1>5, <1>10, <2>4
  <2> QED BY <2>3, <2>4
<1>11. CASE first[x] \in 1 .. n /\ end[first[x]] = x
  <2>1. first2[x] = first[x] /\ first[x] \in T
    <3>1. first[x] # 0
      BY <1>11
    <3> QED BY <1>2, <1>8, <1>11, <3>1
  <2> QED BY <1>11, <2>1 DEF T
<1> QED BY <1>9, <1>10, <1>11

----------------------------------------------------------------------------
(* Types. *)

\* The types of a relation and of a chip's ends allow for more relations than
\* there are, and are kept by the updates relationcreate makes.
LEMMA RelGrows ==
    ASSUME NEW n \in Nat, NEW r \in Rel(n), NEW a, NEW b
    PROVE  [r EXCEPT !.samesrcnextdst = IF a THEN n + 1 ELSE @,
                     !.samedstnextsrc = IF b THEN n + 1 ELSE @] \in Rel(n + 1)
<1> DEFINE x == IF a THEN n + 1 ELSE r.samesrcnextdst
           y == IF b THEN n + 1 ELSE r.samedstnextsrc
<1>1. r \in Rel(n + 1)
  BY DEF Rel
<1>2. x \in 0 .. n + 1 /\ y \in 0 .. n + 1
  BY DEF Rel
<1> HIDE DEF x, y
<1>3. [r EXCEPT !.samesrcnextdst = x, !.samedstnextsrc = y] \in Rel(n + 1)
  BY <1>1, <1>2 DEF Rel
<1> QED BY <1>3 DEF x, y

\* The ends of chains among n relations are so among n + 1.
LEMMA HeadGrows ==
    ASSUME NEW n \in Nat, NEW h \in ChainEnds(n)
    PROVE  h \in ChainEnds(n + 1)
BY DEF ChainEnds

\* The ends of chains stay relations that exist when the newest is linked in.
LEMMA HeadUpdate ==
    ASSUME NEW n \in Nat \ {0}, NEW h \in ChainEnds(n)
    PROVE  AsSource(h, n) \in ChainEnds(n) /\ AsTarget(h, n) \in ChainEnds(n)
<1> DEFINE x == IF h.orel0 = 0 THEN n ELSE h.orel0
           y == IF h.irel0 = 0 THEN n ELSE h.irel0
<1>1. x \in 0 .. n /\ y \in 0 .. n /\ n \in 0 .. n
  BY DEF ChainEnds
<1> HIDE DEF x, y
<1>2. [h EXCEPT !.oreln = n, !.orel0 = x] \in ChainEnds(n)
  BY <1>1 DEF ChainEnds
<1>3. [h EXCEPT !.ireln = n, !.irel0 = y] \in ChainEnds(n)
  BY <1>1 DEF ChainEnds
<1> QED BY <1>2, <1>3 DEF x, y, AsSource, AsTarget

(* Every link is null or names a relation of the buffer, in every reachable
   state: relationcreate links only to the relation it makes and to those that
   the heads already name. *)
THEOREM TypeCorrect == Spec => []TypeOK
<1>1. Init => TypeOK
  BY WireStartOK DEF Init, TypeOK, Recs, Rel, ChainEnds, NoRel, NoHead
<1>2. TypeOK /\ [Next]_vars => TypeOK'
  <2> SUFFICES ASSUME TypeOK, [Next]_vars PROVE TypeOK'
    OBVIOUS
  <2>1. ASSUME NEW s \in Chip, NEW d \in Chip, relationcreate(s, d) PROVE TypeOK'
    <3> DEFINE n == wirecur
    <3>1. n \in Nat \ {0} /\ wirecur' = n + 1 /\ Recs' = 1 .. n
      BY <2>1 DEF TypeOK, relationcreate, Recs
    <3>2. wirelen' \in Nat \ {0} /\ open' \in BOOLEAN
      BY <2>1 DEF TypeOK, relationcreate, Generate
    <3>3. head[s].oreln \in 0 .. n - 1 /\ head[d].ireln \in 0 .. n - 1
      BY DEF TypeOK, ChainEnds
    <3>4. wirebuf' \in [1 .. n -> Rel(n)]
      <4> DEFINE so == head[s].oreln
                 di == head[d].ireln
      <4>1. wirebuf' = Threaded(wirebuf, n, s, so, d, di)
        BY <2>1 DEF relationcreate
      <4>2. ASSUME NEW i \in 1 .. n - 1
            PROVE  [wirebuf[i] EXCEPT !.samesrcnextdst = IF i = so THEN n ELSE @,
                                      !.samedstnextsrc = IF i = di THEN n ELSE @] \in Rel(n)
        <5>1. n - 1 \in Nat /\ (n - 1) + 1 = n
          BY <3>1
        <5>2. wirebuf[i] \in Rel(n - 1)
          BY DEF TypeOK, Recs
        <5>3. [wirebuf[i] EXCEPT
                  !.samesrcnextdst = IF i = so THEN (n - 1) + 1 ELSE @,
                  !.samedstnextsrc = IF i = di THEN (n - 1) + 1 ELSE @] \in Rel((n - 1) + 1)
          BY <5>1, <5>2, RelGrows
        <5> QED BY <5>1, <5>3
      <4>3. [src |-> s, samesrcprevdst |-> so, samesrcnextdst |-> 0,
             dst |-> d, samedstprevsrc |-> di, samedstnextsrc |-> 0] \in Rel(n)
        BY <3>1, <3>3 DEF Rel
      <4> HIDE DEF so, di
      <4>4. wirebuf' = [i \in 1 .. n |-> wirebuf'[i]]
        BY <4>1 DEF Threaded
      <4>5. ASSUME NEW i \in 1 .. n PROVE wirebuf'[i] \in Rel(n)
        <5>1. CASE i = n
          BY <4>1, <4>3, <5>1 DEF Threaded
        <5>2. CASE i # n
          <6>1. i \in 1 .. n - 1
            BY <3>1, <5>2
          <6>2. wirebuf'[i] = [wirebuf[i] EXCEPT
                                  !.samesrcnextdst = IF i = so THEN n ELSE @,
                                  !.samedstnextsrc = IF i = di THEN n ELSE @]
            BY <4>1, <5>2 DEF Threaded
          <6> QED BY <4>2, <6>1, <6>2
        <5> QED BY <5>1, <5>2
      <4> QED BY <4>4, <4>5
    <3>5. head' \in [Chip -> ChainEnds(n)]
      <4> SUFFICES ASSUME NEW c \in Chip PROVE head'[c] \in ChainEnds(n)
        BY <2>1 DEF relationcreate
      <4> DEFINE o == IF c = s THEN AsSource(head[c], n) ELSE head[c]
      <4>1. head[c] \in ChainEnds(n)
        <5>1. n - 1 \in Nat /\ (n - 1) + 1 = n
          BY <3>1
        <5>2. head[c] \in ChainEnds(n - 1)
          BY DEF TypeOK
        <5> QED BY <5>1, <5>2, HeadGrows
      <4>2. o \in ChainEnds(n)
        BY <3>1, <4>1, HeadUpdate
      <4>3. head'[c] = IF c = d THEN AsTarget(o, n) ELSE o
        BY <2>1 DEF relationcreate
      <4> HIDE DEF o
      <4> QED BY <3>1, <4>2, <4>3, HeadUpdate
    <3>6. wirecur' - 1 = n
      BY <3>1
    <3> QED BY <3>1, <3>2, <3>4, <3>5, <3>6 DEF TypeOK
  <2>2. CASE relation_stop
    BY <2>2 DEF relation_stop, TypeOK, Recs
  <2>3. CASE Crash
    BY <2>3 DEF Crash, TypeOK, Recs
  <2>4. CASE Restart
    BY <2>4, WireStartOK DEF Restart, TypeOK, Recs, Rel, ChainEnds, NoRel, NoHead
  <2>5. CASE UNCHANGED vars
    BY <2>5 DEF vars, TypeOK, Recs
  <2> QED BY <2>1, <2>2, <2>3, <2>4, <2>5 DEF Next
<1> QED BY <1>1, <1>2, PTL DEF Spec
----------------------------------------------------------------------------
(* The two chains, with the relations numbered 1 .. wirecur - 1. *)

\* What relationcreate writes, field by field: relation n = wirecur is new, and
\* only the last relation before it on either chain gets a new forward link.
Created(s, d) ==
    /\ \A i \in 1 .. wirecur - 1 :
         /\ wirebuf'[i].src = wirebuf[i].src
         /\ wirebuf'[i].dst = wirebuf[i].dst
         /\ wirebuf'[i].samesrcprevdst = wirebuf[i].samesrcprevdst
         /\ wirebuf'[i].samedstprevsrc = wirebuf[i].samedstprevsrc
         /\ wirebuf'[i].samesrcnextdst =
              IF i = head[s].oreln THEN wirecur ELSE wirebuf[i].samesrcnextdst
         /\ wirebuf'[i].samedstnextsrc =
              IF i = head[d].ireln THEN wirecur ELSE wirebuf[i].samedstnextsrc
    /\ wirebuf'[wirecur] =
         [src |-> s, samesrcprevdst |-> head[s].oreln, samesrcnextdst |-> 0,
          dst |-> d, samedstprevsrc |-> head[d].ireln, samedstnextsrc |-> 0]
    /\ \A c \in Chip :
         /\ head'[c].orel0 = IF c = s /\ head[s].orel0 = 0 THEN wirecur
                             ELSE head[c].orel0
         /\ head'[c].oreln = IF c = s THEN wirecur ELSE head[c].oreln
         /\ head'[c].irel0 = IF c = d /\ head[d].irel0 = 0 THEN wirecur
                             ELSE head[c].irel0
         /\ head'[c].ireln = IF c = d THEN wirecur ELSE head[c].ireln

\* What relationcreate changes, field by field.
LEMMA CreateFields ==
    ASSUME TypeOK, NEW s \in Chip, NEW d \in Chip, relationcreate(s, d)
    PROVE  Created(s, d)
<1>1. wirecur \in Nat \ {0}
  BY DEF TypeOK
<1> DEFINE so == head[s].oreln
           di == head[d].ireln
<1>2. wirebuf' = Threaded(wirebuf, wirecur, s, so, d, di)
  BY DEF relationcreate
<1> HIDE DEF so, di
<1>3. wirebuf'[wirecur] =
        [src |-> s, samesrcprevdst |-> so, samesrcnextdst |-> 0,
         dst |-> d, samedstprevsrc |-> di, samedstnextsrc |-> 0]
  <2>1. ASSUME NEW i \in 1 .. wirecur, i = wirecur
        PROVE  wirebuf'[i] = [src |-> s, samesrcprevdst |-> so, samesrcnextdst |-> 0,
                              dst |-> d, samedstprevsrc |-> di, samedstnextsrc |-> 0]
    BY <1>2, <2>1 DEF Threaded
  <2>2. wirecur \in 1 .. wirecur
    BY <1>1
  <2> QED BY <2>1, <2>2
<1>4. ASSUME NEW i \in 1 .. wirecur - 1
      PROVE  /\ wirebuf'[i].src = wirebuf[i].src
             /\ wirebuf'[i].dst = wirebuf[i].dst
             /\ wirebuf'[i].samesrcprevdst = wirebuf[i].samesrcprevdst
             /\ wirebuf'[i].samedstprevsrc = wirebuf[i].samedstprevsrc
             /\ wirebuf'[i].samesrcnextdst =
                  IF i = so THEN wirecur ELSE wirebuf[i].samesrcnextdst
             /\ wirebuf'[i].samedstnextsrc =
                  IF i = di THEN wirecur ELSE wirebuf[i].samedstnextsrc
  <2>1. wirebuf[i] \in Rel(wirecur - 1)
    BY DEF TypeOK, Recs
  <2>2. wirebuf'[i] = [wirebuf[i] EXCEPT
            !.samesrcnextdst = IF i = so THEN wirecur ELSE @,
            !.samedstnextsrc = IF i = di THEN wirecur ELSE @]
    <3>1. i \in 1 .. wirecur /\ i # wirecur
      BY <1>1
    <3> QED BY <1>2, <3>1 DEF Threaded
  <2> QED BY <2>1, <2>2 DEF Rel
<1>5. ASSUME NEW c \in Chip
      PROVE  /\ head'[c].orel0 = IF c = s /\ head[s].orel0 = 0 THEN wirecur
                                 ELSE head[c].orel0
             /\ head'[c].oreln = IF c = s THEN wirecur ELSE head[c].oreln
             /\ head'[c].irel0 = IF c = d /\ head[d].irel0 = 0 THEN wirecur
                                 ELSE head[c].irel0
             /\ head'[c].ireln = IF c = d THEN wirecur ELSE head[c].ireln
  <2>1. head[c] \in ChainEnds(wirecur - 1)
    BY DEF TypeOK
  <2>2. head'[c] = LET o == IF c = s THEN AsSource(head[c], wirecur) ELSE head[c]
                   IN  IF c = d THEN AsTarget(o, wirecur) ELSE o
    BY DEF relationcreate
  <2>3. CASE c = s /\ c = d
    BY <2>1, <2>2, <2>3 DEF AsSource, AsTarget, ChainEnds
  <2>4. CASE c = s /\ c # d
    BY <2>1, <2>2, <2>4 DEF AsSource, ChainEnds
  <2>5. CASE c # s /\ c = d
    BY <2>1, <2>2, <2>5 DEF AsTarget, ChainEnds
  <2>6. CASE c # s /\ c # d
    BY <2>2, <2>6
  <2> QED BY <2>3, <2>4, <2>5, <2>6
<1> QED BY <1>3, <1>4, <1>5 DEF Created, so, di

\* relationcreate appends to the chain of its source.
LEMMA CreateOut ==
    ASSUME TypeOK, OutChains, NEW s \in Chip, NEW d \in Chip, relationcreate(s, d)
    PROVE  OutChains' /\ StartingAt' = [StartingAt EXCEPT ![s] = Append(@, wirecur)]
<1> DEFINE n == wirecur - 1
           end == [i \in Recs |-> wirebuf[i].src]
           prev == [i \in Recs |-> wirebuf[i].samesrcprevdst]
           next == [i \in Recs |-> wirebuf[i].samesrcnextdst]
           first == [c \in Chip |-> head[c].orel0]
           last == [c \in Chip |-> head[c].oreln]
<1>1. n \in Nat /\ n + 1 = wirecur /\ Recs = 1 .. n /\ Recs' = 1 .. n + 1
      /\ wirecur' - 1 = n + 1
  BY DEF TypeOK, relationcreate, Recs
<1>2. Chained(n, end, prev, next, first, last)
  BY DEF OutChains
<1>3. end \in [1 .. n -> Chip]
  BY <1>1 DEF TypeOK, Rel
<1>4. Created(s, d)
  BY CreateFields
<1>5. (\A i \in 1 .. n : end'[i] = end[i]) /\ end'[n + 1] = s
  BY <1>1, <1>4 DEF Created
<1>6. (\A i \in 1 .. n : prev'[i] = prev[i]) /\ prev'[n + 1] = last[s]
  BY <1>1, <1>4 DEF Created
<1>7. /\ \A i \in 1 .. n : next'[i] = IF i = last[s] THEN n + 1 ELSE next[i]
      /\ next'[n + 1] = 0
  BY <1>1, <1>4 DEF Created
<1>8. /\ \A x \in Chip : first'[x] = IF x = s /\ first[s] = 0 THEN n + 1 ELSE first[x]
      /\ \A x \in Chip : last'[x] = IF x = s THEN n + 1 ELSE last[x]
  BY <1>1, <1>4 DEF Created
<1>9. Appended(n, s, end, prev, next, first, last, end', prev', next', first', last')
  BY <1>5, <1>6, <1>7, <1>8 DEF Appended
<1> HIDE DEF n, end, prev, next, first, last
<1>10. Chained(n + 1, end', prev', next', first', last')
  BY <1>1, <1>2, <1>3, <1>9, AppendChained
<1>11. Chained(wirecur' - 1, end', prev', next', first', last')
  BY <1>1, <1>10
<1>12. \A x \in Chip :
         Follow(n + 1, next', first'[x]) =
           IF x = s THEN Append(Follow(n, next, first[x]), n + 1) ELSE Follow(n, next, first[x])
  BY <1>1, <1>2, <1>3, <1>9, AppendWalk
<1>13. \A x \in Chip : StartingAt'[x] = IF x = s THEN Append(StartingAt[x], wirecur) ELSE StartingAt[x]
  <2>1. \A x \in Chip : StartingAt[x] = Follow(n, next, first[x])
    BY DEF StartingAt, n, next, first
  <2>2. \A x \in Chip : StartingAt'[x] = Follow(n + 1, next', first'[x])
    <3>1. \A x \in Chip : StartingAt'[x] = Follow(wirecur' - 1, next', first'[x])
      BY DEF StartingAt, next, first
    <3> QED BY <1>1, <3>1
  <2> QED BY <1>1, <1>12, <2>1, <2>2
<1>14. StartingAt' = [x \in Chip |-> StartingAt'[x]] /\ StartingAt = [x \in Chip |-> StartingAt[x]]
  BY DEF StartingAt
<1>15. StartingAt' = [StartingAt EXCEPT ![s] = Append(@, wirecur)]
  BY <1>13, <1>14
<1> QED BY <1>11, <1>15 DEF OutChains, end, prev, next, first, last

\* relationcreate appends to the chain of its destination.
LEMMA CreateIn ==
    ASSUME TypeOK, InChains, NEW s \in Chip, NEW d \in Chip, relationcreate(s, d)
    PROVE  InChains' /\ EndingAt' = [EndingAt EXCEPT ![d] = Append(@, wirecur)]
<1> DEFINE n == wirecur - 1
           end == [i \in Recs |-> wirebuf[i].dst]
           prev == [i \in Recs |-> wirebuf[i].samedstprevsrc]
           next == [i \in Recs |-> wirebuf[i].samedstnextsrc]
           first == [c \in Chip |-> head[c].irel0]
           last == [c \in Chip |-> head[c].ireln]
<1>1. n \in Nat /\ n + 1 = wirecur /\ Recs = 1 .. n /\ Recs' = 1 .. n + 1
      /\ wirecur' - 1 = n + 1
  BY DEF TypeOK, relationcreate, Recs
<1>2. Chained(n, end, prev, next, first, last)
  BY DEF InChains
<1>3. end \in [1 .. n -> Chip]
  BY <1>1 DEF TypeOK, Rel
<1>4. Created(s, d)
  BY CreateFields
<1>5. (\A i \in 1 .. n : end'[i] = end[i]) /\ end'[n + 1] = d
  BY <1>1, <1>4 DEF Created
<1>6. (\A i \in 1 .. n : prev'[i] = prev[i]) /\ prev'[n + 1] = last[d]
  BY <1>1, <1>4 DEF Created
<1>7. /\ \A i \in 1 .. n : next'[i] = IF i = last[d] THEN n + 1 ELSE next[i]
      /\ next'[n + 1] = 0
  BY <1>1, <1>4 DEF Created
<1>8. /\ \A x \in Chip : first'[x] = IF x = d /\ first[d] = 0 THEN n + 1 ELSE first[x]
      /\ \A x \in Chip : last'[x] = IF x = d THEN n + 1 ELSE last[x]
  BY <1>1, <1>4 DEF Created
<1>9. Appended(n, d, end, prev, next, first, last, end', prev', next', first', last')
  BY <1>5, <1>6, <1>7, <1>8 DEF Appended
<1> HIDE DEF n, end, prev, next, first, last
<1>10. Chained(n + 1, end', prev', next', first', last')
  BY <1>1, <1>2, <1>3, <1>9, AppendChained
<1>11. Chained(wirecur' - 1, end', prev', next', first', last')
  BY <1>1, <1>10
<1>12. \A x \in Chip :
         Follow(n + 1, next', first'[x]) =
           IF x = d THEN Append(Follow(n, next, first[x]), n + 1) ELSE Follow(n, next, first[x])
  BY <1>1, <1>2, <1>3, <1>9, AppendWalk
<1>13. \A x \in Chip : EndingAt'[x] = IF x = d THEN Append(EndingAt[x], wirecur) ELSE EndingAt[x]
  <2>1. \A x \in Chip : EndingAt[x] = Follow(n, next, first[x])
    BY DEF EndingAt, n, next, first
  <2>2. \A x \in Chip : EndingAt'[x] = Follow(n + 1, next', first'[x])
    <3>1. \A x \in Chip : EndingAt'[x] = Follow(wirecur' - 1, next', first'[x])
      BY DEF EndingAt, next, first
    <3> QED BY <1>1, <3>1
  <2> QED BY <1>1, <1>12, <2>1, <2>2
<1>14. EndingAt' = [x \in Chip |-> EndingAt'[x]] /\ EndingAt = [x \in Chip |-> EndingAt[x]]
  BY DEF EndingAt
<1>15. EndingAt' = [EndingAt EXCEPT ![d] = Append(@, wirecur)]
  BY <1>13, <1>14
<1> QED BY <1>11, <1>15 DEF InChains, end, prev, next, first, last

(* In every reachable state orel0, oreln and the samesrc links thread exactly the
   relations that start at each chip, oldest first. *)
THEOREM OutChainsHold == Spec => []OutChains
<1>1. Init => OutChains
  BY DEF Init, OutChains, Chained, EndsOK, NextOK, PrevOK, Recs, NoHead
<1>2. TypeOK /\ OutChains /\ [Next]_vars => OutChains'
  <2> SUFFICES ASSUME TypeOK, OutChains, [Next]_vars PROVE OutChains'
    OBVIOUS
  <2>1. ASSUME NEW s \in Chip, NEW d \in Chip, relationcreate(s, d) PROVE OutChains'
    BY <2>1, CreateOut
  <2>2. CASE relation_stop
    BY <2>2 DEF relation_stop, OutChains, Recs
  <2>3. CASE Crash
    BY <2>3 DEF Crash, OutChains, Recs
  <2>4. CASE Restart
    BY <2>4 DEF Restart, OutChains, Chained, EndsOK, NextOK, PrevOK, Recs, NoHead
  <2>5. CASE UNCHANGED vars
    BY <2>5 DEF vars, OutChains, Recs
  <2> QED BY <2>1, <2>2, <2>3, <2>4, <2>5 DEF Next
<1> QED BY <1>1, <1>2, TypeCorrect, PTL DEF Spec

(* And irel0, ireln and the samedst links exactly those that end at each chip. *)
THEOREM InChainsHold == Spec => []InChains
<1>1. Init => InChains
  BY DEF Init, InChains, Chained, EndsOK, NextOK, PrevOK, Recs, NoHead
<1>2. TypeOK /\ InChains /\ [Next]_vars => InChains'
  <2> SUFFICES ASSUME TypeOK, InChains, [Next]_vars PROVE InChains'
    OBVIOUS
  <2>1. ASSUME NEW s \in Chip, NEW d \in Chip, relationcreate(s, d) PROVE InChains'
    BY <2>1, CreateIn
  <2>2. CASE relation_stop
    BY <2>2 DEF relation_stop, InChains, Recs
  <2>3. CASE Crash
    BY <2>3 DEF Crash, InChains, Recs
  <2>4. CASE Restart
    BY <2>4 DEF Restart, InChains, Chained, EndsOK, NextOK, PrevOK, Recs, NoHead
  <2>5. CASE UNCHANGED vars
    BY <2>5 DEF vars, InChains, Recs
  <2> QED BY <2>1, <2>2, <2>3, <2>4, <2>5 DEF Next
<1> QED BY <1>1, <1>2, TypeCorrect, PTL DEF Spec

----------------------------------------------------------------------------
(* What a growing buffer and a dying process leave alone. *)

\* relationcreate sets only forward links that were null.
LEMMA CreateKeeps ==
    ASSUME TypeOK, OutChains, InChains,
           NEW s \in Chip, NEW d \in Chip, relationcreate(s, d), NEW i \in Recs
    PROVE  /\ wirebuf'[i].src = wirebuf[i].src
           /\ wirebuf'[i].dst = wirebuf[i].dst
           /\ wirebuf'[i].samesrcprevdst = wirebuf[i].samesrcprevdst
           /\ wirebuf'[i].samedstprevsrc = wirebuf[i].samedstprevsrc
           /\ wirebuf[i].samesrcnextdst # 0 =>
                wirebuf'[i].samesrcnextdst = wirebuf[i].samesrcnextdst
           /\ wirebuf[i].samedstnextsrc # 0 =>
                wirebuf'[i].samedstnextsrc = wirebuf[i].samedstnextsrc
<1>1. Created(s, d)
  BY CreateFields
<1>2. i \in 1 .. wirecur - 1 /\ wirecur \in Nat
  BY DEF Recs, TypeOK
<1>3. i = head[s].oreln => wirebuf[i].samesrcnextdst = 0
  <2>1. \A j \in Recs : wirebuf[j].src = s => j <= head[s].oreln
    BY <1>2 DEF OutChains, Chained, EndsOK, Recs
  <2>2. i = head[s].oreln => wirebuf[i].src = s
    BY <1>2 DEF OutChains, Chained, EndsOK, Recs
  <2>3. wirebuf[i].samesrcnextdst = 0
        \/ /\ wirebuf[i].samesrcnextdst \in i + 1 .. wirecur - 1
           /\ wirebuf[wirebuf[i].samesrcnextdst].src = wirebuf[i].src
    <3> DEFINE n == wirecur - 1
               end == [j \in Recs |-> wirebuf[j].src]
               next == [j \in Recs |-> wirebuf[j].samesrcnextdst]
               last == [c \in Chip |-> head[c].oreln]
    <3>1. NextOK(n, end, next, last)
      BY DEF OutChains, Chained
    <3> HIDE DEF end, next, last
    <3>2. next[i] = 0 \/ (next[i] \in i + 1 .. n /\ end[next[i]] = end[i])
      BY <1>2, <3>1 DEF NextOK
    <3> QED BY <1>2, <3>2 DEF end, next, Recs
  <2> QED BY <1>2, <2>1, <2>2, <2>3 DEF Recs
<1>4. i = head[d].ireln => wirebuf[i].samedstnextsrc = 0
  <2>1. \A j \in Recs : wirebuf[j].dst = d => j <= head[d].ireln
    BY <1>2 DEF InChains, Chained, EndsOK, Recs
  <2>2. i = head[d].ireln => wirebuf[i].dst = d
    BY <1>2 DEF InChains, Chained, EndsOK, Recs
  <2>3. wirebuf[i].samedstnextsrc = 0
        \/ /\ wirebuf[i].samedstnextsrc \in i + 1 .. wirecur - 1
           /\ wirebuf[wirebuf[i].samedstnextsrc].dst = wirebuf[i].dst
    <3> DEFINE n == wirecur - 1
               end == [j \in Recs |-> wirebuf[j].dst]
               next == [j \in Recs |-> wirebuf[j].samedstnextsrc]
               last == [c \in Chip |-> head[c].ireln]
    <3>1. NextOK(n, end, next, last)
      BY DEF InChains, Chained
    <3> HIDE DEF end, next, last
    <3>2. next[i] = 0 \/ (next[i] \in i + 1 .. n /\ end[next[i]] = end[i])
      BY <1>2, <3>1 DEF NextOK
    <3> QED BY <1>2, <3>2 DEF end, next, Recs
  <2> QED BY <1>2, <2>1, <2>2, <2>3 DEF Recs
<1> QED BY <1>1, <1>2, <1>3, <1>4 DEF Created

(* A relation keeps its ends and its backward links, and a forward link once set
   is never redirected: relationcreate hangs a relation only behind the last. *)
THEOREM LinksAreSetOnce == Spec => LinksSetOnce
<1>1. TypeOK /\ OutChains /\ InChains /\ [Next]_vars =>
        [open /\ open' =>
           \A i \in Recs :
             /\ wirebuf'[i].src = wirebuf[i].src
             /\ wirebuf'[i].dst = wirebuf[i].dst
             /\ wirebuf'[i].samesrcprevdst = wirebuf[i].samesrcprevdst
             /\ wirebuf'[i].samedstprevsrc = wirebuf[i].samedstprevsrc
             /\ wirebuf[i].samesrcnextdst # 0 =>
                  wirebuf'[i].samesrcnextdst = wirebuf[i].samesrcnextdst
             /\ wirebuf[i].samedstnextsrc # 0 =>
                  wirebuf'[i].samedstnextsrc = wirebuf[i].samedstnextsrc]_vars
  <2> SUFFICES ASSUME TypeOK, OutChains, InChains, Next, open, open', NEW i \in Recs
               PROVE  /\ wirebuf'[i].src = wirebuf[i].src
                      /\ wirebuf'[i].dst = wirebuf[i].dst
                      /\ wirebuf'[i].samesrcprevdst = wirebuf[i].samesrcprevdst
                      /\ wirebuf'[i].samedstprevsrc = wirebuf[i].samedstprevsrc
                      /\ wirebuf[i].samesrcnextdst # 0 =>
                           wirebuf'[i].samesrcnextdst = wirebuf[i].samesrcnextdst
                      /\ wirebuf[i].samedstnextsrc # 0 =>
                           wirebuf'[i].samedstnextsrc = wirebuf[i].samedstnextsrc
    OBVIOUS
  <2>1. ASSUME NEW s \in Chip, NEW d \in Chip, relationcreate(s, d)
        PROVE  /\ wirebuf'[i].src = wirebuf[i].src
               /\ wirebuf'[i].dst = wirebuf[i].dst
               /\ wirebuf'[i].samesrcprevdst = wirebuf[i].samesrcprevdst
               /\ wirebuf'[i].samedstprevsrc = wirebuf[i].samedstprevsrc
               /\ wirebuf[i].samesrcnextdst # 0 =>
                    wirebuf'[i].samesrcnextdst = wirebuf[i].samesrcnextdst
               /\ wirebuf[i].samedstnextsrc # 0 =>
                    wirebuf'[i].samedstnextsrc = wirebuf[i].samedstnextsrc
    BY <2>1, CreateKeeps
  <2>2. ~relation_stop /\ ~Crash /\ ~Restart
    BY DEF relation_stop, Crash, Restart
  <2> QED BY <2>1, <2>2 DEF Next
<1> QED BY <1>1, TypeCorrect, OutChainsHold, InChainsHold, PTL DEF Spec, LinksSetOnce

(* Wherever the process dies, the file is a prefix of the relations in which each
   link is right or null. *)
THEOREM FileHoldsPrefix == Spec => []FileIsPrefix
<1>1. Init => FileIsPrefix
  BY DEF Init, FileIsPrefix, NoRel
<1>2. TypeOK /\ OutChains /\ InChains /\ FileIsPrefix /\ [Next]_vars => FileIsPrefix'
  <2> SUFFICES ASSUME TypeOK, OutChains, InChains, FileIsPrefix, [Next]_vars
               PROVE  FileIsPrefix'
    OBVIOUS
  <2>1. ASSUME NEW s \in Chip, NEW d \in Chip, relationcreate(s, d) PROVE FileIsPrefix'
    <3>1. DOMAIN wirebuf = Recs /\ \A i \in Recs : i \in Recs'
      BY <2>1 DEF TypeOK, relationcreate, Recs
    <3>2. wirefile' = wirebuf \/ wirefile' = wirefile
      BY <2>1 DEF relationcreate, Generate
    <3> SUFFICES ASSUME NEW i \in DOMAIN wirefile'
                 PROVE  /\ i \in Recs'
                        /\ wirefile'[i].src = wirebuf'[i].src
                        /\ wirefile'[i].dst = wirebuf'[i].dst
                        /\ wirefile'[i].samesrcprevdst = wirebuf'[i].samesrcprevdst
                        /\ wirefile'[i].samedstprevsrc = wirebuf'[i].samedstprevsrc
                        /\ wirefile'[i].samesrcnextdst \in {0, wirebuf'[i].samesrcnextdst}
                        /\ wirefile'[i].samedstnextsrc \in {0, wirebuf'[i].samedstnextsrc}
      BY DEF FileIsPrefix
    <3>3. /\ i \in Recs
          /\ wirefile'[i].src = wirebuf[i].src
          /\ wirefile'[i].dst = wirebuf[i].dst
          /\ wirefile'[i].samesrcprevdst = wirebuf[i].samesrcprevdst
          /\ wirefile'[i].samedstprevsrc = wirebuf[i].samedstprevsrc
          /\ wirefile'[i].samesrcnextdst \in {0, wirebuf[i].samesrcnextdst}
          /\ wirefile'[i].samedstnextsrc \in {0, wirebuf[i].samedstnextsrc}
      <4>1. CASE wirefile' = wirebuf
        BY <3>1, <4>1
      <4>2. CASE wirefile' = wirefile
        BY <4>2 DEF FileIsPrefix
      <4> QED BY <3>2, <4>1, <4>2
    <3>4. /\ wirebuf'[i].src = wirebuf[i].src
          /\ wirebuf'[i].dst = wirebuf[i].dst
          /\ wirebuf'[i].samesrcprevdst = wirebuf[i].samesrcprevdst
          /\ wirebuf'[i].samedstprevsrc = wirebuf[i].samedstprevsrc
          /\ wirebuf[i].samesrcnextdst # 0 =>
               wirebuf'[i].samesrcnextdst = wirebuf[i].samesrcnextdst
          /\ wirebuf[i].samedstnextsrc # 0 =>
               wirebuf'[i].samedstnextsrc = wirebuf[i].samedstnextsrc
      BY <2>1, <3>3, CreateKeeps
    <3> QED BY <3>1, <3>3, <3>4
  <2>2. CASE relation_stop
    <3>1. DOMAIN wirebuf = Recs /\ Recs' = Recs /\ wirebuf' = wirebuf /\ wirefile' = wirebuf
      BY <2>2 DEF relation_stop, TypeOK, Recs
    <3> QED BY <3>1 DEF FileIsPrefix
  <2>3. CASE Crash
    BY <2>3 DEF Crash, FileIsPrefix, Recs
  <2>4. CASE Restart
    BY <2>4 DEF Restart, FileIsPrefix, NoRel
  <2>5. CASE UNCHANGED vars
    BY <2>5 DEF vars, FileIsPrefix, Recs
  <2> QED BY <2>1, <2>2, <2>3, <2>4, <2>5 DEF Next
<1> QED BY <1>1, <1>2, TypeCorrect, OutChainsHold, InChainsHold, PTL DEF Spec

(* What a learning process keeps in memory, and relation_stop writes, is a store whose
   chains stay home: Route assumes of the stores it loads what is proved here of the
   ones that are made. *)
THEOREM StoresAreHome == Spec => []HomeChains(Chip, wirecur - 1, wirebuf, head)
<1>1. TypeOK /\ OutChains /\ InChains => HomeChains(Chip, wirecur - 1, wirebuf, head)
  <2> SUFFICES ASSUME TypeOK, OutChains, InChains
               PROVE  HomeChains(Chip, wirecur - 1, wirebuf, head)
    OBVIOUS
  <2> DEFINE n == wirecur - 1
  <2>1. /\ n \in Nat /\ Recs = 1 .. n
        /\ wirebuf \in [1 .. n -> LinkedRel(Chip, n)]
        /\ head \in [Chip -> [orel0: 0 .. n, oreln: 0 .. n, irel0: 0 .. n, ireln: 0 .. n]]
    <3>1. n \in Nat /\ Recs = 1 .. n
      BY DEF TypeOK, Recs
    <3>2. Rel(n) = LinkedRel(Chip, n)
      BY DEF Rel, LinkedRel
    <3>3. wirebuf \in [Recs -> Rel(n)] /\ head \in [Chip -> ChainEnds(n)]
      BY DEF TypeOK
    <3> QED BY <3>1, <3>2, <3>3 DEF ChainEnds
  <2>2. \A c \in Chip : /\ head[c].orel0 # 0 => wirebuf[head[c].orel0].src = c
                        /\ head[c].irel0 # 0 => wirebuf[head[c].irel0].dst = c
    BY <2>1 DEF OutChains, InChains, Chained, EndsOK
  <2>3. \A i \in 1 .. n :
          /\ wirebuf[i].samesrcnextdst # 0 =>
               /\ wirebuf[i].samesrcnextdst > i
               /\ wirebuf[wirebuf[i].samesrcnextdst].src = wirebuf[i].src
          /\ wirebuf[i].samedstnextsrc # 0 =>
               /\ wirebuf[i].samedstnextsrc > i
               /\ wirebuf[wirebuf[i].samedstnextsrc].dst = wirebuf[i].dst
    <3> HIDE DEF n
    <3>1. NextOK(n, [i \in 1 .. n |-> wirebuf[i].src],
                    [i \in 1 .. n |-> wirebuf[i].samesrcnextdst],
                    [c \in Chip |-> head[c].oreln])
      BY <2>1 DEF OutChains, Chained, n
    <3>2. NextOK(n, [i \in 1 .. n |-> wirebuf[i].dst],
                    [i \in 1 .. n |-> wirebuf[i].samedstnextsrc],
                    [c \in Chip |-> head[c].ireln])
      BY <2>1 DEF InChains, Chained, n
    <3>3. \A i \in 1 .. n : wirebuf[i].samesrcnextdst # 0 =>
               /\ wirebuf[i].samesrcnextdst > i
               /\ wirebuf[wirebuf[i].samesrcnextdst].src = wirebuf[i].src
      <4> SUFFICES ASSUME NEW i \in 1 .. n, wirebuf[i].samesrcnextdst # 0
                   PROVE  /\ wirebuf[i].samesrcnextdst > i
                          /\ wirebuf[wirebuf[i].samesrcnextdst].src = wirebuf[i].src
        OBVIOUS
      <4> DEFINE j == wirebuf[i].samesrcnextdst
      <4>1. /\ j \in i + 1 .. n
            /\ [k \in 1 .. n |-> wirebuf[k].src][j] = [k \in 1 .. n |-> wirebuf[k].src][i]
        BY <3>1 DEF NextOK
      <4>2. j \in 1 .. n /\ j > i
        BY <2>1, <4>1
      <4> HIDE DEF j
      <4>3. wirebuf[j].src = wirebuf[i].src
        BY <4>1, <4>2
      <4> QED BY <4>2, <4>3 DEF j
    <3>4. \A i \in 1 .. n : wirebuf[i].samedstnextsrc # 0 =>
               /\ wirebuf[i].samedstnextsrc > i
               /\ wirebuf[wirebuf[i].samedstnextsrc].dst = wirebuf[i].dst
      <4> SUFFICES ASSUME NEW i \in 1 .. n, wirebuf[i].samedstnextsrc # 0
                   PROVE  /\ wirebuf[i].samedstnextsrc > i
                          /\ wirebuf[wirebuf[i].samedstnextsrc].dst = wirebuf[i].dst
        OBVIOUS
      <4> DEFINE j == wirebuf[i].samedstnextsrc
      <4>1. /\ j \in i + 1 .. n
            /\ [k \in 1 .. n |-> wirebuf[k].dst][j] = [k \in 1 .. n |-> wirebuf[k].dst][i]
        BY <3>2 DEF NextOK
      <4>2. j \in 1 .. n /\ j > i
        BY <2>1, <4>1
      <4> HIDE DEF j
      <4>3. wirebuf[j].dst = wirebuf[i].dst
        BY <4>1, <4>2
      <4> QED BY <4>2, <4>3 DEF j
    <3> QED BY <3>3, <3>4
  <2> QED BY <2>1, <2>2, <2>3 DEF HomeChains
<1> QED BY <1>1, TypeCorrect, OutChainsHold, InChainsHold, PTL

\* A chain that threads every relation of an end: its first is no later than any of
\* them, and the next of one no later than any after it.
LEMMA ChainedWhole ==
    ASSUME NEW n \in Nat, NEW end \in [1 .. n -> Chip],
           NEW next, NEW first, NEW last, NEW i \in 1 .. n,
           EndsOK(n, end, first, last), NextOK(n, end, next, last)
    PROVE  /\ first[end[i]] \in 1 .. i
           /\ \A j \in i + 1 .. n : end[j] = end[i] => next[i] \in 1 .. j
<1>1. /\ first[end[i]] \in 1 .. n /\ last[end[i]] \in 1 .. n
      /\ \A j \in 1 .. n : end[j] = end[i] => first[end[i]] <= j /\ j <= last[end[i]]
  BY DEF EndsOK
<1>2. ASSUME NEW j \in i + 1 .. n, end[j] = end[i]  PROVE next[i] \in 1 .. j
  <2>1. j \in 1 .. n /\ j > i
    OBVIOUS
  <2>2. i # last[end[i]]
    BY <1>1, <1>2, <2>1
  <2>3. next[i] \in i + 1 .. n /\ \A k \in i + 1 .. next[i] - 1 : end[k] # end[i]
    BY <2>2 DEF NextOK
  <2> QED BY <1>2, <2>1, <2>3
<1> QED BY <1>1, <1>2

(* Nor does any of its chains leave a relation out, which is what Route needs for its
   search to be exact. *)
THEOREM StoresAreWhole == Spec => []WholeChains(wirecur - 1, wirebuf, head)
<1>1. TypeOK /\ OutChains /\ InChains => WholeChains(wirecur - 1, wirebuf, head)
  <2> SUFFICES ASSUME TypeOK, OutChains, InChains
               PROVE  WholeChains(wirecur - 1, wirebuf, head)
    OBVIOUS
  <2> DEFINE n == wirecur - 1
             src == [i \in 1 .. n |-> wirebuf[i].src]
             dst == [i \in 1 .. n |-> wirebuf[i].dst]
             out == [i \in 1 .. n |-> wirebuf[i].samesrcnextdst]
             in == [i \in 1 .. n |-> wirebuf[i].samedstnextsrc]
             orel0 == [c \in Chip |-> head[c].orel0]
             irel0 == [c \in Chip |-> head[c].irel0]
  <2>1. /\ n \in Nat /\ Recs = 1 .. n
        /\ src \in [1 .. n -> Chip] /\ dst \in [1 .. n -> Chip]
    <3>1. n \in Nat /\ Recs = 1 .. n
      BY DEF TypeOK, Recs
    <3>2. wirebuf \in [1 .. n -> Rel(n)]
      BY <3>1 DEF TypeOK
    <3> QED BY <3>1, <3>2 DEF Rel
  <2>2. /\ EndsOK(n, src, orel0, [c \in Chip |-> head[c].oreln])
        /\ NextOK(n, src, out, [c \in Chip |-> head[c].oreln])
        /\ EndsOK(n, dst, irel0, [c \in Chip |-> head[c].ireln])
        /\ NextOK(n, dst, in, [c \in Chip |-> head[c].ireln])
    BY <2>1 DEF OutChains, InChains, Chained
  <2>3. \A i \in 1 .. n : /\ src[i] = wirebuf[i].src /\ dst[i] = wirebuf[i].dst
                          /\ out[i] = wirebuf[i].samesrcnextdst
                          /\ in[i] = wirebuf[i].samedstnextsrc
    OBVIOUS
  <2>4. \A c \in Chip : orel0[c] = head[c].orel0 /\ irel0[c] = head[c].irel0
    OBVIOUS
  <2>5. \A i, j \in 1 .. n : src[i] \in Chip /\ dst[i] \in Chip
    BY <2>1
  <2> HIDE DEF n, src, dst, out, in, orel0, irel0
  <2> SUFFICES ASSUME NEW i \in 1 .. n
               PROVE  /\ head[wirebuf[i].src].orel0 \in 1 .. i
                      /\ head[wirebuf[i].dst].irel0 \in 1 .. i
                      /\ \A j \in i + 1 .. n :
                           /\ wirebuf[j].src = wirebuf[i].src
                                => wirebuf[i].samesrcnextdst \in 1 .. j
                           /\ wirebuf[j].dst = wirebuf[i].dst
                                => wirebuf[i].samedstnextsrc \in 1 .. j
    BY Zenon DEF WholeChains, n
  <2>6. /\ orel0[src[i]] \in 1 .. i
        /\ \A j \in i + 1 .. n : src[j] = src[i] => out[i] \in 1 .. j
    BY <2>1, <2>2, ChainedWhole
  <2>7. /\ irel0[dst[i]] \in 1 .. i
        /\ \A j \in i + 1 .. n : dst[j] = dst[i] => in[i] \in 1 .. j
    BY <2>1, <2>2, ChainedWhole
  <2>8. \A j \in i + 1 .. n : j \in 1 .. n
    BY <2>1
  <2> QED BY <2>3, <2>4, <2>5, <2>6, <2>7, <2>8
<1> QED BY <1>1, TypeCorrect, OutChainsHold, InChainsHold, PTL

----------------------------------------------------------------------------
(* The store implements RelLog. *)

(* In a store without relations every walk is empty. *)
LEMMA NothingWalked ==
    ASSUME wirecur = 1, head = [c \in Chip |-> NoHead]
    PROVE  StartingAt = [c \in Chip |-> << >>] /\ EndingAt = [c \in Chip |-> << >>]
<1>1. \A link : Follow(0, link, 0) = << >>
  <2> SUFFICES ASSUME NEW link PROVE Follow(0, link, 0) = << >>
    OBVIOUS
  <2>1. 0 \in Nat /\ NextUp(0, link)
    BY DEF NextUp
  <2>2. PICK g \in [0 .. 0 -> Seq(Nat)] : FollowIs(g, 0, link)
    BY <2>1, FollowWalks
  <2> QED BY <2>2 DEF FollowIs
<1>2. wirecur - 1 = 0 /\ \A c \in Chip : head[c].orel0 = 0 /\ head[c].irel0 = 0
  BY DEF NoHead
<1> QED BY <1>1, <1>2 DEF StartingAt, EndingAt

(* The same of the state after a step. *)
LEMMA NothingWalkedNext ==
    ASSUME wirecur' = 1, head' = [c \in Chip |-> NoHead]
    PROVE  StartingAt' = [c \in Chip |-> << >>] /\ EndingAt' = [c \in Chip |-> << >>]
<1>1. \A link : Follow(0, link, 0) = << >>
  <2> SUFFICES ASSUME NEW link PROVE Follow(0, link, 0) = << >>
    OBVIOUS
  <2>1. 0 \in Nat /\ NextUp(0, link)
    BY DEF NextUp
  <2>2. PICK g \in [0 .. 0 -> Seq(Nat)] : FollowIs(g, 0, link)
    BY <2>1, FollowWalks
  <2> QED BY <2>2 DEF FollowIs
<1>2. wirecur' - 1 = 0 /\ \A c \in Chip : head'[c].orel0 = 0 /\ head'[c].irel0 = 0
  BY DEF NoHead
<1> QED BY <1>1, <1>2 DEF StartingAt, EndingAt

(* Every relationcreate appends the relation to the log of its source and to that of its
   destination, a restart empties all logs, and growth, stop and crash are not seen. *)
LEMMA LogStep ==
    ASSUME TypeOK, OutChains, InChains, [Next]_vars
    PROVE  [Log!Next]_<<wirecur - 1, StartingAt, EndingAt>>
<1>1. ASSUME NEW s \in Chip, NEW d \in Chip, relationcreate(s, d) PROVE Log!Create(s, d)
  <2>1. StartingAt' = [StartingAt EXCEPT ![s] = Append(@, wirecur)]
    BY <1>1, CreateOut
  <2>2. EndingAt' = [EndingAt EXCEPT ![d] = Append(@, wirecur)]
    BY <1>1, CreateIn
  <2>3. (wirecur - 1) + 1 = wirecur /\ wirecur' - 1 = wirecur
    BY <1>1 DEF TypeOK, relationcreate
  <2> QED BY <2>1, <2>2, <2>3 DEF Log!Create
<1>2. CASE Restart
  <2>1. wirecur' = 1 /\ head' = [c \in Chip |-> NoHead]
    BY <1>2 DEF Restart
  <2>2. wirecur' - 1 = 0
    BY <2>1
  <2> QED BY <2>1, <2>2, NothingWalkedNext DEF Log!Next, Log!Reset
<1>3. CASE relation_stop \/ Crash \/ UNCHANGED vars
  <2>1. UNCHANGED <<wirebuf, wirecur, head>>
    BY <1>3 DEF relation_stop, Crash, vars
  <2>2. Recs' = Recs
    BY <2>1 DEF Recs
  <2>3. StartingAt' = StartingAt /\ EndingAt' = EndingAt /\ wirecur' - 1 = wirecur - 1
    BY <2>1, <2>2 DEF StartingAt, EndingAt
  <2> QED BY <2>3
<1> QED BY <1>1, <1>2, <1>3 DEF Next, Log!Next

(* The walk from either end of a chip lists, at every moment, exactly the relations the
   abstract store logged there, in the order they were made. *)
THEOREM StoreIsLog == Spec => ImplementsLog
<1>1. Init => Log!Init
  BY NothingWalked DEF Init, Log!Init
<1> QED BY <1>1, LogStep, TypeCorrect, OutChainsHold, InChainsHold, PTL DEF Spec, ImplementsLog, Log!Spec

-----------------------------------------------------------------------------
(* The parsers of characters. *)

\* The modes between two steps, and the places of the rules.
Modes == {"code", "slash", "line", "line_bs", "block", "star", "str", "chr"}
Spot == [mode : Modes \cup {"spliced", "str_bs", "chr_bs"}, depth : Int]
\* The names that may be reported, and the static variables.
Told == {"whole", "cut_by_colon", "cut_by_directive", "glued"}
Flags == [infunc : Nat, inmarco : BOOLEAN, innote : {0, 1, 9}, instr : BOOLEAN,
          chance : BOOLEAN, roundbracket : Int, prophet : Told \cup {None},
          insist : Told \cup {None}, doubt : {"", "blank", "colon"}]

\* A word in the making is open, one that has ended in doubt.
WordsOK ==
    /\ at \in Flags /\ win \in Seq(Char)
    /\ at.prophet = None => at.doubt # "blank"
    /\ before = "blank" => at.prophet = None \/ at.doubt # ""
    /\ before = "w" => at.prophet # None /\ at.doubt # "blank"
    /\ told.as \in {"func", "call"} => told.name \in Told
    /\ wk # "c" => at.infunc = 0

\* The mode between two steps: what a star or a slash may still become is looked at.
PlaceOK ==
    /\ ref \in Spot /\ ref.mode \in Modes
    /\ ref.mode = "star" => win # << >> /\ win[1] # "/"
    /\ ref.mode = "slash" => win # << >> /\ win[1] \notin {"/", "*"}
    /\ ref.mode = "line_bs" => before = "bsbs"
    /\ at.innote = CASE ref.mode \in {"line", "line_bs"} -> 1 [] InBlock -> 9 [] OTHER -> 0
    /\ at.instr <=> ref.mode = "str"
    /\ at.infunc = ref.depth

\* A parser of characters is at work.
Going == wk \in {"c", "java"} /\ pc = "read"

\* The inductive invariant of the parsers of characters.
LexInv == WordsOK /\ (pc = "read" \/ wk \notin {"c", "java"} => PlaceOK) /\ LexedAsC

\* Where the flags and the rules agree, the property holds.
LEMMA PlaceTells ==
    /\ PlaceOK => LexedAsC
    /\ PlaceOK' \/ pc' = "slipped" => LexedAsC'
  BY DEF PlaceOK, LexedAsC

\* The flags, one by one.
LEMMA FlagsAre ==
    ASSUME NEW a \in Flags
    PROVE  /\ a.infunc \in Nat /\ a.innote \in {0, 1, 9} /\ a.roundbracket \in Int
           /\ a.prophet \in Told \cup {None} /\ a.insist \in Told \cup {None}
           /\ a.doubt \in {"", "blank", "colon"}
  BY Zenon DEF Flags

\* One character as a sequence.
LEMMA SingleIs ==
    ASSUME NEW ch \in Char
    PROVE  <<ch>> \in Seq(Char) /\ Len(<<ch>>) = 1 /\ <<ch>>[1] = ch
  OBVIOUS

\* The rules of the language lead from a place to a place.
LEMMA LexedIs ==
    ASSUME NEW r \in Spot, NEW ch \in Char
    PROVE  Lexed(r, ch) \in Spot
  <1> DEFINE M == Modes \cup {"spliced", "str_bs", "chr_bs"}
  <1>1. \A m \in M : Into(r, m) \in Spot
    BY DEF Spot, Into
  <1>2. InCode(r, ch) \in Spot
    <2>1. [mode |-> "code", depth |-> r.depth + 1] \in Spot /\ [mode |-> "code", depth |-> r.depth - 1] \in Spot
      <3>1. r.depth \in Int  BY DEF Spot
      <3>2. r.depth + 1 \in Int /\ r.depth - 1 \in Int  BY <3>1
      <3> QED  BY <3>2 DEF Spot, Modes
    <2> QED  BY <1>1, <2>1 DEF Modes, InCode
  <1>3. r.mode \in M
    BY DEF Spot
  <1>4. Lexed(r, ch) \in {InCode(r, ch), r} \cup {Into(r, m) : m \in M}
    <2> SUFFICES ASSUME Lexed(r, ch) # InCode(r, ch), Lexed(r, ch) # r
                 PROVE  \E m \in M : Lexed(r, ch) = Into(r, m)
      OBVIOUS
    <2> QED
      BY <1>3 DEF Lexed, Modes
  <1> QED  BY <1>1, <1>2, <1>4

\* What the rules make of up to three characters.
LEMMA BeyondIs ==
    ASSUME ref \in Spot, NEW e \in Seq(Char), Len(e) \in 1 .. 3
    PROVE  /\ Len(e) = 1 => Beyond(e) = Lexed(ref, e[1])
           /\ Len(e) = 2 => Beyond(e) = Lexed(Lexed(ref, e[1]), e[2])
           /\ Len(e) = 3 => Beyond(e) = Lexed(Lexed(Lexed(ref, e[1]), e[2]), e[3])
           /\ Beyond(e) \in Spot
  <1> DEFINE N == Len(e)
             E == [i \in 1 .. N |-> [x \in Spot |-> Lexed(x, e[i])]]
             F(g) == g = [i \in 0 .. N |-> IF i = 0 THEN ref ELSE Lexed(g[i - 1], e[i])]
             r == CHOOSE g : F(g)
  <1>1. N \in 1 .. 3 /\ \A i \in 1 .. N : e[i] \in Char
    OBVIOUS
  <1>2. E \in [1 .. N -> [Spot -> Spot]]
    BY <1>1, LexedIs
  <1>3. PICK g \in [0 .. N -> Spot] : Recurs(g, N, ref, E)
    <2> HIDE DEF E, N
    <2>1. N \in Nat  BY <1>1
    <2> QED  BY <2>1, <1>2, RecursionDefines
  <1>4. \A i \in 0 .. N : g[i] = IF i = 0 THEN ref ELSE Lexed(g[i - 1], e[i])
    <2> SUFFICES ASSUME NEW i \in 0 .. N
                 PROVE  g[i] = IF i = 0 THEN ref ELSE Lexed(g[i - 1], e[i])
      OBVIOUS
    <2>1. g[i] = IF i = 0 THEN ref ELSE E[i][g[i - 1]]
      <3> HIDE DEF E
      <3> QED  BY <1>3 DEF Recurs
    <2>2. CASE i = 0
      BY <2>1, <2>2
    <2>3. CASE i # 0
      <3>1. i \in 1 .. N /\ i - 1 \in 0 .. N
        BY <2>3, <1>1
      <3>2. g[i - 1] \in Spot
        BY <3>1
      <3> QED  BY <2>1, <2>3, <3>1, <3>2
    <2> QED  BY <2>2, <2>3
  <1>5. F(g)
    <2> HIDE DEF N, E
    <2>1. g = [i \in 0 .. N |-> g[i]]
      OBVIOUS
    <2> QED  BY <1>4, <2>1, Zenon
  <1>6. F(r)
    <2> HIDE DEF F
    <2> QED  BY <1>5
  <1>7. Beyond(e) = r[N]
    BY DEF Beyond
  <1>8. r \in [0 .. N -> Spot] /\ \A i \in 0 .. N : r[i] = IF i = 0 THEN ref ELSE Lexed(r[i - 1], e[i])
    <2> HIDE DEF r, N
    <2>1. \A i \in 0 .. N : r[i] = IF i = 0 THEN ref ELSE Lexed(r[i - 1], e[i])
      BY <1>6
    <2>2. N \in Nat  BY <1>1
    <2> DEFINE T == {i \in 0 .. N : r[i] \in Spot}
    <2>3. 0 \in T  BY <2>1, <2>2
    <2>4. \A n \in 0 .. N - 1 : n \in T => n + 1 \in T
      <3> SUFFICES ASSUME NEW n \in 0 .. N - 1, n \in T
                   PROVE  n + 1 \in T
        OBVIOUS
      <3>1. r[n + 1] = Lexed(r[n], e[n + 1]) /\ n + 1 \in 1 .. N
        BY <2>1, <2>2
      <3> QED  BY <3>1, <1>1, LexedIs
    <2> HIDE DEF T
    <2>5. \A n \in 0 .. N : n \in T
      BY <2>2, <2>3, <2>4, InductionUpTo
    <2>6. \A i \in 0 .. N : r[i] \in Spot
      BY <2>5 DEF T
    <2> QED  BY <2>1, <2>6, <1>6
  <1> HIDE DEF r
  <1>9. r[0] = ref /\ r[1] = Lexed(ref, e[1]) /\ r[N] \in Spot
    BY <1>1, <1>8
  <1>10. N >= 2 => r[2] = Lexed(r[1], e[2])
    BY <1>1, <1>8
  <1>11. N >= 3 => r[3] = Lexed(r[2], e[3])
    BY <1>1, <1>8
  <1> QED  BY <1>1, <1>7, <1>9, <1>10, <1>11

\* What the rules make of a character of code; a slash that begins no comment is code.
LEMMA LexedInCode ==
    ASSUME NEW r \in Spot, NEW ch \in Char,
           r.mode = "code" \/ (r.mode = "slash" /\ ch \notin {"/", "*"})
    PROVE  /\ Lexed(r, ch).mode = CASE ch = "/" -> "slash" [] ch = "dq" -> "str"
                                    [] ch = "sq" -> "chr" [] ch = "bs" -> "spliced"
                                    [] OTHER -> "code"
           /\ Lexed(r, ch).depth = CASE ch = "open" -> r.depth + 1 [] ch = "close" -> r.depth - 1
                                     [] OTHER -> r.depth
  <1>1. Lexed(r, ch) = InCode(r, ch)
    BY DEF Lexed
  <1> QED  BY <1>1 DEF InCode, Into, Spot

\* What they make of one in a comment, in quotes, or behind a backslash: the depth stays.
LEMMA LexedInText ==
    ASSUME NEW r \in Spot, NEW ch \in Char, r.mode # "code",
           r.mode = "slash" => ch \in {"/", "*"}
    PROVE  /\ Lexed(r, ch).mode =
                CASE r.mode = "slash" /\ ch = "/" -> "line"
                  [] r.mode = "slash" /\ ch = "*" -> "block"
                  [] r.mode = "spliced" -> "code"
                  [] r.mode = "line" -> (CASE ch = "nl" -> "code" [] ch = "bs" -> "line_bs" [] OTHER -> "line")
                  [] r.mode = "line_bs" -> (IF ch = "bs" THEN "line_bs" ELSE "line")
                  [] r.mode \in {"block", "star"} ->
                       (CASE ch = "*" -> "star" [] ch = "/" /\ r.mode = "star" -> "code" [] OTHER -> "block")
                  [] r.mode = "str" -> (CASE ch \in {"dq", "nl"} -> "code" [] ch = "bs" -> "str_bs" [] OTHER -> "str")
                  [] r.mode = "str_bs" -> "str"
                  [] r.mode = "chr" -> (CASE ch \in {"sq", "nl"} -> "code" [] ch = "bs" -> "chr_bs" [] OTHER -> "chr")
                  [] r.mode = "chr_bs" -> "chr"
           /\ Lexed(r, ch).depth = r.depth
  <1>1. r.mode \in {"spliced", "slash", "line", "line_bs", "block", "star", "str", "str_bs", "chr", "chr_bs"}
    BY DEF Spot, Modes
  <1>2. \A m : Into(r, m).mode = m /\ Into(r, m).depth = r.depth
    BY DEF Spot, Into
  <1> QED  BY <1>1, <1>2 DEF Lexed

\* What the window of a step begins with.
LEMMA AheadIs ==
    ASSUME win \in Seq(Char), NEW ch \in Char, NEW n \in 1 .. 3, NEW t \in Ahead(ch, n)
    PROVE  t \in Seq(Char) /\ Len(t) >= n /\ t[1] = ch /\ (win # << >> => win[1] = ch)
  <1> DEFINE known == IF win = << >> THEN <<ch>> ELSE win
             more == n - Len(known)
  <1>1. known \in Seq(Char) /\ Len(known) >= 1 /\ more \in Int
    OBVIOUS
  <1>2. known[1] = ch
    BY DEF Ahead
  <1>3. CASE more <= 0
    <2>1. t = known
      BY <1>2, <1>3 DEF Ahead
    <2> QED  BY <2>1, <1>1, <1>2, <1>3
  <1>4. CASE ~(more <= 0)
    <2>1. PICK s \in [1 .. more -> Char] : t = known \o s
      BY <1>2, <1>4 DEF Ahead
    <2>2. s \in Seq(Char) /\ Len(s) = more
      BY <1>1, <1>4
    <2> HIDE DEF known
    <2>3. t \in Seq(Char) /\ Len(t) = Len(known) + more /\ t[1] = known[1]
      BY <1>1, <2>1, <2>2
    <2>4. win # << >> => win[1] = ch
      BY <1>2 DEF known
    <2> QED  BY <2>3, <2>4, <1>1, <1>2
  <1> QED  BY <1>3, <1>4

\* The first k characters of a window, and the rest.
LEMMA CutIs ==
    ASSUME NEW t \in Seq(Char), NEW k \in 1 .. Len(t)
    PROVE  /\ SubSeq(t, 1, k) \in Seq(Char) /\ Len(SubSeq(t, 1, k)) = k
           /\ \A i \in 1 .. k : SubSeq(t, 1, k)[i] = t[i]
           /\ SubSeq(t, k + 1, Len(t)) \in Seq(Char)
           /\ k < Len(t) => /\ SubSeq(t, k + 1, Len(t)) # << >>
                           /\ SubSeq(t, k + 1, Len(t))[1] = t[k + 1]
           /\ Tail(t) \in Seq(Char)
  <1>1. \A i \in 1 .. Len(t) : t[i] \in Char
    OBVIOUS
  <1>2. SubSeq(t, 1, k) \in Seq(Char) /\ Len(SubSeq(t, 1, k)) = k
        /\ \A i \in 1 .. k : SubSeq(t, 1, k)[i] = t[i]
    BY <1>1, SubSeqProperties
  <1>3. SubSeq(t, k + 1, Len(t)) \in Seq(Char)
    BY <1>1, SubSeqProperties
  <1>4. k < Len(t) => /\ SubSeq(t, k + 1, Len(t)) # << >>
                      /\ SubSeq(t, k + 1, Len(t))[1] = t[k + 1]
    <2> SUFFICES ASSUME k < Len(t)
                 PROVE  SubSeq(t, k + 1, Len(t)) # << >> /\ SubSeq(t, k + 1, Len(t))[1] = t[k + 1]
      OBVIOUS
    <2>1. Len(SubSeq(t, k + 1, Len(t))) = Len(t) - k
      BY SubSeqProperties
    <2>2. SubSeq(t, k + 1, Len(t))[1] = t[k + 1]
      BY <2>1, SubSeqProperties
    <2>3. SubSeq(t, k + 1, Len(t)) # << >>
      <3>1. Len(t) - k # 0 /\ Len(<< >>) = 0
        OBVIOUS
      <3> QED  BY ONLY <2>1, <3>1
    <2> QED  BY <2>2, <2>3
  <1>5. Tail(t) \in Seq(Char)
    OBVIOUS
  <1> QED  BY <1>2, <1>3, <1>4, <1>5

\* What a round does to the variables.
LEMMA RoundIs ==
    ASSUME WordsOK, PlaceOK, NEW a \in Flags, NEW e \in Seq(Char), Len(e) \in 1 .. 3,
           NEW rest \in Seq(Char), NEW what, NEW as, Round(a, e, rest, what, as)
    PROVE  /\ wk' = wk /\ at' = a /\ win' = rest /\ before' = what /\ told' \in as
           /\ ref \in Spot /\ Beyond(e) \in Spot
           /\ ref' \in Spot /\ ref'.mode = Beyond(e).mode
           /\ ref'.depth = IF at.infunc = 0 THEN a.infunc ELSE Beyond(e).depth
           /\ pc' # "slipped" => ~Slips(e)
  <1>1. ref' = IF at.infunc = 0 THEN [Beyond(e) EXCEPT !.depth = a.infunc] ELSE Beyond(e)
    BY DEF Round
  <1>2. ref \in Spot
    BY DEF PlaceOK
  <1>3. Beyond(e) \in Spot
    BY <1>2, BeyondIs
  <1>4. ref' \in Spot /\ ref'.mode = Beyond(e).mode /\ ref'.depth = IF at.infunc = 0 THEN a.infunc ELSE Beyond(e).depth
    <2>1. a.infunc \in Nat
      BY FlagsAre, Zenon
    <2>2. [Beyond(e) EXCEPT !.depth = a.infunc] \in Spot
      BY ONLY <1>3, <2>1 DEF Spot
    <2>3. [Beyond(e) EXCEPT !.depth = a.infunc].depth = a.infunc
          /\ [Beyond(e) EXCEPT !.depth = a.infunc].mode = Beyond(e).mode
      BY ONLY <1>3 DEF Spot
    <2> QED  BY ONLY <1>1, <1>3, <2>2, <2>3
  <1>5. pc' # "slipped" => ~Slips(e)
    BY DEF Round
  <1> QED  BY <1>2, <1>3, <1>4, <1>5 DEF Round

\* A step that takes one character and leaves the flags of comments and strings.
LEMMA OneHolds ==
    ASSUME WordsOK, PlaceOK, NEW a \in Flags, NEW ch \in Char,
           NEW rest \in Seq(Char), NEW what, NEW as, Round(a, <<ch>>, rest, what, as),
           win # << >> /\ ch \in {"/", "*"} => win[1] = ch,
           ch \notin {"nl", "bs", "eof"}, ch = "dq" => at.innote > 0,
           a.innote = at.innote, a.instr = at.instr,
           ch = "/" /\ ~InText => rest # << >> /\ rest[1] \notin {"/", "*"},
           ch = "*" /\ at.innote = 9 => rest # << >> /\ rest[1] # "/",
           at.infunc # 0 => a.infunc = CASE ch = "open" /\ ~InText -> at.infunc + 1
                                         [] ch = "close" /\ ~InText -> at.infunc - 1
                                         [] OTHER -> at.infunc
    PROVE  pc' # "slipped" => PlaceOK'
  <1> SUFFICES ASSUME pc' # "slipped"  PROVE PlaceOK'
    OBVIOUS
  <1> DEFINE e == <<ch>>
             m == ref.mode
             n == Lexed(ref, ch).mode
  <1>0. e \in Seq(Char) /\ Len(e) = 1 /\ e[1] = ch
    BY SingleIs
  <1>1. /\ at' = a /\ win' = rest /\ before' = what
        /\ ref \in Spot /\ Lexed(ref, ch) \in Spot /\ ref' \in Spot /\ ref'.mode = n
        /\ ref'.depth = IF at.infunc = 0 THEN a.infunc ELSE Lexed(ref, ch).depth
        /\ ~Slips(e)
    <2> HIDE DEF e
    <2>1. ref \in Spot
      BY DEF PlaceOK
    <2>3. Len(e) \in 1 .. 3
      BY ONLY <1>0
    <2>2. Beyond(e) = Lexed(ref, ch)
      BY ONLY <1>0, <2>1, <2>3, BeyondIs
    <2>4. Round(a, e, rest, what, as) BY DEF e
    <2> QED  BY <1>0, <2>1, <2>2, <2>3, <2>4, RoundIs, LexedIs
  <1>2. /\ m \in Modes /\ (m = "star" => win[1] # "/" /\ win # << >>)
        /\ (m = "slash" => win[1] \notin {"/", "*"} /\ win # << >>)
        /\ at.innote = CASE m \in {"line", "line_bs"} -> 1 [] m \in {"block", "star"} -> 9 [] OTHER -> 0
        /\ at.instr <=> m = "str"
        /\ at.infunc = ref.depth
    BY DEF PlaceOK, InBlock
  <1>3. a.infunc \in Nat /\ at.infunc \in Nat
    BY FlagsAre, Zenon DEF WordsOK
  <1>13. InText <=> m \in {"line", "line_bs", "block", "star", "str"}
    <2> HIDE DEF m
    <2>1. /\ at.innote = CASE m \in {"line", "line_bs"} -> 1 [] m \in {"block", "star"} -> 9 [] OTHER -> 0
          /\ at.instr <=> m = "str"
      BY <1>2
    <2>2. at.innote > 0 <=> m \in {"line", "line_bs", "block", "star"}
      BY ONLY <2>1
    <2>3. InText <=> m \in {"line", "line_bs", "block", "star"} \/ m = "str"
      BY ONLY <2>1, <2>2, Zenon DEF InText
    <2> QED  BY ONLY <2>3
  <1>4. /\ n = "star" => rest # << >> /\ rest[1] # "/"
        /\ n = "slash" => rest # << >> /\ rest[1] \notin {"/", "*"}
        /\ n \in Modes /\ n # "line_bs"
        /\ at.innote = CASE n \in {"line", "line_bs"} -> 1 [] n \in {"block", "star"} -> 9 [] OTHER -> 0
        /\ at.instr <=> n = "str"
        /\ at.infunc # 0 => a.infunc = Lexed(ref, ch).depth
    <2>1. CASE m \in {"code", "slash"}
      <3>1. m = "code" \/ (m = "slash" /\ ch \notin {"/", "*"})
        BY <1>2, <2>1
      <3>2. ~InText /\ at.innote = 0
        BY ONLY <1>2, <1>13, <2>1
      <3>3. /\ n = CASE ch = "/" -> "slash" [] ch = "sq" -> "chr" [] OTHER -> "code"
            /\ Lexed(ref, ch).depth = CASE ch = "open" -> ref.depth + 1 [] ch = "close" -> ref.depth - 1
                                     [] OTHER -> ref.depth
        <4> HIDE DEF e
        <4>1. ref \in Spot  BY <1>1
        <4> QED  BY ONLY <3>1, <4>1, ch \in Char, ch \notin {"nl", "bs", "eof"}, <3>2, ch = "dq" => at.innote > 0, LexedInCode
      <3> HIDE DEF n
      <3> QED  BY <1>2, <1>3, <2>1, <3>2, <3>3 DEF Modes
    <2>2. CASE m \in {"line", "line_bs", "block", "star", "str", "chr"}
      <3>1. Lexed(ref, ch).depth = ref.depth
        BY <1>1, <2>2, LexedInText
      <3>2. n = CASE m \in {"line", "line_bs"} -> "line"
                  [] m \in {"block", "star"} -> (IF ch = "*" THEN "star" ELSE "block")
                  [] m = "str" -> "str"
                  [] m = "chr" -> (IF ch = "sq" THEN "code" ELSE "chr")
        <4>1. m = "star" => ch # "/"
          BY <1>2
        <4>2. m = "str" => ch # "dq"
          BY <1>2
        <4> QED  BY <1>1, <2>2, <4>1, <4>2, LexedInText
      <3>3. m = "chr" => ch = "sq"
        BY <1>0, <1>1 DEF Slips
      <3>4. m # "chr" => InText
        BY <1>13, <2>2
      <3> HIDE DEF n
      <3> QED  BY <1>2, <1>3, <2>2, <3>1, <3>2, <3>3, <3>4 DEF Modes
    <2> QED  BY <1>2, <2>1, <2>2 DEF Modes
  <1>5. a.infunc = ref'.depth
    BY <1>1, <1>4
  <1> HIDE DEF n
  <1> QED  BY <1>1, <1>4, <1>5 DEF PlaceOK, InBlock

\* What a step may leave behind of the words.
WordsFit(a, what, as) ==
    /\ a \in Flags
    /\ a.prophet = None => a.doubt # "blank"
    /\ what = "blank" => a.prophet = None \/ a.doubt # ""
    /\ what = "w" => a.prophet # None /\ a.doubt # "blank"
    /\ \A n \in as : n.as \in {"func", "call"} => n.name \in Told
    /\ wk # "c" => a.infunc = 0

\* A step that reports nothing reports no name.
LEMMA QuietIs == \A n \in {Nobody} : n.as \in {"func", "call"} => n.name \in Told
  <1>1. Nobody.as = ""
    BY DEF Nobody
  <1> QED  BY <1>1

\* It keeps them.
LEMMA WordsKeep ==
    ASSUME NEW a, NEW e, NEW rest \in Seq(Char), NEW what, NEW as,
           WordsFit(a, what, as), Round(a, e, rest, what, as)
    PROVE  WordsOK'
  <1>1. at' = a /\ win' = rest /\ before' = what /\ told' \in as /\ wk' = wk
    BY DEF Round
  <1> QED  BY <1>1 DEF WordsFit, WordsOK

\* What a step on one character may do to the flags.
OneFits(a, ch, rest) ==
    /\ ch \notin {"nl", "bs", "eof"} /\ (ch = "dq" => at.innote > 0)
    /\ a.innote = at.innote /\ a.instr = at.instr
    /\ ch = "/" /\ ~InText => rest # << >> /\ rest[1] \notin {"/", "*"}
    /\ ch = "*" /\ at.innote = 9 => rest # << >> /\ rest[1] # "/"
    /\ at.infunc # 0 => a.infunc = CASE ch = "open" /\ ~InText -> at.infunc + 1
                                     [] ch = "close" /\ ~InText -> at.infunc - 1
                                     [] OTHER -> at.infunc

\* A round that takes one character, when the flags follow the rules, keeps the invariant.
LEMMA RoundOne ==
    ASSUME LexInv, Going, NEW ch \in Char, win # << >> /\ ch \in {"/", "*"} => win[1] = ch,
           NEW a, NEW rest \in Seq(Char), NEW what, NEW as,
           WordsFit(a, what, as), OneFits(a, ch, rest), Round(a, <<ch>>, rest, what, as)
    PROVE  LexInv'
  <1>1. WordsOK /\ PlaceOK
    BY DEF LexInv, Going
  <1>2. WordsOK'
    BY WordsKeep
  <1>4. a \in Flags
    BY DEF WordsFit
  <1>5. pc' # "slipped" => PlaceOK'
    BY <1>1, <1>4, OneHolds DEF OneFits
  <1>6. wk' = wk
    BY DEF Round
  <1> QED  BY <1>2, <1>5, <1>6, PlaceTells DEF LexInv, Going

\* The same, when what was looked at behind the character is left as it is.
LEMMA TakenOne ==
    ASSUME LexInv, Going, NEW ch \in Char, NEW n \in 1 .. 3, NEW t \in Ahead(ch, n), NEW a,
           WordsFit(a, "mark", {Nobody}), OneFits(a, ch, SubSeq(t, 2, Len(t))), Taken(a, t, 1)
    PROVE  LexInv'
  <1> DEFINE e == SubSeq(t, 1, 1)
             rest == SubSeq(t, 2, Len(t))
  <1>1. t \in Seq(Char) /\ Len(t) >= 1 /\ t[1] = ch /\ (win # << >> => win[1] = ch)
    <2>1. win \in Seq(Char)
      BY DEF LexInv, WordsOK
    <2>2. t \in Seq(Char) /\ Len(t) >= n /\ t[1] = ch /\ (win # << >> => win[1] = ch)
      BY <2>1, AheadIs
    <2> QED  BY <2>2
  <1>2. e \in Seq(Char) /\ Len(e) = 1 /\ e[1] = ch /\ rest \in Seq(Char)
    BY <1>1, CutIs
  <1>3. e = <<ch>>
    <2> HIDE DEF e
    <2> QED  BY <1>2
  <1>4. Round(a, <<ch>>, rest, "mark", {Nobody})
    BY <1>3, 1 + 1 = 2 DEF Taken
  <1> HIDE DEF e, rest
  <1>5. OneFits(a, ch, rest)
    BY DEF rest
  <1> QED  BY <1>1, <1>2, <1>4, <1>5, RoundOne

\* What is taken in code of C.
LEMMA MarkHolds ==
    ASSUME LexInv, Going, NEW ch \in Char, NEW a, Mark(ch, a), a \in Flags,
           ch \notin {"nl", "bs", "eof", "dq", "/", "*"},
           a.innote = at.innote, a.instr = at.instr, a.prophet = None => a.doubt # "blank",
           at.infunc # 0 => a.infunc = CASE ch = "open" -> at.infunc + 1
                                         [] ch = "close" -> at.infunc - 1
                                         [] OTHER -> at.infunc
    PROVE  LexInv'
  <1>1. PICK t \in Ahead(ch, 1) : Taken(a, t, 1)
    BY DEF Mark
  <1>2. wk = "c" /\ ~InText
    BY DEF Mark, Code
  <1>3. WordsFit(a, "mark", {Nobody})
    BY <1>2, QuietIs DEF WordsFit
  <1>4. OneFits(a, ch, SubSeq(t, 2, Len(t)))
    BY <1>2 DEF OneFits
  <1>5. 1 \in 1 .. 3
    OBVIOUS
  <1> QED  BY <1>1, <1>3, <1>4, <1>5, TakenOne

\* What is reported by a name that is fit to be one.
LEMMA ShownIs ==
    ASSUME NEW kind, NEW p \in Told
    PROVE  \A n \in Shown(kind, p) : n.as \in {"func", "call"} => n.name \in Told
  <1> SUFFICES ASSUME NEW n \in Shown(kind, p), n.as \in {"func", "call"}
               PROVE  n.name \in Told
    OBVIOUS
  <1> DEFINE r == [as |-> kind, name |-> p]
  <1>1. n = Nobody \/ n = r
    BY Zenon DEF Shown
  <1>2. Nobody.as = ""
    BY DEF Nobody
  <1>3. r.name = p
    OBVIOUS
  <1> HIDE DEF r
  <1> QED  BY <1>1, <1>2, <1>3

\* What was looked at behind the first character.
LEMMA TailIs ==
    ASSUME win \in Seq(Char), NEW ch \in Char, NEW n \in 1 .. 3, NEW t \in Ahead(ch, n)
    PROVE  Tail(t) \in Seq(Char)
  <1>1. t \in Seq(Char) /\ 1 \in 1 .. Len(t)
    BY AheadIs
  <1> QED  BY <1>1, CutIs

\* A # before anything it does not know.
LEMMA OtherDirectiveHolds == LexInv /\ Going /\ other_directive => LexInv'
  <1> SUFFICES ASSUME LexInv, Going, other_directive  PROVE LexInv'
    OBVIOUS
  <1>0. at \in Flags /\ at.infunc \in Nat /\ at.roundbracket \in Int
        /\ (at.prophet = None => at.doubt # "blank")
    BY FlagsAre DEF LexInv, WordsOK
  <1> DEFINE a == at
  <1>1. Mark("#", a)
    BY DEF other_directive
  <1>2. "#" \in Char
    BY DEF Char
  <1>3. a \in Flags /\ a.innote = at.innote /\ a.instr = at.instr /\ a.infunc = at.infunc
        /\ (a.prophet = None => a.doubt # "blank")
    BY <1>0 DEF Flags, Lost, None
  <1> HIDE DEF a
  <1> QED  BY <1>1, <1>2, <1>3, MarkHolds

\* A comma.
LEMMA CommaHolds == LexInv /\ Going /\ comma => LexInv'
  <1> SUFFICES ASSUME LexInv, Going, comma  PROVE LexInv'
    OBVIOUS
  <1>0. at \in Flags /\ at.infunc \in Nat /\ at.roundbracket \in Int
        /\ (at.prophet = None => at.doubt # "blank")
    BY FlagsAre DEF LexInv, WordsOK
  <1> DEFINE a == [Lost EXCEPT !.chance = FALSE]
  <1>1. Mark("comma", a)
    BY DEF comma
  <1>2. "comma" \in Char
    BY DEF Char
  <1>3. a \in Flags /\ a.innote = at.innote /\ a.instr = at.instr /\ a.infunc = at.infunc
        /\ (a.prophet = None => a.doubt # "blank")
    BY <1>0 DEF Flags, Lost, None
  <1> HIDE DEF a
  <1> QED  BY <1>1, <1>2, <1>3, MarkHolds

\* A colon, which notes that it was there.
LEMMA ColonHolds == LexInv /\ Going /\ colon => LexInv'
  <1> SUFFICES ASSUME LexInv, Going, colon  PROVE LexInv'
    OBVIOUS
  <1>0. at \in Flags /\ at.infunc \in Nat /\ at.roundbracket \in Int
        /\ (at.prophet = None => at.doubt # "blank")
    BY FlagsAre DEF LexInv, WordsOK
  <1> DEFINE a == [at EXCEPT !.prophet = None, !.doubt = IF @ = "" THEN "" ELSE "colon"]
  <1>1. Mark(":", a)
    BY DEF colon
  <1>2. ":" \in Char
    BY DEF Char
  <1>3. a \in Flags /\ a.innote = at.innote /\ a.instr = at.instr /\ a.infunc = at.infunc
        /\ (a.prophet = None => a.doubt # "blank")
    BY <1>0 DEF Flags, Lost, None
  <1> HIDE DEF a
  <1> QED  BY <1>1, <1>2, <1>3, MarkHolds

\* The end of a statement.
LEMMA SemicolonHolds == LexInv /\ Going /\ semicolon => LexInv'
  <1> SUFFICES ASSUME LexInv, Going, semicolon  PROVE LexInv'
    OBVIOUS
  <1>0. at \in Flags /\ at.infunc \in Nat /\ at.roundbracket \in Int
        /\ (at.prophet = None => at.doubt # "blank")
    BY FlagsAre DEF LexInv, WordsOK
  <1> DEFINE a == [Lost EXCEPT !.chance = FALSE, !.insist = None]
  <1>1. Mark("semi", a)
    BY DEF semicolon
  <1>2. "semi" \in Char
    BY DEF Char
  <1>3. a \in Flags /\ a.innote = at.innote /\ a.instr = at.instr /\ a.infunc = at.infunc
        /\ (a.prophet = None => a.doubt # "blank")
    BY <1>0 DEF Flags, Lost, None
  <1> HIDE DEF a
  <1> QED  BY <1>1, <1>2, <1>3, MarkHolds

\* A mark between values.
LEMMA OperatorMarkHolds == LexInv /\ Going /\ operator_mark => LexInv'
  <1> SUFFICES ASSUME LexInv, Going, operator_mark  PROVE LexInv'
    OBVIOUS
  <1>0. at \in Flags /\ at.infunc \in Nat /\ at.roundbracket \in Int
        /\ (at.prophet = None => at.doubt # "blank")
    BY FlagsAre DEF LexInv, WordsOK
  <1> DEFINE a == IF at.infunc > 0 THEN [Lost EXCEPT !.insist = None] ELSE at
  <1>1. Mark("&", a)
    BY DEF operator_mark
  <1>2. "&" \in Char
    BY DEF Char
  <1>3. a \in Flags /\ a.innote = at.innote /\ a.instr = at.instr /\ a.infunc = at.infunc
        /\ (a.prophet = None => a.doubt # "blank")
    BY <1>0 DEF Flags, Lost, None
  <1> HIDE DEF a
  <1> QED  BY <1>1, <1>2, <1>3, MarkHolds

\* The end of a round bracket.
LEMMA CloseBracketHolds == LexInv /\ Going /\ close_bracket => LexInv'
  <1> SUFFICES ASSUME LexInv, Going, close_bracket  PROVE LexInv'
    OBVIOUS
  <1>0. at \in Flags /\ at.infunc \in Nat /\ at.roundbracket \in Int
        /\ (at.prophet = None => at.doubt # "blank")
    BY FlagsAre DEF LexInv, WordsOK
  <1> DEFINE a == IF at.infunc > 0 THEN Lost ELSE [Lost EXCEPT !.chance = TRUE, !.roundbracket = @ - 1]
  <1>1. Mark(")", a)
    BY DEF close_bracket
  <1>2. ")" \in Char
    BY DEF Char
  <1>3. a \in Flags /\ a.innote = at.innote /\ a.instr = at.instr /\ a.infunc = at.infunc
        /\ (a.prophet = None => a.doubt # "blank")
    <2>1. Lost \in Flags /\ Lost.innote = at.innote /\ Lost.instr = at.instr /\ Lost.infunc = at.infunc
          /\ Lost.doubt = "" /\ Lost.roundbracket = at.roundbracket
      BY <1>0 DEF Flags, Lost, None
    <2>2. CASE at.infunc > 0
      BY <2>1, <2>2
    <2>3. CASE ~(at.infunc > 0)
      <3>1. a = [Lost EXCEPT !.chance = TRUE, !.roundbracket = at.roundbracket - 1]
        BY <2>1, <2>3
      <3>2. at.roundbracket - 1 \in Int
        BY <1>0
      <3> HIDE DEF a
      <3> QED  BY <2>1, <3>1, <3>2 DEF Flags
    <2> QED  BY <2>2, <2>3
  <1> HIDE DEF a
  <1> QED  BY <1>1, <1>2, <1>3, MarkHolds

\* The end of a block.
LEMMA CloseBraceHolds == LexInv /\ Going /\ close_brace => LexInv'
  <1> SUFFICES ASSUME LexInv, Going, close_brace  PROVE LexInv'
    OBVIOUS
  <1>0. at \in Flags /\ at.infunc \in Nat /\ at.roundbracket \in Int
        /\ (at.prophet = None => at.doubt # "blank")
    BY FlagsAre DEF LexInv, WordsOK
  <1> DEFINE a == [at EXCEPT !.chance = FALSE, !.infunc = IF @ = 0 THEN 0 ELSE @ - 1]
  <1>1. Mark("close", a)
    BY DEF close_brace
  <1>2. "close" \in Char
    BY DEF Char
  <1>3. a \in Flags /\ a.innote = at.innote /\ a.instr = at.instr
        /\ a.infunc = (IF at.infunc = 0 THEN 0 ELSE at.infunc - 1)
        /\ (a.prophet = None => a.doubt # "blank")
    <2> DEFINE b == IF at.infunc = 0 THEN 0 ELSE at.infunc - 1
    <2>1. b \in Nat
      BY <1>0
    <2>2. a = [at EXCEPT !.chance = FALSE, !.infunc = b]
      BY <1>0
    <2> HIDE DEF a, b
    <2>3. a \in Flags /\ a.innote = at.innote /\ a.instr = at.instr /\ a.infunc = b
         /\ a.prophet = at.prophet /\ a.doubt = at.doubt
      BY <1>0, <2>1, <2>2 DEF Flags
    <2> QED  BY <1>0, <2>3 DEF b
  <1> HIDE DEF a
  <1> QED  BY <1>1, <1>2, <1>3, MarkHolds

\* The beginning of a block, or of a function.
LEMMA OpenBraceHolds == LexInv /\ Going /\ open_brace => LexInv'
  <1> SUFFICES ASSUME LexInv, Going, open_brace  PROVE LexInv'
    OBVIOUS
  <1>0. at \in Flags /\ at.infunc \in Nat /\ at.roundbracket \in Int
        /\ (at.prophet = None => at.doubt # "blank")
    BY FlagsAre DEF LexInv, WordsOK
  <1>1. "open" \in Char /\ 1 \in 1 .. 3
    BY DEF Char
  <1>2. CASE at.infunc = 0 /\ at.chance /\ at.insist # None
    <2> DEFINE a == [Lost EXCEPT !.infunc = 1, !.chance = FALSE, !.insist = None]
    <2>1. PICK t \in Ahead("open", 1) :
            Round(a, <<"open">>, Tail(t), "mark", Shown("func", at.insist))
      BY <1>2 DEF open_brace
    <2>2. wk = "c" /\ ~InText
      BY <1>2 DEF open_brace, Code
    <2>3. a \in Flags /\ a.innote = at.innote /\ a.instr = at.instr /\ a.prophet = None /\ a.doubt = ""
      BY <1>0 DEF Flags, Lost, None
    <2>4. Tail(t) \in Seq(Char)
      BY <1>1, TailIs DEF LexInv, WordsOK
    <2>5. at.insist \in Told
      BY <1>0, <1>2, FlagsAre
    <2> HIDE DEF a
    <2>6. WordsFit(a, "mark", Shown("func", at.insist))
      <3>1. \A n \in Shown("func", at.insist) : n.as \in {"func", "call"} => n.name \in Told
        BY <2>5, ShownIs
      <3> QED  BY <2>2, <2>3, <3>1 DEF WordsFit
    <2>7. OneFits(a, "open", Tail(t))
      BY <1>2, <2>2, <2>3 DEF OneFits
    <2> QED  BY <1>1, <2>1, <2>4, <2>6, <2>7, RoundOne
  <1>3. CASE ~(at.infunc = 0 /\ at.chance /\ at.insist # None)
    <2> DEFINE a == [at EXCEPT !.infunc = IF @ = 0 THEN 0 ELSE @ + 1]
    <2>1. Mark("open", a)
      BY <1>3 DEF open_brace
    <2>2. a \in Flags /\ a.innote = at.innote /\ a.instr = at.instr
          /\ a.infunc = (IF at.infunc = 0 THEN 0 ELSE at.infunc + 1)
          /\ (a.prophet = None => a.doubt # "blank")
      <3> DEFINE b == IF at.infunc = 0 THEN 0 ELSE at.infunc + 1
      <3>1. b \in Nat
        BY <1>0
      <3>2. a = [at EXCEPT !.infunc = b]
        BY <1>0
      <3> HIDE DEF a, b
      <3>3. a \in Flags /\ a.innote = at.innote /\ a.instr = at.instr /\ a.infunc = b
           /\ a.prophet = at.prophet /\ a.doubt = at.doubt
        BY <1>0, <3>1, <3>2 DEF Flags
      <3> QED  BY <1>0, <3>3 DEF b
    <2> HIDE DEF a
    <2> QED  BY <1>1, <2>1, <2>2, MarkHolds
  <1> QED  BY <1>2, <1>3

\* Nothing that is known happens.
LEMMA InertHolds == LexInv /\ Going /\ inert => LexInv'
  <1> SUFFICES ASSUME LexInv, Going, inert  PROVE LexInv'
    OBVIOUS
  <1>1. PICK ch \in Char : Inert(ch) /\ \E t \in Ahead(ch, 1) : Taken(at, t, 1)
    BY DEF inert
  <1>2. PICK t \in Ahead(ch, 1) : Taken(at, t, 1)
    BY <1>1
  <1>3. /\ at \in Flags /\ at.infunc \in Nat /\ at.innote \in {0, 1, 9}
        /\ (at.prophet = None => at.doubt # "blank") /\ (wk # "c" => at.infunc = 0)
    BY FlagsAre DEF LexInv, WordsOK
  <1>4. at.instr => at.innote = 0
    BY DEF LexInv, Going, PlaceOK, InBlock
  <1>5. WordsFit(at, "mark", {Nobody})
    BY <1>3, QuietIs DEF WordsFit
  <1>6. OneFits(at, ch, SubSeq(t, 2, Len(t)))
    <2>1. ch \notin {"nl", "bs", "eof"} /\ (ch = "dq" => at.innote > 0)
      BY <1>1 DEF Inert, Going
    <2>2. ch = "/" => InText
      BY <1>1 DEF Inert, Going
    <2>3. ch = "*" => at.innote # 9
      BY <1>1, <1>4 DEF Inert, Going
    <2>4. ch \in {"open", "close"} => InText \/ wk # "c"
      BY <1>1 DEF Inert, Going
    <2> QED  BY <1>3, <2>1, <2>2, <2>3, <2>4 DEF OneFits
  <1>7. 1 \in 1 .. 3
    OBVIOUS
  <1> QED  BY <1>2, <1>5, <1>6, <1>7, TakenOne

\* What is taken of a directive.
LEMMA DirectiveHolds == LexInv /\ Going /\ directive => LexInv'
  <1> SUFFICES ASSUME LexInv, Going, directive  PROVE LexInv'
    OBVIOUS
  <1>0. /\ at \in Flags /\ at.infunc \in Nat /\ at.prophet \in Told \cup {None}
        /\ (at.prophet = None => at.doubt # "blank")
    BY FlagsAre DEF LexInv, WordsOK
  <1> DEFINE Marked(ch) == CASE ch \in {"#if", "#else"} -> TRUE [] ch = "#endif" -> FALSE [] OTHER -> at.inmarco
             p == IF at.prophet = None THEN at.prophet ELSE "glued"
             a(ch) == [at EXCEPT !.inmarco = Marked(ch), !.prophet = p]
  <1>1. PICK ch \in Directive : \E t \in Ahead(ch, 1) :
          \/ Round(at, <<"#">>, <<"w">> \o Tail(t), "mark", {Nobody}) /\ ch = "#if"
          \/ Round(a(ch), <<ch>>, Tail(t), "#", {Nobody})
    BY Zenon DEF directive
  <1>2. PICK t \in Ahead(ch, 1) :
          \/ Round(at, <<"#">>, <<"w">> \o Tail(t), "mark", {Nobody}) /\ ch = "#if"
          \/ Round(a(ch), <<ch>>, Tail(t), "#", {Nobody})
    BY <1>1
  <1>3. wk = "c" /\ ~InText
    BY DEF directive, Code
  <1>4. ch \in Char /\ "#" \in Char /\ "w" \in Char /\ 1 \in 1 .. 3
    BY DEF Char
  <1>5. win \in Seq(Char)
    BY DEF LexInv, WordsOK
  <1>6. Tail(t) \in Seq(Char)
    BY <1>4, <1>5, TailIs
  <1>7. CASE Round(at, <<"#">>, <<"w">> \o Tail(t), "mark", {Nobody}) /\ ch = "#if"
    <2> DEFINE r == <<"w">> \o Tail(t)
    <2>1. r \in Seq(Char)
      BY <1>4, <1>6
    <2> HIDE DEF r
    <2>2. Round(at, <<"#">>, r, "mark", {Nobody})
      BY <1>7 DEF r
    <2>4. WordsFit(at, "mark", {Nobody})
      BY <1>0, <1>3, QuietIs DEF WordsFit
    <2>5. OneFits(at, "#", r)
      BY DEF OneFits
    <2> QED  BY <1>4, <2>1, <2>2, <2>4, <2>5, RoundOne
  <1>8. CASE Round(a(ch), <<ch>>, Tail(t), "#", {Nobody})
    <2>1. p \in Told \cup {None} /\ (p = None <=> at.prophet = None)
      BY <1>0 DEF Told, None
    <2>2. Marked(ch) \in BOOLEAN
      BY <1>0 DEF Flags
    <2> DEFINE b == a(ch)
    <2> HIDE DEF p, Marked
    <2>3. /\ b \in Flags /\ b.innote = at.innote /\ b.instr = at.instr /\ b.infunc = at.infunc
          /\ b.prophet = p /\ b.doubt = at.doubt
      BY <1>0, <2>1, <2>2 DEF Flags
    <2>4. Round(b, <<ch>>, Tail(t), "#", {Nobody})
      BY <1>8
    <2> HIDE DEF b
    <2>5. WordsFit(b, "#", {Nobody})
      BY <1>0, <1>3, <2>1, <2>3, QuietIs DEF WordsFit
    <2>6. OneFits(b, ch, Tail(t))
      BY <1>3, <2>3 DEF OneFits, Directive
    <2>7. ch \notin {"/", "*"}
      BY DEF Directive
    <2> QED  BY <1>4, <1>6, <2>4, <2>5, <2>6, <2>7, RoundOne
  <1> QED  BY <1>2, <1>7, <1>8

\* A round bracket, of a call or a definition.
LEMMA OpenBracketHolds == LexInv /\ Going /\ open_bracket => LexInv'
  <1> SUFFICES ASSUME LexInv, Going, open_bracket  PROVE LexInv'
    OBVIOUS
  <1>0. /\ at \in Flags /\ at.infunc \in Nat /\ at.prophet \in Told \cup {None}
        /\ at.roundbracket \in Int /\ at.insist \in Told \cup {None}
        /\ (at.prophet = None => at.doubt # "blank")
    BY FlagsAre DEF LexInv, WordsOK
  <1> DEFINE b == IF at.prophet # None THEN Lost ELSE at
             i == IF at.prophet # None /\ at.roundbracket = 0 THEN at.prophet ELSE b.insist
             k == b.roundbracket + 1
             c == [b EXCEPT !.insist = i, !.roundbracket = k]
  <1>1. PICK t \in Ahead("(", 1) :
          \/ Round(b, <<"(">>, Tail(t), "mark",
                   IF at.prophet # None THEN Shown("call", at.prophet) ELSE {Nobody})
          \/ Taken(c, t, 1)
    BY Zenon DEF open_bracket
  <1>2. wk = "c" /\ ~InText
    BY DEF open_bracket, Code
  <1>3. "(" \in Char /\ 1 \in 1 .. 3
    BY DEF Char
  <1>4. Tail(t) \in Seq(Char)
    BY <1>3, TailIs DEF LexInv, WordsOK
  <1>5. /\ b \in Flags /\ b.innote = at.innote /\ b.instr = at.instr /\ b.infunc = at.infunc
        /\ b.roundbracket = at.roundbracket /\ b.insist = at.insist
        /\ (b.prophet = None => b.doubt # "blank")
    BY <1>0 DEF Flags, Lost, None
  <1> HIDE DEF b
  <1>6. CASE Taken(c, t, 1)
    <2>1. i \in Told \cup {None} /\ k \in Int
      BY <1>0, <1>5
    <2> HIDE DEF i, k
    <2>2. /\ c \in Flags /\ c.innote = at.innote /\ c.instr = at.instr /\ c.infunc = at.infunc
          /\ (c.prophet = None => c.doubt # "blank")
      BY <1>5, <2>1 DEF Flags
    <2> HIDE DEF c
    <2>3. WordsFit(c, "mark", {Nobody})
      BY <1>2, <2>2, QuietIs DEF WordsFit
    <2>4. OneFits(c, "(", SubSeq(t, 2, Len(t)))
      BY <2>2 DEF OneFits
    <2> QED  BY <1>3, <1>6, <2>3, <2>4, TakenOne
  <1>7. ASSUME NEW as, Round(b, <<"(">>, Tail(t), "mark", as),
               as = IF at.prophet # None THEN Shown("call", at.prophet) ELSE {Nobody}
        PROVE  LexInv'
    <2>1. \A n \in as : n.as \in {"func", "call"} => n.name \in Told
      <3>1. CASE at.prophet # None
        BY <1>0, <1>7, <3>1, ShownIs
      <3>2. CASE at.prophet = None
        BY <1>7, <3>2, QuietIs
      <3> QED  BY <3>1, <3>2
    <2>2. WordsFit(b, "mark", as)
      BY <1>2, <1>5, <2>1 DEF WordsFit
    <2>3. OneFits(b, "(", Tail(t))
      BY <1>5 DEF OneFits
    <2> QED  BY <1>3, <1>4, <1>7, <2>2, <2>3, RoundOne
  <1> QED  BY <1>1, <1>6, <1>7

\* A blank, behind which the word is in doubt.
LEMMA BlankHolds == LexInv /\ Going /\ blank => LexInv'
  <1> SUFFICES ASSUME LexInv, Going, blank  PROVE LexInv'
    OBVIOUS
  <1>0. /\ at \in Flags /\ at.infunc \in Nat /\ (at.prophet = None => at.doubt # "blank")
    BY FlagsAre DEF LexInv, WordsOK
  <1> DEFINE b == IF at.prophet = None THEN at ELSE [at EXCEPT !.doubt = "blank"]
  <1>1. PICK t \in Ahead("blank", 1) : Round(b, <<"blank">>, Tail(t), "blank", {Nobody})
    BY DEF blank
  <1>2. wk = "c" /\ ~InText
    BY DEF blank, Code
  <1>3. "blank" \in Char /\ 1 \in 1 .. 3
    BY DEF Char
  <1>4. Tail(t) \in Seq(Char)
    BY <1>3, TailIs DEF LexInv, WordsOK
  <1>5. /\ b \in Flags /\ b.innote = at.innote /\ b.instr = at.instr /\ b.infunc = at.infunc
        /\ (b.prophet = None => b.doubt # "blank") /\ (b.prophet = None \/ b.doubt # "")
    BY <1>0 DEF Flags
  <1> HIDE DEF b
  <1>6. WordsFit(b, "blank", {Nobody})
    BY <1>2, <1>5, QuietIs DEF WordsFit
  <1>7. OneFits(b, "blank", Tail(t))
    BY <1>5 DEF OneFits
  <1> QED  BY <1>1, <1>3, <1>4, <1>6, <1>7, RoundOne

\* A letter, of the word in the making or of a new one.
LEMMA WordHolds == LexInv /\ Going /\ word => LexInv'
  <1> SUFFICES ASSUME LexInv, Going, word  PROVE LexInv'
    OBVIOUS
  <1>0. /\ at \in Flags /\ at.infunc \in Nat /\ (at.prophet = None => at.doubt # "blank")
        /\ at.prophet \in Told \cup {None} /\ at.doubt \in {"", "blank", "colon"}
        /\ (before = "w" => at.prophet # None /\ at.doubt # "blank")
        /\ (before = "blank" => at.prophet = None \/ at.doubt # "")
    BY FlagsAre DEF LexInv, WordsOK
  <1> DEFINE d == IF at.prophet = None THEN at.doubt ELSE ""
             b == [at EXCEPT !.chance = FALSE, !.prophet = Prophet, !.doubt = d]
  <1>1. PICK t \in Ahead("w", 1) : Round(b, <<"w">>, Tail(t), "w", {Nobody})
    BY <1>0 DEF word
  <1>2. wk = "c" /\ ~InText
    BY DEF word, Code
  <1>3. "w" \in Char /\ 1 \in 1 .. 3
    BY DEF Char
  <1>4. Tail(t) \in Seq(Char)
    BY <1>3, TailIs DEF LexInv, WordsOK
  <1>5. Prophet \in Told
    BY <1>0 DEF Prophet, Told, None
  <1>6. d \in {"", "colon"}
    BY <1>0
  <1> HIDE DEF d
  <1>7. /\ b \in Flags /\ b.innote = at.innote /\ b.instr = at.instr /\ b.infunc = at.infunc
        /\ b.prophet = Prophet /\ b.doubt = d
    BY <1>0, <1>5, <1>6 DEF Flags
  <1> HIDE DEF b
  <1>8. WordsFit(b, "w", {Nobody})
    BY <1>2, <1>5, <1>6, <1>7, QuietIs DEF WordsFit, Told, None
  <1>9. OneFits(b, "w", Tail(t))
    BY <1>7 DEF OneFits
  <1> QED  BY <1>1, <1>3, <1>4, <1>8, <1>9, RoundOne

\* What a step on several characters must show.
PlaceFits(a, r, rest, what) ==
    /\ r.mode \in Modes
    /\ r.mode = "star" => rest # << >> /\ rest[1] # "/"
    /\ r.mode = "slash" => rest # << >> /\ rest[1] \notin {"/", "*"}
    /\ r.mode = "line_bs" => what = "bsbs"
    /\ a.innote = CASE r.mode \in {"line", "line_bs"} -> 1 [] r.mode \in {"block", "star"} -> 9 [] OTHER -> 0
    /\ a.instr <=> r.mode = "str"
    /\ at.infunc # 0 => a.infunc = r.depth

\* A round that takes up to three characters keeps the invariant in the same way.
LEMMA RoundTo ==
    ASSUME LexInv, Going, NEW a, NEW e \in Seq(Char), Len(e) \in 1 .. 3,
           NEW rest \in Seq(Char), NEW what, NEW as,
           WordsFit(a, what, as), Round(a, e, rest, what, as),
           ~Slips(e) => PlaceFits(a, Beyond(e), rest, what)
    PROVE  LexInv'
  <1>1. WordsOK /\ PlaceOK /\ a \in Flags
    BY DEF LexInv, Going, WordsFit
  <1>2. WordsOK'
    BY WordsKeep
  <1>3. /\ at' = a /\ win' = rest /\ before' = what /\ ref' \in Spot /\ ref'.mode = Beyond(e).mode
        /\ ref'.depth = (IF at.infunc = 0 THEN a.infunc ELSE Beyond(e).depth)
        /\ (pc' # "slipped" => ~Slips(e))
    BY <1>1, RoundIs
  <1>4. ASSUME pc' # "slipped"  PROVE PlaceOK'
    <2>1. PlaceFits(a, Beyond(e), rest, what)
      BY <1>3, <1>4
    <2> QED  BY <1>3, <2>1 DEF PlaceFits, PlaceOK, InBlock
  <1>5. wk' = wk
    BY DEF Round
  <1> QED  BY <1>2, <1>4, <1>5, PlaceTells DEF LexInv, Going

\* Where the rules of the language are before a step.
LEMMA PlaceIs ==
    ASSUME LexInv, Going
    PROVE  /\ ref \in Spot /\ ref.mode \in Modes /\ win \in Seq(Char) /\ at \in Flags
           /\ ref.mode = "star" => win # << >> /\ win[1] # "/"
           /\ ref.mode = "slash" => win # << >> /\ win[1] \notin {"/", "*"}
           /\ ref.mode = "line_bs" => before = "bsbs"
           /\ at.innote = CASE ref.mode \in {"line", "line_bs"} -> 1
                             [] ref.mode \in {"block", "star"} -> 9 [] OTHER -> 0
           /\ at.instr <=> ref.mode = "str"
           /\ at.infunc = ref.depth /\ at.infunc \in Nat
           /\ InText <=> ref.mode \in {"line", "line_bs", "block", "star", "str"}
  <1>1. WordsOK /\ PlaceOK
    BY DEF LexInv, Going
  <1>2. at.infunc \in Nat
    BY <1>1, FlagsAre DEF WordsOK
  <1>3. /\ at.innote = CASE ref.mode \in {"line", "line_bs"} -> 1
                             [] ref.mode \in {"block", "star"} -> 9 [] OTHER -> 0
        /\ at.instr <=> ref.mode = "str"
    BY <1>1 DEF PlaceOK, InBlock
  <1>4. InText <=> ref.mode \in {"line", "line_bs", "block", "star", "str"}
    BY <1>3 DEF InText
  <1> QED  BY <1>1, <1>2, <1>3, <1>4 DEF WordsOK, PlaceOK

\* The end of a line.
LEMMA NewlineHolds == LexInv /\ Going /\ newline => LexInv'
  <1> SUFFICES ASSUME LexInv, Going, newline  PROVE LexInv'
    OBVIOUS
  <1> DEFINE i == IF at.innote = 1 THEN 0 ELSE at.innote
             d == IF at.prophet # None THEN "blank" ELSE at.doubt
             a == [at EXCEPT !.instr = FALSE, !.innote = i, !.doubt = d]
             e == <<"nl">>
  <1>1. /\ at.innote \in {0, 1, 9} /\ at.doubt \in {"", "blank", "colon"}
        /\ (at.prophet = None => at.doubt # "blank") /\ (wk # "c" => at.infunc = 0)
    BY PlaceIs, FlagsAre DEF LexInv, WordsOK
  <1>2. PICK t \in Ahead("nl", 1) : Round(a, e, Tail(t), "blank", {Nobody})
    BY PlaceIs DEF newline
  <1>3. "nl" \in Char /\ 1 \in 1 .. 3
    BY DEF Char
  <1>4. Tail(t) \in Seq(Char)
    BY <1>3, PlaceIs, TailIs
  <1>5. i \in {0, 9} /\ d \in {"", "blank", "colon"} /\ (at.prophet = None => d # "blank")
        /\ (at.prophet # None => d # "")
    BY <1>1
  <1>6. at \in Flags
    BY PlaceIs
  <1>7. e \in Seq(Char) /\ Len(e) = 1 /\ e[1] = "nl" /\ Len(e) \in 1 .. 3
    BY <1>3, SingleIs
  <1> HIDE DEF d
  <1>8. /\ a \in Flags /\ a.instr = FALSE /\ a.innote = i /\ a.doubt = d
        /\ a.prophet = at.prophet /\ a.infunc = at.infunc
    <2> HIDE DEF i
    <2> QED  BY <1>5, <1>6 DEF Flags
  <1> HIDE DEF a, e
  <1>9. WordsFit(a, "blank", {Nobody})
    BY <1>1, <1>5, <1>8, QuietIs DEF WordsFit
  <1>10. Beyond(e) = Lexed(ref, "nl")
    BY <1>7, PlaceIs, BeyondIs
  <1>11. ASSUME ~Slips(e)  PROVE PlaceFits(a, Beyond(e), Tail(t), "blank")
    <2>1. InBlock \/ before # "bsbs"
      BY <1>7, <1>11 DEF Slips
    <2>2. ref.mode # "line_bs"
      BY <2>1, PlaceIs DEF InBlock
    <2>3. /\ Lexed(ref, "nl").mode = (IF ref.mode \in {"block", "star"} THEN "block" ELSE "code")
          /\ Lexed(ref, "nl").depth = ref.depth
      <3>1. CASE ref.mode \in {"code", "slash"}
        BY <1>3, <3>1, PlaceIs, LexedInCode
      <3>2. CASE ref.mode \notin {"code", "slash"}
        BY <1>3, <2>2, <3>2, PlaceIs, LexedInText DEF Modes
      <3> QED  BY <3>1, <3>2
    <2> QED  BY <1>8, <1>10, <2>2, <2>3, PlaceIs DEF PlaceFits, Modes
  <1> QED  BY <1>2, <1>4, <1>7, <1>9, <1>11, RoundTo

\* A backslash and what is behind it.
LEMMA BackslashHolds == LexInv /\ Going /\ backslash => LexInv'
  <1> SUFFICES ASSUME LexInv, Going, backslash  PROVE LexInv'
    OBVIOUS
  <1>1. "bs" \in Char /\ 2 \in 1 .. 3
    BY DEF Char
  <1>2. PICK t \in Ahead("bs", 2) :
          Round(at, SubSeq(t, 1, 2), SubSeq(t, 3, Len(t)),
                IF t[2] = "bs" THEN "bsbs" ELSE "mark", {Nobody})
    BY DEF backslash
  <1> DEFINE e == SubSeq(t, 1, 2)
             rest == SubSeq(t, 3, Len(t))
             what == IF t[2] = "bs" THEN "bsbs" ELSE "mark"
  <1>3. t \in Seq(Char) /\ Len(t) >= 2 /\ t[1] = "bs" /\ 2 \in 1 .. Len(t) /\ t[2] \in Char
    <2>1. t \in Seq(Char) /\ Len(t) >= 2 /\ t[1] = "bs"
      BY <1>1, PlaceIs, AheadIs
    <2> QED  BY <2>1
  <1>4. /\ e \in Seq(Char) /\ Len(e) = 2 /\ Len(e) \in 1 .. 3 /\ e[1] = "bs" /\ e[2] = t[2]
        /\ rest \in Seq(Char)
    <2>1. e \in Seq(Char) /\ Len(e) = 2 /\ (\A i \in 1 .. 2 : e[i] = t[i]) /\ SubSeq(t, 2 + 1, Len(t)) \in Seq(Char)
      BY <1>3, CutIs
    <2>2. rest \in Seq(Char)
      BY <2>1
    <2> HIDE DEF e, rest
    <2> QED  BY <1>3, <2>1, <2>2
  <1>5. Round(at, e, rest, what, {Nobody})
    BY <1>2
  <1> HIDE DEF e, rest
  <1>6. WordsFit(at, what, {Nobody})
    <2>1. (at.prophet = None => at.doubt # "blank") /\ (wk # "c" => at.infunc = 0)
      BY DEF LexInv, WordsOK
    <2> QED  BY <2>1, PlaceIs, QuietIs DEF WordsFit
  <1>7. Lexed(ref, "bs") \in Spot
    BY <1>1, PlaceIs, LexedIs
  <1>8. Beyond(e) = Lexed(Lexed(ref, "bs"), t[2])
    BY <1>4, PlaceIs, BeyondIs
  <1>9. ASSUME ~Slips(e)  PROVE PlaceFits(at, Beyond(e), rest, what)
    <2> DEFINE m == Lexed(ref, "bs")
    <2>1. ref.mode \in {"block", "star"} => t[2] # "*"
      BY <1>4, <1>9 DEF Slips, InBlock
    <2>2. m.depth = ref.depth /\ m.mode = CASE ref.mode \in {"code", "slash"} -> "spliced"
                                           [] ref.mode \in {"line", "line_bs"} -> "line_bs"
                                           [] ref.mode \in {"block", "star"} -> "block"
                                           [] ref.mode = "str" -> "str_bs"
                                           [] OTHER -> "chr_bs"
      <3>1. CASE ref.mode \in {"code", "slash"}
        BY <1>1, <3>1, PlaceIs, LexedInCode
      <3>2. CASE ref.mode \notin {"code", "slash"}
        BY <1>1, <3>2, PlaceIs, LexedInText DEF Modes
      <3> QED  BY <3>1, <3>2
    <2> HIDE DEF m
    <2>3. /\ Lexed(m, t[2]).depth = ref.depth
          /\ Lexed(m, t[2]).mode = CASE ref.mode \in {"code", "slash"} -> "code"
                                    [] ref.mode \in {"line", "line_bs"} -> (IF t[2] = "bs" THEN "line_bs" ELSE "line")
                                    [] ref.mode \in {"block", "star"} -> "block"
                                    [] OTHER -> ref.mode
      <3>1. m \in Spot /\ ref.mode \in Modes
        BY <1>7, PlaceIs DEF m
      <3>2. m.mode # "code" /\ m.mode # "slash"
        BY <2>2
      <3> QED  BY <1>3, <2>1, <2>2, <3>1, <3>2, LexedInText DEF Modes
    <2>4. Beyond(e) = Lexed(m, t[2])
      BY <1>8 DEF m
    <2> QED  BY <2>2, <2>3, <2>4, PlaceIs DEF PlaceFits, Modes
  <1> HIDE DEF what
  <1> QED  BY <1>4, <1>5, <1>6, <1>9, RoundTo

\* The beginning or the end of a string.
LEMMA DoubleQuoteHolds == LexInv /\ Going /\ double_quote => LexInv'
  <1> SUFFICES ASSUME LexInv, Going, double_quote  PROVE LexInv'
    OBVIOUS
  <1> DEFINE i == ~at.instr
             a == [at EXCEPT !.instr = i]
             e == <<"dq">>
  <1>1. PICK t \in Ahead("dq", 1) :
          /\ at.innote = 0
          /\ Round(a, e, Tail(t), "mark", IF at.instr /\ wk = "c" THEN Shown("string", None) ELSE {Nobody})
    BY DEF double_quote
  <1>2. "dq" \in Char /\ 1 \in 1 .. 3
    BY DEF Char
  <1>3. Tail(t) \in Seq(Char)
    BY <1>2, PlaceIs, TailIs
  <1>4. e \in Seq(Char) /\ Len(e) = 1 /\ e[1] = "dq" /\ Len(e) \in 1 .. 3
    BY <1>2, SingleIs
  <1>5. i \in BOOLEAN
    OBVIOUS
  <1>6. a \in Flags /\ a.instr = i /\ a.innote = at.innote /\ a.infunc = at.infunc
        /\ a.prophet = at.prophet /\ a.doubt = at.doubt
    <2> HIDE DEF i
    <2> QED  BY <1>5, PlaceIs DEF Flags
  <1>7. ASSUME NEW as, as = IF at.instr /\ wk = "c" THEN Shown("string", None) ELSE {Nobody}
        PROVE  WordsFit(a, "mark", as)
    <2>1. (at.prophet = None => at.doubt # "blank") /\ (wk # "c" => at.infunc = 0)
      BY DEF LexInv, WordsOK
    <2>2. \A n \in as : n.as \in {"func", "call"} => n.name \in Told
      <3> SUFFICES ASSUME NEW n \in as  PROVE n.as \notin {"func", "call"}
        OBVIOUS
      <3> DEFINE r == [as |-> "string", name |-> None]
      <3>1. n = Nobody \/ n = r
        BY <1>7, Zenon DEF Shown
      <3>2. Nobody.as = "" /\ r.as = "string"
        BY DEF Nobody
      <3> HIDE DEF r
      <3> QED  BY <3>1, <3>2
    <2> HIDE DEF a
    <2> QED  BY <1>6, <2>1, <2>2 DEF WordsFit
  <1> HIDE DEF a, e
  <1>8. Beyond(e) = Lexed(ref, "dq")
    BY <1>4, PlaceIs, BeyondIs
  <1>9. ASSUME ~Slips(e)  PROVE PlaceFits(a, Beyond(e), Tail(t), "mark")
    <2>1. ref.mode # "chr"
      BY <1>4, <1>9 DEF Slips
    <2>2. ref.mode \in {"code", "slash", "str"}
      BY <1>1, <2>1, PlaceIs DEF Modes
    <2>3. /\ Lexed(ref, "dq").mode = (IF ref.mode = "str" THEN "code" ELSE "str")
          /\ Lexed(ref, "dq").depth = ref.depth
      <3>1. CASE ref.mode \in {"code", "slash"}
        BY <1>2, <3>1, PlaceIs, LexedInCode
      <3>2. CASE ref.mode = "str"
        BY <1>2, <3>2, PlaceIs, LexedInText
      <3> QED  BY <2>2, <3>1, <3>2
    <2> QED  BY <1>1, <1>6, <1>8, <2>2, <2>3, PlaceIs DEF PlaceFits, Modes
  <1> QED  BY <1>1, <1>3, <1>4, <1>7, <1>9, RoundTo

\* A window of a step, and what is taken of it when that is two characters or three.
LEMMA WindowIs ==
    ASSUME LexInv, Going, NEW ch \in Char, NEW n \in 1 .. 3, NEW t \in Ahead(ch, n)
    PROVE  /\ t \in Seq(Char) /\ Len(t) >= n /\ t[1] = ch /\ (win # << >> => win[1] = ch)
           /\ \A i \in 1 .. n : t[i] \in Char
           /\ SubSeq(t, n + 1, Len(t)) \in Seq(Char)
           /\ SubSeq(t, 1, n) \in Seq(Char) /\ Len(SubSeq(t, 1, n)) = n
           /\ \A i \in 1 .. n : SubSeq(t, 1, n)[i] = t[i]
           /\ n # 1 => SubSeq(t, 2, Len(t)) # << >> /\ SubSeq(t, 2, Len(t))[1] = t[2]
  <1>1. t \in Seq(Char) /\ Len(t) >= n /\ t[1] = ch /\ (win # << >> => win[1] = ch)
    BY PlaceIs, AheadIs
  <1>2. n \in 1 .. Len(t) /\ 1 \in 1 .. Len(t) /\ \A i \in 1 .. n : t[i] \in Char
    BY <1>1
  <1>3. /\ SubSeq(t, n + 1, Len(t)) \in Seq(Char)
        /\ SubSeq(t, 1, n) \in Seq(Char) /\ Len(SubSeq(t, 1, n)) = n
        /\ \A i \in 1 .. n : SubSeq(t, 1, n)[i] = t[i]
    BY <1>1, <1>2, CutIs
  <1>4. n # 1 => SubSeq(t, 2, Len(t)) # << >> /\ SubSeq(t, 2, Len(t))[1] = t[2]
    <2>1. n # 1 => 1 < Len(t)
      BY <1>1
    <2>2. 1 < Len(t) => SubSeq(t, 1 + 1, Len(t)) # << >> /\ SubSeq(t, 1 + 1, Len(t))[1] = t[1 + 1]
      BY <1>1, <1>2, CutIs
    <2> QED  BY <2>1, <2>2, 1 + 1 = 2
  <1> QED  BY <1>1, <1>2, <1>3, <1>4

\* The words do not look at the flags of comments and strings.
LEMMA WordsFitIs ==
    ASSUME LexInv, NEW a \in Flags, a.infunc = at.infunc, a.prophet = None => a.doubt # "blank"
    PROVE  WordsFit(a, "mark", {Nobody})
  <1>1. wk # "c" => at.infunc = 0
    BY DEF LexInv, WordsOK
  <1> QED  BY <1>1, QuietIs DEF WordsFit

\* A character in quotes.
LEMMA SingleQuoteHolds == LexInv /\ Going /\ single_quote => LexInv'
  <1> SUFFICES ASSUME LexInv, Going, single_quote  PROVE LexInv'
    OBVIOUS
  <1>1. "sq" \in Char /\ 3 \in 1 .. 3
    BY DEF Char
  <1>2. PICK t \in Ahead("sq", 3) : Taken(at, t, IF t[3] = "sq" THEN 3 ELSE 1)
    BY DEF single_quote
  <1>3. ~InText
    BY DEF single_quote
  <1>4. WordsFit(at, "mark", {Nobody})
    <2>1. at.prophet = None => at.doubt # "blank"
      BY DEF LexInv, WordsOK
    <2> QED  BY <2>1, PlaceIs, WordsFitIs
  <1>5. CASE t[3] # "sq"
    <2>1. Taken(at, t, 1)
      BY <1>2, <1>5
    <2>2. OneFits(at, "sq", SubSeq(t, 2, Len(t)))
      BY DEF OneFits
    <2> QED  BY <1>1, <1>4, <2>1, <2>2, TakenOne
  <1>6. CASE t[3] = "sq"
    <2> DEFINE e == SubSeq(t, 1, 3)
               rest == SubSeq(t, 3 + 1, Len(t))
    <2>1. Round(at, e, rest, "mark", {Nobody})
      BY <1>2, <1>6 DEF Taken
    <2>2. /\ e \in Seq(Char) /\ Len(e) = 3 /\ e[1] = "sq" /\ e[2] = t[2] /\ e[3] = "sq"
          /\ rest \in Seq(Char) /\ t[2] \in Char
      <3>1. /\ t[1] = "sq" /\ \A i \in 1 .. 3 : t[i] \in Char
            /\ rest \in Seq(Char) /\ e \in Seq(Char) /\ Len(e) = 3
            /\ \A i \in 1 .. 3 : e[i] = t[i]
        BY <1>1, WindowIs
      <3> HIDE DEF e, rest
      <3> QED  BY <1>6, <3>1
    <2> HIDE DEF e, rest
    <2>3. Beyond(e) = Lexed(Lexed(Lexed(ref, "sq"), t[2]), "sq")
      BY <2>2, PlaceIs, BeyondIs
    <2>4. ASSUME ~Slips(e)  PROVE PlaceFits(at, Beyond(e), rest, "mark")
      <3> DEFINE m == Lexed(ref, "sq")
                 n == Lexed(m, t[2])
      <3>1. ref.mode # "chr" /\ t[2] \notin {"bs", "nl", "sq"}
        BY <2>2, <2>4 DEF Slips
      <3>2. ref.mode \in {"code", "slash"}
        BY <1>3, <3>1, PlaceIs DEF Modes
      <3>3. m \in Spot /\ m.mode = "chr" /\ m.depth = ref.depth
        BY <1>1, <3>2, PlaceIs, LexedInCode, LexedIs
      <3> HIDE DEF m
      <3>4. n \in Spot /\ n.mode = "chr" /\ n.depth = ref.depth
        BY <2>2, <3>1, <3>3, LexedInText, LexedIs
      <3> HIDE DEF n
      <3>5. Lexed(n, "sq").mode = "code" /\ Lexed(n, "sq").depth = ref.depth
        BY <1>1, <3>4, LexedInText
      <3>6. Beyond(e) = Lexed(n, "sq")
        BY <2>3 DEF m, n
      <3> QED  BY <3>2, <3>5, <3>6, PlaceIs DEF PlaceFits, Modes
    <2>5. Len(e) \in 1 .. 3
      BY <2>2
    <2> QED  BY <1>4, <2>1, <2>2, <2>4, <2>5, RoundTo
  <1> QED  BY <1>5, <1>6

\* A slash, and what it opens with the next character.
LEMMA SlashHolds == LexInv /\ Going /\ slash => LexInv'
  <1> SUFFICES ASSUME LexInv, Going, slash  PROVE LexInv'
    OBVIOUS
  <1>1. "/" \in Char /\ "*" \in Char /\ 2 \in 1 .. 3
    BY DEF Char
  <1>2. PICK t \in Ahead("/", 2) :
          \/ t[2] = "/" /\ Taken([at EXCEPT !.innote = 1], t, 2)
          \/ t[2] = "*" /\ Taken([at EXCEPT !.innote = 9], t, 2)
          \/ t[2] \notin {"/", "*"} /\ Taken(at, t, 1)
    BY DEF slash
  <1>3. ~InText /\ (at.prophet = None => at.doubt # "blank")
    BY DEF slash, LexInv, WordsOK
  <1>4. /\ t[2] \in Char /\ (win # << >> => win[1] = "/")
        /\ SubSeq(t, 2, Len(t)) # << >> /\ SubSeq(t, 2, Len(t))[1] = t[2]
    BY <1>1, WindowIs
  <1>5. CASE t[2] \notin {"/", "*"} /\ Taken(at, t, 1)
    <2>1. WordsFit(at, "mark", {Nobody})
      BY <1>3, PlaceIs, WordsFitIs
    <2>2. OneFits(at, "/", SubSeq(t, 2, Len(t)))
      BY <1>3, <1>4, <1>5 DEF OneFits
    <2> QED  BY <1>1, <1>5, <2>1, <2>2, TakenOne
  <1>6. ASSUME NEW i \in {1, 9}, Taken([at EXCEPT !.innote = i], t, 2),
               t[2] = IF i = 1 THEN "/" ELSE "*"
        PROVE  LexInv'
    <2> DEFINE a == [at EXCEPT !.innote = i]
               e == SubSeq(t, 1, 2)
               rest == SubSeq(t, 2 + 1, Len(t))
    <2>1. Round(a, e, rest, "mark", {Nobody})
      BY <1>6 DEF Taken
    <2>2. /\ e \in Seq(Char) /\ Len(e) = 2 /\ Len(e) \in 1 .. 3 /\ e[1] = "/" /\ e[2] = t[2]
          /\ rest \in Seq(Char)
      <3>1. /\ t[1] = "/" /\ rest \in Seq(Char) /\ e \in Seq(Char) /\ Len(e) = 2
            /\ \A j \in 1 .. 2 : e[j] = t[j]
        BY <1>1, WindowIs
      <3> HIDE DEF e, rest
      <3> QED  BY <3>1
    <2>3. /\ a \in Flags /\ a.innote = i /\ a.instr = at.instr /\ a.infunc = at.infunc
          /\ a.prophet = at.prophet /\ a.doubt = at.doubt
      BY PlaceIs DEF Flags
    <2> HIDE DEF a, e, rest
    <2>4. WordsFit(a, "mark", {Nobody})
      BY <1>3, <2>3, WordsFitIs
    <2>5. Beyond(e) = Lexed(Lexed(ref, "/"), t[2])
      BY <2>2, PlaceIs, BeyondIs
    <2>6. ASSUME ~Slips(e)  PROVE PlaceFits(a, Beyond(e), rest, "mark")
      <3> DEFINE m == Lexed(ref, "/")
      <3>1. ref.mode # "chr"
        BY <2>2, <2>6 DEF Slips
      <3>2. ref.mode = "code"
        BY <1>3, <1>4, <3>1, PlaceIs DEF Modes
      <3>3. m \in Spot /\ m.mode = "slash" /\ m.depth = ref.depth
        BY <1>1, <3>2, PlaceIs, LexedInCode, LexedIs
      <3> HIDE DEF m
      <3>4. /\ Lexed(m, t[2]).depth = ref.depth
            /\ Lexed(m, t[2]).mode = (IF i = 1 THEN "line" ELSE "block")
        BY <1>1, <1>6, <3>3, LexedInText
      <3>5. Beyond(e) = Lexed(m, t[2])
        BY <2>5 DEF m
      <3> QED  BY <2>3, <3>2, <3>4, <3>5, PlaceIs DEF PlaceFits, Modes
    <2> QED  BY <2>1, <2>2, <2>4, <2>6, RoundTo
  <1> QED  BY <1>2, <1>5, <1>6

\* A star, which may end a comment.
LEMMA StarHolds == LexInv /\ Going /\ star => LexInv'
  <1> SUFFICES ASSUME LexInv, Going, star  PROVE LexInv'
    OBVIOUS
  <1> DEFINE b == IF wk = "c" THEN Lost ELSE at
  <1>1. "/" \in Char /\ "*" \in Char /\ 2 \in 1 .. 3
    BY DEF Char
  <1>2. /\ at.innote # 1 /\ ~at.instr
        /\ \E t \in Ahead("*", 2) :
             \/ t[2] = "/" /\ at.innote = 9 /\ Taken([b EXCEPT !.innote = 0], t, 2)
             \/ ~(t[2] = "/" /\ at.innote = 9) /\ Taken(b, t, 1)
    BY DEF star
  <1>3. PICK t \in Ahead("*", 2) :
             \/ t[2] = "/" /\ at.innote = 9 /\ Taken([b EXCEPT !.innote = 0], t, 2)
             \/ ~(t[2] = "/" /\ at.innote = 9) /\ Taken(b, t, 1)
    BY <1>2
  <1>4. /\ b \in Flags /\ b.innote = at.innote /\ b.instr = at.instr /\ b.infunc = at.infunc
        /\ (b.prophet = None => b.doubt # "blank")
    <2>1. at.prophet = None => at.doubt # "blank"
      BY DEF LexInv, WordsOK
    <2> QED  BY <2>1, PlaceIs DEF Flags, Lost, None
  <1> HIDE DEF b
  <1>5. /\ t[2] \in Char /\ (win # << >> => win[1] = "*")
        /\ SubSeq(t, 2, Len(t)) # << >> /\ SubSeq(t, 2, Len(t))[1] = t[2]
    BY <1>1, WindowIs
  <1>6. CASE ~(t[2] = "/" /\ at.innote = 9) /\ Taken(b, t, 1)
    <2>1. WordsFit(b, "mark", {Nobody})
      BY <1>4, WordsFitIs
    <2>2. OneFits(b, "*", SubSeq(t, 2, Len(t)))
      BY <1>4, <1>5, <1>6 DEF OneFits
    <2> QED  BY <1>1, <1>6, <2>1, <2>2, TakenOne
  <1>7. CASE t[2] = "/" /\ at.innote = 9 /\ Taken([b EXCEPT !.innote = 0], t, 2)
    <2> DEFINE a == [b EXCEPT !.innote = 0]
               e == SubSeq(t, 1, 2)
               rest == SubSeq(t, 2 + 1, Len(t))
    <2>1. Round(a, e, rest, "mark", {Nobody})
      BY <1>7 DEF Taken
    <2>2. /\ e \in Seq(Char) /\ Len(e) = 2 /\ Len(e) \in 1 .. 3 /\ e[1] = "*" /\ e[2] = "/"
          /\ rest \in Seq(Char)
      <3>1. /\ t[1] = "*" /\ rest \in Seq(Char) /\ e \in Seq(Char) /\ Len(e) = 2
            /\ \A j \in 1 .. 2 : e[j] = t[j]
        BY <1>1, WindowIs
      <3> HIDE DEF e, rest
      <3> QED  BY <1>7, <3>1
    <2>3. /\ a \in Flags /\ a.innote = 0 /\ a.instr = at.instr /\ a.infunc = at.infunc
          /\ a.prophet = b.prophet /\ a.doubt = b.doubt
      BY <1>4 DEF Flags
    <2> HIDE DEF a, e, rest
    <2>4. WordsFit(a, "mark", {Nobody})
      BY <1>4, <2>3, WordsFitIs
    <2>5. Beyond(e) = Lexed(Lexed(ref, "*"), "/")
      BY <2>2, PlaceIs, BeyondIs
    <2>6. PlaceFits(a, Beyond(e), rest, "mark")
      <3> DEFINE m == Lexed(ref, "*")
      <3>1. ref.mode \in {"block", "star"}
        BY <1>7, PlaceIs
      <3>2. m \in Spot /\ m.mode = "star" /\ m.depth = ref.depth
        BY <1>1, <3>1, PlaceIs, LexedInText, LexedIs
      <3> HIDE DEF m
      <3>3. Lexed(m, "/").depth = ref.depth /\ Lexed(m, "/").mode = "code"
        BY <1>1, <3>2, LexedInText
      <3>4. Beyond(e) = Lexed(m, "/")
        BY <2>5 DEF m
      <3> QED  BY <2>3, <3>1, <3>3, <3>4, PlaceIs DEF PlaceFits, Modes
    <2> QED  BY <2>1, <2>2, <2>4, <2>6, RoundTo
  <1> QED  BY <1>3, <1>6, <1>7

\* The end of a file.
LEMMA StopHolds == LexInv /\ Going /\ stop => LexInv'
  <1> SUFFICES ASSUME LexInv, Going, stop  PROVE LexInv'
    OBVIOUS
  <1>1. pc' = "end" /\ win' = << >> /\ told' = Nobody /\ UNCHANGED <<wk, at, ref, before>>
    BY DEF stop
  <1>2. Nobody.as = ""
    BY DEF Nobody
  <1>3. WordsOK'
    <2>1. at' \in Flags /\ win' \in Seq(Char)
      BY <1>1, Zenon, EmptySeq DEF LexInv, WordsOK
    <2>2. told'.as \notin {"func", "call"}
      BY <1>1, <1>2
    <2>3. /\ at'.prophet = None => at'.doubt # "blank"
          /\ before' = "blank" => at'.prophet = None \/ at'.doubt # ""
          /\ before' = "w" => at'.prophet # None /\ at'.doubt # "blank"
          /\ wk' # "c" => at'.infunc = 0
      BY <1>1, Zenon DEF LexInv, WordsOK
    <2> QED  BY <2>1, <2>2, <2>3, Zenon DEF WordsOK
  <1>4. LexedAsC'
    BY <1>1 DEF LexInv, LexedAsC, InBlock, Going
  <1> QED  BY <1>1, <1>3, <1>4 DEF LexInv, Going

\* What the static variables are at first.
LEMMA ResetIs ==
    /\ Reset \in Flags /\ Reset.infunc = 0 /\ Reset.innote = 0 /\ Reset.instr = FALSE
    /\ Reset.prophet = None /\ Reset.doubt = ""
    /\ Outside \in Spot /\ Outside.mode = "code" /\ Outside.depth = 0
  BY DEF Reset, Flags, None, Outside, Spot, Modes

\* The beginning of the next one.
LEMMA StartHolds == LexInv /\ wk \in {"c", "java"} /\ start => LexInv'
  <1> SUFFICES ASSUME LexInv, wk \in {"c", "java"}, start  PROVE LexInv'
    OBVIOUS
  <1>1. ref' = Outside /\ before' = "mark" /\ UNCHANGED <<wk, win, told>>
    BY DEF start
  <1>2. WordsOK
    BY DEF LexInv
  <1>3. CASE c_start
    <2>1. at' = Reset /\ pc' = "read"
      BY <1>3 DEF c_start
    <2>2. WordsOK'
      BY <1>1, <1>2, <2>1, ResetIs DEF WordsOK
    <2>3. PlaceOK'
      BY <1>1, <2>1, ResetIs DEF PlaceOK, Modes, InBlock
    <2> QED  BY <2>2, <2>3, PlaceTells DEF LexInv
  <1>4. CASE java_start
    <2>1. wk = "java" /\ at' = at /\ pc' = IF InText THEN "slipped" ELSE "read"
      BY <1>4 DEF java_start
    <2>2. WordsOK'
      BY <1>1, <1>2, <2>1 DEF WordsOK
    <2>3. ASSUME pc' # "slipped"  PROVE PlaceOK'
      <3>1. at.innote \in {0, 1, 9} /\ at.infunc = 0
        BY <1>2, <2>1, FlagsAre DEF WordsOK
      <3>2. at.innote = 0 /\ ~at.instr
        BY <2>1, <2>3, <3>1 DEF InText
      <3> QED  BY <1>1, <2>1, <3>1, <3>2, ResetIs DEF PlaceOK, Modes, InBlock
    <2> QED  BY <1>1, <2>1, <2>2, <2>3, PlaceTells DEF LexInv
  <1> QED  BY <1>3, <1>4 DEF start

\* The invariant holds at first.
LEMMA LexInitHolds == ParsersInit => LexInv
  <1> SUFFICES ASSUME ParsersInit  PROVE LexInv
    OBVIOUS
  <1>1. at = Reset /\ win = << >> /\ told = Nobody /\ ref = Outside /\ before = "mark"
    BY DEF ParsersInit, LexerInit
  <1>2. Nobody.as = ""
    BY DEF Nobody
  <1>3. WordsOK
    <2>1. at \in Flags /\ win \in Seq(Char)
      BY <1>1, Zenon, ResetIs, EmptySeq
    <2>2. told.as \notin {"func", "call"}
      BY <1>1, <1>2
    <2>3. at.prophet = None /\ at.doubt = "" /\ at.infunc = 0 /\ before = "mark"
      BY <1>1, ResetIs, Zenon
    <2> QED  BY <2>1, <2>2, <2>3 DEF WordsOK
  <1>4. PlaceOK
    BY <1>1, ResetIs DEF PlaceOK, Modes, InBlock
  <1> QED  BY <1>3, <1>4, PlaceTells DEF LexInv

\* Every step of every parser preserves it.
LEMMA LexStepHolds == LexInv /\ [worker_read]_parsers => LexInv'
  <1> SUFFICES ASSUME LexInv, [worker_read]_parsers  PROVE LexInv'
    OBVIOUS
  <1>1. CASE LexerStep
    <2>1. CASE Going
      <3>1. \/ inert \/ newline \/ backslash \/ double_quote \/ single_quote \/ slash
            \/ star \/ directive \/ other_directive \/ open_bracket \/ close_bracket
            \/ open_brace \/ close_brace \/ comma \/ colon \/ semicolon \/ operator_mark
            \/ blank \/ word \/ stop
        BY <1>1, <2>1 DEF LexerStep, Reading, Ended, Going
      <3> QED
        BY <2>1, <3>1, Zenon, InertHolds, NewlineHolds, BackslashHolds, DoubleQuoteHolds,
           SingleQuoteHolds, SlashHolds, StarHolds, DirectiveHolds, OtherDirectiveHolds,
           OpenBracketHolds, CloseBracketHolds, OpenBraceHolds, CloseBraceHolds, CommaHolds,
           ColonHolds, SemicolonHolds, OperatorMarkHolds, BlankHolds, WordHolds, StopHolds
    <2>2. CASE ~Going
      <3>1. wk \in {"c", "java"} /\ start
        BY <1>1, <2>2 DEF LexerStep, Reading, Ended, Going
      <3> QED  BY <3>1, StartHolds
    <2> QED  BY <2>1, <2>2
  <1>2. CASE UNCHANGED lexer /\ UNCHANGED wk /\ wk \notin {"c", "java"}
    <2>1. WordsOK' /\ PlaceOK'
      BY <1>2 DEF LexInv, WordsOK, PlaceOK, lexer, InBlock
    <2> QED  BY <1>2, <2>1, PlaceTells DEF LexInv
  <1>3. CASE SheetStep /\ UNCHANGED lexer
    BY <1>2, <1>3 DEF SheetStep, Reading
  <1>4. CASE ShapesStep(MaxFile) /\ UNCHANGED lexer
    BY <1>2, <1>4 DEF ShapesStep, Reading, Ended
  <1>5. CASE UNCHANGED parsers
    BY <1>5 DEF LexInv, WordsOK, PlaceOK, LexedAsC, InBlock, parsers, lexer
  <1> QED  BY <1>1, <1>3, <1>4, <1>5 DEF worker_read

\* LexedAsC: until a file slips, the flags of the C and of the Java parser say where the
\* language is, in code, a comment or a string, and how many braces are open.
THEOREM CodeIsLexed == ParsersSpec => []LexedAsC
  <1>1. LexInv => LexedAsC
    BY DEF LexInv
  <1> QED  BY <1>1, LexInitHolds, LexStepHolds, PTL DEF ParsersSpec

\* NamesAreWhole: a name the C parser reports is the word before its bracket, but for the
\* cases the property lists.
THEOREM NamesHold == ParsersSpec => []NamesAreWhole
  <1>1. LexInv => NamesAreWhole
    BY DEF LexInv, WordsOK, NamesAreWhole, Told
  <1> QED  BY <1>1, LexInitHolds, LexStepHolds, PTL DEF ParsersSpec

-----------------------------------------------------------------------------
(* The parsers of lines and of drawings. *)

Alive == pc \in {"read", "end"}

CirType ==
    /\ chips \in Seq({"chip"} \X Nat \X Name) /\ pins \in Seq({"pin"} \X Nat \X Nat)
    /\ cir.mt \in Seq([name : Name \X {"tight", "blank"}, body : Nat]) /\ cir.pinbody \in Nat
    /\ cir = [mt |-> cir.mt, pinbody |-> cir.pinbody]
    /\ text \in [file : Nat, block : Nat, blocks : Nat, seen : SUBSET Name, note : BOOLEAN]

\* The match table holds the chips of this file, each under its name, and pinbody is
\* the net that is open.
CirOK ==
    /\ CirType
    /\ \A i \in DOMAIN cir.mt :
         /\ cir.mt[i].body \in DOMAIN chips /\ cir.mt[i].name[1] \in text.seen
         /\ cir.mt[i].name[2] = "tight"
         /\ chips[cir.mt[i].body] = <<"chip", text.file, cir.mt[i].name[1]>>
    /\ \A n \in text.seen : \E i \in DOMAIN cir.mt : cir.mt[i].name = <<n, "tight">>
    /\ text.block # 0 => /\ cir.pinbody \in DOMAIN pins
                         /\ pins[cir.pinbody] = <<"pin", text.file, text.block>>

\* The chip of the line that is open, and the number of its stations.
MapOK ==
    /\ chips \in Seq({"line"} \X Nat \X Nat)
    /\ map = [infunc |-> map.infunc, count |-> map.count, chip |-> map.chip]
    /\ map.count \in Nat /\ map.chip \in Nat /\ map.infunc = text.block
    /\ text \in [file : Nat, block : Nat, blocks : Nat, seen : SUBSET Nat, note : BOOLEAN]
    /\ text.block # 0 => text.blocks # 0
    /\ text.blocks # 0 => /\ map.chip \in DOMAIN chips
                          /\ chips[map.chip] = <<"line", text.file, text.blocks>>
                          /\ text.seen = 0 .. map.count - 1

\* The parser is in a comment where the text is.
AsmOK ==
    /\ text \in [file : Nat, block : Nat, blocks : Nat, seen : {{}}, note : BOOLEAN]
    /\ innote \in BOOLEAN /\ (text.note <=> innote)

Words == {"none", "name", "digits"} \X SUBSET Number
Stacks == [0 .. Levels - 1 -> Nat]
Statics == [rsp : Int, stack : Stacks, inname : Words, innote : BOOLEAN, inpoint : BOOLEAN,
            num : Number \cup {0}]

\* The stack holds the shapes that are open, from the outermost on.
ShapeType ==
    /\ shapes \in Seq(Nat \X Nat)
    /\ draft \in [file : Nat, count : Nat, open : Seq(Nat \ {0})]
    /\ three \in Statics
    /\ points \in [Number \cup {0} -> Nat]
ShapeOK ==
    /\ ShapeType
    /\ three.rsp = Len(draft.open) /\ three.rsp <= Levels
    /\ \A i \in 1 .. Len(draft.open) :
         /\ three.stack[i - 1] \in DOMAIN shapes
         /\ shapes[three.stack[i - 1]] = <<draft.file, draft.open[i]>>

DrawInv ==
    Alive =>
      /\ Said(made) = meant /\ drawn = wanted
      /\ wk = "cir" => CirOK
      /\ wk = "map" => MapOK
      /\ wk = "s" => AsmOK
      /\ wk = "3d" => ShapeOK

\* A record behind the last one leaves the others where they are.
LEMMA AppendIs ==
    ASSUME NEW S, NEW s \in Seq(S), NEW x \in S
    PROVE  /\ Append(s, x) \in Seq(S) /\ Len(Append(s, x)) = Len(s) + 1
           /\ DOMAIN s = 1 .. Len(s) /\ DOMAIN Append(s, x) = 1 .. Len(s) + 1
           /\ Append(s, x)[Len(s) + 1] = x
           /\ \A i \in DOMAIN s : Append(s, x)[i] = s[i]
  OBVIOUS

\* A table has the record where chip_write says, or says nothing.
LEMMA ChipWritten ==
    ASSUME NEW S, NEW s \in Seq(S), NEW x \in S
    PROVE  /\ chip_write(s, x).table = Append(s, x)
           /\ chip_write(s, x).at \in {0, Len(s) + 1}
  <1>1. Len(Append(s, x)) = Len(s) + 1
    BY AppendIs
  <1> QED  BY <1>1 DEF chip_write

\* What cir_read_chip answers: the chip of the name, and nothing else.
LEMMA CirChip ==
    ASSUME CirOK, NEW n \in Name
    PROVE  LET what == <<"chip", text.file, n>>
               c == cir_read_chip(<<n, "tight">>, what)
           IN  /\ c.chips \in Seq({"chip"} \X Nat \X Name)
               /\ c.mt \in Seq([name : Name \X {"tight", "blank"}, body : Nat])
               /\ c.made = IF n \in text.seen THEN {} ELSE {<<<<"name", 0, <<n, "tight">>>>, what>>}
               /\ c.died = "none" =>
                    /\ c.at \in DOMAIN c.chips /\ c.chips[c.at] = what
                    /\ \A i \in DOMAIN c.mt :
                         /\ c.mt[i].body \in DOMAIN c.chips
                         /\ c.mt[i].name[1] \in text.seen \cup {n} /\ c.mt[i].name[2] = "tight"
                         /\ c.chips[c.mt[i].body] = <<"chip", text.file, c.mt[i].name[1]>>
                    /\ \A m \in text.seen \cup {n} : \E i \in DOMAIN c.mt : c.mt[i].name = <<m, "tight">>
  <1> DEFINE what == <<"chip", text.file, n>>
             hits == {i \in DOMAIN cir.mt : cir.mt[i].name = <<n, "tight">>}
             h == CHOOSE i \in hits : TRUE
             new == chip_write(chips, what)
             entry == [name |-> <<n, "tight">>, body |-> new.at]
             c == cir_read_chip(<<n, "tight">>, what)
             Record == {"chip"} \X Nat \X Name
             Entry == [name : Name \X {"tight", "blank"}, body : Nat]
  <1>1. /\ chips \in Seq(Record) /\ cir.mt \in Seq(Entry) /\ text.file \in Nat
        /\ what \in Record
    BY DEF CirOK, CirType
  <1>2. CASE hits # {}
    <2>1. c = [at |-> cir.mt[h].body, chips |-> chips, mt |-> cir.mt, made |-> {}, died |-> "none"]
      BY <1>2 DEF cir_read_chip
    <2>2. h \in DOMAIN cir.mt /\ cir.mt[h].name = <<n, "tight">>
      BY <1>2
    <2> HIDE DEF c, h, new, hits
    <2>3. /\ cir.mt[h].body \in DOMAIN chips /\ n \in text.seen
          /\ chips[cir.mt[h].body] = what
      <3>1. <<n, "tight">>[1] = n
        OBVIOUS
      <3> QED  BY <2>2, <3>1 DEF CirOK
    <2>4. text.seen \cup {n} = text.seen
      BY <2>3
    <2>5. /\ c.chips = chips /\ c.mt = cir.mt /\ c.made = {} /\ c.at = cir.mt[h].body
      BY <2>1
    <2>6. /\ \A i \in DOMAIN c.mt :
               /\ c.mt[i].body \in DOMAIN c.chips
               /\ c.mt[i].name[1] \in text.seen \cup {n} /\ c.mt[i].name[2] = "tight"
               /\ c.chips[c.mt[i].body] = <<"chip", text.file, c.mt[i].name[1]>>
          /\ \A m \in text.seen \cup {n} : \E i \in DOMAIN c.mt : c.mt[i].name = <<m, "tight">>
      BY ONLY <2>4, <2>5, CirOK DEF CirOK
    <2>7. /\ c.chips \in Seq(Record) /\ c.mt \in Seq(Entry) /\ c.made = {}
          /\ c.at \in DOMAIN c.chips /\ c.chips[c.at] = what
      BY ONLY <1>1, <2>3, <2>5
    <2> QED  BY <2>3, <2>6, <2>7 DEF c
  <1>3. CASE hits = {}
    <2>1. /\ c.at = Len(new.table) /\ c.chips = new.table /\ c.mt = Append(cir.mt, entry)
          /\ c.made = {<<<<"name", 0, <<n, "tight">>>>, what>>}
          /\ c.died = "none" => new.at # 0
      BY <1>1, <1>3 DEF cir_read_chip
    <2>2. new.table = Append(chips, what) /\ new.at \in {0, Len(chips) + 1} /\ new.at \in Nat
      <3> HIDE DEF what, Record
      <3>1. Len(chips) \in Nat
        BY <1>1
      <3> QED  BY <1>1, <3>1, ChipWritten
    <2>3. entry \in Entry /\ entry.name = <<n, "tight">> /\ entry.body = new.at
      BY <2>2
    <2>4. n \notin text.seen
      BY <1>3 DEF CirOK
    <2> DEFINE table == Append(chips, what)
               mt == Append(cir.mt, entry)
    <2>5. /\ table \in Seq(Record) /\ Len(table) = Len(chips) + 1
          /\ DOMAIN chips = 1 .. Len(chips) /\ DOMAIN table = 1 .. Len(chips) + 1
          /\ table[Len(chips) + 1] = what /\ \A i \in DOMAIN chips : table[i] = chips[i]
          /\ Len(chips) \in Nat
      <3> HIDE DEF what, Record
      <3> QED  BY <1>1, AppendIs
    <2>6. /\ mt \in Seq(Entry) /\ Len(cir.mt) \in Nat
          /\ DOMAIN cir.mt = 1 .. Len(cir.mt) /\ DOMAIN mt = 1 .. Len(cir.mt) + 1
          /\ mt[Len(cir.mt) + 1] = entry /\ \A i \in DOMAIN cir.mt : mt[i] = cir.mt[i]
      <3> HIDE DEF entry, Entry
      <3> QED  BY <1>1, <2>3, AppendIs
    <2>7. /\ c.chips = table /\ c.mt = mt /\ c.at = Len(table)
      BY <2>1, <2>2
    <2> HIDE DEF c, new, entry, hits, table, mt, Record, Entry
    <2>8. ASSUME new.at # 0
          PROVE  /\ c.at \in DOMAIN table /\ table[c.at] = what
                 /\ \A i \in DOMAIN mt :
                      /\ mt[i].body \in DOMAIN table
                      /\ mt[i].name[1] \in text.seen \cup {n} /\ mt[i].name[2] = "tight"
                      /\ table[mt[i].body] = <<"chip", text.file, mt[i].name[1]>>
      <3>1. new.at = Len(chips) + 1
        BY <2>2, <2>8
      <3>2. c.at \in DOMAIN table /\ table[c.at] = what
        BY <2>5, <2>7
      <3>3. ASSUME NEW i \in DOMAIN mt
            PROVE  /\ mt[i].body \in DOMAIN table
                   /\ mt[i].name[1] \in text.seen \cup {n} /\ mt[i].name[2] = "tight"
                   /\ table[mt[i].body] = <<"chip", text.file, mt[i].name[1]>>
        <4>1. CASE i \in DOMAIN cir.mt
          <5>1. mt[i] = cir.mt[i]
            BY <2>6, <4>1
          <5>2. /\ cir.mt[i].body \in DOMAIN chips /\ cir.mt[i].name[1] \in text.seen
                /\ cir.mt[i].name[2] = "tight"
                /\ chips[cir.mt[i].body] = <<"chip", text.file, cir.mt[i].name[1]>>
            BY <4>1 DEF CirOK
          <5>3. cir.mt[i].body \in DOMAIN table /\ table[cir.mt[i].body] = chips[cir.mt[i].body]
            BY <2>5, <5>2
          <5> QED  BY <5>1, <5>2, <5>3
        <4>2. CASE i = Len(cir.mt) + 1
          <5>1. mt[i].body = Len(chips) + 1 /\ mt[i].name = <<n, "tight">>
            BY <2>3, <2>6, <3>1, <4>2
          <5>2. mt[i].name[1] = n /\ mt[i].name[2] = "tight"
            BY <5>1
          <5> QED  BY <2>5, <5>1, <5>2 DEF what
        <4> QED  BY <2>6, <3>3, <4>1, <4>2
      <3> QED  BY <3>2, <3>3
    <2>9. \A m \in text.seen \cup {n} : \E i \in DOMAIN mt : mt[i].name = <<m, "tight">>
      <3> SUFFICES ASSUME NEW m \in text.seen \cup {n}
                   PROVE  \E i \in DOMAIN mt : mt[i].name = <<m, "tight">>
        OBVIOUS
      <3>1. CASE m = n
        BY <2>3, <2>6, <3>1
      <3>2. CASE m \in text.seen
        <4>1. PICK i \in DOMAIN cir.mt : cir.mt[i].name = <<m, "tight">>
          BY <3>2 DEF CirOK
        <4>2. i \in DOMAIN mt /\ mt[i] = cir.mt[i]
          BY <2>6
        <4> QED  BY <4>1, <4>2
      <3> QED  BY <3>1, <3>2
    <2> QED
      BY <2>1, <2>4, <2>5, <2>6, <2>7, <2>8, <2>9 DEF c, Record, Entry
  <1> QED  BY <1>2, <1>3

\* What a line of a circuit means, and the parser makes of it, is the same.
LEMMA CirHolds == CirOK /\ cir_read /\ Alive' => made' = meant' /\ CirOK'
  <1> SUFFICES ASSUME CirOK, cir_read, Alive'  PROVE made' = meant' /\ CirOK'
    OBVIOUS
  <1>1. PICK l \in CirLine :
          /\ cir_read_line(l) /\ meant' = CirMeant(l)
          /\ text' = [text EXCEPT
                        !.block = CASE l.k = "open" -> text.blocks + 1 [] l.k = "close" -> 0 [] OTHER -> @,
                        !.blocks = IF l.k = "open" THEN @ + 1 ELSE @,
                        !.seen = IF l.k \in {"foot", "value"} THEN @ \cup {l.name} ELSE @]
    BY Zenon DEF cir_read
  <1>2. /\ l.lost \in {"none", "comment", "eof"} /\ l.k \in {"open", "foot", "value", "close"}
        /\ l.k # "close" => l.name \in Name
        /\ l.k = "close" => l.lost = "none"
    BY DEF CirLine
  <1>3. /\ chips \in Seq({"chip"} \X Nat \X Name) /\ pins \in Seq({"pin"} \X Nat \X Nat)
        /\ cir.mt \in Seq([name : Name \X {"tight", "blank"}, body : Nat]) /\ cir.pinbody \in Nat
        /\ cir = [mt |-> cir.mt, pinbody |-> cir.pinbody]
        /\ text \in [file : Nat, block : Nat, blocks : Nat, seen : SUBSET Name, note : BOOLEAN]
    BY DEF CirOK, CirType
  <1>4. /\ text.file \in Nat /\ text.block \in Nat /\ text.blocks \in Nat /\ text.seen \subseteq Name
        /\ text.note \in BOOLEAN
    BY <1>3, Zenon
  <1>5. /\ text' \in [file : Nat, block : Nat, blocks : Nat, seen : SUBSET Name, note : BOOLEAN]
        /\ text'.file = text.file
        /\ text'.block = CASE l.k = "open" -> text.blocks + 1 [] l.k = "close" -> 0 [] OTHER -> text.block
        /\ text'.seen = IF l.k \in {"foot", "value"} THEN text.seen \cup {l.name} ELSE text.seen
    <2> DEFINE b == CASE l.k = "open" -> text.blocks + 1 [] l.k = "close" -> 0 [] OTHER -> text.block
               bs == IF l.k = "open" THEN text.blocks + 1 ELSE text.blocks
               sn == IF l.k \in {"foot", "value"} THEN text.seen \cup {l.name} ELSE text.seen
    <2>1. text' = [text EXCEPT !.block = b, !.blocks = bs, !.seen = sn]
      BY <1>1
    <2>2. b \in Nat /\ bs \in Nat /\ sn \subseteq Name
      BY <1>2, <1>4
    <2> HIDE DEF b, bs, sn
    <2>3. /\ text' \in [file : Nat, block : Nat, blocks : Nat, seen : SUBSET Name, note : BOOLEAN]
          /\ text'.file = text.file /\ text'.block = b /\ text'.seen = sn
      BY <1>3, <2>1, <2>2
    <2> QED  BY <2>3 DEF b, sn
  <1>6. pc' # "slipped" /\ pc' # "crash" /\ pc' # "overrun"
    BY DEF Alive
  <1>7. l.lost = "none"
    BY <1>1, <1>2, <1>6 DEF cir_read_line, Comes, CirSlips
  <1>8. CASE l.k = "close"
    <2>1. made' = {} /\ UNCHANGED <<chips, pins, cir>> /\ meant' = {}
      BY <1>1, <1>7, <1>8 DEF cir_read_line, CirMeant
    <2>2. text'.block = 0 /\ text'.seen = text.seen /\ text'.file = text.file
      BY <1>5, <1>8
    <2> QED  BY <1>3, <1>5, <2>1, <2>2 DEF CirOK, CirType
  <1>9. CASE l.k = "open"
    <2> DEFINE what == <<"pin", text.file, text.blocks + 1>>
               name == <<"name", 0, <<l.name, "tight">>>>
    <2>0. Spelled(l) = <<l.name, "tight">>
      <3>1. ~CirSlips(l)
        <4>1. \E v \in {"none", "overrun"} : Comes(v, CirSlips(l))
          <5>1. Comes(IF Inside(pin_write(pins, what).at) THEN "none" ELSE "overrun", CirSlips(l))
            BY <1>1, <1>7, <1>9, Zenon DEF cir_read_line
          <5> DEFINE v == IF Inside(pin_write(pins, what).at) THEN "none" ELSE "overrun"
          <5>2. v \in {"none", "overrun"}
            OBVIOUS
          <5> HIDE DEF v
          <5>3. Comes(v, CirSlips(l))
            BY <5>1 DEF v
          <5> QED  BY <5>2, <5>3
        <4> QED  BY <1>6, <4>1 DEF Comes
      <3> QED  BY <1>9, <3>1 DEF CirSlips, Spelled
    <2>1. /\ made' = {<<Append(pins, what)[Len(pins) + 1], name>>}
          /\ pins' = Append(pins, what) /\ cir' = [cir EXCEPT !.pinbody = Len(pins) + 1]
          /\ UNCHANGED chips
          /\ meant' = {<<what, name>>}
      <3>1. /\ made' = {<<Append(pins, what)[Len(pins) + 1], <<"name", 0, Spelled(l)>>>>}
            /\ pins' = Append(pins, what) /\ cir' = [cir EXCEPT !.pinbody = Len(pins) + 1]
            /\ UNCHANGED chips
            /\ meant' = {<<what, name>>}
        BY <1>1, <1>7, <1>9 DEF cir_read_line, CirMeant, pin_write
      <3> QED  BY ONLY <2>0, <3>1
    <2>2. what \in {"pin"} \X Nat \X Nat
      BY <1>4
    <2>3. /\ pins' \in Seq({"pin"} \X Nat \X Nat) /\ Len(pins) \in Nat
          /\ Append(pins, what)[Len(pins) + 1] = what /\ Len(pins) + 1 \in DOMAIN pins'
      <3> HIDE DEF what
      <3> QED  BY <1>3, <2>1, <2>2, AppendIs
    <2> HIDE DEF what, name
    <2>4. /\ cir'.mt = cir.mt /\ cir'.pinbody = Len(pins) + 1
          /\ cir' = [mt |-> cir'.mt, pinbody |-> cir'.pinbody]
      BY <1>3, <2>1
    <2>5. CirType'
      BY ONLY <1>3, <1>5, <2>1, <2>3, <2>4 DEF CirType
    <2>6. text'.seen = text.seen /\ text'.file = text.file /\ text'.block = text.blocks + 1
      BY <1>5, <1>9
    <2>7. pins'[cir'.pinbody] = <<"pin", text'.file, text'.block>>
      BY <2>1, <2>3, <2>4, <2>6 DEF what
    <2>8. made' = meant'
      BY <2>1, <2>3
    <2>9. CirOK'
      <3>1. \A i \in DOMAIN cir'.mt :
               /\ cir'.mt[i].body \in DOMAIN chips' /\ cir'.mt[i].name[1] \in text'.seen
               /\ cir'.mt[i].name[2] = "tight"
               /\ chips'[cir'.mt[i].body] = <<"chip", text'.file, cir'.mt[i].name[1]>>
        BY <2>1, <2>4, <2>6 DEF CirOK
      <3>2. \A n \in text'.seen : \E i \in DOMAIN cir'.mt : cir'.mt[i].name = <<n, "tight">>
        <4>1. \A n \in text.seen : \E i \in DOMAIN cir.mt : cir.mt[i].name = <<n, "tight">>
          BY DEF CirOK
        <4> QED  BY ONLY <2>4, <2>6, <4>1
      <3>3. cir'.pinbody \in DOMAIN pins'
        BY ONLY <2>3, <2>4
      <3> QED  BY ONLY <2>5, <2>7, <3>1, <3>2, <3>3 DEF CirOK
    <2> QED  BY <2>8, <2>9
  <1>10. CASE l.k \in {"foot", "value"}
    <2> DEFINE what == <<"chip", text.file, l.name>>
               c == cir_read_chip(<<l.name, "tight">>, what)
    <2>1. l.name \in Name
      BY <1>2, <1>10
    <2>2. l.k = "foot" => ~l.spaced /\ text.block # 0
      <3> SUFFICES ASSUME l.k = "foot"  PROVE ~CirSlips(l)
        BY DEF CirSlips
      <3> DEFINE d == cir_read_chip(Spelled(l), what).died
                 v == IF d = "none" /\ cir.pinbody = 0 THEN "crash" ELSE d
      <3>1. Comes(v, CirSlips(l))
        BY <1>1, <1>7 DEF cir_read_line
      <3>2. d \in {"none", "crash", "overrun"}
        BY DEF cir_read_chip
      <3> HIDE DEF d
      <3>3. v \in {"none", "crash", "overrun"}
        BY <3>2
      <3> HIDE DEF v
      <3> QED  BY <1>6, <3>1, <3>3 DEF Comes
    <2>3. Spelled(l) = <<l.name, "tight">>
      BY <1>10, <2>2 DEF Spelled
    <2>4. /\ chips' = c.chips /\ cir' = [cir EXCEPT !.mt = c.mt] /\ UNCHANGED pins
          /\ l.k = "foot" =>
               made' = c.made \cup (IF cir.pinbody = 0 THEN {} ELSE {<<pins[cir.pinbody], c.chips[c.at]>>})
          /\ l.k = "value" => made' = c.made \cup {<<<<"value", 0, 0>>, c.chips[c.at]>>}
          /\ l.k = "foot" =>
               Comes(IF c.died = "none" /\ cir.pinbody = 0 THEN "crash" ELSE c.died, CirSlips(l))
          /\ l.k = "value" => Comes(c.died, FALSE)
      <3> HIDE DEF what
      <3>1. CASE l.k = "foot"
        <4>1. cir_read_line(l) <=>
                 /\ made' = c.made \cup
                            (IF cir.pinbody = 0 THEN {} ELSE {<<pins[cir.pinbody], c.chips[c.at]>>})
                 /\ chips' = c.chips /\ cir' = [cir EXCEPT !.mt = c.mt]
                 /\ Comes(IF c.died = "none" /\ cir.pinbody = 0 THEN "crash" ELSE c.died, CirSlips(l))
                 /\ UNCHANGED pins
          BY <1>7, <2>3, <3>1, Zenon DEF cir_read_line, what
        <4> HIDE DEF c
        <4> QED  BY <1>1, <3>1, <4>1, Zenon
      <3>2. CASE l.k = "value"
        <4>1. cir_read_line(l) <=>
                 /\ made' = c.made \cup {<<<<"value", 0, 0>>, c.chips[c.at]>>}
                 /\ chips' = c.chips /\ cir' = [cir EXCEPT !.mt = c.mt]
                 /\ Comes(c.died, FALSE)
                 /\ UNCHANGED pins
          BY <1>7, <2>3, <3>2, Zenon DEF cir_read_line, what
        <4> HIDE DEF c
        <4> QED  BY <1>1, <3>2, <4>1, Zenon
      <3> QED  BY <1>10, <3>1, <3>2
    <2>5. c.died \in {"none", "crash", "overrun"}
      <3> HIDE DEF what
      <3> QED  BY DEF cir_read_chip
    <2>6. /\ c.chips \in Seq({"chip"} \X Nat \X Name)
          /\ c.mt \in Seq([name : Name \X {"tight", "blank"}, body : Nat])
          /\ c.made = IF l.name \in text.seen THEN {}
                      ELSE {<<<<"name", 0, <<l.name, "tight">>>>, what>>}
          /\ c.died = "none" =>
               /\ c.at \in DOMAIN c.chips /\ c.chips[c.at] = what
               /\ \A i \in DOMAIN c.mt :
                    /\ c.mt[i].body \in DOMAIN c.chips
                    /\ c.mt[i].name[1] \in text.seen \cup {l.name} /\ c.mt[i].name[2] = "tight"
                    /\ c.chips[c.mt[i].body] = <<"chip", text.file, c.mt[i].name[1]>>
               /\ \A m \in text.seen \cup {l.name} : \E i \in DOMAIN c.mt : c.mt[i].name = <<m, "tight">>
      BY <2>1, CirChip
    <2> HIDE DEF c
    <2>7. c.died = "none"
      BY <1>6, <1>10, <2>4, <2>5 DEF Comes
    <2>8. text'.seen = text.seen \cup {l.name} /\ text'.file = text.file /\ text'.block = text.block
      BY <1>5, <1>10
    <2>9. /\ cir'.mt = c.mt /\ cir'.pinbody = cir.pinbody
          /\ cir' = [mt |-> cir'.mt, pinbody |-> cir'.pinbody]
      BY <1>3, <2>4
    <2>10. CirType'
      BY ONLY <1>3, <1>5, <2>4, <2>6, <2>9 DEF CirType
    <2>11. CirOK'
      <3>1. text'.block # 0 => /\ cir'.pinbody \in DOMAIN pins'
                               /\ pins'[cir'.pinbody] = <<"pin", text'.file, text'.block>>
        BY <2>4, <2>8, <2>9 DEF CirOK
      <3>2. \A i \in DOMAIN cir'.mt :
               /\ cir'.mt[i].body \in DOMAIN chips' /\ cir'.mt[i].name[1] \in text'.seen
               /\ cir'.mt[i].name[2] = "tight"
               /\ chips'[cir'.mt[i].body] = <<"chip", text'.file, cir'.mt[i].name[1]>>
        <4>1. chips' = c.chips
          BY <2>4
        <4>2. \A i \in DOMAIN c.mt :
                /\ c.mt[i].body \in DOMAIN c.chips
                /\ c.mt[i].name[1] \in text.seen \cup {l.name} /\ c.mt[i].name[2] = "tight"
                /\ c.chips[c.mt[i].body] = <<"chip", text.file, c.mt[i].name[1]>>
          BY <2>6, <2>7
        <4> HIDE DEF what
        <4> QED  BY ONLY <4>1, <4>2, <2>8, <2>9
      <3>3. \A n \in text'.seen : \E i \in DOMAIN cir'.mt : cir'.mt[i].name = <<n, "tight">>
        BY ONLY <2>6, <2>7, <2>8, <2>9
      <3> QED  BY ONLY <2>10, <3>1, <3>2, <3>3 DEF CirOK
    <2>12. made' = meant'
      <3> DEFINE first == IF l.name \in text.seen THEN {}
                          ELSE {<<<<"name", 0, <<l.name, "tight">>>>, what>>}
      <3>1. c.made = first /\ c.chips[c.at] = what
        BY <2>6, <2>7
      <3>2. CASE l.k = "foot"
        <4>1. cir.pinbody # 0 /\ pins[cir.pinbody] = <<"pin", text.file, text.block>>
          BY <1>3, <2>2, <3>2 DEF CirOK
        <4>2. meant' = first \cup {<<<<"pin", text.file, text.block>>, what>>}
          BY <1>1, <2>2, <3>2 DEF CirMeant
        <4> HIDE DEF first, what
        <4> QED  BY <2>4, <3>1, <3>2, <4>1, <4>2
      <3>3. CASE l.k = "value"
        <4>1. meant' = first \cup {<<<<"value", 0, 0>>, what>>}
          BY <1>1, <3>3 DEF CirMeant
        <4> HIDE DEF first, what
        <4> QED  BY <2>4, <3>1, <3>3, <4>1
      <3> QED  BY <1>10, <3>2, <3>3
    <2> QED  BY <2>11, <2>12
  <1> QED  BY <1>2, <1>8, <1>9, <1>10

\* The next file of circuits begins with an empty match table and no net open.
LEMMA CirOpens == CirOK /\ cir_start /\ text' = Opened(text.file + 1) /\ UNCHANGED <<chips, pins>> => CirOK'
  <1> SUFFICES ASSUME CirOK, cir_start, text' = Opened(text.file + 1), UNCHANGED <<chips, pins>>
               PROVE  CirOK'
    OBVIOUS
  <1>1. CirType
    BY DEF CirOK
  <1>2. /\ cir'.mt = << >> /\ cir'.pinbody = cir.pinbody
        /\ cir' = [mt |-> cir'.mt, pinbody |-> cir'.pinbody]
    BY <1>1 DEF cir_start, CirType
  <1>3. text.file \in Nat
    BY <1>1, Zenon DEF CirType
  <1>4. /\ text' \in [file : Nat, block : Nat, blocks : Nat, seen : SUBSET Name, note : BOOLEAN]
        /\ text'.block = 0 /\ text'.seen = {}
    BY <1>3 DEF Opened
  <1>5. CirType'
    BY <1>1, <1>2, <1>4 DEF CirType
  <1> QED  BY <1>2, <1>4, <1>5 DEF CirOK

\* How many numbers there are from zero on.
LEMMA CountIs ==
    ASSUME NEW n \in Nat
    PROVE  Cardinality(0 .. n - 1) = n
  <1>1. 0 \in Int /\ n - 1 \in Int
    OBVIOUS
  <1>2. Cardinality(0 .. n - 1) = IF 0 > n - 1 THEN 0 ELSE (n - 1) - 0 + 1
    BY <1>1, FS_Interval
  <1> QED  BY <1>2

\* The next file of maps begins outside of every line.
LEMMA MapOpens == MapOK /\ map_start /\ text' = Opened(text.file + 1) /\ UNCHANGED chips => MapOK'
  <1> SUFFICES ASSUME MapOK, map_start, text' = Opened(text.file + 1), UNCHANGED chips  PROVE MapOK'
    OBVIOUS
  <1>1. /\ map = [infunc |-> map.infunc, count |-> map.count, chip |-> map.chip]
        /\ map.count \in Nat /\ map.chip \in Nat /\ chips' \in Seq({"line"} \X Nat \X Nat)
    BY DEF MapOK
  <1>2. /\ map'.infunc = 0 /\ map'.count = map.count /\ map'.chip = map.chip
        /\ map' = [infunc |-> map'.infunc, count |-> map'.count, chip |-> map'.chip]
    BY <1>1 DEF map_start
  <1>3. text.file \in Nat
    BY Zenon DEF MapOK
  <1>4. /\ text' \in [file : Nat, block : Nat, blocks : Nat, seen : SUBSET Nat, note : BOOLEAN]
        /\ text'.block = 0 /\ text'.blocks = 0
    BY <1>3 DEF Opened
  <1> QED  BY <1>1, <1>2, <1>4 DEF MapOK

\* What a line of a map means, and the parser makes of it, is the same.
LEMMA MapHolds == MapOK /\ map_read /\ Alive' => {Bare(m) : m \in made'} = meant' /\ MapOK'
  <1> SUFFICES ASSUME MapOK, map_read, Alive'  PROVE {Bare(m) : m \in made'} = meant' /\ MapOK'
    OBVIOUS
  <1> DEFINE line(l) == l.k \in {"name", "name_open"} /\ text.block = 0
             station(l) == l.k \in {"name", "name_open"} /\ text.block # 0
             b(l) == CASE l.k \in {"open", "name_open"} -> text.block + 1
                       [] l.k = "close" /\ text.block > 0 -> text.block - 1 [] OTHER -> text.block
             bs(l) == IF line(l) THEN text.blocks + 1 ELSE text.blocks
             sn(l) == IF line(l) THEN {}
                      ELSE IF station(l) THEN text.seen \cup {Cardinality(text.seen)} ELSE text.seen
  <1>1. PICK l \in MapLine :
          /\ meant' = MapMeant(l)
          /\ IF l.lost = "none" THEN map_read_line(l) ELSE made' = {} /\ UNCHANGED <<map, chips>>
          /\ text' = [text EXCEPT !.block = b(l), !.blocks = bs(l), !.seen = sn(l)]
          /\ Comes(IF l.lost = "none" /\ (line(l) \/ station(l)) /\ map'.chip = 0 THEN "crash" ELSE "none",
                   MapSlips(l))
    BY DEF map_read
  <1>2. l.k \in {"name_open", "name", "open", "close", "name_close"} /\ l.lost \in {"none", "eof"}
    BY DEF MapLine
  <1>3. /\ map = [infunc |-> map.infunc, count |-> map.count, chip |-> map.chip]
        /\ map.count \in Nat /\ map.chip \in Nat /\ map.infunc = text.block
        /\ chips \in Seq({"line"} \X Nat \X Nat)
        /\ text \in [file : Nat, block : Nat, blocks : Nat, seen : SUBSET Nat, note : BOOLEAN]
        /\ text.block # 0 => text.blocks # 0
        /\ text.blocks # 0 => /\ map.chip \in DOMAIN chips
                              /\ chips[map.chip] = <<"line", text.file, text.blocks>>
                              /\ text.seen = 0 .. map.count - 1
    BY DEF MapOK
  <1>4. /\ text.file \in Nat /\ text.block \in Nat /\ text.blocks \in Nat /\ text.seen \subseteq Nat
    BY <1>3, Zenon
  <1>5. pc' # "slipped" /\ pc' # "crash"
    BY DEF Alive
  <1>6. /\ ~MapSlips(l) /\ (l.lost = "none" /\ (line(l) \/ station(l)) => map'.chip # 0)
    BY <1>1, <1>5 DEF Comes
  <1>7. /\ l.lost = "none" /\ l.k # "name_close" /\ (l.k = "close" => text.block # 0)
        /\ l.k = "open" => text.blocks # 0
    BY <1>2, <1>6 DEF MapSlips
  <1>8. Cardinality(text.seen) = map.count \/ text.blocks = 0
    BY <1>3, CountIs
  <1>9. map_read_line(l) /\ meant' = MapMeant(l)
    BY <1>1, <1>7
  <1>10. /\ text' \in [file : Nat, block : Nat, blocks : Nat, seen : SUBSET Nat, note : BOOLEAN]
         /\ text'.file = text.file /\ text'.block = b(l) /\ text'.blocks = bs(l) /\ text'.seen = sn(l)
    <2>1. text.block # 0 => Cardinality(text.seen) \in Nat
      BY <1>3, <1>8
    <2>2. b(l) \in Nat /\ bs(l) \in Nat /\ sn(l) \subseteq Nat
      BY <1>4, <2>1
    <2> HIDE DEF b, bs, sn
    <2> QED  BY <1>1, <1>3, <2>2
  <1>11. CASE l.k \in {"open", "close"}
    <2>1. /\ map' = [map EXCEPT !.infunc = IF l.k = "open" THEN @ + 1 ELSE @ - 1]
          /\ made' = {} /\ UNCHANGED chips
      BY <1>9, <1>11 DEF map_read_line
    <2>2. meant' = {}
      BY <1>9, <1>11 DEF MapMeant
    <2>3. /\ map'.infunc = IF l.k = "open" THEN map.infunc + 1 ELSE map.infunc - 1
          /\ map'.count = map.count /\ map'.chip = map.chip
          /\ map' = [infunc |-> map'.infunc, count |-> map'.count, chip |-> map'.chip]
      BY <1>3, <2>1
    <2>4. /\ text'.block = map'.infunc /\ text'.blocks = text.blocks /\ text'.seen = text.seen
          /\ text.blocks # 0
      <3>1. text.blocks # 0 /\ ~line(l) /\ ~station(l)
        BY <1>3, <1>7, <1>11
      <3>2. text'.blocks = text.blocks /\ text'.seen = text.seen
        BY <1>10, <3>1
      <3>3. text'.block = map'.infunc
        <4>1. b(l) = IF l.k = "open" THEN text.block + 1 ELSE text.block - 1
          BY <1>4, <1>7, <1>11
        <4> HIDE DEF b
        <4> QED  BY <1>3, <1>10, <2>3, <4>1
      <3> QED  BY <3>1, <3>2, <3>3
    <2> QED  BY <1>3, <1>10, <2>1, <2>2, <2>3, <2>4 DEF MapOK
  <1>12. CASE line(l)
    <2> DEFINE what == <<"line", text.file, text.blocks + 1>>
               new == chip_write(chips, what)
               o == IF l.k = "name_open" THEN 1 ELSE 0
    <2>1. /\ map' = [infunc |-> o, count |-> 0, chip |-> new.at]
          /\ made' = {<<"line", new.table[Len(new.table)], map.count>>} /\ chips' = new.table
      BY <1>3, <1>9, <1>12 DEF map_read_line
    <2>2. meant' = {<<"line", what>>}
      BY <1>9, <1>12 DEF MapMeant
    <2>3. what \in {"line"} \X Nat \X Nat /\ Len(chips) \in Nat
      BY <1>3, <1>4
    <2>4. /\ new.table = Append(chips, what) /\ new.at \in {0, Len(chips) + 1}
          /\ new.table \in Seq({"line"} \X Nat \X Nat) /\ Len(new.table) = Len(chips) + 1
          /\ Len(chips) + 1 \in DOMAIN new.table /\ new.table[Len(chips) + 1] = what
      <3> HIDE DEF what, new
      <3>1. new.table = Append(chips, what) /\ new.at \in {0, Len(chips) + 1}
        BY <1>3, <2>3, ChipWritten DEF new
      <3> QED  BY <1>3, <2>3, <3>1, AppendIs
    <2> HIDE DEF what, new
    <2>5. {Bare(m) : m \in made'} = meant'
      <3>1. Bare(<<"line", what, map.count>>) = <<"line", what>>
        BY DEF Bare
      <3>2. made' = {<<"line", what, map.count>>}
        BY <2>1, <2>4
      <3> QED  BY ONLY <2>2, <3>1, <3>2
    <2>6. map'.infunc = o /\ map'.count = 0 /\ map'.chip = new.at /\ new.at # 0
      BY <1>6, <1>7, <1>12, <2>1
    <2>7. new.at = Len(chips) + 1
      BY <2>4, <2>6
    <2>8. text'.block = o /\ text'.blocks = text.blocks + 1 /\ text'.seen = {}
      BY <1>7, <1>10, <1>12
    <2>9. /\ map' = [infunc |-> map'.infunc, count |-> map'.count, chip |-> map'.chip]
          /\ map'.count \in Nat /\ map'.chip \in Nat /\ map'.infunc = text'.block
          /\ chips' \in Seq({"line"} \X Nat \X Nat) /\ map'.chip \in DOMAIN chips'
      BY <2>1, <2>3, <2>4, <2>6, <2>7, <2>8
    <2>10. chips'[map'.chip] = <<"line", text'.file, text'.blocks>>
      BY <1>10, <2>1, <2>4, <2>6, <2>7, <2>8 DEF what
    <2>11. text'.blocks # 0 /\ text'.seen = 0 .. map'.count - 1
      BY <1>4, <2>6, <2>8
    <2> QED  BY <1>10, <2>5, <2>9, <2>10, <2>11 DEF MapOK
  <1>13. CASE station(l)
    <2> DEFINE o == IF l.k = "name_open" THEN text.block + 1 ELSE text.block
    <2>1. /\ map' = [map EXCEPT !.infunc = IF l.k = "name_open" THEN @ + 1 ELSE @, !.count = @ + 1]
          /\ made' = IF map.chip = 0 THEN {} ELSE {<<"station", chips[map.chip], map.count>>}
          /\ UNCHANGED chips
      BY <1>3, <1>9, <1>13 DEF map_read_line
    <2>2. meant' = {<<"station", <<"line", text.file, text.blocks>>, Cardinality(text.seen)>>}
      BY <1>9, <1>13 DEF MapMeant
    <2>3. /\ map'.infunc = o /\ map'.count = map.count + 1 /\ map'.chip = map.chip
          /\ map' = [infunc |-> map'.infunc, count |-> map'.count, chip |-> map'.chip]
      BY <1>3, <2>1
    <2>4. /\ text.blocks # 0 /\ map.chip # 0 /\ Cardinality(text.seen) = map.count
          /\ map.chip \in DOMAIN chips /\ text.seen = 0 .. map.count - 1
          /\ chips[map.chip] = <<"line", text.file, text.blocks>>
      BY <1>3, <1>8, <1>13
    <2>5. {Bare(m) : m \in made'} = meant'
      <3> DEFINE s == <<"station", <<"line", text.file, text.blocks>>, map.count>>
      <3>1. s[1] = "station"
        OBVIOUS
      <3>2. made' = {s} /\ meant' = {s}
        BY <2>1, <2>2, <2>4
      <3> HIDE DEF s
      <3>3. Bare(s) = s
        BY <3>1 DEF Bare
      <3> QED  BY ONLY <3>2, <3>3
    <2>6. text'.block = o /\ text'.blocks = text.blocks /\ text'.seen = text.seen \cup {map.count}
      BY <1>7, <1>10, <1>13, <2>4
    <2>7. text'.seen = 0 .. map'.count - 1
      <3>1. map.count \in Nat /\ text'.seen = (0 .. map.count - 1) \cup {map.count}
        BY <1>3, <2>4, <2>6
      <3>2. (0 .. map.count - 1) \cup {map.count} = 0 .. map.count
        BY ONLY <3>1
      <3>3. map'.count - 1 = map.count
        BY ONLY <2>3, <3>1
      <3> QED  BY ONLY <3>1, <3>2, <3>3
    <2>8. map'.count \in Nat /\ map'.chip \in Nat /\ chips' \in Seq({"line"} \X Nat \X Nat)
      BY <1>3, <2>1, <2>3
    <2>9. map'.chip \in DOMAIN chips' /\ chips'[map'.chip] = <<"line", text'.file, text'.blocks>>
      BY <1>10, <2>1, <2>3, <2>4, <2>6
    <2> QED  BY <1>10, <2>3, <2>4, <2>5, <2>6, <2>7, <2>8, <2>9 DEF MapOK
  <1> QED  BY <1>2, <1>7, <1>11, <1>12, <1>13

\* A line of assembler: what is in a comment, and what is not.
LEMMA AsmHolds == AsmOK /\ asm_read /\ Alive' => made' = meant' /\ AsmOK'
  <1> SUFFICES ASSUME AsmOK, asm_read, Alive'  PROVE made' = meant' /\ AsmOK'
    OBVIOUS
  <1> DEFINE now(l) == CASE l.note = "opens" \/ l.k = "string" -> TRUE
                         [] l.note \in {"before", "behind", "shuts", "says"} -> FALSE
                         [] OTHER -> innote
             then(l) == CASE l.note = "opens" -> TRUE [] l.note \in {"shuts", "says"} -> FALSE
                          [] OTHER -> text.note
  <1>1. PICK l \in AsmLine :
          /\ l.note \in {"shuts", "says"} <=> (text.note /\ l.note # "none")
          /\ innote' = now(l)
          /\ made' = IF innote' THEN {} ELSE asm_read_line(l)
          /\ meant' = AsmMeant(l)
          /\ text' = [text EXCEPT !.note = then(l)]
          /\ Comes("none", AsmSlips(l))
    BY Zenon DEF asm_read
  <1>2. /\ l.k \in {"entry", "call", "call*", "callee:", "label:", "x:", "other", "string"}
        /\ l.note \in {"none", "before", "behind", "opens", "shuts", "says"}
        /\ l.k = "string" => l.note = "none"
    BY DEF AsmLine
  <1>3. ~AsmSlips(l)
    BY <1>1 DEF Alive, Comes
  <1>4. /\ text \in [file : Nat, block : Nat, blocks : Nat, seen : {{}}, note : BOOLEAN]
        /\ innote \in BOOLEAN /\ (text.note <=> innote)
    BY DEF AsmOK
  <1>5. now(l) \in BOOLEAN /\ then(l) \in BOOLEAN
    BY <1>4, Zenon
  <1>6. /\ text' \in [file : Nat, block : Nat, blocks : Nat, seen : {{}}, note : BOOLEAN]
        /\ text'.note = then(l)
    <2> HIDE DEF then
    <2> QED  BY <1>1, <1>4, <1>5
  <1>7. CASE l.note \in {"opens", "before", "shuts"}
    <2>1. AsmMeant(l) = {}
      BY <1>2, <1>3, <1>7 DEF AsmSlips, AsmMeant
    <2>2. made' = {}
      BY <1>1, <1>2, <1>7 DEF asm_read_line
    <2>3. now(l) <=> then(l)
      BY <1>1, <1>2, <1>4, <1>7
    <2> QED  BY <1>1, <1>5, <1>6, <2>1, <2>2, <2>3, Zenon DEF AsmOK
  <1>8. CASE l.note = "behind"
    <2>1. ~text.note /\ ~now(l) /\ ~then(l)
      BY <1>1, <1>2, <1>8
    <2>2. asm_read_line(l) = AsmMeant(l)
      BY <1>2, <1>3, <1>8, <2>1 DEF AsmSlips, AsmMeant, asm_read_line
    <2> QED  BY <1>1, <1>5, <1>6, <2>1, <2>2, Zenon DEF AsmOK
  <1>11. CASE l.note = "says"
    <2>1. text.note /\ ~now(l) /\ ~then(l)
      BY <1>1, <1>2, <1>11
    <2>2. AsmMeant(l) = {}
      BY <1>11, <2>1 DEF AsmMeant
    <2>3. asm_read_line(l) = {}
      BY <1>2, <1>3, <1>11 DEF AsmSlips, asm_read_line
    <2> QED  BY <1>1, <1>5, <1>6, <2>1, <2>2, <2>3, Zenon DEF AsmOK
  <1>9. CASE l.note = "none" /\ l.k = "string"
    <2>1. text.note /\ now(l) /\ then(l)
      BY <1>3, <1>9, Zenon DEF AsmSlips
    <2>2. AsmMeant(l) = {}
      BY <1>9, <2>1 DEF AsmMeant
    <2> QED  BY <1>1, <1>5, <1>6, <2>1, <2>2, Zenon DEF AsmOK
  <1>10. CASE l.note = "none" /\ l.k # "string"
    <2>1. now(l) = innote /\ then(l) = text.note
      BY <1>10, Zenon
    <2>2. CASE text.note
      <3>1. AsmMeant(l) = {}
        <4>1. text.note /\ l.note # "shuts"
          BY <1>10, <2>2
        <4> QED  BY <4>1, Zenon DEF AsmMeant
      <3> QED  BY <1>1, <1>4, <1>6, <2>1, <2>2, <3>1, Zenon DEF AsmOK
    <2>3. CASE ~text.note
      <3>1. asm_read_line(l) = AsmMeant(l)
        BY <1>2, <1>3, <1>10, <2>3 DEF AsmSlips, AsmMeant, asm_read_line
      <3> QED  BY <1>1, <1>4, <1>6, <2>1, <2>3, <3>1, Zenon DEF AsmOK
    <2> QED  BY <2>2, <2>3
  <1> QED  BY <1>2, <1>7, <1>8, <1>9, <1>10, <1>11

\* A line of plain text.
LEMMA Utf8Holds == utf8_read /\ Alive' => made' = meant'
  <1> SUFFICES ASSUME utf8_read, Alive'  PROVE made' = meant'
    OBVIOUS
  <1>1. PICK k \in {"text", "#", "empty"}, eof \in BOOLEAN :
          /\ made' = IF k = "text" /\ ~eof THEN {<<"string", "line">>} ELSE {}
          /\ meant' = IF k = "text" THEN {<<"string", "line">>} ELSE {}
          /\ Comes("none", k = "text" /\ eof)
    BY DEF utf8_read
  <1>2. ~(k = "text" /\ eof)
    BY <1>1 DEF Alive, Comes
  <1> QED  BY <1>1, <1>2

\* A token of a drawing that makes no shape and closes none: the stack stays as it is.
LEMMA TokenHolds ==
    ASSUME ShapeOK, NEW t \in Token, Alive',
           \/ three_word(t) \/ three_newline(t) \/ three_comment(t)
           \/ three_number(t) \/ three_point(t) \/ three_skip(t)
    PROVE  drawn' = wanted' /\ ShapeOK'
  <1>1. /\ shapes' = shapes /\ draft' = draft /\ drawn' = {} /\ wanted' = {}
    BY DEF three_word, three_newline, three_comment, three_number, three_point, three_skip,
           Nothing3, Stands
  <1>2. /\ three \in Statics
        /\ points \in [Number \cup {0} -> Nat] /\ draft.file \in Nat
    BY DEF ShapeOK, ShapeType
  <1>3. /\ three'.rsp = three.rsp /\ three'.stack = three.stack
        /\ three' \in Statics
    <2>1. CASE three_word(t)
      <3>0. PICK u \in IF fresh THEN Beheaded ELSE {t} :
               three' = IF three.innote THEN three
                        ELSE [three EXCEPT !.inname = IF @ = Nowhere THEN u
                               ELSE <<@[1], IF @[1] = "digits" THEN @[2] \cup t[2] ELSE @[2]>>]
        BY <2>1 DEF three_word
      <3> DEFINE w == three.inname
                 v == IF w = Nowhere THEN u
                      ELSE <<w[1], IF w[1] = "digits" THEN w[2] \cup t[2] ELSE w[2]>>
      <3>1. three' = IF three.innote THEN three ELSE [three EXCEPT !.inname = v]
        BY <3>0
      <3>2. w \in Words
        BY <1>2 DEF Statics
      <3>3. t \in {"name", "digits"} \X SUBSET Number
        BY <2>1 DEF three_word, Token
      <3>4. v \in Words
        <4>1. u \in Words
          <5>1. Beheaded \subseteq Words
            BY DEF Beheaded, Nowhere, Words
          <5>2. t \in Words
            BY <3>3 DEF Words
          <5> QED  BY <3>0, <5>1, <5>2
        <4> HIDE DEF w
        <4> QED  BY <3>2, <3>3, <4>1 DEF Words
      <3> HIDE DEF v
      <3> QED  BY <1>2, <3>1, <3>4 DEF Statics
    <2>2. CASE three_newline(t)
      BY <1>2, <2>2 DEF three_newline, Nowhere, Statics, Words
    <2>3. CASE three_comment(t)
      BY <1>2, <2>3 DEF three_comment, Statics
    <2>4. CASE three_number(t)
      <3> DEFINE w == three.inname
      <3>1. PICK n \in CASE w[1] = "digits" -> w[2] [] w[1] = "name" -> {three.num}
                   [] OTHER -> Number \cup {three.num} :
               three' = [three EXCEPT !.num = n, !.inpoint = TRUE, !.inname = Nowhere]
        BY <2>4 DEF three_number
      <3>2. w \in Words /\ three.num \in Number \cup {0}
        BY <1>2 DEF Statics
      <3>3. n \in Number \cup {0}
        <4> HIDE DEF w
        <4> QED  BY <3>1, <3>2 DEF Words
      <3> QED  BY <1>2, <3>1, <3>3 DEF Nowhere, Statics, Words
    <2>5. CASE three_point(t)
      BY <1>2, <2>5 DEF three_point, Nowhere, Statics, Words
    <2>6. CASE three_skip(t)
      BY <1>2, <2>6 DEF three_skip, Statics
    <2> QED  BY <2>1, <2>2, <2>3, <2>4, <2>5, <2>6
  <1>4. points' \in [Number \cup {0} -> Nat]
    BY <1>2 DEF three_word, three_newline, three_comment, three_number, three_point, three_skip, Stands
  <1> QED  BY <1>1, <1>3, <1>4 DEF ShapeOK, ShapeType

\* A shape opens: it hangs under the innermost one that is open.
LEMMA OpenHolds ==
    ASSUME ShapeOK, NEW t \in Token, Alive', three_shape(t)
    PROVE  drawn' = wanted' /\ ShapeOK'
  <1> DEFINE what == <<draft.file, draft.count + 1>>
             m == Len(draft.open)
             k == Len(shapes)
  <1>1. /\ shapes \in Seq(Nat \X Nat)
        /\ draft \in [file : Nat, count : Nat, open : Seq(Nat \ {0})]
        /\ three \in Statics
        /\ points \in [Number \cup {0} -> Nat]
        /\ three.rsp = m /\ m <= Levels
        /\ \A i \in 1 .. m : /\ three.stack[i - 1] \in DOMAIN shapes
                             /\ shapes[three.stack[i - 1]] = <<draft.file, draft.open[i]>>
    BY DEF ShapeOK, ShapeType
  <1>2. draft.file \in Nat /\ draft.count \in Nat /\ draft.open \in Seq(Nat \ {0}) /\ m \in Nat
    BY <1>1
  <1>3. /\ three.stack \in [0 .. Levels - 1 -> Nat] /\ k \in Nat /\ Levels \in Nat \ {0}
    BY <1>1, ShapesAssumption DEF Statics, Stacks
  <1>4. /\ drawn' = {<<IF three.rsp <= 0 THEN <<0, 0>> ELSE shapes[three.stack[three.rsp - 1]],
                       Append(shapes, what)[k + 1]>>}
        /\ wanted' = {<<IF Innermost = 0 THEN <<0, 0>> ELSE <<draft.file, Innermost>>, what>>}
        /\ draft' = [draft EXCEPT !.count = @ + 1, !.open = Append(@, draft.count + 1)]
        /\ shapes' = Append(shapes, what) /\ points' = points
        /\ IF Inside(k + 1) /\ three.rsp \in 0 .. Levels - 1
           THEN three' = [three EXCEPT !.stack[three.rsp] = k + 1, !.rsp = @ + 1, !.inname = Nowhere]
           ELSE pc' = "overrun"
    BY Zenon DEF three_shape, pin_write
  <1>5. /\ three.rsp \in 0 .. Levels - 1
        /\ three' = [three EXCEPT !.stack[three.rsp] = k + 1, !.rsp = @ + 1, !.inname = Nowhere]
    <2>1. pc' # "overrun"
      BY DEF Alive
    <2> QED  BY <1>4, <2>1
  <1>6. /\ Append(shapes, what) \in Seq(Nat \X Nat) /\ Append(shapes, what)[k + 1] = what
        /\ DOMAIN shapes = 1 .. k /\ DOMAIN Append(shapes, what) = 1 .. k + 1
        /\ \A i \in DOMAIN shapes : Append(shapes, what)[i] = shapes[i]
    <2>1. what \in Nat \X Nat
      BY <1>2
    <2> DEFINE R == Nat \X Nat
    <2>2. shapes \in Seq(R) /\ what \in R
      BY <1>1, <2>1
    <2> HIDE DEF what, R
    <2>3. /\ Append(shapes, what) \in Seq(R) /\ Append(shapes, what)[k + 1] = what
          /\ DOMAIN shapes = 1 .. k /\ DOMAIN Append(shapes, what) = 1 .. k + 1
          /\ \A i \in DOMAIN shapes : Append(shapes, what)[i] = shapes[i]
      BY <2>2, AppendIs
    <2> QED  BY <2>3 DEF R
  <1>7. drawn' = wanted'
    <2>1. CASE m = 0
      <3>1. draft.open = << >>
        BY <1>2, <2>1
      <3>2. Innermost = 0
        BY <3>1, Zenon DEF Innermost
      <3> HIDE DEF what
      <3> QED  BY <1>1, <1>4, <1>6, <2>1, <3>2
    <2>2. CASE m # 0
      <3>1. Innermost = draft.open[m] /\ draft.open[m] # 0
        BY <1>2, <2>2 DEF Innermost
      <3>2. m \in 1 .. m /\ ~(three.rsp <= 0)
        BY <1>1, <1>2, <2>2
      <3>3. shapes[three.stack[three.rsp - 1]] = <<draft.file, draft.open[m]>>
        BY <1>1, <3>2
      <3> HIDE DEF what, m, k
      <3> QED  BY <1>4, <1>6, <3>1, <3>2, <3>3
    <2> QED  BY <2>1, <2>2
  <1>8. /\ draft' \in [file : Nat, count : Nat, open : Seq(Nat \ {0})]
        /\ draft'.file = draft.file /\ draft'.open = Append(draft.open, draft.count + 1)
    <2>1. draft.count + 1 \in Nat \ {0} /\ draft.count + 1 \in Nat
      BY <1>2
    <2> DEFINE op == Append(draft.open, draft.count + 1)
    <2>2. op \in Seq(Nat \ {0})
      BY <1>2, <2>1, AppendIs
    <2> HIDE DEF op
    <2>3. draft' = [draft EXCEPT !.count = @ + 1, !.open = op]
      BY <1>4 DEF op
    <2>4. draft' \in [file : Nat, count : Nat, open : Seq(Nat \ {0})] /\ draft'.file = draft.file
          /\ draft'.open = op
      BY <1>1, <2>1, <2>2, <2>3
    <2> QED  BY <2>4 DEF op
  <1>9. /\ Len(draft'.open) = m + 1 /\ draft'.open[m + 1] = draft.count + 1
        /\ \A i \in 1 .. m : draft'.open[i] = draft.open[i]
    <2>1. draft.count + 1 \in Nat \ {0}
      BY <1>2
    <2> QED  BY <1>2, <1>8, <2>1, AppendIs
  <1>10. /\ three'.rsp = m + 1 /\ three'.stack = [three.stack EXCEPT ![m] = k + 1]
         /\ three' \in Statics
    <2> DEFINE st == [three.stack EXCEPT ![m] = k + 1]
    <2>1. st \in Stacks
      <3> DEFINE D == 0 .. Levels - 1
                 q == k + 1
      <3>1. three.stack \in [D -> Nat] /\ q \in Nat
        BY <1>3
      <3> HIDE DEF m, D, q
      <3>2. [three.stack EXCEPT ![m] = q] \in [D -> Nat]
        BY <3>1
      <3> QED  BY <3>2 DEF D, q, Stacks
    <2>2. three' = [three EXCEPT !.stack = st, !.rsp = @ + 1, !.inname = Nowhere]
      BY <1>1, <1>5 DEF Statics
    <2>3. Nowhere \in Words
      BY DEF Nowhere, Words
    <2> HIDE DEF st, m
    <2>4. three'.rsp = three.rsp + 1 /\ three'.stack = st
      BY <1>1, <2>2 DEF Statics
    <2>5. three' \in Statics
      <3> DEFINE r == three.rsp + 1
      <3>1. three' = [three EXCEPT !.stack = st, !.rsp = r, !.inname = Nowhere] /\ r \in Int
        BY <1>1, <2>2 DEF Statics
      <3> HIDE DEF r
      <3> QED  BY ONLY <1>1, <2>1, <2>3, <3>1 DEF Statics
    <2> QED  BY <1>1, <2>4, <2>5 DEF st
  <1>11. m \in 0 .. Levels - 1
    BY <1>1, <1>5
  <1>12. ASSUME NEW i \in 1 .. m + 1
         PROVE  /\ three'.stack[i - 1] \in DOMAIN shapes'
                /\ shapes'[three'.stack[i - 1]] = <<draft'.file, draft'.open[i]>>
    <2>1. CASE i = m + 1
      <3>1. three'.stack[i - 1] = k + 1
        BY <1>2, <1>3, <1>10, <1>11, <2>1
      <3>2. draft'.open[i] = draft.count + 1 /\ draft'.file = draft.file
        BY <1>8, <1>9, <2>1
      <3>3. k + 1 \in DOMAIN shapes' /\ shapes'[k + 1] = what
        <4> HIDE DEF what
        <4> QED  BY <1>3, <1>4, <1>6
      <3> QED  BY <3>1, <3>2, <3>3
    <2>2. CASE i # m + 1
      <3>1. i \in 1 .. m
        BY <1>2, <2>2
      <3>2. i - 1 \in 0 .. Levels - 1 /\ i - 1 # m
        <4> HIDE DEF m
        <4> QED  BY <1>1, <1>2, <1>3, <3>1
      <3>3. three'.stack[i - 1] = three.stack[i - 1]
        BY <1>3, <1>10, <3>2
      <3>4. draft'.open[i] = draft.open[i] /\ draft'.file = draft.file
        BY <1>8, <1>9, <3>1
      <3>5. /\ three.stack[i - 1] \in DOMAIN shapes
            /\ shapes[three.stack[i - 1]] = <<draft.file, draft.open[i]>>
        BY <1>1, <3>1
      <3>6. \A j \in DOMAIN shapes : j \in DOMAIN shapes' /\ shapes'[j] = shapes[j]
        <4> HIDE DEF what
        <4> QED  BY <1>3, <1>4, <1>6
      <3> QED  BY <3>3, <3>4, <3>5, <3>6
    <2> QED  BY <2>1, <2>2
  <1>13. ShapeType'
    BY <1>1, <1>4, <1>6, <1>8, <1>10 DEF ShapeType
  <1>14. three'.rsp = Len(draft'.open) /\ three'.rsp <= Levels
    BY <1>3, <1>9, <1>10, <1>11
  <1> QED  BY <1>7, <1>9, <1>12, <1>13, <1>14 DEF ShapeOK

\* A shape closes: it has the points before the brace, and the one around it is innermost.
LEMMA FootHolds ==
    ASSUME ShapeOK, NEW t \in Token, Alive', three_foot(t)
    PROVE  drawn' = wanted' /\ ShapeOK'
  <1> DEFINE m == Len(draft.open)
             feet == IF three.inname[1] = "digits" THEN three.inname[2] ELSE {}
             rest == SubSeq(draft.open, 1, m - 1)
  <1>1. /\ shapes \in Seq(Nat \X Nat)
        /\ draft \in [file : Nat, count : Nat, open : Seq(Nat \ {0})]
        /\ three \in Statics
        /\ points \in [Number \cup {0} -> Nat]
        /\ three.rsp = m /\ m <= Levels
        /\ \A i \in 1 .. m : /\ three.stack[i - 1] \in DOMAIN shapes
                             /\ shapes[three.stack[i - 1]] = <<draft.file, draft.open[i]>>
    BY DEF ShapeOK, ShapeType
  <1>2. draft.open \in Seq(Nat \ {0}) /\ m \in Nat /\ Levels \in Nat \ {0}
    BY <1>1, ShapesAssumption
  <1>3. /\ drawn' = IF three.rsp <= 0 THEN {}
                    ELSE {<<shapes[three.stack[three.rsp - 1]], <<points[n], 0>>>> : n \in feet}
        /\ wanted' = {<<<<draft.file, Innermost>>, <<draft.file, 0>>>> : n \in feet}
        /\ three' = [three EXCEPT !.rsp = @ - 1, !.inname = Nowhere]
        /\ draft' = [draft EXCEPT !.open = IF @ = << >> THEN @ ELSE SubSeq(@, 1, Len(@) - 1)]
        /\ Ends(draft.open = << >> \/ three.inname[1] = "name" \/ three.inpoint
                \/ \E n \in feet : points[n] # draft.file)
        /\ shapes' = shapes /\ points' = points
    BY Zenon DEF three_foot, Stands
  <1>4. draft.open # << >> /\ \A n \in feet : points[n] = draft.file
    <2> HIDE DEF feet
    <2> QED  BY <1>3, Zenon DEF Ends, Alive
  <1>5. m # 0 /\ m \in 1 .. m /\ ~(three.rsp <= 0)
    BY <1>1, <1>2, <1>4
  <1>6. Innermost = draft.open[m]
    BY <1>4 DEF Innermost
  <1>7. shapes[three.stack[three.rsp - 1]] = <<draft.file, Innermost>>
    BY <1>1, <1>5, <1>6
  <1>8. drawn' = wanted'
    <2> HIDE DEF feet
    <2> QED  BY <1>3, <1>4, <1>5, <1>7, Zenon
  <1>9. /\ rest \in Seq(Nat \ {0}) /\ Len(rest) = m - 1
        /\ \A i \in 1 .. m - 1 : rest[i] = draft.open[i]
    BY <1>2, <1>5
  <1>10. /\ draft' \in [file : Nat, count : Nat, open : Seq(Nat \ {0})]
         /\ draft'.file = draft.file /\ draft'.open = rest
    <2>1. draft' = [draft EXCEPT !.open = rest]
      BY <1>3, <1>4
    <2> HIDE DEF rest
    <2> QED  BY <1>1, <1>9, <2>1
  <1>11. /\ three'.rsp = m - 1 /\ three'.stack = three.stack
         /\ three' \in Statics
    <2>1. Nowhere \in Words
      BY DEF Nowhere, Words
    <2> HIDE DEF m
    <2>2. three'.rsp = three.rsp - 1 /\ three'.stack = three.stack
      BY <1>1, <1>3 DEF Statics
    <2>3. three' \in Statics
      <3> DEFINE r == three.rsp - 1
      <3>1. three' = [three EXCEPT !.rsp = r, !.inname = Nowhere] /\ r \in Int
        BY <1>1, <1>3 DEF Statics
      <3>2. three \in Statics
        BY <1>1
      <3> HIDE DEF r
      <3> QED  BY ONLY <2>1, <3>1, <3>2 DEF Statics
    <2> QED  BY <1>1, <2>2, <2>3
  <1> HIDE DEF rest, m, feet
  <1>12. ShapeType'
    BY <1>1, <1>3, <1>10, <1>11 DEF ShapeType
  <1>13. \A i \in 1 .. m - 1 :
            /\ three'.stack[i - 1] \in DOMAIN shapes'
            /\ shapes'[three'.stack[i - 1]] = <<draft'.file, draft'.open[i]>>
    <2>1. \A i \in 1 .. m - 1 : i \in 1 .. m
      BY <1>2
    <2> QED  BY ONLY <1>1, <1>3, <1>9, <1>10, <1>11, <2>1
  <1>14. m - 1 <= Levels
    BY <1>1, <1>2
  <1> QED  BY ONLY <1>8, <1>9, <1>10, <1>11, <1>12, <1>13, <1>14 DEF ShapeOK

\* The next drawing begins with nothing open.
LEMMA ShapeOpens == ShapeOK /\ three_start(MaxFile) /\ Alive' => drawn' = wanted' /\ ShapeOK'
  <1> SUFFICES ASSUME ShapeOK, three_start(MaxFile), Alive'  PROVE drawn' = wanted' /\ ShapeOK'
    OBVIOUS
  <1>1. /\ three' = three /\ shapes' = shapes /\ points' = points /\ drawn' = {} /\ wanted' = {}
        /\ draft' = Draft(draft.file + 1)
        /\ Ends(three.rsp # 0 \/ three.inname # Nowhere \/ three.innote \/ three.inpoint)
    BY Zenon DEF three_start, Nothing3, Stands
  <1>2. three.rsp = 0
    BY <1>1, Zenon DEF Ends, Alive
  <1>3. /\ draft' \in [file : Nat, count : Nat, open : Seq(Nat \ {0})]
        /\ draft'.open = << >> /\ Len(draft'.open) = 0
    <2>1. draft.file \in Nat /\ << >> \in Seq(Nat \ {0})
      BY EmptySeq DEF ShapeOK, ShapeType
    <2> QED  BY <1>1, <2>1 DEF Draft
  <1>4. ShapeType'
    BY <1>1, <1>3 DEF ShapeOK, ShapeType
  <1>5. three'.rsp = 0 /\ three'.rsp <= Levels
    BY <1>1, <1>2, ShapesAssumption
  <1> QED  BY <1>1, <1>3, <1>4, <1>5 DEF ShapeOK

\* A step of the parser of drawings.
LEMMA ShapesHold == wk = "3d" /\ Alive /\ ShapeOK /\ ShapesStep(MaxFile) /\ Alive' => drawn' = wanted' /\ ShapeOK'
  <1> SUFFICES ASSUME wk = "3d", ShapeOK, ShapesStep(MaxFile), Alive'  PROVE drawn' = wanted' /\ ShapeOK'
    OBVIOUS
  <1>1. \/ \E t \in Token : \/ three_word(t) \/ three_newline(t) \/ three_comment(t)
                            \/ three_number(t) \/ three_point(t) \/ three_shape(t)
                            \/ three_foot(t) \/ three_skip(t)
        \/ three_stop \/ three_start(MaxFile)
    BY Zenon DEF ShapesStep
  <1>2. CASE three_stop
    BY <1>2 DEF three_stop, Nothing3, Stands, ShapeOK, ShapeType
  <1>3. CASE three_start(MaxFile)
    BY <1>3, ShapeOpens
  <1>4. ASSUME NEW t \in Token, three_shape(t)  PROVE drawn' = wanted' /\ ShapeOK'
    BY <1>4, OpenHolds
  <1>5. ASSUME NEW t \in Token, three_foot(t)  PROVE drawn' = wanted' /\ ShapeOK'
    BY <1>5, FootHolds
  <1>6. ASSUME NEW t \in Token,
               \/ three_word(t) \/ three_newline(t) \/ three_comment(t)
               \/ three_number(t) \/ three_point(t) \/ three_skip(t)
        PROVE  drawn' = wanted' /\ ShapeOK'
    BY <1>6, TokenHolds
  <1> QED  BY <1>1, <1>2, <1>3, <1>4, <1>5, <1>6, Zenon

\* Which of the parsers of lines is at work.
SheetOK ==
    /\ wk = "cir" => CirOK
    /\ wk = "map" => MapOK
    /\ wk = "s" => AsmOK

\* A step of a parser of lines.
LEMMA SheetsHold == Said(made) = meant /\ SheetOK /\ SheetStep /\ Alive' => Said(made)' = meant' /\ SheetOK'
  <1> SUFFICES ASSUME Said(made) = meant, SheetOK, SheetStep, Alive'
               PROVE  Said(made)' = meant' /\ SheetOK'
    OBVIOUS
  <1>1. wk' = wk
    BY DEF SheetStep
  <1>2. CASE Reading("cir") /\ cir_read
    <2>1. wk = "cir"
      BY <1>2 DEF Reading
    <2> QED  BY <1>1, <1>2, <2>1, CirHolds DEF SheetOK, Said
  <1>3. CASE Reading("map") /\ map_read
    <2>1. wk = "map"
      BY <1>3 DEF Reading
    <2> QED  BY <1>1, <1>3, <2>1, MapHolds DEF SheetOK, Said
  <1>4. CASE Reading("s") /\ asm_read
    <2>1. wk = "s"
      BY <1>4 DEF Reading
    <2> QED  BY <1>1, <1>4, <2>1, AsmHolds DEF SheetOK, Said
  <1>5. CASE Reading("utf8") /\ utf8_read
    <2>1. wk = "utf8"
      BY <1>5 DEF Reading
    <2> QED  BY <1>1, <1>5, <2>1, Utf8Holds DEF SheetOK, Said
  <1>6. CASE Stop
    <2>1. Said(made)' = meant' /\ UNCHANGED <<chips, pins, cir, map, innote, text>>
      <3>1. made' = {} /\ meant' = {} /\ UNCHANGED <<chips, pins, cir, map, innote, text>>
        BY <1>6 DEF Stop
      <3> QED  BY <3>1 DEF Said
    <2>2. (CirOK => CirOK') /\ (MapOK => MapOK') /\ (AsmOK => AsmOK')
      BY <2>1 DEF CirOK, CirType, MapOK, AsmOK
    <2> QED  BY <1>1, <2>1, <2>2 DEF SheetOK
  <1>7. CASE wk \in {"cir", "map", "s", "utf8"} /\ Start
    <2>0. Said(made)' = meant'
      <3>1. made' = made /\ meant' = meant
        BY <1>7 DEF Start
      <3> QED  BY <1>1, <3>1 DEF Said
    <2>1. /\ Said(made)' = meant' /\ UNCHANGED <<chips, pins>> /\ text' = Opened(text.file + 1)
          /\ wk = "cir" => cir_start
          /\ wk = "map" => map_start
          /\ wk = "s" => innote' = FALSE
      BY <1>7, <2>0 DEF Start
    <2>2. CASE wk = "cir"
      BY <1>1, <2>1, <2>2, CirOpens DEF SheetOK
    <2>3. CASE wk = "map"
      BY <1>1, <2>1, <2>3, MapOpens DEF SheetOK
    <2>4. CASE wk = "s"
      <3>1. text.file \in Nat
        BY <2>4, Zenon DEF SheetOK, AsmOK
      <3>2. AsmOK'
        <4>1. text' = [file |-> text.file + 1, block |-> 0, blocks |-> 0, seen |-> {}, note |-> FALSE]
          BY <2>1, Zenon DEF Opened
        <4>2. /\ text' \in [file : Nat, block : Nat, blocks : Nat, seen : {{}}, note : BOOLEAN]
              /\ ~text'.note
          BY <3>1, <4>1
        <4> QED  BY <2>1, <2>4, <4>2, Zenon DEF AsmOK
      <3> QED  BY <1>1, <2>1, <2>4, <3>2 DEF SheetOK
    <2>5. CASE wk = "utf8"
      BY <1>1, <2>1, <2>5 DEF SheetOK
    <2> QED  BY <1>7, <2>2, <2>3, <2>4, <2>5
  <1> QED  BY <1>2, <1>3, <1>4, <1>5, <1>6, <1>7 DEF SheetStep

\* A round of the loop keeps to the parser that is at work.
LEMMA RoundKeeps ==
    ASSUME NEW a, NEW eaten, NEW rest, NEW what, NEW as, Round(a, eaten, rest, what, as)
    PROVE  wk' = wk
  BY DEF Round

\* So does every step of the parsers of characters.
LEMMA LexerKeeps == LexerStep => wk' = wk
  <1> SUFFICES ASSUME LexerStep  PROVE wk' = wk
    OBVIOUS
  <1>1. ASSUME NEW ch, NEW a, Mark(ch, a)  PROVE wk' = wk
    BY <1>1, RoundKeeps, Zenon DEF Mark, Taken
  <1>2. CASE inert \/ newline \/ backslash \/ double_quote \/ blank \/ word
    BY <1>2, RoundKeeps, Zenon DEF inert, newline, backslash, double_quote, blank, word, Taken
  <1>3. CASE single_quote
    BY <1>3, RoundKeeps, Zenon DEF single_quote, Taken
  <1>4. CASE slash
    <2>1. PICK t \in Ahead("/", 2) :
             CASE t[2] = "/" -> Taken([at EXCEPT !.innote = 1], t, 2)
               [] t[2] = "*" -> Taken([at EXCEPT !.innote = 9], t, 2)
               [] OTHER -> Taken(at, t, 1)
      BY <1>4 DEF slash
    <2>2. \/ Taken([at EXCEPT !.innote = 1], t, 2) \/ Taken([at EXCEPT !.innote = 9], t, 2)
          \/ Taken(at, t, 1)
      BY <2>1
    <2> QED  BY <2>2, RoundKeeps, Zenon DEF Taken
  <1>5. CASE star
    BY <1>5, RoundKeeps, Zenon DEF star, Taken
  <1>6. CASE directive
    BY <1>6, RoundKeeps, Zenon DEF directive
  <1>7. CASE open_bracket
    BY <1>7, RoundKeeps, Zenon DEF open_bracket, Taken
  <1>8. CASE open_brace
    BY <1>8, <1>1, RoundKeeps, Zenon DEF open_brace
  <1>9. CASE \/ other_directive \/ close_bracket \/ close_brace \/ comma \/ colon
             \/ semicolon \/ operator_mark
    BY <1>9, <1>1, Zenon DEF other_directive, close_bracket, close_brace, comma, colon, semicolon,
       operator_mark
  <1>10. CASE stop \/ start
    BY <1>10 DEF stop, start
  <1> QED  BY <1>2, <1>3, <1>4, <1>5, <1>6, <1>7, <1>8, <1>9, <1>10, Zenon DEF LexerStep

\* The invariant holds at first.
LEMMA DrawInitHolds == ParsersInit => DrawInv
  <1> SUFFICES ASSUME ParsersInit  PROVE DrawInv
    OBVIOUS
  <1>1. SheetsInit /\ ShapesInit
    BY DEF ParsersInit
  <1>2. CirOK
    <2>1. /\ chips \in Seq({"chip"} \X Nat \X Name) /\ pins \in Seq({"pin"} \X Nat \X Nat)
          /\ cir.mt \in Seq([name : Name \X {"tight", "blank"}, body : Nat])
      BY <1>1, EmptySeq DEF SheetsInit
    <2>2. /\ cir = [mt |-> << >>, pinbody |-> 0] /\ text.block = 0 /\ text.seen = {}
          /\ text \in [file : Nat, block : Nat, blocks : Nat, seen : SUBSET Name, note : BOOLEAN]
      BY <1>1 DEF SheetsInit, Opened
    <2>3. /\ cir.mt = << >> /\ cir.pinbody \in Nat
          /\ cir = [mt |-> cir.mt, pinbody |-> cir.pinbody]
      BY <2>2
    <2> QED  BY <2>1, <2>2, <2>3 DEF CirOK, CirType
  <1>3. MapOK
    <2>1. chips \in Seq({"line"} \X Nat \X Nat)
      BY <1>1, EmptySeq DEF SheetsInit
    <2>2. /\ map = [infunc |-> 0, count |-> 0, chip |-> 0] /\ text.block = 0 /\ text.blocks = 0
          /\ text \in [file : Nat, block : Nat, blocks : Nat, seen : SUBSET Nat, note : BOOLEAN]
      BY <1>1 DEF SheetsInit, Opened
    <2> QED  BY <2>1, <2>2 DEF MapOK
  <1>4. AsmOK
    BY <1>1 DEF SheetsInit, Opened, AsmOK
  <1>5. ShapeOK
    <2>1. shapes \in Seq(Nat \X Nat) /\ << >> \in Seq(Nat \ {0})
      BY <1>1, EmptySeq DEF ShapesInit
    <2>2. /\ draft \in [file : Nat, count : Nat, open : Seq(Nat \ {0})] /\ draft.open = << >>
      BY <1>1, <2>1 DEF ShapesInit, Draft
    <2>3. points \in [Number \cup {0} -> Nat]
      BY <1>1 DEF ShapesInit
    <2>4. three \in Statics /\ three.rsp = 0
      <3> DEFINE st == [i \in 0 .. Levels - 1 |-> 0]
      <3>1. st \in Stacks /\ Nowhere \in Words
        BY DEF Stacks, Words, Nowhere
      <3>2. three = [rsp |-> 0, stack |-> st, inname |-> Nowhere, innote |-> FALSE,
                     inpoint |-> FALSE, num |-> 0]
        BY <1>1 DEF ShapesInit
      <3> HIDE DEF st
      <3> QED  BY <3>1, <3>2 DEF Statics
    <2>5. Len(draft.open) = 0 /\ three.rsp <= Levels
      BY <2>2, <2>4, ShapesAssumption
    <2> QED  BY <2>1, <2>2, <2>3, <2>4, <2>5 DEF ShapeOK, ShapeType
  <1>6. Said(made) = meant /\ drawn = wanted
    <2>1. made = {} /\ meant = {} /\ drawn = wanted
      BY <1>1 DEF SheetsInit, ShapesInit
    <2> QED  BY <2>1 DEF Said
  <1> QED  BY <1>2, <1>3, <1>4, <1>5, <1>6 DEF DrawInv

\* Every step of every parser preserves it.
LEMMA DrawStepHolds == DrawInv /\ [worker_read]_parsers => DrawInv'
  <1> SUFFICES ASSUME DrawInv, [worker_read]_parsers, Alive'  PROVE DrawInv'
    BY DEF DrawInv
  <1>1. CASE SheetStep /\ UNCHANGED <<lexer, solids>>
    <2>1. Alive /\ wk \in {"cir", "map", "s", "utf8"}
      BY <1>1 DEF SheetStep, Reading, Alive
    <2>2. Said(made) = meant /\ drawn = wanted /\ SheetOK
      BY <2>1 DEF DrawInv, SheetOK
    <2>3. Said(made)' = meant' /\ SheetOK'
      BY <1>1, <2>2, SheetsHold
    <2>4. wk' # "3d" /\ drawn' = wanted'
      BY <1>1, <2>1, <2>2 DEF SheetStep, solids
    <2> QED  BY <2>3, <2>4 DEF DrawInv, SheetOK
  <1>2. CASE ShapesStep(MaxFile) /\ UNCHANGED <<lexer, sheets>>
    <2>1. Alive /\ wk = "3d" /\ wk' = wk
      BY <1>2 DEF ShapesStep, Reading, Ended, Alive
    <2>2. Said(made) = meant /\ ShapeOK
      BY <2>1 DEF DrawInv
    <2>3. drawn' = wanted' /\ ShapeOK'
      BY <1>2, <2>1, <2>2, ShapesHold
    <2>4. Said(made)' = meant'
      BY <1>2, <2>1, <2>2 DEF sheets, Said
    <2> QED  BY <2>1, <2>3, <2>4 DEF DrawInv
  <1>3. CASE LexerStep /\ UNCHANGED <<sheets, solids>>
    <2>1. Alive /\ wk \in {"c", "java"} /\ wk' = wk
      <3>1. Alive /\ wk \in {"c", "java"}
        BY <1>3 DEF LexerStep, Reading, Ended, Alive
      <3> QED  BY <1>3, <3>1, LexerKeeps
    <2>2. Said(made)' = meant' /\ drawn' = wanted'
      BY <1>3, <2>1 DEF DrawInv, sheets, solids, Said
    <2> QED  BY <2>1, <2>2 DEF DrawInv
  <1>4. CASE UNCHANGED parsers
    <2>1. UNCHANGED <<wk, pc, chips, pins, cir, map, innote, text, made, meant,
                      shapes, points, three, draft, drawn, wanted>>
      BY <1>4 DEF parsers, sheets, solids
    <2>3. Said(made)' = Said(made)
      BY <2>1 DEF Said
    <2>2. /\ (CirOK => CirOK') /\ (MapOK => MapOK') /\ (AsmOK => AsmOK') /\ (ShapeOK => ShapeOK')
      BY <2>1 DEF CirOK, CirType, MapOK, AsmOK, ShapeOK, ShapeType
    <2> QED  BY <2>1, <2>2, <2>3 DEF DrawInv, Alive
  <1> QED  BY <1>1, <1>2, <1>3, <1>4 DEF worker_read

\* DrawnAsWritten: what the parsers of lines and of drawings make of a text is what its
\* author meant, until the two part for one of the reasons named with them.
THEOREM TextIsDrawn == ParsersSpec => []DrawnAsWritten
  <1>1. DrawInv => DrawnAsWritten
    BY DEF DrawInv, DrawnAsWritten, Alive
  <1> QED  BY <1>1, DrawInitHolds, DrawStepHolds, PTL DEF ParsersSpec
=============================================================================
