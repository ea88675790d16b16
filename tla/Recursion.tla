----------------------------- MODULE Recursion -----------------------------
(***************************************************************************)
(* Induction over the natural numbers and definition by recursion, stated  *)
(* about sets and functions, so that the provers can use both where the    *)
(* library's theorems about operators are beyond them.                     *)
(***************************************************************************)
EXTENDS Integers, WellFoundedInduction, TLAPS

(* Every set of numbers has a least one. *)
LEMMA LeastNumber ==
    ASSUME NEW T \in SUBSET Nat, T # {}
    PROVE  \E m \in T : \A n \in T : m <= n
<1>1. PICK m \in T : \A n \in T : <<n, m>> \notin OpToRel(<, Nat)
  BY NatLessThanWellFounded, WFMin
<1>2. \A n \in T : ~(n < m)
  BY <1>1 DEF OpToRel
<1> QED  BY <1>2

(* A set that holds 0, and with each number the next, holds all of them. *)
LEMMA Induction ==
    ASSUME NEW T \in SUBSET Nat, 0 \in T, \A n \in T : n + 1 \in T
    PROVE  T = Nat
<1> SUFFICES ASSUME Nat \ T # {} PROVE FALSE
  OBVIOUS
<1>1. PICK m \in Nat \ T : \A n \in Nat \ T : m <= n
  BY LeastNumber
<1>2. m - 1 \in T
  BY <1>1
<1> QED  BY <1>1, <1>2

(* The same up to a bound. *)
LEMMA InductionUpTo ==
    ASSUME NEW N \in Nat, NEW T, 0 \in T, \A n \in 0 .. N - 1 : n \in T => n + 1 \in T
    PROVE  \A n \in 0 .. N : n \in T
<1> DEFINE U == {n \in Nat : n > N \/ n \in T}
<1>1. U \in SUBSET Nat /\ 0 \in U
  OBVIOUS
<1>2. \A n \in U : n + 1 \in U
  OBVIOUS
<1> HIDE DEF U
<1>3. U = Nat
  BY <1>1, <1>2, Induction
<1> QED  BY <1>3 DEF U

(* The same from the bound downward. *)
LEMMA InductionDown ==
    ASSUME NEW N \in Nat, NEW T,
           \A n \in 1 .. N : (\A m \in n + 1 .. N : m \in T) => n \in T
    PROVE  \A n \in 1 .. N : n \in T
<1> DEFINE U == {k \in Nat : \E n \in 1 .. N : k = N - n /\ n \notin T}
<1> SUFFICES ASSUME NEW o \in 1 .. N, o \notin T PROVE FALSE
  OBVIOUS
<1>1. U \in SUBSET Nat /\ N - o \in U
  OBVIOUS
<1>2. PICK k \in U : \A m \in U : k <= m
  BY <1>1, LeastNumber
<1>3. PICK n \in 1 .. N : k = N - n /\ n \notin T
  OBVIOUS
<1>4. \A m \in n + 1 .. N : m \in T
  <2> SUFFICES ASSUME NEW m \in n + 1 .. N, m \notin T PROVE FALSE
    OBVIOUS
  <2>1. N - m \in U /\ N - m < k
    BY <1>3
  <2> QED BY <1>2, <2>1
<1> QED BY <1>3, <1>4

\* g is what the recursion makes of the first value a and the step E, up to N.
Recurs(g, N, a, E) == g = [i \in 0 .. N |-> IF i = 0 THEN a ELSE E[i][g[i - 1]]]

(* A recursion up to N over values of X defines a function. *)
LEMMA RecursionDefines ==
    ASSUME NEW N \in Nat, NEW X, NEW a \in X, NEW E \in [1 .. N -> [X -> X]]
    PROVE  \E g \in [0 .. N -> X] : Recurs(g, N, a, E)
<1> DEFINE T == {n \in Nat : \E g \in [0 .. n -> X] : Recurs(g, n, a, E)}
<1>1. 0 \in T
  <2> DEFINE g == [i \in 0 .. 0 |-> a]
  <2>1. g \in [0 .. 0 -> X] /\ Recurs(g, 0, a, E)
    BY DEF Recurs
  <2> QED  BY <2>1
<1>2. ASSUME NEW n \in 0 .. N - 1, n \in T PROVE n + 1 \in T
  <2>1. PICK g \in [0 .. n -> X] : Recurs(g, n, a, E)
    BY <1>2
  <2> DEFINE h == [i \in 0 .. n + 1 |-> IF i = n + 1 THEN E[i][g[n]] ELSE g[i]]
  <2>2. h \in [0 .. n + 1 -> X]
    <3>1. E[n + 1] \in [X -> X] /\ g[n] \in X
      OBVIOUS
    <3> QED  BY <3>1
  <2>3. ASSUME NEW i \in 0 .. n + 1
        PROVE  h[i] = IF i = 0 THEN a ELSE E[i][h[i - 1]]
    <3>1. CASE i = n + 1
      BY <3>1
    <3>2. CASE i \in 1 .. n
      <4>1. i \in 0 .. n /\ i - 1 \in 0 .. n /\ i # 0 /\ i # n + 1 /\ i - 1 # n + 1
        BY <3>2
      <4>2. g[i] = E[i][g[i - 1]]
        BY <2>1, <4>1 DEF Recurs
      <4>3. h[i] = g[i] /\ h[i - 1] = g[i - 1]
        BY <4>1
      <4> QED  BY <4>1, <4>2, <4>3
    <3>3. CASE i = 0
      BY <2>1, <3>3 DEF Recurs
    <3> QED  BY <3>1, <3>2, <3>3
  <2>4. h = [i \in 0 .. n + 1 |-> h[i]]
    OBVIOUS
  <2> HIDE DEF h
  <2>5. Recurs(h, n + 1, a, E)
    BY <2>3, <2>4, Zenon DEF Recurs
  <2> QED  BY <2>2, <2>5
<1> HIDE DEF T
<1>3. \A n \in 0 .. N : n \in T
  BY <1>1, <1>2, InductionUpTo
<1> QED  BY <1>3 DEF T

\* The same without a bound, for a step that does not depend on where it is taken.
RecursOn(g, a, E) == g = [i \in Nat |-> IF i = 0 THEN a ELSE E[g[i - 1]]]

(* A recursion over values of X defines a function of the natural numbers. *)
LEMMA RecursionOnNat ==
    ASSUME NEW X, NEW a \in X, NEW E \in [X -> X]
    PROVE  \E g \in [Nat -> X] : RecursOn(g, a, E)
<1> DEFINE Upto(h, n) == \A i \in 0 .. n : h[i] = IF i = 0 THEN a ELSE E[h[i - 1]]
           H(n) == CHOOSE h \in [0 .. n -> X] : Upto(h, n)
           g == [n \in Nat |-> H(n)[n]]
<1>1. ASSUME NEW n \in Nat  PROVE H(n) \in [0 .. n -> X] /\ Upto(H(n), n)
  <2> DEFINE F == [i \in 1 .. n |-> E]
  <2>1. F \in [1 .. n -> [X -> X]]
    OBVIOUS
  <2> HIDE DEF F
  <2>2. PICK h \in [0 .. n -> X] : Recurs(h, n, a, F)
    BY <2>1, RecursionDefines
  <2>3. ASSUME NEW i \in 0 .. n  PROVE h[i] = IF i = 0 THEN a ELSE E[h[i - 1]]
    <3>1. h[i] = IF i = 0 THEN a ELSE F[i][h[i - 1]]
      BY <2>2 DEF Recurs
    <3>2. i # 0 => F[i] = E
      BY DEF F
    <3> QED  BY <3>1, <3>2
  <2>4. Upto(h, n)
    BY <2>3
  <2> HIDE DEF Upto
  <2> QED  BY <2>4
<1>2. ASSUME NEW n \in Nat  PROVE H(n + 1)[n] = H(n)[n]
  <2> DEFINE T == {i \in 0 .. n : H(n + 1)[i] = H(n)[i]}
  <2>0. Upto(H(n), n) /\ Upto(H(n + 1), n + 1)
    <3>1. n + 1 \in Nat
      OBVIOUS
    <3> HIDE DEF Upto, H
    <3> QED  BY <1>1, <3>1
  <2> HIDE DEF H
  <2>1. 0 \in T
    BY <2>0
  <2>2. ASSUME NEW i \in 0 .. n - 1, i \in T  PROVE i + 1 \in T
    <3>1. i + 1 \in 0 .. n /\ i + 1 \in 0 .. n + 1 /\ i + 1 # 0 /\ (i + 1) - 1 = i
      OBVIOUS
    <3>2. H(n)[i + 1] = E[H(n)[i]] /\ H(n + 1)[i + 1] = E[H(n + 1)[i]]
      BY <2>0, <3>1
    <3> QED  BY <2>2, <3>1, <3>2
  <2> HIDE DEF T
  <2>3. \A i \in 0 .. n : i \in T
    BY <2>1, <2>2, InductionUpTo
  <2>4. n \in 0 .. n
    OBVIOUS
  <2> QED  BY <2>3, <2>4 DEF T
<1>3. g \in [Nat -> X]
  <2> SUFFICES ASSUME NEW n \in Nat  PROVE H(n)[n] \in X
    OBVIOUS
  <2> HIDE DEF H
  <2> QED  BY <1>1
<1>4. ASSUME NEW i \in Nat  PROVE g[i] = IF i = 0 THEN a ELSE E[g[i - 1]]
  <2>1. g[i] = H(i)[i] /\ (i # 0 => g[i - 1] = H(i - 1)[i - 1])
    <3> HIDE DEF H
    <3> QED  OBVIOUS
  <2>2. H(i)[i] = IF i = 0 THEN a ELSE E[H(i)[i - 1]]
    <3>1. i \in 0 .. i
      OBVIOUS
    <3> HIDE DEF Upto, H
    <3>2. Upto(H(i), i)
      BY <1>1
    <3> USE DEF Upto
    <3> QED  BY <3>1, <3>2
  <2>3. i # 0 => H(i)[i - 1] = H(i - 1)[i - 1]
    <3> SUFFICES ASSUME i # 0  PROVE H(i)[i - 1] = H(i - 1)[i - 1]
      OBVIOUS
    <3>1. i - 1 \in Nat /\ (i - 1) + 1 = i
      OBVIOUS
    <3> HIDE DEF H
    <3>2. H((i - 1) + 1)[i - 1] = H(i - 1)[i - 1]
      BY <1>2, <3>1
    <3> QED  BY <3>1, <3>2
  <2> HIDE DEF H, g
  <2> QED  BY <2>1, <2>2, <2>3
<1>5. g = [i \in Nat |-> g[i]]
  OBVIOUS
<1> HIDE DEF g
<1>6. RecursOn(g, a, E)
  BY <1>4, <1>5, Zenon DEF RecursOn
<1> QED  BY <1>3, <1>6

\* g is what the recursion makes that goes on from x to next[x] until it is in Stop,
\* where it gives val[x].
RunsOn(g, D, Stop, val, next) ==
    g = [x \in D |-> IF x \in Stop THEN val[x] ELSE g[next[x]]]

(* It defines a function when every step on makes a number m smaller. *)
LEMMA RunDefines ==
    ASSUME NEW D, NEW V, NEW Stop, NEW val \in [D -> V], NEW next, NEW m \in [D -> Nat],
           \A x \in D : x \notin Stop => next[x] \in D /\ m[next[x]] < m[x]
    PROVE  \E g \in [D -> V] : RunsOn(g, D, Stop, val, next)
<1> DEFINE X == [D -> V]
           E == [f \in X |-> [x \in D |-> IF x \in Stop THEN val[x] ELSE f[next[x]]]]
<1>1. \A f \in X : \A x \in D : E[f][x] = IF x \in Stop THEN val[x] ELSE f[next[x]]
  OBVIOUS
<1>2. E \in [X -> X]
  <2> SUFFICES ASSUME NEW f \in X  PROVE [x \in D |-> IF x \in Stop THEN val[x] ELSE f[next[x]]] \in X
    OBVIOUS
  <2> QED OBVIOUS
<1>3. val \in X
  OBVIOUS
<1> HIDE DEF X, E
<1>4. PICK F \in [Nat -> X] : RecursOn(F, val, E)
  BY <1>2, <1>3, RecursionOnNat
<1>5. ASSUME NEW n \in Nat, NEW x \in D
      PROVE  F[n][x] = IF n = 0 \/ x \in Stop THEN val[x] ELSE F[n - 1][next[x]]
  <2>1. F[n] = IF n = 0 THEN val ELSE E[F[n - 1]]
    BY <1>4 DEF RecursOn
  <2>2. n # 0 => F[n - 1] \in X
    BY <1>4
  <2> QED BY <1>1, <2>1, <2>2
\* Further rounds than x needs change nothing.
<1> DEFINE T == {n \in Nat : \A x \in D : m[x] <= n => F[n][x] = F[n + 1][x]}
<1>6. T = Nat
  <2>1. 0 \in T
    <3> SUFFICES ASSUME NEW x \in D, m[x] <= 0  PROVE F[0][x] = F[0 + 1][x]
      OBVIOUS
    <3>1. x \in Stop
      <4> SUFFICES ASSUME x \notin Stop  PROVE FALSE
        OBVIOUS
      <4>1. m[next[x]] < m[x] /\ m[next[x]] \in Nat /\ m[x] \in Nat
        OBVIOUS
      <4> QED BY <4>1
    <3> QED BY <1>5, <3>1
  <2>2. ASSUME NEW n \in T  PROVE n + 1 \in T
    <3>0. n \in Nat /\ n + 1 \in Nat /\ (n + 1) + 1 \in Nat /\ (n + 1) - 1 = n /\ ((n + 1) + 1) - 1 = n + 1
      OBVIOUS
    <3> SUFFICES ASSUME NEW x \in D, m[x] <= n + 1  PROVE F[n + 1][x] = F[(n + 1) + 1][x]
      BY <3>0
    <3>1. F[n + 1][x] = IF x \in Stop THEN val[x] ELSE F[n][next[x]]
      BY <1>5, <3>0
    <3>2. F[(n + 1) + 1][x] = IF x \in Stop THEN val[x] ELSE F[n + 1][next[x]]
      BY <1>5, <3>0
    <3>3. x \notin Stop => next[x] \in D /\ m[next[x]] <= n
      <4>1. m[x] \in Nat
        OBVIOUS
      <4>2. x \notin Stop => next[x] \in D /\ m[next[x]] < m[x] /\ m[next[x]] \in Nat
        OBVIOUS
      <4> QED BY <3>0, <4>1, <4>2
    <3>4. x \notin Stop => F[n][next[x]] = F[n + 1][next[x]]
      BY <3>3
    <3> QED BY <3>1, <3>2, <3>4
  <2>3. T \in SUBSET Nat
    OBVIOUS
  <2> HIDE DEF T
  <2> QED BY <2>1, <2>2, <2>3, Induction
<1> DEFINE U == {n \in Nat : \A x \in D : m[x] <= n => F[n][x] = F[m[x]][x]}
<1>7. U = Nat
  <2>1. 0 \in U
    <3>1. ASSUME NEW x \in D, m[x] <= 0  PROVE m[x] = 0
      <4>1. m[x] \in Nat
        OBVIOUS
      <4> QED BY <3>1, <4>1
    <3> QED BY <3>1
  <2>2. ASSUME NEW n \in U  PROVE n + 1 \in U
    <3>0. n \in Nat /\ n + 1 \in Nat
      OBVIOUS
    <3> SUFFICES ASSUME NEW x \in D, m[x] <= n + 1  PROVE F[n + 1][x] = F[m[x]][x]
      BY <3>0
    <3>1. CASE m[x] <= n
      <4>1. F[n][x] = F[n + 1][x]
        BY <1>6, <3>0, <3>1
      <4>2. F[n][x] = F[m[x]][x]
        BY <3>1
      <4> QED BY <4>1, <4>2
    <3>2. CASE ~(m[x] <= n)
      <4>1. m[x] \in Nat
        OBVIOUS
      <4>2. m[x] = n + 1
        BY <3>0, <3>2, <4>1
      <4> QED BY <4>2
    <3> QED BY <3>1, <3>2
  <2>3. U \in SUBSET Nat
    OBVIOUS
  <2> HIDE DEF U
  <2> QED BY <2>1, <2>2, <2>3, Induction
<1> HIDE DEF T
<1> DEFINE g == [x \in D |-> F[m[x]][x]]
<1>8. ASSUME NEW x \in D  PROVE g[x] = IF x \in Stop THEN val[x] ELSE g[next[x]]
  <2>1. m[x] \in Nat /\ g[x] = F[m[x]][x]
    OBVIOUS
  <2>2. CASE x \in Stop
    BY <1>5, <2>1, <2>2
  <2>3. CASE x \notin Stop
    <3> DEFINE y == next[x]
    <3>1. y \in D /\ m[y] < m[x] /\ m[y] \in Nat
      BY <2>3
    <3> HIDE DEF y
    <3>2. m[x] # 0 /\ m[x] - 1 \in Nat /\ m[y] <= m[x] - 1
      BY <2>1, <3>1
    <3>3. F[m[x]][x] = F[m[x] - 1][y]
      BY <1>5, <2>1, <2>3, <3>2 DEF y
    <3>4. F[m[x] - 1][y] = F[m[y]][y]
      BY <1>7, <3>1, <3>2
    <3>5. g[y] = F[m[y]][y]
      BY <3>1
    <3> QED BY <2>1, <2>3, <3>3, <3>4, <3>5 DEF y
  <2> QED BY <2>2, <2>3
<1>9. g \in [D -> V]
  <2> SUFFICES ASSUME NEW x \in D  PROVE F[m[x]][x] \in V
    OBVIOUS
  <2>1. m[x] \in Nat
    OBVIOUS
  <2>2. F[m[x]] \in X
    BY <1>4, <2>1
  <2> QED BY <2>2 DEF X
<1>10. g = [x \in D |-> g[x]]
  OBVIOUS
<1> HIDE DEF g, U
<1>11. RunsOn(g, D, Stop, val, next)
  BY <1>8, <1>10, Zenon DEF RunsOn
<1> QED BY <1>9, <1>11

\* What E makes of a function at x depends on it only where the number m is smaller.
LooksDown(E, X, D, m) ==
    \A f, g \in X : \A x \in D : (\A y \in D : m[y] < m[x] => f[y] = g[y]) => E[f][x] = E[g][x]

(* A recursion that may call itself more than once defines a function, too. *)
LEMMA SmallerDefines ==
    ASSUME NEW D, NEW V, NEW m \in [D -> Nat], NEW a \in [D -> V],
           NEW E \in [[D -> V] -> [D -> V]], LooksDown(E, [D -> V], D, m)
    PROVE  \E g \in [D -> V] : g = E[g]
<1> DEFINE X == [D -> V]
<1>1. PICK F \in [Nat -> X] : RecursOn(F, a, E)
  BY RecursionOnNat
<1>2. ASSUME NEW n \in Nat  PROVE F[n] \in X /\ F[n + 1] = E[F[n]]
  <2>1. n + 1 \in Nat /\ n + 1 # 0 /\ (n + 1) - 1 = n
    OBVIOUS
  <2>2. F[n + 1] = IF n + 1 = 0 THEN a ELSE E[F[(n + 1) - 1]]
    BY <1>1, <2>1 DEF RecursOn
  <2> QED BY <1>1, <2>1, <2>2
<1>3. \A f, g \in X : \A x \in D :
        (\A y \in D : m[y] < m[x] => f[y] = g[y]) => E[f][x] = E[g][x]
  BY DEF LooksDown
<1>4. E \in [X -> X] /\ \A f \in X : f = [x \in D |-> f[x]]
  OBVIOUS
<1> HIDE DEF X
<1> DEFINE T == {n \in Nat : \A x \in D : m[x] < n => F[n][x] = F[n + 1][x]}
<1>5. T = Nat
  <2>1. 0 \in T
    <3>1. \A x \in D : m[x] \in Nat
      OBVIOUS
    <3> QED BY <3>1
  <2>2. ASSUME NEW n \in T  PROVE n + 1 \in T
    <3>0. n \in Nat /\ n + 1 \in Nat /\ (n + 1) + 1 \in Nat
      OBVIOUS
    <3> SUFFICES ASSUME NEW x \in D, m[x] < n + 1  PROVE F[n + 1][x] = F[(n + 1) + 1][x]
      BY <3>0
    <3>1. ASSUME NEW y \in D, m[y] < m[x]  PROVE F[n][y] = F[n + 1][y]
      <4>1. m[y] \in Nat /\ m[x] \in Nat
        OBVIOUS
      <4>2. m[y] < n
        BY <3>0, <3>1, <4>1
      <4> QED BY <4>2
    <3>2. F[n] \in X /\ F[n + 1] \in X /\ F[n + 1] = E[F[n]] /\ F[(n + 1) + 1] = E[F[n + 1]]
      BY <1>2, <3>0
    <3>3. E[F[n]][x] = E[F[n + 1]][x]
      BY <1>3, <3>1, <3>2
    <3> QED BY <3>2, <3>3
  <2>3. T \in SUBSET Nat
    OBVIOUS
  <2> HIDE DEF T
  <2> QED BY <2>1, <2>2, <2>3, Induction
<1> DEFINE U == {n \in Nat : \A x \in D : m[x] < n => F[n][x] = F[m[x] + 1][x]}
<1>6. U = Nat
  <2>1. 0 \in U
    <3>1. \A x \in D : m[x] \in Nat
      OBVIOUS
    <3> QED BY <3>1
  <2>2. ASSUME NEW n \in U  PROVE n + 1 \in U
    <3>0. n \in Nat /\ n + 1 \in Nat
      OBVIOUS
    <3> SUFFICES ASSUME NEW x \in D, m[x] < n + 1  PROVE F[n + 1][x] = F[m[x] + 1][x]
      BY <3>0
    <3>1. CASE m[x] < n
      <4>1. F[n][x] = F[n + 1][x]
        BY <1>5, <3>0, <3>1
      <4>2. F[n][x] = F[m[x] + 1][x]
        BY <3>1
      <4> QED BY <4>1, <4>2
    <3>2. CASE ~(m[x] < n)
      <4>1. m[x] \in Nat
        OBVIOUS
      <4>2. \A i, j \in Nat : i < j + 1 /\ ~(i < j) => i = j
        OBVIOUS
      <4>3. m[x] = n
        BY <3>0, <3>2, <4>1, <4>2
      <4> QED BY <4>3
    <3> QED BY <3>1, <3>2
  <2>3. U \in SUBSET Nat
    OBVIOUS
  <2> HIDE DEF U
  <2> QED BY <2>1, <2>2, <2>3, Induction
<1> DEFINE g == [x \in D |-> F[m[x] + 1][x]]
<1>7. g \in X
  <2> SUFFICES ASSUME NEW x \in D  PROVE F[m[x] + 1][x] \in V
    BY DEF X
  <2>1. m[x] + 1 \in Nat
    OBVIOUS
  <2>2. F[m[x] + 1] \in X
    BY <1>1, <2>1
  <2> QED BY <2>2 DEF X
<1>8. ASSUME NEW x \in D  PROVE g[x] = E[g][x]
  <2>1. m[x] \in Nat
    OBVIOUS
  <2>2. F[m[x]] \in X /\ F[m[x] + 1] = E[F[m[x]]]
    BY <1>2, <2>1
  <2>3. ASSUME NEW y \in D, m[y] < m[x]  PROVE F[m[x]][y] = g[y]
    BY <1>6, <2>1, <2>3
  <2>4. g[x] = F[m[x] + 1][x]
    OBVIOUS
  <2> HIDE DEF g
  <2>5. E[F[m[x]]][x] = E[g][x]
    BY <1>3, <1>7, <2>2, <2>3
  <2> QED BY <2>2, <2>4, <2>5
<1> HIDE DEF g
<1>9. E[g] \in X
  BY <1>4, <1>7
<1>10. g = [x \in D |-> g[x]] /\ E[g] = [x \in D |-> E[g][x]]
  BY <1>4, <1>7, <1>9
<1>11. g = E[g]
  BY <1>8, <1>10
<1> QED BY <1>7, <1>11 DEF X
=============================================================================
