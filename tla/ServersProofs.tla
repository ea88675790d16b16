--------------------------- MODULE ServersProofs ---------------------------
(***************************************************************************)
(* Proofs about the two servers.  First the event loop of epoll.c, for any *)
(* number of peers, any limits, batches and sizes: no event is lost, and   *)
(* who sent all of its request gets its own answer.  Then what the threads *)
(* of iocp.c answer without a lock, for any threads, peers, answers and    *)
(* size of the buffer: as long as no two of them answer at once, everybody *)
(* gets the answer that is his.                                            *)
(***************************************************************************)
EXTENDS Servers, Recursion, FiniteSetTheorems

----------------------------------------------------------------------------
(* Lists of descriptors. *)

In(s) == {s[i] : i \in DOMAIN s}
Distinct(s) == \A i, j \in DOMAIN s : s[i] = s[j] => i = j

(* What Append adds. *)
LEMMA Appended ==
    ASSUME NEW S, NEW s \in Seq(S), NEW x \in S
    PROVE  /\ Append(s, x) \in Seq(S)
           /\ In(Append(s, x)) = In(s) \cup {x}
           /\ Distinct(s) /\ x \notin In(s) => Distinct(Append(s, x))
<1> DEFINE t == Append(s, x)
<1>1. /\ t \in Seq(S) /\ Len(t) = Len(s) + 1 /\ Len(s) \in Nat
      /\ t[Len(s) + 1] = x /\ \A i \in 1 .. Len(s) : t[i] = s[i]
      /\ DOMAIN t = 1 .. Len(s) + 1 /\ DOMAIN s = 1 .. Len(s)
  OBVIOUS
<1> HIDE DEF t
<1>2. In(t) = In(s) \cup {x}
  <2>1. ASSUME NEW y \in In(t) PROVE y \in In(s) \cup {x}
    <3>1. PICK i \in 1 .. Len(s) + 1 : y = t[i]
      BY <1>1 DEF In
    <3> QED  BY <1>1, <3>1 DEF In
  <2>2. ASSUME NEW y \in In(s) PROVE y \in In(t)
    <3>1. PICK i \in 1 .. Len(s) : y = s[i]
      BY <1>1 DEF In
    <3>2. y = t[i] /\ i \in 1 .. Len(s) + 1
      BY <1>1, <3>1
    <3> QED  BY <1>1, <3>2 DEF In
  <2>3. x \in In(t)
    BY <1>1 DEF In
  <2> QED  BY <2>1, <2>2, <2>3
<1>3. ASSUME Distinct(s), x \notin In(s) PROVE Distinct(t)
  <2> SUFFICES ASSUME NEW i \in 1 .. Len(s) + 1, NEW j \in 1 .. Len(s) + 1, t[i] = t[j]
               PROVE  i = j
    BY <1>1 DEF Distinct
  <2>1. \A k \in 1 .. Len(s) : t[k] # x
    BY <1>1, <1>3 DEF In
  <2>2. \A k, l \in 1 .. Len(s) : t[k] = t[l] => k = l
    BY <1>1, <1>3 DEF Distinct
  <2> QED  BY <1>1, <2>1, <2>2
<1> QED  BY <1>1, <1>2, <1>3 DEF t

(* What Head and Tail take apart. *)
LEMMA Parted ==
    ASSUME NEW S, NEW s \in Seq(S), s # << >>
    PROVE  /\ Head(s) \in S /\ Tail(s) \in Seq(S)
           /\ Head(s) \in In(s)
           /\ In(s) = In(Tail(s)) \cup {Head(s)}
           /\ Distinct(s) => Distinct(Tail(s)) /\ Head(s) \notin In(Tail(s))
<1> DEFINE t == Tail(s)
<1>1. /\ Len(s) \in Nat \ {0} /\ DOMAIN s = 1 .. Len(s) /\ Head(s) = s[1]
      /\ t \in Seq(S) /\ Len(t) = Len(s) - 1 /\ DOMAIN t = 1 .. Len(s) - 1
      /\ \A i \in 1 .. Len(s) - 1 : t[i] = s[i + 1]
      /\ s[1] \in S
  OBVIOUS
<1> HIDE DEF t
<1>2. s[1] \in In(s)
  BY <1>1 DEF In
<1>3. ASSUME NEW y \in In(s), y # s[1] PROVE y \in In(t)
  <2>1. PICK i \in 1 .. Len(s) : y = s[i]
    BY <1>1 DEF In
  <2>2. i - 1 \in 1 .. Len(s) - 1 /\ y = t[i - 1]
    BY <1>1, <1>3, <2>1
  <2> QED  BY <1>1, <2>2 DEF In
<1>4. ASSUME NEW y \in In(t) PROVE y \in In(s)
  <2>1. PICK i \in 1 .. Len(s) - 1 : y = t[i]
    BY <1>1 DEF In
  <2>2. i + 1 \in 1 .. Len(s) /\ y = s[i + 1]
    BY <1>1, <2>1
  <2> QED  BY <1>1, <2>2 DEF In
<1>5. ASSUME Distinct(s) PROVE Distinct(t) /\ s[1] \notin In(t)
  <2>0. \A k, l \in 1 .. Len(s) : s[k] = s[l] => k = l
    BY <1>1, <1>5 DEF Distinct
  <2>1. ASSUME NEW i \in 1 .. Len(s) - 1, NEW j \in 1 .. Len(s) - 1, t[i] = t[j]
        PROVE  i = j
    <3>1. i + 1 \in 1 .. Len(s) /\ j + 1 \in 1 .. Len(s) /\ s[i + 1] = s[j + 1]
      BY <1>1, <2>1
    <3>2. i + 1 = j + 1
      BY <2>0, <3>1
    <3> QED  BY <3>2
  <2>2. ASSUME NEW i \in 1 .. Len(s) - 1 PROVE t[i] # s[1]
    BY <1>1, <2>0
  <2> QED  BY <1>1, <2>1, <2>2 DEF Distinct, In
<1> QED  BY <1>1, <1>2, <1>3, <1>4, <1>5 DEF t

(* A list cut in two holds what it held. *)
LEMMA Cut ==
    ASSUME NEW S, NEW s \in Seq(S), NEW n \in 0 .. Len(s)
    PROVE  LET a == SubSeq(s, 1, n)
               b == SubSeq(s, n + 1, Len(s))
           IN  /\ a \in Seq(S) /\ b \in Seq(S)
               /\ In(s) = In(a) \cup In(b)
               /\ Distinct(s) => Distinct(a) /\ Distinct(b)
<1> DEFINE a == SubSeq(s, 1, n)
           b == SubSeq(s, n + 1, Len(s))
<1>1. /\ Len(s) \in Nat /\ DOMAIN s = 1 .. Len(s)
      /\ a \in Seq(S) /\ DOMAIN a = 1 .. n /\ \A i \in 1 .. n : a[i] = s[i]
  OBVIOUS
<1>2. /\ b \in Seq(S) /\ DOMAIN b = 1 .. Len(s) - n
      /\ \A i \in 1 .. Len(s) - n : b[i] = s[n + i]
  OBVIOUS
<1> HIDE DEF a, b
<1>3. ASSUME NEW y \in In(s) PROVE y \in In(a) \cup In(b)
  <2>1. PICK i \in 1 .. Len(s) : y = s[i]
    BY <1>1 DEF In
  <2>2. CASE i \in 1 .. n
    BY <1>1, <2>1, <2>2 DEF In
  <2>3. CASE i > n
    <3>1. i - n \in 1 .. Len(s) - n /\ y = b[i - n]
      BY <1>1, <1>2, <2>1, <2>3
    <3> QED  BY <1>2, <3>1 DEF In
  <2> QED  BY <2>2, <2>3
<1>4. In(a) \subseteq In(s)
  BY <1>1 DEF In
<1>5. ASSUME NEW y \in In(b) PROVE y \in In(s)
  <2>1. PICK i \in 1 .. Len(s) - n : y = b[i]
    BY <1>2 DEF In
  <2>2. n + i \in 1 .. Len(s) /\ y = s[n + i]
    BY <1>1, <1>2, <2>1
  <2> QED  BY <1>1, <2>2 DEF In
<1>6. ASSUME Distinct(s) PROVE Distinct(a) /\ Distinct(b)
  <2>0. \A k, l \in 1 .. Len(s) : s[k] = s[l] => k = l
    BY <1>1, <1>6 DEF Distinct
  <2>1. Distinct(a)
    BY <1>1, <2>0 DEF Distinct
  <2>2. ASSUME NEW i \in 1 .. Len(s) - n, NEW j \in 1 .. Len(s) - n, b[i] = b[j]
        PROVE  i = j
    <3>1. n + i \in 1 .. Len(s) /\ n + j \in 1 .. Len(s) /\ s[n + i] = s[n + j]
      BY <1>1, <1>2, <2>2
    <3>2. n + i = n + j
      BY <2>0, <3>1
    <3> QED  BY <3>2
  <2> QED  BY <1>2, <2>1, <2>2 DEF Distinct
<1> QED  BY <1>1, <1>2, <1>3, <1>4, <1>5, <1>6 DEF a, b

(* Only keeps what it is to keep, once if it was there once. *)
LEMMA OnlyKeeps ==
    ASSUME NEW S, NEW s \in Seq(S), NEW keep
    PROVE  /\ Only(s, keep) \in Seq(S)
           /\ In(Only(s, keep)) = In(s) \cap keep
           /\ Distinct(s) => Distinct(Only(s, keep))
<1> DEFINE N == Len(s)
           E == [i \in 1 .. N |-> [t \in Seq(S) |-> IF s[i] \in keep THEN Append(t, s[i]) ELSE t]]
           Fold(g) == g = [i \in 0 .. Len(s) |->
                             IF i = 0 THEN << >>
                             ELSE IF s[i] \in keep THEN Append(g[i - 1], s[i]) ELSE g[i - 1]]
           kept == CHOOSE g : Fold(g)
<1>1. N \in Nat /\ N = Len(s) /\ DOMAIN s = 1 .. N /\ \A i \in 1 .. N : s[i] \in S
  OBVIOUS
<1> HIDE DEF N
<1>2. E \in [1 .. N -> [Seq(S) -> Seq(S)]]
  BY <1>1
<1>3. PICK h \in [0 .. N -> Seq(S)] : Recurs(h, N, << >>, E)
  <2>1. << >> \in Seq(S)
    OBVIOUS
  <2> HIDE DEF E
  <2> QED  BY <1>1, <1>2, <2>1, RecursionDefines
<1>4. \A i \in 1 .. N : h[i] = IF s[i] \in keep THEN Append(h[i - 1], s[i]) ELSE h[i - 1]
  <2> TAKE i \in 1 .. N
  <2>1. i - 1 \in 0 .. N /\ h[i - 1] \in Seq(S) /\ i # 0 /\ i \in 0 .. N
    BY <1>1
  <2>2. h[i] = E[i][h[i - 1]]
    BY <1>3, <2>1 DEF Recurs
  <2> QED  BY <2>1, <2>2
<1> HIDE DEF E
<1>5. h[0] = << >>
  BY <1>1, <1>3 DEF Recurs
<1>6. Fold(h)
  <2>1. \A i \in 0 .. N : h[i] = IF i = 0 THEN << >>
                           ELSE IF s[i] \in keep THEN Append(h[i - 1], s[i]) ELSE h[i - 1]
    <3> TAKE i \in 0 .. N
    <3>1. i = 0 \/ (i \in 1 .. N /\ i # 0)
      BY <1>1
    <3> QED  BY <1>4, <1>5, <3>1
  <2>2. h = [i \in 0 .. N |-> h[i]]
    BY <1>3
  <2> QED  BY <1>1, <2>1, <2>2, Zenon
<1>7. Fold(kept)
  BY <1>6, Zenon
<1>8. Only(s, keep) = kept[N]
  BY <1>1, Zenon DEF Only
<1> HIDE DEF kept
<1>9. /\ kept[0] = << >>
      /\ \A i \in 1 .. N : kept[i] = IF s[i] \in keep THEN Append(kept[i - 1], s[i])
                                     ELSE kept[i - 1]
  <2>1. kept[0] = << >>
    BY <1>1, <1>7
  <2>2. ASSUME NEW i \in 1 .. N
        PROVE  kept[i] = IF s[i] \in keep THEN Append(kept[i - 1], s[i]) ELSE kept[i - 1]
    <3>1. i \in 0 .. Len(s) /\ i # 0
      BY <1>1
    <3> QED  BY <1>7, <3>1
  <2> QED  BY <2>1, <2>2
<1> HIDE DEF Fold
<1> DEFINE T == {n \in 0 .. N : /\ kept[n] \in Seq(S)
                                /\ In(kept[n]) = {s[i] : i \in 1 .. n} \cap keep
                                /\ Distinct(s) => Distinct(kept[n])}
<1>10. 0 \in T
  <2>1. 0 \in 0 .. N /\ 1 .. 0 = {} /\ << >> \in Seq(S) /\ In(<< >>) = {} /\ Distinct(<< >>)
    BY <1>1 DEF In, Distinct
  <2> QED  BY <1>9, <2>1
<1>11. ASSUME NEW n \in 0 .. N - 1, n \in T PROVE n + 1 \in T
  <2> DEFINE x == s[n + 1]
  <2>1. n + 1 \in 1 .. N /\ n + 1 \in 0 .. N /\ x \in S
    BY <1>1
  <2>2. kept[n + 1] = IF x \in keep THEN Append(kept[n], x) ELSE kept[n]
    BY <1>1, <1>9, <2>1
  <2>3. {s[i] : i \in 1 .. n + 1} = {s[i] : i \in 1 .. n} \cup {x}
    <3>1. 1 .. n + 1 = (1 .. n) \cup {n + 1}
      BY <1>1
    <3> QED  BY <3>1
  <2>4. Distinct(s) => x \notin {s[i] : i \in 1 .. n}
    <3> SUFFICES ASSUME Distinct(s), NEW i \in 1 .. n, s[i] = x PROVE FALSE
      OBVIOUS
    <3>1. i \in 1 .. N /\ i # n + 1
      BY <1>1
    <3> QED  BY <1>1, <2>1, <3>1 DEF Distinct
  <2> HIDE DEF x
  <2>5. /\ kept[n] \in Seq(S)
        /\ In(kept[n]) = {s[i] : i \in 1 .. n} \cap keep
        /\ Distinct(s) => Distinct(kept[n])
    BY <1>11
  <2>6. CASE x \in keep
    <3>1. kept[n + 1] = Append(kept[n], x)
      BY <2>2, <2>6
    <3>2. /\ kept[n + 1] \in Seq(S)
          /\ In(kept[n + 1]) = In(kept[n]) \cup {x}
          /\ Distinct(kept[n]) /\ x \notin In(kept[n]) => Distinct(kept[n + 1])
      <4>1. /\ Append(kept[n], x) \in Seq(S)
            /\ In(Append(kept[n], x)) = In(kept[n]) \cup {x}
            /\ Distinct(kept[n]) /\ x \notin In(kept[n]) => Distinct(Append(kept[n], x))
        <5> DEFINE k == kept[n]
        <5>1. k \in Seq(S) /\ x \in S
          BY <2>1, <2>5
        <5> HIDE DEF k
        <5>2. /\ Append(k, x) \in Seq(S)
              /\ In(Append(k, x)) = In(k) \cup {x}
              /\ Distinct(k) /\ x \notin In(k) => Distinct(Append(k, x))
          BY ONLY <5>1, Appended
        <5> QED BY <5>2 DEF k
      <4> QED BY ONLY <3>1, <4>1
    <3> QED  BY <2>1, <2>3, <2>4, <2>5, <2>6, <3>2
  <2>7. CASE x \notin keep
    BY <2>1, <2>2, <2>3, <2>5, <2>7
  <2> QED  BY <2>6, <2>7
<1> HIDE DEF T
<1>12. N \in T
  <2>1. \A n \in 0 .. N : n \in T
    BY <1>1, <1>10, <1>11, InductionUpTo
  <2> QED  BY <1>1, <2>1
<1>13. In(s) = {s[i] : i \in 1 .. N}
  BY <1>1 DEF In
<1> QED  BY <1>8, <1>12, <1>13 DEF T

----------------------------------------------------------------------------
(* The invariant. *)

Descriptor == Client \cup {Listener}
Half == {Want[c] : c \in Client} \cup {Nothing}
Reply == (Half \X Half) \cup {Nothing}

TypeOK ==
    /\ limits \in [MAXSIZE: Nat \ {0}, nofile: Nat]
    /\ conn \in [Client -> {"out", "queued", "open", "refused", "closed"}]
    /\ sent \in [Client -> 0 .. 2] /\ taken \in [Client -> 0 .. 2]
    /\ gone \in [Client -> BOOLEAN]
    /\ backlog \in Seq(Client) /\ ready \in Seq(Descriptor) /\ batch \in Seq(Descriptor)
    /\ rbuf \in Half \X Half
    /\ wbuf \in [reply: Reply, len: {0, Size}, cnt: 0 .. Size]
    /\ sock \in [Client -> 0 .. SockBuf] /\ got \in [Client -> Nat]
    /\ reply \in [Client -> Reply]
    /\ pc \in {"wait", "loop", "accept", "write"}

\* Each list names a descriptor once, and only what is there to be accepted or watched.
Lists ==
    /\ Distinct(backlog) /\ \A c \in In(backlog) : conn[c] = "queued"
    /\ Distinct(ready) /\ \A f \in In(ready) : f = Listener \/ conn[f] = "open"
    /\ Distinct(batch) /\ \A f \in In(batch) : f = Listener \/ conn[f] = "open"

\* Where the loop stands: what it is busy with is the head of its batch.
Busy ==
    /\ pc = "wait" => batch = << >>
    /\ pc = "accept" => batch # << >> /\ Head(batch) = Listener
    /\ pc = "write" => batch # << >> /\ Head(batch) # Listener

\* Every event there is has been handed to the loop or is on the list that wakes it.
NothingMissed ==
    \A f \in Open \cup {Listener} : Reports(f) => f \in In(ready) \cup In(batch)

\* The peer that is being answered, and what it got so far.
Answering(c) == pc = "write" /\ c = Head(batch)
Through(c) == got[c] + sock[c]

Untouched ==
    \A c \in Client : conn[c] # "closed" /\ ~Answering(c) =>
      taken[c] = 0 /\ reply[c] = Nothing /\ Through(c) = 0

\* A file asked for while there may be no descriptor left to open it with.
MayFail(c) == Want[c] \in Files /\ limits.nofile <= Cardinality(Client)

BeingAnswered ==
    pc = "write" =>
      LET c == Head(batch) IN
      /\ taken[c] > 0
      /\ Through(c) = wbuf.cnt /\ wbuf.cnt <= wbuf.len
      /\ reply[c] = IF wbuf.cnt = 0 THEN Nothing ELSE wbuf.reply
      /\ taken[c] = 2 => /\ wbuf.reply = <<Want[c], Want[c]>>
                         /\ wbuf.len = 0 => MayFail(c)

Answered ==
    \A c \in Client : conn[c] = "closed" /\ taken[c] = 2 /\ ~gone[c] =>
      \/ reply[c] = <<Want[c], Want[c]>> /\ Through(c) = Size
      \/ reply[c] = Nothing /\ Through(c) = 0 /\ MayFail(c)

IInv ==
    /\ TypeOK /\ Lists /\ Busy /\ NothingMissed
    /\ Untouched /\ BeingAnswered /\ Answered

----------------------------------------------------------------------------
(* The loop and its lists. *)

(* A descriptor that is woken is on the list once. *)
LEMMA WokenFacts ==
    ASSUME TypeOK, Lists, NEW f \in Descriptor
    PROVE  /\ Woken(f) \in Seq(Descriptor) /\ Distinct(Woken(f))
           /\ In(Woken(f)) = In(ready) \cup {f}
<1>1. ready \in Seq(Descriptor) /\ Distinct(ready)
  BY DEF TypeOK, Lists
<1>2. CASE f \in In(ready)
  <2>1. Woken(f) = ready
    BY <1>2 DEF Woken, In
  <2> QED  BY <1>1, <1>2, <2>1
<1>3. CASE f \notin In(ready)
  <2>1. Woken(f) = Append(ready, f)
    BY <1>3 DEF Woken, In
  <2> QED  BY <1>1, <1>3, <2>1, Appended
<1> QED  BY <1>2, <1>3

(* A connection at the head of the batch is open, and there only once. *)
LEMMA HeadFacts ==
    ASSUME TypeOK, Lists, batch # << >>, Head(batch) # Listener
    PROVE  /\ Head(batch) \in Client /\ conn[Head(batch)] = "open"
           /\ Head(batch) \in In(batch)
           /\ Tail(batch) \in Seq(Descriptor) /\ Distinct(Tail(batch))
           /\ In(Tail(batch)) = In(batch) \ {Head(batch)}
<1>1. batch \in Seq(Descriptor) /\ Distinct(batch)
  BY DEF TypeOK, Lists
<1>2. /\ Head(batch) \in Descriptor /\ Head(batch) \in In(batch)
      /\ Tail(batch) \in Seq(Descriptor) /\ Distinct(Tail(batch))
      /\ In(batch) = In(Tail(batch)) \cup {Head(batch)}
      /\ Head(batch) \notin In(Tail(batch))
  BY <1>1, Parted
<1>3. conn[Head(batch)] = "open"
  BY <1>2 DEF Lists
<1> QED  BY <1>2, <1>3 DEF Descriptor

(* Closing it takes it out of both lists. *)
LEMMA ClosedFacts ==
    ASSUME TypeOK, Lists, batch # << >>, Head(batch) # Listener, Closed(Head(batch))
    PROVE  /\ ready' \in Seq(Descriptor) /\ Distinct(ready')
           /\ batch' \in Seq(Descriptor) /\ Distinct(batch')
           /\ In(ready') = In(ready) \ {Head(batch)}
           /\ In(batch') = In(batch) \ {Head(batch)}
           /\ conn' = [conn EXCEPT ![Head(batch)] = "closed"] /\ pc' = "loop"
<1>1. /\ ready' = Only(ready, Descriptor \ {Head(batch)}) /\ batch' = Tail(batch)
      /\ conn' = [conn EXCEPT ![Head(batch)] = "closed"] /\ pc' = "loop"
  BY DEF Closed, Descriptor
<1>2. ready \in Seq(Descriptor) /\ Distinct(ready) /\ In(ready) \subseteq Descriptor
  BY DEF TypeOK, Lists, In
<1>3. /\ Only(ready, Descriptor \ {Head(batch)}) \in Seq(Descriptor)
      /\ In(Only(ready, Descriptor \ {Head(batch)})) = In(ready) \cap (Descriptor \ {Head(batch)})
      /\ Distinct(Only(ready, Descriptor \ {Head(batch)}))
  BY <1>2, OnlyKeeps
<1> QED  BY <1>1, <1>2, <1>3, HeadFacts

(* epoll_wait hands out or keeps whatever has something to report. *)
LEMMA WaitFacts ==
    ASSUME TypeOK, Lists, epoll_wait
    PROVE  /\ ready' \in Seq(Descriptor) /\ Distinct(ready')
           /\ batch' \in Seq(Descriptor) /\ Distinct(batch')
           /\ In(ready') \cup In(batch') = {f \in In(ready) : Reports(f)}
<1> DEFINE keep == {f \in Client \cup {Listener} : Reports(f)}
           live == Only(ready, keep)
           n == IF Len(live) < Batch THEN Len(live) ELSE Batch
<1>1. ready \in Seq(Descriptor) /\ Distinct(ready) /\ In(ready) \subseteq Descriptor
  BY DEF TypeOK, Lists, In
<1>2. batch' = SubSeq(live, 1, n) /\ ready' = SubSeq(live, n + 1, Len(live))
  BY DEF epoll_wait
<1> HIDE DEF keep
<1>3. live \in Seq(Descriptor) /\ In(live) = In(ready) \cap keep /\ Distinct(live)
  BY <1>1, OnlyKeeps
<1> HIDE DEF live
<1>4. n \in 0 .. Len(live)
  BY <1>3, Sizes
<1> HIDE DEF n
<1>5. /\ batch' \in Seq(Descriptor) /\ ready' \in Seq(Descriptor)
      /\ In(live) = In(batch') \cup In(ready')
      /\ Distinct(batch') /\ Distinct(ready')
  BY <1>2, <1>3, <1>4, Cut
<1> QED  BY <1>1, <1>3, <1>5 DEF keep, Descriptor

(* What a write puts into the socket is no more than is left of the answer, and than
   the socket has room for. *)
LEMMA FitsFacts ==
    ASSUME TypeOK, BeingAnswered, pc = "write", Head(batch) \in Client
    PROVE  /\ Fits(Head(batch)) \in Nat
           /\ wbuf.cnt + Fits(Head(batch)) <= wbuf.len
           /\ sock[Head(batch)] + Fits(Head(batch)) <= SockBuf
           /\ wbuf.len \in {0, Size} /\ wbuf.cnt \in 0 .. Size
           /\ sock[Head(batch)] \in 0 .. SockBuf
<1>1. /\ wbuf.len \in {0, Size} /\ wbuf.cnt \in 0 .. Size /\ wbuf.cnt <= wbuf.len
      /\ sock[Head(batch)] \in 0 .. SockBuf
  BY DEF TypeOK, BeingAnswered
<1> QED  BY <1>1, Sizes DEF Fits

----------------------------------------------------------------------------

(* The variables stay in their types. *)
LEMMA TypeStep == IInv /\ [Next]_vars => TypeOK'
<1> SUFFICES ASSUME IInv, [Next]_vars PROVE TypeOK'
  OBVIOUS
<1>0. TypeOK /\ Lists /\ Busy /\ BeingAnswered
  BY DEF IInv
<1>1. ASSUME NEW c \in Client, Connect(c) PROVE TypeOK'
  <2>1. Woken(Listener) \in Seq(Descriptor)
    BY <1>0, WokenFacts DEF Descriptor
  <2> QED  BY <1>0, <1>1, <2>1 DEF TypeOK, Connect, server
<1>2. ASSUME NEW c \in Client, Send(c) \/ Leave(c) PROVE TypeOK'
  <2>1. Woken(c) \in Seq(Descriptor)
    BY <1>0, WokenFacts DEF Descriptor
  <2>2. sent' \in [Client -> 0 .. 2] /\ gone' \in [Client -> BOOLEAN]
    <3>1. CASE Send(c)
      <4>1. PICK n \in sent[c] + 1 .. 2 : sent' = [sent EXCEPT ![c] = n]
        BY <3>1 DEF Send
      <4>2. sent[c] \in 0 .. 2 /\ sent \in [Client -> 0 .. 2]
        BY <1>0 DEF TypeOK
      <4>3. n \in 0 .. 2
        BY <4>1, <4>2
      <4> QED  BY <1>0, <3>1, <4>1, <4>2, <4>3 DEF TypeOK, Send
    <3>2. CASE Leave(c)
      BY <1>0, <3>2 DEF TypeOK, Leave
    <3> QED  BY <1>2, <3>1, <3>2
  <2>3. ready' \in Seq(Descriptor) /\ UNCHANGED <<limits, conn, backlog, sock, got, server>>
    BY <1>0, <1>2, <2>1 DEF TypeOK, Send, Leave
  <2> QED  BY <1>0, <2>2, <2>3 DEF TypeOK, server
<1>3. ASSUME NEW c \in Client, Receive(c) \/ Reset(c) PROVE TypeOK'
  <2>1. sock' \in [Client -> 0 .. SockBuf] /\ got' \in [Client -> Nat]
    <3>1. sock[c] \in 0 .. SockBuf /\ got[c] \in Nat /\ SockBuf \in Nat
      BY <1>0, Sizes DEF TypeOK
    <3>2. CASE Receive(c)
      BY <1>0, <3>1, <3>2 DEF TypeOK, Receive
    <3>3. CASE Reset(c)
      BY <1>0, <3>1, <3>3 DEF TypeOK, Reset
    <3> QED  BY <1>3, <3>2, <3>3
  <2>2. UNCHANGED <<limits, conn, sent, gone, backlog, ready, server>>
    BY <1>3 DEF Receive, Reset
  <2> QED  BY <1>0, <2>1, <2>2 DEF TypeOK, server
<1>4. CASE epoll_wait
  <2>1. ready' \in Seq(Descriptor) /\ batch' \in Seq(Descriptor)
    BY <1>0, <1>4, WaitFacts
  <2> QED  BY <1>0, <1>4, <2>1 DEF TypeOK, epoll_wait
<1>5. CASE listensocket
  BY <1>0, <1>5 DEF TypeOK, listensocket
<1>6. CASE myaccept
  <2>1. /\ Head(backlog) \in Client /\ Tail(backlog) \in Seq(Client)
    BY <1>0, <1>6, Parted DEF TypeOK, myaccept
  <2>2. Woken(Head(backlog)) \in Seq(Descriptor)
    BY <1>0, <2>1, WokenFacts DEF Descriptor
  <2>3. ready' \in Seq(Descriptor) /\ backlog' \in Seq(Client)
    BY <1>0, <1>6, <2>1, <2>2 DEF TypeOK, myaccept
  <2>4. conn' \in [Client -> {"out", "queued", "open", "refused", "closed"}]
    BY <1>0, <1>6 DEF TypeOK, myaccept
  <2>5. UNCHANGED <<limits, sent, gone, sock, got, server>>
    BY <1>6 DEF myaccept
  <2> QED  BY <1>0, <2>3, <2>4, <2>5 DEF TypeOK, server
<1>7. CASE accept_fails
  <2>1. Woken(Listener) \in Seq(Descriptor)
    BY <1>0, WokenFacts DEF Descriptor
  <2>2. Tail(batch) \in Seq(Descriptor)
    BY <1>0, <1>7 DEF TypeOK, Busy, accept_fails
  <2> QED  BY <1>0, <1>7, <2>1, <2>2 DEF TypeOK, accept_fails
<1>8. CASE read_nothing \/ write_fails
  <2>1. batch # << >> /\ Head(batch) # Listener /\ Closed(Head(batch))
    BY <1>0, <1>8 DEF Busy, read_nothing, write_fails
  <2>2. /\ ready' \in Seq(Descriptor) /\ batch' \in Seq(Descriptor)
        /\ conn' = [conn EXCEPT ![Head(batch)] = "closed"] /\ pc' = "loop"
    BY <1>0, <2>1, ClosedFacts
  <2>3. UNCHANGED <<limits, sent, gone, backlog, sock, got, rbuf, wbuf, taken, reply>>
    BY <1>8 DEF read_nothing, write_fails
  <2> QED  BY <1>0, <2>2, <2>3 DEF TypeOK
<1>9. CASE myread
  <2>1. Head(batch) \in Client
    BY <1>0, <1>9, HeadFacts DEF myread
  <2>2. InBuffer(Head(batch)) \in Half \X Half
    BY <1>0, <2>1 DEF InBuffer, Half, TypeOK
  <2>3. \A name \in Half \X Half : Lengths(name) \subseteq {0, Size}
    BY DEF Lengths
  <2>4. /\ rbuf' \in Half \X Half
        /\ wbuf' \in [reply: Reply, len: {0, Size}, cnt: 0 .. Size]
        /\ taken' \in [Client -> 0 .. 2]
        /\ pc' = "write"
        /\ UNCHANGED <<limits, conn, sent, gone, backlog, ready, sock, got, batch, reply>>
    BY <1>0, <1>9, <2>1, <2>2, <2>3, Sizes DEF myread, TypeOK, Reply
  <2> QED  BY <1>0, <2>4 DEF TypeOK
<1>10. CASE write
  <2>1. batch # << >> /\ Head(batch) # Listener /\ pc = "write"
    BY <1>0, <1>10 DEF Busy, write
  <2>2. Head(batch) \in Client
    BY <1>0, <2>1, HeadFacts
  <2>3. /\ Fits(Head(batch)) \in Nat
        /\ wbuf.cnt + Fits(Head(batch)) \in 0 .. Size
        /\ sock[Head(batch)] + Fits(Head(batch)) \in 0 .. SockBuf
    BY <1>0, <2>1, <2>2, FitsFacts, Sizes
  <2>4. /\ wbuf' \in [reply: Reply, len: {0, Size}, cnt: 0 .. Size]
        /\ sock' \in [Client -> 0 .. SockBuf]
    BY <1>0, <1>10, <2>2, <2>3 DEF TypeOK, write
  <2>5. reply' \in [Client -> Reply]
    BY <1>0, <1>10, <2>2 DEF TypeOK, write
  <2>6. /\ ready' \in Seq(Descriptor) /\ batch' \in Seq(Descriptor)
        /\ conn' \in [Client -> {"out", "queued", "open", "refused", "closed"}]
        /\ pc' \in {"wait", "loop", "accept", "write"}
    <3>1. CASE Closed(Head(batch))
      BY <1>0, <2>1, <3>1, ClosedFacts DEF TypeOK
    <3>2. CASE UNCHANGED <<conn, ready, batch, pc>>
      BY <1>0, <3>2 DEF TypeOK
    <3> QED  BY <1>10, <3>1, <3>2 DEF write
  <2>7. UNCHANGED <<limits, sent, gone, backlog, got, rbuf, taken>>
    BY <1>10 DEF write
  <2> QED  BY <1>0, <2>4, <2>5, <2>6, <2>7 DEF TypeOK
<1>11. CASE UNCHANGED vars
  BY <1>0, <1>11 DEF TypeOK, vars, server
<1> QED
  BY <1>1, <1>2, <1>3, <1>4, <1>5, <1>6, <1>7, <1>8, <1>9, <1>10, <1>11
     DEF Next, Serving

(* Only what waits to be accepted is in the backlog, and only what is open is watched. *)
LEMMA ListsStep == IInv /\ [Next]_vars => Lists'
<1> SUFFICES ASSUME IInv, [Next]_vars PROVE Lists'
  OBVIOUS
<1>0. TypeOK /\ Lists /\ Busy
  BY DEF IInv
<1>1. ASSUME NEW c \in Client, Connect(c) PROVE Lists'
  <2>1. /\ In(Woken(Listener)) = In(ready) \cup {Listener} /\ Distinct(Woken(Listener))
    BY <1>0, WokenFacts DEF Descriptor
  <2>2. /\ backlog \in Seq(Client) /\ c \notin In(backlog)
    BY <1>0, <1>1 DEF TypeOK, Lists, Connect
  <2>3. In(backlog') = In(backlog) \cup {c} /\ Distinct(backlog')
    BY <1>0, <1>1, <2>2, Appended DEF Lists, Connect
  <2>4. \A d \in Client : conn'[d] = IF d = c THEN "queued" ELSE conn[d]
    BY <1>0, <1>1 DEF TypeOK, Connect
  <2>5. In(ready) \subseteq Descriptor /\ In(batch) \subseteq Descriptor
        /\ In(backlog) \subseteq Client
    BY <1>0 DEF TypeOK, In
  <2>6. ready' = Woken(Listener) /\ batch' = batch /\ conn[c] = "out"
    BY <1>1 DEF Connect, server
  <2> QED  BY <1>0, <2>1, <2>3, <2>4, <2>5, <2>6 DEF Lists, Descriptor
<1>2. ASSUME NEW c \in Client, Send(c) \/ Leave(c) PROVE Lists'
  <2>1. In(Woken(c)) = In(ready) \cup {c} /\ Distinct(Woken(c))
    BY <1>0, WokenFacts DEF Descriptor
  <2>2. /\ UNCHANGED <<conn, backlog, batch>>
        /\ ready' = IF conn[c] = "open" THEN Woken(c) ELSE ready
    BY <1>2 DEF Send, Leave, server
  <2> QED  BY <1>0, <2>1, <2>2 DEF Lists
<1>3. ASSUME NEW c \in Client, Receive(c) \/ Reset(c) PROVE Lists'
  <2>1. UNCHANGED <<conn, backlog, ready, batch>>
    BY <1>3 DEF Receive, Reset, server
  <2> QED  BY <1>0, <2>1 DEF Lists
<1>4. CASE epoll_wait
  <2>1. /\ Distinct(ready') /\ Distinct(batch')
        /\ In(ready') \cup In(batch') \subseteq In(ready)
    BY <1>0, <1>4, WaitFacts
  <2>2. UNCHANGED <<conn, backlog>>
    BY <1>4 DEF epoll_wait
  <2> QED  BY <1>0, <2>1, <2>2 DEF Lists
<1>5. CASE listensocket \/ myread
  <2>1. UNCHANGED <<conn, backlog, ready, batch>>
    BY <1>5 DEF listensocket, myread
  <2> QED  BY <1>0, <2>1 DEF Lists
<1>6. CASE myaccept
  <2> DEFINE c == Head(backlog)
  <2>1. backlog \in Seq(Client) /\ backlog # << >> /\ Distinct(backlog)
    BY <1>0, <1>6 DEF TypeOK, Lists, myaccept
  <2>2. /\ c \in Client /\ c \in In(backlog)
        /\ In(backlog) = In(Tail(backlog)) \cup {c}
        /\ Distinct(Tail(backlog)) /\ c \notin In(Tail(backlog))
    BY <2>1, Parted
  <2>3. conn[c] = "queued"
    BY <1>0, <2>2 DEF Lists
  <2>4. In(Woken(c)) = In(ready) \cup {c} /\ Distinct(Woken(c))
    BY <1>0, <2>2, WokenFacts DEF Descriptor
  <2>5. backlog' = Tail(backlog) /\ batch' = batch
    BY <1>6 DEF myaccept, server
  <2>6. \/ /\ conn' = [conn EXCEPT ![c] = "refused"] /\ ready' = ready
        \/ /\ conn' = [conn EXCEPT ![c] = "open"]
           /\ ready' = IF Pending(c) THEN Woken(c) ELSE ready
    BY <1>6 DEF myaccept
  <2>7. In(ready) \subseteq Descriptor /\ In(batch) \subseteq Descriptor
        /\ In(backlog) \subseteq Client
    BY <1>0 DEF TypeOK, In
  <2> HIDE DEF c
  <2>8. \A d \in Client \ {c} : conn'[d] = conn[d]
    BY <1>0, <2>6 DEF TypeOK
  <2>9. (c \notin In(ready) /\ c \notin In(batch)) \/ c = Listener
    BY <1>0, <2>3 DEF Lists
  <2>10. c # Listener
    BY <2>2, ListenerApart
  <2>11. CASE conn' = [conn EXCEPT ![c] = "refused"] /\ ready' = ready
    BY <1>0, <2>2, <2>5, <2>7, <2>8, <2>9, <2>10, <2>11 DEF Lists, Descriptor
  <2>12. CASE /\ conn' = [conn EXCEPT ![c] = "open"]
              /\ ready' = IF Pending(c) THEN Woken(c) ELSE ready
    <3>1. conn'[c] = "open"
      BY <1>0, <2>2, <2>12 DEF TypeOK
    <3>2. Distinct(ready') /\ In(ready') \subseteq In(ready) \cup {c}
      BY <1>0, <2>4, <2>12 DEF Lists
    <3> QED  BY <1>0, <2>2, <2>5, <2>7, <2>8, <2>9, <2>10, <3>1, <3>2 DEF Lists, Descriptor
  <2> QED  BY <2>6, <2>11, <2>12
<1>7. CASE accept_fails
  <2>1. In(Woken(Listener)) = In(ready) \cup {Listener} /\ Distinct(Woken(Listener))
    BY <1>0, WokenFacts DEF Descriptor
  <2>2. In(batch) = In(Tail(batch)) \cup {Head(batch)} /\ Distinct(Tail(batch))
    BY <1>0, <1>7, Parted DEF TypeOK, Lists, Busy, accept_fails
  <2>3. /\ UNCHANGED <<conn, backlog>> /\ batch' = Tail(batch)
        /\ ready' = IF backlog # << >> THEN Woken(Listener) ELSE ready
    BY <1>7 DEF accept_fails
  <2> QED  BY <1>0, <2>1, <2>2, <2>3 DEF Lists
<1>8. ASSUME batch # << >>, Head(batch) # Listener, Closed(Head(batch)), UNCHANGED backlog
      PROVE  Lists'
  <2> DEFINE c == Head(batch)
  <2>1. /\ Distinct(ready') /\ Distinct(batch')
        /\ In(ready') = In(ready) \ {c} /\ In(batch') = In(batch) \ {c}
        /\ conn' = [conn EXCEPT ![c] = "closed"]
    BY <1>0, <1>8, ClosedFacts
  <2>2. c \in Client /\ conn[c] = "open"
    BY <1>0, <1>8, HeadFacts
  <2>3. In(ready) \subseteq Descriptor /\ In(batch) \subseteq Descriptor
        /\ In(backlog) \subseteq Client
    BY <1>0 DEF TypeOK, In
  <2> HIDE DEF c
  <2>4. \A d \in Client \ {c} : conn'[d] = conn[d]
    BY <1>0, <2>1 DEF TypeOK
  <2>5. c \notin In(backlog)
    BY <1>0, <2>2 DEF Lists
  <2> QED  BY <1>0, <1>8, <2>1, <2>2, <2>3, <2>4, <2>5 DEF Lists, Descriptor
<1>9. CASE read_nothing \/ write_fails
  <2>1. /\ batch # << >> /\ Head(batch) # Listener /\ Closed(Head(batch))
        /\ UNCHANGED backlog
    BY <1>0, <1>9 DEF Busy, read_nothing, write_fails
  <2> QED  BY <1>8, <2>1
<1>10. CASE write
  <2>1. /\ batch # << >> /\ Head(batch) # Listener /\ UNCHANGED backlog
        /\ Closed(Head(batch)) \/ UNCHANGED <<conn, ready, batch, pc>>
    BY <1>0, <1>10 DEF Busy, write
  <2>2. CASE UNCHANGED <<conn, ready, batch, pc>>
    BY <1>0, <2>1, <2>2 DEF Lists
  <2> QED  BY <1>8, <2>1, <2>2
<1>11. CASE UNCHANGED vars
  BY <1>0, <1>11 DEF Lists, vars, server
<1> QED
  BY <1>1, <1>2, <1>3, <1>4, <1>5, <1>6, <1>7, <1>9, <1>10, <1>11 DEF Next, Serving

(* The loop is busy with the head of its batch. *)
LEMMA BusyStep == IInv /\ [Next]_vars => Busy'
<1> SUFFICES ASSUME IInv, [Next]_vars PROVE Busy'
  OBVIOUS
<1>0. TypeOK /\ Lists /\ Busy
  BY DEF IInv
<1>1. ASSUME NEW c \in Client,
             Connect(c) \/ Send(c) \/ Receive(c) \/ Leave(c) \/ Reset(c)
      PROVE  Busy'
  <2>1. UNCHANGED <<batch, pc>>
    BY <1>1 DEF Connect, Send, Receive, Leave, Reset, server
  <2> QED  BY <1>0, <2>1 DEF Busy
<1>2. CASE epoll_wait
  BY <1>2 DEF Busy, epoll_wait
<1>3. CASE listensocket
  BY <1>0, <1>3 DEF Busy, listensocket
<1>4. CASE myaccept
  BY <1>0, <1>4 DEF Busy, myaccept, server
<1>5. CASE accept_fails
  BY <1>5 DEF Busy, accept_fails
<1>6. CASE read_nothing \/ write_fails
  BY <1>6 DEF Busy, read_nothing, write_fails, Closed
<1>7. CASE myread
  BY <1>7 DEF Busy, myread
<1>8. CASE write
  BY <1>0, <1>8 DEF Busy, write, Closed
<1>9. CASE UNCHANGED vars
  BY <1>0, <1>9 DEF Busy, vars, server
<1> QED
  BY <1>1, <1>2, <1>3, <1>4, <1>5, <1>6, <1>7, <1>8, <1>9 DEF Next, Serving

(* No step loses an event: what newly has something to report is woken, and what the
   loop is done with has nothing, is closed or is woken again. *)
LEMMA NothingMissedStep == IInv /\ [Next]_vars => NothingMissed'
<1> SUFFICES ASSUME IInv, [Next]_vars PROVE NothingMissed'
  OBVIOUS
<1>0. TypeOK /\ Lists /\ Busy /\ NothingMissed
  BY DEF IInv
<1>1. ASSUME NEW c \in Client, Connect(c) PROVE NothingMissed'
  <2>1. In(ready') = In(ready) \cup {Listener}
    BY <1>0, <1>1, WokenFacts DEF Connect, Descriptor
  <2>2. \A d \in Client : conn'[d] = IF d = c THEN "queued" ELSE conn[d]
    BY <1>0, <1>1 DEF TypeOK, Connect
  <2>3. UNCHANGED <<sent, taken, gone, batch>>
    BY <1>1 DEF Connect, server
  <2> QED  BY <1>0, <2>1, <2>2, <2>3, ListenerApart
           DEF NothingMissed, Open, Reports, Pending
<1>2. ASSUME NEW c \in Client, Send(c) \/ Leave(c) PROVE NothingMissed'
  <2>1. In(Woken(c)) = In(ready) \cup {c}
    BY <1>0, WokenFacts DEF Descriptor
  <2>2. /\ UNCHANGED <<conn, backlog, taken, batch>>
        /\ ready' = IF conn[c] = "open" THEN Woken(c) ELSE ready
    BY <1>2 DEF Send, Leave, server
  <2>3. \A d \in Client \ {c} : sent'[d] = sent[d] /\ gone'[d] = gone[d]
    BY <1>0, <1>2 DEF TypeOK, Send, Leave
  <2> QED  BY <1>0, <2>1, <2>2, <2>3 DEF NothingMissed, Open, Reports, Pending
<1>3. ASSUME NEW c \in Client, Receive(c) \/ Reset(c) PROVE NothingMissed'
  <2>1. UNCHANGED <<conn, sent, taken, gone, backlog, ready, batch>>
    BY <1>3 DEF Receive, Reset, server
  <2> QED  BY <1>0, <2>1 DEF NothingMissed, Open, Reports, Pending
<1>4. CASE epoll_wait
  <2>1. In(ready') \cup In(batch') = {f \in In(ready) : Reports(f)}
    BY <1>0, <1>4, WaitFacts
  <2>2. UNCHANGED <<conn, sent, taken, gone, backlog>> /\ In(batch) = {}
    BY <1>0, <1>4 DEF epoll_wait, Busy, In
  <2> QED  BY <1>0, <2>1, <2>2 DEF NothingMissed, Open, Reports, Pending
<1>5. CASE listensocket
  <2>1. UNCHANGED <<conn, sent, taken, gone, backlog, ready, batch>>
    BY <1>5 DEF listensocket
  <2> QED  BY <1>0, <2>1 DEF NothingMissed, Open, Reports, Pending
<1>6. CASE myaccept
  <2> DEFINE c == Head(backlog)
  <2>1. c \in Client
    BY <1>0, <1>6, Parted DEF TypeOK, myaccept
  <2>2. In(Woken(c)) = In(ready) \cup {c}
    BY <1>0, <2>1, WokenFacts DEF Descriptor
  <2>3. Listener \in In(batch)
    BY <1>0, <1>6, Parted DEF TypeOK, Busy, myaccept
  <2>4. \/ conn' = [conn EXCEPT ![c] = "refused"] /\ ready' = ready
        \/ /\ conn' = [conn EXCEPT ![c] = "open"]
           /\ ready' = IF Pending(c) THEN Woken(c) ELSE ready
    BY <1>6 DEF myaccept
  <2>5. UNCHANGED <<sent, taken, gone, batch>>
    BY <1>6 DEF myaccept, server
  <2> HIDE DEF c
  <2>6. /\ \A d \in Client \ {c} : conn'[d] = conn[d]
        /\ conn'[c] = "open" => ready' = IF Pending(c) THEN Woken(c) ELSE ready
        /\ ready' = ready \/ ready' = Woken(c)
    BY <1>0, <2>1, <2>4 DEF TypeOK
  <2> SUFFICES ASSUME NEW f \in Open' \cup {Listener}, Reports(f)'
               PROVE  f \in In(ready') \cup In(batch')
    BY DEF NothingMissed
  <2>7. CASE f = Listener
    BY <2>3, <2>5, <2>7
  <2>8. CASE f = c /\ f # Listener
    BY <2>2, <2>5, <2>6, <2>8 DEF Open, Reports, Pending
  <2>9. CASE f # c /\ f # Listener
    <3>1. f \in Open /\ Reports(f)
      BY <2>5, <2>6, <2>9 DEF Open, Reports, Pending
    <3> QED  BY <1>0, <2>2, <2>5, <2>6, <3>1 DEF NothingMissed
  <2> QED  BY <2>7, <2>8, <2>9
<1>7. CASE accept_fails
  <2>1. In(Woken(Listener)) = In(ready) \cup {Listener}
    BY <1>0, WokenFacts DEF Descriptor
  <2>2. In(batch) = In(Tail(batch)) \cup {Listener}
    BY <1>0, <1>7, Parted DEF TypeOK, Busy, accept_fails
  <2>3. /\ UNCHANGED <<conn, sent, taken, gone, backlog>> /\ batch' = Tail(batch)
        /\ ready' = IF backlog # << >> THEN Woken(Listener) ELSE ready
    BY <1>7 DEF accept_fails
  <2> QED  BY <1>0, <2>1, <2>2, <2>3 DEF NothingMissed, Open, Reports, Pending
<1>8. ASSUME batch # << >>, Head(batch) # Listener, Closed(Head(batch)),
             UNCHANGED <<sent, taken, gone, backlog>>
      PROVE  NothingMissed'
  <2> DEFINE c == Head(batch)
  <2>1. /\ In(ready') = In(ready) \ {c} /\ In(batch') = In(batch) \ {c}
        /\ conn' = [conn EXCEPT ![c] = "closed"]
    BY <1>0, <1>8, ClosedFacts
  <2>2. c \in Client /\ c # Listener
    BY <1>0, <1>8, HeadFacts
  <2> HIDE DEF c
  <2>3. \A d \in Client : conn'[d] = IF d = c THEN "closed" ELSE conn[d]
    BY <1>0, <2>1 DEF TypeOK
  <2> QED  BY <1>0, <1>8, <2>1, <2>2, <2>3 DEF NothingMissed, Open, Reports, Pending
<1>9. CASE read_nothing \/ write_fails
  <2>1. /\ batch # << >> /\ Head(batch) # Listener /\ Closed(Head(batch))
        /\ UNCHANGED <<sent, taken, gone, backlog>>
    BY <1>0, <1>9 DEF Busy, read_nothing, write_fails
  <2> QED  BY <1>8, <2>1
<1>10. CASE myread
  <2> DEFINE c == Head(batch)
  <2>1. c \in Client /\ c \in In(batch)
    BY <1>0, <1>10, HeadFacts DEF myread
  <2>2. taken' = [taken EXCEPT ![c] = sent[c]]
        /\ UNCHANGED <<conn, sent, gone, backlog, ready, batch>>
    BY <1>10 DEF myread
  <2> HIDE DEF c
  <2>3. \A d \in Client \ {c} : taken'[d] = taken[d]
    BY <1>0, <2>2 DEF TypeOK
  <2> QED  BY <1>0, <2>1, <2>2, <2>3 DEF NothingMissed, Open, Reports, Pending
<1>11. CASE write
  <2>1. /\ batch # << >> /\ Head(batch) # Listener
        /\ UNCHANGED <<sent, taken, gone, backlog>>
        /\ Closed(Head(batch)) \/ UNCHANGED <<conn, ready, batch, pc>>
    BY <1>0, <1>11 DEF Busy, write
  <2>2. CASE UNCHANGED <<conn, ready, batch, pc>>
    BY <1>0, <2>1, <2>2 DEF NothingMissed, Open, Reports, Pending
  <2> QED  BY <1>8, <2>1, <2>2
<1>12. CASE UNCHANGED vars
  BY <1>0, <1>12 DEF NothingMissed, Open, Reports, Pending, vars, server
<1> QED
  BY <1>1, <1>2, <1>3, <1>4, <1>5, <1>6, <1>7, <1>9, <1>10, <1>11, <1>12
     DEF Next, Serving

----------------------------------------------------------------------------
(* The answers. *)

(* There are no more open connections than peers. *)
LEMMA OpenBound ==
    /\ Cardinality(Open) \in Nat /\ Cardinality(Client) \in Nat
    /\ Cardinality(Open) <= Cardinality(Client)
<1>1. Open \subseteq Client
  BY DEF Open
<1> QED  BY <1>1, ClientFinite, FS_Subset, FS_CardinalityType

(* A step that leaves the server and every connection alone, but for one that is opened
   or turned away, and hands on what is in the sockets unless their connection was reset
   or is gone, keeps what is known of the answers. *)
LEMMA PeersKeepAnswers ==
    ASSUME IInv,
           UNCHANGED <<limits, rbuf, wbuf, taken, reply>>,
           (pc' = pc /\ batch' = batch) \/ (pc # "write" /\ pc' # "write"),
           \A c \in Client :
             /\ conn'[c] = "closed" <=> conn[c] = "closed"
             /\ gone[c] => gone'[c]
             /\ got'[c] + sock'[c] = got[c] + sock[c] \/ (conn[c] = "closed" /\ taken[c] # 2)
    PROVE  Untouched' /\ BeingAnswered' /\ Answered'
<1>0. TypeOK /\ Lists /\ Busy /\ Untouched /\ BeingAnswered /\ Answered
  BY DEF IInv
<1>1. \A c \in Client : Answering(c)' <=> Answering(c)
  BY DEF Answering
<1>2. Untouched'
  BY <1>0, <1>1 DEF Untouched, Through
<1>3. BeingAnswered'
  <2> SUFFICES ASSUME pc' = "write" PROVE BeingAnswered'
    BY DEF BeingAnswered
  <2>1. pc = "write" /\ batch' = batch
    OBVIOUS
  <2>2. Head(batch) \in Client /\ conn[Head(batch)] = "open"
    BY <1>0, <2>1, HeadFacts DEF Busy
  <2>3. Through(Head(batch))' = Through(Head(batch))
    BY <2>1, <2>2 DEF Through
  <2> QED  BY <1>0, <2>1, <2>2, <2>3 DEF BeingAnswered, MayFail
<1>4. Answered'
  BY <1>0 DEF Answered, Through, MayFail
<1> QED  BY <1>2, <1>3, <1>4

(* Closing the connection the loop has come to: either its peer is gone, or it has all
   of its answer. *)
LEMMA ClosingKeepsAnswers ==
    ASSUME IInv, NEW c, c = Head(batch), batch # << >>, c # Listener, Closed(c),
           UNCHANGED <<limits, gone, taken>>,
           \A d \in Client \ {c} : reply'[d] = reply[d] /\ Through(d)' = Through(d),
           \/ gone[c]
           \/ /\ taken[c] = 2
              /\ \/ reply'[c] = <<Want[c], Want[c]>> /\ Through(c)' = Size
                 \/ reply'[c] = Nothing /\ Through(c)' = 0 /\ MayFail(c)
           \/ taken[c] # 2
    PROVE  Untouched' /\ BeingAnswered' /\ Answered'
<1>0. TypeOK /\ Lists /\ Untouched /\ Answered
  BY DEF IInv
<1>1. c \in Client /\ conn[c] = "open"
  BY <1>0, HeadFacts
<1>2. pc' = "loop" /\ conn' = [conn EXCEPT ![c] = "closed"]
  BY DEF Closed
<1>3. \A d \in Client : conn'[d] = IF d = c THEN "closed" ELSE conn[d]
  BY <1>0, <1>2 DEF TypeOK
<1>4. BeingAnswered'
  BY <1>2 DEF BeingAnswered
<1>5. Untouched'
  <2> SUFFICES ASSUME NEW d \in Client, conn'[d] # "closed"
               PROVE  taken'[d] = 0 /\ reply'[d] = Nothing /\ Through(d)' = 0
    BY DEF Untouched
  <2>1. d # c /\ conn[d] # "closed" /\ ~Answering(d)
    BY <1>3 DEF Answering
  <2> QED  BY <1>0, <2>1 DEF Untouched
<1>6. Answered'
  <2> SUFFICES ASSUME NEW d \in Client, conn'[d] = "closed", taken[d] = 2, ~gone[d]
               PROVE  \/ reply'[d] = <<Want[d], Want[d]>> /\ Through(d)' = Size
                      \/ reply'[d] = Nothing /\ Through(d)' = 0 /\ MayFail(d)'
    BY DEF Answered
  <2>1. MayFail(d)' <=> MayFail(d)
    BY DEF MayFail
  <2>2. CASE d = c
    BY <2>1, <2>2
  <2>3. CASE d # c
    BY <1>0, <1>3, <2>1, <2>3 DEF Answered
  <2> QED  BY <2>2, <2>3
<1> QED  BY <1>4, <1>5, <1>6

(* Reading a request begins an answer to it: to that and no other, if it is whole. *)
LEMMA ReadStep == IInv /\ myread => Untouched' /\ BeingAnswered' /\ Answered'
<1> SUFFICES ASSUME IInv, myread PROVE Untouched' /\ BeingAnswered' /\ Answered'
  OBVIOUS
<1> PICK c : c = Head(batch)
  OBVIOUS
<1>0. TypeOK /\ Lists /\ Untouched /\ Answered
  BY DEF IInv
<1>1. /\ c \in Client /\ conn[c] = "open" /\ pc = "loop" /\ pc' = "write" /\ sent[c] > 0
      /\ batch' = batch
      /\ taken' = [taken EXCEPT ![c] = sent[c]]
      /\ UNCHANGED <<limits, conn, gone, sock, got, reply>>
  BY <1>0, HeadFacts DEF myread
<1>2. PICK n \in Lengths(InBuffer(c)) : wbuf' = [reply |-> InBuffer(c), len |-> n, cnt |-> 0]
  BY DEF myread
<1>3. Head(batch) = c /\ Head(batch') = c
  BY <1>1
<1>4. taken'[c] = sent[c] /\ \A d \in Client \ {c} : taken'[d] = taken[d]
  BY <1>0, <1>1 DEF TypeOK
<1>5. taken[c] = 0 /\ reply[c] = Nothing /\ Through(c) = 0
  BY <1>0, <1>1 DEF Untouched, Answering
<1>6. Untouched'
  <2> SUFFICES ASSUME NEW d \in Client, conn[d] # "closed", d # c
               PROVE  taken'[d] = 0 /\ reply[d] = Nothing /\ Through(d) = 0
    BY <1>1, <1>3 DEF Untouched, Answering, Through
  <2> QED  BY <1>0, <1>1, <1>4 DEF Untouched, Answering
<1>7. Answered'
  BY <1>0, <1>1, <1>4 DEF Answered, Through, MayFail
<1>8. BeingAnswered'
  <2>1. n \in {0, Size}
    BY DEF Lengths
  <2>2. wbuf'.cnt = 0 /\ wbuf'.len = n /\ wbuf'.reply = InBuffer(c)
    BY <1>2
  <2>3. Through(c)' = 0 /\ taken'[c] > 0 /\ reply'[c] = Nothing
    BY <1>1, <1>4, <1>5 DEF Through
  <2>4. ASSUME taken'[c] = 2
        PROVE  InBuffer(c) = <<Want[c], Want[c]>> /\ (n = 0 => MayFail(c)')
    <3>1. InBuffer(c) = <<Want[c], Want[c]>>
      BY <1>4, <2>4 DEF InBuffer
    <3>2. ASSUME n = 0 PROVE Want[c] \in Files /\ Cardinality(Open) >= limits.nofile
      BY <3>1, <3>2, Sizes DEF Lengths
    <3>3. limits.nofile \in Nat
      BY <1>0 DEF TypeOK
    <3> QED  BY <1>1, <3>1, <3>2, <3>3, OpenBound DEF MayFail
  <2> QED  BY <1>3, <2>1, <2>2, <2>3, <2>4, Sizes DEF BeingAnswered
<1> QED  BY <1>6, <1>7, <1>8

(* A write hands on part of the answer, and closes when that was all of it. *)
LEMMA WriteStep == IInv /\ write => Untouched' /\ BeingAnswered' /\ Answered'
<1> SUFFICES ASSUME IInv, write PROVE Untouched' /\ BeingAnswered' /\ Answered'
  OBVIOUS
<1> PICK c, n : c = Head(batch) /\ n = Fits(c)
  OBVIOUS
<1>0. TypeOK /\ Lists /\ Busy /\ Untouched /\ BeingAnswered /\ Answered
  BY DEF IInv
<1>1. /\ pc = "write" /\ batch # << >> /\ c # Listener /\ ~gone[c] /\ (wbuf.len = 0 \/ n > 0)
      /\ sock' = [sock EXCEPT ![c] = @ + n]
      /\ wbuf' = [wbuf EXCEPT !.cnt = @ + n]
      /\ reply' = IF n > 0 THEN [reply EXCEPT ![c] = wbuf.reply] ELSE reply
      /\ IF wbuf'.cnt = wbuf.len THEN Closed(c) ELSE UNCHANGED <<conn, ready, batch, pc>>
      /\ UNCHANGED <<limits, sent, gone, backlog, got, rbuf, taken>>
  BY <1>0 DEF write, Busy
<1>2. c \in Client /\ conn[c] = "open"
  BY <1>0, <1>1, HeadFacts
<1>3. /\ n \in Nat /\ wbuf.cnt + n <= wbuf.len /\ wbuf.len \in {0, Size}
      /\ wbuf.cnt \in 0 .. Size /\ sock[c] \in 0 .. SockBuf
  BY <1>0, <1>1, <1>2, FitsFacts
<1>4. /\ taken[c] > 0 /\ got[c] + sock[c] = wbuf.cnt
      /\ reply[c] = IF wbuf.cnt = 0 THEN Nothing ELSE wbuf.reply
      /\ taken[c] = 2 => wbuf.reply = <<Want[c], Want[c]>> /\ (wbuf.len = 0 => MayFail(c))
  BY <1>0, <1>1 DEF BeingAnswered, Through
<1>5. wbuf'.cnt = wbuf.cnt + n /\ wbuf'.len = wbuf.len /\ wbuf'.reply = wbuf.reply
  <2>1. wbuf \in [reply: Reply, len: {0, Size}, cnt: 0 .. Size]
    BY <1>0 DEF TypeOK
  <2> QED  BY <1>1, <2>1
<1>6. sock'[c] = sock[c] + n /\ \A d \in Client \ {c} : sock'[d] = sock[d] /\ reply'[d] = reply[d]
  BY <1>0, <1>1, <1>2 DEF TypeOK
<1>7. reply'[c] = IF wbuf'.cnt = 0 THEN Nothing ELSE wbuf.reply
  <2>1. reply'[c] = IF n > 0 THEN wbuf.reply ELSE reply[c]
    BY <1>0, <1>1, <1>2 DEF TypeOK
  <2> QED  BY <1>3, <1>4, <1>5, <2>1
<1>8. /\ Through(c)' = wbuf'.cnt
      /\ \A d \in Client \ {c} : reply'[d] = reply[d] /\ Through(d)' = Through(d)
  <2>1. got[c] \in Nat /\ got' = got
    BY <1>0, <1>1, <1>2 DEF TypeOK
  <2> QED  BY <1>3, <1>4, <1>5, <1>6, <2>1 DEF Through
<1>9. CASE wbuf'.cnt = wbuf.len
  <2>1. Closed(c)
    BY <1>1, <1>9
  <2>2. taken[c] = 2 => \/ reply'[c] = <<Want[c], Want[c]>> /\ Through(c)' = Size
                        \/ reply'[c] = Nothing /\ Through(c)' = 0 /\ MayFail(c)
    BY <1>3, <1>4, <1>7, <1>8, <1>9, Sizes
  <2>3. c = Head(batch) /\ UNCHANGED <<limits, gone, taken>>
    BY <1>1
  <2> QED  BY <1>1, <1>8, <2>1, <2>2, <2>3, ClosingKeepsAnswers
<1>10. CASE wbuf'.cnt # wbuf.len
  <2>1. UNCHANGED <<conn, ready, batch, pc, taken, gone, limits>>
    BY <1>1, <1>10
  <2>2. \A d \in Client : Answering(d)' <=> d = c
    BY <1>1, <2>1 DEF Answering
  <2>3. Untouched'
    <3> SUFFICES ASSUME NEW d \in Client, conn[d] # "closed", d # c
                 PROVE  taken[d] = 0 /\ reply'[d] = Nothing /\ Through(d)' = 0
      BY <2>1, <2>2 DEF Untouched
    <3>1. ~Answering(d)
      BY DEF Answering
    <3> QED  BY <1>0, <1>8, <3>1 DEF Untouched
  <2>4. Answered'
    BY <1>0, <1>2, <1>8, <2>1 DEF Answered, MayFail
  <2>5. BeingAnswered'
    <3>1. Head(batch)' = c
      BY <2>1
    <3>2. MayFail(c)' <=> MayFail(c)
      BY <2>1 DEF MayFail
    <3> QED  BY <1>3, <1>4, <1>5, <1>7, <1>8, <2>1, <3>1, <3>2 DEF BeingAnswered
  <2> QED  BY <2>3, <2>4, <2>5
<1> QED  BY <1>9, <1>10

(* Every step keeps what is known of the answers. *)
LEMMA AnswersStep == IInv /\ [Next]_vars => Untouched' /\ BeingAnswered' /\ Answered'
<1> SUFFICES ASSUME IInv, [Next]_vars PROVE Untouched' /\ BeingAnswered' /\ Answered'
  OBVIOUS
<1>0. TypeOK /\ Lists /\ Busy
  BY DEF IInv
<1>1. ASSUME NEW c \in Client, Connect(c) \/ Send(c) \/ Leave(c)
      PROVE  Untouched' /\ BeingAnswered' /\ Answered'
  <2>1. UNCHANGED <<limits, sock, got, server>>
    BY <1>1 DEF Connect, Send, Leave
  <2>2. \A d \in Client : conn'[d] = "closed" <=> conn[d] = "closed"
    BY <1>0, <1>1 DEF TypeOK, Connect, Send, Leave
  <2>3. \A d \in Client : gone[d] => gone'[d]
    BY <1>0, <1>1 DEF TypeOK, Connect, Send, Leave
  <2>4. UNCHANGED <<limits, sock, got, rbuf, wbuf, taken, reply, pc, batch>>
    BY <2>1 DEF server
  <2>5. \A d \in Client :
         /\ conn'[d] = "closed" <=> conn[d] = "closed"
         /\ gone[d] => gone'[d]
         /\ got'[d] + sock'[d] = got[d] + sock[d] \/ (conn[d] = "closed" /\ taken[d] # 2)
    BY <2>2, <2>3, <2>4
  <2> QED  BY <2>4, <2>5, PeersKeepAnswers
<1>2. ASSUME NEW c \in Client, Receive(c) \/ Reset(c)
      PROVE  Untouched' /\ BeingAnswered' /\ Answered'
  <2>1. UNCHANGED <<limits, conn, gone, server>>
    BY <1>2 DEF Receive, Reset
  <2>2. \A d \in Client : got'[d] + sock'[d] = got[d] + sock[d] \/ (conn[d] = "closed" /\ taken[d] # 2)
    <3>1. /\ sock[c] \in 0 .. SockBuf /\ got[c] \in Nat
          /\ \A d \in Client \ {c} : sock'[d] = sock[d] /\ got'[d] = got[d]
      BY <1>0, <1>2 DEF TypeOK, Receive, Reset
    <3>2. CASE Receive(c)
      <4>1. sock'[c] = sock[c] - 1 /\ got'[c] = got[c] + 1
        BY <1>0, <3>2 DEF TypeOK, Receive
      <4>2. got'[c] + sock'[c] = got[c] + sock[c]
        BY <3>1, <4>1, Sizes
      <4> TAKE d \in Client
      <4>3. CASE d = c
        BY <4>2, <4>3
      <4>4. CASE d # c
        BY <3>1, <4>4
      <4> QED  BY <4>3, <4>4
    <3>3. CASE Reset(c)
      <4>1. conn[c] = "closed" /\ taken[c] # 2
        BY <3>3 DEF Reset
      <4> TAKE d \in Client
      <4>2. CASE d = c
        BY <4>1, <4>2
      <4>3. CASE d # c
        BY <3>1, <4>3
      <4> QED  BY <4>2, <4>3
    <3> QED  BY <1>2, <3>2, <3>3
  <2>3. UNCHANGED <<limits, conn, gone, rbuf, wbuf, taken, reply, pc, batch>>
    BY <2>1 DEF server
  <2>4. \A d \in Client :
         /\ conn'[d] = "closed" <=> conn[d] = "closed"
         /\ gone[d] => gone'[d]
         /\ got'[d] + sock'[d] = got[d] + sock[d] \/ (conn[d] = "closed" /\ taken[d] # 2)
    BY <2>2, <2>3
  <2> QED  BY <2>3, <2>4, PeersKeepAnswers
<1>3. CASE epoll_wait \/ listensocket \/ accept_fails
  <2>1. /\ pc # "write" /\ pc' # "write"
        /\ UNCHANGED <<limits, conn, gone, sock, got, rbuf, wbuf, taken, reply>>
    BY <1>3 DEF epoll_wait, listensocket, accept_fails
  <2> QED  BY <2>1, PeersKeepAnswers
<1>4. CASE myaccept
  <2>1. Head(backlog) \in Client /\ conn[Head(backlog)] = "queued"
    BY <1>0, <1>4, Parted DEF TypeOK, Lists, myaccept
  <2>2. UNCHANGED <<limits, gone, sock, got, server>>
    BY <1>4 DEF myaccept
  <2>3. \/ conn' = [conn EXCEPT ![Head(backlog)] = "refused"]
        \/ conn' = [conn EXCEPT ![Head(backlog)] = "open"]
    BY <1>4 DEF myaccept
  <2>4. \A d \in Client : conn'[d] = "closed" <=> conn[d] = "closed"
    BY <1>0, <2>1, <2>3 DEF TypeOK
  <2>5. UNCHANGED <<limits, gone, sock, got, rbuf, wbuf, taken, reply, pc, batch>>
    BY <2>2 DEF server
  <2>6. \A d \in Client :
         /\ conn'[d] = "closed" <=> conn[d] = "closed"
         /\ gone[d] => gone'[d]
         /\ got'[d] + sock'[d] = got[d] + sock[d] \/ (conn[d] = "closed" /\ taken[d] # 2)
    BY <2>4, <2>5
  <2> QED  BY <2>5, <2>6, PeersKeepAnswers
<1>5. CASE read_nothing \/ write_fails
  <2>1. /\ batch # << >> /\ Head(batch) # Listener /\ Closed(Head(batch))
        /\ gone[Head(batch)]
        /\ UNCHANGED <<limits, gone, taken, sock, got, reply>>
    BY <1>0, <1>5 DEF Busy, read_nothing, write_fails
  <2>2. \A d \in Client : reply'[d] = reply[d] /\ Through(d)' = Through(d)
    BY <2>1 DEF Through
  <2> QED  BY <2>1, <2>2, ClosingKeepsAnswers
<1>6. CASE UNCHANGED vars
  <2>1. UNCHANGED <<limits, conn, gone, sock, got, rbuf, wbuf, taken, reply, pc, batch>>
    BY <1>6 DEF vars, server
  <2>2. \A d \in Client :
         /\ conn'[d] = "closed" <=> conn[d] = "closed"
         /\ gone[d] => gone'[d]
         /\ got'[d] + sock'[d] = got[d] + sock[d] \/ (conn[d] = "closed" /\ taken[d] # 2)
    BY <2>1
  <2> QED  BY <2>1, <2>2, PeersKeepAnswers
<1> QED
  BY <1>1, <1>2, <1>3, <1>4, <1>5, <1>6, ReadStep, WriteStep DEF Next, Serving

(* The invariant holds while nobody has connected. *)
LEMMA InvInit == Init => IInv
<1> SUFFICES ASSUME Init PROVE IInv
  OBVIOUS
<1> USE DEF Init, NobodyConnects
<1>1. TypeOK
  BY Sizes DEF TypeOK, Half, Reply
<1>2. Lists
  BY DEF Lists, Distinct, In
<1>3. Busy /\ BeingAnswered
  BY DEF Busy, BeingAnswered
<1>4. NothingMissed
  BY DEF NothingMissed, Open, Reports
<1>5. Untouched /\ Answered
  BY DEF Untouched, Answered, Through
<1> QED  BY <1>1, <1>2, <1>3, <1>4, <1>5 DEF IInv

(* The invariant holds throughout. *)
THEOREM ServeInv == Spec => []IInv
<1>1. IInv /\ [Next]_vars => IInv'
  BY TypeStep, ListsStep, BusyStep, NothingMissedStep, AnswersStep DEF IInv
<1> QED  BY <1>1, InvInit, PTL DEF Spec

(* The state keeps its types; no socket holds more than it can, and no answer is longer
   than it is. *)
THEOREM ServeTypes == Spec => []TypeOK
<1>1. IInv => TypeOK  BY DEF IInv
<1> QED  BY <1>1, ServeInv, PTL

(* When epoll_wait goes to sleep, every connection to accept and every request to read
   is on the list that wakes it. *)
THEOREM NoWakeupIsLost == Spec => []NoLostWakeup
<1>1. IInv => NoLostWakeup
  BY DEF IInv, NothingMissed, Busy, NoLostWakeup, In
<1> QED  BY <1>1, ServeInv, PTL

(* A peer whose whole request myread got, and who stays, gets the whole answer to it,
   or none where a file could not be opened for want of a descriptor. *)
THEOREM WholeRequestsGetAnswers == Spec => []WholeRequestsAnswered
<1>1. IInv => WholeRequestsAnswered
  BY DEF IInv, Answered, Through, MayFail, WholeRequestsAnswered
<1> QED  BY <1>1, ServeInv, PTL

----------------------------------------------------------------------------
(* The threads of the completion port.  OwnAnswers is not inductive.  What makes an
   answer right is that outnow and the front of wbuf are what the thread itself left
   there, line for line (Right), which holds of a thread nobody else has answered
   beside (Alone); and that a connection is closed unanswered only when the peer had
   closed it (ClosedOnes). *)

Units == {<< >>, <<"head">>} \cup {Unit(a, k) : a \in DOMAIN Answer, k \in Nat}
Completions == [stage : {0, 1}, peer : Peer, tran : {-1, 0, 1, 2}]
Stages == {"wait", "file", "search", "print", "add", "send"}
Threads == [pc : Stages, peer : Peer \cup {Idle.peer}, name : DOMAIN Answer \cup {""},
            k : Nat, at : Nat, ret : Nat]

IocpTypes ==
    /\ posted \in Nat
    /\ link \in [Peer -> {"out", "queued", "accepted", "reading", "read", "stopped", "lost"}]
    /\ pieces \in [Peer -> {0, 1, 2}]
    /\ left \in [Peer -> {"no", "closed", "reset"}]
    /\ cport \in Seq(Completions)
    /\ thread \in [Thread -> Threads]
    /\ outnow \in Nat /\ answer \in [1 .. Room -> Units]
    /\ received \in [Peer -> {"nothing", "all", "other"}]
    /\ mixed \subseteq Peer /\ overran \in BOOLEAN

Engaged(t) == thread[t].pc # "wait"
ForSomebody == \A t \in Thread : Engaged(t) => thread[t].peer \in Peer /\ thread[t].name \in DOMAIN Answer
ClosedOnes ==
    \A i \in 1 .. Len(cport) : cport[i].stage = 1 /\ cport[i].tran = 0 => left[cport[i].peer] # "no"
Alone == \A t, u \in Thread : Engaged(t) /\ Engaged(u) /\ t # u => thread[t].peer \in mixed

\* The front of wbuf is the head and the first n units of an answer.
Front(name, n) ==
    /\ n < Room /\ answer[1] = <<"head">>
    /\ \A i \in 1 .. n : answer[1 + i] = Unit(name, i)
RightOf(x) ==
    /\ x.pc \in {"print", "add"} => x.k >= 1 /\ outnow = x.k - 1
    /\ x.pc = "print" => x.k <= Answer[x.name].n + 1 /\ Front(x.name, x.k - 1)
    /\ x.pc = "add" => x.at = outnow /\ x.k <= Answer[x.name].n /\ Front(x.name, x.k)
    /\ x.pc = "send" => /\ x.ret = IF Answer[x.name].n = 0 THEN 0 ELSE 1 + Answer[x.name].n
                        /\ Front(x.name, Answer[x.name].n)
Right == ~overran => \A t \in Thread : Engaged(t) /\ thread[t].peer \notin mixed => RightOf(thread[t])

IocpIInv == IocpTypes /\ ForSomebody /\ ClosedOnes /\ Alone /\ Right /\ OwnAnswers

----------------------------------------------------------------------------
(* What a step of the peers and of a thread leaves alone. *)

(* A step of a peer does not touch what the threads share, and no step but a peer's own
   changes how it left, which it does once. *)
LEMMA PeerFrame ==
  ASSUME NEW p \in Peer, IocpPeer(p), IocpTypes
  PROVE  /\ UNCHANGED <<thread, outnow, answer, received, mixed, overran>>
         /\ ~overran
         /\ \A q \in Peer : left[q] # "no" => left'[q] # "no"
         /\ \A q \in Peer : link'[q] = "stopped" => link[q] = "stopped"
<1> USE DEF IocpTypes
<1>1. CASE IocpConnect(p)  BY <1>1 DEF IocpPeer, IocpConnect
<1>2. CASE IocpSend(p)  BY <1>2 DEF IocpPeer, IocpSend, Completes
<1>3. CASE IocpLeave(p)  BY <1>3 DEF IocpPeer, IocpLeave, Completes
<1> QED  BY <1>1, <1>2, <1>3 DEF IocpPeer

(* No thread changes how a peer left. *)
LEMMA ThreadFrame ==
  ASSUME NEW t \in Thread, iocpthread(t)
  PROVE  ~overran /\ UNCHANGED <<posted, pieces, left, slow>>
BY DEF iocpthread, take_failed, iocp_mod, take_closed, LetGo, take_request, servesocket_html,
   search_one, search_print, search_add, search_return, writesocket

(* What WSARecv completes with is a completion, and one of no bytes says that the peer
   has closed. *)
LEMMA CameFacts ==
  ASSUME NEW p \in Peer, NEW n \in {0, 1, 2}, NEW how \in {"no", "closed", "reset"}, Anything(n, how)
  PROVE  /\ Came(p, n, how) \in Completions
         /\ Came(p, n, how).peer = p
         /\ Came(p, n, how).tran = 0 => how # "no"
BY DEF Came, Completion, Completions, Anything

(* The completions after a step of a peer are those before, and one more at most, which
   keeps the promise. *)
LEMMA PeerCompletions ==
  ASSUME NEW p \in Peer, IocpPeer(p), IocpTypes,
         left' \in [Peer -> {"no", "closed", "reset"}], pieces' \in [Peer -> {0, 1, 2}]
  PROVE  \/ cport' = cport
         \/ \E c \in Completions :
              cport' = Append(cport, c) /\ (c.stage = 1 /\ c.tran = 0 => left'[c.peer] # "no")
<1>1. CASE IocpConnect(p)
  <2>1. Completion(0, p, 0) \in Completions /\ Completion(0, p, 0).stage = 0  BY DEF Completion, Completions
  <2> QED  BY <1>1, <2>1 DEF IocpConnect
<1>2. ASSUME Completes(p)
      PROVE  \/ cport' = cport
             \/ \E c \in Completions :
                  cport' = Append(cport, c) /\ (c.stage = 1 /\ c.tran = 0 => left'[c.peer] # "no")
  <2>1. CASE link[p] = "reading" /\ Anything(pieces'[p], left'[p])
    <3> DEFINE c == Came(p, pieces'[p], left'[p])
    <3>1. pieces'[p] \in {0, 1, 2} /\ left'[p] \in {"no", "closed", "reset"}  OBVIOUS
    <3>2. c \in Completions /\ c.peer = p /\ (c.tran = 0 => left'[p] # "no")  BY <2>1, <3>1, CameFacts
    <3>3. cport' = Append(cport, c)  BY <1>2, <2>1 DEF Completes
    <3> QED  BY <3>2, <3>3
  <2>2. CASE ~(link[p] = "reading" /\ Anything(pieces'[p], left'[p]))
    BY <1>2, <2>2 DEF Completes
  <2> QED  BY <2>1, <2>2
<1> QED  BY <1>1, <1>2 DEF IocpPeer, IocpSend, IocpLeave

(* The completions after a step of a thread are those before without the first, which it
   took, and one more at most. *)
LEMMA ThreadCompletions ==
  ASSUME NEW t \in Thread, iocpthread(t), IocpTypes
  PROVE  \/ cport' = cport
         \/ cport # << >> /\ cport' = Tail(cport)
         \/ cport # << >> /\ \E c \in Completions :
              cport' = Tail(cport) \o <<c>> /\ (c.stage = 1 /\ c.tran = 0 => left[c.peer] # "no")
<1>1. CASE iocp_mod(t)
  <2>1. cport # << >> /\ Told \in Completions  BY <1>1 DEF IocpTypes, iocp_mod, Takes, Told
  <2> DEFINE p == Told.peer
             c == Came(p, pieces[p], left[p])
  <2>2. p \in Peer  BY <2>1 DEF Completions
  <2>3. pieces[p] \in {0, 1, 2} /\ left[p] \in {"no", "closed", "reset"}  BY <2>2 DEF IocpTypes
  <2>4. link'[p] = CASE left[p] = "reset" -> "lost" [] Anything(pieces[p], left[p]) -> "read" [] OTHER -> "reading"
    BY <1>1, <2>2 DEF iocp_mod, IocpTypes
  <2>5. CASE link'[p] = "read"
    <3>1. Anything(pieces[p], left[p])  BY <2>4, <2>5
    <3>2. c \in Completions /\ c.peer = p /\ (c.tran = 0 => left[p] # "no")  BY <2>2, <2>3, <3>1, CameFacts
    <3>3. cport' = Tail(cport) \o <<c>>  BY <1>1, <2>5 DEF iocp_mod
    <3> QED  BY <2>1, <3>2, <3>3
  <2>6. CASE link'[p] # "read"
    <3>1. cport' = Tail(cport) \o << >>  BY <1>1, <2>6 DEF iocp_mod
    <3>2. Tail(cport) \in Seq(Completions)  BY <2>1 DEF IocpTypes
    <3> HIDE DEF p
    <3> QED  BY <2>1, <3>1, <3>2
  <2> QED  BY <2>5, <2>6
<1>2. CASE take_failed(t) \/ take_closed(t) \/ take_request(t)
  BY <1>2 DEF take_failed, take_closed, take_request, LetGo, Takes
<1>3. CASE servesocket_html(t) \/ search_one(t) \/ search_print(t) \/ search_add(t) \/ search_return(t) \/ writesocket(t)
  BY <1>3 DEF servesocket_html, search_one, search_print, search_add, search_return, writesocket
<1> QED  BY <1>1, <1>2, <1>3 DEF iocpthread

----------------------------------------------------------------------------
(* Types. *)

(* An idle thread is a thread; buffers printed into stay buffers of units. *)
LEMMA IdleThread == Idle \in Threads /\ Idle.pc = "wait"
BY IocpAssumption DEF Idle, Threads, Stages

(* What is placed into a buffer leaves a buffer. *)
LEMMA PlacedTypes ==
  ASSUME NEW buf \in [1 .. Room -> Units], NEW off \in Nat, NEW n \in Nat, NEW units \in [1 .. n -> Units]
  PROVE  Placed(buf, off, units) \in [1 .. Room -> Units]
<1>1. Room \in Nat  BY IocpAssumption
<1> QED  BY <1>1 DEF Placed

(* The head is put into a buffer that has room for it. *)
LEMMA HeadedTypes ==
  ASSUME IocpTypes  PROVE  Headed \in [1 .. Room -> Units] /\ Headed[1] = <<"head">>
<1>1. 1 \in 1 .. Room  BY IocpAssumption
<1>2. <<"head">> \in Units  BY DEF Units
<1> QED  BY <1>1, <1>2 DEF Headed, IocpTypes

(* A step of a thread keeps the types of what the threads use. *)
LEMMA ThreadTypes ==
  ASSUME NEW t \in Thread, iocpthread(t), IocpTypes, ForSomebody
  PROVE  /\ thread' \in [Thread -> Threads] /\ outnow' \in Nat /\ answer' \in [1 .. Room -> Units]
         /\ overran' \in BOOLEAN /\ mixed' \subseteq Peer
         /\ ForSomebody'
<1> USE DEF IocpTypes
<1> DEFINE Goal == /\ thread' \in [Thread -> Threads] /\ outnow' \in Nat /\ answer' \in [1 .. Room -> Units]
                   /\ overran' \in BOOLEAN /\ mixed' \subseteq Peer
                   /\ ForSomebody'
<1>a. thread[t] \in Threads  OBVIOUS
<1>b. Engaged(t) => thread[t].peer \in Peer /\ thread[t].name \in DOMAIN Answer
  BY DEF ForSomebody
<1>c. \A a \in DOMAIN Answer : Answer[a].kind \in {"search", "file"} /\ Answer[a].n \in Nat  BY IocpAssumption
<1>r. Room \in Nat /\ Room >= 1  BY IocpAssumption
<1>e. thread[t].k \in Nat /\ thread[t].at \in Nat /\ thread[t].ret \in Nat  BY <1>a DEF Threads
\* A step that changes the record of t alone.
<1>d. ASSUME NEW x \in Threads, thread' = [thread EXCEPT ![t] = x],
             x.pc # "wait" => x.peer \in Peer /\ x.name \in DOMAIN Answer
      PROVE  thread' \in [Thread -> Threads] /\ ForSomebody'
  BY <1>d DEF ForSomebody, Engaged
<1>1. CASE take_failed(t) \/ iocp_mod(t) \/ take_closed(t)
  <2>1. UNCHANGED <<thread, outnow, answer, overran, mixed>>
    BY <1>1 DEF take_failed, iocp_mod, take_closed, LetGo
  <2> QED  BY <2>1 DEF ForSomebody, Engaged
<1>2. CASE take_request(t)
  <2>1. cport # << >> /\ Told \in Completions  BY <1>2 DEF take_request, Takes, Told
  <2>2. Told.peer \in Peer /\ Told.tran \in {1, 2}  BY <1>2, <2>1 DEF take_request, Completions
  <2>3. Names(Told.peer, Told.tran) \subseteq DOMAIN Answer  BY <2>2, IocpAssumption DEF Names
  <2>4. PICK a \in DOMAIN Answer :
          thread' = [thread EXCEPT ![t] = [Idle EXCEPT !.pc = Answer[a].kind, !.peer = Told.peer, !.name = a]]
    BY <1>2, <2>3 DEF take_request
  <2> DEFINE x == [Idle EXCEPT !.pc = Answer[a].kind, !.peer = Told.peer, !.name = a]
  <2>5. x \in Threads /\ x.peer \in Peer /\ x.name \in DOMAIN Answer
    BY <2>2, <2>4, <1>c, IdleThread DEF Threads, Stages
  <2>6. thread' \in [Thread -> Threads] /\ ForSomebody'
    <3> HIDE DEF x
    <3> QED  BY <1>d, <2>4, <2>5 DEF x
  <2>7. {thread[u].peer : u \in Thread \ Waiting} \subseteq Peer
    BY DEF ForSomebody, Engaged, Waiting
  <2>8. mixed' \subseteq Peer
    <3> DEFINE others == {thread[u].peer : u \in Thread \ Waiting}
    <3>1. mixed' = IF others = {} THEN mixed ELSE mixed \cup others \cup {Told.peer}
      BY <1>2 DEF take_request
    <3> HIDE DEF others
    <3> QED  BY <2>2, <2>7, <3>1 DEF others
  <2>9. UNCHANGED <<outnow, answer, overran>>  BY <1>2 DEF take_request
  <2> QED  BY <2>6, <2>8, <2>9
<1>3. CASE servesocket_html(t)
  <2> DEFINE file == thread[t].name
             n == IF Answer[file].n < Room THEN Answer[file].n ELSE Room
             x == [thread[t] EXCEPT !.pc = "send", !.at = 0, !.ret = IF n = 0 THEN 0 ELSE 1 + n]
             units == [k \in 1 .. n |-> Unit(file, k)]
  <2>1. Engaged(t) /\ file \in DOMAIN Answer  BY <1>3, <1>b DEF servesocket_html, Engaged
  <2>2. n \in Nat  BY <2>1, <1>c, <1>r
  <2>3. /\ answer' = Placed(Headed, 0, units) /\ overran' = (1 + n > Room)
        /\ thread' = [thread EXCEPT ![t] = x] /\ UNCHANGED <<outnow, mixed>>
    BY <1>3 DEF servesocket_html
  <2>r. (IF n = 0 THEN 0 ELSE 1 + n) \in Nat
    <3> HIDE DEF n
    <3> QED  BY <2>2
  <2>4. x \in Threads
    <3> HIDE DEF n
    <3> QED  BY <1>a, <2>r DEF Threads, Stages
  <2>5. x.peer = thread[t].peer /\ x.name = thread[t].name  BY <1>a DEF Threads
  <2>6. units \in [1 .. n -> Units]
    <3> HIDE DEF n, file
    <3>1. \A k \in 1 .. n : Unit(file, k) \in Units  BY <2>1, <2>2 DEF Units
    <3> QED  BY <3>1
  <2> HIDE DEF x, n, units
  <2>7. answer' \in [1 .. Room -> Units]
    <3>1. 0 \in Nat  OBVIOUS
    <3> QED  BY <2>2, <2>3, <2>6, <3>1, HeadedTypes, PlacedTypes
  <2>8. thread' \in [Thread -> Threads] /\ ForSomebody'  BY <1>b, <1>d, <2>1, <2>3, <2>4, <2>5
  <2> QED  BY <2>3, <2>7, <2>8
<1>4. CASE search_one(t)
  <2> DEFINE x == [thread[t] EXCEPT !.pc = "print", !.k = 1]
  <2>1. /\ thread' = [thread EXCEPT ![t] = x] /\ outnow' = 0 /\ answer' = Headed /\ UNCHANGED <<overran, mixed>>
        /\ Engaged(t)
    BY <1>4 DEF search_one, Engaged
  <2>2. x \in Threads /\ x.peer = thread[t].peer /\ x.name = thread[t].name  BY <1>a DEF Threads, Stages
  <2> HIDE DEF x
  <2>3. thread' \in [Thread -> Threads] /\ ForSomebody'  BY <1>b, <1>d, <2>1, <2>2
  <2> QED  BY <2>1, <2>3, HeadedTypes
<1>5. CASE search_print(t)
  <2> DEFINE x == [thread[t] EXCEPT !.pc = "add", !.at = outnow]
             u == Unit(thread[t].name, thread[t].k)
  <2>1. /\ thread' = [thread EXCEPT ![t] = x] /\ answer' = Placed(answer, outnow, <<u>>)
        /\ overran' = (outnow # Room /\ 2 + outnow > Room) /\ UNCHANGED <<outnow, mixed>> /\ Engaged(t)
    BY <1>5 DEF search_print, Engaged
  <2>2. x \in Threads /\ x.peer = thread[t].peer /\ x.name = thread[t].name  BY <1>a DEF Threads, Stages
  <2>3. u \in Units  BY <1>e, <1>b, <2>1 DEF Units
  <2> HIDE DEF x, u
  <2>4. thread' \in [Thread -> Threads] /\ ForSomebody'  BY <1>b, <1>d, <2>1, <2>2
  <2>5. <<u>> \in [1 .. 1 -> Units]  BY <2>3
  <2>6. answer' \in [1 .. Room -> Units]  BY <2>1, <2>5, PlacedTypes
  <2> QED  BY <2>1, <2>4, <2>6
<1>6. CASE search_add(t)
  <2> DEFINE x == [thread[t] EXCEPT !.pc = "print", !.k = @ + 1, !.at = 0]
  <2>1. /\ thread' = [thread EXCEPT ![t] = x] /\ outnow' \in {outnow + 1, thread[t].at + 1}
        /\ UNCHANGED <<overran, mixed, answer>> /\ Engaged(t)
    BY <1>6 DEF search_add, Engaged
  <2>k. thread[t].k + 1 \in Nat  BY <1>e
  <2>2. x \in Threads /\ x.peer = thread[t].peer /\ x.name = thread[t].name  BY <1>a, <2>k DEF Threads, Stages
  <2>3. outnow' \in Nat  BY <1>e, <2>1
  <2> HIDE DEF x
  <2>4. thread' \in [Thread -> Threads] /\ ForSomebody'  BY <1>b, <1>d, <2>1, <2>2
  <2> QED  BY <2>1, <2>3, <2>4
<1>7. CASE search_return(t)
  <2> DEFINE x == [thread[t] EXCEPT !.pc = "send", !.at = 0, !.ret = IF outnow = 0 THEN 0 ELSE 1 + outnow]
  <2>1. /\ thread' = [thread EXCEPT ![t] = x] /\ UNCHANGED <<overran, mixed, answer, outnow>> /\ Engaged(t)
    BY <1>7 DEF search_return, Engaged
  <2>r. (IF outnow = 0 THEN 0 ELSE 1 + outnow) \in Nat  OBVIOUS
  <2>2. x \in Threads /\ x.peer = thread[t].peer /\ x.name = thread[t].name  BY <1>a, <2>r DEF Threads, Stages
  <2> HIDE DEF x
  <2>3. thread' \in [Thread -> Threads] /\ ForSomebody'  BY <1>b, <1>d, <2>1, <2>2
  <2> QED  BY <2>1, <2>3
<1>8. CASE writesocket(t)
  <2>1. /\ thread' = [thread EXCEPT ![t] = Idle] /\ UNCHANGED <<mixed, answer, outnow>>
        /\ overran' = (thread[t].ret > Room)
    BY <1>8 DEF writesocket
  <2>2. thread' \in [Thread -> Threads] /\ ForSomebody'  BY <1>d, <2>1, IdleThread
  <2> QED  BY <2>1, <2>2
<1> QED  BY <1>1, <1>2, <1>3, <1>4, <1>5, <1>6, <1>7, <1>8 DEF iocpthread

(* Every step keeps the types, and a thread that answers answers somebody. *)
LEMMA IocpTypeStep ==
  ASSUME IocpTypes, ForSomebody, [IocpStep]_iocp
  PROVE  IocpTypes' /\ ForSomebody'
<1>1. ASSUME NEW p \in Peer, IocpPeer(p)  PROVE IocpTypes' /\ ForSomebody'
  <2>1. UNCHANGED <<thread, outnow, answer, received, mixed, overran>>  BY <1>1, PeerFrame
  <2>2. posted' \in Nat  BY <1>1 DEF IocpTypes, IocpPeer, IocpConnect, IocpSend, IocpLeave
  <2>3. pieces' \in [Peer -> {0, 1, 2}]
    <3>1. CASE IocpConnect(p) \/ IocpLeave(p)  BY <3>1 DEF IocpTypes, IocpConnect, IocpLeave
    <3>2. CASE IocpSend(p)
      <4>1. PICK n \in pieces[p] + 1 .. 2 : pieces' = [pieces EXCEPT ![p] = n]  BY <3>2 DEF IocpSend
      <4>2. pieces[p] \in {0, 1, 2}  BY DEF IocpTypes
      <4>3. n \in {0, 1, 2}  BY <4>2
      <4> QED  BY <4>1, <4>3 DEF IocpTypes
    <3> QED  BY <1>1, <3>1, <3>2 DEF IocpPeer
  <2>4. left' \in [Peer -> {"no", "closed", "reset"}]
    BY <1>1 DEF IocpTypes, IocpPeer, IocpConnect, IocpSend, IocpLeave
  <2>5. link' \in [Peer -> {"out", "queued", "accepted", "reading", "read", "stopped", "lost"}]
    BY <1>1 DEF IocpTypes, IocpPeer, IocpConnect, IocpSend, IocpLeave, Completes
  <2>6. cport' \in Seq(Completions)
    <3>1. CASE cport' = cport  BY <3>1 DEF IocpTypes
    <3>2. ASSUME NEW c \in Completions, cport' = Append(cport, c)  PROVE cport' \in Seq(Completions)
      BY <3>2 DEF IocpTypes
    <3> QED  BY <1>1, <2>3, <2>4, <3>1, <3>2, PeerCompletions
  <2>7. ForSomebody'  BY <2>1 DEF ForSomebody, Engaged
  <2> QED  BY <2>1, <2>2, <2>3, <2>4, <2>5, <2>6, <2>7 DEF IocpTypes
<1>2. ASSUME NEW t \in Thread, iocpthread(t)  PROVE IocpTypes' /\ ForSomebody'
  <2>1. UNCHANGED <<posted, pieces, left, slow>>  BY <1>2, ThreadFrame
  <2>2. /\ thread' \in [Thread -> Threads] /\ outnow' \in Nat /\ answer' \in [1 .. Room -> Units]
        /\ overran' \in BOOLEAN /\ mixed' \subseteq Peer
        /\ ForSomebody'
    BY <1>2, ThreadTypes
  <2>3. cport' \in Seq(Completions)
    <3>1. CASE cport' = cport  BY <3>1 DEF IocpTypes
    <3>2. CASE cport # << >> /\ cport' = Tail(cport)  BY <3>2 DEF IocpTypes
    <3>3. ASSUME cport # << >>, NEW c \in Completions, cport' = Tail(cport) \o <<c>>
          PROVE  cport' \in Seq(Completions)
      BY <3>3 DEF IocpTypes
    <3> QED  BY <1>2, <3>1, <3>2, <3>3, ThreadCompletions
  <2>4. link' \in [Peer -> {"out", "queued", "accepted", "reading", "read", "stopped", "lost"}]
    <3>1. CASE take_failed(t) \/ take_closed(t)  BY <3>1 DEF take_failed, take_closed, LetGo, IocpTypes
    <3>2. CASE iocp_mod(t)
      <4> DEFINE p == Told.peer
                 how == CASE left[p] = "reset" -> "lost" [] Anything(pieces[p], left[p]) -> "read" [] OTHER -> "reading"
      <4>1. link' = [link EXCEPT ![p] = how]  BY <3>2 DEF iocp_mod
      <4>2. how \in {"lost", "read", "reading"}  OBVIOUS
      <4> HIDE DEF how
      <4> QED  BY <4>1, <4>2 DEF IocpTypes
    <3>3. CASE take_request(t) \/ servesocket_html(t) \/ search_one(t) \/ search_print(t) \/ search_add(t) \/ search_return(t)
      BY <3>3 DEF take_request, servesocket_html, search_one, search_print, search_add, search_return, IocpTypes
    <3>4. CASE writesocket(t)
      <4>1. link' = [link EXCEPT ![thread[t].peer] = "stopped"]  BY <3>4 DEF writesocket
      <4> QED  BY <4>1 DEF IocpTypes
    <3> QED  BY <1>2, <3>1, <3>2, <3>3, <3>4 DEF iocpthread
  <2>5. received' \in [Peer -> {"nothing", "all", "other"}]
    <3>1. CASE writesocket(t)  BY <3>1 DEF writesocket, IocpTypes
    <3>2. CASE UNCHANGED received  BY <3>2 DEF IocpTypes
    <3> QED  BY <1>2, <3>1, <3>2 DEF iocpthread, take_failed, iocp_mod, take_closed, LetGo, take_request,
               servesocket_html, search_one, search_print, search_add, search_return
  <2> QED  BY <2>1, <2>2, <2>3, <2>4, <2>5 DEF IocpTypes
<1>3. CASE UNCHANGED iocp
  <2>1. /\ UNCHANGED <<posted, link, pieces, left, slow>>
        /\ UNCHANGED <<cport, thread, outnow, answer, received, mixed, overran>>
    BY <1>3 DEF iocp, peers
  <2> QED  BY <2>1 DEF IocpTypes, ForSomebody, Engaged
<1> QED  BY <1>1, <1>2, <1>3 DEF IocpStep

----------------------------------------------------------------------------
(* A completion of no bytes is the end of what a peer sends. *)
LEMMA ClosedStep ==
  ASSUME IocpTypes, ForSomebody, ClosedOnes, [IocpStep]_iocp
  PROVE  ClosedOnes'
<1>0. IocpTypes'  BY IocpTypeStep
<1>c. cport \in Seq(Completions)  BY DEF IocpTypes
<1>d. \A i \in 1 .. Len(cport) : cport[i] \in Completions /\ cport[i].peer \in Peer
  <2>1. \A i \in 1 .. Len(cport) : cport[i] \in Completions  BY <1>c
  <2> QED  BY <2>1 DEF Completions
<1> DEFINE Told1(c) == c.stage = 1 /\ c.tran = 0 => left'[c.peer] # "no"
<1>1. ASSUME \A q \in Peer : left[q] # "no" => left'[q] # "no"
      PROVE  \A i \in 1 .. Len(cport) : Told1(cport[i])
  BY <1>1, <1>d DEF ClosedOnes
<1>2. ASSUME NEW p \in Peer, IocpPeer(p)  PROVE ClosedOnes'
  <2>1. \A q \in Peer : left[q] # "no" => left'[q] # "no"  BY <1>2, PeerFrame
  <2>2. \A i \in 1 .. Len(cport) : Told1(cport[i])  BY <1>1, <2>1
  <2>3. left' \in [Peer -> {"no", "closed", "reset"}] /\ pieces' \in [Peer -> {0, 1, 2}]  BY <1>0 DEF IocpTypes
  <2>4. CASE cport' = cport  BY <2>2, <2>4 DEF ClosedOnes
  <2>5. ASSUME NEW c \in Completions, cport' = Append(cport, c), Told1(c)  PROVE ClosedOnes'
    <3>1. Len(cport') = Len(cport) + 1 /\ cport'[Len(cport) + 1] = c  BY <1>c, <2>5
    <3>2. \A i \in 1 .. Len(cport) : cport'[i] = cport[i]  BY <1>c, <2>5
    <3>3. \A i \in 1 .. Len(cport') : i \in 1 .. Len(cport) \/ i = Len(cport) + 1  BY <1>c, <3>1
    <3> HIDE DEF Told1
    <3>4. \A i \in 1 .. Len(cport') : Told1(cport'[i])  BY <2>2, <2>5, <3>1, <3>2, <3>3
    <3> QED  BY <3>4 DEF ClosedOnes, Told1
  <2> QED  BY <1>2, <2>3, <2>4, <2>5, PeerCompletions
<1>3. ASSUME NEW t \in Thread, iocpthread(t)  PROVE ClosedOnes'
  <2>1. UNCHANGED left  BY <1>3, ThreadFrame
  <2>2. \A i \in 1 .. Len(cport) : Told1(cport[i])  BY <1>1, <2>1
  <2>3. CASE cport' = cport  BY <2>2, <2>3 DEF ClosedOnes
  <2>4. ASSUME cport # << >>
        PROVE  /\ Tail(cport) \in Seq(Completions) /\ Len(Tail(cport)) = Len(cport) - 1
               /\ \A i \in 1 .. Len(Tail(cport)) : Told1(Tail(cport)[i])
    <3>1. Tail(cport) \in Seq(Completions) /\ Len(Tail(cport)) = Len(cport) - 1 /\ Len(cport) \in Nat
      BY <1>c, <2>4
    <3>2. \A i \in 1 .. Len(Tail(cport)) : Tail(cport)[i] = cport[i + 1] /\ i + 1 \in 1 .. Len(cport)
      BY <1>c, <2>4
    <3> HIDE DEF Told1
    <3> QED  BY <2>2, <3>1, <3>2
  <2>5. CASE cport # << >> /\ cport' = Tail(cport)  BY <2>4, <2>5 DEF ClosedOnes
  <2>6. ASSUME cport # << >>, NEW c \in Completions, cport' = Tail(cport) \o <<c>>,
               c.stage = 1 /\ c.tran = 0 => left[c.peer] # "no"
        PROVE  ClosedOnes'
    <3>1. Told1(c)  BY <2>1, <2>6
    <3> DEFINE rest == Tail(cport)
    <3>2. rest \in Seq(Completions) /\ \A i \in 1 .. Len(rest) : Told1(rest[i])  BY <2>4, <2>6
    <3>3. cport' = rest \o <<c>>  BY <2>6
    <3> HIDE DEF rest, Told1
    <3>4. Len(cport') = Len(rest) + 1 /\ cport'[Len(rest) + 1] = c /\ Len(rest) \in Nat  BY <3>2, <3>3
    <3>5. \A i \in 1 .. Len(rest) : cport'[i] = rest[i]  BY <3>2, <3>3
    <3>6. \A i \in 1 .. Len(cport') : Told1(cport'[i])  BY <3>1, <3>2, <3>4, <3>5
    <3> QED  BY <3>6 DEF ClosedOnes, Told1
  <2> QED  BY <1>3, <2>3, <2>5, <2>6, ThreadCompletions
<1>4. CASE UNCHANGED iocp
  <2>1. UNCHANGED <<cport, left>>
    <3>1. UNCHANGED <<peers, cport>>  BY <1>4 DEF iocp
    <3> QED  BY <3>1 DEF peers
  <2> QED  BY <2>1 DEF ClosedOnes
<1> QED  BY <1>2, <1>3, <1>4 DEF IocpStep

----------------------------------------------------------------------------
(* What a thread prints when nobody answers beside it. *)

(* A step of a thread that changes its own record keeps everybody else right, for who
   answers beside it is mixed with it. *)
LEMMA TurnOf ==
  ASSUME NEW t \in Thread, Alone, Engaged(t), mixed' = mixed,
         \A u \in Thread : u # t => thread'[u] = thread[u],
         Engaged(t)' => thread'[t].peer = thread[t].peer,
         ~overran' /\ Engaged(t)' /\ thread[t].peer \notin mixed => RightOf(thread[t])'
  PROVE  Alone' /\ Right'
<1>1. Alone'  BY DEF Alone, Engaged
<1>2. ASSUME ~overran', NEW u \in Thread, Engaged(u)', thread'[u].peer \notin mixed'  PROVE RightOf(thread[u])'
  <2>1. u = t
    <3> SUFFICES ASSUME u # t  PROVE FALSE  OBVIOUS
    <3>1. thread'[u] = thread[u] /\ Engaged(u)  BY <1>2 DEF Engaged
    <3> QED  BY <1>2, <3>1 DEF Alone
  <2> QED  BY <1>2, <2>1
<1> QED  BY <1>1, <1>2 DEF Right

(* What is placed stands where it was placed, and what is before it is left alone. *)
LEMMA PlacedFacts ==
  ASSUME NEW buf \in [1 .. Room -> Units], NEW off \in Nat, NEW n \in Nat, NEW units \in [1 .. n -> Units]
  PROVE  /\ \A i \in 1 .. Room : i <= 1 + off => Placed(buf, off, units)[i] = buf[i]
         /\ \A i \in 1 .. n : 1 + off + i <= Room => Placed(buf, off, units)[1 + off + i] = units[i]
<1>1. Room \in Nat  BY IocpAssumption
<1>2. \A i \in 1 .. Room : i <= 1 + off => i - 1 - off \notin DOMAIN units  BY <1>1
<1>3. \A i \in 1 .. n : 1 + off + i <= Room =>
        1 + off + i \in 1 .. Room /\ (1 + off + i) - 1 - off = i /\ i \in DOMAIN units
  BY <1>1
<1> QED  BY <1>1, <1>2, <1>3 DEF Placed

(* What stands at the front is the whole answer, once all of its units are there. *)
LEMMA FrontIsWhole ==
  ASSUME IocpTypes, NEW a \in DOMAIN Answer, Front(a, Answer[a].n),
         NEW ret, ret = IF Answer[a].n = 0 THEN 0 ELSE 1 + Answer[a].n
  PROVE  ret <= Room /\ SubSeq(answer, 1, ret) = Whole(a)
<1> DEFINE n == Answer[a].n
<1>1. Room \in Nat /\ n \in Nat  BY IocpAssumption
<1>2. answer \in [1 .. Room -> Units] /\ n < Room /\ answer[1] = <<"head">>
      /\ \A i \in 1 .. n : answer[1 + i] = Unit(a, i)
  BY DEF IocpTypes, Front
<1>3. answer \in Seq(Units) /\ Len(answer) = Room  BY <1>1, <1>2
<1> HIDE DEF n
<1>4. CASE n = 0
  <2>1. ret = 0 /\ Whole(a) = << >>  BY <1>4 DEF Whole, n
  <2>2. SubSeq(answer, 1, 0) = << >>  BY <1>3
  <2> QED  BY <1>1, <2>1, <2>2
<1>5. CASE n # 0
  <2> DEFINE units == [k \in 1 .. n |-> Unit(a, k)]
             all == << <<"head">> >> \o units
  <2>1. ret = 1 + n /\ Whole(a) = all  BY <1>5 DEF Whole, n
  <2>2. \A k \in 1 .. n : Unit(a, k) \in Units  BY <1>1 DEF Units
  <2>3. units \in Seq(Units) /\ Len(units) = n  BY <1>1, <2>2
  <2>4. \A i \in 1 .. n : units[i] = answer[1 + i]  BY <1>2
  <2>5. <<"head">> \in Units  BY DEF Units
  <2>6. << <<"head">> >> \in Seq(Units) /\ Len(<< <<"head">> >>) = 1  BY <2>5
  <2> HIDE DEF units
  <2>7. all \in Seq(Units) /\ Len(all) = 1 + n /\ all[1] = <<"head">>  BY <2>3, <2>6
  <2>8. \A i \in 1 .. n : all[1 + i] = units[i]  BY <2>3, <2>6
  <2>9. \A i \in 1 .. 1 + n : all[i] = answer[i]
    <3>1. \A i \in 1 .. 1 + n : i = 1 \/ (i - 1 \in 1 .. n /\ 1 + (i - 1) = i)  BY <1>1
    <3> HIDE DEF all
    <3> QED  BY <1>2, <2>4, <2>7, <2>8, <3>1
  <2> DEFINE sub == SubSeq(answer, 1, 1 + n)
  <2>a. sub \in Seq(Units) /\ Len(sub) = 1 + n /\ \A i \in 1 .. 1 + n : sub[i] = answer[i]
    BY <1>1, <1>2, <1>3
  <2> HIDE DEF sub, all
  <2>b. sub = all  BY <1>1, <2>7, <2>9, <2>a
  <2> QED  BY <1>1, <1>2, <2>1, <2>b DEF sub
<1> QED  BY <1>4, <1>5

(* Every step of a thread keeps what is printed right for those nobody answers beside. *)
LEMMA RightStep ==
  ASSUME IocpTypes, ForSomebody, Alone, Right, NEW t \in Thread, iocpthread(t)
  PROVE  Alone' /\ Right'
<1>0. ~overran /\ (Engaged(t) /\ thread[t].peer \notin mixed => RightOf(thread[t]))
  BY ThreadFrame DEF Right
<1>a. thread \in [Thread -> Threads] /\ thread[t] \in Threads /\ outnow \in Nat /\ answer \in [1 .. Room -> Units]
  BY DEF IocpTypes
<1>b. Engaged(t) => thread[t].name \in DOMAIN Answer  BY DEF ForSomebody
<1>c. \A a \in DOMAIN Answer : Answer[a].n \in Nat  BY IocpAssumption
<1>r. Room \in Nat /\ Room >= 1  BY IocpAssumption
<1>e. thread[t].k \in Nat /\ thread[t].at \in Nat /\ thread[t].ret \in Nat  BY <1>a DEF Threads
<1>1. CASE take_failed(t) \/ iocp_mod(t) \/ take_closed(t)
  <2>1. UNCHANGED <<thread, outnow, answer, overran, mixed>>
    BY <1>1 DEF take_failed, iocp_mod, take_closed, LetGo
  <2> QED  BY <2>1 DEF Alone, Right, Engaged, RightOf, Front
<1>2. CASE take_request(t)
  <2>1. cport # << >> /\ Told \in Completions  BY <1>2 DEF take_request, Takes, Told, IocpTypes
  <2>2. Told.tran \in {1, 2} /\ Told.peer \in Peer  BY <1>2, <2>1 DEF take_request, Completions
  <2>3. Names(Told.peer, Told.tran) \subseteq DOMAIN Answer  BY <2>2, IocpAssumption DEF Names
  <2>4. PICK a \in DOMAIN Answer :
          thread' = [thread EXCEPT ![t] = [Idle EXCEPT !.pc = Answer[a].kind, !.peer = Told.peer, !.name = a]]
    BY <1>2, <2>3 DEF take_request
  <2> DEFINE others == {thread[u].peer : u \in Thread \ Waiting}
  <2>5. mixed' = IF others = {} THEN mixed ELSE mixed \cup others \cup {Told.peer}
    BY <1>2 DEF take_request
  <2>6. UNCHANGED <<outnow, answer, overran>> /\ ~Engaged(t)
    BY <1>2 DEF take_request, Takes, Waiting, Engaged
  <2>7. \A u \in Thread : u # t => thread'[u] = thread[u]  BY <2>4, <1>a
  <2>8. thread'[t].pc \in {"search", "file"} /\ thread'[t].peer = Told.peer
    BY <2>4, <1>a, IocpAssumption, IdleThread DEF Threads
  <2>9. \A u \in Thread : Engaged(u) => thread[u].peer \in others  BY DEF Engaged, Waiting
  <2> HIDE DEF others
  <2>10. Alone'
    <3> SUFFICES ASSUME NEW u \in Thread, NEW v \in Thread, Engaged(u)', Engaged(v)', u # v
                 PROVE  thread'[u].peer \in mixed'
      BY DEF Alone
    <3>1. CASE u = t
      <4>1. Engaged(v)  BY <3>1, <2>7 DEF Engaged
      <4> QED  BY <4>1, <3>1, <2>5, <2>8, <2>9
    <3>2. CASE u # t
      <4>1. Engaged(u) /\ thread'[u] = thread[u]  BY <3>2, <2>7 DEF Engaged
      <4>2. thread[u].peer \in others  BY <4>1, <2>9
      <4> QED  BY <4>1, <4>2, <2>5
    <3> QED  BY <3>1, <3>2
  <2>11. ASSUME NEW u \in Thread, Engaged(u)', thread'[u].peer \notin mixed'  PROVE RightOf(thread[u])'
    <3>1. CASE u = t  BY <3>1, <2>8 DEF RightOf
    <3>2. CASE u # t
      <4>1. Engaged(u) /\ thread'[u] = thread[u]  BY <2>11, <3>2, <2>7 DEF Engaged
      <4>2. thread[u].peer \notin mixed  BY <2>11, <4>1, <2>5
      <4>3. RightOf(thread[u])  BY <4>1, <4>2, <1>0 DEF Right
      <4> QED  BY <4>1, <4>3, <2>6 DEF RightOf, Front
    <3> QED  BY <3>1, <3>2
  <2> QED  BY <2>10, <2>11 DEF Right
<1>3. CASE servesocket_html(t)
  <2> DEFINE file == thread[t].name
             n == IF Answer[file].n < Room THEN Answer[file].n ELSE Room
             ret == IF n = 0 THEN 0 ELSE 1 + n
             units == [k \in 1 .. n |-> Unit(file, k)]
  <2>1. Engaged(t) /\ file \in DOMAIN Answer  BY <1>3, <1>b DEF servesocket_html, Engaged
  <2>2. n \in Nat  BY <2>1, <1>c, <1>r
  <2>3. /\ answer' = Placed(Headed, 0, units) /\ overran' = (1 + n > Room) /\ UNCHANGED mixed
        /\ thread' = [thread EXCEPT ![t].pc = "send", ![t].at = 0, ![t].ret = ret]
    BY <1>3 DEF servesocket_html
  <2>4. \A u \in Thread : u # t => thread'[u] = thread[u]  BY <2>3, <1>a
  <2>5. /\ thread'[t].peer = thread[t].peer /\ thread'[t].pc = "send"
        /\ thread'[t].name = file /\ thread'[t].ret = ret
    <3> HIDE DEF ret
    <3> QED  BY <2>3, <1>a DEF Threads
  <2>6. ASSUME ~overran'  PROVE RightOf(thread[t])'
    <3>1. n = Answer[file].n /\ n < Room
      <4>0. ~(1 + n > Room)  BY <2>3, <2>6
      <4>n. n \in Nat  BY <2>2
      <4>1. 1 + n <= Room
        <5> HIDE DEF n
        <5> QED  BY <4>0, <4>n, <1>r
      <4>2. Answer[file].n \in Nat  BY <2>1, <1>c
      <4> HIDE DEF file
      <4> QED  BY <4>1, <4>2, <1>r
    <3>2. units \in [1 .. n -> Units]
      <4> HIDE DEF n, file
      <4>1. \A k \in 1 .. n : Unit(file, k) \in Units  BY <2>1, <2>2 DEF Units
      <4> QED  BY <4>1
    <3>3. Headed \in [1 .. Room -> Units] /\ Headed[1] = <<"head">>  BY HeadedTypes
    <3>4. \A k \in 1 .. n : units[k] = Unit(file, k)  OBVIOUS
    <3> HIDE DEF n, units, file
    <3>p. /\ \A i \in 1 .. Room : i <= 1 + 0 => Placed(Headed, 0, units)[i] = Headed[i]
          /\ \A i \in 1 .. n : 1 + 0 + i <= Room => Placed(Headed, 0, units)[1 + 0 + i] = units[i]
      <4>1. 0 \in Nat  OBVIOUS
      <4> QED  BY ONLY <2>2, <3>2, <3>3, <4>1, PlacedFacts
    <3>5. answer'[1] = <<"head">>
      <4>1. 1 \in 1 .. Room /\ 1 <= 1 + 0  BY <1>r
      <4> QED  BY <2>3, <3>3, <3>p, <4>1
    <3>6. \A i \in 1 .. n : answer'[1 + i] = Unit(file, i)
      <4>1. \A i \in 1 .. n : 1 + 0 + i <= Room /\ 1 + 0 + i = 1 + i  BY <2>2, <3>1, <1>r
      <4> QED  BY <2>3, <3>4, <3>p, <4>1
    <3> QED  BY <2>5, <3>1, <3>5, <3>6 DEF RightOf, Front
  <2> QED  BY <2>1, <2>3, <2>4, <2>5, <2>6, TurnOf
<1>4. CASE search_one(t)
  <2>1. /\ thread' = [thread EXCEPT ![t].pc = "print", ![t].k = 1] /\ Engaged(t)
        /\ outnow' = 0 /\ answer' = Headed /\ UNCHANGED <<mixed, overran>>
    BY <1>4 DEF search_one, Engaged
  <2>2. \A u \in Thread : u # t => thread'[u] = thread[u]  BY <2>1, <1>a
  <2>3. /\ thread'[t].peer = thread[t].peer /\ thread'[t].pc = "print"
        /\ thread'[t].name = thread[t].name /\ thread'[t].k = 1
    BY <2>1, <1>a DEF Threads
  <2>4. RightOf(thread[t])'
    <3>1. Headed[1] = <<"head">>  BY HeadedTypes
    <3>2. Answer[thread[t].name].n \in Nat  BY <2>1, <1>b, <1>c
    <3>3. Answer[thread'[t].name].n \in Nat /\ thread'[t].k <= Answer[thread'[t].name].n + 1  BY <2>3, <3>2
    <3>4. Front(thread[t].name, thread[t].k - 1)'
      <4>1. thread'[t].k - 1 = 0  BY <2>3
      <4>2. thread'[t].k - 1 < Room /\ 1 .. (thread'[t].k - 1) = {}  BY <4>1, <1>r
      <4>3. answer'[1] = <<"head">>  BY <2>1, <3>1
      <4> QED  BY <4>2, <4>3 DEF Front
    <3> QED  BY <2>1, <2>3, <3>3, <3>4 DEF RightOf
  <2> QED  BY <2>1, <2>2, <2>3, <2>4, TurnOf
<1>5. CASE search_print(t)
  <2> DEFINE a == thread[t].name
             k == thread[t].k
             units == <<Unit(a, k)>>
  <2>1. /\ thread' = [thread EXCEPT ![t].pc = "add", ![t].at = outnow] /\ Engaged(t)
        /\ thread[t].pc = "print" /\ k <= Answer[a].n
        /\ overran' = (outnow # Room /\ 2 + outnow > Room)
        /\ answer' = Placed(answer, outnow, units) /\ UNCHANGED <<mixed, outnow>>
    BY <1>5 DEF search_print, Engaged
  <2>2. \A u \in Thread : u # t => thread'[u] = thread[u]  BY <2>1, <1>a
  <2>3. /\ thread'[t].peer = thread[t].peer /\ thread'[t].pc = "add"
        /\ thread'[t].name = a /\ thread'[t].k = k /\ thread'[t].at = outnow
    BY <2>1, <1>a DEF Threads
  <2>4. ASSUME ~overran', thread[t].peer \notin mixed  PROVE RightOf(thread[t])'
    <3>1. outnow = k - 1 /\ k >= 1 /\ Front(a, k - 1)  BY <2>1, <2>4, <1>0 DEF RightOf
    <3>2. k < Room
      <4>1. k - 1 < Room  BY <3>1 DEF Front
      <4>2. ~(outnow # Room /\ 2 + outnow > Room)  BY <2>1, <2>4
      <4>3. k \in Nat  BY <1>e
      <4> HIDE DEF k
      <4> QED  BY <4>1, <4>2, <4>3, <3>1, <1>r
    <3>3. a \in DOMAIN Answer  BY <2>1, <1>b
    <3>4. units \in [1 .. 1 -> Units] /\ units[1] = Unit(a, k)
      <4>1. Unit(a, k) \in Units  BY <3>3, <1>e DEF Units
      <4> QED  BY <4>1
    <3> HIDE DEF units, a, k
    <3>p. /\ \A i \in 1 .. Room : i <= 1 + outnow => Placed(answer, outnow, units)[i] = answer[i]
          /\ \A i \in 1 .. 1 : 1 + outnow + i <= Room => Placed(answer, outnow, units)[1 + outnow + i] = units[i]
      <4>1. 1 \in Nat  OBVIOUS
      <4> QED  BY ONLY <1>a, <3>4, <4>1, PlacedFacts
    <3>e. k \in Nat  BY <1>e DEF k
    <3>5. answer'[1] = <<"head">>
      <4>1. 1 \in 1 .. Room /\ 1 <= 1 + outnow  BY <1>r, <1>a
      <4> QED  BY <2>1, <3>1, <3>p, <4>1 DEF Front
    <3>6. ASSUME NEW i \in 1 .. k  PROVE answer'[1 + i] = Unit(a, i)
      <4>1. CASE i = k
        <5>1. 1 \in 1 .. 1 /\ 1 + outnow + 1 <= Room /\ 1 + outnow + 1 = 1 + i  BY <4>1, <3>1, <3>2, <3>e, <1>r
        <5> QED  BY <2>1, <3>4, <3>p, <4>1, <5>1
      <4>2. CASE i # k
        <5>1. i \in 1 .. k - 1 /\ 1 + i \in 1 .. Room /\ 1 + i <= 1 + outnow  BY <4>2, <3>1, <3>2, <3>e, <1>r
        <5> QED  BY <2>1, <3>1, <3>p, <5>1 DEF Front
      <4> QED  BY <4>1, <4>2
    <3>7. Front(a, k)'
      <4>1. a' = a
        BY <2>3 DEF a
      <4>2. k' = k
        BY <2>3 DEF k
      <4> QED  BY <3>2, <3>5, <3>6, <4>1, <4>2 DEF Front
    <3>8. thread'[t].k >= 1 /\ outnow' = thread'[t].k - 1 /\ thread'[t].at = outnow'
      BY <2>1, <2>3, <3>1
    <3>9. thread'[t].k <= Answer[thread'[t].name].n  BY <2>1, <2>3
    <3>10. Front(thread[t].name, thread[t].k)'  BY <3>7 DEF a, k
    <3> QED  BY <2>3, <3>8, <3>9, <3>10 DEF RightOf
  <2> QED  BY <2>1, <2>2, <2>3, <2>4, TurnOf
<1>6. CASE search_add(t)
  <2>1. /\ thread' = [thread EXCEPT ![t].pc = "print", ![t].k = @ + 1, ![t].at = 0] /\ Engaged(t)
        /\ thread[t].pc = "add" /\ outnow' \in {outnow + 1, thread[t].at + 1}
        /\ UNCHANGED <<overran, mixed, answer>>
    BY <1>6 DEF search_add, Engaged
  <2>2. \A u \in Thread : u # t => thread'[u] = thread[u]  BY <2>1, <1>a
  <2>3. /\ thread'[t].peer = thread[t].peer /\ thread'[t].pc = "print"
        /\ thread'[t].name = thread[t].name /\ thread'[t].k = thread[t].k + 1
    BY <2>1, <1>a DEF Threads
  <2>4. ASSUME thread[t].peer \notin mixed  PROVE RightOf(thread[t])'
    <3>1. /\ thread[t].k >= 1 /\ outnow = thread[t].k - 1 /\ thread[t].at = outnow
          /\ thread[t].k <= Answer[thread[t].name].n /\ Front(thread[t].name, thread[t].k)
      BY <2>1, <2>4, <1>0 DEF RightOf
    <3>2. outnow' = thread'[t].k - 1 /\ thread'[t].k >= 1 /\ thread'[t].k - 1 = thread[t].k
      BY <2>1, <2>3, <3>1, <1>e
    <3>3. Answer[thread[t].name].n \in Nat  BY <2>1, <1>b, <1>c
    <3>4. thread'[t].k <= Answer[thread'[t].name].n + 1  BY <2>3, <3>1, <3>3, <1>e
    <3>5. Front(thread[t].name, thread[t].k - 1)'
      <4>1. thread'[t].k - 1 = thread[t].k /\ thread'[t].name = thread[t].name  BY <2>3, <3>2
      <4> QED  BY <2>1, <3>1, <4>1 DEF Front
    <3> QED  BY <2>3, <3>2, <3>4, <3>5 DEF RightOf
  <2> QED  BY <2>1, <2>2, <2>3, <2>4, TurnOf
<1>7. CASE search_return(t)
  <2> DEFINE ret == IF outnow = 0 THEN 0 ELSE 1 + outnow
             a == thread[t].name
  <2>1. /\ thread' = [thread EXCEPT ![t].pc = "send", ![t].at = 0, ![t].ret = ret] /\ Engaged(t)
        /\ thread[t].pc = "print" /\ thread[t].k > Answer[a].n
        /\ UNCHANGED <<overran, mixed, answer, outnow>>
    BY <1>7 DEF search_return, Engaged
  <2>2. \A u \in Thread : u # t => thread'[u] = thread[u]  BY <2>1, <1>a
  <2>3. /\ thread'[t].peer = thread[t].peer /\ thread'[t].pc = "send"
        /\ thread'[t].name = a /\ thread'[t].ret = ret
    <3> HIDE DEF ret
    <3> QED  BY <2>1, <1>a DEF Threads
  <2>4. ASSUME thread[t].peer \notin mixed  PROVE RightOf(thread[t])'
    <3>1. outnow = thread[t].k - 1 /\ thread[t].k <= Answer[a].n + 1 /\ Front(a, thread[t].k - 1)
      BY <2>1, <2>4, <1>0 DEF RightOf
    <3>2. Answer[a].n \in Nat  BY <2>1, <1>b, <1>c
    <3>3. outnow = Answer[a].n /\ thread[t].k - 1 = Answer[a].n  BY <2>1, <3>1, <3>2, <1>e
    <3>4. ret = IF Answer[a].n = 0 THEN 0 ELSE 1 + Answer[a].n  BY <3>3
    <3>5. Front(thread[t].name, Answer[thread[t].name].n)'
      <4>1. Front(a, Answer[a].n)  BY <3>1, <3>3
      <4> QED  BY <2>1, <2>3, <4>1 DEF Front
    <3> QED  BY <2>3, <3>4, <3>5 DEF RightOf
  <2> QED  BY <2>1, <2>2, <2>3, <2>4, TurnOf
<1>8. CASE writesocket(t)
  <2>1. thread' = [thread EXCEPT ![t] = Idle] /\ Engaged(t) /\ UNCHANGED mixed
    BY <1>8 DEF writesocket, Engaged
  <2>2. \A u \in Thread : u # t => thread'[u] = thread[u]  BY <2>1, <1>a
  <2>3. ~Engaged(t)'  BY <2>1, <1>a, IdleThread DEF Engaged
  <2> QED  BY <2>1, <2>2, <2>3, TurnOf
<1> QED  BY <1>1, <1>2, <1>3, <1>4, <1>5, <1>6, <1>7, <1>8 DEF iocpthread

(* A step of the peers leaves all that alone. *)
LEMMA PeersKeepRight ==
  ASSUME IocpTypes, Alone, Right, NEW p \in Peer, IocpPeer(p)
  PROVE  Alone' /\ Right'
<1>1. UNCHANGED <<thread, outnow, answer, mixed, overran>>  BY PeerFrame
<1> QED  BY <1>1 DEF Alone, Right, Engaged, RightOf, Front

----------------------------------------------------------------------------
(* The property itself. *)

(* A thread that writes for a peer nobody was answered beside sends the whole answer. *)
LEMMA WrittenWhole ==
  ASSUME IocpTypes, ForSomebody, Right, NEW t \in Thread, writesocket(t), ~overran,
         thread[t].peer \notin mixed
  PROVE  /\ ~overran'
         /\ left[thread[t].peer] = "no" => received'[thread[t].peer] = "all"
<1> DEFINE x == thread[t]
<1>1. x.pc = "send" /\ Engaged(t) /\ overran' = (x.ret > Room)
      /\ received' = IF x.ret > Room \/ left[x.peer] # "no" THEN received
                     ELSE [received EXCEPT ![x.peer] = IF SubSeq(answer, 1, x.ret) = Whole(x.name) THEN "all" ELSE "other"]
  BY DEF writesocket, Engaged
<1>2. x.peer \in Peer /\ x.name \in DOMAIN Answer  BY <1>1 DEF ForSomebody
<1>3. x.ret = (IF Answer[x.name].n = 0 THEN 0 ELSE 1 + Answer[x.name].n) /\ Front(x.name, Answer[x.name].n)
  BY <1>1 DEF Right, RightOf
<1>4. x.ret <= Room /\ SubSeq(answer, 1, x.ret) = Whole(x.name)  BY <1>2, <1>3, FrontIsWhole
<1>5. ~(x.ret > Room)
  <2>1. x.ret \in Nat /\ Room \in Nat  BY IocpAssumption DEF IocpTypes, Threads
  <2> HIDE DEF x
  <2> QED  BY <1>4, <2>1
<1>6. ~overran'  BY <1>1, <1>5
<1>7. ASSUME left[x.peer] = "no"  PROVE received'[x.peer] = "all"
  <2>1. received' = [received EXCEPT ![x.peer] = "all"]  BY <1>1, <1>4, <1>5, <1>7
  <2> HIDE DEF x
  <2> QED  BY <1>2, <2>1 DEF IocpTypes
<1> QED  BY <1>6, <1>7

(* Everybody who stays gets his own answer, and the buffer is left by an answer too long
   for it or by two threads, in every step. *)
LEMMA OwnStep ==
  ASSUME IocpIInv, [IocpStep]_iocp
  PROVE  OwnAnswers'
<1> USE DEF IocpIInv
<1>t. IocpTypes'  BY IocpTypeStep
<1> DEFINE First == \A p \in Peer \ mixed : link[p] = "stopped" /\ left[p] = "no" => received[p] = "all"
           TooLong(u) == 1 + Answer[thread[u].name].n > Room
           Second == overran => mixed # {} \/ \E u \in Thread \ Waiting : TooLong(u)
<1>o. First /\ Second  BY DEF OwnAnswers
<1> SUFFICES First' /\ Second'  BY DEF OwnAnswers
<1>1. ASSUME NEW p \in Peer, IocpPeer(p)  PROVE First' /\ Second'
  <2>1. UNCHANGED <<thread, received, mixed, overran>> /\ ~overran  BY <1>1, PeerFrame
  <2>2. /\ \A q \in Peer : left[q] # "no" => left'[q] # "no"
        /\ \A q \in Peer : link'[q] = "stopped" => link[q] = "stopped"
    BY <1>1, PeerFrame
  <2> QED  BY <1>o, <2>1, <2>2
<1>2. ASSUME NEW t \in Thread, iocpthread(t)  PROVE First' /\ Second'
  <2>0. ~overran /\ UNCHANGED left  BY <1>2, ThreadFrame
  <2>a. thread[t] \in Threads /\ outnow \in Nat /\ Room \in Nat  BY IocpAssumption DEF IocpTypes
  <2>b. Engaged(t) => thread[t].peer \in Peer /\ thread[t].name \in DOMAIN Answer /\ Answer[thread[t].name].n \in Nat
    BY IocpAssumption DEF ForSomebody
  <2>1. CASE take_failed(t) \/ iocp_mod(t)
    <3>1. UNCHANGED <<received, mixed, overran>>  BY <2>1 DEF take_failed, iocp_mod, LetGo
    <3>2. \A q \in Peer : link'[q] = "stopped" => link[q] = "stopped"
      BY <2>1 DEF take_failed, iocp_mod, LetGo, IocpTypes
    <3> QED  BY <1>o, <2>0, <3>1, <3>2
  <2>2. CASE take_closed(t)
    <3>1. UNCHANGED <<received, mixed, overran>> /\ link' = [link EXCEPT ![Told.peer] = "stopped"]
      BY <2>2 DEF take_closed, LetGo
    <3>2. left[Told.peer] # "no"
      <4>1. cport # << >> /\ cport \in Seq(Completions)  BY <2>2 DEF take_closed, Takes, IocpTypes
      <4>2. 1 \in 1 .. Len(cport) /\ Told = cport[1]  BY <4>1 DEF Told
      <4> QED  BY <2>2, <4>2 DEF take_closed, ClosedOnes
    <3>3. \A q \in Peer : q # Told.peer => link'[q] = link[q]  BY <3>1 DEF IocpTypes
    <3> QED  BY <1>o, <2>0, <3>1, <3>2, <3>3
  <2>3. CASE take_request(t)
    <3>1. UNCHANGED <<received, link, overran>> /\ mixed \subseteq mixed'  BY <2>3 DEF take_request
    <3> QED  BY <1>o, <2>0, <3>1
  <2>4. CASE servesocket_html(t)
    <3> DEFINE a == thread[t].name
               n == IF Answer[a].n < Room THEN Answer[a].n ELSE Room
    <3>1. /\ UNCHANGED <<received, link, mixed>> /\ overran' = (1 + n > Room) /\ Engaged(t)
          /\ thread' = [thread EXCEPT ![t].pc = "send", ![t].at = 0, ![t].ret = IF n = 0 THEN 0 ELSE 1 + n]
      BY <2>4 DEF servesocket_html, Engaged
    <3>2. thread'[t].pc = "send" /\ thread'[t].name = a
      <4> HIDE DEF n
      <4> QED  BY <3>1, <2>a DEF Threads, IocpTypes
    <3>3. ASSUME overran'  PROVE 1 + Answer[a].n > Room
      <4>1. 1 + n > Room  BY <3>1, <3>3
      <4>2. Answer[a].n \in Nat  BY <3>1, <2>b
      <4> HIDE DEF a
      <4> QED  BY <4>1, <4>2, <2>a
    <3>4. Second'  BY <3>2, <3>3 DEF Waiting
    <3> QED  BY <1>o, <2>0, <3>1, <3>4
  <2>5. CASE search_one(t) \/ search_add(t) \/ search_return(t)
    <3>1. UNCHANGED <<received, link, mixed, overran>>  BY <2>5 DEF search_one, search_add, search_return
    <3> QED  BY <1>o, <2>0, <3>1
  <2>6. CASE search_print(t)
    <3> DEFINE a == thread[t].name
    <3>1. /\ UNCHANGED <<received, link, mixed>> /\ overran' = (outnow # Room /\ 2 + outnow > Room)
          /\ thread' = [thread EXCEPT ![t].pc = "add", ![t].at = outnow]
          /\ thread[t].pc = "print" /\ thread[t].k <= Answer[a].n /\ Engaged(t)
      BY <2>6 DEF search_print, Engaged
    <3>2. thread'[t].pc = "add" /\ thread'[t].name = a  BY <3>1, <2>a DEF Threads, IocpTypes
    <3>3. ASSUME overran', thread[t].peer \notin mixed  PROVE 1 + Answer[a].n > Room
      <4>1. outnow = thread[t].k - 1  BY <3>1, <3>3, <2>0 DEF Right, RightOf
      <4>2. 2 + outnow > Room  BY <3>1, <3>3
      <4>3. thread[t].k \in Nat /\ Answer[a].n \in Nat  BY <3>1, <2>a, <2>b DEF Threads
      <4> HIDE DEF a
      <4>4. thread[t].k <= Answer[a].n  BY <3>1
      <4> QED  BY <4>1, <4>2, <4>3, <4>4, <2>a
    <3>4. Second'
      <4>1. CASE thread[t].peer \in mixed  BY <3>1, <4>1
      <4>2. CASE thread[t].peer \notin mixed  BY <3>2, <3>3, <4>2 DEF Waiting
      <4> QED  BY <4>1, <4>2
    <3> QED  BY <1>o, <2>0, <3>1, <3>4
  <2>7. CASE writesocket(t)
    <3> DEFINE p == thread[t].peer
    <3>1. UNCHANGED mixed /\ Engaged(t) /\ link' = [link EXCEPT ![p] = "stopped"]
      BY <2>7 DEF writesocket, Engaged
    <3>2. \A q \in Peer : q # p => link'[q] = link[q] /\ received'[q] = received[q]
      BY <2>7 DEF writesocket, IocpTypes
    <3>3. CASE p \in mixed  BY <1>o, <2>0, <3>1, <3>2, <3>3
    <3>4. CASE p \notin mixed
      <4>1. ~overran' /\ (left[p] = "no" => received'[p] = "all")  BY <2>7, <2>0, <3>4, WrittenWhole
      <4> QED  BY <1>o, <2>0, <3>1, <3>2, <4>1
    <3> QED  BY <3>3, <3>4
  <2> QED  BY <1>2, <2>1, <2>2, <2>3, <2>4, <2>5, <2>6, <2>7 DEF iocpthread
<1>3. CASE UNCHANGED iocp
  <2>1. /\ UNCHANGED <<link, left>>
        /\ UNCHANGED <<thread, received, mixed, overran>>
    BY <1>3 DEF iocp, peers
  <2>2. Waiting' = Waiting  BY <2>1 DEF Waiting
  <2>3. First'  BY <1>o, <2>1
  <2>4. Second'
    <3>1. \A u \in Thread \ Waiting : TooLong(u) => TooLong(u)'  BY <2>1
    <3>2. Thread \ Waiting = (Thread \ Waiting)'  BY <2>2
    <3> HIDE DEF TooLong
    <3> QED  BY <1>o, <2>1, <3>1, <3>2
  <2> QED  BY <2>3, <2>4
<1> HIDE DEF First, Second
<1> QED  BY <1>1, <1>2, <1>3 DEF IocpStep

(* The invariant holds at the start, whichever server was built. *)
LEMMA IocpInvInit == startsocket => IocpIInv
<1> SUFFICES ASSUME startsocket  PROVE IocpIInv  OBVIOUS
<1>1. IocpFresh /\ posted \in Nat
  <2>1. CASE built = "iocp"
    <3>1. posted \in Pools /\ IocpFresh  BY <2>1 DEF startsocket, IocpInit
    <3> QED  BY <3>1, IocpAssumption
  <2>2. CASE built # "iocp"
    <3>1. posted = 0 /\ IocpFresh  BY <2>2 DEF startsocket
    <3> QED  BY <3>1
  <2> QED  BY <2>1, <2>2
<1>2. thread \in [Thread -> Threads] /\ \A t \in Thread : ~Engaged(t)
  BY <1>1, IdleThread DEF IocpFresh, Engaged
<1>3. answer \in [1 .. Room -> Units]
  <2>1. << >> \in Units  BY DEF Units
  <2> QED  BY <1>1, <2>1 DEF IocpFresh
<1>4. IocpTypes
  <2>1. cport \in Seq(Completions)  BY <1>1 DEF IocpFresh
  <2>2. mixed \subseteq Peer /\ overran \in BOOLEAN /\ outnow \in Nat  BY <1>1 DEF IocpFresh
  <2>3. /\ link \in [Peer -> {"out", "queued", "accepted", "reading", "read", "stopped", "lost"}]
        /\ pieces \in [Peer -> {0, 1, 2}] /\ left \in [Peer -> {"no", "closed", "reset"}]
        /\ received \in [Peer -> {"nothing", "all", "other"}]
    BY <1>1 DEF IocpFresh
  <2> QED  BY <1>1, <1>2, <1>3, <2>1, <2>2, <2>3 DEF IocpTypes
<1>5. ForSomebody /\ Alone /\ Right  BY <1>2 DEF ForSomebody, Alone, Right
<1>6. ClosedOnes  BY <1>1 DEF IocpFresh, ClosedOnes
<1>7. OwnAnswers  BY <1>1 DEF IocpFresh, OwnAnswers
<1> QED  BY <1>4, <1>5, <1>6, <1>7 DEF IocpIInv

(* The invariant of the threads holds throughout. *)
THEOREM IocpInv == ServersSpec => []IocpIInv
<1>1. IocpIInv /\ [IocpStep]_iocp => IocpIInv'
  <2> SUFFICES ASSUME IocpIInv, [IocpStep]_iocp  PROVE IocpIInv'  OBVIOUS
  <2>1. IocpTypes' /\ ForSomebody' /\ ClosedOnes'  BY IocpTypeStep, ClosedStep DEF IocpIInv
  <2>2. Alone' /\ Right'
    <3>1. ASSUME NEW p \in Peer, IocpPeer(p)  PROVE Alone' /\ Right'  BY <3>1, PeersKeepRight DEF IocpIInv
    <3>2. ASSUME NEW t \in Thread, iocpthread(t)  PROVE Alone' /\ Right'  BY <3>2, RightStep DEF IocpIInv
    <3>3. CASE UNCHANGED iocp
      <4>1. UNCHANGED <<thread, outnow, answer, mixed, overran>>  BY <3>3 DEF iocp
      <4> QED  BY <4>1 DEF IocpIInv, Alone, Right, Engaged, RightOf, Front
    <3> QED  BY <3>1, <3>2, <3>3 DEF IocpStep
  <2> QED  BY <2>1, <2>2, OwnStep DEF IocpIInv
<1>2. [Step]_<<vars, iocp, built>> => [IocpStep]_iocp
  BY DEF Step
<1> QED  BY <1>1, <1>2, IocpInvInit, PTL DEF ServersSpec

(* A peer nobody was answered beside, and who stays, gets the whole answer to what was
   read of its request; and wbuf is left only by an answer that does not fit behind its
   head, or by two threads at once. *)
THEOREM AnswersAreOwn == ServersSpec => []OwnAnswers
<1>1. IocpIInv => OwnAnswers  BY DEF IocpIInv
<1> QED  BY <1>1, IocpInv, PTL
=============================================================================
