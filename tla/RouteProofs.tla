---------------------------- MODULE RouteProofs ----------------------------
(***************************************************************************)
(* Proofs about Route, for any stores whose chains stay home, any number   *)
(* of chips and any bounds: its types, and that what it prints is a path.  *)
(* And about Weights, for any header: the inference reads what was copied. *)
(* And about Llama, for any vocabulary, input and probabilities: what is   *)
(* answered is what was typed.                                             *)
(***************************************************************************)
EXTENDS Route, Weights, Llama, Recursion, SequenceTheorems

Entry == [chip: Chip, parent: Nat \ {0}]

\* Where the search stands: the entry being opened is on the queue, and the next
\* relation on a chain is one of that entry's chip.
Standing ==
    /\ \A s \in Sides : upto[s] <= Len(q[s])
    /\ pc \notin {"done", "overrun"} => round < Rounds
    /\ pc = "irel" => /\ cur[side] <= upto[side]
                      /\ w # 0 => db.wire[w].dst = q[side][cur[side]].chip
    /\ pc = "orel" => /\ cur[side] <= upto[side]
                      /\ w # 0 => db.wire[w].src = q[side][cur[side]].chip

IInv == TypeOK /\ Standing /\ QueuesAreTrees /\ RouteMeets

----------------------------------------------------------------------------
(* One queue. *)

\* A chip that is not on queue Q goes behind it, entry p its parent.
LEMMA AddedEntry ==
    ASSUME NEW Q \in Seq(Entry), NEW c \in Chip, NEW p \in 1 .. Len(Q),
           \A e \in DOMAIN Q : Q[e].chip # c,
           NEW R, R = Append(Q, [chip |-> c, parent |-> p])
    PROVE  /\ R \in Seq(Entry) /\ Len(R) = Len(Q) + 1
           /\ \A e \in 1 .. Len(Q) : R[e] = Q[e]
           /\ R[Len(R)].chip = c /\ R[Len(R)].parent = p
  BY DEF Entry

\* route_add leaves trees, and every entry where it was.
LEMMA AddKeepsTrees ==
    ASSUME TypeOK, Standing, QueuesAreTrees, NEW c \in Chip,
           cur[side] <= upto[side],
           Joined(q[side][cur[side]].chip, c),
           route_add(c), UNCHANGED <<db, ends>>
    PROVE  /\ QueuesAreTrees'
           /\ q' \in [Sides -> Seq(Entry)]
           /\ pc' \in {pc, "overrun"}
           /\ \A s \in Sides : /\ Len(q'[s]) >= Len(q[s])
                               /\ \A e \in 1 .. Len(q[s]) : q'[s][e] = q[s][e]
<1>1. /\ q \in [Sides -> Seq(Entry)] /\ side \in Sides
      /\ cur[side] \in 1 .. Len(q[side])
  <2>1. q \in [Sides -> Seq(Entry)] /\ side \in Sides
    BY DEF TypeOK, Entry
  <2>2. cur[side] \in Nat \ {0} /\ upto[side] \in Nat
    BY DEF TypeOK
  <2>3. upto[side] <= Len(q[side]) /\ Len(q[side]) \in Nat
    BY <2>1 DEF Standing
  <2> QED BY <2>1, <2>2, <2>3
<1>2. CASE UNCHANGED <<q, pc>>
  BY <1>1, <1>2 DEF QueuesAreTrees, Joined
<1>3. CASE pc' = "overrun" /\ UNCHANGED q
  BY <1>1, <1>3 DEF QueuesAreTrees, Joined
<1>4. CASE /\ \A e \in DOMAIN q[side] : q[side][e].chip # c
           /\ q' = [q EXCEPT ![side] = Append(@, [chip |-> c, parent |-> cur[side]])]
           /\ UNCHANGED pc
  <2> DEFINE Q == q[side]
             R == q'[side]
             n == Len(Q)
  <2>1. Q \in Seq(Entry) /\ cur[side] \in 1 .. n /\ n \in Nat
    BY <1>1
  <2>2. R = Append(Q, [chip |-> c, parent |-> cur[side]])
    BY <1>1, <1>4
  <2>3. /\ R \in Seq(Entry) /\ Len(R) = n + 1
        /\ \A e \in 1 .. n : R[e] = Q[e]
        /\ R[n + 1].chip = c /\ R[n + 1].parent = cur[side]
    <3>1. \A e \in DOMAIN Q : Q[e].chip # c
      BY <1>4
    <3> HIDE DEF Q, R
    <3> QED BY <2>1, <2>2, <3>1, AddedEntry DEF n
  <2>4. \A s \in Sides \ {side} : q'[s] = q[s]
    BY <1>1, <1>4
  <2>5. q' \in [Sides -> Seq(Entry)]
    BY <1>1, <1>4, <2>2, <2>3
  <2>6. QueuesAreTrees'
    <3> SUFFICES ASSUME NEW s \in Sides
                 PROVE  /\ Len(q'[s]) >= 1 /\ q'[s][1].chip = ends[s]
                        /\ \A e \in 2 .. Len(q'[s]) :
                             /\ q'[s][e].parent < e
                             /\ Joined(q'[s][q'[s][e].parent].chip, q'[s][e].chip)
                        /\ \A e, f \in DOMAIN q'[s] :
                             q'[s][e].chip = q'[s][f].chip => e = f
      BY DEF QueuesAreTrees, Joined
    <3>1. CASE s # side
      BY <2>4, <3>1 DEF QueuesAreTrees
    <3>2. CASE s = side
      <4> HIDE DEF Q, R, n
      <4>1. /\ n >= 1 /\ Q[1].chip = ends[s]
            /\ \A e \in 2 .. n : Q[e].parent < e /\ Joined(Q[Q[e].parent].chip, Q[e].chip)
            /\ \A e, f \in 1 .. n : Q[e].chip = Q[f].chip => e = f
        BY <2>1, <3>2 DEF QueuesAreTrees, Q, n
      <4>2. \A e \in 1 .. n : Q[e].chip # c
        BY <1>4, <2>1 DEF Q, n
      <4>3. Joined(Q[cur[side]].chip, c)
        BY DEF Q
      <4>4. \A e \in 2 .. n : Q[e].parent \in 1 .. n
        <5> SUFFICES ASSUME NEW e \in 2 .. n PROVE Q[e].parent \in 1 .. n
          OBVIOUS
        <5>1. Q[e] \in Entry
          BY <2>1 DEF n
        <5> QED BY <2>1, <4>1, <5>1 DEF Entry
      <4>5. ASSUME NEW e \in 2 .. n + 1
            PROVE  R[e].parent < e /\ Joined(R[R[e].parent].chip, R[e].chip)
        <5>1. CASE e = n + 1
          <6>1. R[cur[side]] = Q[cur[side]] /\ R[e].parent = cur[side] /\ R[e].chip = c
            BY <2>1, <2>3, <5>1
          <6> QED BY <2>1, <4>3, <5>1, <6>1
        <5>2. CASE e # n + 1
          <6>1. e \in 2 .. n /\ e \in 1 .. n
            BY <2>1, <5>2
          <6>2. R[e] = Q[e] /\ Q[e].parent \in 1 .. n
            BY <2>3, <4>4, <6>1
          <6>3. R[Q[e].parent] = Q[Q[e].parent]
            BY <2>3, <6>2
          <6>4. Q[e].parent < e /\ Joined(Q[Q[e].parent].chip, Q[e].chip)
            BY <4>1, <6>1
          <6> QED BY <6>2, <6>3, <6>4
        <5> QED BY <5>1, <5>2
      <4>6. ASSUME NEW e \in 1 .. n + 1, NEW f \in 1 .. n + 1, R[e].chip = R[f].chip
            PROVE  e = f
        <5>1. CASE e = n + 1 /\ f # n + 1
          <6>1. f \in 1 .. n
            BY <2>1, <5>1
          <6> QED BY <2>3, <4>2, <4>6, <5>1, <6>1
        <5>2. CASE f = n + 1 /\ e # n + 1
          <6>1. e \in 1 .. n
            BY <2>1, <5>2
          <6> QED BY <2>3, <4>2, <4>6, <5>2, <6>1
        <5>3. CASE e # n + 1 /\ f # n + 1
          <6>1. e \in 1 .. n /\ f \in 1 .. n
            BY <2>1, <5>3
          <6> QED BY <2>3, <4>1, <4>6, <6>1
        <5> QED BY <5>1, <5>2, <5>3
      <4>7. R[1].chip = ends[s]
        BY <2>1, <2>3, <4>1
      <4> QED BY <2>1, <2>3, <3>2, <4>1, <4>5, <4>6, <4>7 DEF R
    <3> QED BY <3>1, <3>2
  <2>7. \A s \in Sides : /\ Len(q'[s]) >= Len(q[s])
                         /\ \A e \in 1 .. Len(q[s]) : q'[s][e] = q[s][e]
    BY <1>1, <2>1, <2>3, <2>4
  <2> QED BY <1>4, <2>5, <2>6, <2>7
<1> QED BY <1>2, <1>3, <1>4 DEF route_add

----------------------------------------------------------------------------
\* The invariant holds before the search has opened its first entry.
LEMMA InitHolds == Init => IInv
<1> SUFFICES ASSUME Init PROVE IInv
  OBVIOUS
<1>1. TypeOK
  <2>1. Home(db) /\ Len(db.wire) \in Nat
    BY DatabasesHome DEF Init, Home
  <2>2. \A s \in Sides : <<[chip |-> ends[s], parent |-> 1]>> \in Seq(Entry)
    BY NamedChips DEF Init, Entry
  <2> QED BY <2>1, <2>2, Bounds DEF Init, TypeOK, Sides, Entry
<1>2. \A s \in Sides : /\ Len(q[s]) = 1 /\ q[s][1].chip = ends[s]
                       /\ DOMAIN q[s] = {1} /\ upto[s] = 1
  BY DEF Init
<1>3. QueuesAreTrees
  BY <1>2 DEF QueuesAreTrees
<1>4. Standing /\ RouteMeets
  BY <1>2, Bounds DEF Init, Standing, RouteMeets
<1> QED BY <1>1, <1>3, <1>4 DEF IInv

----------------------------------------------------------------------------
(* One lemma per action. *)

\* An entry within the round's range is on the queue.
LEMMA OnTheQueue ==
    ASSUME TypeOK, Standing, cur[side] <= upto[side]
    PROVE  /\ side \in Sides /\ cur[side] \in 1 .. Len(q[side])
           /\ q[side][cur[side]].chip \in Chip
<1>1. /\ side \in Sides /\ cur[side] \in Nat \ {0} /\ upto[side] \in Nat
      /\ q[side] \in Seq(Entry)
  BY DEF TypeOK, Entry
<1>2. upto[side] <= Len(q[side])
  BY <1>1 DEF Standing
<1>3. cur[side] \in 1 .. Len(q[side])
  BY <1>1, <1>2
<1>4. q[side][cur[side]] \in Entry
  BY <1>1, <1>3
<1> QED BY <1>1, <1>2, <1>3, <1>4 DEF Entry

\* Opening the next entry of the queue, or finding it done, preserves it.
LEMMA OpenHolds == IInv /\ open_entry => IInv'
<1> SUFFICES ASSUME IInv, open_entry PROVE IInv'
  OBVIOUS
<1> USE DEF IInv
<1>1. QueuesAreTrees' /\ RouteMeets'
  BY DEF open_entry, QueuesAreTrees, Joined, RouteMeets
<1>2. /\ cur[side] \in 1 .. Len(q[side]) /\ side \in Sides
      /\ q[side][cur[side]].chip \in Chip
  BY OnTheQueue DEF open_entry
<1>3. TypeOK'
  <2>1. db.head[q[side][cur[side]].chip].irel0 \in 0 .. Len(db.wire)
    BY <1>2 DEF TypeOK, Home, HomeChains
  <2>2. cur' \in [Sides -> Nat \ {0}]
    <3>1. cur \in [Sides -> Nat \ {0}] /\ cur[side] + 1 \in Nat \ {0}
      BY <1>2 DEF TypeOK
    <3>2. cur' = cur \/ cur' = [cur EXCEPT ![side] = @ + 1]
      BY DEF open_entry
    <3> QED BY ONLY <3>1, <3>2
  <2> QED BY <2>1, <2>2 DEF open_entry, TypeOK
<1>4. Standing'
  BY <1>2 DEF open_entry, Standing, TypeOK, Home, HomeChains
<1> QED BY <1>1, <1>3, <1>4

\* The relation a chain is at lies in the store; its ends are chips, and its link
\* names null or another relation with the same end.
LEMMA OnTheChain ==
    ASSUME TypeOK, w # 0
    PROVE  LET r == db.wire[w] IN
           /\ r.src \in Chip /\ r.dst \in Chip
           /\ r.samedstnextsrc \in 0 .. Len(db.wire)
           /\ r.samesrcnextdst \in 0 .. Len(db.wire)
           /\ r.samedstnextsrc # 0 => db.wire[r.samedstnextsrc].dst = r.dst
           /\ r.samesrcnextdst # 0 => db.wire[r.samesrcnextdst].src = r.src
           /\ Joined(r.src, r.dst) /\ Joined(r.dst, r.src)
<1>1. w \in 1 .. Len(db.wire) /\ w \in DOMAIN db.wire
  BY DEF TypeOK, Home, HomeChains
<1>2. db.wire[w] \in LinkedRel(Chip, Len(db.wire))
  BY <1>1 DEF TypeOK, Home, HomeChains
<1> QED BY <1>1, <1>2 DEF TypeOK, Home, HomeChains, LinkedRel, Joined, JoinedBy

\* So does following one relation from the entry to its parent side.
LEMMA IrelHolds == IInv /\ follow_irel => IInv'
<1> SUFFICES ASSUME IInv, follow_irel PROVE IInv'
  OBVIOUS
<1> USE DEF IInv
<1>1. /\ cur[side] \in 1 .. Len(q[side]) /\ side \in Sides
      /\ q[side][cur[side]].chip \in Chip /\ cur[side] <= upto[side]
  BY OnTheQueue DEF follow_irel, Standing
<1>2. CASE w = 0
  <2>1. QueuesAreTrees' /\ RouteMeets'
    BY <1>2 DEF follow_irel, QueuesAreTrees, Joined, RouteMeets
  <2>2. TypeOK'
    <3>1. db.head[q[side][cur[side]].chip].orel0 \in 0 .. Len(db.wire)
      BY <1>1 DEF TypeOK, Home, HomeChains
    <3> QED BY <1>1, <1>2, <3>1 DEF follow_irel, TypeOK
  <2>3. Standing'
    BY <1>1, <1>2 DEF follow_irel, Standing, TypeOK, Home, HomeChains
  <2> QED BY <2>1, <2>2, <2>3
<1>3. CASE w # 0
  <2>1. /\ w' = db.wire[w].samedstnextsrc /\ route_add(db.wire[w].src)
        /\ UNCHANGED <<db, ends, cur, upto, side, round, ret>>
        /\ db.wire[w].dst = q[side][cur[side]].chip
    BY <1>3 DEF follow_irel, Standing
  <2>2. /\ QueuesAreTrees' /\ q' \in [Sides -> Seq(Entry)] /\ pc' \in {pc, "overrun"}
        /\ \A s \in Sides : /\ Len(q'[s]) >= Len(q[s])
                            /\ \A e \in 1 .. Len(q[s]) : q'[s][e] = q[s][e]
    BY <1>1, <1>3, <2>1, OnTheChain, AddKeepsTrees
  <2>3. TypeOK'
    BY <1>3, <2>1, <2>2, OnTheChain DEF TypeOK, Entry
  <2>4. q'[side][cur[side]] = q[side][cur[side]]
    BY <1>1, <2>2
  <2>5. \A s \in Sides : Len(q[s]) \in Nat /\ Len(q'[s]) \in Nat /\ upto[s] \in Nat
    BY <2>2 DEF TypeOK
  <2>6. Standing'
    <3>1. \A s \in Sides : upto'[s] <= Len(q'[s])
      <4>1. \A s \in Sides : upto'[s] = upto[s] /\ upto[s] <= Len(q[s])
        BY <2>1 DEF Standing
      <4> QED BY ONLY <4>1, <2>2, <2>5
    <3>2. pc = "irel" /\ round' = round /\ round < Rounds /\ cur'[side'] <= upto'[side']
      BY <1>1, <2>1 DEF Standing, follow_irel
    <3>3. w' # 0 => db'.wire[w'].dst = q'[side'][cur'[side']].chip
      <4>1. w' # 0 => db.wire[w'].dst = db.wire[w].dst
        BY <1>3, <2>1, OnTheChain
      <4> QED BY ONLY <4>1, <2>1, <2>4
    <3> QED BY ONLY <3>1, <3>2, <3>3, <2>2 DEF Standing
  <2>7. RouteMeets'
    <3> SUFFICES ASSUME ret # [s \in Sides |-> 0]
                 PROVE  /\ \A s \in Sides : ret[s] \in DOMAIN q'[s]
                        /\ q'[0][ret[0]].chip = q'[1][ret[1]].chip
      BY <2>1 DEF RouteMeets
    <3>1. \A s \in Sides : ret[s] \in 1 .. Len(q[s])
      <4>1. \A s \in Sides : DOMAIN q[s] = 1 .. Len(q[s])
        BY DEF TypeOK
      <4> QED BY <4>1 DEF RouteMeets
    <3>2. \A s \in Sides : ret[s] \in DOMAIN q'[s] /\ q'[s][ret[s]] = q[s][ret[s]]
      BY <2>2, <2>5, <3>1
    <3> QED BY <3>2 DEF RouteMeets, Sides
  <2> QED BY <2>2, <2>3, <2>6, <2>7
<1> QED BY <1>2, <1>3

\* And one the other way.
LEMMA OrelHolds == IInv /\ follow_orel => IInv'
<1> SUFFICES ASSUME IInv, follow_orel PROVE IInv'
  OBVIOUS
<1> USE DEF IInv
<1>1. /\ cur[side] \in 1 .. Len(q[side]) /\ side \in Sides
      /\ q[side][cur[side]].chip \in Chip /\ cur[side] <= upto[side]
  BY OnTheQueue DEF follow_orel, Standing
<1>2. CASE w = 0
  <2>1. QueuesAreTrees' /\ RouteMeets'
    BY <1>2 DEF follow_orel, QueuesAreTrees, Joined, RouteMeets
  <2>2. TypeOK'
    <3>1. cur' \in [Sides -> Nat \ {0}]
      <4>1. cur \in [Sides -> Nat \ {0}] /\ cur[side] + 1 \in Nat \ {0}
        BY <1>1 DEF TypeOK
      <4>2. cur' = [cur EXCEPT ![side] = @ + 1]
        BY <1>2 DEF follow_orel
      <4> QED BY ONLY <4>1, <4>2
    <3> QED BY <1>2, <3>1 DEF follow_orel, TypeOK
  <2>3. Standing'
    BY <1>1, <1>2 DEF follow_orel, Standing
  <2> QED BY <2>1, <2>2, <2>3
<1>3. CASE w # 0
  <2>1. /\ w' = db.wire[w].samesrcnextdst /\ route_add(db.wire[w].dst)
        /\ UNCHANGED <<db, ends, cur, upto, side, round, ret>>
        /\ db.wire[w].src = q[side][cur[side]].chip
    BY <1>3 DEF follow_orel, Standing
  <2>2. /\ QueuesAreTrees' /\ q' \in [Sides -> Seq(Entry)] /\ pc' \in {pc, "overrun"}
        /\ \A s \in Sides : /\ Len(q'[s]) >= Len(q[s])
                            /\ \A e \in 1 .. Len(q[s]) : q'[s][e] = q[s][e]
    BY <1>1, <1>3, <2>1, OnTheChain, AddKeepsTrees
  <2>3. TypeOK'
    BY <1>3, <2>1, <2>2, OnTheChain DEF TypeOK, Entry
  <2>4. q'[side][cur[side]] = q[side][cur[side]]
    BY <1>1, <2>2
  <2>5. \A s \in Sides : Len(q[s]) \in Nat /\ Len(q'[s]) \in Nat /\ upto[s] \in Nat
    BY <2>2 DEF TypeOK
  <2>6. Standing'
    <3>1. \A s \in Sides : upto'[s] <= Len(q'[s])
      <4>1. \A s \in Sides : upto'[s] = upto[s] /\ upto[s] <= Len(q[s])
        BY <2>1 DEF Standing
      <4> QED BY ONLY <4>1, <2>2, <2>5
    <3>2. pc = "orel" /\ round' = round /\ round < Rounds /\ cur'[side'] <= upto'[side']
      BY <1>1, <2>1 DEF Standing, follow_orel
    <3>3. w' # 0 => db'.wire[w'].src = q'[side'][cur'[side']].chip
      <4>1. w' # 0 => db.wire[w'].src = db.wire[w].src
        BY <1>3, <2>1, OnTheChain
      <4> QED BY ONLY <4>1, <2>1, <2>4
    <3> QED BY ONLY <3>1, <3>2, <3>3, <2>2 DEF Standing
  <2>7. RouteMeets'
    <3> SUFFICES ASSUME ret # [s \in Sides |-> 0]
                 PROVE  /\ \A s \in Sides : ret[s] \in DOMAIN q'[s]
                        /\ q'[0][ret[0]].chip = q'[1][ret[1]].chip
      BY <2>1 DEF RouteMeets
    <3>1. \A s \in Sides : ret[s] \in 1 .. Len(q[s])
      <4>1. \A s \in Sides : DOMAIN q[s] = 1 .. Len(q[s])
        BY DEF TypeOK
      <4> QED BY <4>1 DEF RouteMeets
    <3>2. \A s \in Sides : ret[s] \in DOMAIN q'[s] /\ q'[s][ret[s]] = q[s][ret[s]]
      BY <2>2, <2>5, <3>1
    <3> QED BY <3>2 DEF RouteMeets, Sides
  <2> QED BY <2>2, <2>3, <2>6, <2>7
<1> QED BY <1>2, <1>3

\* And the change to the queue of the other end.
LEMMA HalfHolds == IInv /\ half_done => IInv'
<1> SUFFICES ASSUME IInv, half_done PROVE IInv'
  OBVIOUS
<1> USE DEF IInv
<1>1. TypeOK'
  BY DEF half_done, TypeOK, Sides
<1>2. Standing' /\ QueuesAreTrees' /\ RouteMeets'
  BY DEF half_done, Standing, QueuesAreTrees, Joined, RouteMeets
<1> QED BY <1>1, <1>2

\* And the comparison of the two queues at the end of a round.
LEMMA CompareHolds == IInv /\ compare => IInv'
<1> SUFFICES ASSUME IInv, compare PROVE IInv'
  OBVIOUS
<1> USE DEF IInv
<1>1. \A s \in Sides : Len(q[s]) \in Nat /\ DOMAIN q[s] = 1 .. Len(q[s]) /\ upto[s] \in Nat
  BY DEF TypeOK
<1>0. round < Rounds /\ (pc' = IF round + 1 = Rounds THEN "done" ELSE "take")
  BY DEF compare, LastRound, Standing
<1>2. /\ \/ \E y \in New(0), x \in New(1) :
              Found(y, x) /\ ret' = [s \in Sides |-> IF s = 0 THEN y ELSE x]
         \/ UNCHANGED ret
      /\ upto' = [s \in Sides |-> Len(q[s])] /\ side' = 0 /\ round' = round + 1
      /\ pc' \in {"done", "take"} /\ UNCHANGED <<db, ends, q, cur, w>>
  BY DEF compare
<1>3. RouteMeets'
  <2>1. CASE UNCHANGED ret
    BY <1>2, <2>1 DEF RouteMeets
  <2>2. ASSUME NEW y \in New(0), NEW x \in New(1), Found(y, x),
               ret' = [s \in Sides |-> IF s = 0 THEN y ELSE x]
        PROVE  RouteMeets'
    <3>1. y \in 1 .. Len(q[0]) /\ x \in 1 .. Len(q[1])
      BY <1>1 DEF New, Sides
    <3>2. ret'[0] = y /\ ret'[1] = x
      BY <2>2 DEF Sides
    <3>3. \A s \in Sides : ret'[s] \in DOMAIN q[s]
      BY ONLY <1>1, <3>1, <3>2 DEF Sides
    <3>4. q[0][y].chip = q[1][x].chip
      BY <2>2 DEF Found
    <3>5. q' = q
      BY <1>2
    <3> QED BY ONLY <3>2, <3>3, <3>4, <3>5 DEF RouteMeets
  <2> QED BY <1>2, <2>1, <2>2
<1>4. Standing' /\ QueuesAreTrees'
  BY <1>0, <1>1, <1>2, Bounds DEF TypeOK, Standing, QueuesAreTrees, Joined
<1>5. ret' \in [Sides -> Nat]
  <2>1. New(0) \subseteq Nat /\ New(1) \subseteq Nat
    BY <1>1 DEF New, Sides
  <2> QED BY <1>2, <2>1 DEF TypeOK
<1>6. round' \in 0 .. Rounds /\ upto' \in [Sides -> Nat]
  BY <1>0, <1>1, <1>2, Bounds DEF TypeOK
<1>7. TypeOK'
  BY <1>2, <1>5, <1>6 DEF TypeOK, Sides
<1> QED BY <1>3, <1>4, <1>7

\* So every step of the search preserves the invariant.
LEMMA StepHolds == IInv /\ [Next]_vars => IInv'
<1> SUFFICES ASSUME IInv, [Next]_vars PROVE IInv'
  OBVIOUS
<1>1. CASE UNCHANGED vars
  <2>1. TypeOK'
    BY <1>1 DEF IInv, vars, TypeOK
  <2>2. Standing' /\ QueuesAreTrees'
    BY <1>1 DEF IInv, vars, Standing, QueuesAreTrees, Joined
  <2>3. RouteMeets'
    BY <1>1 DEF IInv, vars, RouteMeets
  <2> QED BY <2>1, <2>2, <2>3 DEF IInv
<1> QED BY <1>1, OpenHolds, IrelHolds, OrelHolds, HalfHolds, CompareHolds DEF Next

----------------------------------------------------------------------------
(* The search keeps to the store: every relation number it holds is null or in the
   store, and every queue entry is a chip. *)
THEOREM TypeCorrect == Spec => []TypeOK
<1>1. IInv => TypeOK
  BY DEF IInv
<1> QED BY <1>1, InitHolds, StepHolds, PTL DEF Spec

(* Whatever the store and the strings asked for, every queue is at every step a tree
   of relations that begins with its string, no chip in it twice. *)
THEOREM QueuesStayTrees == Spec => []QueuesAreTrees
<1>1. IInv => QueuesAreTrees
  BY DEF IInv
<1> QED BY <1>1, InitHolds, StepHolds, PTL DEF Spec

(* The two entries route prints from are the same chip. *)
THEOREM RoutesMeet == Spec => []RouteMeets
<1>1. IInv => RouteMeets
  BY DEF IInv
<1> QED BY <1>1, InitHolds, StepHolds, PTL DEF Spec

----------------------------------------------------------------------------
(* That the search is exact.  Its invariant says what has been reached: *)

ChipsOf(Q) == {Q[e].chip : e \in 1 .. Len(Q)}
Opened == q[side][cur[side]].chip

\* nothing beyond the next ball,
NothingFar == \A s \in Sides : ChipsOf(q[s]) \subseteq Ball(s, round + 1)

\* all that is around the entries already opened,
OpenedWhole ==
    \A s \in Sides : \A e \in 1 .. Len(q[s]) :
      e < cur[s] => Around(db.wire, {q[s][e].chip}) \subseteq ChipsOf(q[s])

\* on a chain, the other ends of its relations before w,
ChainSoFar ==
    /\ pc \in {"irel", "orel"} => Opened \notin Opaque
    /\ \A i \in 1 .. Len(db.wire) :
         /\ pc = "irel" /\ db.wire[i].dst = Opened /\ (w = 0 \/ i < w)
              => db.wire[i].src \in ChipsOf(q[side])
         /\ pc = "orel" /\ db.wire[i].dst = Opened
              => db.wire[i].src \in ChipsOf(q[side])
         /\ pc = "orel" /\ db.wire[i].src = Opened /\ (w = 0 \/ i < w)
              => db.wire[i].dst \in ChipsOf(q[side])

\* and, of a half that is over, all of its range.
HalvesOver ==
    /\ side = 1 \/ pc = "meet" => cur[0] > upto[0]
    /\ pc = "meet" => cur[1] > upto[1]

\* An answer is a middle, and without an answer there has been none.
MiddleAt(d) == Sphere(0, d) \cap Sphere(1, d) # {}
Answered == ret[0] # 0 <=> \E d \in 1 .. round : MiddleAt(d)
WhyDone == pc = "done" => round = Rounds \/ \E s \in Sides : Len(q[s]) >= Stop

Loaded == WholeChains(Len(db.wire), db.wire, db.head)
Reaching ==
    pc # "overrun" =>
      NothingFar /\ OpenedWhole /\ ChainSoFar /\ HalvesOver /\ Answered /\ WhyDone
Searching == Loaded /\ RoundsAreBalls /\ Reaching

----------------------------------------------------------------------------
(* Balls, which BallOf defines by recursion. *)

\* The strings around strings are strings.
LEMMA AroundChips ==
    ASSUME NEW wire  PROVE \A B \in SUBSET Chip : Around(wire, B) \in SUBSET Chip
  BY DEF Around

WithinIs(g, wire, c) ==
    g = [k \in Nat |-> IF k = 0 THEN {c} ELSE g[k - 1] \cup Around(wire, g[k - 1])]

\* There is a function as BallOf describes,
LEMMA WithinExists ==
    ASSUME NEW wire, NEW c \in Chip  PROVE \E g : WithinIs(g, wire, c)
<1> DEFINE X == SUBSET Chip
           E == [B \in X |-> B \cup Around(wire, B)]
<1>1. {c} \in X
  OBVIOUS
<1>2. E \in [X -> X]
  BY AroundChips
<1>3. \A B \in X : E[B] = B \cup Around(wire, B)
  OBVIOUS
<1> HIDE DEF X, E
<1>4. PICK g \in [Nat -> X] : RecursOn(g, {c}, E)
  BY <1>1, <1>2, RecursionOnNat
<1>5. ASSUME NEW k \in Nat
      PROVE  g[k] = IF k = 0 THEN {c} ELSE g[k - 1] \cup Around(wire, g[k - 1])
  <2>1. g[k] = IF k = 0 THEN {c} ELSE E[g[k - 1]]
    BY <1>4 DEF RecursOn
  <2>2. k # 0 => g[k - 1] \in X
    BY <1>4
  <2> QED BY <1>3, <2>1, <2>2
<1>6. g = [k \in Nat |-> g[k]]
  BY <1>4
<1>7. WithinIs(g, wire, c)
  BY <1>5, <1>6, Zenon DEF WithinIs
<1> QED BY <1>7

\* so balls are what their recursion says: round 0 is the chip alone, and each round adds
\* what is around the round before.
LEMMA BallsGrow ==
    ASSUME NEW wire, NEW c \in Chip
    PROVE  /\ BallOf(wire, c, 0) = {c}
           /\ \A d \in Nat : BallOf(wire, c, d + 1)
                               = BallOf(wire, c, d) \cup Around(wire, BallOf(wire, c, d))
<1> DEFINE g == CHOOSE g : WithinIs(g, wire, c)
<1>1. WithinIs(g, wire, c)
  BY WithinExists, Zenon
<1>2. \A d : BallOf(wire, c, d) = g[d]
  BY Zenon DEF BallOf, WithinIs
<1> HIDE DEF g
<1>3. ASSUME NEW d \in Nat
      PROVE  g[d] = IF d = 0 THEN {c} ELSE g[d - 1] \cup Around(wire, g[d - 1])
  BY <1>1 DEF WithinIs
<1>4. g[0] = {c}
  BY <1>3
<1>5. ASSUME NEW d \in Nat  PROVE g[d + 1] = g[d] \cup Around(wire, g[d])
  <2>1. d + 1 \in Nat /\ d + 1 # 0 /\ (d + 1) - 1 = d
    OBVIOUS
  <2> QED BY <1>3, <2>1
<1> QED BY <1>2, <1>4, <1>5

----------------------------------------------------------------------------
(* One lemma per action again. *)

\* Balls depend on the store and the strings alone.
LEMMA BallsStay ==
    ASSUME UNCHANGED <<db, ends>>
    PROVE  \A d : /\ \A s \in Sides : Ball(s, d)' = Ball(s, d)
                  /\ MiddleAt(d)' <=> MiddleAt(d)
<1>1. db' = db /\ ends' = ends
  OBVIOUS
<1>2. ASSUME NEW d, NEW s \in Sides  PROVE Ball(s, d)' = Ball(s, d)
  BY <1>1, Zenon DEF Ball
<1>3. ASSUME NEW d, NEW s \in Sides  PROVE Sphere(s, d)' = Sphere(s, d)
  BY <1>1, Zenon DEF Ball, Sphere
<1>4. 0 \in Sides /\ 1 \in Sides
  BY DEF Sides
<1> QED BY <1>2, <1>3, <1>4, Zenon DEF MiddleAt

\* The queues as sequences, their entries as chips.
LEMMA QueueTypes ==
    ASSUME TypeOK, NEW s \in Sides
    PROVE  /\ q[s] \in Seq(Entry) /\ Len(q[s]) \in Nat /\ DOMAIN q[s] = 1 .. Len(q[s])
           /\ cur[s] \in Nat \ {0} /\ upto[s] \in Nat /\ ends[s] \in Chip
           /\ \A e \in 1 .. Len(q[s]) : q[s][e].chip \in Chip
<1>1. /\ q[s] \in Seq(Entry) /\ cur[s] \in Nat \ {0} /\ upto[s] \in Nat
      /\ ends[s] \in Named
  BY DEF TypeOK, Entry
<1>2. \A e \in 1 .. Len(q[s]) : q[s][e] \in Entry
  BY <1>1
<1> QED BY <1>1, <1>2, NamedChips DEF Entry

\* At the start each queue holds the ball of radius 0 of its end.
LEMMA InitSearches == Init => Searching
<1> SUFFICES ASSUME Init PROVE Searching
  OBVIOUS
<1>1. Loaded
  BY DatabasesWhole DEF Init, Loaded
<1>2. /\ q = [s \in Sides |-> <<[chip |-> ends[s], parent |-> 1]>>]
      /\ upto = [s \in Sides |-> 1] /\ cur = [s \in Sides |-> 1]
      /\ side = 0 /\ round = 0 /\ pc = "take" /\ ret = [s \in Sides |-> 0]
  BY DEF Init
<1>3. ASSUME NEW s \in Sides
      PROVE  /\ ends[s] \in Chip /\ Len(q[s]) = 1 /\ q[s][1].chip = ends[s]
             /\ upto[s] = 1 /\ cur[s] = 1 /\ ret[s] = 0
  BY <1>2, NamedChips DEF Init
<1>4. ASSUME NEW s \in Sides
      PROVE  Ball(s, 0) = {ends[s]} /\ Ball(s, 0) \subseteq Ball(s, 1)
  <2>1. /\ BallOf(db.wire, ends[s], 0) = {ends[s]}
        /\ \A d \in Nat : BallOf(db.wire, ends[s], d + 1)
             = BallOf(db.wire, ends[s], d) \cup Around(db.wire, BallOf(db.wire, ends[s], d))
    BY <1>3, BallsGrow
  <2>2. BallOf(db.wire, ends[s], 0 + 1) = BallOf(db.wire, ends[s], 1)
    OBVIOUS
  <2> QED BY <2>1, <2>2 DEF Ball
<1>5. ASSUME NEW s \in Sides
      PROVE  {q[s][e].chip : e \in 1 .. upto[s]} = {ends[s]} /\ ChipsOf(q[s]) = {ends[s]}
  BY <1>3 DEF ChipsOf
<1>6. RoundsAreBalls
  BY <1>2, <1>4, <1>5 DEF RoundsAreBalls
<1>7. NothingFar
  BY <1>2, <1>4, <1>5 DEF NothingFar
<1>8. OpenedWhole
  BY <1>3 DEF OpenedWhole
<1>9. ChainSoFar /\ HalvesOver /\ WhyDone
  BY <1>2 DEF ChainSoFar, HalvesOver, WhyDone
<1>10. Answered
  <2>1. ret[0] = 0
    BY <1>3 DEF Sides
  <2>2. 1 .. round = {}
    BY <1>2
  <2> QED BY <2>1, <2>2 DEF Answered
<1> QED BY <1>1, <1>6, <1>7, <1>8, <1>9, <1>10 DEF Searching, Reaching

\* What a step that leaves the queues and the rounds alone leaves alone.
LEMMA NothingNew ==
    ASSUME Searching, pc # "overrun", UNCHANGED <<db, ends, q, upto, round, ret>>
    PROVE  Loaded' /\ RoundsAreBalls' /\ NothingFar' /\ Answered'
<1>1. Loaded'
  BY DEF Searching, Loaded
<1>2. /\ RoundsAreBalls /\ NothingFar /\ Answered
  BY DEF Searching, Reaching
<1>3. RoundsAreBalls' /\ NothingFar'
  BY <1>2, BallsStay DEF RoundsAreBalls, NothingFar
<1>4. Answered'
  BY <1>2, BallsStay DEF Answered
<1> QED BY <1>1, <1>3, <1>4

\* What the queues hold of the balls stays true when an entry is opened,
LEMMA OpenSearches == IInv /\ Searching /\ open_entry => Searching'
<1> SUFFICES ASSUME IInv, Searching, open_entry PROVE Searching'
  OBVIOUS
<1> USE DEF IInv
<1>1. /\ pc = "take" /\ cur[side] <= upto[side]
      /\ UNCHANGED <<db, ends, q, upto, side, round, ret>>
  BY DEF open_entry
<1>2. /\ Loaded' /\ RoundsAreBalls' /\ NothingFar' /\ Answered'
      /\ OpenedWhole /\ HalvesOver /\ Loaded
  BY <1>1, NothingNew DEF Searching, Reaching
<1>3. /\ cur[side] \in 1 .. Len(q[side]) /\ side \in Sides /\ Opened \in Chip
  BY <1>1, OnTheQueue DEF Opened
<1>4. CASE Opened \in Opaque
  <2>1. cur' = [cur EXCEPT ![side] = cur[side] + 1] /\ pc' = pc
    BY <1>4 DEF open_entry, Opened
  <2>2. Around(db.wire, {Opened}) = {}
    BY <1>4 DEF Around
  <2>3. OpenedWhole'
    <3> SUFFICES ASSUME NEW s \in Sides, NEW e \in 1 .. Len(q[s]), e < cur'[s]
                 PROVE  Around(db.wire, {q[s][e].chip}) \subseteq ChipsOf(q[s])
      BY <1>1 DEF OpenedWhole
    <3>1. cur[s] \in Nat /\ cur \in [Sides -> Nat \ {0}] /\ Len(q[s]) \in Nat
      BY QueueTypes DEF TypeOK
    <3>2. e < cur[s] \/ (s = side /\ e = cur[side])
      BY <1>3, <2>1, <3>1
    <3>3. CASE s = side /\ e = cur[side]
      BY <2>2, <3>3 DEF Opened
    <3> QED BY <1>2, <3>2, <3>3 DEF OpenedWhole
  <2>4. HalvesOver'
    <3>1. side # 1 => side = 0
      BY <1>3 DEF Sides
    <3>2. 0 \in Sides /\ cur[0] \in Nat /\ cur \in [Sides -> Nat \ {0}] /\ upto[0] \in Nat
      BY QueueTypes DEF Sides, TypeOK
    <3>3. side = 1 => cur[0] > upto[0] /\ cur'[0] = cur[0]
      BY <1>2, <2>1, <3>2 DEF HalvesOver
    <3> QED BY <1>1, <2>1, <3>3 DEF HalvesOver
  <2>5. ChainSoFar' /\ WhyDone'
    BY <1>1, <2>1 DEF ChainSoFar, WhyDone
  <2> QED BY <1>2, <2>3, <2>4, <2>5 DEF Searching, Reaching
<1>5. CASE Opened \notin Opaque
  <2>1. w' = db.head[Opened].irel0 /\ pc' = "irel" /\ cur' = cur
    BY <1>5 DEF open_entry, Opened
  <2>2. OpenedWhole' /\ HalvesOver' /\ WhyDone'
    BY <1>1, <1>2, <2>1 DEF OpenedWhole, HalvesOver, WhyDone
  <2>3. ASSUME NEW i \in 1 .. Len(db.wire), db.wire[i].dst = Opened
        PROVE  w' # 0 /\ ~(i < w')
    <3>1. db.head[Opened].irel0 \in 1 .. i
      BY <1>2, <2>3 DEF Loaded, WholeChains
    <3> QED BY <2>1, <3>1
  <2>4. Opened' = Opened
    BY <1>1, <2>1 DEF Opened
  <2>5. ChainSoFar'
    BY <1>1, <1>5, <2>1, <2>3, <2>4 DEF ChainSoFar
  <2> QED BY <1>2, <2>2, <2>5 DEF Searching, Reaching
<1> QED BY <1>4, <1>5

\* route_add puts the chip on the queue it extends, and nothing else on any.
LEMMA AddReaches ==
    ASSUME TypeOK, side \in Sides, NEW c \in Chip, route_add(c),
           pc # "overrun", pc' # "overrun"
    PROVE  /\ pc' = pc
           /\ ChipsOf(q'[side]) = ChipsOf(q[side]) \cup {c}
           /\ \A s \in Sides \ {side} : q'[s] = q[s]
           /\ Len(q'[side]) \in {Len(q[side]), Len(q[side]) + 1}
           /\ \A e \in 1 .. Len(q[side]) : q'[side][e] = q[side][e]
<1>1. /\ q[side] \in Seq(Entry) /\ Len(q[side]) \in Nat
      /\ DOMAIN q[side] = 1 .. Len(q[side]) /\ q \in [Sides -> Seq(Entry)]
  BY QueueTypes DEF TypeOK, Entry
<1>2. CASE (\E e \in DOMAIN q[side] : q[side][e].chip = c) /\ UNCHANGED <<q, pc>>
  BY <1>1, <1>2 DEF ChipsOf
<1>3. CASE /\ q' = [q EXCEPT ![side] = Append(@, [chip |-> c, parent |-> cur[side]])]
           /\ pc' = pc
  <2> DEFINE Q == q[side]
             R == q'[side]
             n == Len(Q)
  <2>1. R = Append(Q, [chip |-> c, parent |-> cur[side]])
    BY <1>1, <1>3
  <2>2. Len(R) = n + 1 /\ (\A e \in 1 .. n : R[e] = Q[e]) /\ R[n + 1].chip = c
    BY <1>1, <2>1
  <2>3. \A s \in Sides \ {side} : q'[s] = q[s]
    BY <1>1, <1>3
  <2>4. n \in Nat
    BY <1>1
  <2> HIDE DEF Q, R, n
  <2>5. ChipsOf(R) = ChipsOf(Q) \cup {c}
    <3>1. \A e \in 1 .. n : e \in 1 .. n + 1
      BY <2>4
    <3>2. n + 1 \in 1 .. n + 1 /\ \A e \in 1 .. n + 1 : e = n + 1 \/ e \in 1 .. n
      BY <2>4
    <3> QED BY <2>2, <3>1, <3>2 DEF ChipsOf, n
  <2> QED BY <1>3, <2>2, <2>3, <2>5 DEF Q, R, n
<1> QED BY <1>2, <1>3 DEF route_add

\* A step along a chain finds nothing beyond the ball being found.
LEMMA AddSearches ==
    ASSUME IInv, Searching, pc \in {"irel", "orel"}, NEW c \in Chip,
           Joined(Opened, c), route_add(c), pc' # "overrun",
           UNCHANGED <<db, ends, cur, upto, side, round, ret>>
    PROVE  /\ Loaded' /\ RoundsAreBalls' /\ NothingFar' /\ OpenedWhole'
           /\ HalvesOver' /\ Answered' /\ WhyDone'
           /\ pc' = pc /\ Opened' = Opened /\ Opened \notin Opaque
           /\ ChipsOf(q'[side]) = ChipsOf(q[side]) \cup {c}
<1> USE DEF IInv
<1>1. /\ cur[side] \in 1 .. Len(q[side]) /\ side \in Sides /\ Opened \in Chip
      /\ cur[side] \in 1 .. upto[side] /\ pc # "overrun"
  <2>1. cur[side] <= upto[side]
    BY DEF Standing
  <2>2. cur[side] \in 1 .. Len(q[side]) /\ side \in Sides /\ Opened \in Chip
    BY <2>1, OnTheQueue DEF Opened
  <2>3. upto[side] \in Nat /\ Len(q[side]) \in Nat
    BY <2>2, QueueTypes
  <2> QED BY <2>1, <2>2, <2>3
<1>2. /\ pc' = pc
      /\ ChipsOf(q'[side]) = ChipsOf(q[side]) \cup {c}
      /\ \A s \in Sides \ {side} : q'[s] = q[s]
      /\ Len(q'[side]) \in {Len(q[side]), Len(q[side]) + 1}
      /\ \A e \in 1 .. Len(q[side]) : q'[side][e] = q[side][e]
  BY <1>1, AddReaches
<1>3. /\ RoundsAreBalls /\ NothingFar /\ OpenedWhole /\ ChainSoFar /\ HalvesOver
      /\ Answered /\ Loaded
  BY <1>1 DEF Searching, Reaching
<1>4. \A s \in Sides : /\ \A e \in 1 .. Len(q[s]) : q'[s][e] = q[s][e]
                       /\ ChipsOf(q[s]) \subseteq ChipsOf(q'[s])
                       /\ upto[s] \in Nat /\ Len(q[s]) \in Nat /\ upto[s] <= Len(q[s])
                       /\ cur[s] \in Nat
  BY <1>2, QueueTypes, Zenon DEF Standing
<1>5. RoundsAreBalls'
  <2> SUFFICES ASSUME NEW s \in Sides
               PROVE  {q'[s][e].chip : e \in 1 .. upto[s]} = Ball(s, round)
    BY BallsStay DEF RoundsAreBalls
  <2>1. \A e \in 1 .. upto[s] : q'[s][e] = q[s][e]
    BY <1>4
  <2>2. {q'[s][e].chip : e \in 1 .. upto[s]} = {q[s][e].chip : e \in 1 .. upto[s]}
    BY <2>1
  <2> QED BY <1>1, <1>3, <2>2 DEF RoundsAreBalls
<1>6. Opened \in Ball(side, round)
  <2>1. Opened \in {q[side][e].chip : e \in 1 .. upto[side]}
    BY <1>1 DEF Opened
  <2> QED BY <1>1, <1>3, <2>1 DEF RoundsAreBalls
<1>7. Opened \notin Opaque
  BY <1>3 DEF ChainSoFar
<1>8. c \in Ball(side, round + 1)
  <2>1. ends[side] \in Chip /\ round \in Nat
    <3>1. ends[side] \in Chip
      BY <1>1, QueueTypes
    <3>2. round \in Nat
      BY Bounds DEF TypeOK
    <3> QED BY <3>1, <3>2
  <2>2. Ball(side, round + 1) = Ball(side, round) \cup Around(db.wire, Ball(side, round))
    BY <2>1, BallsGrow DEF Ball
  <2>3. c \in Around(db.wire, Ball(side, round))
    BY <1>6, <1>7 DEF Around, Joined
  <2> QED BY <2>2, <2>3
<1>9. NothingFar'
  <2> SUFFICES ASSUME NEW s \in Sides
               PROVE  ChipsOf(q'[s]) \subseteq Ball(s, round + 1)
    BY BallsStay DEF NothingFar
  <2> QED BY <1>2, <1>3, <1>8 DEF NothingFar
<1>10. OpenedWhole'
  <2> SUFFICES ASSUME NEW s \in Sides, NEW e \in 1 .. Len(q'[s]), e < cur[s]
               PROVE  Around(db.wire, {q'[s][e].chip}) \subseteq ChipsOf(q'[s])
    BY DEF OpenedWhole
  <2>1. e \in 1 .. Len(q[s])
    BY <1>1, <1>2, <1>4
  <2>2. q'[s][e] = q[s][e] /\ Around(db.wire, {q[s][e].chip}) \subseteq ChipsOf(q[s])
    BY <1>3, <1>4, <2>1 DEF OpenedWhole
  <2> QED BY <1>4, <2>2
<1>11. Opened' = Opened
  BY <1>1, <1>2 DEF Opened
<1>12. HalvesOver' /\ WhyDone' /\ Loaded'
  BY <1>2, <1>3 DEF HalvesOver, WhyDone, Loaded
<1>13. Answered'
  BY <1>3, BallsStay DEF Answered
<1> QED BY <1>2, <1>5, <1>7, <1>9, <1>10, <1>11, <1>12, <1>13

\* when an incoming relation is followed,
LEMMA IrelSearches == IInv /\ Searching /\ follow_irel => Searching'
<1> SUFFICES ASSUME IInv, Searching, follow_irel PROVE Searching'
  OBVIOUS
<1> SUFFICES ASSUME pc' # "overrun" PROVE Searching'
  <2>1. Loaded'
    BY DEF follow_irel, Searching, Loaded
  <2> QED BY <2>1 DEF Searching, RoundsAreBalls, Reaching
<1> USE DEF IInv
<1>1. /\ pc = "irel" /\ UNCHANGED <<db, ends, cur, upto, side, round, ret>>
      /\ OpenedWhole /\ ChainSoFar /\ HalvesOver /\ Loaded
  BY DEF follow_irel, Searching, Reaching
<1>2. /\ cur[side] \in 1 .. Len(q[side]) /\ side \in Sides /\ Opened \in Chip
  BY <1>1, OnTheQueue DEF Opened, Standing
<1>3. CASE w = 0
  <2>1. w' = db.head[Opened].orel0 /\ pc' = "orel" /\ q' = q
    BY <1>3 DEF follow_irel, Opened
  <2>2. Loaded' /\ RoundsAreBalls' /\ NothingFar' /\ Answered'
    BY <1>1, <2>1, NothingNew
  <2>3. OpenedWhole' /\ HalvesOver' /\ WhyDone'
    BY <1>1, <2>1 DEF OpenedWhole, HalvesOver, WhyDone
  <2>4. ASSUME NEW i \in 1 .. Len(db.wire), db.wire[i].src = Opened
        PROVE  w' # 0 /\ ~(i < w')
    <3>1. db.head[Opened].orel0 \in 1 .. i
      BY <1>1, <2>4 DEF Loaded, WholeChains
    <3> QED BY <2>1, <3>1
  <2>5. Opened' = Opened
    BY <1>1, <2>1 DEF Opened
  <2>6. ChainSoFar'
    BY <1>1, <1>3, <2>1, <2>4, <2>5 DEF ChainSoFar
  <2> QED BY <2>2, <2>3, <2>6 DEF Searching, Reaching
<1>4. CASE w # 0
  <2> DEFINE c == db.wire[w].src
  <2>1. w' = db.wire[w].samedstnextsrc /\ route_add(c) /\ db.wire[w].dst = Opened
    BY <1>1, <1>4 DEF follow_irel, Standing, Opened
  <2>2. c \in Chip /\ Joined(Opened, c) /\ w \in 1 .. Len(db.wire)
    <3>1. w \in 1 .. Len(db.wire)
      BY <1>4 DEF TypeOK, Home
    <3>2. c \in Chip /\ Joined(db.wire[w].dst, c)
      BY <1>4, OnTheChain
    <3> QED BY <2>1, <3>1, <3>2
  <2>3. /\ Loaded' /\ RoundsAreBalls' /\ NothingFar' /\ OpenedWhole'
        /\ HalvesOver' /\ Answered' /\ WhyDone'
        /\ pc' = pc /\ Opened' = Opened /\ Opened \notin Opaque
        /\ ChipsOf(q'[side]) = ChipsOf(q[side]) \cup {c}
    <3> HIDE DEF c
    <3> QED BY <1>1, <2>1, <2>2, AddSearches
  <2>4. ASSUME NEW i \in 1 .. Len(db.wire), db.wire[i].dst = Opened, w' = 0 \/ i < w'
        PROVE  db.wire[i].src \in ChipsOf(q'[side])
    <3>1. CASE i > w
      <4>1. i \in w + 1 .. Len(db.wire)
        BY <2>2, <3>1
      <4>2. db.wire[w].samedstnextsrc \in 1 .. i
        BY <1>1, <2>1, <2>2, <2>4, <4>1, Zenon DEF Loaded, WholeChains
      <4> QED BY <2>1, <2>4, <4>2
    <3>2. CASE i = w
      BY <2>3, <3>2
    <3>3. CASE i < w
      BY <1>1, <2>3, <2>4, <3>3 DEF ChainSoFar
    <3> QED BY <2>2, <3>1, <3>2, <3>3
  <2>5. ChainSoFar'
    BY <1>1, <2>3, <2>4 DEF ChainSoFar
  <2> QED BY <2>3, <2>5 DEF Searching, Reaching
<1> QED BY <1>3, <1>4

\* when an outgoing one is,
LEMMA OrelSearches == IInv /\ Searching /\ follow_orel => Searching'
<1> SUFFICES ASSUME IInv, Searching, follow_orel PROVE Searching'
  OBVIOUS
<1> SUFFICES ASSUME pc' # "overrun" PROVE Searching'
  <2>1. Loaded'
    BY DEF follow_orel, Searching, Loaded
  <2> QED BY <2>1 DEF Searching, RoundsAreBalls, Reaching
<1> USE DEF IInv
<1>1. /\ pc = "orel" /\ UNCHANGED <<db, ends, upto, side, round, ret>>
      /\ OpenedWhole /\ ChainSoFar /\ HalvesOver /\ Loaded
  BY DEF follow_orel, Searching, Reaching
<1>2. /\ cur[side] \in 1 .. Len(q[side]) /\ side \in Sides /\ Opened \in Chip
  BY <1>1, OnTheQueue DEF Opened, Standing
<1>3. CASE w = 0
  <2>1. cur' = [cur EXCEPT ![side] = cur[side] + 1] /\ pc' = "take" /\ q' = q
    BY <1>3 DEF follow_orel
  <2>2. Loaded' /\ RoundsAreBalls' /\ NothingFar' /\ Answered'
    BY <1>1, <2>1, NothingNew
  <2>3. Around(db.wire, {Opened}) \subseteq ChipsOf(q[side])
    <3> SUFFICES ASSUME NEW c \in Chip, NEW i \in DOMAIN db.wire,
                        \/ db.wire[i].src = Opened /\ db.wire[i].dst = c
                        \/ db.wire[i].src = c /\ db.wire[i].dst = Opened
                 PROVE  c \in ChipsOf(q[side])
      BY DEF Around, JoinedBy
    <3>1. i \in 1 .. Len(db.wire)
      BY DEF TypeOK, Home, HomeChains
    <3> QED BY <1>1, <1>3, <3>1 DEF ChainSoFar
  <2>4. OpenedWhole'
    <3> SUFFICES ASSUME NEW s \in Sides, NEW e \in 1 .. Len(q[s]), e < cur'[s]
                 PROVE  Around(db.wire, {q[s][e].chip}) \subseteq ChipsOf(q[s])
      BY <1>1, <2>1 DEF OpenedWhole
    <3>1. cur[s] \in Nat /\ cur \in [Sides -> Nat \ {0}] /\ Len(q[s]) \in Nat
      BY QueueTypes DEF TypeOK
    <3>2. e < cur[s] \/ (s = side /\ e = cur[side])
      BY <1>2, <2>1, <3>1
    <3>3. CASE s = side /\ e = cur[side]
      BY <2>3, <3>3 DEF Opened
    <3> QED BY <1>1, <3>2, <3>3 DEF OpenedWhole
  <2>5. HalvesOver'
    <3>1. 0 \in Sides /\ cur \in [Sides -> Nat \ {0}]
      BY DEF Sides, TypeOK
    <3>2. side = 1 => cur[0] > upto[0] /\ cur'[0] = cur[0]
      BY <1>1, <2>1, <3>1 DEF HalvesOver
    <3> QED BY <1>1, <2>1, <3>2 DEF HalvesOver
  <2>6. ChainSoFar' /\ WhyDone'
    BY <1>1, <2>1 DEF ChainSoFar, WhyDone
  <2> QED BY <2>2, <2>4, <2>5, <2>6 DEF Searching, Reaching
<1>4. CASE w # 0
  <2> DEFINE c == db.wire[w].dst
  <2>1. /\ w' = db.wire[w].samesrcnextdst /\ route_add(c) /\ db.wire[w].src = Opened
        /\ cur' = cur
    BY <1>1, <1>4 DEF follow_orel, Standing, Opened
  <2>2. c \in Chip /\ Joined(Opened, c) /\ w \in 1 .. Len(db.wire)
    <3>1. w \in 1 .. Len(db.wire)
      BY <1>4 DEF TypeOK, Home
    <3>2. c \in Chip /\ Joined(db.wire[w].src, c)
      BY <1>4, OnTheChain
    <3> QED BY <2>1, <3>1, <3>2
  <2>3. /\ Loaded' /\ RoundsAreBalls' /\ NothingFar' /\ OpenedWhole'
        /\ HalvesOver' /\ Answered' /\ WhyDone'
        /\ pc' = pc /\ Opened' = Opened /\ Opened \notin Opaque
        /\ ChipsOf(q'[side]) = ChipsOf(q[side]) \cup {c}
    <3> HIDE DEF c
    <3> QED BY <1>1, <2>1, <2>2, AddSearches
  <2>4. ASSUME NEW i \in 1 .. Len(db.wire), db.wire[i].src = Opened, w' = 0 \/ i < w'
        PROVE  db.wire[i].dst \in ChipsOf(q'[side])
    <3>1. CASE i > w
      <4>1. i \in w + 1 .. Len(db.wire)
        BY <2>2, <3>1
      <4>2. db.wire[w].samesrcnextdst \in 1 .. i
        BY <1>1, <2>1, <2>2, <2>4, <4>1, Zenon DEF Loaded, WholeChains
      <4> QED BY <2>1, <2>4, <4>2
    <3>2. CASE i = w
      BY <2>3, <3>2
    <3>3. CASE i < w
      BY <1>1, <2>3, <2>4, <3>3 DEF ChainSoFar
    <3> QED BY <2>2, <3>1, <3>2, <3>3
  <2>5. ChainSoFar'
    BY <1>1, <2>3, <2>4 DEF ChainSoFar
  <2> QED BY <2>3, <2>5 DEF Searching, Reaching
<1> QED BY <1>3, <1>4

\* when the queue of one end has had its round,
LEMMA HalfSearches == IInv /\ Searching /\ half_done => Searching'
<1> SUFFICES ASSUME IInv, Searching, half_done PROVE Searching'
  OBVIOUS
<1> USE DEF IInv
<1>1. /\ pc = "take" /\ cur[side] > upto[side]
      /\ UNCHANGED <<db, ends, q, cur, upto, w, round, ret>>
      /\ OpenedWhole /\ HalvesOver
  BY DEF half_done, Searching, Reaching
<1>2. \/ Len(q[side]) >= Stop /\ pc' = "done" /\ side' = side
      \/ side = 0 /\ side' = 1 /\ pc' = pc
      \/ side # 0 /\ side' = side /\ pc' = "meet"
  BY DEF half_done
<1>3. Loaded' /\ RoundsAreBalls' /\ NothingFar' /\ Answered'
  BY <1>1, NothingNew
<1>4. side = 0 \/ side = 1
  BY DEF TypeOK, Sides
<1>5. OpenedWhole' /\ HalvesOver'
  BY <1>1, <1>2, <1>4 DEF OpenedWhole, HalvesOver
<1>6. ChainSoFar' /\ WhyDone'
  BY <1>1, <1>2, <1>4 DEF ChainSoFar, WhyDone, Sides
<1> QED BY <1>3, <1>5, <1>6 DEF Searching, Reaching

\* When both halves are over, the queues are the next balls, and what the round
\* added to them the next spheres.
LEMMA NextBalls ==
    ASSUME IInv, Searching, pc = "meet", NEW s \in Sides
    PROVE  /\ ChipsOf(q[s]) = Ball(s, round + 1)
           /\ Ball(s, round + 1) \subseteq Ball(s, (round + 1) + 1)
           /\ Sphere(s, round + 1) = {q[s][e].chip : e \in New(s)}
           /\ New(s) \subseteq 1 .. Len(q[s]) /\ \A e \in New(s) : e > 0
<1> USE DEF IInv
<1>1. RoundsAreBalls /\ NothingFar /\ OpenedWhole /\ HalvesOver
  BY DEF Searching, Reaching
<1>2. /\ upto[s] \in Nat /\ cur[s] \in Nat /\ Len(q[s]) \in Nat /\ upto[s] <= Len(q[s])
      /\ ends[s] \in Chip /\ cur[s] > upto[s] /\ DOMAIN q[s] = 1 .. Len(q[s])
  BY <1>1, QueueTypes DEF Standing, HalvesOver, Sides
<1>3. round \in Nat /\ round + 1 \in Nat /\ round + 1 # 0 /\ (round + 1) - 1 = round
  BY Bounds DEF TypeOK
<1>4. \A d \in Nat : Ball(s, d + 1) = Ball(s, d) \cup Around(db.wire, Ball(s, d))
  BY <1>2, BallsGrow DEF Ball
<1>5. Ball(s, round) = {q[s][e].chip : e \in 1 .. upto[s]}
  BY <1>1 DEF RoundsAreBalls
<1>6. Ball(s, round) \subseteq ChipsOf(q[s])
  BY <1>2, <1>5 DEF ChipsOf
<1>7. ASSUME NEW x \in Around(db.wire, Ball(s, round))  PROVE x \in ChipsOf(q[s])
  <2>1. PICK b \in Ball(s, round) : x \in Around(db.wire, {b})
    BY DEF Around
  <2>2. PICK e \in 1 .. upto[s] : b = q[s][e].chip
    BY <1>5
  <2>3. e \in 1 .. Len(q[s]) /\ e < cur[s]
    BY <1>2
  <2> QED BY <1>1, <2>1, <2>2, <2>3 DEF OpenedWhole
<1>8. ChipsOf(q[s]) = Ball(s, round + 1)
  <2>1. ChipsOf(q[s]) \subseteq Ball(s, round + 1)
    BY <1>1 DEF NothingFar
  <2>2. Ball(s, round + 1) = Ball(s, round) \cup Around(db.wire, Ball(s, round))
    BY <1>3, <1>4
  <2> QED BY <1>6, <1>7, <2>1, <2>2
<1>9. Sphere(s, round + 1) = ChipsOf(q[s]) \ {q[s][e].chip : e \in 1 .. upto[s]}
  BY <1>3, <1>5, <1>8 DEF Sphere
<1>10. \A e, f \in 1 .. Len(q[s]) : q[s][e].chip = q[s][f].chip => e = f
  BY <1>2 DEF QueuesAreTrees
<1>11. /\ New(s) \subseteq 1 .. Len(q[s]) /\ \A e \in New(s) : e > 0
       /\ \A e \in 1 .. Len(q[s]) : e \in New(s) <=> e \notin 1 .. upto[s]
       /\ 1 .. upto[s] \subseteq 1 .. Len(q[s])
  BY <1>2 DEF New
<1>12. Sphere(s, round + 1) = {q[s][e].chip : e \in New(s)}
  <2>1. ASSUME NEW e \in New(s)  PROVE q[s][e].chip \in Sphere(s, round + 1)
    BY <1>9, <1>10, <1>11, <2>1 DEF ChipsOf
  <2>2. ASSUME NEW x \in Sphere(s, round + 1)  PROVE \E e \in New(s) : x = q[s][e].chip
    <3>1. PICK e \in 1 .. Len(q[s]) : x = q[s][e].chip
      BY <1>9 DEF ChipsOf
    <3>2. e \notin 1 .. upto[s]
      BY <1>9, <3>1
    <3> QED BY <1>11, <3>1, <3>2
  <2> QED BY <2>1, <2>2
<1>13. Ball(s, round + 1) \subseteq Ball(s, (round + 1) + 1)
  BY <1>3, <1>4
<1> QED BY <1>8, <1>11, <1>12, <1>13

\* and when both have, and are compared.
LEMMA CompareSearches == IInv /\ Searching /\ compare => Searching'
<1> SUFFICES ASSUME IInv, Searching, compare PROVE Searching'
  OBVIOUS
<1>1. /\ pc = "meet" /\ pc' \in {"done", "take"}
      /\ upto' = [s \in Sides |-> Len(q[s])] /\ side' = 0 /\ round' = round + 1
      /\ UNCHANGED <<db, ends, q, cur, w>>
      /\ pc' = "done" => round + 1 = Rounds
  BY DEF compare, LastRound
<1>2. OpenedWhole /\ HalvesOver /\ Loaded /\ Answered
  BY <1>1 DEF Searching, Reaching
<1>3. \A s \in Sides : /\ ChipsOf(q[s]) = Ball(s, round + 1)
                       /\ Ball(s, round + 1) \subseteq Ball(s, (round + 1) + 1)
                       /\ Sphere(s, round + 1) = {q[s][e].chip : e \in New(s)}
                       /\ New(s) \subseteq 1 .. Len(q[s]) /\ \A e \in New(s) : e > 0
  BY <1>1, NextBalls
<1>4. RoundsAreBalls'
  <2> SUFFICES ASSUME NEW s \in Sides
               PROVE  {q'[s][e].chip : e \in 1 .. upto'[s]} = Ball(s, round + 1)
    BY <1>1, BallsStay DEF RoundsAreBalls
  <2>1. q'[s] = q[s] /\ upto'[s] = Len(q[s])
    BY <1>1
  <2> QED BY <1>3, <2>1 DEF ChipsOf
<1>5. NothingFar'
  BY <1>1, <1>3, BallsStay DEF NothingFar
<1>6. OpenedWhole' /\ ChainSoFar' /\ HalvesOver' /\ WhyDone' /\ Loaded'
  <2>1. OpenedWhole' /\ Loaded'
    BY <1>1, <1>2 DEF OpenedWhole, Loaded
  <2>2. ChainSoFar' /\ HalvesOver' /\ WhyDone'
    BY <1>1 DEF ChainSoFar, HalvesOver, WhyDone
  <2> QED BY <2>1, <2>2
<1>7. MiddleAt(round + 1) <=> \E y \in New(0), x \in New(1) : Found(y, x)
  <2>1. /\ Sphere(0, round + 1) = {q[0][e].chip : e \in New(0)}
        /\ Sphere(1, round + 1) = {q[1][e].chip : e \in New(1)}
    BY <1>3 DEF Sides
  <2>2. MiddleAt(round + 1) <=> \E c : c \in Sphere(0, round + 1) /\ c \in Sphere(1, round + 1)
    BY ONLY DEF MiddleAt
  <2>3. (\E c : c \in Sphere(0, round + 1) /\ c \in Sphere(1, round + 1))
        <=> \E y \in New(0), x \in New(1) : q[0][y].chip = q[1][x].chip
    BY ONLY <2>1
  <2> QED BY ONLY <2>2, <2>3 DEF Found
<1>8. round \in Nat
  BY Bounds DEF IInv, TypeOK
<1>9. Answered'
  <2> DEFINE Before == \E d \in 1 .. round : MiddleAt(d)
             Now == \E d \in 1 .. round + 1 : MiddleAt(d)
  <2>1. Answered' <=> (ret'[0] # 0 <=> Now)
    BY <1>1, BallsStay, Zenon DEF Answered
  <2>2. Now <=> Before \/ MiddleAt(round + 1)
    BY <1>8
  <2>3. CASE \E y \in New(0), x \in New(1) :
               Found(y, x) /\ ret' = [s \in Sides |-> IF s = 0 THEN y ELSE x]
    <3>1. ret'[0] # 0
      BY <1>3, <2>3 DEF Sides
    <3> QED BY <1>7, <2>1, <2>2, <2>3, <3>1
  <2>4. CASE (\A y \in New(0), x \in New(1) : ~Found(y, x)) /\ ret' = ret
    <3>1. ~MiddleAt(round + 1)
      BY <1>7, <2>4
    <3>2. ret[0] # 0 <=> Before
      BY <1>2 DEF Answered
    <3> QED BY <2>1, <2>2, <2>4, <3>1, <3>2
  <2>5. \/ \E y \in New(0), x \in New(1) :
              Found(y, x) /\ ret' = [s \in Sides |-> IF s = 0 THEN y ELSE x]
        \/ (\A y \in New(0), x \in New(1) : ~Found(y, x)) /\ ret' = ret
    BY DEF compare
  <2> QED BY <2>3, <2>4, <2>5
<1> QED BY <1>4, <1>5, <1>6, <1>9 DEF Searching, Reaching

\* So it stays true in every step.
LEMMA StepSearches == IInv /\ Searching /\ [Next]_vars => Searching'
<1> SUFFICES ASSUME IInv, Searching, UNCHANGED vars PROVE Searching'
  BY OpenSearches, IrelSearches, OrelSearches, HalfSearches, CompareSearches DEF Next
<1>1. UNCHANGED <<db, ends, q, cur, upto, side, w, round, ret, pc>>
  BY DEF vars
<1>2. CASE pc = "overrun"
  BY <1>1, <1>2 DEF Searching, Loaded, RoundsAreBalls, Reaching
<1>3. CASE pc # "overrun"
  <2>1. Loaded' /\ RoundsAreBalls' /\ NothingFar' /\ Answered'
    BY <1>1, <1>3, NothingNew
  <2>2. OpenedWhole' /\ ChainSoFar' /\ HalvesOver' /\ WhyDone'
    BY <1>1, <1>3
       DEF Searching, Reaching, OpenedWhole, ChainSoFar, Opened, HalvesOver, WhyDone
  <2> QED BY <2>1, <2>2 DEF Searching, Reaching
<1> QED BY <1>2, <1>3

(* Whatever the store, as long as its chains leave no relation out: at the start of
   each round the queues hold just the balls about the two strings, and route answers
   if and only if some chip is equally far from both within the rounds it makes,
   unless a queue grew to Stop. *)
THEOREM SearchIsExact == Spec => []SearchExact
<1>1. IInv /\ Searching => SearchExact
  <2> SUFFICES ASSUME IInv, Searching PROVE RoundsAreBalls /\ FindsTheMiddle
    BY DEF SearchExact
  <2>1. RoundsAreBalls
    BY DEF Searching
  <2>2. ASSUME pc = "done"
        PROVE  /\ ret[0] # 0 => \E d \in 1 .. Rounds : MiddleAt(d)
               /\ (\E d \in 1 .. Rounds : MiddleAt(d))
                    => ret[0] # 0 \/ \E s \in Sides : Len(q[s]) >= Stop
    <3>1. Answered /\ WhyDone
      BY <2>2 DEF Searching, Reaching
    <3>2. round \in 0 .. Rounds /\ Rounds \in Nat
      BY Bounds DEF IInv, TypeOK
    <3>3. 1 .. round \subseteq 1 .. Rounds
      BY <3>2
    <3> QED BY <2>2, <3>1, <3>3 DEF Answered, WhyDone
  <2>3. FindsTheMiddle
    BY <2>2, Zenon DEF FindsTheMiddle, MiddleAt
  <2> QED BY <2>1, <2>3
<1> QED BY <1>1, InitHolds, StepHolds, InitSearches, StepSearches, PTL DEF Spec

----------------------------------------------------------------------------
(* The layouts of a model file. *)

\* The offsets are the sums of the sizes before them.
LEMMA OffsetsAre ==
    ASSUME NEW s \in Seq(Nat)
    PROVE  /\ Offset(s, 1) = 0
           /\ \A i \in 1 .. Len(s) : Offset(s, i + 1) = Offset(s, i) + s[i]
           /\ \A i \in 1 .. Len(s) + 1 : Offset(s, i) \in Nat
<1> DEFINE N == Len(s)
           E == [i \in 1 .. N |-> [t \in Nat |-> t + s[i]]]
           Runs(g) == g = [n \in 0 .. Len(s) |-> IF n = 0 THEN 0 ELSE g[n - 1] + s[n]]
           sum == CHOOSE g : Runs(g)
<1>1. N \in Nat /\ N = Len(s) /\ \A i \in 1 .. N : s[i] \in Nat
  OBVIOUS
<1> HIDE DEF N
<1>2. E \in [1 .. N -> [Nat -> Nat]]
  BY <1>1
<1>3. PICK h \in [0 .. N -> Nat] : Recurs(h, N, 0, E)
  <2> HIDE DEF E
  <2> QED BY <1>1, <1>2, RecursionDefines
<1>4. \A n \in 0 .. N : h[n] = IF n = 0 THEN 0 ELSE h[n - 1] + s[n]
  <2> TAKE n \in 0 .. N
  <2>1. h[n] = IF n = 0 THEN 0 ELSE E[n][h[n - 1]]
    <3> HIDE DEF E
    <3> QED BY <1>3 DEF Recurs
  <2>2. CASE n # 0
    <3>1. n \in 1 .. N /\ n - 1 \in 0 .. N
      BY <1>1, <2>2
    <3>2. h[n - 1] \in Nat
      BY <3>1
    <3>3. E[n][h[n - 1]] = h[n - 1] + s[n]
      BY <3>1, <3>2
    <3> QED BY <2>1, <2>2, <3>3
  <2> QED BY <2>1, <2>2
<1> HIDE DEF E
<1>5. Runs(h)
  <2> DEFINE G(n) == IF n = 0 THEN 0 ELSE h[n - 1] + s[n]
  <2>1. \A n \in 0 .. N : h[n] = G(n)
    BY <1>4
  <2> HIDE DEF G
  <2>2. h = [n \in 0 .. N |-> h[n]]
    BY <1>3
  <2>3. h = [n \in 0 .. N |-> G(n)]
    BY <2>1, <2>2, Zenon
  <2> QED BY <1>1, <2>3, Zenon DEF G
<1>6. Runs(sum)
  BY <1>5, Zenon
<1>7. \A i : Offset(s, i) = sum[i - 1]
  BY Zenon DEF Offset
<1> HIDE DEF sum
<1>8. \A n \in 0 .. N : sum[n] = IF n = 0 THEN 0 ELSE sum[n - 1] + s[n]
  BY <1>1, <1>6, Zenon
<1> HIDE DEF Runs
<1>9. sum[0] = 0 /\ \A n \in 1 .. N : sum[n] = sum[n - 1] + s[n]
  <2>1. 0 \in 0 .. N /\ \A n \in 1 .. N : n \in 0 .. N /\ n # 0
    BY <1>1
  <2> QED BY <1>8, <2>1
<1> DEFINE T == {n \in 0 .. N : sum[n] \in Nat}
<1>10. \A n \in 0 .. N : n \in T
  <2>1. 0 \in T
    BY <1>1, <1>9
  <2>2. \A n \in 0 .. N - 1 : n \in T => n + 1 \in T
    <3> SUFFICES ASSUME NEW n \in 0 .. N - 1, n \in T PROVE n + 1 \in T
      OBVIOUS
    <3>1. n + 1 \in 1 .. N /\ n + 1 \in 0 .. N /\ (n + 1) - 1 = n
      BY <1>1
    <3>2. sum[n + 1] = sum[n] + s[n + 1]
      BY <1>9, <3>1
    <3> QED BY <1>1, <3>1, <3>2
  <2> HIDE DEF T
  <2> QED BY <1>1, <2>1, <2>2, InductionUpTo
<1>11. Offset(s, 1) = 0
  BY <1>7, <1>9
<1>12. ASSUME NEW i \in 1 .. N PROVE Offset(s, i + 1) = Offset(s, i) + s[i]
  <2>1. (i + 1) - 1 = i
    BY <1>1
  <2> QED BY <1>7, <1>9, <2>1
<1>13. ASSUME NEW i \in 1 .. N + 1 PROVE Offset(s, i) \in Nat
  <2>1. i - 1 \in 0 .. N
    BY <1>1
  <2> QED BY <1>7, <1>10, <2>1
<1> QED BY <1>11, <1>12, <1>13 DEF N

\* They only grow.
LEMMA OffsetsGrow ==
    ASSUME NEW s \in Seq(Nat), NEW i \in 1 .. Len(s) + 1
    PROVE  \A j \in i .. Len(s) + 1 : Offset(s, i) <= Offset(s, j)
<1> DEFINE N == Len(s)
           M == (N + 1) - i
           T == {n \in 0 .. M : Offset(s, i) <= Offset(s, i + n)}
<1>1. N \in Nat /\ M \in Nat /\ i + 0 = i /\ i \in 1 .. N + 1 /\ \A k \in 1 .. N : s[k] \in Nat
  OBVIOUS
<1>2. \A k \in 1 .. N + 1 : Offset(s, k) \in Nat
  BY OffsetsAre
<1>3. \A k \in 1 .. N : Offset(s, k + 1) = Offset(s, k) + s[k]
  BY OffsetsAre
<1> HIDE DEF N
<1>4. 0 \in T
  BY <1>1, <1>2
<1>5. \A n \in 0 .. M - 1 : n \in T => n + 1 \in T
  <2> SUFFICES ASSUME NEW n \in 0 .. M - 1, n \in T PROVE n + 1 \in T
    OBVIOUS
  <2>1. i + n \in 1 .. N /\ (i + n) + 1 = i + (n + 1) /\ i + n \in 1 .. N + 1 /\ (i + n) + 1 \in 1 .. N + 1
        /\ n + 1 \in 0 .. M
    BY <1>1
  <2>2. Offset(s, i + (n + 1)) = Offset(s, i + n) + s[i + n]
    BY <1>3, <2>1
  <2>3. /\ Offset(s, i) \in Nat /\ Offset(s, i + n) \in Nat /\ s[i + n] \in Nat
        /\ Offset(s, i) <= Offset(s, i + n)
    BY <1>1, <1>2, <2>1
  <2>4. Offset(s, i) <= Offset(s, i + (n + 1))
    BY ONLY <2>2, <2>3
  <2> QED BY <2>1, <2>4
<1>6. \A n \in 0 .. M : n \in T
  <2> HIDE DEF T, M
  <2> QED BY <1>1, <1>4, <1>5, InductionUpTo
<1>7. ASSUME NEW j \in i .. N + 1 PROVE Offset(s, i) <= Offset(s, j)
  <2>1. j - i \in 0 .. M /\ i + (j - i) = j
    BY <1>1
  <2>2. j - i \in T
    BY <1>6, <2>1
  <2> QED BY <2>1, <2>2
<1> QED BY <1>7 DEF N

\* Layouts that begin with the same sizes begin with the same offsets.
LEMMA OffsetsAgree ==
    ASSUME NEW s \in Seq(Nat), NEW t \in Seq(Nat), NEW m \in Nat, m <= Len(s), m <= Len(t),
           \A i \in 1 .. m : s[i] = t[i]
    PROVE  \A i \in 1 .. m + 1 : Offset(s, i) = Offset(t, i)
<1> DEFINE T == {n \in 0 .. m : Offset(s, n + 1) = Offset(t, n + 1)}
<1>1. 0 \in T
  BY OffsetsAre
<1>2. \A n \in 0 .. m - 1 : n \in T => n + 1 \in T
  <2> SUFFICES ASSUME NEW n \in 0 .. m - 1, n \in T PROVE n + 1 \in T
    OBVIOUS
  <2>1. n + 1 \in 1 .. m /\ n + 1 \in 1 .. Len(s) /\ n + 1 \in 1 .. Len(t) /\ n + 1 \in 0 .. m
    OBVIOUS
  <2>2. /\ Offset(s, (n + 1) + 1) = Offset(s, n + 1) + s[n + 1]
        /\ Offset(t, (n + 1) + 1) = Offset(t, n + 1) + t[n + 1]
    BY <2>1, OffsetsAre
  <2> QED BY <2>1, <2>2
<1>3. \A n \in 0 .. m : n \in T
  <2> HIDE DEF T
  <2> QED BY <1>1, <1>2, InductionUpTo
<1>4. ASSUME NEW i \in 1 .. m + 1 PROVE Offset(s, i) = Offset(t, i)
  <2>1. i - 1 \in 0 .. m /\ (i - 1) + 1 = i
    OBVIOUS
  <2>2. i - 1 \in T
    BY <1>3, <2>1
  <2> QED BY <2>1, <2>2
<1> QED BY <1>4

\* What the copy holds of a file: the upper halves, from the first on.
Uppers(c) == /\ c \in Seq(Nat \X {"high", "low"})
             /\ \A k \in 1 .. Len(c) : c[k] = <<k, "high">>

\* fp32tobf16 leaves the upper half of every number, in their order: what it overwrites
\* it has read.
LEMMA UppersMove ==
    ASSUME NEW first \in Nat, NEW count \in Nat
    PROVE  LET moved == fp32tobf16(first, count)
           IN  /\ moved \in Seq(Nat \X {"high", "low"}) /\ Len(moved) = count
               /\ \A k \in 1 .. count : moved[k] = <<first + (k - 1), "high">>
<1> DEFINE H == Nat \X {"high", "low"}
           X == [1 .. 2 * count -> H]
           whole == [i \in 1 .. 2 * count |-> <<first + (i - 1) \div 2, IF i % 2 = 0 THEN "high" ELSE "low">>]
           E == [j \in 1 .. count |-> [b \in X |-> [b EXCEPT ![j] = b[2 * j]]]]
           Runs(g) == g = [j \in 0 .. count |-> IF j = 0 THEN whole ELSE [g[j - 1] EXCEPT ![j] = g[j - 1][2 * j]]]
           buf == CHOOSE g : Runs(g)
           moved == fp32tobf16(first, count)
<1>1. whole \in X
  <2>1. \A i \in 1 .. 2 * count : (i - 1) \div 2 \in Nat
    OBVIOUS
  <2>2. \A i \in 1 .. 2 * count : <<first + (i - 1) \div 2, IF i % 2 = 0 THEN "high" ELSE "low">> \in H
    BY <2>1
  <2> QED BY <2>2
<1>2. \A j \in 1 .. count : 2 * j \in 1 .. 2 * count /\ j \in 1 .. 2 * count /\ j < 2 * j
  OBVIOUS
<1>3. \A j \in 1 .. count : whole[2 * j] = <<first + (j - 1), "high">>
  <2> TAKE j \in 1 .. count
  <2>1. 2 * j \in 1 .. 2 * count /\ (2 * j) % 2 = 0 /\ (2 * j - 1) \div 2 = j - 1
    OBVIOUS
  <2> QED BY <2>1
<1> HIDE DEF whole, H
<1>4. E \in [1 .. count -> [X -> X]]
  <2>1. \A j \in 1 .. count : \A b \in X : [b EXCEPT ![j] = b[2 * j]] \in X
    BY <1>2
  <2> HIDE DEF X
  <2> QED BY <2>1
<1>5. PICK h \in [0 .. count -> X] : Recurs(h, count, whole, E)
  <2> HIDE DEF E, X
  <2> QED BY <1>1, <1>4, RecursionDefines
<1>6. \A j \in 0 .. count : h[j] = IF j = 0 THEN whole ELSE [h[j - 1] EXCEPT ![j] = h[j - 1][2 * j]]
  <2> HIDE DEF X
  <2> TAKE j \in 0 .. count
  <2>1. h[j] = IF j = 0 THEN whole ELSE E[j][h[j - 1]]
    <3> HIDE DEF E
    <3> QED BY <1>5 DEF Recurs
  <2>2. CASE j # 0
    <3>1. j \in 1 .. count /\ j - 1 \in 0 .. count
      BY <2>2
    <3>2. h[j - 1] \in X
      BY <3>1
    <3>3. E[j][h[j - 1]] = [h[j - 1] EXCEPT ![j] = h[j - 1][2 * j]]
      BY <3>1, <3>2
    <3> QED BY <2>1, <2>2, <3>3
  <2> QED BY <2>1, <2>2
<1> HIDE DEF E
<1>7. Runs(h)
  <2> DEFINE G(j) == IF j = 0 THEN whole ELSE [h[j - 1] EXCEPT ![j] = h[j - 1][2 * j]]
  <2>1. \A j \in 0 .. count : h[j] = G(j)
    BY <1>6
  <2> HIDE DEF G, X
  <2>2. h = [j \in 0 .. count |-> h[j]]
    BY <1>5
  <2>3. h = [j \in 0 .. count |-> G(j)]
    BY <2>1, <2>2, Zenon
  <2> QED BY <2>3, Zenon DEF G
<1>8. Runs(buf)
  BY <1>7, Zenon
<1>9. moved = SubSeq(buf[count], 1, count)
  BY Zenon DEF fp32tobf16, whole
<1> HIDE DEF buf, moved
<1>10. \A j \in 0 .. count : buf[j] = IF j = 0 THEN whole ELSE [buf[j - 1] EXCEPT ![j] = buf[j - 1][2 * j]]
  BY <1>8, Zenon
<1>11. buf[0] = whole /\ \A j \in 1 .. count : buf[j] = [buf[j - 1] EXCEPT ![j] = buf[j - 1][2 * j]]
  <2>1. 0 \in 0 .. count /\ \A j \in 1 .. count : j \in 0 .. count /\ j # 0
    OBVIOUS
  <2> QED BY <1>10, <2>1
<1> HIDE DEF Runs
<1> DEFINE T == {j \in 0 .. count : /\ buf[j] \in X
                                    /\ \A k \in 1 .. j : buf[j][k] = <<first + (k - 1), "high">>
                                    /\ \A k \in j + 1 .. 2 * count : buf[j][k] = whole[k]}
<1>12. 0 \in T
  BY <1>1, <1>11
<1>13. \A j \in 0 .. count - 1 : j \in T => j + 1 \in T
  <2> SUFFICES ASSUME NEW j \in 0 .. count - 1, j \in T PROVE j + 1 \in T
    OBVIOUS
  <2> DEFINE b == buf[j]
             v == <<first + ((j + 1) - 1), "high">>
  <2>1. /\ j + 1 \in 1 .. count /\ j + 1 \in 0 .. count /\ (j + 1) - 1 = j /\ 2 * (j + 1) \in j + 1 .. 2 * count
        /\ j + 1 \in 1 .. 2 * count
    OBVIOUS
  <2>2. b \in X /\ (\A k \in 1 .. j : b[k] = <<first + (k - 1), "high">>)
        /\ \A k \in j + 1 .. 2 * count : b[k] = whole[k]
    OBVIOUS
  <2>3. buf[j + 1] = [b EXCEPT ![j + 1] = b[2 * (j + 1)]]
    BY <1>11, <2>1
  <2>4. b[2 * (j + 1)] = v
    BY <1>3, <2>1, <2>2
  <2>5. v \in H
    <3>1. 2 * (j + 1) \in 1 .. 2 * count
      OBVIOUS
    <3>2. b[2 * (j + 1)] \in H
      BY <2>2, <3>1
    <3> QED BY <2>4, <3>2
  <2> HIDE DEF b, v
  <2>6. buf[j + 1] = [b EXCEPT ![j + 1] = v] /\ buf[j + 1] \in X
    BY <2>1, <2>2, <2>3, <2>4, <2>5
  <2>7. \A k \in 1 .. 2 * count : buf[j + 1][k] = IF k = j + 1 THEN v ELSE b[k]
    BY <2>2, <2>6
  <2>8. ASSUME NEW k \in 1 .. j + 1 PROVE buf[j + 1][k] = <<first + (k - 1), "high">>
    <3>1. k \in 1 .. 2 * count /\ (k = j + 1 \/ (k \in 1 .. j /\ k # j + 1))
      OBVIOUS
    <3> QED BY <2>2, <2>7, <3>1 DEF v
  <2>9. ASSUME NEW k \in (j + 1) + 1 .. 2 * count PROVE buf[j + 1][k] = whole[k]
    <3>1. k \in 1 .. 2 * count /\ k # j + 1 /\ k \in j + 1 .. 2 * count
      OBVIOUS
    <3> QED BY <2>2, <2>7, <3>1
  <2> QED BY <2>1, <2>6, <2>8, <2>9
<1>14. count \in T
  <2> HIDE DEF T
  <2>1. \A j \in 0 .. count : j \in T
    BY <1>12, <1>13, InductionUpTo
  <2> QED BY <2>1
<1> DEFINE b == buf[count]
<1>15. b \in X /\ \A k \in 1 .. count : b[k] = <<first + (k - 1), "high">>
  BY <1>14
<1> HIDE DEF b, T
<1>16. b \in Seq(H) /\ Len(b) = 2 * count
  BY <1>15
<1>17. moved = SubSeq(b, 1, count)
  BY <1>9 DEF b
<1>18. /\ moved \in Seq(H) /\ Len(moved) = count
       /\ \A k \in 1 .. count : moved[k] = b[k]
  BY <1>16, <1>17
<1> QED BY <1>15, <1>18 DEF moved, H

\* Doubled keeps the numbers there are.
LEMMA DoubledIs ==
    ASSUME NEW call \in Nat \X Nat
    PROVE  /\ Doubled(call) \in Nat \X Nat
           /\ Doubled(call)[1] * Doubled(call)[2] = call[1] * call[2]
           /\ call[2] >= 1 => Doubled(call)[2] >= 1
           /\ call[1] >= 1 => Doubled(call)[1] >= 1
<1> DEFINE X == Nat \X Nat
           Two(s) == IF s[2] % 2 = 1 \/ s[1] >= ChunkStop THEN s ELSE <<2 * s[1], s[2] \div 2>>
           E == [s \in X |-> Two(s)]
           Runs(g) == g = [n \in Nat |-> IF n = 0 THEN call
                             ELSE LET s == g[n - 1]
                                  IN  IF s[2] % 2 = 1 \/ s[1] >= ChunkStop THEN s ELSE <<2 * s[1], s[2] \div 2>>]
           shape == CHOOSE g : Runs(g)
<1>1. ChunkStop \in Nat
  BY WeightsAssumption
<1>2. ASSUME NEW s \in X
      PROVE  /\ Two(s) \in X /\ Two(s)[1] * Two(s)[2] = s[1] * s[2]
             /\ s[2] >= 1 => Two(s)[2] >= 1
             /\ s[1] >= 1 => Two(s)[1] >= 1
  <2>1. s[1] \in Nat /\ s[2] \in Nat
    OBVIOUS
  <2>2. CASE s[2] % 2 = 1 \/ s[1] >= ChunkStop
    BY <2>2
  <2>3. CASE ~(s[2] % 2 = 1 \/ s[1] >= ChunkStop)
    <3> DEFINE a == s[1]
               k == s[2] \div 2
    <3>1. k \in Nat /\ s[2] = 2 * k /\ (s[2] >= 1 => k >= 1) /\ a \in Nat
      BY <2>1, <2>3
    <3>2. Two(s) = <<2 * a, k>>
      BY <2>3
    <3> HIDE DEF k, a
    <3>3. (2 * a) * k = a * (2 * k)
      BY ONLY <3>1
    <3>4. <<2 * a, k>> \in X /\ <<2 * a, k>>[1] = 2 * a /\ <<2 * a, k>>[2] = k
      BY <3>1
    <3>5. a >= 1 => 2 * a >= 1
      BY ONLY <3>1
    <3>6. a = s[1]
      BY DEF a
    <3> HIDE DEF Two, X
    <3> QED BY ONLY <3>1, <3>2, <3>3, <3>4, <3>5, <3>6
  <2> QED BY <2>2, <2>3
<1>3. E \in [X -> X]
  <2> HIDE DEF X, Two
  <2> QED BY <1>2
<1>4. PICK h \in [Nat -> X] : RecursOn(h, call, E)
  <2> HIDE DEF E, X
  <2>1. call \in X
    BY DEF X
  <2> QED BY <1>3, <2>1, RecursionOnNat
<1>5. h[0] = call /\ \A n \in Nat : h[n + 1] = Two(h[n])
  <2>1. \A n \in Nat : h[n] = IF n = 0 THEN call ELSE E[h[n - 1]]
    <3> HIDE DEF E, X
    <3> QED BY <1>4, Zenon DEF RecursOn
  <2>2. \A n \in Nat : h[n] \in X /\ E[h[n]] = Two(h[n])
    <3> HIDE DEF X, Two
    <3> QED BY <1>4
  <2> HIDE DEF E, X, Two
  <2> QED BY <2>1, <2>2
<1>6. Runs(h)
  <2> DEFINE G(n) == IF n = 0 THEN call ELSE Two(h[n - 1])
  <2>1. \A n \in Nat : h[n] = G(n)
    <3> HIDE DEF Two
    <3>1. \A n \in Nat : n = 0 \/ (n - 1 \in Nat /\ (n - 1) + 1 = n)
      OBVIOUS
    <3> QED BY <1>5, <3>1
  <2> HIDE DEF G, X
  <2>2. h = [n \in Nat |-> h[n]]
    BY <1>4
  <2>3. h = [n \in Nat |-> G(n)]
    BY <2>1, <2>2, Zenon
  <2> QED BY <2>3, Zenon DEF G
<1>7. Runs(shape)
  BY <1>6, Zenon
<1>8. Doubled(call) = shape[ChunkStop]
  BY Zenon DEF Doubled
<1> HIDE DEF shape
<1>9. shape[0] = call /\ \A n \in Nat : shape[n + 1] = Two(shape[n])
  <2>1. \A n \in Nat : shape[n] = IF n = 0 THEN call ELSE Two(shape[n - 1])
    BY <1>7, Zenon
  <2> HIDE DEF Two, Runs
  <2> QED BY <2>1
<1> HIDE DEF Runs, Two
<1> DEFINE T == {n \in Nat : /\ shape[n] \in X /\ shape[n][1] * shape[n][2] = call[1] * call[2]
                             /\ call[2] >= 1 => shape[n][2] >= 1
                             /\ call[1] >= 1 => shape[n][1] >= 1}
<1>10. 0 \in T
  BY <1>9
<1>11. \A n \in T : n + 1 \in T
  <2> SUFFICES ASSUME NEW n \in Nat, n \in T PROVE n + 1 \in T
    OBVIOUS
  <2> DEFINE s == shape[n]
  <2>1. s \in X /\ s[1] * s[2] = call[1] * call[2] /\ (call[2] >= 1 => s[2] >= 1) /\ (call[1] >= 1 => s[1] >= 1)
    OBVIOUS
  <2>2. shape[n + 1] = Two(s)
    BY <1>9
  <2> HIDE DEF s, X
  <2> QED BY <1>2, <2>1, <2>2
<1>12. ChunkStop \in T
  <2> HIDE DEF T
  <2>1. T = Nat
    <3>1. T \in SUBSET Nat
      BY DEF T
    <3> QED BY <1>10, <1>11, <3>1, Induction
  <2> QED BY <1>1, <2>1
<1> QED BY <1>8, <1>12

\* The headers whose products are ints.
Plain == {h \in Headers : InInts(h)}

\* An int is taken as it is.
LEMMA AsIntIs ==
    ASSUME NEW n \in Nat, n < IntHalf
    PROVE  AsInt(n) = n
<1>1. IntHalf \in Nat \ {0}
  BY WeightsAssumption
<1> DEFINE m == 2 * IntHalf
           a == n + IntHalf
<1>2. a \in Nat /\ m \in Nat \ {0} /\ a < m
  BY <1>1
<1>3. AsInt(n) = (a % m) - IntHalf
  BY DEF AsInt
<1> HIDE DEF a, m
<1>4. a % m = a
  BY <1>2
<1> QED BY <1>1, <1>3, <1>4 DEF a

\* What a header says.
LEMMA HeaderIs ==
    ASSUME NEW h \in Plain
    PROVE  /\ h.dim \in Nat /\ h.dim >= 1 /\ h.hidden \in Nat /\ h.hidden >= 1 /\ h.layers \in Nat /\ h.layers >= 1
           /\ Abs(h.vocab) \in Nat /\ Abs(h.vocab) >= 1 /\ h.seq \in Nat /\ h.seq >= 1
           /\ KvDim(h) \in Nat /\ KvDim(h) >= 1 /\ HeadSize(h) \in Nat /\ HeadSize(h) >= 1
           /\ HeadSize(h) \div 2 \in Nat /\ (HeadSize(h) # 1 => HeadSize(h) \div 2 >= 1)
<1>1. /\ h.dim \in Nat \ {0} /\ h.hidden \in Nat \ {0} /\ h.layers \in Nat \ {0} /\ h.heads \in Nat \ {0}
      /\ h.kv \in Nat \ {0} /\ h.vocab \in Int \ {0} /\ h.seq \in Nat \ {0} /\ h.heads <= h.dim
  BY WeightsAssumption DEF Plain
<1>2. Abs(h.vocab) \in Nat /\ Abs(h.vocab) >= 1
  BY <1>1 DEF Abs
<1>3. ASSUME NEW a \in Nat \ {0}, NEW b \in Nat \ {0}, b <= a
      PROVE  a \div b \in Nat /\ a \div b >= 1
  BY <1>3
<1>4. HeadSize(h) \in Nat /\ HeadSize(h) >= 1
  BY <1>1, <1>3 DEF HeadSize
<1>5. KvDim(h) \in Nat /\ KvDim(h) >= 1
  <2>1. ASSUME NEW a \in Nat \ {0}, NEW b \in Nat \ {0} PROVE a * b \in Nat \ {0} /\ a <= a * b
    BY <2>1
  <2>2. h.dim * h.kv \in Nat \ {0} /\ h.dim <= h.dim * h.kv
    BY <1>1, <2>1
  <2> DEFINE p == h.dim * h.kv
  <2>3. p \in Nat \ {0} /\ h.heads <= p /\ h.heads \in Nat \ {0}
    <3>1. h.dim <= p /\ p \in Nat \ {0}
      BY <2>2
    <3> HIDE DEF p
    <3> QED BY <1>1, <3>1
  <2>4. KvDim(h) = Divided(AsInt(p), h.heads) /\ p < IntHalf
    BY DEF KvDim, Plain, InInts
  <2> HIDE DEF p
  <2>5. AsInt(p) = p
    BY <2>3, <2>4, AsIntIs
  <2>6. Divided(p, h.heads) = p \div h.heads
    BY <2>3 DEF Divided
  <2> QED BY <1>3, <2>3, <2>4, <2>5, <2>6
<1>6. HeadSize(h) \div 2 \in Nat /\ (HeadSize(h) # 1 => HeadSize(h) \div 2 >= 1)
  <2> DEFINE n == HeadSize(h)
  <2>1. n \in Nat /\ n >= 1
    BY <1>4
  <2> HIDE DEF n
  <2>2. n \div 2 \in Nat /\ (n # 1 => n \div 2 >= 1)
    BY <2>1
  <2> QED BY <2>2 DEF n
<1> QED BY <1>1, <1>2, <1>4, <1>5, <1>6

\* Its products.
LEMMA IntsAre ==
    ASSUME NEW h \in Plain
    PROVE  /\ AsInt(h.dim * h.layers) = h.dim * h.layers /\ AsInt(h.layers * h.dim) = h.layers * h.dim
           /\ AsInt(KvDim(h) * h.layers) = KvDim(h) * h.layers /\ AsInt(h.hidden * h.layers) = h.hidden * h.layers
           /\ AsInt(Abs(h.vocab) * h.dim) = Abs(h.vocab) * h.dim
<1>1. /\ h.dim \in Nat /\ h.layers \in Nat /\ h.hidden \in Nat /\ KvDim(h) \in Nat /\ Abs(h.vocab) \in Nat
  BY HeaderIs
<1>2. /\ h.dim * h.layers \in Nat /\ h.layers * h.dim = h.dim * h.layers /\ KvDim(h) * h.layers \in Nat
      /\ h.hidden * h.layers \in Nat /\ Abs(h.vocab) * h.dim \in Nat
  <2>1. ASSUME NEW a \in Nat, NEW b \in Nat PROVE a * b \in Nat /\ b * a = a * b
    OBVIOUS
  <2> QED BY <1>1, <2>1
<1>3. /\ h.dim * h.layers < IntHalf /\ KvDim(h) * h.layers < IntHalf /\ h.hidden * h.layers < IntHalf
      /\ Abs(h.vocab) * h.dim < IntHalf
  BY DEF Plain, InInts
<1> QED BY <1>2, <1>3, AsIntIs

\* Products of three.
LEMMA Products ==
    ASSUME NEW a \in Nat, NEW b \in Nat, NEW c \in Nat
    PROVE  /\ a * b \in Nat /\ a * b = b * a
           /\ a * (b * c) = (a * b) * c /\ a * (b * c) = (a * c) * b /\ a * (b * c) = (c * b) * a
           /\ a * (b * c) = (c * a) * b /\ a * (b * c) = (b * c) * a /\ a * (b * c) = (b * a) * c
           /\ (a >= 1 /\ b >= 1 => a * b >= 1)
  OBVIOUS

\* Two sequences, one behind the other.
Follows(full, s, t, S) ==
    /\ full \in Seq(S) /\ Len(full) = Len(s) + Len(t)
    /\ \A i \in 1 .. Len(s) : full[i] = s[i]
    /\ \A i \in 1 .. Len(t) : full[Len(s) + i] = t[i]
LEMMA BehindEachOther ==
    ASSUME NEW S, NEW s \in Seq(S), NEW t \in Seq(S)
    PROVE  /\ s \o t \in Seq(S) /\ Len(s \o t) = Len(s) + Len(t)
           /\ \A i \in 1 .. Len(s) : (s \o t)[i] = s[i]
           /\ \A i \in 1 .. Len(t) : (s \o t)[Len(s) + i] = t[i]
  OBVIOUS

\* How many tensors a file has.
Tensors(h) == IF SharedIn(h) THEN 13 ELSE 14

\* The last of fourteen tensors behind the others, or not.
Fourteen(full, m, v, b, S) ==
    /\ full \in Seq(S) /\ Len(full) = IF b THEN 13 ELSE 14
    /\ full[1] = m[1] /\ full[2] = m[2] /\ full[3] = m[3] /\ full[4] = m[4] /\ full[5] = m[5] /\ full[6] = m[6]
    /\ full[7] = m[7] /\ full[8] = m[8] /\ full[9] = m[9] /\ full[10] = m[10] /\ full[11] = m[11]
    /\ full[12] = m[12] /\ full[13] = m[13]
    /\ ~b => full[14] = v
LEMMA FourteenAre ==
    ASSUME NEW S, NEW m \in Seq(S), Len(m) = 13, NEW v, NEW t \in Seq(S), NEW b,
           Len(t) = (IF b THEN 0 ELSE 1), ~b => t[1] = v
    PROVE  Fourteen(m \o t, m, v, b, S)
<1> DEFINE full == m \o t
<1>1. /\ full \in Seq(S) /\ Len(full) = 13 + Len(t)
      /\ \A i \in 1 .. 13 : full[i] = m[i]
      /\ \A i \in 1 .. Len(t) : full[13 + i] = t[i]
  <2>1. \A x, y \in Seq(S) : Follows(x \o y, x, y, S)
    BY BehindEachOther DEF Follows
  <2>2. Follows(full, m, t, S)
    BY <2>1, Zenon
  <2> HIDE DEF full
  <2> QED BY <2>2 DEF Follows
<1> HIDE DEF full
<1>2. Len(full) = IF b THEN 13 ELSE 14
  BY <1>1
<1>3. /\ full[1] = m[1] /\ full[2] = m[2] /\ full[3] = m[3] /\ full[4] = m[4] /\ full[5] = m[5] /\ full[6] = m[6]
      /\ full[7] = m[7] /\ full[8] = m[8] /\ full[9] = m[9] /\ full[10] = m[10] /\ full[11] = m[11]
      /\ full[12] = m[12] /\ full[13] = m[13]
  BY ONLY <1>1
<1>4. ~b => full[14] = v
  <2>1. ~b => 1 \in 1 .. Len(t) /\ 13 + 1 = 14
    OBVIOUS
  <2> QED BY <1>1, <2>1
<1> QED BY <1>1, <1>2, <1>3, <1>4 DEF full, Fourteen

\* The sizes of llama_info_model.
LEMMA SizesAre ==
    ASSUME NEW h \in Plain
    PROVE  LET s == llama_info_model(h)
               layer == h.dim * h.layers
               cis == (HeadSize(h) \div 2) * h.seq
           IN  /\ s \in Seq(Nat) /\ Len(s) = Tensors(h)
               /\ s[1] = h.dim * Abs(h.vocab) /\ s[2] = layer /\ s[3] = layer * h.dim
               /\ s[4] = layer * KvDim(h) /\ s[5] = layer * KvDim(h) /\ s[6] = layer * h.dim
               /\ s[7] = layer /\ s[8] = layer * h.hidden /\ s[9] = layer * h.hidden
               /\ s[10] = layer * h.hidden /\ s[11] = h.dim /\ s[12] = cis /\ s[13] = cis
               /\ ~SharedIn(h) => s[14] = h.dim * Abs(h.vocab)
<1> DEFINE d == h.dim
           layer == d * h.layers
           v == d * Abs(h.vocab)
           square == layer * d
           heads == layer * KvDim(h)
           wide == layer * h.hidden
           cis == (HeadSize(h) \div 2) * h.seq
           most == <<v, layer, square, heads, heads, square, layer, wide, wide, wide, d, cis, cis>>
           last == IF SharedIn(h) THEN << >> ELSE <<v>>
<1>1. llama_info_model(h) = most \o last
  BY Zenon DEF llama_info_model
<1>2. /\ d \in Nat /\ layer \in Nat /\ v \in Nat /\ square \in Nat /\ heads \in Nat /\ wide \in Nat /\ cis \in Nat
  <2>1. d \in Nat /\ h.layers \in Nat /\ Abs(h.vocab) \in Nat /\ KvDim(h) \in Nat /\ h.hidden \in Nat
        /\ h.seq \in Nat /\ HeadSize(h) \div 2 \in Nat
    BY HeaderIs
  <2>2. layer \in Nat /\ v \in Nat /\ cis \in Nat
    BY <2>1, Products
  <2> HIDE DEF layer
  <2> QED BY <2>1, <2>2, Products
<1> HIDE DEF d, layer, v, square, heads, wide, cis
<1>3. most \in Seq(Nat) /\ Len(most) = 13
  BY <1>2
<1>4. last \in Seq(Nat) /\ Len(last) = (IF SharedIn(h) THEN 0 ELSE 1) /\ (~SharedIn(h) => last[1] = v)
  BY <1>2
<1>5. /\ most[1] = v /\ most[2] = layer /\ most[3] = square /\ most[4] = heads /\ most[5] = heads
      /\ most[6] = square /\ most[7] = layer /\ most[8] = wide /\ most[9] = wide /\ most[10] = wide
      /\ most[11] = d /\ most[12] = cis /\ most[13] = cis
  OBVIOUS
<1> HIDE DEF most, last
<1> DEFINE full == most \o last
<1>6. /\ full \in Seq(Nat) /\ Len(full) = IF SharedIn(h) THEN 13 ELSE 14
      /\ full[1] = most[1] /\ full[2] = most[2] /\ full[3] = most[3] /\ full[4] = most[4] /\ full[5] = most[5]
      /\ full[6] = most[6] /\ full[7] = most[7] /\ full[8] = most[8] /\ full[9] = most[9] /\ full[10] = most[10]
      /\ full[11] = most[11] /\ full[12] = most[12] /\ full[13] = most[13]
      /\ ~SharedIn(h) => full[14] = v
  <2>1. Fourteen(full, most, v, SharedIn(h), Nat)
    <3>1. \A x \in Seq(Nat), y \in Seq(Nat) : \A u, b :
            Len(x) = 13 /\ Len(y) = (IF b THEN 0 ELSE 1) /\ (~b => y[1] = u) => Fourteen(x \o y, x, u, b, Nat)
      BY FourteenAre
    <3> QED BY <1>3, <1>4, <3>1, Zenon
  <2> HIDE DEF full
  <2> QED BY <2>1 DEF Fourteen
<1> HIDE DEF full
<1>7. LET s == llama_info_model(h)
      IN  /\ s \in Seq(Nat) /\ Len(s) = Tensors(h)
          /\ s[1] = v /\ s[2] = layer /\ s[3] = square /\ s[4] = heads /\ s[5] = heads
          /\ s[6] = square /\ s[7] = layer /\ s[8] = wide /\ s[9] = wide /\ s[10] = wide
          /\ s[11] = d /\ s[12] = cis /\ s[13] = cis
          /\ ~SharedIn(h) => s[14] = v
  BY <1>1, <1>5, <1>6 DEF Tensors, full
<1> QED BY <1>7 DEF d, layer, v, square, heads, wide, cis

\* The sizes of llama_initmodel.
LEMMA InitSizesAre ==
    ASSUME NEW h \in Plain
    PROVE  LET s == InitSizes(h)
               square == h.layers * h.dim * h.dim
               heads == h.layers * h.dim * KvDim(h)
               wide == h.layers * h.dim * h.hidden
               cis == (h.seq * HeadSize(h)) \div 2
           IN  /\ s \in Seq(Nat) /\ Len(s) = Tensors(h)
               /\ s[1] = Abs(h.vocab) * h.dim /\ s[2] = h.layers * h.dim /\ s[3] = square
               /\ s[4] = heads /\ s[5] = heads /\ s[6] = square
               /\ s[7] = h.layers * h.dim /\ s[8] = wide /\ s[9] = wide /\ s[10] = wide
               /\ s[11] = h.dim /\ s[12] = cis /\ s[13] = cis
               /\ ~SharedIn(h) => s[14] = Abs(h.vocab) * h.dim
<1> DEFINE d == h.dim
           layer == h.layers * d
           v == Abs(h.vocab) * d
           square == layer * d
           heads == layer * KvDim(h)
           wide == layer * h.hidden
           cis == (h.seq * HeadSize(h)) \div 2
           most == <<AsInt(v), AsInt(layer), square, heads, heads, square, layer, wide, wide, wide, d, cis, cis>>
           last == IF SharedIn(h) THEN << >> ELSE <<v>>
<1>1. InitSizes(h) = most \o last
  BY Zenon DEF InitSizes
<1> DEFINE first == AsInt(v)
           second == AsInt(layer)
<1>ints. first = v /\ second = layer
  BY IntsAre
<1>2. /\ d \in Nat /\ layer \in Nat /\ v \in Nat /\ square \in Nat /\ heads \in Nat /\ wide \in Nat /\ cis \in Nat
  <2>1. d \in Nat /\ h.layers \in Nat /\ Abs(h.vocab) \in Nat /\ KvDim(h) \in Nat /\ h.hidden \in Nat
        /\ h.seq \in Nat /\ HeadSize(h) \in Nat
    BY HeaderIs
  <2>2. layer \in Nat /\ v \in Nat /\ h.seq * HeadSize(h) \in Nat
    BY <2>1, Products
  <2>3. cis \in Nat
    <3> DEFINE p == h.seq * HeadSize(h)
    <3>1. p \in Nat
      BY <2>2
    <3> HIDE DEF p
    <3>2. p \div 2 \in Nat
      BY <3>1
    <3> QED BY <3>2 DEF p
  <2> HIDE DEF layer, cis
  <2> QED BY <2>1, <2>2, <2>3, Products
<1>same. most = <<v, layer, square, heads, heads, square, layer, wide, wide, wide, d, cis, cis>>
  <2> HIDE DEF d, layer, v, square, heads, wide, cis
  <2> QED BY <1>ints
<1> HIDE DEF d, layer, v, square, heads, wide, cis, first, second
<1> HIDE DEF most
<1>3. most \in Seq(Nat) /\ Len(most) = 13
  BY <1>2, <1>same
<1>4. last \in Seq(Nat) /\ Len(last) = (IF SharedIn(h) THEN 0 ELSE 1) /\ (~SharedIn(h) => last[1] = v)
  BY <1>2
<1>5. /\ most[1] = v /\ most[2] = layer /\ most[3] = square /\ most[4] = heads /\ most[5] = heads
      /\ most[6] = square /\ most[7] = layer /\ most[8] = wide /\ most[9] = wide /\ most[10] = wide
      /\ most[11] = d /\ most[12] = cis /\ most[13] = cis
  BY <1>same
<1> HIDE DEF last
<1> DEFINE full == most \o last
<1>6. /\ full \in Seq(Nat) /\ Len(full) = IF SharedIn(h) THEN 13 ELSE 14
      /\ full[1] = most[1] /\ full[2] = most[2] /\ full[3] = most[3] /\ full[4] = most[4] /\ full[5] = most[5]
      /\ full[6] = most[6] /\ full[7] = most[7] /\ full[8] = most[8] /\ full[9] = most[9] /\ full[10] = most[10]
      /\ full[11] = most[11] /\ full[12] = most[12] /\ full[13] = most[13]
      /\ ~SharedIn(h) => full[14] = v
  <2>1. Fourteen(full, most, v, SharedIn(h), Nat)
    <3>1. \A x \in Seq(Nat), y \in Seq(Nat) : \A u, b :
            Len(x) = 13 /\ Len(y) = (IF b THEN 0 ELSE 1) /\ (~b => y[1] = u) => Fourteen(x \o y, x, u, b, Nat)
      BY FourteenAre
    <3> QED BY <1>3, <1>4, <3>1, Zenon
  <2> HIDE DEF full
  <2> QED BY <2>1 DEF Fourteen
<1> HIDE DEF full
<1>7. LET s == InitSizes(h)
      IN  /\ s \in Seq(Nat) /\ Len(s) = Tensors(h)
          /\ s[1] = v /\ s[2] = layer /\ s[3] = square /\ s[4] = heads /\ s[5] = heads
          /\ s[6] = square /\ s[7] = layer /\ s[8] = wide /\ s[9] = wide /\ s[10] = wide
          /\ s[11] = d /\ s[12] = cis /\ s[13] = cis
          /\ ~SharedIn(h) => s[14] = v
  BY <1>1, <1>5, <1>6 DEF Tensors, full
<1> QED BY <1>7 DEF d, layer, v, square, heads, wide, cis

\* What calc_1 is called with.
LEMMA CallsAre ==
    ASSUME NEW h \in Plain
    PROVE  LET c == Calls(h)
               cis == <<HeadSize(h) \div 2, h.seq>>
           IN  /\ c \in Seq(Nat \X Nat) /\ Len(c) = Tensors(h)
               /\ c[1] = <<h.dim, Abs(h.vocab)>> /\ c[2] = <<h.dim, h.layers>>
               /\ c[3] = <<h.dim, h.dim * h.layers>> /\ c[4] = <<h.dim, KvDim(h) * h.layers>>
               /\ c[5] = <<h.dim, KvDim(h) * h.layers>> /\ c[6] = <<h.dim, h.dim * h.layers>>
               /\ c[7] = <<h.dim, h.layers>> /\ c[8] = <<h.hidden, h.dim * h.layers>>
               /\ c[9] = <<h.dim, h.hidden * h.layers>> /\ c[10] = <<h.hidden, h.dim * h.layers>>
               /\ c[11] = <<h.dim, 1>> /\ c[12] = cis /\ c[13] = cis
               /\ ~SharedIn(h) => c[14] = <<h.dim, Abs(h.vocab)>>
<1> DEFINE P == Nat \X Nat
           v == <<h.dim, Abs(h.vocab)>>
           layer == <<h.dim, h.layers>>
           square == <<h.dim, h.dim * h.layers>>
           heads == <<h.dim, KvDim(h) * h.layers>>
           wide == <<h.hidden, h.dim * h.layers>>
           high == <<h.dim, h.hidden * h.layers>>
           one == <<h.dim, 1>>
           cis == <<HeadSize(h) \div 2, h.seq>>
           most == <<v, layer, square, heads, heads, square, layer, wide, high, wide, one, cis, cis>>
           last == IF SharedIn(h) THEN << >> ELSE <<v>>
<1>ints. /\ AsInt(h.dim * h.layers) = h.dim * h.layers /\ AsInt(KvDim(h) * h.layers) = KvDim(h) * h.layers
         /\ AsInt(h.hidden * h.layers) = h.hidden * h.layers
  BY IntsAre
<1>1. Calls(h) = most \o last
  BY <1>ints, Zenon DEF Calls
<1>2. /\ v \in P /\ layer \in P /\ square \in P /\ heads \in P /\ wide \in P /\ high \in P /\ one \in P /\ cis \in P
  <2>1. h.dim \in Nat /\ h.layers \in Nat /\ Abs(h.vocab) \in Nat /\ KvDim(h) \in Nat /\ h.hidden \in Nat
        /\ h.seq \in Nat /\ HeadSize(h) \div 2 \in Nat
    BY HeaderIs
  <2>2. h.dim * h.layers \in Nat /\ KvDim(h) * h.layers \in Nat /\ h.hidden * h.layers \in Nat
    BY <2>1, Products
  <2> QED BY <2>1, <2>2
<1> HIDE DEF P, v, layer, square, heads, wide, high, one, cis
<1>3. most \in Seq(P) /\ Len(most) = 13
  BY <1>2
<1>4. last \in Seq(P) /\ Len(last) = (IF SharedIn(h) THEN 0 ELSE 1) /\ (~SharedIn(h) => last[1] = v)
  BY <1>2
<1>5. /\ most[1] = v /\ most[2] = layer /\ most[3] = square /\ most[4] = heads /\ most[5] = heads
      /\ most[6] = square /\ most[7] = layer /\ most[8] = wide /\ most[9] = high /\ most[10] = wide
      /\ most[11] = one /\ most[12] = cis /\ most[13] = cis
  OBVIOUS
<1> HIDE DEF most, last
<1> DEFINE full == most \o last
<1>6. /\ full \in Seq(P) /\ Len(full) = IF SharedIn(h) THEN 13 ELSE 14
      /\ full[1] = most[1] /\ full[2] = most[2] /\ full[3] = most[3] /\ full[4] = most[4] /\ full[5] = most[5]
      /\ full[6] = most[6] /\ full[7] = most[7] /\ full[8] = most[8] /\ full[9] = most[9] /\ full[10] = most[10]
      /\ full[11] = most[11] /\ full[12] = most[12] /\ full[13] = most[13]
      /\ ~SharedIn(h) => full[14] = v
  <2>1. Fourteen(full, most, v, SharedIn(h), P)
    <3>1. \A x \in Seq(P), y \in Seq(P) : \A u, b :
            Len(x) = 13 /\ Len(y) = (IF b THEN 0 ELSE 1) /\ (~b => y[1] = u) => Fourteen(x \o y, x, u, b, P)
      BY FourteenAre
    <3> QED BY <1>3, <1>4, <3>1, Zenon
  <2> HIDE DEF full
  <2> QED BY <2>1 DEF Fourteen
<1> HIDE DEF full
<1>7. LET s == Calls(h)
      IN  /\ s \in Seq(P) /\ Len(s) = Tensors(h)
          /\ s[1] = v /\ s[2] = layer /\ s[3] = square /\ s[4] = heads /\ s[5] = heads
          /\ s[6] = square /\ s[7] = layer /\ s[8] = wide /\ s[9] = high /\ s[10] = wide
          /\ s[11] = one /\ s[12] = cis /\ s[13] = cis
          /\ ~SharedIn(h) => s[14] = v
  BY <1>1, <1>5, <1>6 DEF Tensors, full
<1> QED BY <1>7 DEF P, v, layer, square, heads, wide, high, one, cis

\* What each call of calc_1 converts is the tensor llama_info_model has there.
LEMMA CallsFill ==
    ASSUME NEW h \in Plain
    PROVE  LET s == llama_info_model(h)
               c == Calls(h)
           IN  \A i \in 1 .. Tensors(h) : /\ c[i] \in Nat \X Nat /\ c[i][1] * c[i][2] = s[i] /\ c[i][2] >= 1
                                          /\ i \notin {12, 13} \/ HeadSize(h) # 1 => c[i][1] >= 1
<1> DEFINE s == llama_info_model(h)
           c == Calls(h)
           d == h.dim
           f == h.hidden
           l == h.layers
           v == Abs(h.vocab)
           k == KvDim(h)
           r == HeadSize(h) \div 2
           z == h.seq
<1>1. /\ d \in Nat /\ d >= 1 /\ f \in Nat /\ f >= 1 /\ l \in Nat /\ l >= 1 /\ v \in Nat /\ v >= 1
      /\ k \in Nat /\ k >= 1 /\ r \in Nat /\ z \in Nat /\ z >= 1 /\ (HeadSize(h) # 1 => r >= 1)
  BY HeaderIs
<1>2. /\ s[1] = d * v /\ s[2] = d * l /\ s[3] = (d * l) * d /\ s[4] = (d * l) * k /\ s[5] = (d * l) * k
      /\ s[6] = (d * l) * d /\ s[7] = d * l /\ s[8] = (d * l) * f /\ s[9] = (d * l) * f
      /\ s[10] = (d * l) * f /\ s[11] = d /\ s[12] = r * z /\ s[13] = r * z
      /\ ~SharedIn(h) => s[14] = d * v
  BY SizesAre
<1>3. /\ c \in Seq(Nat \X Nat) /\ Len(c) = Tensors(h)
      /\ c[1] = <<d, v>> /\ c[2] = <<d, l>> /\ c[3] = <<d, d * l>> /\ c[4] = <<d, k * l>> /\ c[5] = <<d, k * l>>
      /\ c[6] = <<d, d * l>> /\ c[7] = <<d, l>> /\ c[8] = <<f, d * l>> /\ c[9] = <<d, f * l>>
      /\ c[10] = <<f, d * l>> /\ c[11] = <<d, 1>> /\ c[12] = <<r, z>> /\ c[13] = <<r, z>>
      /\ ~SharedIn(h) => c[14] = <<d, v>>
  BY CallsAre
<1> HIDE DEF s, c, d, f, l, v, k, r, z
<1> DEFINE Fills(i) == c[i][1] * c[i][2] = s[i] /\ c[i][2] >= 1
           Some(i) == c[i][1] >= 1
<1>4. /\ d * l >= 1 /\ k * l >= 1 /\ f * l >= 1 /\ d * l \in Nat /\ k * l \in Nat /\ f * l \in Nat
      /\ d * (d * l) = (d * l) * d /\ d * (k * l) = (d * l) * k /\ f * (d * l) = (d * l) * f
      /\ d * (f * l) = (d * l) * f /\ d * 1 = d
  <2>1. /\ d * l >= 1 /\ k * l >= 1 /\ f * l >= 1 /\ d * l \in Nat /\ k * l \in Nat /\ f * l \in Nat
    BY <1>1, Products
  <2>2. d * (d * l) = (d * l) * d /\ d * (k * l) = (d * l) * k
    BY <1>1, Products
  <2>3. d * (f * l) = (d * l) * f /\ f * (d * l) = (d * l) * f
    <3>1. f * (d * l) = (d * l) * f
      BY <1>1, <2>1, Products
    <3> QED BY <1>1, <3>1, Products
  <2> QED BY <1>1, <2>1, <2>2, <2>3
<1>5. Fills(1) /\ Fills(2) /\ Fills(3) /\ Fills(4) /\ Fills(5) /\ Fills(6) /\ Fills(7)
  BY ONLY <1>1, <1>2, <1>3, <1>4
<1>6. Fills(8) /\ Fills(9) /\ Fills(10) /\ Fills(11)
  BY ONLY <1>1, <1>2, <1>3, <1>4
<1>7. Fills(12) /\ Fills(13) /\ (~SharedIn(h) => Fills(14))
  <2>1. Fills(12) /\ Fills(13)
    BY ONLY <1>1, <1>2, <1>3
  <2>2. ASSUME ~SharedIn(h) PROVE Fills(14)
    <3>1. s[14] = d * v /\ c[14] = <<d, v>>
      BY <1>2, <1>3, <2>2
    <3> QED BY ONLY <1>1, <3>1
  <2> QED BY <2>1, <2>2
<1>8. /\ Some(1) /\ Some(2) /\ Some(3) /\ Some(4) /\ Some(5) /\ Some(6) /\ Some(7) /\ Some(8) /\ Some(9) /\ Some(10)
      /\ Some(11) /\ (HeadSize(h) # 1 => Some(12) /\ Some(13)) /\ (~SharedIn(h) => Some(14))
  <2>1. /\ Some(1) /\ Some(2) /\ Some(3) /\ Some(4) /\ Some(5) /\ Some(6) /\ Some(7)
        /\ Some(8) /\ Some(9) /\ Some(10) /\ Some(11)
    BY ONLY <1>1, <1>3
  <2>2. c[12][1] = r /\ c[13][1] = r
    BY ONLY <1>3
  <2>3. HeadSize(h) # 1 => Some(12) /\ Some(13)
    BY <1>1, <2>2
  <2>4. ASSUME ~SharedIn(h) PROVE Some(14)
    <3>1. c[14] = <<d, v>>
      BY <1>3, <2>4
    <3> QED BY ONLY <1>1, <3>1
  <2> HIDE DEF Some
  <2> QED BY <2>1, <2>3, <2>4
<1> HIDE DEF Fills, Some
<1>9. \A i \in 1 .. Tensors(h) : Fills(i) /\ (i \notin {12, 13} \/ HeadSize(h) # 1 => Some(i))
  <2> TAKE i \in 1 .. Tensors(h)
  <2>1. \/ i = 1 \/ i = 2 \/ i = 3 \/ i = 4 \/ i = 5 \/ i = 6 \/ i = 7 \/ i = 8 \/ i = 9 \/ i = 10 \/ i = 11
        \/ i = 12 \/ i = 13 \/ (i = 14 /\ ~SharedIn(h))
    BY DEF Tensors
  <2> QED BY ONLY <1>5, <1>6, <1>7, <1>8, <2>1
<1>10. \A i \in 1 .. Tensors(h) : c[i] \in Nat \X Nat
  BY <1>3
<1> QED BY <1>9, <1>10 DEF Fills, Some, s, c

\* llama_initmodel looks for each tensor it reads where it is, but for what comes behind
\* the rotations of an odd head.
LEMMA PlacesAgree ==
    ASSUME NEW h \in Plain,
           NEW i \in 1 .. Tensors(h), i \notin {12, 13}, i = 14 => HeadSize(h) % 2 = 0
    PROVE  /\ InitSizes(h)[i] = llama_info_model(h)[i]
           /\ Offset(InitSizes(h), i) = Offset(llama_info_model(h), i)
<1> DEFINE s == llama_info_model(h)
           t == InitSizes(h)
           d == h.dim
           f == h.hidden
           l == h.layers
           v == Abs(h.vocab)
           k == KvDim(h)
           n == HeadSize(h)
           z == h.seq
<1>1. /\ d \in Nat /\ f \in Nat /\ l \in Nat /\ v \in Nat /\ k \in Nat /\ n \in Nat /\ z \in Nat /\ n \div 2 \in Nat
  BY HeaderIs
<1>2. /\ s \in Seq(Nat) /\ Len(s) = Tensors(h)
      /\ s[1] = d * v /\ s[2] = d * l /\ s[3] = (d * l) * d /\ s[4] = (d * l) * k /\ s[5] = (d * l) * k
      /\ s[6] = (d * l) * d /\ s[7] = d * l /\ s[8] = (d * l) * f /\ s[9] = (d * l) * f
      /\ s[10] = (d * l) * f /\ s[11] = d /\ s[12] = (n \div 2) * z /\ s[13] = (n \div 2) * z
      /\ ~SharedIn(h) => s[14] = d * v
  BY SizesAre
<1>3. /\ t \in Seq(Nat) /\ Len(t) = Tensors(h)
      /\ t[1] = v * d /\ t[2] = l * d /\ t[3] = (l * d) * d /\ t[4] = (l * d) * k /\ t[5] = (l * d) * k
      /\ t[6] = (l * d) * d /\ t[7] = l * d /\ t[8] = (l * d) * f /\ t[9] = (l * d) * f
      /\ t[10] = (l * d) * f /\ t[11] = d /\ t[12] = (z * n) \div 2 /\ t[13] = (z * n) \div 2
      /\ ~SharedIn(h) => t[14] = v * d
  BY InitSizesAre
<1> HIDE DEF s, t, d, f, l, v, k, z
<1>4. d * v = v * d /\ d * l = l * d
  BY <1>1, Products
<1>5. /\ s[1] = t[1] /\ s[2] = t[2] /\ s[3] = t[3] /\ s[4] = t[4] /\ s[5] = t[5] /\ s[6] = t[6]
      /\ s[7] = t[7] /\ s[8] = t[8] /\ s[9] = t[9] /\ s[10] = t[10] /\ s[11] = t[11]
      /\ ~SharedIn(h) => s[14] = t[14]
  BY ONLY <1>2, <1>3, <1>4
<1>6. n % 2 = 0 => s[12] = t[12] /\ s[13] = t[13]
  <2> SUFFICES ASSUME n % 2 = 0 PROVE (z * n) \div 2 = (n \div 2) * z
    BY <1>2, <1>3
  <2> DEFINE e == n \div 2
  <2>1. e \in Nat /\ n = 2 * e
    BY <1>1
  <2> HIDE DEF e, n
  <2>2. z * n = 2 * (e * z) /\ e * z \in Nat
    BY ONLY <1>1, <2>1
  <2> DEFINE p == e * z
  <2>3. p \in Nat /\ z * n = 2 * p
    BY <2>2
  <2> HIDE DEF p
  <2>4. (z * n) \div 2 = p
    BY <2>3
  <2> QED BY <2>4 DEF p, e
<1> HIDE DEF n
<1>7. \A j \in 1 .. 11 : s[j] = t[j]
  <2> TAKE j \in 1 .. 11
  <2>1. \/ j = 1 \/ j = 2 \/ j = 3 \/ j = 4 \/ j = 5 \/ j = 6 \/ j = 7 \/ j = 8 \/ j = 9 \/ j = 10 \/ j = 11
    OBVIOUS
  <2> QED BY ONLY <1>5, <2>1
<1>8. Tensors(h) \in {13, 14} /\ (i = 14 => ~SharedIn(h))
  BY DEF Tensors
<1>9. CASE i \in 1 .. 11
  <2>1. s[i] = t[i]
    BY <1>7, <1>9
  <2>2. \A j \in 1 .. 11 + 1 : Offset(s, j) = Offset(t, j)
    <3>1. 11 \in Nat /\ 11 <= Len(s) /\ 11 <= Len(t)
      <4>1. Len(s) = Tensors(h) /\ Len(t) = Tensors(h) /\ Tensors(h) \in {13, 14}
        BY <1>2, <1>3, <1>8
      <4> QED BY ONLY <4>1
    <3> QED BY <1>2, <1>3, <1>7, <3>1, OffsetsAgree
  <2> QED BY <1>9, <2>1, <2>2 DEF s, t
<1>10. CASE i = 14
  <2>1. n % 2 = 0
    BY <1>10 DEF n
  <2>2. \A j \in 1 .. 13 : s[j] = t[j]
    <3> TAKE j \in 1 .. 13
    <3>1. j \in 1 .. 11 \/ j = 12 \/ j = 13
      OBVIOUS
    <3> QED BY <1>6, <1>7, <2>1, <3>1
  <2>3. \A j \in 1 .. 13 + 1 : Offset(s, j) = Offset(t, j)
    <3>1. 13 \in Nat /\ 13 <= Len(s) /\ 13 <= Len(t)
      <4>1. Len(s) = Tensors(h) /\ Len(t) = Tensors(h) /\ Tensors(h) \in {13, 14}
        BY <1>2, <1>3, <1>8
      <4> QED BY ONLY <4>1
    <3> QED BY <1>2, <1>3, <2>2, <3>1, OffsetsAgree
  <2>4. 14 \in 1 .. 13 + 1
    OBVIOUS
  <2> QED BY <1>5, <1>8, <1>10, <2>3, <2>4 DEF s, t
<1>11. i \in 1 .. 11 \/ i = 14
  BY <1>8
<1> QED BY <1>9, <1>10, <1>11

----------------------------------------------------------------------------
(* The copy, chunk by chunk. *)

Sizes == llama_info_model(header)
Shape(i) == Doubled(Calls(header)[i])

\* The copy has all numbers of a file that has all of its own, or ends at the rotations
\* of a head too narrow to have any.
Complete ==
    numbers = Total(Sizes) =>
      \/ Len(copy) = Total(Sizes)
      \/ HeadSize(header) = 1 /\ Len(copy) >= Offset(Sizes, 12)

\* What llama_initmodel has read.
Slice(i) ==
    LET from == Offset(InitSizes(header), i)
        size == InitSizes(header)[i]
    IN  SubSeq(copy, from + 1, IF from + size < Len(copy) THEN from + size ELSE Len(copy))
NameAt(name) == CHOOSE i \in DOMAIN Names : Names[i] = name
Read == [name \in ToSet(Names) \ NotRead |->
           IF name = "wcls" /\ SharedIn(header) THEN Slice(NameAt("token_embedding_table")) ELSE Slice(NameAt(name))]

\* The inductive invariant: the copy holds the upper halves of the numbers read, which
\* are those of the calls made and of the chunks of this one.
CopyInv ==
    /\ header \in Plain /\ numbers \in Int
    /\ Uppers(copy)
    /\ part \in 1 .. Tensors(header) + 1 /\ chunks \in Nat
    /\ copying = "quanti" =>
         /\ part \in 1 .. Tensors(header) => /\ chunks < Shape(part)[2]
                                             /\ Len(copy) = Offset(Sizes, part) + chunks * Shape(part)[1]
         /\ part = Tensors(header) + 1 => Len(copy) = Offset(Sizes, part)
    /\ copying \in {"exit", "copied", "loaded"} => Complete
    /\ copying = "loaded" => loaded = Read

\* One chunk more of as many as there are.
LEMMA ChunksAre ==
    ASSUME NEW a \in Nat, NEW b \in Nat, NEW c \in Nat, c < b
    PROVE  /\ c * a \in Nat /\ b * a = a * b /\ c * a + a <= b * a
           /\ (c + 1) * a = c * a + a /\ (c + 1 >= b => c * a + a = b * a)
<1>1. c * a \in Nat /\ b * a \in Nat /\ b * a = a * b /\ (c + 1) * a = c * a + a
  OBVIOUS
<1> DEFINE e == b - (c + 1)
<1>2. e \in Nat /\ b = (c + 1) + e
  OBVIOUS
<1> HIDE DEF e
<1>3. ((c + 1) + e) * a = (c + 1) * a + e * a /\ e * a \in Nat
  BY ONLY <1>2, a \in Nat, c \in Nat
<1>4. c * a + a <= b * a
  <2>1. b * a = (c + 1) * a + e * a
    BY <1>2, <1>3
  <2> DEFINE x == c * a
             y == b * a
             full == (c + 1) * a
             u == e * a
  <2>2. x \in Nat /\ y \in Nat /\ full = x + a /\ u \in Nat /\ y = full + u
    BY <1>1, <1>3, <2>1
  <2> HIDE DEF x, y, full, u
  <2>3. x + a <= y
    BY ONLY <2>2, a \in Nat
  <2> QED BY <2>3 DEF x, y
<1>5. c + 1 >= b => b = c + 1
  OBVIOUS
<1>6. c + 1 >= b => c * a + a = b * a
  BY <1>1, <1>5
<1> QED BY <1>1, <1>4, <1>6

\* The shapes of the calls.
LEMMA ShapesAre ==
    ASSUME header \in Plain
    PROVE  /\ Sizes \in Seq(Nat) /\ Len(Sizes) = Tensors(header)
           /\ DOMAIN Calls(header) = 1 .. Tensors(header)
           /\ \A i \in 1 .. Tensors(header) :
                /\ Shape(i)[1] \in Nat /\ Shape(i)[2] \in Nat /\ Shape(i)[2] >= 1
                /\ Shape(i)[1] * Shape(i)[2] = Sizes[i]
                /\ Offset(Sizes, i) \in Nat /\ Sizes[i] \in Nat
                /\ Offset(Sizes, i + 1) = Offset(Sizes, i) + Sizes[i]
                /\ Offset(Sizes, i + 1) <= Total(Sizes)
                /\ Shape(i)[1] = 0 => HeadSize(header) = 1 /\ Offset(Sizes, 12) <= Offset(Sizes, i)
           /\ Offset(Sizes, 1) = 0 /\ Total(Sizes) = Offset(Sizes, Tensors(header) + 1) /\ Total(Sizes) \in Nat
<1> DEFINE n == Tensors(header)
           c == Calls(header)
<1>1. Sizes \in Seq(Nat) /\ Len(Sizes) = n
  BY SizesAre DEF Sizes
<1>2. c \in Seq(Nat \X Nat) /\ Len(c) = n
  BY CallsAre
<1>3. DOMAIN c = 1 .. n
  BY <1>2
<1>4. n \in {13, 14}
  BY DEF Tensors
<1>5. Offset(Sizes, 1) = 0 /\ Total(Sizes) = Offset(Sizes, n + 1) /\ Total(Sizes) \in Nat
  <2>1. n + 1 \in 1 .. Len(Sizes) + 1
    BY <1>1, <1>4
  <2>2. Offset(Sizes, n + 1) \in Nat
    BY <1>1, <2>1, OffsetsAre
  <2> QED BY <1>1, <2>2, OffsetsAre DEF Total
<1> HIDE DEF n
<1>6. ASSUME NEW i \in 1 .. n
      PROVE  /\ Shape(i)[1] \in Nat /\ Shape(i)[2] \in Nat /\ Shape(i)[2] >= 1
             /\ Shape(i)[1] * Shape(i)[2] = Sizes[i]
             /\ Offset(Sizes, i) \in Nat /\ Sizes[i] \in Nat
             /\ Offset(Sizes, i + 1) = Offset(Sizes, i) + Sizes[i]
             /\ Offset(Sizes, i + 1) <= Total(Sizes)
             /\ Shape(i)[1] = 0 => HeadSize(header) = 1 /\ Offset(Sizes, 12) <= Offset(Sizes, i)
  <2>1. /\ c[i] \in Nat \X Nat /\ c[i][1] * c[i][2] = Sizes[i] /\ c[i][2] >= 1
        /\ i \notin {12, 13} \/ HeadSize(header) # 1 => c[i][1] >= 1
    BY CallsFill DEF Sizes, n
  <2>2. /\ Shape(i) \in Nat \X Nat /\ Shape(i)[1] * Shape(i)[2] = Sizes[i] /\ Shape(i)[2] >= 1
        /\ c[i][1] >= 1 => Shape(i)[1] >= 1
    BY <2>1, DoubledIs DEF Shape
  <2>3. i \in 1 .. Len(Sizes) /\ i \in 1 .. Len(Sizes) + 1 /\ i + 1 \in 1 .. Len(Sizes) + 1
        /\ n + 1 \in i + 1 .. Len(Sizes) + 1
    BY <1>1, <1>4
  <2>4. /\ Offset(Sizes, i) \in Nat /\ Sizes[i] \in Nat
        /\ Offset(Sizes, i + 1) = Offset(Sizes, i) + Sizes[i]
    BY <1>1, <2>3, OffsetsAre
  <2>5. Offset(Sizes, i + 1) <= Total(Sizes)
    BY <1>1, <1>5, <2>3, OffsetsGrow
  <2>6. Shape(i)[1] = 0 => HeadSize(header) = 1 /\ i \in {12, 13}
    BY <2>1, <2>2
  <2>7. i \in {12, 13} => 12 \in 1 .. Len(Sizes) + 1 /\ i \in 12 .. Len(Sizes) + 1
    BY <2>3
  <2>8. i \in {12, 13} => Offset(Sizes, 12) <= Offset(Sizes, i)
    BY <1>1, <2>7, OffsetsGrow
  <2> QED BY <2>2, <2>4, <2>5, <2>6, <2>8
<1> QED BY <1>1, <1>3, <1>5, <1>6 DEF n

\* One chunk.
LEMMA ChunkStep == CopyInv /\ calc_1 => CopyInv'
<1> SUFFICES ASSUME CopyInv, calc_1  PROVE CopyInv'
  OBVIOUS
<1> DEFINE n == Tensors(header)
           a == Shape(part)[1]
           b == Shape(part)[2]
           end == Offset(Sizes, part + 1)
<1>1. /\ copying = "quanti" /\ part \in DOMAIN Calls(header)
      /\ header' = header /\ numbers' = numbers /\ loaded' = loaded
      /\ IF Len(copy) + a > numbers \/ a = 0
         THEN copying' = "exit" /\ part' = part /\ chunks' = chunks /\ copy' = copy
         ELSE /\ copy' = copy \o fp32tobf16(Len(copy) + 1, a)
              /\ IF b >= 0 /\ chunks + 1 >= b THEN part' = part + 1 /\ chunks' = 0
                                              ELSE chunks' = chunks + 1 /\ part' = part
              /\ copying' = copying
  BY DEF calc_1, Shape
<1>2. /\ header \in Plain /\ numbers \in Int /\ Uppers(copy) /\ chunks \in Nat
      /\ part \in 1 .. n /\ part \in 1 .. n + 1
      /\ chunks < b /\ Len(copy) = Offset(Sizes, part) + chunks * a
  BY <1>1, ShapesAre DEF CopyInv
<1>3. /\ a \in Nat /\ b \in Nat /\ a * b = Sizes[part] /\ Offset(Sizes, part) \in Nat /\ Sizes[part] \in Nat
      /\ end = Offset(Sizes, part) + Sizes[part] /\ end <= Total(Sizes) /\ end \in Nat /\ Total(Sizes) \in Nat
      /\ a = 0 => HeadSize(header) = 1 /\ Offset(Sizes, 12) <= Offset(Sizes, part)
      /\ n \in {13, 14}
  <2>1. n \in {13, 14}
    BY DEF Tensors
  <2> HIDE DEF n
  <2>2. /\ a \in Nat /\ b \in Nat /\ a * b = Sizes[part] /\ Offset(Sizes, part) \in Nat /\ Sizes[part] \in Nat
        /\ end = Offset(Sizes, part) + Sizes[part] /\ end <= Total(Sizes) /\ Total(Sizes) \in Nat
        /\ a = 0 => HeadSize(header) = 1 /\ Offset(Sizes, 12) <= Offset(Sizes, part)
    BY <1>2, ShapesAre DEF n
  <2>3. end \in Nat
    <3> DEFINE x == Offset(Sizes, part)
               y == Sizes[part]
    <3>1. x \in Nat /\ y \in Nat /\ end = x + y
      BY <2>2
    <3> HIDE DEF x, y, end
    <3> QED BY ONLY <3>1
  <2> HIDE DEF a, b, end
  <2> QED BY <2>1, <2>2, <2>3
<1>4. /\ chunks * a \in Nat /\ chunks * a + a <= Sizes[part] /\ (chunks + 1) * a = chunks * a + a
      /\ chunks + 1 >= b => chunks * a + a = Sizes[part]
  <2> HIDE DEF a, b
  <2>1. a \in Nat /\ b \in Nat /\ chunks \in Nat /\ chunks < b /\ a * b = Sizes[part]
    BY <1>2, <1>3
  <2> QED BY <2>1, ChunksAre
<1>count. b >= 0
  <2> HIDE DEF b
  <2> QED BY <1>3
<1> DEFINE done == chunks * a
           off == Offset(Sizes, part)
           size == Sizes[part]
<1> HIDE DEF a, b, done, off, size, end
<1>5. Len(copy) \in Nat /\ Len(copy) = off + done /\ off \in Nat /\ done \in Nat
      /\ size \in Nat /\ done + a <= size /\ end = off + size /\ end <= Total(Sizes)
  BY <1>2, <1>3, <1>4 DEF done, off, size
<1>6. CASE Len(copy) + a > numbers \/ a = 0
  <2>1. Complete
    <3> SUFFICES ASSUME numbers = Total(Sizes) PROVE HeadSize(header) = 1 /\ Len(copy) >= Offset(Sizes, 12)
      BY DEF Complete
    <3>1. Len(copy) + a <= Total(Sizes)
      BY ONLY <1>3, <1>5
    <3>2. a = 0
      BY <1>3, <1>5, <1>6, <3>1
    <3>3. HeadSize(header) = 1 /\ Offset(Sizes, 12) <= off
      BY <1>3, <3>2 DEF off
    <3>4. 12 \in 1 .. n
      BY <1>3
    <3>5. Offset(Sizes, 12) \in Nat
      BY <1>2, <3>4, ShapesAre
    <3> QED BY ONLY <1>5, <3>3, <3>5
  <2> QED BY <1>1, <1>2, <1>6, <2>1 DEF CopyInv, Complete, Sizes
<1>7. CASE ~(Len(copy) + a > numbers \/ a = 0)
  <2> DEFINE m == fp32tobf16(Len(copy) + 1, a)
             H == Nat \X {"high", "low"}
             k == Len(copy)
  <2>1. copy \in Seq(H) /\ \A i \in 1 .. k : copy[i] = <<i, "high">>
    BY <1>2 DEF Uppers
  <2>2. /\ m \in Seq(H) /\ Len(m) = a
        /\ \A i \in 1 .. a : m[i] = <<(k + 1) + (i - 1), "high">>
    <3>1. k + 1 \in Nat /\ a \in Nat
      BY <1>3, <1>5
    <3> QED BY <3>1, UppersMove
  <2>3. copy' = copy \o m
    BY <1>1, <1>7
  <2> HIDE DEF m, H
  <2>4. /\ copy' \in Seq(H) /\ Len(copy') = k + a
        /\ \A i \in 1 .. k : copy'[i] = copy[i]
        /\ \A i \in 1 .. a : copy'[k + i] = m[i]
    <3>1. \A x, y \in Seq(H) : Follows(x \o y, x, y, H)
      BY BehindEachOther DEF Follows
    <3>2. Follows(copy', copy, m, H)
      BY <2>1, <2>2, <2>3, <3>1, Zenon
    <3> QED BY <2>2, <3>2 DEF Follows
  <2> HIDE DEF k
  <2>5. k \in Nat /\ a \in Nat /\ k = Len(copy)
    BY <1>3, <1>5 DEF k
  <2>6. \A i \in 1 .. Len(copy') : copy'[i] = <<i, "high">>
    <3> TAKE i \in 1 .. Len(copy')
    <3>1. CASE i \in 1 .. k
      BY <2>1, <2>4, <3>1
    <3>2. CASE i \notin 1 .. k
      <4>1. i - k \in 1 .. a /\ k + (i - k) = i /\ (k + 1) + ((i - k) - 1) = i
        BY <2>4, <2>5, <3>2
      <4> QED BY <2>2, <2>4, <4>1
    <3> QED BY <3>1, <3>2
  <2>7. Uppers(copy') /\ Len(copy') = Len(copy) + a
    BY <2>4, <2>5, <2>6 DEF Uppers, H
  <2>8. header' = header /\ numbers' = numbers /\ copying' = "quanti"
    BY <1>1, <1>7
  <2>9. CASE chunks + 1 >= b
    <3>1. part' = part + 1 /\ chunks' = 0
      BY <1>1, <1>7, <1>count, <2>9
    <3>2. Len(copy') = end
      <4>1. done + a = size
        BY <1>4, <2>9 DEF done, size
      <4> QED BY <1>3, <1>5, <2>7, <4>1
    <3>3. /\ part' \in 1 .. n + 1
          /\ part' \in 1 .. n => chunks' < Shape(part')[2] /\ chunks' * Shape(part')[1] = 0
      <4>1. part + 1 \in 1 .. n + 1
        BY <1>2, <1>3
      <4>2. part + 1 \in 1 .. n => Shape(part + 1)[2] \in Nat /\ Shape(part + 1)[2] >= 1 /\ Shape(part + 1)[1] \in Nat
        BY <1>2, ShapesAre
      <4> QED BY <3>1, <4>1, <4>2
    <3>4. end = Offset(Sizes, part')
      BY <3>1 DEF end
    <3>5. Len(copy') = Offset(Sizes, part') /\ Len(copy') \in Nat
      BY <1>3, <3>2, <3>4
    <3>6. part' \in 1 .. n => Len(copy') = Offset(Sizes, part') + chunks' * Shape(part')[1]
      BY ONLY <3>3, <3>5
    <3> QED BY <1>2, <2>7, <2>8, <3>1, <3>3, <3>5, <3>6 DEF CopyInv, Sizes, Shape
  <2>10. CASE ~(chunks + 1 >= b)
    <3>1. part' = part /\ chunks' = chunks + 1
      BY <1>1, <1>7, <2>10
    <3>2. Len(copy') = off + (chunks + 1) * a
      <4>1. (chunks + 1) * a = done + a
        BY <1>4 DEF done
      <4> QED BY <1>3, <1>5, <2>7, <4>1
    <3>3. chunks + 1 \in Nat /\ chunks + 1 < b
      BY <1>2, <1>3, <2>10
    <3>4. part # n + 1
      BY <1>2, <1>3
    <3> QED BY <1>2, <2>7, <2>8, <3>1, <3>2, <3>3, <3>4 DEF CopyInv, Sizes, Shape, a, b, off
  <2> QED BY <2>9, <2>10
<1> QED BY <1>6, <1>7

\* The last call is done.
LEMMA CopyDone == CopyInv /\ llama_quanti => CopyInv'
<1> SUFFICES ASSUME CopyInv, llama_quanti  PROVE CopyInv'
  OBVIOUS
<1>1. /\ copying = "quanti" /\ part \notin DOMAIN Calls(header) /\ copying' = "copied"
      /\ UNCHANGED <<header, numbers, part, chunks, copy, loaded>>
  BY DEF llama_quanti
<1>2. header \in Plain /\ part \in 1 .. Tensors(header) + 1
  BY DEF CopyInv
<1>3. part = Tensors(header) + 1
  <2>1. DOMAIN Calls(header) = 1 .. Tensors(header) /\ Tensors(header) \in {13, 14}
    BY <1>2, ShapesAre DEF Tensors
  <2> QED BY ONLY <1>1, <1>2, <2>1
<1>4. Complete
  BY <1>1, <1>2, <1>3, ShapesAre DEF CopyInv, Complete
<1> QED BY <1>1, <1>4 DEF CopyInv, Complete, Sizes

\* The inference reads the copy.
LEMMA LoadStep == CopyInv /\ llama_initmodel => CopyInv'
<1> SUFFICES ASSUME CopyInv, llama_initmodel  PROVE CopyInv'
  OBVIOUS
<1> DEFINE sizes == InitSizes(header)
<1>1. copying \in {"copied", "exit"} /\ UNCHANGED <<header, numbers, part, chunks, copy>>
  BY DEF llama_initmodel
<1>2. ~ \E i \in DOMAIN sizes : sizes[i] < 0
  <2>1. sizes \in Seq(Nat)
    BY InitSizesAre DEF CopyInv
  <2> HIDE DEF sizes
  <2> QED BY <2>1
<1>3. loaded' = Read /\ copying' = "loaded"
  BY <1>2, Zenon DEF llama_initmodel, Read, Slice, NameAt
<1>4. Read' = Read
  BY <1>1 DEF Read, Slice, NameAt
<1> QED BY <1>1, <1>3, <1>4 DEF CopyInv, Complete, Sizes

LEMMA CopyInvHolds == WeightsSpec => [](InInts(header) => CopyInv)
<1> DEFINE I == InInts(header) => CopyInv
<1>1. WeightsInit => I
  <2> SUFFICES ASSUME WeightsInit, InInts(header) PROVE CopyInv
    OBVIOUS
  <2>1. header \in Plain /\ part = 1 /\ chunks = 0 /\ copy = << >> /\ loaded = << >> /\ copying = "quanti"
    BY DEF WeightsInit, WeightsFresh, Plain
  <2>2. numbers \in Int
    <3>1. PICK k \in {0} \cup Missing : numbers = Total(llama_info_model(header)) - k
      BY DEF WeightsInit
    <3>2. Total(Sizes) \in Nat /\ k \in Nat
      BY <2>1, ShapesAre, WeightsAssumption
    <3> QED BY <3>1, <3>2 DEF Sizes
  <2>3. Uppers(copy) /\ Len(copy) = 0
    BY <2>1 DEF Uppers
  <2>4. part \in 1 .. Tensors(header) /\ part \in 1 .. Tensors(header) + 1 /\ part # Tensors(header) + 1
    BY <2>1 DEF Tensors
  <2>5. /\ Shape(1)[1] \in Nat /\ Shape(1)[2] \in Nat /\ Shape(1)[2] >= 1 /\ Offset(Sizes, 1) = 0
    BY <2>1, <2>4, ShapesAre
  <2> QED BY <2>1, <2>2, <2>3, <2>4, <2>5 DEF CopyInv
<1>2. I /\ [WeightsStep]_weights => I'
  <2> SUFFICES ASSUME I, [WeightsStep]_weights, InInts(header)' PROVE CopyInv'
    OBVIOUS
  <2>1. header' = header
    BY DEF WeightsStep, weights, calc_1, llama_quanti, llama_initmodel
  <2>2. CopyInv
    BY <2>1 DEF InInts
  <2>3. CASE UNCHANGED weights
    <3>1. /\ header' = header /\ numbers' = numbers /\ copy' = copy /\ part' = part /\ chunks' = chunks
          /\ copying' = copying /\ loaded' = loaded
      BY <2>3 DEF weights
    <3>2. Read' = Read
      BY <3>1 DEF Read, Slice, NameAt
    <3>3. Complete' = Complete
      BY <3>1 DEF Complete, Sizes
    <3> QED BY <2>2, <3>1, <3>2, <3>3 DEF CopyInv, Sizes, Shape
  <2> QED BY <2>2, <2>3, ChunkStep, CopyDone, LoadStep DEF WeightsStep
<1> QED BY <1>1, <1>2, PTL DEF WeightsSpec

\* Where a tensor is listed.
LEMMA NameIs ==
    ASSUME NEW name \in ToSet(Names)
    PROVE  NameAt(name) \in 1 .. 14 /\ Names[NameAt(name)] = name
<1>1. DOMAIN Names = 1 .. 14
  BY DEF Names
<1>2. \E i \in DOMAIN Names : Names[i] = name
  BY DEF ToSet
<1> QED BY <1>1, <1>2 DEF NameAt

\* What is read of a copy at a place is the beginning of the tensor that is there, and
\* all of it where the copy goes that far.
LEMMA SliceIs ==
    ASSUME Uppers(copy), NEW from \in Nat, NEW size \in Nat
    PROVE  LET s == SubSeq(copy, from + 1, IF from + size < Len(copy) THEN from + size ELSE Len(copy))
               t == [k \in 1 .. size |-> <<from + k, "high">>]
           IN  IsPrefix(s, t) /\ (from + size <= Len(copy) => s = t)
<1> DEFINE n == Len(copy)
           top == IF from + size < n THEN from + size ELSE n
           H == Nat \X {"high", "low"}
           s == SubSeq(copy, from + 1, top)
           t == [k \in 1 .. size |-> <<from + k, "high">>]
           m == IF from < n THEN top - from ELSE 0
<1>1. copy \in Seq(H) /\ n \in Nat /\ \A k \in 1 .. n : copy[k] = <<k, "high">>
  BY DEF Uppers
<1>2. t \in Seq(H) /\ Len(t) = size
  <2>1. \A k \in 1 .. size : <<from + k, "high">> \in H
    OBVIOUS
  <2> HIDE DEF H
  <2>2. t \in [1 .. size -> H]
    BY <2>1
  <2> QED BY <2>2
<1> HIDE DEF n, H
<1>3. from + m <= n \/ m = 0
  BY <1>1
<1>4. m \in 0 .. size
  BY <1>1
<1>5. Len(s) = m /\ \A k \in 1 .. m : s[k] = copy[from + k]
  <2>1. CASE from < n
    <3>1. /\ from + 1 \in 1 .. n + 1 /\ top \in (from + 1) - 1 .. n /\ (top - (from + 1)) + 1 = m
          /\ m = top - from /\ n \in Nat /\ top \in Nat
          /\ \A k \in 1 .. m : ((from + 1) + k) - 1 = from + k
      BY <1>1, <2>1
    <3> HIDE DEF top, m
    <3>2. n = Len(copy)
      BY DEF n
    <3>3. Len(s) = (top - (from + 1)) + 1
      BY <1>1, <3>1, <3>2
    <3>4. \A k \in 1 .. (top - (from + 1)) + 1 : s[k] = copy[((from + 1) + k) - 1]
      BY <1>1, <3>1, <3>2
    <3> QED BY <3>1, <3>3, <3>4
  <2>2. CASE ~(from < n)
    <3>1. top = n /\ m = 0 /\ from + 1 > n
      BY <1>1, <2>2
    <3>2. s = << >>
      BY <1>1, <3>1
    <3>3. m = 0
      BY <3>1
    <3> HIDE DEF s, m
    <3> QED BY ONLY <3>2, <3>3
  <2> QED BY <2>1, <2>2
<1>6. \A k \in 1 .. m : s[k] = <<from + k, "high">>
  <2> TAKE k \in 1 .. m
  <2>1. from + k \in 1 .. n
    BY <1>1, <1>3
  <2> QED BY <1>1, <1>5, <2>1
<1>7. s \in Seq(H)
  BY <1>1 DEF n
<1>8. SubSeq(s, 1, m) = SubSeq(t, 1, m)
  <2>1. \A k \in 1 .. m : t[k] = <<from + k, "high">>
    BY <1>4
  <2> HIDE DEF s, t, m
  <2>2. Len(SubSeq(s, 1, m)) = m /\ Len(SubSeq(t, 1, m)) = m /\ SubSeq(s, 1, m) \in Seq(H) /\ SubSeq(t, 1, m) \in Seq(H)
    BY <1>2, <1>4, <1>5, <1>7
  <2>3. \A k \in 1 .. m : SubSeq(s, 1, m)[k] = s[k] /\ SubSeq(t, 1, m)[k] = t[k]
    BY <1>2, <1>4, <1>5, <1>7
  <2> DEFINE x == SubSeq(s, 1, m)
             y == SubSeq(t, 1, m)
  <2>4. \A k \in 1 .. m : x[k] = y[k]
    BY <1>6, <2>1, <2>3
  <2>5. x \in Seq(H) /\ y \in Seq(H) /\ Len(x) = m /\ Len(y) = m
    BY <2>2
  <2> HIDE DEF x, y
  <2>6. x = y
    BY ONLY <2>4, <2>5
  <2> QED BY <2>6 DEF x, y
<1>9. IsPrefix(s, t)
  <2>1. Len(s) <= Len(t) /\ SubSeq(s, 1, Len(s)) = SubSeq(t, 1, Len(s))
    <3> HIDE DEF s, t, m
    <3> QED BY <1>2, <1>4, <1>5, <1>8
  <2> HIDE DEF s, t
  <2> QED BY <2>1 DEF IsPrefix
<1>10. from + size <= n => s = t
  <2>1. from + size <= n => m = size
    <3> SUFFICES ASSUME from + size <= n PROVE m = size
      OBVIOUS
    <3>1. CASE from < n
      <4>1. top = from + size
        BY <1>1
      <4> HIDE DEF top
      <4> QED BY <3>1, <4>1
    <3>2. CASE ~(from < n)
      <4>1. m = 0
        BY <3>2
      <4>2. size = 0
        BY <1>1, <3>2
      <4> QED BY <4>1, <4>2
    <3> QED BY <3>1, <3>2
  <2>2. \A k \in 1 .. size : t[k] = <<from + k, "high">>
    OBVIOUS
  <2> HIDE DEF s, t, m
  <2>3. ASSUME m = size PROVE s = t
    <3>1. \A k \in 1 .. size : s[k] = t[k]
      BY <1>6, <2>2, <2>3
    <3>2. Len(s) = size /\ Len(t) = size
      BY <1>2, <1>5, <2>3
    <3> QED BY <1>2, <1>7, <3>1, <3>2
  <2> QED BY <2>1, <2>3
<1> QED BY <1>9, <1>10 DEF n

(* For any header of a model whose products are ints, any chunk and a file of any length:
   what the inference has of a tensor is the beginning of the upper halves of its numbers, and all of them where
   the file had all of its own, although the copy is written by one layout, measured by
   another and read by a third. *)
THEOREM WeightsRead == WeightsSpec => []ReadAsWritten
<1>1. (InInts(header) => CopyInv) => ReadAsWritten
  <2> DEFINE Place(name) == CHOOSE i \in DOMAIN Names : Names[i] = IF name = "wcls" /\ SharedIn(header)
                                                                 THEN "token_embedding_table" ELSE name
             Numbers(i) == [k \in 1 .. Sizes[i] |-> <<Offset(Sizes, i) + k, "high">>]
             Odd(name) == name = "wcls" /\ ~SharedIn(header) /\ HeadSize(header) % 2 = 1
  <2> SUFFICES ASSUME InInts(header) => CopyInv PROVE ReadAsWritten
    OBVIOUS
  <2> SUFFICES ASSUME CopyInv, copying = "loaded", NEW name \in DOMAIN loaded, ~Odd(name)
               PROVE  /\ IsPrefix(loaded[name], Numbers(Place(name)))
                      /\ numbers = Total(Sizes) => loaded[name] = Numbers(Place(name))
    BY Zenon DEF ReadAsWritten, Sizes
  <2> DEFINE want == IF name = "wcls" /\ SharedIn(header) THEN "token_embedding_table" ELSE name
             p == NameAt(want)
  <2>1. header \in Plain /\ Uppers(copy) /\ Complete /\ loaded = Read
    BY DEF CopyInv
  <2>2. name \in ToSet(Names) \ NotRead /\ loaded[name] = Slice(p)
    BY <2>1 DEF Read
  <2>3. Place(name) = p
    BY Zenon DEF NameAt
  <2>4. /\ want \in ToSet(Names) \ NotRead
        /\ want = "wcls" => ~SharedIn(header) /\ HeadSize(header) % 2 # 1
    <3>1. DOMAIN Names = 1 .. 14 /\ Names[1] = "token_embedding_table"
      BY DEF Names
    <3>2. "token_embedding_table" \in ToSet(Names) \ NotRead
      BY <3>1 DEF ToSet, NotRead
    <3> QED BY <2>2, <3>2
  <2> HIDE DEF want
  <2>5. p \in 1 .. 14 /\ Names[p] = want
    BY <2>4, NameIs
  <2> HIDE DEF p, Place
  <2>6. p \notin {12, 13} /\ (p = 14 => want = "wcls")
    <3>1. Names[12] = "freq_cis_real" /\ Names[13] = "freq_cis_imag" /\ Names[14] = "wcls"
      BY DEF Names
    <3> QED BY <2>4, <2>5, <3>1 DEF NotRead
  <2>7. HeadSize(header) \in Nat /\ (HeadSize(header) % 2 # 1 => HeadSize(header) % 2 = 0 /\ HeadSize(header) # 1)
    <3>1. HeadSize(header) \in Nat
      BY <2>1, HeaderIs
    <3> QED BY <3>1
  <2>8. p \in 1 .. Tensors(header) /\ (p = 14 => HeadSize(header) % 2 = 0)
    <3>1. Tensors(header) = IF SharedIn(header) THEN 13 ELSE 14
      BY DEF Tensors
    <3> QED BY <2>4, <2>5, <2>6, <2>7, <3>1
  <2>9. InitSizes(header)[p] = Sizes[p] /\ Offset(InitSizes(header), p) = Offset(Sizes, p)
    BY <2>1, <2>6, <2>8, PlacesAgree DEF Sizes
  <2> DEFINE from == Offset(Sizes, p)
             size == Sizes[p]
  <2>10. /\ from \in Nat /\ size \in Nat /\ Offset(Sizes, p + 1) = from + size
         /\ from + size <= Total(Sizes) /\ Total(Sizes) \in Nat
    BY <2>1, <2>8, ShapesAre
  <2>11. Slice(p) = SubSeq(copy, from + 1, IF from + size < Len(copy) THEN from + size ELSE Len(copy))
    BY <2>9 DEF Slice
  <2>12. numbers = Total(Sizes) => from + size <= Len(copy)
    <3> SUFFICES ASSUME numbers = Total(Sizes) PROVE from + size <= Len(copy)
      OBVIOUS
    <3>1. CASE Len(copy) = Total(Sizes)
      BY <2>10, <3>1
    <3>2. CASE HeadSize(header) = 1 /\ Len(copy) >= Offset(Sizes, 12)
      <4>1. p \in 1 .. 11
        BY <2>6, <2>7, <2>8, <3>2 DEF Tensors
      <4>2. Sizes \in Seq(Nat) /\ Len(Sizes) \in {13, 14}
        BY <2>1, ShapesAre DEF Tensors
      <4>3. p + 1 \in 1 .. Len(Sizes) + 1 /\ 12 \in p + 1 .. Len(Sizes) + 1 /\ 12 \in 1 .. Len(Sizes) + 1
        <5> DEFINE n == Len(Sizes)
        <5>1. n \in {13, 14}
          BY <4>2
        <5> HIDE DEF n
        <5>2. p + 1 \in 1 .. n + 1 /\ 12 \in p + 1 .. n + 1 /\ 12 \in 1 .. n + 1
          BY ONLY <4>1, <5>1
        <5> QED BY <5>2 DEF n
      <4>4. Offset(Sizes, p + 1) <= Offset(Sizes, 12) /\ Offset(Sizes, 12) \in Nat
        BY <4>2, <4>3, OffsetsAre, OffsetsGrow
      <4>5. Len(copy) \in Nat
        BY <2>1 DEF Uppers
      <4> HIDE DEF from, size
      <4> QED BY <2>10, <3>2, <4>4, <4>5
    <3> QED BY <2>1, <3>1, <3>2 DEF Complete
  <2>13. Numbers(p) = [k \in 1 .. size |-> <<from + k, "high">>]
    OBVIOUS
  <2> HIDE DEF Numbers, from, size
  <2>14. IsPrefix(Slice(p), Numbers(p)) /\ (from + size <= Len(copy) => Slice(p) = Numbers(p))
    BY <2>1, <2>10, <2>11, <2>13, SliceIs
  <2> QED BY <2>2, <2>3, <2>12, <2>14
<1> QED BY <1>1, CopyInvHolds, PTL

----------------------------------------------------------------------------
(* The sort of the sampling in Llama. *)

\* The entries of a list, each of another token.
Entries(b) == {b[k] : k \in 1 .. Len(b)}
Distinct(b) == \A k, l \in 1 .. Len(b) : b[k].index = b[l].index => k = l
Descending(b) == \A k, l \in 1 .. Len(b) : k < l => b[k].prob >= b[l].prob

\* A sequence with one element replaced.
LEMMA Replaced ==
    ASSUME NEW S, NEW b \in Seq(S), NEW i \in 1 .. Len(b), NEW x \in S
    PROVE  /\ [b EXCEPT ![i] = x] \in Seq(S)
           /\ Len([b EXCEPT ![i] = x]) = Len(b)
           /\ \A k \in 1 .. Len(b) : [b EXCEPT ![i] = x][k] = IF k = i THEN x ELSE b[k]
  OBVIOUS

\* A set of numbers up to a bound has a greatest one.
LEMMA MaxIs ==
    ASSUME NEW lo \in Nat, NEW hi \in Nat, NEW S \in SUBSET (lo .. hi), S # {}
    PROVE  Max(S) \in S /\ \A k \in S : k <= Max(S)
<1> DEFINE T == {hi - k : k \in S}
<1>1. T \in SUBSET Nat /\ T # {}
  <2>1. \A k \in S : hi - k \in Nat
    OBVIOUS
  <2> QED BY <2>1
<1>2. PICK n \in T : \A i \in T : n <= i
  <2> HIDE DEF T
  <2> QED BY <1>1, LeastNumber
<1>3. PICK k \in S : n = hi - k
  OBVIOUS
<1>4. \A i \in S : k >= i
  <2> SUFFICES ASSUME NEW i \in S  PROVE k >= i
    OBVIOUS
  <2>1. n <= hi - i
    BY <1>2
  <2>2. i \in Int /\ k \in Int /\ hi \in Int
    OBVIOUS
  <2> QED BY <1>3, <2>1, <2>2
<1> HIDE DEF T
<1>5. Max(S) \in S /\ \A i \in S : Max(S) >= i
  BY <1>4, Zenon DEF Max
<1>6. \A i \in S : i \in Int
  OBVIOUS
<1>7. \A x, y \in Int : x >= y => y <= x
  OBVIOUS
<1> QED BY <1>5, <1>6, <1>7, Zenon

\* And a least one.
LEMMA MinIs ==
    ASSUME NEW S \in SUBSET Nat, S # {}
    PROVE  Min(S) \in S /\ \A k \in S : Min(S) <= k
<1>1. PICK n \in S : \A i \in S : n <= i
  BY LeastNumber
<1> QED BY <1>1, Zenon DEF Min

\* Where a round of the quicksort leaves off.
Meets(v, h, l) ==
    /\ h \in v.l .. v.r /\ l \in v.l .. h
    /\ h = v.l \/ v.list[h].prob > v.x.prob
    /\ \A k \in h + 1 .. v.r : ~(v.list[k].prob > v.x.prob)
    /\ l = h \/ (l # v.l /\ v.list[l].prob < v.x.prob)
    /\ \A k \in v.l .. l - 1 : k = v.l \/ ~(v.list[k].prob < v.x.prob)

\* What it has moved by then.
Moved(v, h, l) == [[v.list EXCEPT ![v.l] = v.list[h]] EXCEPT
                     ![h] = IF l = v.l THEN v.list[h] ELSE v.list[l]]

\* A round of the quicksort.
LEMMA SweptIs ==
    ASSUME NEW v \in Sorting
    PROVE  \E h, l \in Nat : Meets(v, h, l)
             /\ Swept(v) = [list |-> Moved(v, h, l), l |-> l, r |-> h, x |-> v.x]
<1> DEFINE H == {k \in v.l .. v.r : k = v.l \/ v.list[k].prob > v.x.prob}
           h == Max(H)
           L == {k \in v.l .. h : k = h \/ (k # v.l /\ v.list[k].prob < v.x.prob)}
           l == Min(L)
<1>0. v.l \in Nat /\ v.r \in Nat /\ v.l <= v.r /\ 1 <= v.l /\ v.r <= Len(v.list) /\ v.list \in Seq(ProbIndex)
  BY DEF Sorting
<1>1. h \in H /\ \A k \in H : k <= h
  <2>1. H \in SUBSET (v.l .. v.r) /\ v.l \in H
    BY <1>0
  <2> HIDE DEF H
  <2> QED BY <1>0, <2>1, MaxIs
<1>2. h \in v.l .. v.r /\ (h = v.l \/ v.list[h].prob > v.x.prob) /\ h \in Nat
  <2> HIDE DEF h
  <2> QED BY <1>0, <1>1
<1>3. \A k \in h + 1 .. v.r : ~(v.list[k].prob > v.x.prob)
  <2> HIDE DEF h
  <2> SUFFICES ASSUME NEW k \in h + 1 .. v.r, v.list[k].prob > v.x.prob  PROVE FALSE
    OBVIOUS
  <2>1. k \in v.l .. v.r /\ ~(k <= h)
    BY <1>0, <1>2
  <2>2. k \in H
    BY <2>1
  <2> QED BY <1>1, <2>1, <2>2
<1> HIDE DEF H, h
<1>4. l \in L /\ \A k \in L : l <= k
  <2>1. L \in SUBSET Nat /\ h \in L
    BY <1>0, <1>2
  <2> HIDE DEF L
  <2> QED BY <2>1, MinIs
<1>5. l \in v.l .. h /\ (l = h \/ (l # v.l /\ v.list[l].prob < v.x.prob)) /\ l \in Nat
  <2> HIDE DEF l
  <2> QED BY <1>0, <1>2, <1>4
<1>6. \A k \in v.l .. l - 1 : k = v.l \/ ~(v.list[k].prob < v.x.prob)
  <2> HIDE DEF l
  <2> SUFFICES ASSUME NEW k \in v.l .. l - 1, k # v.l, v.list[k].prob < v.x.prob  PROVE FALSE
    OBVIOUS
  <2>1. k \in v.l .. h /\ ~(l <= k)
    BY <1>0, <1>2, <1>5
  <2>2. k \in L
    BY <2>1
  <2> QED BY <1>4, <2>1, <2>2
<1>7. Swept(v) = [list |-> Moved(v, h, l), l |-> l, r |-> h, x |-> v.x]
  BY Zenon DEF Swept, Moved, h, H
<1> HIDE DEF L, l
<1> QED BY <1>2, <1>3, <1>5, <1>6, <1>7 DEF Meets

\* The list with x in the hole.
Filled(v) == [v.list EXCEPT ![v.l] = v.x]

\* What holds between the rounds: only likelier ones on the left of the hole, only less likely
\* ones on the right of r.
Parting(v) ==
    /\ Distinct(Filled(v))
    /\ \A k \in 1 .. v.l - 1 : v.list[k].prob >= v.x.prob
    /\ \A k \in v.r + 1 .. Len(v.list) : v.list[k].prob <= v.x.prob

\* The fields of a sort.
LEMMA SortingIs ==
    ASSUME NEW v \in Sorting
    PROVE  /\ v.list \in Seq(ProbIndex) /\ v.l \in 1 .. v.r /\ v.r \in v.l .. Len(v.list)
           /\ v.x \in ProbIndex /\ v.l \in Nat /\ v.r \in Nat /\ Len(v.list) \in Nat
  BY DEF Sorting

\* c is a with its places permuted by s, and back by t.
Permutes(a, c, n, s, t) ==
    /\ Len(a) = n /\ Len(c) = n
    /\ s \in [1 .. n -> 1 .. n] /\ t \in [1 .. n -> 1 .. n]
    /\ \A k \in 1 .. n : t[s[k]] = k /\ s[t[k]] = k
    /\ \A k \in 1 .. n : c[k] = a[s[k]]

\* What a permutation of the places leaves alone.
LEMMA Permuted ==
    ASSUME NEW a, NEW c, NEW n, NEW s, NEW t, Permutes(a, c, n, s, t)
    PROVE  (Distinct(a) => Distinct(c)) /\ Entries(c) = Entries(a)
<1> USE DEF Permutes
<1>1. ASSUME Distinct(a)  PROVE Distinct(c)
  <2> SUFFICES ASSUME NEW k \in 1 .. n, NEW l \in 1 .. n, c[k].index = c[l].index  PROVE k = l
    BY DEF Distinct
  <2>1. s[k] \in 1 .. n /\ s[l] \in 1 .. n /\ a[s[k]].index = a[s[l]].index
    OBVIOUS
  <2>2. s[k] = s[l]
    BY <1>1, <2>1 DEF Distinct
  <2> QED BY <2>2
<1>2. ASSUME NEW x \in Entries(c)  PROVE x \in Entries(a)
  <2>1. PICK k \in 1 .. n : x = c[k]
    BY DEF Entries
  <2>2. s[k] \in 1 .. n /\ x = a[s[k]]
    BY <2>1
  <2> QED BY <2>2 DEF Entries
<1>3. ASSUME NEW x \in Entries(a)  PROVE x \in Entries(c)
  <2>1. PICK k \in 1 .. n : x = a[k]
    BY DEF Entries
  <2>2. t[k] \in 1 .. n /\ s[t[k]] = k
    OBVIOUS
  <2>3. c[t[k]] = x
    BY <2>1, <2>2
  <2> QED BY <2>2, <2>3 DEF Entries
<1> QED BY <1>1, <1>2, <1>3

\* A round moves the hole and rearranges the entries.
LEMMA SweptKeeps ==
    ASSUME NEW v \in Sorting, v.l # v.r
    PROVE  /\ Swept(v) \in Sorting
           /\ Swept(v).r - Swept(v).l < v.r - v.l
           /\ Len(Swept(v).list) = Len(v.list)
           /\ Parting(v) => Parting(Swept(v)) /\ Entries(Filled(Swept(v))) = Entries(Filled(v))
<1>1. PICK h, l \in Nat : Meets(v, h, l)
        /\ Swept(v) = [list |-> Moved(v, h, l), l |-> l, r |-> h, x |-> v.x]
  BY SweptIs
<1> DEFINE b == v.list
           i == v.l
           j == v.r
           p == v.x
           m == Moved(v, h, l)
           n == Len(b)
<1>2. b \in Seq(ProbIndex) /\ i \in 1 .. n /\ j \in i .. n /\ i < j /\ p \in ProbIndex /\ n \in Nat
  BY SortingIs
<1>3. /\ h \in i .. j /\ l \in i .. h
      /\ h = i \/ b[h].prob > p.prob
      /\ \A k \in h + 1 .. j : ~(b[k].prob > p.prob)
      /\ l = h \/ (l # i /\ b[l].prob < p.prob)
      /\ \A k \in i .. l - 1 : k = i \/ ~(b[k].prob < p.prob)
  BY <1>1 DEF Meets
<1>4. /\ m \in Seq(ProbIndex) /\ Len(m) = n
      /\ \A k \in 1 .. n : m[k] = IF k = h THEN (IF l = i THEN b[h] ELSE b[l])
                                  ELSE IF k = i THEN b[h] ELSE b[k]
  <2> DEFINE m1 == [b EXCEPT ![i] = b[h]]
             x == IF l = i THEN b[h] ELSE b[l]
  <2>1. h \in 1 .. n /\ l \in 1 .. n
    BY <1>2, <1>3
  <2>2. b[h] \in ProbIndex /\ b[l] \in ProbIndex
    BY <1>2, <2>1
  <2>3. x \in ProbIndex
    BY <2>2
  <2>4. m1 \in Seq(ProbIndex) /\ Len(m1) = n /\ \A k \in 1 .. n : m1[k] = IF k = i THEN b[h] ELSE b[k]
    <3> HIDE DEF b, i
    <3> QED BY <1>2, <2>2, Replaced
  <2>5. m = [m1 EXCEPT ![h] = x]
    BY DEF Moved
  <2> HIDE DEF b, i, m1, m, x
  <2>6. m \in Seq(ProbIndex) /\ Len(m) = n /\ \A k \in 1 .. n : m[k] = IF k = h THEN x ELSE m1[k]
    BY <2>1, <2>3, <2>4, <2>5, Replaced
  <2> QED BY <2>4, <2>6 DEF x
<1>5. Swept(v) = [list |-> m, l |-> l, r |-> h, x |-> p]
  BY <1>1
<1>6. Filled(v) = [b EXCEPT ![i] = p]
  BY DEF Filled
<1>7. Parting(v) <=> /\ Distinct(Filled(v))
                     /\ \A k \in 1 .. i - 1 : b[k].prob >= p.prob
                     /\ \A k \in j + 1 .. n : b[k].prob <= p.prob
  BY DEF Parting
<1> HIDE DEF b, i, j, p, m
<1>8. Swept(v) \in Sorting
  BY <1>2, <1>3, <1>4, <1>5 DEF Sorting
<1>9. Swept(v).r - Swept(v).l < j - i
  <2>1. h = i => l = i
    BY <1>2, <1>3
  <2>2. h # i => l # i
    BY <1>2, <1>3
  <2> QED BY <1>2, <1>3, <1>5, <2>1, <2>2
<1>10. Len(Swept(v).list) = n
  BY <1>4, <1>5
<1>11. ASSUME Parting(v)  PROVE Parting(Swept(v)) /\ Entries(Filled(Swept(v))) = Entries(Filled(v))
  <2> DEFINE a == Filled(v)
             c == Filled(Swept(v))
             s == [k \in 1 .. n |-> IF k = l THEN i ELSE IF k = h THEN l ELSE IF k = i THEN h ELSE k]
             t == [k \in 1 .. n |-> IF k = i THEN l ELSE IF k = h THEN i ELSE IF k = l THEN h ELSE k]
  <2>1. a \in Seq(ProbIndex) /\ Len(a) = n /\ \A k \in 1 .. n : a[k] = IF k = i THEN p ELSE b[k]
    BY <1>2, <1>6, Replaced
  <2>2. l \in 1 .. n /\ h \in 1 .. n
    BY <1>2, <1>3
  <2>3. c \in Seq(ProbIndex) /\ Len(c) = n /\ \A k \in 1 .. n : c[k] = IF k = l THEN p ELSE m[k]
    <3>1. c = [m EXCEPT ![l] = p]
      BY <1>5 DEF Filled
    <3> HIDE DEF c
    <3> QED BY <1>2, <1>4, <2>2, <3>1, Replaced
  <2>4. (l = i => h = i) /\ (h = i => l = i)
    BY <1>2, <1>3
  <2> HIDE DEF a, c
  <2>5. s \in [1 .. n -> 1 .. n] /\ t \in [1 .. n -> 1 .. n]
    BY <1>2, <2>2
  <2>6. \A k \in 1 .. n : t[s[k]] = k /\ s[t[k]] = k
    <3> SUFFICES ASSUME NEW k \in 1 .. n  PROVE t[s[k]] = k /\ s[t[k]] = k
      OBVIOUS
    <3>1. s[k] \in 1 .. n /\ t[k] \in 1 .. n
      BY <2>5
    <3>2. \A x \in 1 .. n : s[x] = IF x = l THEN i ELSE IF x = h THEN l ELSE IF x = i THEN h ELSE x
      OBVIOUS
    <3>3. \A x \in 1 .. n : t[x] = IF x = i THEN l ELSE IF x = h THEN i ELSE IF x = l THEN h ELSE x
      OBVIOUS
    <3> HIDE DEF s, t
    <3>4. i \in 1 .. n
      BY <1>2
    <3>5. t[s[k]] = k
      BY ONLY <2>2, <2>4, <3>2, <3>3, <3>4, k \in 1 .. n
    <3>6. s[t[k]] = k
      BY ONLY <2>2, <2>4, <3>2, <3>3, <3>4, k \in 1 .. n
    <3> QED BY <3>5, <3>6
  <2>7. \A k \in 1 .. n : c[k] = a[s[k]]
    <3> SUFFICES ASSUME NEW k \in 1 .. n  PROVE c[k] = a[s[k]]
      OBVIOUS
    <3>1. CASE k = l
      BY <1>2, <2>1, <2>3, <3>1
    <3>2. CASE k # l /\ k = h
      <4>1. s[k] = l /\ l # i
        BY <2>4, <3>2
      <4>2. m[k] = b[l]
        BY <1>4, <2>2, <3>2, <4>1
      <4> QED BY <2>1, <2>2, <2>3, <3>2, <4>1, <4>2
    <3>3. CASE k # l /\ k # h /\ k = i
      <4>1. s[k] = h /\ h # i
        BY <3>3
      <4>2. m[k] = b[h]
        BY <1>4, <3>3
      <4> QED BY <2>1, <2>2, <2>3, <3>3, <4>1, <4>2
    <3>4. CASE k # l /\ k # h /\ k # i
      <4>1. s[k] = k
        BY <3>4
      <4>2. m[k] = b[k]
        BY <1>4, <3>4
      <4> QED BY <2>1, <2>3, <3>4, <4>1, <4>2
    <3> QED BY <3>1, <3>2, <3>3, <3>4
  <2> HIDE DEF s, t, n
  <2>8. (Distinct(a) => Distinct(c)) /\ Entries(c) = Entries(a)
    <3>1. n \in Nat /\ Len(a) = n /\ Len(c) = n
      BY <1>2, <2>1, <2>3
    <3>2. Permutes(a, c, n, s, t)
      BY ONLY <2>5, <2>6, <2>7, <3>1 DEF Permutes
    <3> QED BY ONLY <3>2, Permuted
  <2>10. \A k \in 1 .. n : b[k].prob \in Int
    <3>1. \A k \in 1 .. n : b[k] \in ProbIndex
      BY <1>2 DEF n
    <3> QED BY <3>1 DEF ProbIndex
  <2>11. p.prob \in Int
    BY <1>2 DEF ProbIndex
  <2>12. ASSUME NEW k \in 1 .. l - 1  PROVE m[k].prob >= p.prob
    <3>1. k \in 1 .. n /\ k # h
      BY <1>2, <1>3
    <3>2. CASE k \in 1 .. i - 1
      <4>1. m[k] = b[k]
        BY <1>2, <1>4, <3>1, <3>2
      <4> QED BY <1>7, <1>11, <3>2, <4>1
    <3>3. CASE k = i
      <4>1. h # i /\ h \in 1 .. n /\ m[k] = b[h]
        BY <1>2, <1>3, <1>4, <3>1, <3>3
      <4> QED BY <1>3, <2>10, <2>11, <4>1
    <3>4. CASE k \in i + 1 .. l - 1
      <4>1. m[k] = b[k] /\ ~(b[k].prob < p.prob) /\ k \in i + 1 .. n
        BY <1>2, <1>3, <1>4, <3>1, <3>4
      <4> QED BY <2>10, <2>11, <3>1, <4>1
    <3> QED BY <1>2, <1>3, <3>2, <3>3, <3>4
  <2>13. ASSUME NEW k \in h + 1 .. n  PROVE m[k].prob <= p.prob
    <3>1. k \in 1 .. n /\ k # h /\ k # i /\ k \in i + 1 .. n
      BY <1>2, <1>3
    <3>2. m[k] = b[k]
      BY <1>4, <3>1
    <3>3. CASE k \in j + 1 .. n
      BY <1>7, <1>11, <3>2, <3>3
    <3>4. CASE k \in h + 1 .. j
      <4>1. ~(b[k].prob > p.prob)
        BY <1>3, <3>4
      <4> QED BY <2>10, <2>11, <3>1, <3>2, <4>1
    <3> QED BY <1>2, <1>3, <3>3, <3>4
  <2>14. Distinct(a)
    BY <1>7, <1>11 DEF a
  <2>15. Parting(Swept(v))
    <3>1. /\ Swept(v).list = m /\ Swept(v).l = l /\ Swept(v).r = h /\ Swept(v).x = p
      BY <1>5
    <3> QED BY <1>4, <2>8, <2>12, <2>13, <2>14, <3>1 DEF Parting, c
  <2> QED BY <2>8, <2>15 DEF a, c
<1> QED BY <1>8, <1>9, <1>10, <1>11 DEF i, j, b

\* The rounds one after the other.
HoleIs(g) == g = [v \in Sorting |-> IF v.l = v.r THEN [v EXCEPT !.list[v.l] = v.x] ELSE g[Swept(v)]]

\* What a sort is with the hole filled.
LEMMA FilledIs ==
    ASSUME NEW v \in Sorting
    PROVE  /\ [v EXCEPT !.list[v.l] = v.x] \in Sorting
           /\ [v EXCEPT !.list[v.l] = v.x].list = Filled(v)
           /\ [v EXCEPT !.list[v.l] = v.x].l = v.l
           /\ [v EXCEPT !.list[v.l] = v.x].r = v.r
           /\ Filled(v) \in Seq(ProbIndex) /\ Len(Filled(v)) = Len(v.list)
           /\ \A k \in 1 .. Len(v.list) : Filled(v)[k] = IF k = v.l THEN v.x ELSE v.list[k]
<1> DEFINE z == [v EXCEPT !.list[v.l] = v.x]
<1>1. /\ v.list \in Seq(ProbIndex) /\ v.l \in 1 .. Len(v.list) /\ v.x \in ProbIndex
      /\ v.l \in Nat /\ v.r \in Nat /\ Len(v.list) \in Nat /\ v.l <= v.r /\ v.r <= Len(v.list)
  BY SortingIs
<1>2. /\ Filled(v) \in Seq(ProbIndex) /\ Len(Filled(v)) = Len(v.list)
      /\ \A k \in 1 .. Len(v.list) : Filled(v)[k] = IF k = v.l THEN v.x ELSE v.list[k]
  BY <1>1, Replaced DEF Filled
<1>3. v = [list |-> v.list, l |-> v.l, r |-> v.r, x |-> v.x]
  BY DEF Sorting
<1>4. z = [v EXCEPT !.list = Filled(v)]
  BY DEF Filled
<1>5. z = [list |-> Filled(v), l |-> v.l, r |-> v.r, x |-> v.x]
  <2> HIDE DEF z
  <2> QED BY <1>3, <1>4
<1> HIDE DEF z
<1>6. z \in Sorting
  BY <1>1, <1>2, <1>5 DEF Sorting
<1>7. z.list = Filled(v) /\ z.l = v.l /\ z.r = v.r
  BY <1>5
<1> QED BY <1>2, <1>6, <1>7 DEF z

\* They come to an end.
LEMMA HoleExists == Hole \in [Sorting -> Sorting] /\ HoleIs(Hole)
<1> DEFINE Halted == {v \in Sorting : v.l = v.r}
           val == [v \in Sorting |-> [v EXCEPT !.list[v.l] = v.x]]
           next == [v \in Sorting |-> Swept(v)]
           m == [v \in Sorting |-> v.r - v.l]
<1>1. val \in [Sorting -> Sorting]
  BY FilledIs
<1>2. m \in [Sorting -> Nat]
  <2> SUFFICES ASSUME NEW v \in Sorting  PROVE v.r - v.l \in Nat
    OBVIOUS
  <2>1. v.l \in Nat /\ v.r \in Nat /\ v.l <= v.r
    BY SortingIs
  <2> QED BY <2>1
<1>3. ASSUME NEW v \in Sorting, v \notin Halted  PROVE next[v] \in Sorting /\ m[next[v]] < m[v]
  <2>1. v.l # v.r
    BY <1>3
  <2>2. next[v] = Swept(v)
    OBVIOUS
  <2>3. Swept(v) \in Sorting /\ Swept(v).r - Swept(v).l < v.r - v.l
    BY <2>1, SweptKeeps
  <2>4. m[Swept(v)] = Swept(v).r - Swept(v).l /\ m[v] = v.r - v.l
    BY <2>3
  <2> QED BY <2>2, <2>3, <2>4
<1>4. \A v \in Sorting : val[v] = [v EXCEPT !.list[v.l] = v.x] /\ next[v] = Swept(v)
  OBVIOUS
<1>5. \A v \in Sorting : v \in Halted <=> v.l = v.r
  OBVIOUS
<1> HIDE DEF Halted, val, next, m
<1>6. PICK g \in [Sorting -> Sorting] : RunsOn(g, Sorting, Halted, val, next)
  BY <1>1, <1>2, <1>3, RunDefines
<1>7. ASSUME NEW v \in Sorting
      PROVE  g[v] = IF v.l = v.r THEN [v EXCEPT !.list[v.l] = v.x] ELSE g[Swept(v)]
  <2>1. g[v] = IF v \in Halted THEN val[v] ELSE g[next[v]]
    BY <1>6 DEF RunsOn
  <2> QED BY <1>4, <1>5, <2>1
<1>8. g = [v \in Sorting |-> g[v]]
  BY <1>6
<1>9. HoleIs(g)
  BY <1>7, <1>8, Zenon DEF HoleIs
<1>10. Hole = CHOOSE f : HoleIs(f)
  BY Zenon DEF Hole, HoleIs
<1>11. HoleIs(Hole)
  BY <1>9, <1>10, Zenon
<1> DEFINE T == {n \in Nat : \A v \in Sorting : m[v] <= n => Hole[v] = g[v]}
<1>12. \A v \in Sorting : Hole[v] = IF v.l = v.r THEN [v EXCEPT !.list[v.l] = v.x] ELSE Hole[Swept(v)]
  BY <1>11, Zenon DEF HoleIs
<1>13. \A v \in Sorting : v.l # v.r => Swept(v) \in Sorting /\ m[Swept(v)] < m[v] /\ m[Swept(v)] \in Nat
  BY <1>2, <1>3, <1>4, <1>5
<1>14. T = Nat
  <2>1. 0 \in T
    <3> SUFFICES ASSUME NEW v \in Sorting, m[v] <= 0  PROVE Hole[v] = g[v]
      OBVIOUS
    <3>1. m[v] \in Nat
      BY <1>2
    <3>2. v.l = v.r
      BY <1>13, <3>1
    <3> QED BY <1>7, <1>12, <3>2
  <2>2. ASSUME NEW n \in T  PROVE n + 1 \in T
    <3>0. n \in Nat /\ n + 1 \in Nat
      OBVIOUS
    <3> SUFFICES ASSUME NEW v \in Sorting, m[v] <= n + 1  PROVE Hole[v] = g[v]
      BY <3>0
    <3>1. m[v] \in Nat
      BY <1>2
    <3>2. v.l # v.r => Hole[Swept(v)] = g[Swept(v)]
      <4> SUFFICES ASSUME v.l # v.r  PROVE Hole[Swept(v)] = g[Swept(v)]
        OBVIOUS
      <4>1. Swept(v) \in Sorting /\ m[Swept(v)] <= n
        BY <1>13, <3>0, <3>1
      <4> QED BY <4>1
    <3> QED BY <1>7, <1>12, <3>2
  <2>3. T \in SUBSET Nat
    OBVIOUS
  <2> HIDE DEF T
  <2> QED BY <2>1, <2>2, <2>3, Induction
<1>15. ASSUME NEW v \in Sorting  PROVE Hole[v] \in Sorting
  <2>1. m[v] \in T /\ m[v] <= m[v]
    BY <1>2, <1>14
  <2>2. Hole[v] = g[v]
    BY <2>1
  <2> QED BY <1>6, <2>2
<1>16. Hole = [v \in Sorting |-> Hole[v]]
  BY <1>11, <1>12, Zenon DEF HoleIs
<1> QED BY <1>11, <1>15, <1>16

\* At the end: the entries of a, those on the left of r not below the one there, and the
\* others not above.
Parted(z, a) ==
    /\ Entries(z.list) = Entries(a) /\ Distinct(z.list)
    /\ \A k \in 1 .. z.r - 1 : z.list[k].prob >= z.list[z.r].prob
    /\ \A k \in z.r + 1 .. Len(z.list) : z.list[k].prob <= z.list[z.r].prob

\* The rounds leave the list parted.
LEMMA HoleParts ==
    ASSUME NEW v \in Sorting
    PROVE  /\ Hole[v] \in Sorting /\ Len(Hole[v].list) = Len(v.list)
           /\ Parting(v) => Parted(Hole[v], Filled(v))
<1> DEFINE Good(x) == Len(Hole[x].list) = Len(x.list) /\ (Parting(x) => Parted(Hole[x], Filled(x)))
           T == {n \in Nat : \A x \in Sorting : x.r - x.l <= n => Good(x)}
<1>1. Hole \in [Sorting -> Sorting]
  BY HoleExists
<1>2. ASSUME NEW x \in Sorting
      PROVE  Hole[x] = IF x.l = x.r THEN [x EXCEPT !.list[x.l] = x.x] ELSE Hole[Swept(x)]
  BY HoleExists, Zenon DEF HoleIs
<1>3. ASSUME NEW x \in Sorting, x.l = x.r  PROVE Good(x)
  <2>1. Hole[x].list = Filled(x) /\ Hole[x].r = x.l
    BY <1>2, <1>3, FilledIs
  <2>2. Len(Filled(x)) = Len(x.list)
        /\ \A k \in 1 .. Len(x.list) : Filled(x)[k] = IF k = x.l THEN x.x ELSE x.list[k]
    BY FilledIs
  <2>3. x.l \in 1 .. Len(x.list) /\ Len(x.list) \in Nat
    BY SortingIs
  <2>4. ASSUME Parting(x)  PROVE Parted(Hole[x], Filled(x))
    <3>1. Distinct(Filled(x))
      BY <2>4 DEF Parting
    <3>2. ASSUME NEW k \in 1 .. x.l - 1  PROVE Filled(x)[k].prob >= Filled(x)[x.l].prob
      <4>1. x.list[k].prob >= x.x.prob
        BY <2>4 DEF Parting
      <4>2. Filled(x)[k] = x.list[k] /\ Filled(x)[x.l] = x.x
        BY <2>2, <2>3
      <4> QED BY <4>1, <4>2
    <3>3. ASSUME NEW k \in x.l + 1 .. Len(x.list)  PROVE Filled(x)[k].prob <= Filled(x)[x.l].prob
      <4>1. x.list[k].prob <= x.x.prob
        BY <1>3, <2>4 DEF Parting
      <4>2. Filled(x)[k] = x.list[k] /\ Filled(x)[x.l] = x.x
        BY <2>2, <2>3
      <4> QED BY <4>1, <4>2
    <3> QED BY <2>1, <2>2, <3>1, <3>2, <3>3 DEF Parted
  <2> QED BY <2>1, <2>2, <2>4
<1>4. ASSUME NEW x \in Sorting, x.l # x.r, Good(Swept(x))  PROVE Good(x)
  <2>1. Hole[x] = Hole[Swept(x)]
    BY <1>2, <1>4
  <2>2. Len(Swept(x).list) = Len(x.list)
        /\ (Parting(x) => Parting(Swept(x)) /\ Entries(Filled(Swept(x))) = Entries(Filled(x)))
    BY <1>4, SweptKeeps
  <2>3. ASSUME Parting(x)  PROVE Parted(Hole[x], Filled(x))
    <3>1. Parted(Hole[x], Filled(Swept(x))) /\ Entries(Filled(Swept(x))) = Entries(Filled(x))
      BY <1>4, <2>1, <2>2, <2>3
    <3> QED BY <3>1 DEF Parted
  <2> QED BY <1>4, <2>1, <2>2, <2>3
<1> HIDE DEF Good
<1>5. T = Nat
  <2>0. ASSUME NEW x \in Sorting  PROVE x.l \in Nat /\ x.r \in Nat /\ x.l <= x.r
    BY SortingIs
  <2>1. 0 \in T
    <3> SUFFICES ASSUME NEW x \in Sorting, x.r - x.l <= 0  PROVE Good(x)
      OBVIOUS
    <3>1. x.l = x.r
      BY <2>0
    <3> QED BY <1>3, <3>1
  <2>2. ASSUME NEW n \in T  PROVE n + 1 \in T
    <3>0. n \in Nat /\ n + 1 \in Nat
      OBVIOUS
    <3> SUFFICES ASSUME NEW x \in Sorting, x.r - x.l <= n + 1  PROVE Good(x)
      BY <3>0
    <3>1. CASE x.l = x.r
      BY <1>3, <3>1
    <3>2. CASE x.l # x.r
      <4>1. Swept(x) \in Sorting /\ Swept(x).r - Swept(x).l < x.r - x.l
        BY <3>2, SweptKeeps
      <4>2. Swept(x).r - Swept(x).l <= n
        <5>1. /\ Swept(x).l \in Nat /\ Swept(x).r \in Nat /\ x.l \in Nat /\ x.r \in Nat
          BY <2>0, <4>1
        <5> QED BY <3>0, <4>1, <5>1
      <4>3. Good(Swept(x))
        BY <4>1, <4>2
      <4> QED BY <1>4, <3>2, <4>3
    <3> QED BY <3>1, <3>2
  <2>3. T \in SUBSET Nat
    OBVIOUS
  <2> HIDE DEF T
  <2> QED BY <2>1, <2>2, <2>3, Induction
<1>6. Good(v)
  <2>1. v.r - v.l \in Nat
    <3>1. v.l \in Nat /\ v.r \in Nat /\ v.l <= v.r
      BY SortingIs
    <3> QED BY <3>1
  <2>2. v.r - v.l \in T /\ v.r - v.l <= v.r - v.l
    BY <1>5, <2>1
  <2> QED BY <2>2
<1> QED BY <1>1, <1>6 DEF Good

\* probindex_sort on more than two entries: the first of them put in its place, and what is on
\* its left and on its right.
Split(b) == Hole[[list |-> b, l |-> 1, r |-> Len(b), x |-> b[1]]]
Left(b) == SubSeq(Split(b).list, 1, Split(b).r - 1)
Right(b) == SubSeq(Split(b).list, Split(b).r + 1, Len(b))
Middle(b) == Split(b).list[Split(b).r]

\* A part of a sequence.
LEMMA SubSeqIs ==
    ASSUME NEW S, NEW b \in Seq(S), NEW i \in 1 .. Len(b) + 1, NEW j \in i - 1 .. Len(b)
    PROVE  /\ SubSeq(b, i, j) \in Seq(S) /\ Len(SubSeq(b, i, j)) = j - i + 1
           /\ \A k \in 1 .. j - i + 1 : SubSeq(b, i, j)[k] = b[i + k - 1]
  OBVIOUS

\* The parts of the list.
LEMMA SplitIs ==
    ASSUME NEW b \in Seq(ProbIndex), Len(b) >= 1
    PROVE  /\ Split(b).list \in Seq(ProbIndex) /\ Len(Split(b).list) = Len(b)
           /\ Split(b).r \in 1 .. Len(b) /\ Middle(b) \in ProbIndex
           /\ Left(b) \in Seq(ProbIndex) /\ Len(Left(b)) = Split(b).r - 1
           /\ \A k \in 1 .. Split(b).r - 1 : Left(b)[k] = Split(b).list[k]
           /\ Right(b) \in Seq(ProbIndex) /\ Len(Right(b)) = Len(b) - Split(b).r
           /\ \A k \in 1 .. Len(b) - Split(b).r : Right(b)[k] = Split(b).list[Split(b).r + k]
           /\ Distinct(b) => Parted(Split(b), b)
<1> DEFINE v == [list |-> b, l |-> 1, r |-> Len(b), x |-> b[1]]
           n == Len(b)
           c == Split(b).list
           h == Split(b).r
<1>1. n \in Nat /\ b[1] \in ProbIndex /\ 1 \in 1 .. n
  OBVIOUS
<1>2. v \in Sorting /\ v.list = b /\ v.l = 1 /\ v.r = n /\ v.x = b[1]
  BY <1>1 DEF Sorting
<1>3. Split(b) = Hole[v]
  BY DEF Split
<1> HIDE DEF v
<1>4. Split(b) \in Sorting /\ Len(c) = n /\ (Parting(v) => Parted(Split(b), Filled(v)))
  BY <1>2, <1>3, HoleParts
<1>5. c \in Seq(ProbIndex) /\ h \in 1 .. n
  BY <1>4, SortingIs
<1>6. ASSUME Distinct(b)  PROVE Parted(Split(b), b)
  <2>1. Filled(v) = b
    <3>1. Filled(v) = [b EXCEPT ![1] = b[1]]
      BY <1>2 DEF Filled
    <3> QED BY <1>1, <3>1
  <2>2. Parting(v)
    BY <1>1, <1>2, <1>6, <2>1 DEF Parting
  <2> QED BY <1>4, <2>1, <2>2
<1>7. Left(b) = SubSeq(c, 1, h - 1) /\ Right(b) = SubSeq(c, h + 1, n) /\ Middle(b) = c[h]
  BY DEF Left, Right, Middle
<1>8. /\ Left(b) \in Seq(ProbIndex) /\ Len(Left(b)) = h - 1
      /\ \A k \in 1 .. h - 1 : Left(b)[k] = c[k]
  <2> HIDE DEF c, h, n
  <2>1. 1 \in 1 .. Len(c) + 1 /\ h - 1 \in 1 - 1 .. Len(c)
    BY <1>1, <1>4, <1>5
  <2>2. /\ SubSeq(c, 1, h - 1) \in Seq(ProbIndex) /\ Len(SubSeq(c, 1, h - 1)) = h - 1 - 1 + 1
        /\ \A k \in 1 .. h - 1 - 1 + 1 : SubSeq(c, 1, h - 1)[k] = c[1 + k - 1]
    BY <1>5, <2>1, SubSeqIs
  <2> QED BY <1>5, <1>7, <2>2
<1>9. /\ Right(b) \in Seq(ProbIndex) /\ Len(Right(b)) = n - h
      /\ \A k \in 1 .. n - h : Right(b)[k] = c[h + k]
  <2> HIDE DEF c, h, n
  <2>1. h + 1 \in 1 .. Len(c) + 1 /\ n \in (h + 1) - 1 .. Len(c)
    BY <1>1, <1>4, <1>5
  <2>2. /\ SubSeq(c, h + 1, n) \in Seq(ProbIndex) /\ Len(SubSeq(c, h + 1, n)) = n - (h + 1) + 1
        /\ \A k \in 1 .. n - (h + 1) + 1 : SubSeq(c, h + 1, n)[k] = c[(h + 1) + k - 1]
    BY <1>5, <2>1, SubSeqIs
  <2> QED BY <1>1, <1>5, <1>7, <2>2
<1>10. Middle(b) \in ProbIndex
  <2> HIDE DEF c, h, n
  <2> QED BY <1>4, <1>5, <1>7
<1> QED BY <1>4, <1>5, <1>6, <1>8, <1>9, <1>10

\* One call of probindex_sort, whose own calls are answered by f.
Sort(f, b) ==
    IF Len(b) <= 1 THEN b
    ELSE IF Len(b) = 2
    THEN IF b[1].prob < b[2].prob THEN <<b[2], b[1]>> ELSE b
    ELSE f[Left(b)] \o <<Middle(b)>> \o f[Right(b)]
SortIs(f) == f = [b \in Seq(ProbIndex) |-> Sort(f, b)]

\* Three parts of a list, one after the other.
LEMMA ThreeJoined ==
    ASSUME NEW S, NEW a \in Seq(S), NEW x \in S, NEW c \in Seq(S), NEW b, b = a \o <<x>> \o c
    PROVE  /\ b \in Seq(S) /\ Len(b) = Len(a) + 1 + Len(c)
           /\ \A k \in 1 .. Len(a) : b[k] = a[k]
           /\ b[Len(a) + 1] = x
           /\ \A k \in 1 .. Len(c) : b[Len(a) + 1 + k] = c[k]
<1> DEFINE d == a \o <<x>>
<1>1. /\ d \in Seq(S) /\ Len(d) = Len(a) + 1 /\ Len(a) \in Nat
      /\ \A k \in 1 .. Len(a) : d[k] = a[k]
      /\ d[Len(a) + 1] = x
  OBVIOUS
<1>0. b = d \o c
  OBVIOUS
<1> HIDE DEF d
<1>2. /\ b \in Seq(S) /\ Len(b) = Len(d) + Len(c) /\ Len(c) \in Nat
      /\ \A k \in 1 .. Len(d) : b[k] = d[k]
      /\ \A k \in 1 .. Len(c) : b[Len(d) + k] = c[k]
  BY <1>0, <1>1
<1>3. \A k \in 1 .. Len(a) : k \in 1 .. Len(d)
  BY <1>1
<1>4. Len(a) + 1 \in 1 .. Len(d)
  BY <1>1
<1>5. /\ b \in Seq(S) /\ Len(b) = Len(a) + 1 + Len(c)
      /\ \A k \in 1 .. Len(a) : b[k] = a[k]
      /\ b[Len(a) + 1] = x
      /\ \A k \in 1 .. Len(c) : b[Len(a) + 1 + k] = c[k]
  BY <1>1, <1>2, <1>3, <1>4
<1> QED BY <1>5

\* A call gives a list if its own calls do, and depends on them only.
LEMMA SortTypes ==
    ASSUME NEW f, NEW b \in Seq(ProbIndex)
    PROVE  /\ (Len(b) > 2 => f[Left(b)] \in Seq(ProbIndex) /\ f[Right(b)] \in Seq(ProbIndex)) => Sort(f, b) \in Seq(ProbIndex)
           /\ \A g : (Len(b) > 2 => f[Left(b)] = g[Left(b)] /\ f[Right(b)] = g[Right(b)])
                     => Sort(f, b) = Sort(g, b)
<1>0. Len(b) \in Nat
  OBVIOUS
<1>a. \A n \in Nat : n <= 1 \/ n = 2 \/ n > 2
  OBVIOUS
<1>b. \A n \in Nat : n > 2 => ~(n <= 1) /\ n # 2 /\ n >= 1
  OBVIOUS
<1>1. CASE Len(b) <= 1
  BY <1>1 DEF Sort
<1>2. CASE Len(b) = 2
  <2>0. ~(Len(b) <= 1)
    BY <1>2
  <2>1. 1 \in 1 .. Len(b) /\ 2 \in 1 .. Len(b)
    BY <1>2
  <2>2. <<b[2], b[1]>> \in Seq(ProbIndex)
    BY <2>1
  <2> QED BY <1>2, <2>0, <2>2 DEF Sort
<1>3. CASE Len(b) > 2
  <2>0. ~(Len(b) <= 1) /\ Len(b) # 2 /\ Len(b) >= 1
    BY <1>0, <1>b, <1>3
  <2>1. \A g : Sort(g, b) = g[Left(b)] \o <<Middle(b)>> \o g[Right(b)]
    BY <2>0, Zenon DEF Sort
  <2>2. Middle(b) \in ProbIndex
    BY <2>0, SplitIs
  <2>3. ASSUME f[Left(b)] \in Seq(ProbIndex), f[Right(b)] \in Seq(ProbIndex)
        PROVE  f[Left(b)] \o <<Middle(b)>> \o f[Right(b)] \in Seq(ProbIndex)
    BY <2>2, <2>3, ThreeJoined
  <2> QED BY <1>3, <2>1, <2>3
<1> QED BY <1>0, <1>a, <1>1, <1>2, <1>3

\* The parts of a list are shorter than it is.
LEMMA PartsAreShorter ==
    ASSUME NEW b \in Seq(ProbIndex), Len(b) > 2
    PROVE  /\ Left(b) \in Seq(ProbIndex) /\ Right(b) \in Seq(ProbIndex)
           /\ Len(Left(b)) < Len(b) /\ Len(Right(b)) < Len(b)
           /\ Len(Left(b)) \in Nat /\ Len(Right(b)) \in Nat
<1>1. Len(b) \in Nat /\ Len(b) >= 1
  OBVIOUS
<1>2. /\ Left(b) \in Seq(ProbIndex) /\ Right(b) \in Seq(ProbIndex) /\ Split(b).r \in 1 .. Len(b)
      /\ Len(Left(b)) = Split(b).r - 1 /\ Len(Right(b)) = Len(b) - Split(b).r
  BY <1>1, SplitIs
<1> QED BY <1>1, <1>2

\* The quicksort comes to an end.
LEMMA SortExists == SortIs(probindex_sort)
<1> DEFINE S == Seq(ProbIndex)
           m == [b \in S |-> Len(b)]
           a == [b \in S |-> b]
           E == [f \in [S -> S] |-> [b \in S |-> Sort(f, b)]]
<1>1. m \in [S -> Nat] /\ a \in [S -> S]
  OBVIOUS
<1>2. \A b \in S : m[b] = Len(b) /\ Len(b) \in Nat
  OBVIOUS
<1>3. \A f \in [S -> S] : E[f] = [b \in S |-> Sort(f, b)]
  OBVIOUS
<1>4. \A b \in S : Len(b) > 2 => Left(b) \in S /\ Right(b) \in S
                                 /\ Len(Left(b)) < Len(b) /\ Len(Right(b)) < Len(b)
  BY PartsAreShorter
<1>5. \A f : \A b \in S : (Len(b) > 2 => f[Left(b)] \in S /\ f[Right(b)] \in S) => Sort(f, b) \in S
  BY SortTypes
<1>6. \A f, g : \A b \in S : (Len(b) > 2 => f[Left(b)] = g[Left(b)] /\ f[Right(b)] = g[Right(b)])
                             => Sort(f, b) = Sort(g, b)
  BY SortTypes
<1> HIDE DEF S, m, a, E
<1>7. \A f \in [S -> S] : \A b \in S : Sort(f, b) \in S /\ E[f][b] = Sort(f, b)
  BY <1>3, <1>4, <1>5
<1>8. E \in [[S -> S] -> [S -> S]]
  <2>1. \A f \in [S -> S] : [b \in S |-> Sort(f, b)] \in [S -> S]
    BY <1>7
  <2> QED BY <2>1 DEF E
<1>9. ASSUME NEW f \in [S -> S], NEW g \in [S -> S], NEW b \in S,
             \A c \in S : m[c] < m[b] => f[c] = g[c]
      PROVE  E[f][b] = E[g][b]
  <2>1. Len(b) > 2 => f[Left(b)] = g[Left(b)] /\ f[Right(b)] = g[Right(b)]
    BY <1>2, <1>4, <1>9
  <2> QED BY <1>6, <1>7, <2>1
<1>10. \A f, g \in [S -> S] : \A b \in S :
         (\A c \in S : m[c] < m[b] => f[c] = g[c]) => E[f][b] = E[g][b]
  BY <1>9
<1>11. \E g \in [S -> S] : g = E[g]
  <2>1. LooksDown(E, [S -> S], S, m)
    BY <1>10, Zenon DEF LooksDown
  <2>2. \A D, V : \A n \in [D -> Nat] : \A c \in [D -> V] : \A J \in [[D -> V] -> [D -> V]] :
          LooksDown(J, [D -> V], D, n) => \E g \in [D -> V] : g = J[g]
    BY SmallerDefines, Zenon
  <2>3. \A n \in [S -> Nat] : \A c \in [S -> S] : \A J \in [[S -> S] -> [S -> S]] :
          LooksDown(J, [S -> S], S, n) => \E g \in [S -> S] : g = J[g]
    <3>1. \A V : \A n \in [S -> Nat] : \A c \in [S -> V] : \A J \in [[S -> V] -> [S -> V]] :
            LooksDown(J, [S -> V], S, n) => \E g \in [S -> V] : g = J[g]
      BY ONLY <2>2, Zenon
    <3> QED BY ONLY <3>1, Zenon
  <2>4. m \in [S -> Nat]
    BY <1>1
  <2>5. a \in [S -> S]
    BY <1>1
  <2>6. \A J \in [[S -> S] -> [S -> S]] :
          LooksDown(J, [S -> S], S, m) => \E g \in [S -> S] : g = J[g]
    BY ONLY <2>3, <2>4, <2>5
  <2> QED BY ONLY <1>8, <2>1, <2>6
<1>12. PICK g \in [S -> S] : g = E[g]
  BY <1>11
<1>13. SortIs(g)
  BY <1>3, <1>12, Zenon DEF SortIs, S
<1>14. probindex_sort = CHOOSE f : SortIs(f)
  BY Zenon DEF probindex_sort, SortIs, Sort, Left, Right, Middle, Split
<1> QED BY <1>13, <1>14, Zenon

\* A list with the entries of b, the likelier first.
SortOf(b, c) ==
    c \in Seq(ProbIndex) /\ Len(c) = Len(b) /\ Entries(c) = Entries(b) /\ Distinct(c) /\ Descending(c)

\* A call sorts if its own calls do.
LEMMA SortSorts ==
    ASSUME NEW f, NEW b \in Seq(ProbIndex), Distinct(b),
           Len(b) > 2 => /\ Distinct(Left(b)) => SortOf(Left(b), f[Left(b)])
                         /\ Distinct(Right(b)) => SortOf(Right(b), f[Right(b)])
    PROVE  SortOf(b, Sort(f, b))
<1>0. Len(b) \in Nat
  OBVIOUS
<1>a. \A n \in Nat : n <= 1 \/ n = 2 \/ n > 2
  OBVIOUS
<1>b. \A n \in Nat : n > 2 => ~(n <= 1) /\ n # 2 /\ n >= 1
  OBVIOUS
<1>1. CASE Len(b) <= 1
  <2>1. Sort(f, b) = b
    BY <1>1 DEF Sort
  <2>2. Descending(b)
    BY <1>0, <1>1 DEF Descending
  <2> QED BY <2>1, <2>2 DEF SortOf
<1>2. CASE Len(b) = 2
  <2>0. ~(Len(b) <= 1)
    BY <1>2
  <2>1. b[1] \in ProbIndex /\ b[2] \in ProbIndex /\ 1 \in 1 .. Len(b) /\ 2 \in 1 .. Len(b)
    <3>1. 1 \in 1 .. Len(b) /\ 2 \in 1 .. Len(b)
      BY <1>2
    <3> QED BY <3>1
  <2>2. b[1].index # b[2].index /\ b[1].prob \in Int /\ b[2].prob \in Int
    BY <2>1 DEF Distinct, ProbIndex
  <2>3. CASE ~(b[1].prob < b[2].prob)
    <3>1. Sort(f, b) = b
      BY <1>2, <2>0, <2>3 DEF Sort
    <3>2. Descending(b)
      <4> SUFFICES ASSUME NEW k \in 1 .. Len(b), NEW l \in 1 .. Len(b), k < l  PROVE b[k].prob >= b[l].prob
        BY DEF Descending
      <4>1. k = 1 /\ l = 2
        BY <1>2
      <4> QED BY <2>2, <2>3, <4>1
    <3> QED BY <3>1, <3>2 DEF SortOf
  <2>4. CASE b[1].prob < b[2].prob
    <3> DEFINE c == <<b[2], b[1]>>
    <3>1. Sort(f, b) = c
      BY <1>2, <2>0, <2>4 DEF Sort
    <3>2. c \in Seq(ProbIndex) /\ Len(c) = 2 /\ c[1] = b[2] /\ c[2] = b[1]
      BY <2>1
    <3> HIDE DEF c
    <3>3. Descending(c)
      <4> SUFFICES ASSUME NEW k \in 1 .. 2, NEW l \in 1 .. 2, k < l  PROVE c[k].prob >= c[l].prob
        BY <3>2 DEF Descending
      <4>1. k = 1 /\ l = 2
        OBVIOUS
      <4> QED BY <2>2, <2>4, <3>2, <4>1
    <3>6. Distinct(c)
      <4>1. \A k, l \in 1 .. 2 : k = l \/ (k = 1 /\ l = 2) \/ (k = 2 /\ l = 1)
        OBVIOUS
      <4> QED BY ONLY <2>2, <3>2, <4>1 DEF Distinct
    <3>4. \A s : Len(s) = 2 => Entries(s) = {s[1], s[2]}
      <4>1. 1 .. 2 = {1, 2}
        OBVIOUS
      <4> QED BY <4>1 DEF Entries
    <3>5. Entries(c) = {c[1], c[2]} /\ Entries(b) = {b[1], b[2]}
      BY <1>2, <3>2, <3>4
    <3> QED BY <1>2, <3>1, <3>2, <3>3, <3>5, <3>6 DEF SortOf
  <2> QED BY <2>3, <2>4
<1>3. CASE Len(b) > 2
  <2> DEFINE n == Len(b)
             d == Split(b).list
             h == Split(b).r
             L == f[Left(b)]
             R == f[Right(b)]
             M == Middle(b)
             c == L \o <<M>> \o R
  <2>0. ~(n <= 1) /\ n # 2 /\ n >= 1
    BY <1>0, <1>b, <1>3
  <2>1. /\ d \in Seq(ProbIndex) /\ Len(d) = n /\ h \in 1 .. n /\ M \in ProbIndex
        /\ Left(b) \in Seq(ProbIndex) /\ Len(Left(b)) = h - 1
        /\ \A k \in 1 .. h - 1 : Left(b)[k] = d[k]
        /\ Right(b) \in Seq(ProbIndex) /\ Len(Right(b)) = n - h
        /\ \A k \in 1 .. n - h : Right(b)[k] = d[h + k]
        /\ Parted(Split(b), b)
    BY <2>0, SplitIs
  <2>2. Entries(d) = Entries(b) /\ Distinct(d) /\ M = d[h]
        /\ (\A k \in 1 .. h - 1 : d[k].prob >= M.prob)
        /\ \A k \in h + 1 .. n : d[k].prob <= M.prob
    BY <2>1 DEF Parted, Middle
  <2>3. Sort(f, b) = c
    BY <2>0, Zenon DEF Sort
  <2> HIDE DEF n, d, h
  <2>4. n \in Nat /\ h \in Nat
    BY <1>0, <2>1 DEF n
  <2>5. Distinct(Left(b))
    <3> SUFFICES ASSUME NEW k \in 1 .. h - 1, NEW l \in 1 .. h - 1, Left(b)[k].index = Left(b)[l].index
                 PROVE  k = l
      BY <2>1 DEF Distinct
    <3>1. k \in 1 .. n /\ l \in 1 .. n /\ d[k].index = d[l].index
      BY <2>1, <2>4
    <3> QED BY <2>1, <2>2, <3>1 DEF Distinct
  <2>6. Distinct(Right(b))
    <3> SUFFICES ASSUME NEW k \in 1 .. n - h, NEW l \in 1 .. n - h, Right(b)[k].index = Right(b)[l].index
                 PROVE  k = l
      BY <2>1 DEF Distinct
    <3>0. h + k \in 1 .. n /\ h + l \in 1 .. n
      <4>1. h \in 1 .. n
        BY <2>1
      <4> QED BY ONLY <2>4, <4>1
    <3>a. Right(b)[k] = d[h + k] /\ Right(b)[l] = d[h + l]
      BY <2>1
    <3>1. h + k \in 1 .. n /\ h + l \in 1 .. n /\ d[h + k].index = d[h + l].index
      BY <3>0, <3>a
    <3>2. h + k = h + l
      BY <2>1, <2>2, <3>1 DEF Distinct
    <3> QED BY <2>4, <3>2
  <2>7. /\ L \in Seq(ProbIndex) /\ Len(L) = h - 1 /\ Entries(L) = Entries(Left(b)) /\ Distinct(L) /\ Descending(L)
        /\ R \in Seq(ProbIndex) /\ Len(R) = n - h /\ Entries(R) = Entries(Right(b)) /\ Distinct(R) /\ Descending(R)
    BY <1>3, <2>1, <2>5, <2>6 DEF SortOf
  <2> HIDE DEF L, R, M
  <2>a. c = L \o <<M>> \o R
    OBVIOUS
  <2> HIDE DEF c
  <2>8. /\ c \in Seq(ProbIndex) /\ Len(c) = Len(L) + 1 + Len(R)
        /\ \A k \in 1 .. Len(L) : c[k] = L[k]
        /\ c[Len(L) + 1] = M
        /\ \A k \in 1 .. Len(R) : c[Len(L) + 1 + k] = R[k]
    <3>1. L \in Seq(ProbIndex) /\ R \in Seq(ProbIndex) /\ M \in ProbIndex
      BY <2>1, <2>7
    <3> QED BY ONLY <2>a, <3>1, ThreeJoined
  <2>9. /\ Len(c) = n
        /\ \A k \in 1 .. h - 1 : c[k] = L[k]
        /\ c[h] = M
        /\ \A k \in 1 .. n - h : c[h + k] = R[k]
    <3>1. Len(L) + 1 = h /\ Len(L) + 1 + Len(R) = n
      BY <2>4, <2>7
    <3> QED BY <2>7, <2>8, <3>1
  <2>10. \A x \in Entries(L) : \E k \in 1 .. h - 1 : x = d[k]
    <3> SUFFICES ASSUME NEW x \in Entries(Left(b))  PROVE \E k \in 1 .. h - 1 : x = d[k]
      BY <2>7
    <3>1. PICK k \in 1 .. Len(Left(b)) : x = Left(b)[k]
      BY DEF Entries
    <3> QED BY ONLY <2>1, <3>1
  <2>11. \A x \in Entries(R) : \E k \in 1 .. n - h : x = d[h + k]
    <3> SUFFICES ASSUME NEW x \in Entries(Right(b))  PROVE \E k \in 1 .. n - h : x = d[h + k]
      BY <2>7
    <3>1. PICK k \in 1 .. Len(Right(b)) : x = Right(b)[k]
      BY DEF Entries
    <3> QED BY ONLY <2>1, <3>1
  <2>12. \A k \in 1 .. h - 1 : d[k] \in Entries(L)
    <3> SUFFICES ASSUME NEW k \in 1 .. h - 1  PROVE d[k] \in Entries(Left(b))
      BY <2>7
    <3> QED BY <2>1 DEF Entries
  <2>13. \A k \in 1 .. n - h : d[h + k] \in Entries(R)
    <3> SUFFICES ASSUME NEW k \in 1 .. n - h  PROVE d[h + k] \in Entries(Right(b))
      BY <2>7
    <3> QED BY <2>1 DEF Entries
  <2>14. \A k \in 1 .. h - 1 : L[k] \in Entries(L)
    BY <2>7 DEF Entries
  <2>15. \A k \in 1 .. n - h : R[k] \in Entries(R)
    BY <2>7 DEF Entries
  <2>16. ASSUME NEW k \in 1 .. n
         PROVE  \/ k \in 1 .. h - 1 /\ c[k] = L[k]
                \/ k = h /\ c[k] = M
                \/ k - h \in 1 .. n - h /\ c[k] = R[k - h]
    <3>1. k \in 1 .. h - 1 \/ k = h \/ (k - h \in 1 .. n - h /\ h + (k - h) = k)
      BY <2>1, <2>4
    <3> QED BY <2>9, <3>1
  <2>17. \A k \in 1 .. h - 1 : L[k].prob >= M.prob
    BY <2>2, <2>10, <2>14
  <2>18. \A k \in 1 .. n - h : R[k].prob <= M.prob
    <3> SUFFICES ASSUME NEW k \in 1 .. n - h  PROVE R[k].prob <= M.prob
      OBVIOUS
    <3>1. PICK l \in 1 .. n - h : R[k] = d[h + l]
      BY <2>11, <2>15
    <3>2. h + l \in h + 1 .. n
      BY <2>4, <2>1
    <3> QED BY <2>2, <3>1, <3>2
  <2>19. (\A k \in 1 .. h - 1 : L[k].prob \in Int) /\ M.prob \in Int /\ \A k \in 1 .. n - h : R[k].prob \in Int
    <3>1. (\A k \in 1 .. h - 1 : L[k] \in ProbIndex) /\ \A k \in 1 .. n - h : R[k] \in ProbIndex
      BY <2>7
    <3>2. \A e \in ProbIndex : e.prob \in Int
      BY DEF ProbIndex
    <3>3. M \in ProbIndex
      BY <2>1
    <3> QED BY ONLY <3>1, <3>2, <3>3
  <2>20. Descending(c)
    <3> SUFFICES ASSUME NEW k \in 1 .. n, NEW l \in 1 .. n, k < l  PROVE c[k].prob >= c[l].prob
      BY <2>9 DEF Descending
    <3>1. CASE k \in 1 .. h - 1 /\ l \in 1 .. h - 1
      BY <2>7, <2>9, <3>1 DEF Descending
    <3>2. CASE k \in 1 .. h - 1 /\ l = h
      BY <2>9, <2>17, <3>2
    <3>3. CASE k \in 1 .. h - 1 /\ l - h \in 1 .. n - h
      <4>1. c[k] = L[k] /\ c[l] = R[l - h]
        BY <2>4, <2>16, <3>3
      <4>2. L[k].prob >= M.prob /\ R[l - h].prob <= M.prob
        BY <2>17, <2>18, <3>3
      <4> QED BY <2>19, <3>3, <4>1, <4>2
    <3>4. CASE k = h /\ l - h \in 1 .. n - h
      <4>1. c[k] = M /\ c[l] = R[l - h]
        BY <2>4, <2>16, <3>4
      <4>2. R[l - h].prob <= M.prob
        BY <2>18, <3>4
      <4> QED BY <2>19, <3>4, <4>1, <4>2
    <3>5. CASE k - h \in 1 .. n - h /\ l - h \in 1 .. n - h
      <4>1. c[k] = R[k - h] /\ c[l] = R[l - h]
        BY <2>4, <2>16, <3>5
      <4>2. k - h < l - h
        BY <2>4
      <4> QED BY <2>7, <3>5, <4>1, <4>2 DEF Descending
    <3> QED BY <2>4, <2>16, <3>1, <3>2, <3>3, <3>4, <3>5
  <2>24. \A k \in 1 .. h - 1 : L[k].index # M.index
    <3> SUFFICES ASSUME NEW k \in 1 .. h - 1  PROVE L[k].index # M.index
      OBVIOUS
    <3>1. PICK o \in 1 .. h - 1 : L[k] = d[o]
      BY <2>10, <2>14
    <3>2. o \in 1 .. n /\ o # h
      BY <2>1, <2>4
    <3> QED BY <2>1, <2>2, <3>1, <3>2 DEF Distinct
  <2>25. \A k \in 1 .. n - h : R[k].index # M.index
    <3> SUFFICES ASSUME NEW k \in 1 .. n - h  PROVE R[k].index # M.index
      OBVIOUS
    <3>1. PICK o \in 1 .. n - h : R[k] = d[h + o]
      BY <2>11, <2>15
    <3>2. h + o \in 1 .. n /\ h + o # h
      BY <2>1, <2>4
    <3> QED BY <2>1, <2>2, <3>1, <3>2 DEF Distinct
  <2>26. \A k \in 1 .. h - 1 : \A l \in 1 .. n - h : L[k].index # R[l].index
    <3> SUFFICES ASSUME NEW k \in 1 .. h - 1, NEW l \in 1 .. n - h  PROVE L[k].index # R[l].index
      OBVIOUS
    <3>1. PICK o \in 1 .. h - 1 : L[k] = d[o]
      BY <2>10, <2>14
    <3>2. PICK e \in 1 .. n - h : R[l] = d[h + e]
      BY <2>11, <2>15
    <3>3. o \in 1 .. n /\ h + e \in 1 .. n /\ o # h + e
      BY <2>1, <2>4
    <3> QED BY <2>1, <2>2, <3>1, <3>2, <3>3 DEF Distinct
  <2>27. Distinct(c)
    <3> SUFFICES ASSUME NEW k \in 1 .. n, NEW l \in 1 .. n, c[k].index = c[l].index  PROVE k = l
      BY <2>9 DEF Distinct
    <3> DEFINE InL(e) == e \in 1 .. h - 1 /\ c[e] = L[e]
               InM(e) == e = h /\ c[e] = M
               InR(e) == e - h \in 1 .. n - h /\ c[e] = R[e - h]
    <3>0. (InL(k) \/ InM(k) \/ InR(k)) /\ (InL(l) \/ InM(l) \/ InR(l))
      BY <2>16
    <3>1. CASE InL(k) /\ InL(l)
      BY <2>7, <3>1 DEF Distinct
    <3>2. CASE InR(k) /\ InR(l)
      <4>1. R[k - h].index = R[l - h].index
        BY <3>2
      <4>2. k - h = l - h
        BY <2>7, <3>2, <4>1 DEF Distinct
      <4> QED BY <2>4, <4>2
    <3>3. CASE InL(k) /\ (InM(l) \/ InR(l))
      BY <2>24, <2>26, <3>3
    <3>4. CASE InM(k) /\ (InL(l) \/ InR(l))
      <4>1. CASE InL(l)
        BY <2>24, <3>4, <4>1
      <4>2. CASE InR(l)
        BY <2>25, <3>4, <4>2
      <4> QED BY <3>4, <4>1, <4>2
    <3>5. CASE InR(k) /\ (InL(l) \/ InM(l))
      <4>1. CASE InL(l)
        BY <2>26, <3>5, <4>1
      <4>2. CASE InM(l)
        BY <2>25, <3>5, <4>2
      <4> QED BY <3>5, <4>1, <4>2
    <3>6. CASE InM(k) /\ InM(l)
      BY <3>6
    <3> HIDE DEF InL, InM, InR
    <3> QED BY <3>0, <3>1, <3>2, <3>3, <3>4, <3>5, <3>6
  <2>21. ASSUME NEW x \in Entries(c)  PROVE x \in Entries(d)
    <3>1. PICK k \in 1 .. n : x = c[k]
      BY <2>9 DEF Entries
    <3>2. \E l \in 1 .. n : x = d[l]
      <4>1. CASE k \in 1 .. h - 1 /\ c[k] = L[k]
        <5>1. PICK l \in 1 .. h - 1 : x = d[l]
          BY <2>10, <2>14, <3>1, <4>1
        <5> QED BY <2>1, <2>4, <5>1
      <4>2. CASE k = h /\ c[k] = M
        BY <2>1, <2>2, <3>1, <4>2
      <4>3. CASE k - h \in 1 .. n - h /\ c[k] = R[k - h]
        <5>1. PICK l \in 1 .. n - h : x = d[h + l]
          BY <2>11, <2>15, <3>1, <4>3
        <5>2. h + l \in 1 .. n
          BY <2>1, <2>4
        <5> QED BY <5>1, <5>2
      <4> QED BY <2>16, <4>1, <4>2, <4>3
    <3> QED BY <2>1, <3>2 DEF Entries
  <2>22. ASSUME NEW x \in Entries(d)  PROVE x \in Entries(c)
    <3>1. PICK k \in 1 .. n : x = d[k]
      BY <2>1 DEF Entries
    <3>2. \E l \in 1 .. n : x = c[l]
      <4>1. CASE k \in 1 .. h - 1
        <5>1. PICK l \in 1 .. h - 1 : x = L[l]
          BY <2>7, <2>12, <3>1, <4>1 DEF Entries
        <5>2. l \in 1 .. n
          BY <2>1, <2>4
        <5> QED BY <2>9, <5>1, <5>2
      <4>2. CASE k = h
        BY <2>1, <2>2, <2>9, <3>1, <4>2
      <4>3. CASE k - h \in 1 .. n - h
        <5>0. h + (k - h) = k
          BY <2>4
        <5>1. PICK l \in 1 .. n - h : x = R[l]
          BY <2>7, <2>13, <3>1, <4>3, <5>0 DEF Entries
        <5>2. h + l \in 1 .. n
          BY <2>1, <2>4
        <5> QED BY <2>9, <5>1, <5>2
      <4>4. k \in 1 .. h - 1 \/ k = h \/ k - h \in 1 .. n - h
        BY <2>4, <2>1
      <4> QED BY <4>1, <4>2, <4>3, <4>4
    <3> QED BY <2>9, <3>2 DEF Entries
  <2>23. Entries(c) = Entries(b)
    BY <2>2, <2>21, <2>22
  <2> QED BY <2>3, <2>8, <2>9, <2>20, <2>23, <2>27 DEF SortOf, n
<1> QED BY <1>0, <1>a, <1>1, <1>2, <1>3

\* probindex_sort sorts: it gives the entries it was given, the likelier first.
LEMMA ProbSorts ==
    ASSUME NEW b \in Seq(ProbIndex), Distinct(b)
    PROVE  SortOf(b, probindex_sort[b])
<1> DEFINE T == {n \in Nat : \A x \in Seq(ProbIndex) : Len(x) <= n /\ Distinct(x) => SortOf(x, probindex_sort[x])}
<1>1. \A x \in Seq(ProbIndex) : probindex_sort[x] = Sort(probindex_sort, x)
  BY SortExists, Zenon DEF SortIs
<1>2. T = Nat
  <2>1. 0 \in T
    <3> SUFFICES ASSUME NEW x \in Seq(ProbIndex), Len(x) <= 0, Distinct(x)  PROVE SortOf(x, probindex_sort[x])
      OBVIOUS
    <3>1. ~(Len(x) > 2)
      OBVIOUS
    <3> QED BY <1>1, <3>1, SortSorts
  <2>2. ASSUME NEW n \in T  PROVE n + 1 \in T
    <3>0. n \in Nat /\ n + 1 \in Nat
      OBVIOUS
    <3> SUFFICES ASSUME NEW x \in Seq(ProbIndex), Len(x) <= n + 1, Distinct(x)  PROVE SortOf(x, probindex_sort[x])
      BY <3>0
    <3>1. Len(x) \in Nat
      OBVIOUS
    <3>2. ASSUME Len(x) > 2
          PROVE  /\ Left(x) \in Seq(ProbIndex) /\ Len(Left(x)) <= n
                 /\ Right(x) \in Seq(ProbIndex) /\ Len(Right(x)) <= n
      BY <3>0, <3>1, <3>2, PartsAreShorter
    <3>3. Len(x) > 2 => /\ Distinct(Left(x)) => SortOf(Left(x), probindex_sort[Left(x)])
                        /\ Distinct(Right(x)) => SortOf(Right(x), probindex_sort[Right(x)])
      BY <3>2
    <3> QED BY <1>1, <3>3, SortSorts
  <2>3. T \in SUBSET Nat
    OBVIOUS
  <2> HIDE DEF T
  <2> QED BY <2>1, <2>2, <2>3, Induction
<1>3. Len(b) \in Nat /\ Len(b) <= Len(b)
  OBVIOUS
<1>4. \A n \in T : Len(b) <= n => SortOf(b, probindex_sort[b])
  OBVIOUS
<1> HIDE DEF T
<1> QED BY <1>2, <1>3, <1>4
----------------------------------------------------------------------------
(* The sampling. *)

\* The sums of a list, step by step.
LEMMA SumsAre ==
    ASSUME NEW f \in Seq(Nat)
    PROVE  /\ Sums(f) \in [0 .. Len(f) -> Nat] /\ Sums(f)[0] = 0
           /\ \A k \in 1 .. Len(f) : Sums(f)[k] = Sums(f)[k - 1] + f[k]
<1> DEFINE N == Len(f)
           E == [i \in 1 .. N |-> [s \in Nat |-> s + f[i]]]
           Is(g) == g = [k \in 0 .. N |-> IF k = 0 THEN 0 ELSE g[k - 1] + f[k]]
<1>1. N \in Nat /\ \A i \in 1 .. N : f[i] \in Nat
  OBVIOUS
<1>2. E \in [1 .. N -> [Nat -> Nat]]
  <2>1. \A i \in 1 .. N : [s \in Nat |-> s + f[i]] \in [Nat -> Nat]
    <3> SUFFICES ASSUME NEW i \in 1 .. N, NEW s \in Nat  PROVE s + f[i] \in Nat
      OBVIOUS
    <3> QED BY <1>1
  <2> QED BY <2>1
<1>3. \A i \in 1 .. N : \A s \in Nat : E[i][s] = s + f[i]
  OBVIOUS
<1>4. Sums(f) = CHOOSE g : Is(g)
  BY Zenon DEF Sums
<1> HIDE DEF E, N
<1>5. PICK g \in [0 .. N -> Nat] : Recurs(g, N, 0, E)
  BY <1>1, <1>2, RecursionDefines
<1>6. ASSUME NEW k \in 0 .. N  PROVE g[k] = IF k = 0 THEN 0 ELSE g[k - 1] + f[k]
  <2>1. g[k] = IF k = 0 THEN 0 ELSE E[k][g[k - 1]]
    BY <1>5 DEF Recurs
  <2>2. k # 0 => k \in 1 .. N /\ k - 1 \in 0 .. N
    BY <1>1
  <2> QED BY <1>3, <2>1, <2>2
<1>7. g = [k \in 0 .. N |-> g[k]]
  OBVIOUS
<1>8. Is(g)
  BY <1>6, <1>7, Zenon
<1>9. Is(Sums(f))
  BY <1>4, <1>8, Zenon
<1> DEFINE h == Sums(f)
<1>10. \A k \in 0 .. N : h[k] = IF k = 0 THEN 0 ELSE h[k - 1] + f[k]
  <2> HIDE DEF h
  <2>1. h = [k \in 0 .. N |-> IF k = 0 THEN 0 ELSE h[k - 1] + f[k]]
    BY <1>9 DEF h
  <2> QED BY <2>1
<1>11. h = [k \in 0 .. N |-> h[k]]
  <2>1. h = [k \in 0 .. N |-> IF k = 0 THEN 0 ELSE h[k - 1] + f[k]]
    BY <1>9
  <2> HIDE DEF h
  <2> QED BY <1>10, <2>1, Zenon
<1> HIDE DEF h, Is
<1>12. \A k \in 0 .. N : h[k] \in Nat
  <2> DEFINE T == {k \in 0 .. N : h[k] \in Nat}
  <2>1. 0 \in T
    BY <1>1, <1>10
  <2>2. ASSUME NEW n \in 0 .. N - 1, n \in T  PROVE n + 1 \in T
    <3>1. n + 1 \in 0 .. N /\ n + 1 \in 1 .. N /\ n + 1 # 0 /\ (n + 1) - 1 = n
      BY <1>1
    <3>2. h[n + 1] = h[n] + f[n + 1]
      BY <1>10, <3>1
    <3>3. h[n] \in Nat /\ f[n + 1] \in Nat
      BY <1>1, <2>2, <3>1
    <3>4. h[n + 1] \in Nat
      BY ONLY <3>2, <3>3
    <3> QED BY <3>1, <3>4
  <2> HIDE DEF T
  <2>3. \A k \in 0 .. N : k \in T
    BY <1>1, <2>1, <2>2, InductionUpTo
  <2> QED BY <2>3 DEF T
<1>13. h \in [0 .. N -> Nat]
  BY <1>11, <1>12
<1>14. \A k \in 1 .. N : h[k] = h[k - 1] + f[k]
  BY <1>1, <1>10
<1> QED BY <1>1, <1>10, <1>13, <1>14 DEF h, N

\* Lists of smaller numbers have smaller sums.
LEMMA SumsBelow ==
    ASSUME NEW f \in Seq(Nat), NEW g \in Seq(Nat), Len(f) = Len(g), \A i \in 1 .. Len(f) : f[i] <= g[i]
    PROVE  \A k \in 0 .. Len(f) : Sums(f)[k] <= Sums(g)[k]
<1> DEFINE N == Len(f)
           a == Sums(f)
           b == Sums(g)
           T == {k \in 0 .. N : a[k] <= b[k]}
<1>1. N \in Nat /\ \A i \in 1 .. N : f[i] \in Nat /\ g[i] \in Nat /\ f[i] <= g[i]
  OBVIOUS
<1>2. a \in [0 .. N -> Nat] /\ a[0] = 0 /\ \A k \in 1 .. N : a[k] = a[k - 1] + f[k]
  BY SumsAre
<1>3. b \in [0 .. N -> Nat] /\ b[0] = 0 /\ \A k \in 1 .. N : b[k] = b[k - 1] + g[k]
  BY SumsAre
<1> HIDE DEF a, b, N
<1>4. 0 \in T
  BY <1>1, <1>2, <1>3
<1>5. ASSUME NEW n \in 0 .. N - 1, n \in T  PROVE n + 1 \in T
  <2>1. n + 1 \in 0 .. N /\ n + 1 \in 1 .. N /\ (n + 1) - 1 = n /\ n \in 0 .. N
    BY <1>1
  <2>2. a[n + 1] = a[n] + f[n + 1] /\ b[n + 1] = b[n] + g[n + 1]
    BY <1>2, <1>3, <2>1
  <2>3. a[n] \in Nat /\ b[n] \in Nat /\ f[n + 1] \in Nat /\ g[n + 1] \in Nat
    BY <1>1, <1>2, <1>3, <2>1
  <2>4. a[n] <= b[n] /\ f[n + 1] <= g[n + 1]
    BY <1>1, <1>5, <2>1
  <2>5. \A x1, x2, y1, y2 \in Nat : x1 <= x2 /\ y1 <= y2 => x1 + y1 <= x2 + y2
    OBVIOUS
  <2>6. a[n] + f[n + 1] <= b[n] + g[n + 1]
    BY ONLY <2>3, <2>4, <2>5, Zenon
  <2>7. a[n + 1] <= b[n + 1]
    BY <2>2, <2>6
  <2> QED BY <2>1, <2>7
<1> HIDE DEF T
<1>6. \A k \in 0 .. N : k \in T
  BY <1>1, <1>4, <1>5, InductionUpTo
<1> QED BY <1>6 DEF T, N, a, b

\* A list that has x at i where another has 0, and is else the same, has x more.
LEMMA SumsMore ==
    ASSUME NEW f \in Seq(Nat), NEW g \in Seq(Nat), NEW i \in 1 .. Len(f), NEW x \in Nat, Len(f) = Len(g),
           f[i] = 0, g[i] = x, \A k \in 1 .. Len(f) : k # i => g[k] = f[k]
    PROVE  Sums(g)[Len(f)] = Sums(f)[Len(f)] + x
<1> DEFINE N == Len(f)
           a == Sums(f)
           b == Sums(g)
           T == {k \in 0 .. N : b[k] = a[k] + IF k >= i THEN x ELSE 0}
<1>1. N \in Nat /\ i \in 1 .. N /\ (\A k \in 1 .. N : f[k] \in Nat /\ g[k] \in Nat /\ (k # i => g[k] = f[k]))
  OBVIOUS
<1>2. a \in [0 .. N -> Nat] /\ a[0] = 0 /\ \A k \in 1 .. N : a[k] = a[k - 1] + f[k]
  BY SumsAre
<1>3. b \in [0 .. N -> Nat] /\ b[0] = 0 /\ \A k \in 1 .. N : b[k] = b[k - 1] + g[k]
  BY SumsAre
<1> HIDE DEF a, b, N
<1>4. 0 \in T
  BY <1>1, <1>2, <1>3
<1>5. ASSUME NEW n \in 0 .. N - 1, n \in T  PROVE n + 1 \in T
  <2>1. n + 1 \in 0 .. N /\ n + 1 \in 1 .. N /\ (n + 1) - 1 = n /\ n \in 0 .. N /\ n \in Nat /\ i \in Nat
    BY <1>1
  <2> DEFINE p == a[n]
             r == b[n]
             y == f[n + 1]
             z == g[n + 1]
             p1 == a[n + 1]
             r1 == b[n + 1]
  <2>2. p1 = p + y /\ r1 = r + z
    BY <1>2, <1>3, <2>1
  <2>3. p \in Nat /\ r \in Nat /\ y \in Nat /\ z \in Nat
    BY <1>1, <1>2, <1>3, <2>1
  <2>4. r = p + IF n >= i THEN x ELSE 0
    BY <1>5
  <2>5. (n + 1 # i => z = y) /\ (n + 1 = i => y = 0 /\ z = x)
    BY <1>1, <2>1
  <2> HIDE DEF p, r, y, z, p1, r1
  <2>6. x \in Nat
    OBVIOUS
  <2>7. r1 = p1 + IF n + 1 >= i THEN x ELSE 0
    <3>1. CASE n + 1 = i
      <4>1. ~(n >= i) /\ n + 1 >= i
        BY ONLY <2>1, <3>1
      <4> QED BY ONLY <2>2, <2>3, <2>4, <2>5, <2>6, <3>1, <4>1
    <3>2. CASE n + 1 # i
      <4>1. n >= i <=> n + 1 >= i
        BY ONLY <2>1, <3>2
      <4>2. CASE n >= i
        BY ONLY <2>2, <2>3, <2>4, <2>5, <2>6, <3>2, <4>1, <4>2
      <4>3. CASE ~(n >= i)
        BY ONLY <2>2, <2>3, <2>4, <2>5, <2>6, <3>2, <4>1, <4>3
      <4> QED BY <4>2, <4>3
    <3> QED BY <3>1, <3>2
  <2> QED BY <2>1, <2>7 DEF p1, r1
<1> HIDE DEF T
<1>6. \A k \in 0 .. N : k \in T
  BY <1>1, <1>4, <1>5, InductionUpTo
<1>7. N \in T /\ N >= i
  BY <1>1, <1>6
<1> QED BY <1>7 DEF T, N, a, b

\* Nothing has no sum.
LEMMA SumsNothing ==
    ASSUME NEW f \in Seq(Nat), \A i \in 1 .. Len(f) : f[i] = 0
    PROVE  Sums(f)[Len(f)] = 0
<1> DEFINE N == Len(f)
           a == Sums(f)
           T == {k \in 0 .. N : a[k] = 0}
<1>1. N \in Nat /\ \A i \in 1 .. N : f[i] = 0
  OBVIOUS
<1>2. a[0] = 0 /\ \A k \in 1 .. N : a[k] = a[k - 1] + f[k]
  BY SumsAre
<1> HIDE DEF a, N
<1>4. 0 \in T
  BY <1>1, <1>2
<1>5. ASSUME NEW n \in 0 .. N - 1, n \in T  PROVE n + 1 \in T
  <2>1. n + 1 \in 0 .. N /\ n + 1 \in 1 .. N /\ (n + 1) - 1 = n
    BY <1>1
  <2> QED BY <1>1, <1>2, <1>5, <2>1
<1> HIDE DEF T
<1>6. \A k \in 0 .. N : k \in T
  BY <1>1, <1>4, <1>5, InductionUpTo
<1>7. N \in T
  BY <1>1, <1>6
<1> QED BY <1>7 DEF T, N, a

\* Arithmetic of products.
LEMMA Timeses ==
    /\ \A a, b, c \in Nat : (a + b) * c = a * c + b * c /\ a * c \in Nat /\ a * c = c * a
    /\ \A a, b, c \in Nat : a <= b => a * c <= b * c
    /\ \A a, b, c \in Nat : a < b /\ c > 0 => a * c < b * c
<1>1. \A a, b, c \in Nat : (a + b) * c = a * c + b * c /\ a * c \in Nat /\ a * c = c * a
  OBVIOUS
<1>2. \A a, b, c \in Nat : a <= b => a * c <= b * c
  <2> SUFFICES ASSUME NEW a \in Nat, NEW b \in Nat, NEW c \in Nat, a <= b  PROVE a * c <= b * c
    OBVIOUS
  <2>1. b - a \in Nat /\ b = a + (b - a)
    OBVIOUS
  <2>2. b * c = a * c + (b - a) * c /\ (b - a) * c \in Nat /\ a * c \in Nat
    BY <1>1, <2>1
  <2> QED BY <2>2
<1>3. \A a, b, c \in Nat : a < b /\ c > 0 => a * c < b * c
  <2> SUFFICES ASSUME NEW a \in Nat, NEW b \in Nat, NEW c \in Nat, a < b, c > 0  PROVE a * c < b * c
    OBVIOUS
  <2>1. a + 1 \in Nat /\ a + 1 <= b
    OBVIOUS
  <2>2. (a + 1) * c <= b * c /\ (a + 1) * c = a * c + 1 * c /\ 1 * c = c /\ a * c \in Nat /\ b * c \in Nat
    BY <1>1, <1>2, <2>1
  <2> QED BY <2>2
<1> QED BY <1>1, <1>2, <1>3

\* When each of a list of numbers is below a bound, so is their mean.
LEMMA SumsMean ==
    ASSUME NEW f \in Seq(Nat), NEW c \in Nat, NEW W \in Nat, \A i \in 1 .. Len(f) : f[i] * c < W
    PROVE  Sums(f)[Len(f)] * c <= Len(f) * W
<1> DEFINE N == Len(f)
           a == Sums(f)
           T == {k \in 0 .. N : a[k] * c <= k * W}
<1>1. N \in Nat /\ \A i \in 1 .. N : f[i] \in Nat /\ f[i] * c < W
  OBVIOUS
<1>2. a \in [0 .. N -> Nat] /\ a[0] = 0 /\ \A k \in 1 .. N : a[k] = a[k - 1] + f[k]
  BY SumsAre
<1> HIDE DEF a, N
<1>4. 0 \in T
  BY <1>1, <1>2
<1>5. ASSUME NEW n \in 0 .. N - 1, n \in T  PROVE n + 1 \in T
  <2>1. n + 1 \in 0 .. N /\ n + 1 \in 1 .. N /\ (n + 1) - 1 = n /\ n \in 0 .. N /\ n \in Nat
    BY <1>1
  <2>2. a[n + 1] = a[n] + f[n + 1] /\ a[n] \in Nat /\ f[n + 1] \in Nat
    BY <1>1, <1>2, <2>1
  <2>3. a[n + 1] * c = a[n] * c + f[n + 1] * c /\ a[n] * c \in Nat /\ f[n + 1] * c \in Nat
    <3>0. \A y, z \in Nat : (y + z) * c = y * c + z * c /\ y * c \in Nat /\ z * c \in Nat
      BY Timeses
    <3>a. a[n] \in Nat /\ f[n + 1] \in Nat
      BY <2>2
    <3>1. /\ (a[n] + f[n + 1]) * c = a[n] * c + f[n + 1] * c
          /\ a[n] * c \in Nat /\ f[n + 1] * c \in Nat
      BY ONLY <3>0, <3>a, Zenon
    <3> QED BY ONLY <2>2, <3>1
  <2>4. (n + 1) * W = n * W + W /\ n * W \in Nat
    <3>1. (n + 1) * W = n * W + 1 * W /\ 1 * W = W /\ n * W \in Nat
      BY <2>1, Timeses
    <3> QED BY <3>1
  <2>5. f[n + 1] * c < W /\ a[n] * c <= n * W
    BY <1>1, <1>5, <2>1
  <2>6. a[n + 1] * c <= (n + 1) * W
    BY ONLY <2>3, <2>4, <2>5, W \in Nat
  <2> QED BY <2>1, <2>6
<1> HIDE DEF T
<1>6. \A k \in 0 .. N : k \in T
  BY <1>1, <1>4, <1>5, InductionUpTo
<1>7. N \in T
  BY <1>1, <1>6
<1> QED BY <1>7 DEF T, N, a

\* The entries of the list before the sort: those of the tokens that are likely enough.
Bound(dist) == 10 * (Len(dist) - 1)
LikelyUpTo(dist, l, n) ==
    /\ \A k \in 1 .. Len(l) :
         /\ l[k].index \in 0 .. n - 1 /\ l[k].prob = dist[l[k].index + 1]
         /\ l[k].prob * Bound(dist) >= Whole
    /\ Distinct(l)
    /\ \A i \in 1 .. n : dist[i] * Bound(dist) >= Whole => \E k \in 1 .. Len(l) : l[k].index = i - 1

LEMMA LikelyIs ==
    ASSUME NEW dist \in Seq(Nat), Len(dist) >= 2
    PROVE  Likely(dist) \in Seq(ProbIndex) /\ LikelyUpTo(dist, Likely(dist), Len(dist))
<1> DEFINE N == Len(dist)
           c == Bound(dist)
           new(i) == [index |-> i - 1, prob |-> dist[i]]
           Step(i, l) == IF dist[i] * c < Whole THEN l ELSE Append(l, new(i))
<1>1. N \in Nat /\ c \in Nat /\ Whole \in Nat /\ (\A i \in 1 .. N : dist[i] \in Nat) /\ << >> \in Seq(ProbIndex)
  BY LlamaAssumption DEF Bound
<1>a. Likely(dist) = (CHOOSE g : g = [i \in 0 .. N |-> IF i = 0 THEN << >> ELSE Step(i, g[i - 1])])[N]
  BY Zenon DEF Likely, Bound
<1>b. \A i \in 1 .. N : new(i) \in ProbIndex /\ new(i).index = i - 1 /\ new(i).prob = dist[i]
  BY <1>1 DEF ProbIndex
<1>c. \A i \in 1 .. N : \A l : Step(i, l) = IF dist[i] * c >= Whole THEN Append(l, new(i)) ELSE l
  <2>1. \A i \in 1 .. N : dist[i] * c \in Nat
    BY <1>1, Timeses
  <2>2. \A i \in 1 .. N : dist[i] * c < Whole <=> ~(dist[i] * c >= Whole)
    BY <1>1, <2>1
  <2> HIDE DEF new, c
  <2> QED BY <2>2
<1> HIDE DEF c, new
<1>2. ASSUME NEW i \in 1 .. N, NEW l \in Seq(ProbIndex)  PROVE Step(i, l) \in Seq(ProbIndex)
  <2> HIDE DEF N
  <2>1. \A x \in ProbIndex : Append(l, x) \in Seq(ProbIndex)
    OBVIOUS
  <2> QED BY <1>b, <2>1
<1> DEFINE E == [i \in 1 .. N |-> [l \in Seq(ProbIndex) |-> Step(i, l)]]
           Is(g) == g = [i \in 0 .. N |-> IF i = 0 THEN << >> ELSE Step(i, g[i - 1])]
           h == CHOOSE g : Is(g)
<1>3. \A i \in 1 .. N : \A l \in Seq(ProbIndex) : E[i][l] = Step(i, l)
  OBVIOUS
<1> HIDE DEF Step
<1>4. E \in [1 .. N -> [Seq(ProbIndex) -> Seq(ProbIndex)]]
  <2>1. \A i \in 1 .. N : [l \in Seq(ProbIndex) |-> Step(i, l)] \in [Seq(ProbIndex) -> Seq(ProbIndex)]
    BY <1>2
  <2> QED BY <2>1
<1> HIDE DEF E, N
<1>5. PICK g \in [0 .. N -> Seq(ProbIndex)] : Recurs(g, N, << >>, E)
  <2>1. << >> \in Seq(ProbIndex)
    BY <1>1
  <2> QED BY <1>1, <1>4, <2>1, RecursionDefines
<1>6. ASSUME NEW i \in 0 .. N  PROVE g[i] = IF i = 0 THEN << >> ELSE Step(i, g[i - 1])
  <2>1. g[i] = IF i = 0 THEN << >> ELSE E[i][g[i - 1]]
    BY <1>5 DEF Recurs
  <2>2. i # 0 => i \in 1 .. N /\ i - 1 \in 0 .. N
    BY <1>1
  <2> QED BY <1>3, <2>1, <2>2
<1>7. g = [i \in 0 .. N |-> g[i]]
  OBVIOUS
<1>8. Is(g)
  BY <1>6, <1>7, Zenon
<1>9. Is(h)
  BY <1>8, Zenon
<1> HIDE DEF h
<1>10. \A i \in 0 .. N : h[i] = IF i = 0 THEN << >> ELSE Step(i, h[i - 1])
  <2>1. h = [i \in 0 .. N |-> IF i = 0 THEN << >> ELSE Step(i, h[i - 1])]
    BY <1>9
  <2> QED BY <2>1
<1>11. h = [i \in 0 .. N |-> h[i]]
  <2>1. h = [i \in 0 .. N |-> IF i = 0 THEN << >> ELSE Step(i, h[i - 1])]
    BY <1>9
  <2> HIDE DEF Is
  <2> QED BY <1>10, <2>1, Zenon
<1> HIDE DEF Is
<1> DEFINE T0 == {i \in 0 .. N : h[i] \in Seq(ProbIndex)}
<1>12. \A i \in 0 .. N : i \in T0
  <2>1. 0 \in T0
    <3>1. << >> \in Seq(ProbIndex) /\ 0 \in 0 .. N
      BY <1>1
    <3> QED BY <1>10, <3>1
  <2>2. ASSUME NEW n \in 0 .. N - 1, n \in T0  PROVE n + 1 \in T0
    <3>1. n + 1 \in 0 .. N /\ n + 1 \in 1 .. N /\ n + 1 # 0 /\ (n + 1) - 1 = n
      BY <1>1
    <3>2. h[n + 1] = Step(n + 1, h[n])
      BY <1>10, <3>1
    <3> QED BY <1>2, <2>2, <3>1, <3>2
  <2> HIDE DEF T0
  <2> QED BY <1>1, <2>1, <2>2, InductionUpTo
<1>13. h \in [0 .. N -> Seq(ProbIndex)]
  <2>1. \A i \in 0 .. N : h[i] \in Seq(ProbIndex)
    BY <1>12
  <2> QED BY <1>11, <2>1
<1> HIDE DEF T0
<1>14. \A i \in 1 .. N : h[i] = Step(i, h[i - 1])
  BY <1>1, <1>10
<1>15. h[0] = << >>
  BY <1>1, <1>10
<1> DEFINE T == {n \in 0 .. N : LikelyUpTo(dist, h[n], n)}
<1>16. 0 \in T
  <2>1. \A i \in 1 .. 0 : FALSE
    OBVIOUS
  <2>2. Len(h[0]) = 0 /\ 0 \in 0 .. N
    BY <1>1, <1>15
  <2> QED BY <2>1, <2>2 DEF LikelyUpTo, Distinct
<1>17. ASSUME NEW n \in 0 .. N - 1, n \in T  PROVE n + 1 \in T
  <2> DEFINE l == h[n]
             m == h[n + 1]
             v == new(n + 1)
  <2>1. n \in Nat /\ n \in 0 .. N /\ n + 1 \in 0 .. N /\ n + 1 \in 1 .. N /\ (n + 1) - 1 = n
    BY <1>1
  <2>2. m = IF dist[n + 1] * c >= Whole THEN Append(l, v) ELSE l
    BY <1>14, <1>c, <2>1
  <2>3. l \in Seq(ProbIndex) /\ Len(l) \in Nat /\ v \in ProbIndex /\ v.index = n /\ v.prob = dist[n + 1]
    <3>1. l \in Seq(ProbIndex)
      BY <1>13, <2>1
    <3> HIDE DEF l
    <3> QED BY <1>b, <2>1, <3>1
  <2>4. /\ \A k \in 1 .. Len(l) : /\ l[k].index \in 0 .. n - 1 /\ l[k].prob = dist[l[k].index + 1]
                                   /\ l[k].prob * c >= Whole
        /\ Distinct(l)
        /\ \A i \in 1 .. n : dist[i] * c >= Whole => \E k \in 1 .. Len(l) : l[k].index = i - 1
    BY <1>17 DEF LikelyUpTo, c
  <2> HIDE DEF l, m, v, T
  <2>5. CASE ~(dist[n + 1] * c >= Whole)
    <3>1. m = l
      BY <2>2, <2>5
    <3>2. \A k \in 1 .. Len(l) : l[k].index \in 0 .. (n + 1) - 1
      <4> SUFFICES ASSUME NEW k \in 1 .. Len(l)  PROVE l[k].index \in 0 .. (n + 1) - 1
        OBVIOUS
      <4>1. l[k].index \in 0 .. n - 1
        BY <2>4
      <4>2. \A x \in 0 .. n - 1 : x \in 0 .. (n + 1) - 1
        BY <2>1
      <4> QED BY <4>1, <4>2
    <3>3. \A i \in 1 .. n + 1 : i \in 1 .. n \/ i = n + 1
      BY <2>1
    <3>4. \A i \in 1 .. n + 1 : dist[i] * c >= Whole => \E k \in 1 .. Len(l) : l[k].index = i - 1
      BY <2>4, <2>5, <3>3
    <3>5. LikelyUpTo(dist, m, n + 1)
      BY ONLY <2>4, <3>1, <3>2, <3>4 DEF LikelyUpTo, c
    <3> QED BY <2>1, <3>5 DEF T, m
  <2>6. CASE dist[n + 1] * c >= Whole
    <3>1. m = Append(l, v)
      BY <2>2, <2>6
    <3>2. /\ Len(m) = Len(l) + 1 /\ m[Len(l) + 1] = v
          /\ \A k \in 1 .. Len(l) : m[k] = l[k]
      BY <2>3, <3>1
    <3>3. \A k \in 1 .. Len(l) + 1 : k \in 1 .. Len(l) \/ k = Len(l) + 1
      BY <2>3
    <3>4. ASSUME NEW k \in 1 .. Len(m)
          PROVE  /\ m[k].index \in 0 .. (n + 1) - 1 /\ m[k].prob = dist[m[k].index + 1]
                 /\ m[k].prob * c >= Whole
      <4>1. CASE k \in 1 .. Len(l)
        <5>1. m[k] = l[k] /\ l[k].index \in 0 .. n - 1
          BY <2>4, <3>2, <4>1
        <5>2. l[k].index \in 0 .. (n + 1) - 1
          BY <2>1, <5>1
        <5> QED BY <2>4, <4>1, <5>1, <5>2
      <4>2. CASE k = Len(l) + 1
        <5>1. m[k].index = n /\ m[k].prob = dist[n + 1]
          BY <2>3, <3>2, <4>2
        <5> QED BY <2>1, <2>6, <5>1
      <4> QED BY <3>2, <3>3, <4>1, <4>2
    <3>5. Distinct(m)
      <4> SUFFICES ASSUME NEW j \in 1 .. Len(m), NEW k \in 1 .. Len(m), m[j].index = m[k].index  PROVE j = k
        BY DEF Distinct
      <4>1. \A e \in 1 .. Len(l) : m[e].index # n
        <5> SUFFICES ASSUME NEW e \in 1 .. Len(l)  PROVE m[e].index # n
          OBVIOUS
        <5>1. m[e] = l[e] /\ l[e].index \in 0 .. n - 1
          BY <2>4, <3>2
        <5> QED BY <2>1, <5>1
      <4>2. m[Len(l) + 1].index = n
        BY <2>3, <3>2
      <4>3. CASE j \in 1 .. Len(l) /\ k \in 1 .. Len(l)
        BY <2>4, <3>2, <4>3 DEF Distinct
      <4> QED BY <3>2, <3>3, <4>1, <4>2, <4>3
    <3>6. ASSUME NEW i \in 1 .. n + 1, dist[i] * c >= Whole  PROVE \E k \in 1 .. Len(m) : m[k].index = i - 1
      <4>1. CASE i \in 1 .. n
        <5>1. PICK k \in 1 .. Len(l) : l[k].index = i - 1
          BY <2>4, <3>6, <4>1
        <5>2. k \in 1 .. Len(m) /\ m[k] = l[k]
          BY <2>3, <3>2
        <5> QED BY <5>1, <5>2
      <4>2. CASE i = n + 1
        <5>1. Len(l) + 1 \in 1 .. Len(m) /\ m[Len(l) + 1].index = i - 1
          BY <2>1, <2>3, <3>2, <4>2
        <5> QED BY <5>1
      <4>3. i \in 1 .. n \/ i = n + 1
        BY <2>1
      <4> QED BY <4>1, <4>2, <4>3
    <3>7. LikelyUpTo(dist, m, n + 1)
      BY ONLY <3>4, <3>5, <3>6 DEF LikelyUpTo, c
    <3> QED BY <2>1, <3>7 DEF T, m
  <2> QED BY <2>5, <2>6
<1> HIDE DEF T
<1>18. \A n \in 0 .. N : n \in T
  BY <1>1, <1>16, <1>17, InductionUpTo
<1>19. N \in T /\ N \in 0 .. N
  BY <1>1, <1>18
<1>20. Likely(dist) = h[N]
  BY <1>a, Zenon DEF h, Is
<1> QED BY <1>13, <1>19, <1>20 DEF T, N

\* Sums only grow.
LEMMA SumsGrow ==
    ASSUME NEW f \in Seq(Nat), NEW j \in 0 .. Len(f)
    PROVE  \A k \in j .. Len(f) : Sums(f)[j] <= Sums(f)[k]
<1> DEFINE N == Len(f)
           a == Sums(f)
           T == {k \in 0 .. N : k >= j => a[j] <= a[k]}
<1>1. N \in Nat /\ j \in 0 .. N /\ \A i \in 1 .. N : f[i] \in Nat
  OBVIOUS
<1>2. a \in [0 .. N -> Nat] /\ a[0] = 0 /\ \A k \in 1 .. N : a[k] = a[k - 1] + f[k]
  BY SumsAre
<1> HIDE DEF a, N
<1>3. 0 \in T
  BY <1>1, <1>2
<1>4. ASSUME NEW n \in 0 .. N - 1, n \in T  PROVE n + 1 \in T
  <2>1. n + 1 \in 0 .. N /\ n + 1 \in 1 .. N /\ (n + 1) - 1 = n /\ n \in 0 .. N /\ n \in Nat /\ j \in Nat
    BY <1>1
  <2>2. a[n + 1] = a[n] + f[n + 1] /\ a[n] \in Nat /\ f[n + 1] \in Nat /\ a[j] \in Nat
    BY <1>1, <1>2, <2>1
  <2>3. CASE n + 1 = j
    BY <2>1, <2>2, <2>3
  <2>4. CASE n >= j
    <3>1. a[j] <= a[n + 1]
      BY <1>4, <2>2, <2>4
    <3> QED BY <2>1, <3>1
  <2>5. CASE ~(n + 1 >= j)
    BY <2>1, <2>5
  <2>6. n + 1 = j \/ n >= j \/ ~(n + 1 >= j)
    BY <2>1
  <2> QED BY <2>3, <2>4, <2>5, <2>6
<1> HIDE DEF T
<1>5. \A k \in 0 .. N : k \in T
  BY <1>1, <1>3, <1>4, InductionUpTo
<1>6. ASSUME NEW k \in j .. N  PROVE a[j] <= a[k]
  <2>1. k \in 0 .. N /\ k >= j
    BY <1>1
  <2> QED BY <1>5, <2>1 DEF T
<1> QED BY <1>6 DEF a, N

\* Some token is likely enough.
LEMMA SomeLikely ==
    ASSUME NEW dist \in Dists
    PROVE  \E i \in 1 .. Len(dist) : dist[i] * Bound(dist) >= Whole
<1> DEFINE n == Len(dist)
           c == Bound(dist)
<1>1. dist \in Seq(Nat) /\ n \in Nat /\ n >= 2 /\ Sums(dist)[n] = Whole /\ Whole \in Nat /\ Whole > 0
  BY LlamaAssumption
<1>2. c \in Nat /\ c > n
  BY <1>1 DEF Bound
<1>3. \A i \in 1 .. n : dist[i] \in Nat
  BY <1>1
<1> HIDE DEF c
<1> SUFFICES ASSUME \A i \in 1 .. n : ~(dist[i] * c >= Whole)  PROVE FALSE
  BY DEF c
<1>4. \A i \in 1 .. n : dist[i] * c < Whole
  <2> SUFFICES ASSUME NEW i \in 1 .. n  PROVE dist[i] * c < Whole
    OBVIOUS
  <2>1. dist[i] * c \in Nat
    BY <1>2, <1>3, Timeses
  <2>2. ~(dist[i] * c >= Whole)
    OBVIOUS
  <2> QED BY ONLY <1>1, <2>1, <2>2
<1>5. Whole * c <= n * Whole
  <2>1. Sums(dist)[n] * c <= n * Whole
    BY <1>1, <1>2, <1>4, SumsMean
  <2> QED BY <1>1, <2>1
<1>6. n * Whole < c * Whole
  <2>1. n < c
    BY <1>1, <1>2
  <2> QED BY ONLY <1>1, <1>2, <2>1, Timeses
<1>7. c * Whole = Whole * c /\ c * Whole \in Nat /\ n * Whole \in Nat
  BY <1>1, <1>2, Timeses
<1> QED BY ONLY <1>5, <1>6, <1>7

\* The tokens likelier than the one that comes out make up no more than topp.
LEMMA SampleIs ==
    ASSUME NEW dist \in Dists, NEW coin \in 0 .. Coins - 1
    PROVE  LET this == dist[sample_topp(dist, coin) + 1]
               ahead == [i \in 1 .. Len(dist) |-> IF dist[i] > this THEN dist[i] ELSE 0]
           IN  /\ sample_topp(dist, coin) \in 0 .. Len(dist) - 1
               /\ this > 0 /\ Sums(ahead)[Len(dist)] * 10 <= 9 * Whole
<1> DEFINE n == Len(dist)
           c == Bound(dist)
           list == probindex_sort[Likely(dist)]
           m == Len(list)
           probs == [k \in 1 .. m |-> list[k].prob]
           sums == Sums(probs)
           over == {k \in 1 .. m : sums[k] * 10 > 9 * Whole}
           last == IF over = {} THEN m ELSE Min(over)
           hit == {k \in 1 .. last : coin * sums[last] < sums[k] * Coins}
           t == sample_topp(dist, coin)
           this == dist[t + 1]
           ahead == [i \in 1 .. n |-> IF dist[i] > this THEN dist[i] ELSE 0]
<1>1. /\ dist \in Seq(Nat) /\ n \in Nat /\ n >= 2 /\ Whole \in Nat /\ Whole > 0
      /\ Coins \in Nat /\ Coins > 0 /\ coin \in Nat /\ coin < Coins /\ c \in Nat /\ c > 0
      /\ \A i \in 1 .. n : dist[i] \in Nat
  <2>1. dist \in Seq(Nat) /\ n \in Nat /\ n >= 2 /\ Whole \in Nat /\ Whole > 0 /\ Coins \in Nat /\ Coins > 0
    BY LlamaAssumption
  <2>2. coin \in Nat /\ coin < Coins
    BY <2>1
  <2>3. c \in Nat /\ c > 0
    BY <2>1 DEF Bound
  <2> QED BY <2>1, <2>2, <2>3
<1>2. Likely(dist) \in Seq(ProbIndex) /\ LikelyUpTo(dist, Likely(dist), n)
  BY <1>1, LikelyIs
<1>3. /\ list \in Seq(ProbIndex) /\ Entries(list) = Entries(Likely(dist)) /\ Distinct(list) /\ Descending(list)
  BY <1>2, ProbSorts DEF SortOf, LikelyUpTo
<1>4. t = IF hit = {} THEN n - 1 ELSE list[Min(hit)].index
  BY Zenon DEF sample_topp
<1> HIDE DEF list, c
<1>5. m \in Nat /\ \A k \in 1 .. m : list[k] \in ProbIndex
  BY <1>3
<1>6. ASSUME NEW k \in 1 .. m
      PROVE  /\ list[k].index \in 0 .. n - 1 /\ list[k].prob = dist[list[k].index + 1]
             /\ list[k].prob * c >= Whole /\ list[k].prob \in Nat /\ list[k].prob > 0
  <2>1. list[k] \in Entries(list)
    BY DEF Entries
  <2>2. PICK j \in 1 .. Len(Likely(dist)) : list[k] = Likely(dist)[j]
    BY <1>3, <2>1 DEF Entries
  <2>3. list[k].index \in 0 .. n - 1 /\ list[k].prob = dist[list[k].index + 1] /\ list[k].prob * c >= Whole
    BY <1>2, <2>2 DEF LikelyUpTo, c
  <2>4. list[k].prob \in Nat
    BY <1>5 DEF ProbIndex
  <2>5. list[k].prob # 0
    <3> SUFFICES ASSUME list[k].prob = 0  PROVE FALSE
      OBVIOUS
    <3>1. 0 * c >= Whole
      BY <2>3
    <3>2. 0 * c = 0
      BY <1>1
    <3> QED BY <1>1, <3>1, <3>2
  <2> QED BY <2>3, <2>4, <2>5
<1>7. ASSUME NEW i \in 1 .. n, dist[i] * c >= Whole  PROVE \E k \in 1 .. m : list[k].index = i - 1
  <2>1. PICK j \in 1 .. Len(Likely(dist)) : Likely(dist)[j].index = i - 1
    BY <1>2, <1>7 DEF LikelyUpTo, c
  <2>2. Likely(dist)[j] \in Entries(list)
    BY <1>3 DEF Entries
  <2> QED BY <2>1, <2>2 DEF Entries
<1>8. m >= 1
  <2>1. PICK i \in 1 .. n : dist[i] * c >= Whole
    BY SomeLikely DEF c
  <2>2. PICK k \in 1 .. m : list[k].index = i - 1
    BY <1>7, <2>1
  <2> QED BY <1>5, <2>2
<1> HIDE DEF m
<1>9. probs \in Seq(Nat) /\ Len(probs) = m /\ \A k \in 1 .. m : probs[k] = list[k].prob /\ probs[k] \in Nat /\ probs[k] > 0
  <2>1. \A k \in 1 .. m : probs[k] = list[k].prob /\ probs[k] \in Nat /\ probs[k] > 0
    BY <1>6
  <2>2. probs \in [1 .. m -> Nat]
    BY <1>6
  <2> QED BY <1>5, <2>1, <2>2
<1> HIDE DEF probs
<1>10. sums \in [0 .. m -> Nat] /\ sums[0] = 0 /\ \A k \in 1 .. m : sums[k] = sums[k - 1] + probs[k]
  BY <1>9, SumsAre
<1>11. \A k \in 1 .. m : sums[k] > 0
  <2> SUFFICES ASSUME NEW k \in 1 .. m  PROVE sums[k] > 0
    OBVIOUS
  <2>1. k - 1 \in 0 .. m /\ k \in 0 .. m
    BY <1>5
  <2>2. sums[k - 1] \in Nat /\ sums[k] = sums[k - 1] + probs[k] /\ probs[k] \in Nat /\ probs[k] > 0
    BY <1>9, <1>10, <2>1
  <2> QED BY <2>2
<1> HIDE DEF sums
<1>12. last \in 1 .. m /\ \A k \in 1 .. last - 1 : sums[k] * 10 <= 9 * Whole
  <2>0. \A k \in 1 .. m : sums[k] \in Nat /\ (k \notin over => sums[k] * 10 <= 9 * Whole)
    <3> SUFFICES ASSUME NEW k \in 1 .. m  PROVE sums[k] \in Nat /\ (k \notin over => sums[k] * 10 <= 9 * Whole)
      OBVIOUS
    <3>1. sums[k] \in Nat
      BY <1>5, <1>10
    <3>2. k \notin over => ~(sums[k] * 10 > 9 * Whole)
      OBVIOUS
    <3> QED BY <1>1, <3>1, <3>2
  <2>1. over \in SUBSET (1 .. m)
    OBVIOUS
  <2> HIDE DEF over
  <2>2. CASE over = {}
    <3>1. last = m
      BY <2>2
    <3>2. \A k \in 1 .. m - 1 : k \in 1 .. m
      BY <1>5
    <3> QED BY <1>5, <1>8, <2>0, <2>2, <3>1, <3>2
  <2>3. CASE over # {}
    <3>1. over \in SUBSET Nat
      BY <2>1
    <3>2. Min(over) \in over /\ \A k \in over : Min(over) <= k
      BY <2>3, <3>1, MinIs
    <3>3. last = Min(over)
      BY <2>3
    <3> HIDE DEF last
    <3>4. last \in 1 .. m /\ \A k \in over : last <= k
      BY <2>1, <3>2, <3>3
    <3>5. \A k \in 1 .. last - 1 : k \in 1 .. m /\ ~(last <= k)
      BY <1>5, <3>4
    <3>6. \A k \in 1 .. last - 1 : k \in 1 .. m /\ k \notin over
      BY <3>4, <3>5
    <3> QED BY <2>0, <3>4, <3>6
  <2> QED BY <2>2, <2>3
<1> HIDE DEF over, last
<1>13. last \in hit /\ hit \in SUBSET Nat /\ hit \in SUBSET (1 .. last)
  <2>1. sums[last] \in Nat /\ sums[last] > 0 /\ last \in Nat /\ last \in 1 .. last
    BY <1>5, <1>10, <1>11, <1>12
  <2>2. coin * sums[last] < Coins * sums[last]
    BY ONLY <1>1, <2>1, Timeses
  <2>3. Coins * sums[last] = sums[last] * Coins
    BY ONLY <1>1, <2>1, Timeses
  <2>4. coin * sums[last] < sums[last] * Coins
    BY ONLY <2>2, <2>3
  <2> QED BY <2>1, <2>4
<1> HIDE DEF hit
<1> DEFINE k == Min(hit)
<1>14. k \in hit /\ hit # {}
  BY <1>13, MinIs
<1>15. k \in 1 .. last /\ k \in 1 .. m /\ k \in Nat /\ k - 1 \in 0 .. m /\ k - 1 <= last - 1
  <2> HIDE DEF k
  <2> QED BY <1>5, <1>12, <1>13, <1>14
<1>16. t = list[k].index
  BY <1>4, <1>14
<1> HIDE DEF k, t
<1>17. t \in 0 .. n - 1 /\ this = list[k].prob /\ this \in Nat /\ this > 0
  BY <1>6, <1>15, <1>16
<1> HIDE DEF this
\* What the first entries of the list make up.
<1> DEFINE G(j) == [i \in 1 .. n |-> IF \E e \in 1 .. j : list[e].index = i - 1 THEN dist[i] ELSE 0]
<1>18. \A j : G(j) \in Seq(Nat) /\ Len(G(j)) = n
  <2>1. \A j : G(j) \in [1 .. n -> Nat]
    BY <1>1
  <2> HIDE DEF G
  <2> QED BY <1>1, <2>1
<1>19. \A j : \A i \in 1 .. n : G(j)[i] = IF \E e \in 1 .. j : list[e].index = i - 1 THEN dist[i] ELSE 0
  OBVIOUS
<1> HIDE DEF G
<1> DEFINE T == {j \in 0 .. m : Sums(G(j))[n] = sums[j]}
<1>20. \A j \in 0 .. m : j \in T
  <2>1. 0 \in T
    <3>1. \A i \in 1 .. n : G(0)[i] = 0
      BY <1>19
    <3>2. Sums(G(0))[n] = 0
      BY <1>18, <3>1, SumsNothing
    <3> QED BY <1>5, <1>10, <3>2
  <2>2. ASSUME NEW j \in 0 .. m - 1, j \in T  PROVE j + 1 \in T
    <3> DEFINE o == list[j + 1].index + 1
    <3>1. j + 1 \in 0 .. m /\ j + 1 \in 1 .. m /\ (j + 1) - 1 = j /\ j \in Nat /\ j \in 0 .. m
      BY <1>5
    <3>2. o \in 1 .. n /\ list[j + 1].index = o - 1 /\ dist[o] = probs[j + 1] /\ probs[j + 1] \in Nat
      <4> DEFINE x == list[j + 1].index
      <4>1. x \in 0 .. n - 1 /\ list[j + 1].prob = dist[x + 1]
        BY <1>6, <3>1
      <4>2. probs[j + 1] = list[j + 1].prob /\ probs[j + 1] \in Nat
        BY <1>9, <3>1
      <4> HIDE DEF x
      <4>3. x + 1 \in 1 .. n /\ x = (x + 1) - 1
        BY <1>1, <4>1
      <4> QED BY <4>1, <4>2, <4>3 DEF x
    <3> HIDE DEF o
    <3>3. \A e \in 1 .. j : e \in 1 .. j + 1 /\ e \in 1 .. m /\ e # j + 1
      BY <1>5, <3>1
    <3>4. \A e \in 1 .. j + 1 : e \in 1 .. j \/ e = j + 1
      BY <3>1
    <3>5. \A e \in 1 .. j : list[e].index # o - 1
      BY <1>3, <3>1, <3>2, <3>3 DEF Distinct, m
    <3>6. G(j)[o] = 0
      BY <1>19, <3>2, <3>5
    <3>7. G(j + 1)[o] = dist[o]
      <4>1. j + 1 \in 1 .. j + 1
        BY <3>1
      <4> QED BY <1>19, <3>2, <4>1
    <3>8. ASSUME NEW i \in 1 .. n, i # o  PROVE G(j + 1)[i] = G(j)[i]
      <4>1. i - 1 # o - 1
        BY <3>2, <3>8
      <4>2. (\E e \in 1 .. j + 1 : list[e].index = i - 1) <=> (\E e \in 1 .. j : list[e].index = i - 1)
        BY <3>2, <3>3, <3>4, <4>1
      <4> QED BY <1>19, <4>2
    <3>9. Sums(G(j + 1))[n] = Sums(G(j))[n] + probs[j + 1]
      <4> DEFINE f == G(j)
                 g == G(j + 1)
      <4>1. f \in Seq(Nat) /\ Len(f) = n /\ g \in Seq(Nat) /\ Len(g) = n
        BY <1>18
      <4>2. f[o] = 0 /\ g[o] = probs[j + 1] /\ \A i \in 1 .. n : i # o => g[i] = f[i]
        BY <3>2, <3>6, <3>7, <3>8
      <4> HIDE DEF f, g
      <4>3. Sums(g)[n] = Sums(f)[n] + probs[j + 1]
        BY <3>2, <4>1, <4>2, SumsMore
      <4> QED BY <4>3 DEF f, g
    <3> QED BY <1>10, <2>2, <3>1, <3>9
  <2> HIDE DEF T
  <2> QED BY <1>5, <2>1, <2>2, InductionUpTo
<1>21. Sums(G(k - 1))[n] = sums[k - 1]
  BY <1>15, <1>20
<1>22. ahead \in Seq(Nat) /\ Len(ahead) = n /\ \A i \in 1 .. n : ahead[i] <= G(k - 1)[i]
  <2>1. ahead \in [1 .. n -> Nat]
    BY <1>1
  <2>2. ahead \in Seq(Nat) /\ Len(ahead) = n
    <3> HIDE DEF ahead
    <3> QED BY <1>1, <2>1
  <2>3. \A i \in 1 .. n : ahead[i] = IF dist[i] > this THEN dist[i] ELSE 0
    OBVIOUS
  <2> HIDE DEF ahead
  <2>4. ASSUME NEW i \in 1 .. n  PROVE ahead[i] <= G(k - 1)[i]
    <3>1. CASE ~(dist[i] > this)
      <4>1. ahead[i] = 0 /\ G(k - 1)[i] \in Nat
        BY <1>1, <1>19, <2>3, <3>1
      <4> QED BY <4>1
    <3>2. CASE dist[i] > this
      <4>1. dist[i] * c >= Whole
        <5>1. this * c >= Whole /\ this * c \in Nat /\ dist[i] * c \in Nat
          BY <1>1, <1>6, <1>15, <1>17, Timeses
        <5>2. this <= dist[i] /\ dist[i] \in Nat /\ this \in Nat
          BY <1>1, <1>17, <3>2
        <5>3. this * c <= dist[i] * c
          BY ONLY <1>1, <5>2, Timeses
        <5> QED BY ONLY <1>1, <5>1, <5>3
      <4>2. PICK e \in 1 .. m : list[e].index = i - 1
        BY <1>7, <4>1
      <4>3. list[e].prob = dist[i]
        <5>1. list[e].prob = dist[(i - 1) + 1]
          BY <1>6, <4>2
        <5> QED BY <1>1, <5>1
      <4>4. e \in 1 .. k - 1
        <5> SUFFICES ASSUME ~(e <= k - 1)  PROVE FALSE
          BY <1>5, <1>15
        <5>1. e = k \/ k < e
          BY <1>5, <1>15
        <5>2. e = k => dist[i] = this
          BY <1>17, <4>3
        <5>3. k < e => this >= dist[i]
          BY <1>3, <1>15, <1>17, <4>3 DEF Descending, m
        <5>4. dist[i] \in Nat /\ this \in Nat
          BY <1>1, <1>17
        <5> QED BY <3>2, <5>1, <5>2, <5>3, <5>4
      <4>5. G(k - 1)[i] = dist[i] /\ ahead[i] = dist[i] /\ dist[i] \in Nat
        BY <1>1, <1>19, <2>3, <3>2, <4>2, <4>4
      <4> QED BY <4>5
    <3> QED BY <3>1, <3>2
  <2> QED BY <2>2, <2>4
<1>23. Sums(ahead)[n] <= sums[k - 1]
  <2> DEFINE g == G(k - 1)
  <2>1. g \in Seq(Nat) /\ Len(g) = n /\ \A i \in 1 .. n : ahead[i] <= g[i]
    BY <1>18, <1>22
  <2> HIDE DEF g, ahead
  <2>2. \A j \in 0 .. n : Sums(ahead)[j] <= Sums(g)[j]
    BY <1>22, <2>1, SumsBelow
  <2> QED BY <1>1, <1>21, <2>2 DEF g
<1>24. Sums(ahead)[n] \in Nat
  <2> HIDE DEF ahead
  <2>1. Sums(ahead) \in [0 .. n -> Nat]
    BY <1>22, SumsAre
  <2> QED BY <1>1, <2>1
<1>25. sums[k - 1] * 10 <= 9 * Whole /\ sums[k - 1] \in Nat
  <2>1. sums[k - 1] \in Nat
    BY <1>10, <1>15
  <2>2. CASE k = 1
    <3>1. sums[k - 1] = 0
      BY <1>10, <2>2
    <3> QED BY <1>1, <3>1
  <2>3. CASE k # 1
    <3>1. k - 1 \in 1 .. last - 1
      BY <1>12, <1>15, <2>3
    <3> QED BY <1>12, <2>1, <3>1
  <2> QED BY <2>2, <2>3
<1>26. Sums(ahead)[n] * 10 <= 9 * Whole
  <2> HIDE DEF ahead
  <2> QED BY ONLY <1>1, <1>23, <1>24, <1>25
<1> QED BY <1>17, <1>26 DEF t, this

----------------------------------------------------------------------------
(* The prompt. *)

\* Texts one behind the other.
LEMMA Concats ==
    ASSUME NEW x \in Seq(Nat), NEW y \in Seq(Nat), NEW z \in Seq(Nat)
    PROVE  (x \o y) \o z = x \o (y \o z)
  OBVIOUS

VocabRead == version \in DOMAIN Vocab /\ known \in {Len(Words) - 3, Len(Words)}
Ids == 0 .. Len(Words) - 1

LEMMA WordsAre ==
    ASSUME VocabRead
    PROVE  /\ Len(Words) \in Nat /\ Len(Words) >= 3 /\ known \in Nat /\ known <= Len(Words)
           /\ SeqLen[version] \in Nat
           /\ \A i \in 1 .. Len(Words) : Words[i].text \in Seq(Nat) /\ Words[i].score \in Int
           /\ \A id \in Ids : Text(id) \in Seq(Nat)
<1>1. Words \in Seq(TokenInfo) /\ Len(Words) >= 3 /\ SeqLen[version] \in Nat
  BY LlamaAssumption DEF VocabRead, Words
<1>2. \A i \in 1 .. Len(Words) : Words[i].text \in Seq(Nat) /\ Words[i].score \in Int
  <2>1. \A i \in 1 .. Len(Words) : Words[i] \in TokenInfo
    BY <1>1
  <2>2. \A v \in TokenInfo : v.text \in Seq(Nat) /\ v.score \in Int
    BY DEF TokenInfo
  <2> QED BY <2>1, <2>2
<1>3. Len(Words) \in Nat /\ known \in Nat /\ known <= Len(Words)
  BY <1>1 DEF VocabRead
<1>4. \A id \in Ids : id + 1 \in 1 .. Len(Words)
  BY <1>3 DEF Ids
<1> QED BY <1>1, <1>2, <1>3, <1>4 DEF Text

\* str_lookup finds a word with that text when there is one.
LEMMA LookupIs ==
    ASSUME VocabRead, NEW text
    PROVE  IF Known(text) THEN str_lookup(text) \in Ids /\ Text(str_lookup(text)) = text
           ELSE str_lookup(text) = -1
<1>1. CASE Known(text)
  <2> DEFINE k == Min(Matches(text))
  <2>1. Matches(text) \in SUBSET Nat /\ Matches(text) # {}
    BY <1>1, WordsAre DEF Matches, Known
  <2>2. k \in Matches(text)
    BY <2>1, MinIs
  <2>3. str_lookup(text) = k - 1
    BY <2>1 DEF str_lookup
  <2> HIDE DEF k
  <2>4. k \in 1 .. known /\ Words[k].text = text
    BY <2>2 DEF Matches
  <2>5. k - 1 \in Ids /\ (k - 1) + 1 = k
    BY <2>4, WordsAre DEF Ids
  <2> QED BY <1>1, <2>3, <2>4, <2>5 DEF Text
<1>2. CASE ~Known(text)
  BY <1>2 DEF str_lookup, Known
<1> QED BY <1>1, <1>2

\* The text of a list of tokens, token by token.
LEMMA SpellingIs ==
    ASSUME VocabRead, NEW ids \in Seq(Ids)
    PROVE  \E h \in [0 .. Len(ids) -> Seq(Nat)] :
             /\ h[0] = << >> /\ Spelling(ids) = h[Len(ids)]
             /\ \A i \in 1 .. Len(ids) : h[i] = h[i - 1] \o Text(ids[i])
<1> DEFINE N == Len(ids)
           Step(i, l) == l \o Text(ids[i])
<1>1. N \in Nat /\ << >> \in Seq(Nat)
  OBVIOUS
<1>a. \A i \in 1 .. N : Text(ids[i]) \in Seq(Nat)
  BY WordsAre
<1>b. Spelling(ids) = (CHOOSE g : g = [i \in 0 .. N |-> IF i = 0 THEN << >> ELSE Step(i, g[i - 1])])[N]
  BY Zenon DEF Spelling
<1>2. ASSUME NEW i \in 1 .. N, NEW l \in Seq(Nat)  PROVE Step(i, l) \in Seq(Nat)
  BY <1>a
<1> DEFINE E == [i \in 1 .. N |-> [l \in Seq(Nat) |-> Step(i, l)]]
           Is(g) == g = [i \in 0 .. N |-> IF i = 0 THEN << >> ELSE Step(i, g[i - 1])]
           h == CHOOSE g : Is(g)
<1>3. \A i \in 1 .. N : \A l \in Seq(Nat) : E[i][l] = Step(i, l)
  OBVIOUS
<1> HIDE DEF Step
<1>4. E \in [1 .. N -> [Seq(Nat) -> Seq(Nat)]]
  <2>1. \A i \in 1 .. N : [l \in Seq(Nat) |-> Step(i, l)] \in [Seq(Nat) -> Seq(Nat)]
    BY <1>2
  <2> QED BY <2>1
<1> HIDE DEF E, N
<1>5. PICK g \in [0 .. N -> Seq(Nat)] : Recurs(g, N, << >>, E)
  <2>1. << >> \in Seq(Nat)
    BY <1>1
  <2> QED BY <1>1, <1>4, <2>1, RecursionDefines
<1>6. ASSUME NEW i \in 0 .. N  PROVE g[i] = IF i = 0 THEN << >> ELSE Step(i, g[i - 1])
  <2>1. g[i] = IF i = 0 THEN << >> ELSE E[i][g[i - 1]]
    BY <1>5 DEF Recurs
  <2>2. i # 0 => i \in 1 .. N /\ i - 1 \in 0 .. N
    BY <1>1
  <2> QED BY <1>3, <2>1, <2>2
<1>7. g = [i \in 0 .. N |-> g[i]]
  OBVIOUS
<1>8. Is(g)
  BY <1>6, <1>7, Zenon
<1>9. Is(h)
  BY <1>8, Zenon
<1> HIDE DEF h
<1>10. \A i \in 0 .. N : h[i] = IF i = 0 THEN << >> ELSE Step(i, h[i - 1])
  <2>1. h = [i \in 0 .. N |-> IF i = 0 THEN << >> ELSE Step(i, h[i - 1])]
    BY <1>9
  <2> QED BY <2>1
<1>11. h = [i \in 0 .. N |-> h[i]]
  <2>1. h = [i \in 0 .. N |-> IF i = 0 THEN << >> ELSE Step(i, h[i - 1])]
    BY <1>9
  <2> HIDE DEF Is
  <2> QED BY <1>10, <2>1, Zenon
<1> HIDE DEF Is
<1> DEFINE T0 == {i \in 0 .. N : h[i] \in Seq(Nat)}
<1>12. \A i \in 0 .. N : i \in T0
  <2>1. 0 \in T0
    <3>1. << >> \in Seq(Nat) /\ 0 \in 0 .. N
      BY <1>1
    <3> QED BY <1>10, <3>1
  <2>2. ASSUME NEW n \in 0 .. N - 1, n \in T0  PROVE n + 1 \in T0
    <3>1. n + 1 \in 0 .. N /\ n + 1 \in 1 .. N /\ n + 1 # 0 /\ (n + 1) - 1 = n
      BY <1>1
    <3>2. h[n + 1] = Step(n + 1, h[n])
      BY <1>10, <3>1
    <3> QED BY <1>2, <2>2, <3>1, <3>2
  <2> HIDE DEF T0
  <2> QED BY <1>1, <2>1, <2>2, InductionUpTo
<1>13. h \in [0 .. N -> Seq(Nat)]
  <2>1. \A i \in 0 .. N : h[i] \in Seq(Nat)
    BY <1>12
  <2> QED BY <1>11, <2>1
<1> HIDE DEF T0
<1>14. \A i \in 1 .. N : h[i] = Step(i, h[i - 1])
  BY <1>1, <1>10
<1>15. h[0] = << >>
  BY <1>1, <1>10
<1>16. Spelling(ids) = h[N]
  BY <1>b, Zenon DEF h, Is
<1> QED BY <1>13, <1>14, <1>15, <1>16 DEF N, Step

LEMMA SpellingTypes ==
    ASSUME VocabRead, NEW ids \in Seq(Ids)
    PROVE  Spelling(ids) \in Seq(Nat)
<1>1. PICK h \in [0 .. Len(ids) -> Seq(Nat)] : Spelling(ids) = h[Len(ids)]
  BY SpellingIs
<1> QED BY <1>1

LEMMA SpellingNothing ==
    ASSUME VocabRead
    PROVE  Spelling(<< >>) = << >>
<1>1. << >> \in Seq(Ids) /\ Len(<< >>) = 0
  OBVIOUS
<1> QED BY <1>1, SpellingIs

LEMMA SpellingOne ==
    ASSUME VocabRead, NEW id \in Ids
    PROVE  Spelling(<<id>>) = Text(id)
<1> DEFINE s == <<id>>
<1>1. s \in Seq(Ids) /\ Len(s) = 1 /\ s[1] = id
  OBVIOUS
<1> HIDE DEF s
<1>2. PICK h \in [0 .. Len(s) -> Seq(Nat)] : /\ h[0] = << >> /\ Spelling(s) = h[Len(s)]
             /\ \A i \in 1 .. Len(s) : h[i] = h[i - 1] \o Text(s[i])
  BY <1>1, SpellingIs
<1>3. h[1] = h[1 - 1] \o Text(s[1])
  BY <1>1, <1>2
<1>4. Text(id) \in Seq(Nat)
  BY WordsAre
<1>5. << >> \o Text(id) = Text(id)
  BY <1>4, ConcatEmptySeq
<1>6. h[1 - 1] = << >> /\ Spelling(s) = h[1]
  BY <1>1, <1>2
<1> QED BY <1>1, <1>3, <1>5, <1>6 DEF s

LEMMA SpellingJoins ==
    ASSUME VocabRead, NEW a \in Seq(Ids), NEW b \in Seq(Ids)
    PROVE  Spelling(a \o b) = Spelling(a) \o Spelling(b)
<1> DEFINE A == Len(a)
           B == Len(b)
           c == a \o b
<1>1. /\ A \in Nat /\ B \in Nat /\ c \in Seq(Ids) /\ Len(c) = A + B
      /\ \A i \in 1 .. A : c[i] = a[i]
      /\ \A i \in 1 .. B : c[A + i] = b[i]
  OBVIOUS
<1>2. PICK f \in [0 .. A -> Seq(Nat)] : /\ f[0] = << >> /\ Spelling(a) = f[A]
             /\ \A i \in 1 .. A : f[i] = f[i - 1] \o Text(a[i])
  BY SpellingIs
<1>3. PICK g \in [0 .. B -> Seq(Nat)] : /\ g[0] = << >> /\ Spelling(b) = g[B]
             /\ \A i \in 1 .. B : g[i] = g[i - 1] \o Text(b[i])
  BY SpellingIs
<1> HIDE DEF c
<1>4. PICK h \in [0 .. Len(c) -> Seq(Nat)] : /\ h[0] = << >> /\ Spelling(c) = h[Len(c)]
             /\ \A i \in 1 .. Len(c) : h[i] = h[i - 1] \o Text(c[i])
  BY <1>1, SpellingIs
<1>5. /\ h[0] = << >> /\ Spelling(c) = h[A + B]
      /\ \A i \in 1 .. A + B : h[i] = h[i - 1] \o Text(c[i])
  BY <1>1, <1>4
<1>6. \A i \in 1 .. B : Text(b[i]) \in Seq(Nat)
  BY WordsAre
<1> HIDE DEF A, B
<1> DEFINE T == {n \in 0 .. A : h[n] = f[n]}
<1>7. \A n \in 0 .. A : n \in T
  <2>1. 0 \in T
    BY <1>1, <1>2, <1>5
  <2>2. ASSUME NEW n \in 0 .. A - 1, n \in T  PROVE n + 1 \in T
    <3>1. n + 1 \in 0 .. A /\ n + 1 \in 1 .. A /\ n + 1 \in 1 .. A + B /\ (n + 1) - 1 = n
      BY <1>1
    <3>2. h[n + 1] = h[n] \o Text(c[n + 1])
      BY <1>5, <3>1
    <3>3. f[n + 1] = f[n] \o Text(a[n + 1])
      BY <1>2, <3>1
    <3>4. c[n + 1] = a[n + 1]
      BY <1>1, <3>1
    <3>5. h[n] = f[n]
      BY <2>2
    <3>6. h[n + 1] = f[n + 1]
      BY <3>2, <3>3, <3>4, <3>5
    <3> QED BY <3>1, <3>6
  <2> HIDE DEF T
  <2> QED BY <1>1, <2>1, <2>2, InductionUpTo
<1> DEFINE U == {n \in 0 .. B : h[A + n] = f[A] \o g[n]}
<1>8. \A n \in 0 .. B : n \in U
  <2>0. f[A] \in Seq(Nat) /\ h[A] = f[A]
    BY <1>1, <1>2, <1>7
  <2>1. 0 \in U
    <3>1. A + 0 = A /\ 0 \in 0 .. B
      BY <1>1
    <3>2. f[A] \o << >> = f[A]
      BY <2>0, ConcatEmptySeq
    <3>3. h[A + 0] = f[A] \o g[0]
      BY <1>3, <2>0, <3>1, <3>2
    <3> QED BY <3>1, <3>3
  <2>2. ASSUME NEW n \in 0 .. B - 1, n \in U  PROVE n + 1 \in U
    <3>1. /\ n + 1 \in 0 .. B /\ n \in 0 .. B /\ n + 1 \in 1 .. B /\ A + (n + 1) \in 1 .. A + B /\ (n + 1) - 1 = n
          /\ (A + (n + 1)) - 1 = A + n
      BY <1>1
    <3>2. h[A + (n + 1)] = h[A + n] \o Text(c[A + (n + 1)])
      BY <1>5, <3>1
    <3>3. g[n + 1] = g[n] \o Text(b[n + 1])
      BY <1>3, <3>1
    <3>4. c[A + (n + 1)] = b[n + 1]
      BY <1>1, <3>1
    <3>5. h[A + n] = f[A] \o g[n]
      BY <2>2
    <3>6. g[n] \in Seq(Nat) /\ Text(b[n + 1]) \in Seq(Nat)
      BY <1>3, <1>6, <3>1
    <3>7. (f[A] \o g[n]) \o Text(b[n + 1]) = f[A] \o (g[n] \o Text(b[n + 1]))
      <4> DEFINE x == f[A]
                 y == g[n]
                 z == Text(b[n + 1])
      <4>1. x \in Seq(Nat) /\ y \in Seq(Nat) /\ z \in Seq(Nat)
        BY <2>0, <3>6
      <4> HIDE DEF x, y, z
      <4>2. (x \o y) \o z = x \o (y \o z)
        BY ONLY <4>1, Concats
      <4> QED BY <4>2 DEF x, y, z
    <3>8. h[A + (n + 1)] = f[A] \o g[n + 1]
      BY <3>2, <3>3, <3>4, <3>5, <3>7
    <3> QED BY <3>1, <3>8
  <2> HIDE DEF U
  <2> QED BY <1>1, <2>1, <2>2, InductionUpTo
<1> HIDE DEF T, U
<1>9. B \in U
  BY <1>1, <1>8
<1> QED BY <1>2, <1>3, <1>5, <1>9 DEF c, U

\* Where a text is first refused: behind its end when all of it has words.
Refused(text) == IF Readable(text) = 0 THEN Len(text) + 1 ELSE Readable(text)

LEMMA ReadableIs ==
    ASSUME NEW text \in Seq(Nat)
    PROVE  /\ Refused(text) \in 1 .. Len(text) + 1
           /\ \A k \in 1 .. Refused(text) - 1 : Known(<<text[k]>>)
           /\ Refused(text) <= Len(text) => ~Known(<<text[Refused(text)]>>)
           /\ Readably(text) = SubSeq(text, 1, Refused(text) - 1)
           /\ Readable(text) = 0 <=> Refused(text) = Len(text) + 1
           /\ Readably(text) \in Seq(Nat)
<1> DEFINE I == {i \in 1 .. Len(text) : ~Known(<<text[i]>>)}
           r == Readable(text)
<1>1. r = IF I # {} THEN Min(I) ELSE 0
  BY DEF Readable, SelectInSeq
<1>2. Len(text) \in Nat /\ I \in SUBSET Nat
  OBVIOUS
<1>3. \A i \in 1 .. Len(text) : i \in I <=> ~Known(<<text[i]>>)
  OBVIOUS
<1>4. I \in SUBSET (1 .. Len(text))
  OBVIOUS
<1> HIDE DEF I, r
<1>5. CASE I = {}
  <2>1. r = 0 /\ Refused(text) = Len(text) + 1
    BY <1>1, <1>5 DEF Refused, r
  <2>2. Refused(text) - 1 = Len(text)
    BY <1>2, <2>1
  <2>3. Readably(text) = text
    BY <2>1 DEF Readably, r
  <2>4. SubSeq(text, 1, Len(text)) = text
    BY SubSeqFull
  <2>5. \A k \in 1 .. Len(text) : Known(<<text[k]>>)
    BY <1>3, <1>5
  <2>6. Len(text) + 1 \in 1 .. Len(text) + 1 /\ ~(Len(text) + 1 <= Len(text))
    BY <1>2
  <2> QED BY <2>1, <2>2, <2>3, <2>4, <2>5, <2>6 DEF r
<1>6. CASE I # {}
  <2>1. r \in I /\ \A k \in I : r <= k
    BY <1>1, <1>2, <1>6, MinIs
  <2>2. r \in 1 .. Len(text) /\ r # 0 /\ ~Known(<<text[r]>>)
    BY <1>2, <1>3, <1>4, <2>1
  <2>3. Refused(text) = r
    BY <2>2 DEF Refused, r
  <2>4. \A k \in 1 .. r - 1 : k \in 1 .. Len(text) /\ ~(r <= k)
    BY <1>2, <2>2
  <2>5. \A k \in 1 .. r - 1 : Known(<<text[k]>>)
    BY <1>3, <2>1, <2>4
  <2>6. Readably(text) = SubSeq(text, 1, r - 1)
    BY <2>2 DEF Readably, r
  <2>7. \A i \in 1 .. r - 1 : text[i] \in Nat
    BY <2>4
  <2>8. SubSeq(text, 1, r - 1) \in Seq(Nat)
    BY <2>2, <2>7, SubSeqProperties
  <2>9. r \in 1 .. Len(text) + 1 /\ r # Len(text) + 1
    BY <1>2, <2>2
  <2> QED BY <2>2, <2>3, <2>5, <2>6, <2>8, <2>9 DEF r
<1> QED BY <1>5, <1>6

\* One more of a text.
LEMMA OneMore ==
    ASSUME NEW text \in Seq(Nat), NEW n \in 0 .. Len(text) - 1
    PROVE  /\ SubSeq(text, 1, n) \in Seq(Nat) /\ <<text[n + 1]>> \in Seq(Nat)
           /\ SubSeq(text, 1, n + 1) = SubSeq(text, 1, n) \o <<text[n + 1]>>
<1>1. n + 1 \in 1 .. Len(text) /\ 1 \in 1 .. Len(text) /\ n + 1 \in 1 .. Len(text) /\ (n + 1) - 1 = n
      /\ \A i \in 1 .. n : i \in 1 .. Len(text)
  OBVIOUS
<1>2. SubSeq(text, 1, n + 1) = SubSeq(text, 1, (n + 1) - 1) \o <<text[n + 1]>>
  BY <1>1, SubSeqRecursiveSecond
<1>3. \A i \in 1 .. n : text[i] \in Nat
  BY <1>1
<1>4. SubSeq(text, 1, n) \in Seq(Nat)
  BY <1>3, SubSeqProperties
<1> QED BY <1>1, <1>2, <1>4

TokenLists == [ids : Seq(Ids), ok : BOOLEAN, broken : BOOLEAN]

\* A list with another token.
LEMMA LetteredIs ==
    ASSUME VocabRead, NEW l \in TokenLists, NEW c
    PROVE  LET m == Lettered(l, str_lookup(<<c>>))
           IN  /\ m \in TokenLists /\ m.broken = l.broken /\ m.ok = (l.ok /\ Known(<<c>>))
               /\ IF l.ok /\ Known(<<c>>)
                  THEN Len(m.ids) = Len(l.ids) + 1 /\ Spelling(m.ids) = Spelling(l.ids) \o <<c>>
                  ELSE m.ids = l.ids
<1> DEFINE id == str_lookup(<<c>>)
           m == Lettered(l, id)
<1>1. IF Known(<<c>>) THEN id \in Ids /\ Text(id) = <<c>> ELSE id = -1
  BY LookupIs
<1>2. l.ids \in Seq(Ids) /\ l.ok \in BOOLEAN /\ l.broken \in BOOLEAN
  BY DEF TokenLists
<1>3. \A i \in Ids : i # -1
  BY WordsAre DEF Ids
<1> HIDE DEF id
<1>4. CASE ~l.ok
  BY <1>2, <1>4 DEF Lettered
<1>5. CASE l.ok /\ ~Known(<<c>>)
  <2>1. m = [l EXCEPT !.ok = FALSE]
    BY <1>1, <1>5 DEF Lettered
  <2> HIDE DEF m
  <2>2. m \in TokenLists /\ m.broken = l.broken /\ m.ok = FALSE /\ m.ids = l.ids
    BY <2>1 DEF TokenLists
  <2> QED BY <1>5, <2>2 DEF m, id
<1>6. CASE l.ok /\ Known(<<c>>)
  <2>1. m = [l EXCEPT !.ids = Append(@, id)] /\ id \in Ids /\ Text(id) = <<c>>
    BY <1>1, <1>3, <1>6 DEF Lettered
  <2>2. Append(l.ids, id) \in Seq(Ids) /\ Len(Append(l.ids, id)) = Len(l.ids) + 1
        /\ Append(l.ids, id) = l.ids \o <<id>> /\ <<id>> \in Seq(Ids)
    BY <1>2, <2>1, AppendIsConcat
  <2> HIDE DEF m
  <2>3. m.ids = Append(l.ids, id) /\ m \in TokenLists /\ m.broken = l.broken /\ m.ok = TRUE
    BY <1>6, <2>1, <2>2 DEF TokenLists
  <2>4. Spelling(l.ids \o <<id>>) = Spelling(l.ids) \o Spelling(<<id>>)
    BY <1>2, <2>2, SpellingJoins
  <2>5. Spelling(<<id>>) = <<c>>
    BY <2>1, SpellingOne
  <2>6. Len(m.ids) = Len(l.ids) + 1
    BY <2>2, <2>3
  <2>7. Spelling(m.ids) = Spelling(l.ids) \o <<c>>
    BY <2>2, <2>3, <2>4, <2>5
  <2> QED BY <1>6, <2>3, <2>6, <2>7 DEF m, id
<1> QED BY <1>4, <1>5, <1>6

Spelt(list, text, n, l) ==
    /\ l.broken = list.broken
    /\ l.ok <=> n < Refused(text)
    /\ Len(l.ids) >= Len(list.ids)
    /\ Spelling(l.ids) = Spelling(list.ids) \o SubSeq(text, 1, IF n < Refused(text) THEN n ELSE Refused(text) - 1)

\* The letters of a text become tokens that spell it, as far as it is readable.
LEMMA LettersAre ==
    ASSUME VocabRead, NEW list \in TokenLists, NEW text \in Seq(Nat)
    PROVE  /\ Letters(list, text) \in TokenLists
           /\ Letters(list, text).ok <=> Readable(text) = 0
           /\ Spelling(Letters(list, text).ids) = Spelling(list.ids) \o Readably(text)
           /\ ~Letters(list, text).broken =>
                /\ ~list.broken /\ Len(Letters(list, text).ids) <= SeqLen[version]
                /\ known < Len(Words) =>
                     Letters(list, text).ok /\ Len(list.ids) <= 1
<1> DEFINE N == Len(text)
           first == [list EXCEPT !.ok = TRUE]
           Step(i, l) == Lettered(l, str_lookup(<<text[i]>>))
<1>1. N \in Nat /\ first \in TokenLists
  <2>1. first \in TokenLists
    BY DEF TokenLists
  <2> QED BY <2>1
<1>a. first.ok = TRUE /\ first.ids = list.ids /\ first.broken = list.broken /\ list.ids \in Seq(Ids)
  BY DEF TokenLists
<1>b. Letters(list, text) = Broken((CHOOSE g : g = [i \in 0 .. N |-> IF i = 0 THEN first ELSE Step(i, g[i - 1])])[N])
  BY Zenon DEF Letters
<1>c. ASSUME NEW i \in 1 .. N, NEW l \in TokenLists
      PROVE  LET m == Step(i, l)
             IN  /\ m \in TokenLists /\ m.broken = l.broken /\ m.ok = (l.ok /\ Known(<<text[i]>>))
                 /\ IF l.ok /\ Known(<<text[i]>>)
                    THEN Len(m.ids) = Len(l.ids) + 1 /\ Spelling(m.ids) = Spelling(l.ids) \o <<text[i]>>
                    ELSE m.ids = l.ids
  BY LetteredIs
<1> HIDE DEF first
<1>2. ASSUME NEW i \in 1 .. N, NEW l \in TokenLists  PROVE Step(i, l) \in TokenLists
  BY <1>c
<1> DEFINE E == [i \in 1 .. N |-> [l \in TokenLists |-> Step(i, l)]]
           Is(g) == g = [i \in 0 .. N |-> IF i = 0 THEN first ELSE Step(i, g[i - 1])]
           h == CHOOSE g : Is(g)
<1>3. \A i \in 1 .. N : \A l \in TokenLists : E[i][l] = Step(i, l)
  OBVIOUS
<1> HIDE DEF Step
<1>4. E \in [1 .. N -> [TokenLists -> TokenLists]]
  <2>1. \A i \in 1 .. N : [l \in TokenLists |-> Step(i, l)] \in [TokenLists -> TokenLists]
    BY <1>2
  <2> QED BY <2>1
<1> HIDE DEF E, N
<1>5. PICK g \in [0 .. N -> TokenLists] : Recurs(g, N, first, E)
  <2>1. first \in TokenLists
    BY <1>1
  <2> QED BY <1>1, <1>4, <2>1, RecursionDefines
<1>6. ASSUME NEW i \in 0 .. N  PROVE g[i] = IF i = 0 THEN first ELSE Step(i, g[i - 1])
  <2>1. g[i] = IF i = 0 THEN first ELSE E[i][g[i - 1]]
    BY <1>5 DEF Recurs
  <2>2. i # 0 => i \in 1 .. N /\ i - 1 \in 0 .. N
    BY <1>1
  <2> QED BY <1>3, <2>1, <2>2
<1>7. g = [i \in 0 .. N |-> g[i]]
  OBVIOUS
<1>8. Is(g)
  BY <1>6, <1>7, Zenon
<1>9. Is(h)
  BY <1>8, Zenon
<1> HIDE DEF h
<1>10. \A i \in 0 .. N : h[i] = IF i = 0 THEN first ELSE Step(i, h[i - 1])
  <2>1. h = [i \in 0 .. N |-> IF i = 0 THEN first ELSE Step(i, h[i - 1])]
    BY <1>9
  <2> QED BY <2>1
<1>11. h = [i \in 0 .. N |-> h[i]]
  <2>1. h = [i \in 0 .. N |-> IF i = 0 THEN first ELSE Step(i, h[i - 1])]
    BY <1>9
  <2> HIDE DEF Is
  <2> QED BY <1>10, <2>1, Zenon
<1> HIDE DEF Is
<1> DEFINE T0 == {i \in 0 .. N : h[i] \in TokenLists}
<1>12. \A i \in 0 .. N : i \in T0
  <2>1. 0 \in T0
    <3>1. first \in TokenLists /\ 0 \in 0 .. N
      BY <1>1
    <3> QED BY <1>10, <3>1
  <2>2. ASSUME NEW n \in 0 .. N - 1, n \in T0  PROVE n + 1 \in T0
    <3>1. n + 1 \in 0 .. N /\ n + 1 \in 1 .. N /\ n + 1 # 0 /\ (n + 1) - 1 = n
      BY <1>1
    <3>2. h[n + 1] = Step(n + 1, h[n])
      BY <1>10, <3>1
    <3> QED BY <1>2, <2>2, <3>1, <3>2
  <2> HIDE DEF T0
  <2> QED BY <1>1, <2>1, <2>2, InductionUpTo
<1>13. h \in [0 .. N -> TokenLists]
  <2>1. \A i \in 0 .. N : h[i] \in TokenLists
    BY <1>12
  <2> QED BY <1>11, <2>1
<1> HIDE DEF T0
<1>14. \A i \in 1 .. N : h[i] = Step(i, h[i - 1])
  BY <1>1, <1>10
<1>15. h[0] = first
  BY <1>1, <1>10
<1> DEFINE R == Refused(text)
           T == {n \in 0 .. N : Spelt(list, text, n, h[n])}
<1>16. /\ R \in 1 .. N + 1
       /\ \A k \in 1 .. R - 1 : Known(<<text[k]>>)
       /\ R <= N => ~Known(<<text[R]>>)
       /\ Readably(text) = SubSeq(text, 1, R - 1)
       /\ Readable(text) = 0 <=> R = N + 1
  BY ReadableIs DEF N
<1> HIDE DEF R
<1>17. \A n \in 0 .. N : n \in T
  <2>1. 0 \in T
    <3>1. 0 < R /\ 0 \in 0 .. N /\ Len(list.ids) >= Len(list.ids)
      BY <1>1, <1>16, <1>a
    <3>2. SubSeq(text, 1, 0) = << >>
      BY SubSeqEmpty
    <3>3. Spelling(list.ids) \o << >> = Spelling(list.ids)
      BY <1>a, SpellingTypes, ConcatEmptySeq
    <3>4. Spelling(list.ids) = Spelling(list.ids) \o SubSeq(text, 1, IF 0 < R THEN 0 ELSE R - 1)
      BY <3>1, <3>2, <3>3
    <3> QED BY <1>15, <1>a, <3>1, <3>4 DEF Spelt, R
  <2>2. ASSUME NEW n \in 0 .. N - 1, n \in T  PROVE n + 1 \in T
    <3> DEFINE l == h[n]
               m == h[n + 1]
    <3>1. n + 1 \in 0 .. N /\ n \in 0 .. N /\ n \in Nat /\ n + 1 \in 1 .. N /\ (n + 1) - 1 = n
      BY <1>1
    <3>2. l \in TokenLists /\ m \in TokenLists /\ m = Step(n + 1, l)
      BY <1>13, <1>14, <3>1
    <3>3. /\ l.broken = list.broken /\ (l.ok <=> n < R) /\ Len(l.ids) >= Len(list.ids)
          /\ Spelling(l.ids) = Spelling(list.ids) \o SubSeq(text, 1, IF n < R THEN n ELSE R - 1)
      BY <2>2 DEF Spelt, R
    <3> HIDE DEF l, m, T
    <3>4. /\ m.broken = l.broken /\ m.ok = (l.ok /\ Known(<<text[n + 1]>>))
          /\ IF l.ok /\ Known(<<text[n + 1]>>)
             THEN Len(m.ids) = Len(l.ids) + 1 /\ Spelling(m.ids) = Spelling(l.ids) \o <<text[n + 1]>>
             ELSE m.ids = l.ids
      BY <1>c, <3>1, <3>2
    <3>5. l.ids \in Seq(Ids) /\ list.ids \in Seq(Ids) /\ Len(l.ids) \in Nat /\ Len(list.ids) \in Nat /\ l.ok \in BOOLEAN
      BY <3>2 DEF TokenLists
    <3>6. CASE n + 1 < R
      <4>1. n < R /\ n + 1 \in 1 .. R - 1
        BY <1>16, <3>1, <3>6
      <4>2. l.ok /\ Known(<<text[n + 1]>>)
        BY <1>16, <3>3, <4>1
      <4>3. Len(m.ids) = Len(l.ids) + 1 /\ Spelling(m.ids) = Spelling(l.ids) \o <<text[n + 1]>> /\ m.ok
        BY <3>4, <4>2
      <4>4. /\ SubSeq(text, 1, n) \in Seq(Nat) /\ <<text[n + 1]>> \in Seq(Nat)
            /\ SubSeq(text, 1, n + 1) = SubSeq(text, 1, n) \o <<text[n + 1]>>
        BY OneMore, <3>1 DEF N
      <4>5. Spelling(m.ids) = (Spelling(list.ids) \o SubSeq(text, 1, n)) \o <<text[n + 1]>>
        BY <3>3, <4>1, <4>3
      <4>6. Spelling(list.ids) \in Seq(Nat)
        BY <3>5, SpellingTypes
      <4>7. Spelling(m.ids) = Spelling(list.ids) \o SubSeq(text, 1, n + 1)
        <5> DEFINE x == Spelling(list.ids)
                   y == SubSeq(text, 1, n)
                   z == <<text[n + 1]>>
        <5>1. x \in Seq(Nat) /\ y \in Seq(Nat) /\ z \in Seq(Nat)
          BY <4>4, <4>6
        <5>2. Spelling(m.ids) = (x \o y) \o z /\ SubSeq(text, 1, n + 1) = y \o z
          BY <4>4, <4>5
        <5> HIDE DEF x, y, z
        <5>3. (x \o y) \o z = x \o (y \o z)
          BY ONLY <5>1, Concats
        <5> QED BY <5>2, <5>3 DEF x
      <4>8. Len(m.ids) >= Len(list.ids)
        BY <3>3, <3>5, <4>3
      <4> QED BY <3>1, <3>3, <3>4, <3>6, <4>3, <4>7, <4>8 DEF Spelt, R, T, m
    <3>7. CASE ~(n + 1 < R)
      <4>1. ~(l.ok /\ Known(<<text[n + 1]>>))
        <5>1. CASE n < R
          <6>1. R = n + 1
            BY <1>16, <3>1, <3>7, <5>1
          <6> QED BY <1>1, <1>16, <3>1, <6>1
        <5> QED BY <3>3, <5>1
      <4>2. m.ids = l.ids /\ m.ok = FALSE
        BY <3>4, <3>5, <4>1
      <4>3. (IF n < R THEN n ELSE R - 1) = R - 1
        BY <1>16, <3>1, <3>7
      <4>4. Spelling(m.ids) = Spelling(list.ids) \o SubSeq(text, 1, R - 1)
        BY <3>3, <4>2, <4>3
      <4> QED BY <3>1, <3>3, <3>4, <3>7, <4>2, <4>4 DEF Spelt, R, T, m
    <3> QED BY <3>6, <3>7
  <2> HIDE DEF T
  <2> QED BY <1>1, <2>1, <2>2, InductionUpTo
<1> DEFINE o == h[N]
           b == Letters(list, text)
<1>18. b = Broken(o)
  BY <1>b, Zenon DEF h, Is
<1>19. o \in TokenLists /\ Spelt(list, text, N, o)
  BY <1>1, <1>13, <1>17
<1> HIDE DEF o, b, T
<1>20. /\ o.broken = list.broken /\ (o.ok <=> R = N + 1) /\ Len(o.ids) >= Len(list.ids)
       /\ Spelling(o.ids) = Spelling(list.ids) \o SubSeq(text, 1, R - 1)
  <2>1. (N < R <=> R = N + 1) /\ (IF N < R THEN N ELSE R - 1) = R - 1
    BY <1>1, <1>16
  <2> QED BY <1>19, <2>1 DEF Spelt, R
<1>21. /\ b \in TokenLists /\ b.ok = o.ok /\ b.ids = o.ids
       /\ b.broken = (o.broken \/ Len(o.ids) > SeqLen[version]
                               \/ (known < Len(Words) /\ (~o.ok \/ Len(o.ids) > 1)))
  <2> DEFINE y == o.broken \/ Len(o.ids) > SeqLen[version] \/ (known < Len(Words) /\ (~o.ok \/ Len(o.ids) > 1))
  <2>1. b = [o EXCEPT !.broken = y]
    BY <1>18 DEF Broken
  <2>2. y \in BOOLEAN
    OBVIOUS
  <2> HIDE DEF y
  <2>3. b \in TokenLists /\ b.ok = o.ok /\ b.ids = o.ids /\ b.broken = y
    BY <1>19, <2>1, <2>2 DEF TokenLists
  <2> QED BY <2>3 DEF y
<1>22. Len(o.ids) \in Nat /\ Len(list.ids) \in Nat /\ SeqLen[version] \in Nat /\ o.ok \in BOOLEAN /\ list.broken \in BOOLEAN
  BY <1>19, WordsAre DEF TokenLists
<1>23. ~b.broken => /\ ~list.broken /\ Len(b.ids) <= SeqLen[version]
                    /\ known < Len(Words) => b.ok /\ Len(list.ids) <= 1
  <2>1. ~(Len(o.ids) > SeqLen[version]) => Len(o.ids) <= SeqLen[version]
    BY <1>22
  <2>2. ~(Len(o.ids) > 1) => Len(list.ids) <= 1
    BY <1>20, <1>22
  <2> QED BY <1>20, <1>21, <2>1, <2>2
<1>24. b.ok <=> Readable(text) = 0
  BY <1>16, <1>20, <1>21
<1>25. Spelling(b.ids) = Spelling(list.ids) \o Readably(text)
  BY <1>16, <1>20, <1>21
<1> QED BY <1>21, <1>23, <1>24, <1>25 DEF b

\* Of finitely many whole numbers one is the greatest.
LEMMA GreatestIs ==
    ASSUME NEW N \in Nat, NEW P \in SUBSET (1 .. N), P # {}, NEW f \in [P -> Int]
    PROVE  \E i \in P : \A k \in P : f[k] <= f[i]
<1> DEFINE Upto(n) == {k \in P : k <= n}
           T == {n \in 0 .. N : Upto(n) # {} => \E i \in Upto(n) : \A k \in Upto(n) : f[k] <= f[i]}
<1>0. \A k \in P : k \in Nat /\ 1 <= k /\ k <= N /\ f[k] \in Int
  OBVIOUS
<1>1. 0 \in T
  <2>1. \A k \in P : ~(k <= 0)
    BY <1>0
  <2>2. Upto(0) = {}
    BY <2>1
  <2> HIDE DEF Upto
  <2> QED BY <2>2
<1>2. ASSUME NEW n \in 0 .. N - 1, n \in T  PROVE n + 1 \in T
  <2>1. n + 1 \in 0 .. N /\ n \in Nat
    OBVIOUS
  <2>2. \A k \in P : k <= n + 1 <=> k <= n \/ k = n + 1
    BY <1>0, <2>1
  <2>3. \A k : k \in Upto(n + 1) <=> k \in Upto(n) \/ (k \in P /\ k = n + 1)
    BY <2>2
  <2>4. Upto(n) # {} => \E i \in Upto(n) : \A k \in Upto(n) : f[k] <= f[i]
    BY <1>2
  <2>5. \A k \in Upto(n) : k \in P
    OBVIOUS
  <2> HIDE DEF Upto
  <2>6. Upto(n + 1) # {} => \E i \in Upto(n + 1) : \A k \in Upto(n + 1) : f[k] <= f[i]
    <3>1. CASE n + 1 \notin P
      <4>1. Upto(n + 1) = Upto(n)
        BY <2>3, <3>1
      <4> QED BY <2>4, <4>1
    <3>2. CASE n + 1 \in P /\ Upto(n) = {}
      <4>1. n + 1 \in Upto(n + 1) /\ \A k \in Upto(n + 1) : k = n + 1
        BY <2>3, <3>2
      <4>2. \A k \in Upto(n + 1) : f[k] <= f[n + 1]
        BY <1>0, <3>2, <4>1
      <4> QED BY <4>1, <4>2
    <3>3. CASE n + 1 \in P /\ Upto(n) # {}
      <4>1. PICK i \in Upto(n) : \A k \in Upto(n) : f[k] <= f[i]
        BY <2>4, <3>3
      <4>2. i \in P /\ f[i] \in Int /\ f[n + 1] \in Int /\ i \in Upto(n + 1) /\ n + 1 \in Upto(n + 1)
        BY <1>0, <2>3, <2>5, <3>3
      <4>3. CASE f[n + 1] <= f[i]
        BY <2>3, <4>1, <4>2, <4>3
      <4>4. CASE ~(f[n + 1] <= f[i])
        <5>1. f[i] <= f[n + 1]
          BY <4>2, <4>4
        <5>2. \A k \in Upto(n) : f[k] <= f[n + 1]
          <6> SUFFICES ASSUME NEW k \in Upto(n)  PROVE f[k] <= f[n + 1]
            OBVIOUS
          <6>1. f[k] <= f[i] /\ f[k] \in Int
            BY <1>0, <2>5, <4>1
          <6> QED BY <4>2, <5>1, <6>1
        <5>3. f[n + 1] <= f[n + 1]
          BY <4>2
        <5>4. \A k \in Upto(n + 1) : f[k] <= f[n + 1]
          BY <2>3, <5>2, <5>3
        <5> QED BY <4>2, <5>4
      <4> QED BY <4>3, <4>4
    <3> QED BY <3>1, <3>2, <3>3
  <2> QED BY <2>1, <2>6
<1> HIDE DEF T, Upto
<1>3. N \in T
  BY <1>1, <1>2, InductionUpTo
<1>4. \A k : k \in Upto(N) <=> k \in P
  BY <1>0 DEF Upto
<1>5. Upto(N) # {} => \E i \in Upto(N) : \A k \in Upto(N) : f[k] <= f[i]
  BY <1>3 DEF T
<1> QED BY <1>4, <1>5

PairKnown(ids, i) == Known(Text(ids[i]) \o Text(ids[i + 1]))

LEMMA PairingIs ==
    ASSUME VocabRead, NEW ids, NEW i
    PROVE  IF PairKnown(ids, i)
           THEN /\ Pairing(ids, i) \in Ids /\ Pairing(ids, i) # -1
                /\ Text(Pairing(ids, i)) = Text(ids[i]) \o Text(ids[i + 1])
           ELSE Pairing(ids, i) = -1
<1> DEFINE t == Text(ids[i]) \o Text(ids[i + 1])
<1>1. IF Known(t) THEN str_lookup(t) \in Ids /\ Text(str_lookup(t)) = t ELSE str_lookup(t) = -1
  BY LookupIs
<1>2. \A k \in Ids : k # -1
  BY WordsAre DEF Ids
<1> QED BY <1>1, <1>2 DEF Pairing, PairKnown

\* A pair to merge, as long as there is one.
LEMMA BestIs ==
    ASSUME VocabRead, NEW ids \in Seq(Nat)
    PROVE  IF \E i \in 1 .. Len(ids) - 1 : PairKnown(ids, i)
           THEN Best(ids) \in 1 .. Len(ids) - 1 /\ PairKnown(ids, Best(ids)) /\ Best(ids) # 0
           ELSE Best(ids) = 0
<1> DEFINE pairs == {i \in 1 .. Len(ids) - 1 : Pairing(ids, i) # -1}
           score == [i \in pairs |-> Words[Pairing(ids, i) + 1].score]
           S == {i \in pairs : \A k \in pairs : score[k] <= score[i]}
<1>1. Best(ids) = IF pairs = {} THEN 0 ELSE Min(S)
  BY DEF Best
<1>2. \A i : i \in pairs <=> i \in 1 .. Len(ids) - 1 /\ PairKnown(ids, i)
  BY PairingIs
<1>3. score \in [pairs -> Int]
  <2> SUFFICES ASSUME NEW i \in pairs  PROVE Words[Pairing(ids, i) + 1].score \in Int
    OBVIOUS
  <2>1. Pairing(ids, i) \in Ids
    BY <1>2, PairingIs
  <2>2. Pairing(ids, i) + 1 \in 1 .. Len(Words)
    <3>1. Len(Words) \in Nat
      BY WordsAre
    <3>2. \A id \in Ids : id + 1 \in 1 .. Len(Words)
      BY <3>1 DEF Ids
    <3> QED BY <2>1, <3>2
  <2> QED BY <2>2, WordsAre
<1>4. S \subseteq pairs /\ \A i : i \in S <=> i \in pairs /\ \A k \in pairs : score[k] <= score[i]
  OBVIOUS
<1> HIDE DEF pairs, score, S
<1>5. CASE pairs = {}
  BY <1>1, <1>2, <1>5
<1>6. CASE pairs # {}
  <2> DEFINE N == IF ids = << >> THEN 0 ELSE Len(ids) - 1
  <2>1. Len(ids) \in Nat /\ (ids # << >> => Len(ids) > 0)
    OBVIOUS
  <2>2. N \in Nat /\ pairs \in SUBSET (1 .. N)
    <3>1. CASE ids = << >>
      <4>1. Len(ids) = 0 /\ N = 0 /\ \A i : ~(i \in 1 .. Len(ids) - 1)
        BY <3>1
      <4> QED BY <1>2, <4>1
    <3>2. CASE ids # << >>
      BY <1>2, <2>1, <3>2
    <3> QED BY <3>1, <3>2
  <2> HIDE DEF N
  <2>3. PICK j \in pairs : \A k \in pairs : score[k] <= score[j]
    BY <1>3, <1>6, <2>2, GreatestIs
  <2>4. j \in S /\ S \in SUBSET Nat
    BY <1>4, <2>2, <2>3
  <2>5. Min(S) \in S
    BY <2>4, MinIs
  <2>6. Best(ids) \in pairs
    BY <1>1, <1>4, <1>6, <2>5
  <2>7. \A i \in 1 .. Len(ids) - 1 : i # 0
    BY <2>1
  <2> QED BY <1>2, <2>6, <2>7
<1> QED BY <1>5, <1>6

\* A merge takes a token away and leaves the text.
LEMMA JoiningIs ==
    ASSUME VocabRead, NEW ids \in Seq(Nat), NEW i \in 1 .. Len(ids) - 1, PairKnown(ids, i)
    PROVE  /\ Joining(ids, i) \in Seq(Nat) /\ Len(Joining(ids, i)) = Len(ids) - 1
           /\ ids \in Seq(Ids) => /\ Joining(ids, i) \in Seq(Ids)
                                  /\ Spelling(Joining(ids, i)) = Spelling(ids)
<1> DEFINE N == Len(ids)
           v == Pairing(ids, i)
           a == SubSeq(ids, 1, i - 1)
           c == SubSeq(ids, i + 2, N)
<1>1. v \in Ids /\ Text(v) = Text(ids[i]) \o Text(ids[i + 1])
  BY PairingIs
<1>2. Joining(ids, i) = (a \o <<v>>) \o c
  BY DEF Joining
<1> HIDE DEF v
<1>3. /\ N \in Nat /\ i \in Nat /\ 1 <= i /\ i < N /\ i - 1 \in Int /\ i + 2 \in Int
      /\ \A k \in 1 .. i - 1 : k \in 1 .. N
      /\ \A k \in i + 2 .. N : k \in 1 .. N
  OBVIOUS
<1>4. ASSUME NEW S, ids \in Seq(S), v \in S
      PROVE  /\ a \in Seq(S) /\ Len(a) = i - 1 /\ c \in Seq(S) /\ Len(c) = N - i - 1
             /\ (a \o <<v>>) \o c \in Seq(S)
             /\ Len((a \o <<v>>) \o c) = N - 1
  <2>1. \A k \in 1 .. N : ids[k] \in S
    BY <1>4
  <2>2. (\A k \in 1 .. i - 1 : ids[k] \in S) /\ (\A k \in i + 2 .. N : ids[k] \in S)
    BY <1>3, <2>1
  <2> DEFINE lo == i - 1
             hi == i + 2
  <2>2a. lo \in Int /\ hi \in Int /\ 1 \in Int /\ N \in Int
    BY <1>3
  <2>2b. (\A k \in 1 .. lo : ids[k] \in S) /\ (\A k \in hi .. N : ids[k] \in S)
    BY <2>2
  <2> HIDE DEF lo, hi, N
  <2>3. a \in Seq(S) /\ Len(a) = IF 1 <= i - 1 THEN (i - 1) - 1 + 1 ELSE 0
    <3>1. SubSeq(ids, 1, lo) \in Seq(S) /\ Len(SubSeq(ids, 1, lo)) = IF 1 <= lo THEN lo - 1 + 1 ELSE 0
      BY <2>2a, <2>2b, SubSeqProperties
    <3> QED BY <3>1 DEF lo
  <2>4. c \in Seq(S) /\ Len(c) = IF i + 2 <= N THEN N - (i + 2) + 1 ELSE 0
    <3>1. SubSeq(ids, hi, N) \in Seq(S) /\ Len(SubSeq(ids, hi, N)) = IF hi <= N THEN N - hi + 1 ELSE 0
      BY <2>2a, <2>2b, SubSeqProperties
    <3> QED BY <3>1 DEF hi
  <2>5. Len(a) = i - 1 /\ Len(c) = N - i - 1
    BY <1>3, <2>3, <2>4
  <2> HIDE DEF a, c, N
  <2>6. <<v>> \in Seq(S) /\ Len(<<v>>) = 1
    BY <1>4
  <2>7. a \o <<v>> \in Seq(S) /\ Len(a \o <<v>>) = i
    BY <1>3, <2>3, <2>5, <2>6
  <2> DEFINE d == a \o <<v>>
  <2>8. d \in Seq(S) /\ Len(d) = i
    BY <2>7
  <2> HIDE DEF d
  <2>9. d \o c \in Seq(S) /\ Len(d \o c) = N - 1
    <3>1. d \o c \in Seq(S) /\ Len(d \o c) = Len(d) + Len(c)
      BY <2>4, <2>8, ConcatProperties
    <3>2. i + (N - i - 1) = N - 1
      BY <1>3
    <3> QED BY <2>5, <2>8, <3>1, <3>2
  <2> QED BY <2>3, <2>4, <2>5, <2>9 DEF d
<1>5. v \in Nat
  BY <1>1, WordsAre DEF Ids
<1>6. ASSUME ids \in Seq(Ids)  PROVE Spelling((a \o <<v>>) \o c) = Spelling(ids)
  <2> DEFINE x == ids[i]
             y == ids[i + 1]
             b == SubSeq(ids, i + 1, N)
             u == SubSeq(ids, 1, i)
  <2>1. x \in Ids /\ y \in Ids
    BY <1>3, <1>6
  <2>2. a \in Seq(Ids) /\ c \in Seq(Ids) /\ <<x>> \in Seq(Ids) /\ <<y>> \in Seq(Ids) /\ <<v>> \in Seq(Ids)
    BY <1>1, <1>4, <1>6, <2>1
  <2>3. u = a \o <<x>>
    <3>1. 1 \in 1 .. Len(ids) /\ i \in 1 .. Len(ids)
      BY <1>3
    <3> QED BY <1>6, <3>1, SubSeqRecursiveSecond
  <2>4. b = <<y>> \o c
    <3>1. i + 1 \in 1 .. Len(ids) /\ N \in i + 1 .. Len(ids) /\ (i + 1) + 1 = i + 2
      BY <1>3
    <3>2. SubSeq(ids, i + 1, N) = <<ids[i + 1]>> \o SubSeq(ids, (i + 1) + 1, N)
      BY <1>6, <3>1, SubSeqRecursiveFirst
    <3> QED BY <3>1, <3>2
  <2>5. ids = u \o b
    <3>1. 1 \in 1 .. Len(ids) + 1 /\ i \in 1 - 1 .. Len(ids) /\ N \in i .. Len(ids)
      BY <1>3
    <3>2. u \o b = SubSeq(ids, 1, N)
      BY <1>6, <3>1, ConcatAdjacentSubSeq
    <3> QED BY <1>6, <3>2, SubSeqFull
  <2> HIDE DEF a, b, c, u, x, y
  <2>6. u \in Seq(Ids) /\ b \in Seq(Ids) /\ a \o <<v>> \in Seq(Ids)
    BY <2>2, <2>3, <2>4, ConcatProperties
  <2>7. Spelling(ids) = Spelling(u) \o Spelling(b)
    BY <2>5, <2>6, SpellingJoins
  <2>8. Spelling(u) = Spelling(a) \o Text(x)
    BY <2>1, <2>2, <2>3, SpellingJoins, SpellingOne
  <2>9. Spelling(b) = Text(y) \o Spelling(c)
    BY <2>1, <2>2, <2>4, SpellingJoins, SpellingOne
  <2>10. Spelling((a \o <<v>>) \o c) = Spelling(a \o <<v>>) \o Spelling(c)
    BY <2>2, <2>6, SpellingJoins
  <2>11. Spelling(a \o <<v>>) = Spelling(a) \o Text(v)
    BY <1>1, <2>2, SpellingJoins, SpellingOne
  <2> DEFINE A == Spelling(a)
             X == Text(x)
             Y == Text(y)
             C == Spelling(c)
  <2>12. A \in Seq(Nat) /\ X \in Seq(Nat) /\ Y \in Seq(Nat) /\ C \in Seq(Nat)
    BY <2>1, <2>2, SpellingTypes, WordsAre
  <2>13. Text(v) = X \o Y
    BY <1>1 DEF x, y
  <2>14. Spelling(ids) = (A \o X) \o (Y \o C) /\ Spelling((a \o <<v>>) \o c) = (A \o (X \o Y)) \o C
    BY <2>7, <2>8, <2>9, <2>10, <2>11, <2>13
  <2> HIDE DEF A, X, Y, C
  <2>15. (A \o (X \o Y)) \o C = (A \o X) \o (Y \o C)
    <3>0. \A s, t, o \in Seq(Nat) : (s \o t) \o o = s \o (t \o o)
      BY Concats
    <3>1. (A \o X) \o Y = A \o (X \o Y)
      BY ONLY <3>0, <2>12, ZenonT(60)
    <3>2. A \o X \in Seq(Nat)
      BY <2>12, ConcatProperties
    <3> DEFINE D == A \o X
    <3>3. D \in Seq(Nat)
      BY <3>2
    <3> HIDE DEF D
    <3>4. (D \o Y) \o C = D \o (Y \o C)
      BY ONLY <3>0, <2>12, <3>3, ZenonT(60)
    <3> QED BY <3>1, <3>4 DEF D
  <2> QED BY <2>14, <2>15
<1>7. Joining(ids, i) \in Seq(Nat) /\ Len(Joining(ids, i)) = N - 1
  BY <1>2, <1>4, <1>5
<1>8. ASSUME ids \in Seq(Ids)
      PROVE  Joining(ids, i) \in Seq(Ids) /\ Spelling(Joining(ids, i)) = Spelling(ids)
  <2>1. (a \o <<v>>) \o c \in Seq(Ids)
    BY <1>1, <1>4, <1>8
  <2> QED BY <1>2, <1>6, <1>8, <2>1
<1> QED BY <1>7, <1>8

MergedIs(g) == g = [ids \in Seq(Nat) |-> IF Best(ids) = 0 THEN ids ELSE g[Joining(ids, Best(ids))]]

LEMMA BestJoins ==
    ASSUME VocabRead, NEW ids \in Seq(Nat), Best(ids) # 0
    PROVE  /\ Joining(ids, Best(ids)) \in Seq(Nat) /\ Len(Joining(ids, Best(ids))) = Len(ids) - 1
           /\ Len(ids) \in Nat /\ Len(ids) - 1 \in Nat
           /\ ids \in Seq(Ids) => /\ Joining(ids, Best(ids)) \in Seq(Ids)
                                  /\ Spelling(Joining(ids, Best(ids))) = Spelling(ids)
<1>1. Best(ids) \in 1 .. Len(ids) - 1 /\ PairKnown(ids, Best(ids))
  BY BestIs
<1>2. Len(ids) \in Nat
  OBVIOUS
<1>3. Len(ids) - 1 \in Nat
  BY <1>1, <1>2
<1> QED BY <1>1, <1>2, <1>3, JoiningIs

\* Merging comes to an end.
LEMMA MergedExists == VocabRead => MergedIs(Merged)
<1> SUFFICES ASSUME VocabRead  PROVE MergedIs(Merged)
  OBVIOUS
<1> DEFINE D == Seq(Nat)
           Halted == {ids \in D : Best(ids) = 0}
           val == [ids \in D |-> ids]
           next == [ids \in D |-> Joining(ids, Best(ids))]
           m == [ids \in D |-> Len(ids)]
<1>1. val \in [D -> D]
  OBVIOUS
<1>2. m \in [D -> Nat]
  OBVIOUS
<1>3. ASSUME NEW ids \in D, ids \notin Halted  PROVE next[ids] \in D /\ m[next[ids]] < m[ids]
  <2>1. Best(ids) # 0
    BY <1>3
  <2>2. next[ids] = Joining(ids, Best(ids)) /\ m[ids] = Len(ids)
    OBVIOUS
  <2>3. Joining(ids, Best(ids)) \in D /\ Len(Joining(ids, Best(ids))) = Len(ids) - 1 /\ Len(ids) \in Nat
    BY <2>1, BestJoins
  <2>4. m[Joining(ids, Best(ids))] = Len(ids) - 1
    BY <2>3
  <2> QED BY <2>2, <2>3, <2>4
<1>4. \A ids \in D : val[ids] = ids /\ next[ids] = Joining(ids, Best(ids))
  OBVIOUS
<1>5. \A ids \in D : ids \in Halted <=> Best(ids) = 0
  OBVIOUS
<1> HIDE DEF D, Halted, val, next, m
<1>6. PICK g \in [D -> D] : RunsOn(g, D, Halted, val, next)
  BY <1>1, <1>2, <1>3, RunDefines
<1>7. ASSUME NEW ids \in D
      PROVE  g[ids] = IF Best(ids) = 0 THEN ids ELSE g[Joining(ids, Best(ids))]
  <2>1. g[ids] = IF ids \in Halted THEN val[ids] ELSE g[next[ids]]
    BY <1>6 DEF RunsOn
  <2> QED BY <1>4, <1>5, <2>1
<1>8. g = [ids \in D |-> g[ids]]
  BY <1>6
<1>9. MergedIs(g)
  BY <1>7, <1>8, Zenon DEF MergedIs, D
<1>10. Merged = CHOOSE f : MergedIs(f)
  BY Zenon DEF Merged, MergedIs
<1> QED BY <1>9, <1>10, Zenon

\* It leaves the text as it was, and no pair that would merge.
LEMMA MergedSpells ==
    ASSUME VocabRead, NEW ids \in Seq(Ids)
    PROVE  /\ Merged[ids] \in Seq(Ids) /\ Len(Merged[ids]) <= Len(ids)
           /\ Spelling(Merged[ids]) = Spelling(ids) /\ Best(Merged[ids]) = 0
<1>0. Seq(Ids) \subseteq Seq(Nat)
  <2>1. Ids \subseteq Nat
    BY WordsAre DEF Ids
  <2> QED BY <2>1, SeqMonotonic
<1>1. \A l \in Seq(Nat) : Merged[l] = IF Best(l) = 0 THEN l ELSE Merged[Joining(l, Best(l))]
  <2>1. Merged = [l \in Seq(Nat) |-> IF Best(l) = 0 THEN l ELSE Merged[Joining(l, Best(l))]]
    BY MergedExists DEF MergedIs
  <2> QED BY <2>1
<1> DEFINE Good(l) == /\ Merged[l] \in Seq(Ids) /\ Len(Merged[l]) <= Len(l)
                      /\ Spelling(Merged[l]) = Spelling(l) /\ Best(Merged[l]) = 0
           N == Len(ids)
           T == {n \in 0 .. N : \A l \in Seq(Ids) : Len(l) <= n => Good(l)}
<1>2. N \in Nat
  OBVIOUS
<1>3. ASSUME NEW l \in Seq(Ids), Best(l) = 0  PROVE Good(l)
  <2>1. Merged[l] = l /\ Len(l) \in Nat
    BY <1>0, <1>1, <1>3
  <2> QED BY <1>3, <2>1
<1>4. ASSUME NEW l \in Seq(Ids), Best(l) # 0, Good(Joining(l, Best(l)))  PROVE Good(l)
  <2> DEFINE k == Joining(l, Best(l))
  <2>1. Merged[l] = Merged[k]
    BY <1>0, <1>1, <1>4
  <2>2. k \in Seq(Ids) /\ Spelling(k) = Spelling(l) /\ Len(k) = Len(l) - 1 /\ Len(l) \in Nat
    BY <1>0, <1>4, BestJoins
  <2>3. Good(k)
    BY <1>4
  <2> HIDE DEF k
  <2>4. Merged[k] \in Seq(Ids) /\ Len(Merged[k]) <= Len(k) /\ Spelling(Merged[k]) = Spelling(k) /\ Best(Merged[k]) = 0
    BY <2>3
  <2>5. Len(Merged[k]) \in Nat
    BY <2>4
  <2>6. Len(Merged[k]) <= Len(l)
    BY <2>2, <2>4, <2>5
  <2> QED BY <2>1, <2>2, <2>4, <2>6
<1>5. \A l \in Seq(Ids) : Best(l) # 0 => /\ Joining(l, Best(l)) \in Seq(Ids) /\ Len(l) - 1 \in Nat
                                         /\ Len(Joining(l, Best(l))) = Len(l) - 1 /\ Len(l) \in Nat
  BY <1>0, BestJoins
<1> HIDE DEF Good
<1>6. 0 \in T
  <2>1. ASSUME NEW l \in Seq(Ids), Len(l) <= 0  PROVE Good(l)
    <3>1. Best(l) = 0
      BY <1>5, <2>1
    <3> QED BY <1>3, <3>1
  <2> QED BY <1>2, <2>1
<1>7. ASSUME NEW n \in 0 .. N - 1, n \in T  PROVE n + 1 \in T
  <2>1. n + 1 \in 0 .. N /\ n \in Nat
    BY <1>2
  <2>2. ASSUME NEW l \in Seq(Ids), Len(l) <= n + 1  PROVE Good(l)
    <3>1. CASE Best(l) = 0
      BY <1>3, <3>1
    <3>2. CASE Best(l) # 0
      <4> DEFINE k == Joining(l, Best(l))
      <4>1. k \in Seq(Ids) /\ Len(k) = Len(l) - 1 /\ Len(l) \in Nat
        BY <1>5, <3>2
      <4>2. Len(k) <= n
        BY <2>1, <2>2, <4>1
      <4>3. Good(k)
        BY <1>7, <4>1, <4>2
      <4> QED BY <1>4, <3>2, <4>3
    <3> QED BY <3>1, <3>2
  <2> QED BY <2>1, <2>2
<1> HIDE DEF T
<1>8. N \in T /\ Len(ids) <= N
  <2>1. \A n \in 0 .. N : n \in T
    BY <1>2, <1>6, <1>7, InductionUpTo
  <2> QED BY <1>2, <2>1
<1>9. Good(ids)
  BY <1>8 DEF T
<1> QED BY <1>9 DEF Good

\* What comes out of bpe_encode spells what was there and the text, as far as it is readable.
LEMMA EncodeIs ==
    ASSUME VocabRead, NEW list \in TokenLists, NEW text \in Seq(Nat)
    PROVE  LET out == bpe_encode(list, text)
           IN  /\ out \in TokenLists
               /\ ~out.broken =>
                    /\ ~list.broken /\ Len(out.ids) <= SeqLen[version]
                    /\ Spelling(out.ids) = Spelling(list.ids) \o Readably(text)
                    /\ out.ok <=> Readable(text) = 0
                    /\ out.ok => Best(out.ids) = 0
                    /\ known < Len(Words) => out.ok /\ Len(list.ids) <= 1
<1> DEFINE l == Letters(list, text)
           out == bpe_encode(list, text)
<1>1. /\ l \in TokenLists /\ (l.ok <=> Readable(text) = 0)
      /\ Spelling(l.ids) = Spelling(list.ids) \o Readably(text)
      /\ ~l.broken => /\ ~list.broken /\ Len(l.ids) <= SeqLen[version]
                      /\ known < Len(Words) => l.ok /\ Len(list.ids) <= 1
  BY LettersAre
<1>2. out = IF l.broken \/ ~l.ok THEN l ELSE [l EXCEPT !.ids = Merged[@]]
  BY DEF bpe_encode
<1> HIDE DEF l, out
<1>3. l.ids \in Seq(Ids) /\ l.ok \in BOOLEAN /\ l.broken \in BOOLEAN
  BY <1>1 DEF TokenLists
<1>4. CASE l.broken \/ ~l.ok
  BY <1>1, <1>2, <1>3, <1>4 DEF out
<1>5. CASE ~l.broken /\ l.ok
  <2>1. out = [l EXCEPT !.ids = Merged[l.ids]]
    BY <1>2, <1>5
  <2>2. /\ Merged[l.ids] \in Seq(Ids) /\ Len(Merged[l.ids]) <= Len(l.ids)
        /\ Spelling(Merged[l.ids]) = Spelling(l.ids) /\ Best(Merged[l.ids]) = 0
    BY <1>3, MergedSpells
  <2>3. out.ids = Merged[l.ids] /\ out.ok = l.ok /\ out.broken = l.broken /\ out \in TokenLists
    BY <1>1, <2>1, <2>2 DEF TokenLists
  <2>4. Len(out.ids) <= SeqLen[version]
    <3>1. Len(Merged[l.ids]) \in Nat /\ Len(l.ids) \in Nat /\ SeqLen[version] \in Nat
      BY <1>3, <2>2, WordsAre
    <3> QED BY <1>1, <1>5, <2>2, <2>3, <3>1
  <2> QED BY <1>1, <1>5, <2>2, <2>3, <2>4 DEF out
<1> QED BY <1>4, <1>5

MeantBy(text) ==
    CASE version = 3 -> Spelling(Around3.before) \o Readably(text) \o Spelling(Around3.after)
      [] version = 2 -> Text(1) \o Opening \o Readably(text) \o Closing
      [] OTHER -> Text(1) \o Readably(text)

Spells(text, ids) ==
    /\ Spelling(ids) = MeantBy(text)
    /\ version = 3 => Readable(text) = 0
    /\ version = 2 \/ (version = 0 /\ Readable(text) = 0) =>
         \A i \in 1 .. Len(ids) - 1 : ~PairKnown(ids, i)

\* The marks of llama2 have words, letter by letter.
LEMMA MarksAre ==
    ASSUME VocabRead, NEW text \in Seq(Nat), Readers(version, text), known = Len(Words)
    PROVE  Readable(text) = 0
<1> DEFINE r == Refused(text)
<1>1. /\ r \in 1 .. Len(text) + 1 /\ (r <= Len(text) => ~Known(<<text[r]>>))
      /\ (Readable(text) = 0 <=> r = Len(text) + 1)
  BY ReadableIs
<1> HIDE DEF r
<1>2. SUFFICES ASSUME r <= Len(text)  PROVE FALSE
  BY <1>1
<1>3. r \in DOMAIN text
  BY <1>1, <1>2
<1>4. PICK k \in DOMAIN Words : Words[k].text = <<text[r]>>
  BY <1>3 DEF Readers, Words
<1>5. Words \in Seq(TokenInfo)
  BY LlamaAssumption DEF VocabRead, Words
<1>6. k \in 1 .. Len(Words)
  BY <1>5
<1>7. k \in Matches(<<text[r]>>)
  BY <1>4, <1>6 DEF Matches
<1> QED BY <1>1, <1>2, <1>7 DEF Known

LEMMA NoPairs ==
    ASSUME VocabRead, NEW ids \in Seq(Ids), Best(ids) = 0
    PROVE  \A i \in 1 .. Len(ids) - 1 : ~PairKnown(ids, i)
<1>1. Ids \subseteq Nat
  BY WordsAre DEF Ids
<1>2. ids \in Seq(Nat)
  BY <1>1, SeqMonotonic
<1> QED BY <1>2, BestIs

LEMMA FirstList ==
    ASSUME VocabRead, NEW ids \in Seq(Ids)
    PROVE  List(ids) \in TokenLists /\ List(ids).ids = ids
  BY DEF List, TokenLists

LEMMA ListedIs0 ==
    ASSUME VocabRead, version = 0, NEW text \in Seq(Nat)
    PROVE  LET list == llama_prompt_llama(text)
           IN  /\ list \in TokenLists
               /\ ~list.broken => Len(list.ids) <= SeqLen[version] /\ Spells(text, list.ids)
<1> DEFINE first == List(<<1>>)
           out == bpe_encode(first, text)
           list == llama_prompt_llama(text)
<1>1. 1 \in Ids
  BY WordsAre DEF Ids
<1>2. <<1>> \in Seq(Ids)
  BY <1>1
<1>3. first \in TokenLists /\ first.ids = <<1>>
  BY <1>2, FirstList
<1> HIDE DEF first
<1>4. /\ out \in TokenLists
      /\ ~out.broken =>
           /\ Len(out.ids) <= SeqLen[version]
           /\ Spelling(out.ids) = Spelling(first.ids) \o Readably(text)
           /\ out.ok <=> Readable(text) = 0
           /\ out.ok => Best(out.ids) = 0
  BY <1>3, EncodeIs
<1>5. list = [out EXCEPT !.ok = TRUE]
  BY DEF llama_prompt_llama, first
<1> HIDE DEF out, list
<1>6. list \in TokenLists /\ list.ids = out.ids /\ list.broken = out.broken /\ out.ids \in Seq(Ids)
  BY <1>4, <1>5 DEF TokenLists
<1>7. ASSUME ~out.broken  PROVE Spells(text, out.ids)
  <2>1. Spelling(out.ids) = Text(1) \o Readably(text)
    BY <1>1, <1>3, <1>4, <1>7, SpellingOne
  <2>2. MeantBy(text) = Text(1) \o Readably(text)
    BY DEF MeantBy
  <2>3. Readable(text) = 0 => \A i \in 1 .. Len(out.ids) - 1 : ~PairKnown(out.ids, i)
    BY <1>4, <1>6, <1>7, NoPairs
  <2> QED BY <2>1, <2>2, <2>3 DEF Spells
<1> QED BY <1>4, <1>6, <1>7 DEF list

LEMMA ListedIs2 ==
    ASSUME VocabRead, version = 2, NEW text \in Seq(Nat)
    PROVE  LET list == llama_prompt_llama2(text)
           IN  /\ list \in TokenLists
               /\ ~list.broken => Len(list.ids) <= SeqLen[version] /\ Spells(text, list.ids)
<1> DEFINE first == List(<<1>>)
           o1 == bpe_encode(first, Opening)
           o2 == bpe_encode(o1, text)
           o3 == bpe_encode(o2, Closing)
           list == llama_prompt_llama2(text)
<1>0. Opening \in Seq(Nat) /\ Closing \in Seq(Nat) /\ Readers(version, Opening) /\ Readers(version, Closing)
  BY LlamaAssumption DEF VocabRead
<1>1. 1 \in Ids
  BY WordsAre DEF Ids
<1>2. <<1>> \in Seq(Ids)
  BY <1>1
<1>3. first \in TokenLists /\ first.ids = <<1>>
  BY <1>2, FirstList
<1>4. list = [o3 EXCEPT !.ok = TRUE]
  BY DEF llama_prompt_llama2
<1> HIDE DEF first, list
<1>5. /\ o1 \in TokenLists
      /\ ~o1.broken =>
           /\ Spelling(o1.ids) = Spelling(first.ids) \o Readably(Opening)
           /\ o1.ok <=> Readable(Opening) = 0
           /\ known < Len(Words) => o1.ok
  BY <1>0, <1>3, EncodeIs
<1> HIDE DEF o1
<1>6. /\ o2 \in TokenLists
      /\ ~o2.broken =>
           /\ ~o1.broken
           /\ Spelling(o2.ids) = Spelling(o1.ids) \o Readably(text)
  BY <1>5, EncodeIs
<1> HIDE DEF o2
<1>7. /\ o3 \in TokenLists
      /\ ~o3.broken =>
           /\ ~o2.broken /\ Len(o3.ids) <= SeqLen[version]
           /\ Spelling(o3.ids) = Spelling(o2.ids) \o Readably(Closing)
           /\ o3.ok <=> Readable(Closing) = 0
           /\ o3.ok => Best(o3.ids) = 0
           /\ known < Len(Words) => o3.ok
  BY <1>0, <1>6, EncodeIs
<1> HIDE DEF o3
<1>8. list \in TokenLists /\ list.ids = o3.ids /\ list.broken = o3.broken /\ o3.ids \in Seq(Ids)
  BY <1>4, <1>7 DEF TokenLists
<1>9. ASSUME ~o3.broken  PROVE Spells(text, o3.ids)
  <2>1. Readable(Opening) = 0 /\ Readable(Closing) = 0
    <3>1. known < Len(Words) \/ known = Len(Words)
      BY WordsAre
    <3>2. CASE known = Len(Words)
      BY <1>0, <3>2, MarksAre
    <3> QED BY <1>5, <1>6, <1>7, <1>9, <3>1, <3>2
  <2>2. Readably(Opening) = Opening /\ Readably(Closing) = Closing
    BY <2>1 DEF Readably
  <2>3. Spelling(o3.ids) = ((Text(1) \o Opening) \o Readably(text)) \o Closing
    BY <1>1, <1>3, <1>5, <1>6, <1>7, <1>9, <2>2, SpellingOne
  <2>4. MeantBy(text) = ((Text(1) \o Opening) \o Readably(text)) \o Closing
    BY DEF MeantBy
  <2>5. \A i \in 1 .. Len(o3.ids) - 1 : ~PairKnown(o3.ids, i)
    BY <1>7, <1>8, <1>9, <2>1, NoPairs
  <2> QED BY <2>3, <2>4, <2>5 DEF Spells
<1> QED BY <1>7, <1>8, <1>9 DEF list

LEMMA ListedIs3 ==
    ASSUME VocabRead, version = 3, NEW text \in Seq(Nat)
    PROVE  LET list == llama_prompt_llama3(text)
           IN  /\ list \in TokenLists
               /\ ~list.broken => /\ Len(list.ids) <= SeqLen[version]
                                  /\ list.ok => Spells(text, list.ids)
<1> DEFINE before == Around3.before
           after == Around3.after
           head == List(before)
           said == bpe_encode(head, text)
           list == llama_prompt_llama3(text)
<1>1. before \in Seq(Ids) /\ after \in Seq(Ids)
  <2>1. \A f \in {"begin", "gap", "start", "system", "end", "eot", "user", "assistant"} : Special[f] \in Ids
    BY LlamaAssumption DEF VocabRead, Ids, Words
  <2>2. /\ Special.begin \in Ids /\ Special.gap \in Ids /\ Special.start \in Ids /\ Special["system"] \in Ids
        /\ Special.end \in Ids /\ Special.eot \in Ids /\ Special["user"] \in Ids /\ Special["assistant"] \in Ids
    BY <2>1
  <2>3. /\ before = <<Special.begin, Special.gap>> \o <<Special.start, Special["system"], Special.end>>
                    \o <<Special.eot, Special.gap>> \o <<Special.start, Special["user"], Special.end>>
        /\ after = <<Special.eot, Special.gap>> \o <<Special.start, Special["assistant"], Special.end>>
    BY DEF Around3, Header
  <2> HIDE DEF before, after
  <2>4. /\ <<Special.begin, Special.gap>> \in Seq(Ids) /\ <<Special.start, Special["system"], Special.end>> \in Seq(Ids)
        /\ <<Special.eot, Special.gap>> \in Seq(Ids) /\ <<Special.start, Special["user"], Special.end>> \in Seq(Ids)
        /\ <<Special.start, Special["assistant"], Special.end>> \in Seq(Ids)
    BY <2>2
  <2>5. \A x, y \in Seq(Ids) : x \o y \in Seq(Ids)
    OBVIOUS
  <2> QED BY <2>3, <2>4, <2>5
<1>2. list = IF said.ok THEN With3(said, after) ELSE said
  BY Zenon DEF llama_prompt_llama3, Around3
<1>3. head \in TokenLists /\ head.ids = before
  BY <1>1, FirstList
<1> HIDE DEF head, before, after, list
<1>4. /\ said \in TokenLists
      /\ ~said.broken =>
           /\ Len(said.ids) <= SeqLen[version]
           /\ Spelling(said.ids) = Spelling(head.ids) \o Readably(text)
           /\ said.ok <=> Readable(text) = 0
  BY <1>3, EncodeIs
<1> HIDE DEF said
<1>5. CASE ~said.ok
  <2>1. list = said
    BY <1>2, <1>5
  <2> QED BY <1>4, <1>5, <2>1 DEF list
<1>6. CASE said.ok
  <2> DEFINE more == said.ids \o after
             l == [said EXCEPT !.ids = more]
             y == l.broken \/ Len(more) > SeqLen[version] \/ (known < Len(Words) /\ (~l.ok \/ Len(more) > 1))
  <2>1. said.ids \in Seq(Ids) /\ more \in Seq(Ids) /\ Len(more) \in Nat /\ SeqLen[version] \in Nat
    <3>1. said.ids \in Seq(Ids)
      BY <1>4 DEF TokenLists
    <3> QED BY <1>1, <3>1, WordsAre
  <2>2. Spelling(more) = Spelling(said.ids) \o Spelling(after)
    BY <1>1, <2>1, SpellingJoins
  <2>3. list = Broken(l)
    BY <1>2, <1>6 DEF With3
  <2> HIDE DEF more
  <2>4. l.ids = more /\ l.broken = said.broken /\ l.ok = said.ok /\ l \in TokenLists
    BY <1>4, <2>1 DEF TokenLists
  <2> HIDE DEF l
  <2>5. list = [l EXCEPT !.broken = y]
    BY <2>3, <2>4 DEF Broken
  <2>6. y \in BOOLEAN /\ (~y => ~said.broken /\ Len(more) <= SeqLen[version])
    <3>1. ~(Len(more) > SeqLen[version]) => Len(more) <= SeqLen[version]
      BY <2>1
    <3>2. l.broken \in BOOLEAN
      BY <2>4 DEF TokenLists
    <3> QED BY <2>4, <3>1, <3>2
  <2> HIDE DEF y
  <2>7. list \in TokenLists /\ list.ids = more /\ list.broken = y
    BY <2>4, <2>5, <2>6 DEF TokenLists
  <2>8. ASSUME ~y  PROVE Spells(text, more)
    <3>1. Spelling(more) = (Spelling(before) \o Readably(text)) \o Spelling(after) /\ Readable(text) = 0
      BY <1>3, <1>4, <1>6, <2>2, <2>6, <2>8
    <3>2. MeantBy(text) = (Spelling(before) \o Readably(text)) \o Spelling(after)
      BY DEF MeantBy, before, after
    <3> QED BY <3>1, <3>2 DEF Spells
  <2> QED BY <2>6, <2>7, <2>8 DEF list
<1> QED BY <1>5, <1>6

\* The list of tokens spells what is meant by the text.
LEMMA ListedIs ==
    ASSUME VocabRead, NEW text \in Seq(Nat)
    PROVE  /\ Listed(text) \in TokenLists
           /\ ~Listed(text).broken => /\ Len(Listed(text).ids) <= SeqLen[version]
                                      /\ Listed(text).ok => Spells(text, Listed(text).ids)
<1>1. version = 0 \/ version = 2 \/ version = 3
  BY LlamaAssumption DEF VocabRead
<1>2. Listed(text) = IF version = 3 THEN llama_prompt_llama3(text)
                     ELSE IF version = 2 THEN llama_prompt_llama2(text) ELSE llama_prompt_llama(text)
  BY <1>1 DEF Listed
<1> QED BY <1>1, <1>2, ListedIs0, ListedIs2, ListedIs3

\* What getinputincludingcrlf returns is text.
LEMMA TypedIs ==
    ASSUME feed \in Seq(Seq(Nat))
    PROVE  Typed \in Seq(Nat) /\ LinesRead \in 0 .. Len(feed)
<1> DEFINE N == LinesRead
           Step(i, l) == l \o feed[i] \o IF i < LinesRead \/ Ended THEN <<NewLine>> ELSE << >>
           I == {i \in 1 .. Len(feed) : feed[i] = << >>}
<1>0. N \in 0 .. Len(feed)
  <2>1. N = IF Ended THEN Len(feed) ELSE (IF I # {} THEN Min(I) ELSE 0) - 1
    BY DEF LinesRead, SelectInSeq
  <2>2. Len(feed) \in Nat /\ DOMAIN feed = 1 .. Len(feed)
    OBVIOUS
  <2>3. I \in SUBSET (1 .. Len(feed)) /\ I \in SUBSET Nat
    BY <2>2
  <2>4. ~Ended => I # {}
    BY <2>2 DEF Ended
  <2> HIDE DEF I, N
  <2>5. CASE Ended
    BY <2>1, <2>2, <2>5
  <2>6. CASE ~Ended
    <3>1. Min(I) \in I
      BY <2>3, <2>4, <2>6, MinIs
    <3>2. N = Min(I) - 1
      BY <2>1, <2>4, <2>6
    <3> DEFINE k == Min(I)
    <3>3. k \in 1 .. Len(feed) /\ N = k - 1
      BY <2>3, <3>1, <3>2
    <3> HIDE DEF k
    <3> QED BY <2>2, <3>3
  <2> QED BY <2>5, <2>6
<1>1. N \in Nat /\ << >> \in Seq(Nat)
  BY <1>0
<1>a. \A i \in 1 .. N : feed[i] \in Seq(Nat)
  BY <1>0
<1>b. Typed = (CHOOSE g : g = [i \in 0 .. N |-> IF i = 0 THEN << >> ELSE Step(i, g[i - 1])])[N]
  BY Zenon DEF Typed
<1>2. ASSUME NEW i \in 1 .. N, NEW l \in Seq(Nat)  PROVE Step(i, l) \in Seq(Nat)
  <2> DEFINE z == IF i < LinesRead \/ Ended THEN <<NewLine>> ELSE << >>
             y == feed[i]
  <2>1. z \in Seq(Nat) /\ y \in Seq(Nat)
    BY <1>1, <1>a DEF NewLine
  <2>2. Step(i, l) = (l \o y) \o z
    OBVIOUS
  <2> HIDE DEF y, z, N, Step
  <2>3. l \o y \in Seq(Nat)
    BY <2>1, ConcatProperties
  <2>4. (l \o y) \o z \in Seq(Nat)
    BY <2>1, <2>3, ConcatProperties
  <2> QED BY <2>2, <2>4
<1> DEFINE E == [i \in 1 .. N |-> [l \in Seq(Nat) |-> Step(i, l)]]
           Is(g) == g = [i \in 0 .. N |-> IF i = 0 THEN << >> ELSE Step(i, g[i - 1])]
           h == CHOOSE g : Is(g)
<1>3. \A i \in 1 .. N : \A l \in Seq(Nat) : E[i][l] = Step(i, l)
  OBVIOUS
<1> HIDE DEF Step
<1>4. E \in [1 .. N -> [Seq(Nat) -> Seq(Nat)]]
  <2>1. \A i \in 1 .. N : [l \in Seq(Nat) |-> Step(i, l)] \in [Seq(Nat) -> Seq(Nat)]
    BY <1>2
  <2> QED BY <2>1
<1> HIDE DEF E, N
<1>5. PICK g \in [0 .. N -> Seq(Nat)] : Recurs(g, N, << >>, E)
  <2>1. << >> \in Seq(Nat)
    BY <1>1
  <2> QED BY <1>1, <1>4, <2>1, RecursionDefines
<1>6. ASSUME NEW i \in 0 .. N  PROVE g[i] = IF i = 0 THEN << >> ELSE Step(i, g[i - 1])
  <2>1. g[i] = IF i = 0 THEN << >> ELSE E[i][g[i - 1]]
    BY <1>5 DEF Recurs
  <2>2. i # 0 => i \in 1 .. N /\ i - 1 \in 0 .. N
    BY <1>1
  <2> QED BY <1>3, <2>1, <2>2
<1>7. g = [i \in 0 .. N |-> g[i]]
  OBVIOUS
<1>8. Is(g)
  BY <1>6, <1>7, Zenon
<1>9. Is(h)
  BY <1>8, Zenon
<1> HIDE DEF h
<1>10. \A i \in 0 .. N : h[i] = IF i = 0 THEN << >> ELSE Step(i, h[i - 1])
  <2>1. h = [i \in 0 .. N |-> IF i = 0 THEN << >> ELSE Step(i, h[i - 1])]
    BY <1>9
  <2> QED BY <2>1
<1>11. h = [i \in 0 .. N |-> h[i]]
  <2>1. h = [i \in 0 .. N |-> IF i = 0 THEN << >> ELSE Step(i, h[i - 1])]
    BY <1>9
  <2> HIDE DEF Is
  <2> QED BY <1>10, <2>1, Zenon
<1> HIDE DEF Is
<1> DEFINE T0 == {i \in 0 .. N : h[i] \in Seq(Nat)}
<1>12. \A i \in 0 .. N : i \in T0
  <2>1. 0 \in T0
    <3>1. << >> \in Seq(Nat) /\ 0 \in 0 .. N
      BY <1>1
    <3> QED BY <1>10, <3>1
  <2>2. ASSUME NEW n \in 0 .. N - 1, n \in T0  PROVE n + 1 \in T0
    <3>1. n + 1 \in 0 .. N /\ n + 1 \in 1 .. N /\ n + 1 # 0 /\ (n + 1) - 1 = n
      BY <1>1
    <3>2. h[n + 1] = Step(n + 1, h[n])
      BY <1>10, <3>1
    <3> QED BY <1>2, <2>2, <3>1, <3>2
  <2> HIDE DEF T0
  <2> QED BY <1>1, <2>1, <2>2, InductionUpTo
<1>13. h \in [0 .. N -> Seq(Nat)]
  <2>1. \A i \in 0 .. N : h[i] \in Seq(Nat)
    BY <1>12
  <2> QED BY <1>11, <2>1
<1> HIDE DEF T0
<1>14. \A i \in 1 .. N : h[i] = Step(i, h[i - 1])
  BY <1>1, <1>10
<1>15. h[0] = << >>
  BY <1>1, <1>10
<1>16. Typed = h[N]
  BY <1>b, Zenon DEF h, Is
<1>17. h[N] \in Seq(Nat)
  BY <1>1, <1>13
<1> QED BY <1>0, <1>16, <1>17 DEF N

----------------------------------------------------------------------------
(* The conversation. *)

(* What is under way has been taken from the prompt: the cache holds, as far as the
   transformer has come, the tokens that spell it. *)
TalkInv ==
    /\ version \in DOMAIN Vocab /\ feed \in Seq(Seq(Nat)) /\ prompt \in Seq(Nat)
    /\ tokens \in Seq(Nat) /\ cache \in Seq(Nat) /\ pos \in Nat
    /\ talk # "load" => VocabRead /\ Len(cache) = SeqLen[version]
    /\ talk \in {"feed", "answer"} =>
         /\ Len(tokens) <= SeqLen[version] /\ pos <= SeqLen[version]
         /\ \A i \in 1 .. Len(tokens) : i <= pos => cache[i] = tokens[i]
    /\ talk = "feed" => pos <= Len(tokens) /\ (pos = 0 => Spells(prompt, tokens))
    /\ talk = "answer" => pos >= Len(tokens)
    /\ drawn # NotDrawn => drawn \in Samples /\ talk = "answer" /\ pos < SeqLen[version]

\* The vocabulary stays as it was read, and with it what tokens spell.
LEMMA SpellsStays ==
    ASSUME version' = version, known' = known, NEW text, NEW ids, prompt' = text, tokens' = ids, Spells(text, ids)
    PROVE  Spells(prompt, tokens)'
<1>1. Spelling(tokens)' = Spelling(ids)
  BY DEF Spelling, Text, Words
<1>2. Readable(prompt)' = Readable(text)
  BY DEF Readable, Known, Matches, Words, SelectInSeq
<1>3. MeantBy(prompt)' = MeantBy(text)
  BY DEF MeantBy, Spelling, Text, Words, Readably, Readable, Known, Matches, SelectInSeq, Around3, Header
<1>4. \A i : PairKnown(tokens, i)' <=> PairKnown(ids, i)
  BY DEF PairKnown, Known, Matches, Text, Words
<1> QED BY <1>1, <1>2, <1>3, <1>4 DEF Spells

LEMMA VocabStays ==
    ASSUME version' = version, known' = known, VocabRead
    PROVE  VocabRead'
  BY DEF VocabRead, Words

LEMMA InitTalks == LlamaInit => TalkInv
<1> SUFFICES ASSUME LlamaInit  PROVE TalkInv
  OBVIOUS
<1>1. version \in DOMAIN Vocab /\ feed \in Seq(Seq(Nat))
  BY LlamaAssumption DEF LlamaInit
<1>2. prompt = << >> /\ tokens = << >> /\ pos = 0 /\ drawn = NotDrawn /\ cache = << >> /\ talk = "load"
  BY DEF LlamaInit, LlamaFresh
<1> QED BY <1>1, <1>2 DEF TalkInv

LEMMA LoadTalks == TalkInv /\ llama_inittokenizer => TalkInv'
<1> SUFFICES ASSUME TalkInv, llama_inittokenizer  PROVE TalkInv'
  OBVIOUS
<1>1. /\ talk = "load" /\ talk' = "ask" /\ known' \in {Len(Words) - 3, Len(Words)}
      /\ cache' = [i \in 1 .. SeqLen[version] |-> 0]
      /\ UNCHANGED <<version, feed, prompt, tokens, pos, drawn>>
  BY DEF llama_inittokenizer
<1>2. version \in DOMAIN Vocab /\ SeqLen[version] \in Nat
  BY LlamaAssumption DEF TalkInv
<1>3. cache' \in Seq(Nat) /\ Len(cache') = SeqLen[version]
  BY <1>1, <1>2
<1>4. VocabRead'
  BY <1>1, <1>2 DEF VocabRead, Words
<1>5. drawn = NotDrawn
  BY <1>1 DEF TalkInv
<1> QED BY <1>1, <1>3, <1>4, <1>5 DEF TalkInv

LEMMA InferTalks == TalkInv /\ llama_infer => TalkInv'
<1> SUFFICES ASSUME TalkInv, llama_infer  PROVE TalkInv'
  OBVIOUS
<1>1. PICK typed \in {Typed} : \E list \in {Listed(typed)} :
         /\ prompt' = typed
         /\ tokens' = IF Overlong(typed) \/ list.broken THEN << >> ELSE list.ids
         /\ talk' = IF Overlong(typed) \/ list.broken THEN "overrun" ELSE IF list.ok THEN "feed" ELSE "ask"
  BY Zenon DEF llama_infer
<1>2. PICK list \in {Listed(typed)} :
         /\ prompt' = typed
         /\ tokens' = IF Overlong(typed) \/ list.broken THEN << >> ELSE list.ids
         /\ talk' = IF Overlong(typed) \/ list.broken THEN "overrun" ELSE IF list.ok THEN "feed" ELSE "ask"
  BY <1>1
<1>3. /\ talk = "ask" /\ feed' = SubSeq(feed, LinesRead + 2, Len(feed)) /\ pos' = 0
      /\ UNCHANGED <<version, known, cache, drawn>>
  BY DEF llama_infer
<1>4. VocabRead /\ Len(cache) = SeqLen[version] /\ drawn = NotDrawn
  BY <1>3 DEF TalkInv
<1>5. typed \in Seq(Nat) /\ LinesRead \in 0 .. Len(feed) /\ feed \in Seq(Seq(Nat))
  BY TypedIs DEF TalkInv
<1>6. /\ list \in TokenLists
      /\ ~list.broken => /\ Len(list.ids) <= SeqLen[version]
                         /\ list.ok => Spells(typed, list.ids)
  <2>1. list = Listed(typed)
    BY <1>2
  <2> QED BY <1>4, <1>5, <2>1, ListedIs
<1>7. list.ids \in Seq(Nat) /\ list.ok \in BOOLEAN /\ list.broken \in BOOLEAN /\ Len(list.ids) \in Nat
  <2>1. list.ids \in Seq(Ids) /\ list.ok \in BOOLEAN /\ list.broken \in BOOLEAN
    BY <1>6 DEF TokenLists
  <2>2. Ids \subseteq Nat
    BY <1>4, WordsAre DEF Ids
  <2>3. list.ids \in Seq(Nat)
    BY <2>1, <2>2, SeqMonotonic
  <2> QED BY <2>1, <2>3
<1>8. feed' \in Seq(Seq(Nat))
  <2> DEFINE n == LinesRead
  <2>1. Len(feed) \in Nat /\ n \in 0 .. Len(feed)
    BY <1>5
  <2> HIDE DEF n
  <2>2. \A i \in n + 2 .. Len(feed) : i \in 1 .. Len(feed)
    BY <2>1
  <2>3. \A i \in n + 2 .. Len(feed) : feed[i] \in Seq(Nat)
    BY <1>5, <2>2
  <2>4. n + 2 \in Int /\ Len(feed) \in Int
    BY <2>1
  <2>5. SubSeq(feed, n + 2, Len(feed)) \in Seq(Seq(Nat))
    BY <2>3, <2>4, SubSeqProperties
  <2> QED BY <1>3, <2>5 DEF n
<1>9. VocabRead' /\ SeqLen[version] \in Nat
  BY <1>3, <1>4, VocabStays, WordsAre
<1>10. CASE Overlong(typed) \/ list.broken
  <2>1. tokens' = << >> /\ talk' = "overrun"
    BY <1>2, <1>10
  <2> QED BY <1>2, <1>3, <1>4, <1>5, <1>8, <1>9, <2>1 DEF TalkInv
<1>11. CASE ~Overlong(typed) /\ ~list.broken /\ ~list.ok
  <2>1. tokens' = list.ids /\ talk' = "ask"
    BY <1>2, <1>11
  <2> QED BY <1>2, <1>3, <1>4, <1>5, <1>7, <1>8, <1>9, <2>1 DEF TalkInv
<1>12. CASE ~Overlong(typed) /\ ~list.broken /\ list.ok
  <2>1. tokens' = list.ids /\ talk' = "feed" /\ prompt' = typed
    BY <1>2, <1>12
  <2>2. Spells(prompt, tokens)'
    BY <1>3, <1>6, <1>12, <2>1, SpellsStays
  <2>3. Len(tokens') <= SeqLen[version] /\ 0 <= SeqLen[version] /\ 0 <= Len(tokens')
    BY <1>6, <1>7, <1>9, <1>12, <2>1
  <2>4. \A i \in 1 .. Len(tokens') : ~(i <= 0)
    BY <1>7, <2>1
  <2> QED BY <1>3, <1>4, <1>5, <1>7, <1>8, <1>9, <2>1, <2>2, <2>3, <2>4 DEF TalkInv
<1> QED BY <1>7, <1>10, <1>11, <1>12

\* The transformer fills the place it has come to.
LEMMA CacheFilled ==
    ASSUME TalkInv, talk \in {"feed", "answer"}, pos < SeqLen[version], NEW id \in Nat, transformer(id)
    PROVE  /\ pos' = pos + 1 /\ pos' \in Nat /\ pos' <= SeqLen[version]
           /\ cache' \in Seq(Nat) /\ Len(cache') = SeqLen[version] /\ cache'[pos + 1] = id
           /\ \A i \in 1 .. pos : cache'[i] = cache[i]
<1>1. VocabRead /\ Len(cache) = SeqLen[version] /\ cache \in Seq(Nat) /\ pos \in Nat
  BY DEF TalkInv
<1>2. SeqLen[version] \in Nat
  BY <1>1, WordsAre
<1>3. pos + 1 \in 1 .. Len(cache) /\ pos + 1 \in Nat /\ pos + 1 <= SeqLen[version]
      /\ \A i \in 1 .. pos : i \in 1 .. Len(cache) /\ i # pos + 1
  BY <1>1, <1>2
<1>4. cache' = [cache EXCEPT ![pos + 1] = id] /\ pos' = pos + 1
  BY DEF transformer
<1> DEFINE j == pos + 1
<1>5. cache' = [cache EXCEPT ![j] = id] /\ j \in 1 .. Len(cache)
  BY <1>3, <1>4
<1> HIDE DEF j
<1>6. cache' \in Seq(Nat) /\ Len(cache') = Len(cache)
      /\ \A k \in 1 .. Len(cache) : cache'[k] = IF k = j THEN id ELSE cache[k]
  BY <1>1, <1>5, Replaced
<1> QED BY <1>1, <1>3, <1>4, <1>6 DEF j

LEMMA FeedTalks == TalkInv /\ RunPrompt => TalkInv'
<1> SUFFICES ASSUME TalkInv, RunPrompt  PROVE TalkInv'
  OBVIOUS
<1>1. /\ talk = "feed" /\ pos < Len(tokens)
      /\ UNCHANGED <<version, known, feed, prompt, tokens, drawn>>
  BY DEF RunPrompt
<1>2. /\ VocabRead /\ Len(cache) = SeqLen[version] /\ drawn = NotDrawn
      /\ Len(tokens) <= SeqLen[version] /\ pos <= SeqLen[version] /\ tokens \in Seq(Nat) /\ pos \in Nat
      /\ \A i \in 1 .. Len(tokens) : i <= pos => cache[i] = tokens[i]
  BY <1>1 DEF TalkInv
<1>3. VocabRead' /\ SeqLen[version] \in Nat
  BY <1>1, <1>2, VocabStays, WordsAre
<1>4. pos + 1 \in 1 .. Len(tokens) /\ tokens[pos + 1] \in Nat /\ Len(tokens) \in Nat /\ pos < SeqLen[version]
      /\ pos + 1 <= Len(tokens) /\ pos + 1 # 0
  <2>1. Len(tokens) \in Nat
    BY <1>2
  <2>2. pos + 1 \in 1 .. Len(tokens)
    BY <1>1, <1>2, <2>1
  <2>3. tokens[pos + 1] \in Nat
    BY <1>2, <2>2
  <2>4. pos < SeqLen[version]
    BY <1>1, <1>2, <1>3, <2>1
  <2> QED BY <1>2, <2>1, <2>2, <2>3, <2>4
<1>5. CASE llama_print(tokens[pos + 1])
  <2>1. transformer(tokens[pos + 1]) /\ talk' = talk
    BY <1>5 DEF RunPrompt
  <2>2. /\ pos' = pos + 1 /\ pos' \in Nat /\ pos' <= SeqLen[version]
        /\ cache' \in Seq(Nat) /\ Len(cache') = SeqLen[version] /\ cache'[pos + 1] = tokens[pos + 1]
        /\ \A i \in 1 .. pos : cache'[i] = cache[i]
    BY <1>1, <1>4, <2>1, CacheFilled
  <2>3. \A i \in 1 .. Len(tokens) : i <= pos + 1 => cache'[i] = tokens[i]
    <3> SUFFICES ASSUME NEW i \in 1 .. Len(tokens), i <= pos + 1  PROVE cache'[i] = tokens[i]
      OBVIOUS
    <3>1. i = pos + 1 \/ (i <= pos /\ i \in 1 .. pos)
      BY <1>2
    <3> QED BY <1>2, <2>2, <3>1
  <2> QED BY <1>1, <1>2, <1>3, <1>4, <2>1, <2>2, <2>3 DEF TalkInv
<1>6. CASE ~llama_print(tokens[pos + 1])
  <2>1. talk' = "overrun" /\ UNCHANGED <<cache, pos>>
    BY <1>6 DEF RunPrompt
  <2> QED BY <1>1, <1>2, <1>3, <2>1 DEF TalkInv
<1> QED BY <1>5, <1>6

LEMMA DrawTalks == TalkInv /\ Draw => TalkInv'
<1> SUFFICES ASSUME TalkInv, Draw  PROVE TalkInv'
  OBVIOUS
<1>1. /\ Ready /\ drawn = NotDrawn /\ pos < SeqLen[version] /\ drawn' \in Samples /\ talk' = "answer"
      /\ UNCHANGED <<version, known, feed, prompt, tokens, cache, pos>>
  BY DEF Draw
<1>2. talk \in {"feed", "answer"} /\ pos >= Len(tokens)
  <2>1. CASE talk = "feed" /\ pos = Len(tokens)
    <3>1. Len(tokens) \in Nat
      BY DEF TalkInv
    <3> QED BY <2>1, <3>1
  <2>2. CASE talk = "answer"
    BY <2>2 DEF TalkInv
  <2> QED BY <1>1, <2>1, <2>2 DEF Ready
<1>3. /\ VocabRead /\ Len(cache) = SeqLen[version]
      /\ Len(tokens) <= SeqLen[version] /\ pos <= SeqLen[version]
      /\ \A i \in 1 .. Len(tokens) : i <= pos => cache[i] = tokens[i]
  BY <1>2 DEF TalkInv
<1>4. VocabRead'
  BY <1>1, <1>3, VocabStays
<1> HIDE DEF Samples
<1> QED BY <1>1, <1>2, <1>3, <1>4 DEF TalkInv

LEMMA SayTalks == TalkInv /\ Say => TalkInv'
<1> SUFFICES ASSUME TalkInv, Say  PROVE TalkInv'
  OBVIOUS
<1>1. /\ talk = "answer" /\ drawn # NotDrawn /\ drawn' = NotDrawn
      /\ UNCHANGED <<version, known, feed, prompt, tokens>>
  BY DEF Say
<1>2. /\ VocabRead /\ Len(cache) = SeqLen[version] /\ drawn \in Samples /\ pos < SeqLen[version]
      /\ Len(tokens) <= SeqLen[version] /\ pos >= Len(tokens) /\ tokens \in Seq(Nat) /\ pos \in Nat
      /\ \A i \in 1 .. Len(tokens) : i <= pos => cache[i] = tokens[i]
  BY <1>1 DEF TalkInv
<1>3. VocabRead'
  BY <1>1, <1>2, VocabStays
<1>4. drawn.token \in Nat
  <2>1. PICK from \in Dists, coin \in 0 .. Coins - 1 : drawn = [token |-> sample_topp(from, coin), from |-> from]
    BY <1>2 DEF Samples
  <2>2. sample_topp(from, coin) \in 0 .. Len(from) - 1
    BY SampleIs
  <2>3. drawn.token = sample_topp(from, coin) /\ Len(from) \in Nat
    BY <2>1, LlamaAssumption
  <2> QED BY <2>2, <2>3
<1>5. CASE talk' # "answer" /\ UNCHANGED <<cache, pos>> /\ talk' \in {"ask", "overrun"}
  BY <1>1, <1>2, <1>3, <1>5 DEF TalkInv
<1>6. CASE transformer(drawn.token) /\ UNCHANGED talk
  <2>1. /\ pos' = pos + 1 /\ pos' \in Nat /\ pos' <= SeqLen[version]
        /\ cache' \in Seq(Nat) /\ Len(cache') = SeqLen[version]
        /\ \A i \in 1 .. pos : cache'[i] = cache[i]
    BY <1>1, <1>2, <1>4, <1>6, CacheFilled
  <2>2. Len(tokens) \in Nat /\ \A i \in 1 .. Len(tokens) : i \in 1 .. pos /\ i <= pos
    BY <1>2
  <2>3. \A i \in 1 .. Len(tokens) : cache'[i] = tokens[i]
    BY <1>2, <2>1, <2>2
  <2>4. pos' >= Len(tokens)
    BY <1>2, <2>1, <2>2
  <2> QED BY <1>1, <1>2, <1>3, <1>6, <2>1, <2>3, <2>4 DEF TalkInv
<1>7. \/ talk' = "ask" /\ UNCHANGED <<cache, pos>>
      \/ transformer(drawn.token) /\ UNCHANGED talk
      \/ talk' = "overrun" /\ UNCHANGED <<cache, pos>>
  BY DEF Say
<1> QED BY <1>5, <1>6, <1>7

LEMMA FullTalks == TalkInv /\ Full => TalkInv'
<1> SUFFICES ASSUME TalkInv, Full  PROVE TalkInv'
  OBVIOUS
<1>1. /\ Ready /\ drawn = NotDrawn /\ talk' = "ask"
      /\ UNCHANGED <<version, known, feed, prompt, tokens, cache, pos, drawn>>
  BY DEF Full
<1>2. talk # "load"
  BY <1>1 DEF Ready
<1>3. VocabRead /\ Len(cache) = SeqLen[version]
  BY <1>2 DEF TalkInv
<1>4. VocabRead'
  BY <1>1, <1>3, VocabStays
<1> QED BY <1>1, <1>3, <1>4 DEF TalkInv

LEMMA TalkStep == TalkInv /\ [LlamaStep]_llama => TalkInv'
<1> SUFFICES ASSUME TalkInv, [LlamaStep]_llama  PROVE TalkInv'
  OBVIOUS
<1>1. CASE UNCHANGED llama
  <2>1. UNCHANGED <<version, known, feed, prompt, tokens, cache, pos, drawn, talk>>
    BY <1>1 DEF llama
  <2>2. VocabRead => VocabRead'
    BY <2>1, VocabStays
  <2>3. Spells(prompt, tokens) => Spells(prompt, tokens)'
    BY <2>1, SpellsStays
  <2> QED BY <2>1, <2>2, <2>3 DEF TalkInv
<1> QED BY <1>1, LoadTalks, InferTalks, FeedTalks, DrawTalks, SayTalks, FullTalks DEF LlamaStep

LEMMA TalkAnswers == TalkInv => AnswersThePrompt
<1> SUFFICES ASSUME TalkInv  PROVE AnswersThePrompt
  OBVIOUS
<1>1. SpellsThePrompt
  <2> SUFFICES ASSUME talk = "feed", pos = 0
               PROVE  /\ Spelling(tokens) = Meant
                      /\ version = 3 => Readable(prompt) = 0
                      /\ version = 2 \/ (version = 0 /\ Readable(prompt) = 0) =>
                           \A i \in 1 .. Len(tokens) - 1 : ~Known(Text(tokens[i]) \o Text(tokens[i + 1]))
    BY Zenon DEF SpellsThePrompt
  <2>1. Spells(prompt, tokens)
    BY DEF TalkInv
  <2>2. MeantBy(prompt) = Meant
    BY Zenon DEF MeantBy, Meant
  <2> QED BY <2>1, <2>2 DEF Spells, PairKnown
<1>2. ReadsThisTurn
  <2> SUFFICES ASSUME talk \in {"feed", "answer"}
               PROVE  LET n == Min({pos, Len(tokens)}) IN SubSeq(cache, 1, n) = SubSeq(tokens, 1, n)
    BY Zenon DEF ReadsThisTurn
  <2> DEFINE S == {pos, Len(tokens)}
             n == Min(S)
             a == SubSeq(cache, 1, n)
             b == SubSeq(tokens, 1, n)
  <2>1. /\ VocabRead /\ Len(cache) = SeqLen[version] /\ Len(tokens) <= SeqLen[version] /\ pos <= SeqLen[version]
        /\ tokens \in Seq(Nat) /\ cache \in Seq(Nat) /\ pos \in Nat /\ Len(tokens) \in Nat
        /\ \A i \in 1 .. Len(tokens) : i <= pos => cache[i] = tokens[i]
    BY DEF TalkInv
  <2>2. SeqLen[version] \in Nat /\ S \in SUBSET Nat /\ S # {} /\ pos \in S /\ Len(tokens) \in S
    BY <2>1, WordsAre
  <2> HIDE DEF S
  <2>3. n \in Nat /\ n <= pos /\ n <= Len(tokens)
    BY <2>2, MinIs
  <2> HIDE DEF n
  <2>4. \A i \in 1 .. n : i \in 1 .. Len(tokens) /\ i \in 1 .. Len(cache) /\ i <= pos /\ 1 + i - 1 = i
    <3>1. Len(tokens) <= Len(cache) /\ Len(cache) \in Nat /\ Len(tokens) \in Nat /\ pos \in Nat
      BY <2>1
    <3> QED BY ONLY <2>3, <3>1
  <2>5. \A i \in 1 .. n : cache[i] \in Nat /\ tokens[i] \in Nat /\ cache[i] = tokens[i]
    BY <2>1, <2>4
  <2>6. 1 \in Int /\ n \in Int /\ n - 1 + 1 = n
    BY <2>3
  <2>7. /\ a \in Seq(Nat) /\ Len(a) = IF 1 <= n THEN n - 1 + 1 ELSE 0
        /\ \A i \in 1 .. n - 1 + 1 : a[i] = cache[1 + i - 1]
    BY <2>5, <2>6, SubSeqProperties
  <2>8. /\ b \in Seq(Nat) /\ Len(b) = IF 1 <= n THEN n - 1 + 1 ELSE 0
        /\ \A i \in 1 .. n - 1 + 1 : b[i] = tokens[1 + i - 1]
    BY <2>5, <2>6, SubSeqProperties
  <2> HIDE DEF a, b
  <2>9. Len(a) = n /\ Len(b) = n
    BY <2>3, <2>7, <2>8
  <2>10. \A i \in 1 .. n : a[i] = b[i]
    BY <2>4, <2>5, <2>6, <2>7, <2>8
  <2>11. a = b
    BY <2>7, <2>8, <2>9, <2>10, SeqEqual
  <2> QED BY <2>11 DEF a, b, n, S
<1>3. DrawsFromTheTop
  <2> SUFFICES ASSUME drawn # NotDrawn
               PROVE  LET p == drawn.from
                          this == p[drawn.token + 1]
                          ahead == [i \in 1 .. Len(p) |-> IF p[i] > this THEN p[i] ELSE 0]
                      IN  this > 0 /\ Sums(ahead)[Len(p)] * 10 <= 9 * Whole
    BY Zenon DEF DrawsFromTheTop
  <2>1. PICK from \in Dists, coin \in 0 .. Coins - 1 : drawn = [token |-> sample_topp(from, coin), from |-> from]
    BY DEF TalkInv, Samples
  <2>2. drawn.from = from /\ drawn.token = sample_topp(from, coin)
    BY <2>1
  <2> QED BY <2>2, SampleIs
<1> QED BY <1>1, <1>2, <1>3 DEF AnswersThePrompt

(* Whatever is typed and whatever the transformer makes of it, an answer of
   "llama infer" is one to what was typed: the tokens spell the prompt, the cache the
   transformer reads is of this prompt and not of a longer one before, and what is
   drawn is among the likeliest. *)
THEOREM PromptAnswered == LlamaSpec => []AnswersThePrompt
<1>1. LlamaSpec => []TalkInv
  BY InitTalks, TalkStep, PTL DEF LlamaSpec
<1> QED BY <1>1, TalkAnswers, PTL

=============================================================================
