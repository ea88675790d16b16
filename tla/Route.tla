------------------------------- MODULE Route -------------------------------
(***************************************************************************)
(* The route command of lv2/operate/route/route.c: a breadth-first search  *)
(* from both ends over a loaded relation store, one relation per step.     *)
(*                                                                         *)
(* The store is a pair of what Wire keeps in memory: the relations with    *)
(* their links, and the chain ends of each chip.  The search follows the   *)
(* links as samedstnextsrc and samesrcnextdst do; that they stay on the    *)
(* chip they started at is what Wire proves of every store it writes.      *)
(*                                                                         *)
(* Entry k of the code's queues is element k + 1 of a sequence here, and   *)
(* parents are counted the same way.                                       *)
(***************************************************************************)
EXTENDS RelOps, Sequences

CONSTANTS
    Chip,       \* strings, files, functions, chips, pins, shapes and points
    Named,      \* the strings, which are what a user can ask for
    Opaque,     \* shapes and points, which route_bfs puts on a queue but never opens
    Databases,  \* the stores that may be loaded
    Room,       \* entries a queue holds (256)
    Stop,       \* length of a queue that ends the search (128)
    Rounds      \* rounds of the search (4)

VARIABLES
    db,         \* [wire, head]: the loaded store
    ends,       \* the two strings asked for
    q,          \* q0 and q1: what each end has reached, with the entry it came from
    cur,        \* for each queue the entry to open next (j and m)
    upto,       \* for each queue its length when the round began (k and n)
    side,       \* the queue being extended
    w,          \* the relation about to be followed, 0 at the end of a chain
    round,      \* i
    ret,        \* ret0 and ret1, 0 while nothing has been found
    pc          \* "take", "irel", "orel", "meet", "done" or "overrun"

vars == <<db, ends, q, cur, upto, side, w, round, ret, pc>>

Sides == {0, 1}

\* A store as relation_start(1) and the tables load it.
Home(d) ==
    /\ Len(d.wire) \in Nat
    /\ HomeChains(Chip, Len(d.wire), d.wire, d.head)

ASSUME DatabasesHome == \A d \in Databases : Home(d)
ASSUME DatabasesWhole == \A d \in Databases : WholeChains(Len(d.wire), d.wire, d.head)
ASSUME NamedChips == Named \subseteq Chip
ASSUME Bounds == Room \in Nat \ {0} /\ Stop \in Nat /\ Rounds \in Nat \ {0}

----------------------------------------------------------------------------
Init ==
    /\ db \in Databases
    /\ ends \in [Sides -> Named]
    /\ q = [s \in Sides |-> <<[chip |-> ends[s], parent |-> 1]>>]
    /\ cur = [s \in Sides |-> 1]
    /\ upto = [s \in Sides |-> 1]
    /\ side = 0 /\ w = 0 /\ round = 0
    /\ ret = [s \in Sides |-> 0]
    /\ pc = "take"

\* route_add: a chip the queue has already is not added; the queue is never
\* checked against its size.
route_add_Mutant(c) ==
    IF Len(q[side]) = Room THEN pc' = "overrun" /\ UNCHANGED q
    ELSE /\ q' = [q EXCEPT ![side] = Append(@, [chip |-> c, parent |-> cur[side]])]
         /\ UNCHANGED pc
route_add(c) ==
    IF \E e \in DOMAIN q[side] : q[side][e].chip = c THEN UNCHANGED <<q, pc>>
    ELSE IF Len(q[side]) = Room THEN pc' = "overrun" /\ UNCHANGED q
    ELSE /\ q' = [q EXCEPT ![side] = Append(@, [chip |-> c, parent |-> cur[side]])]
         /\ UNCHANGED pc

\* route_bfs opens the next entry of its range.
open_entry ==
    /\ pc = "take" /\ cur[side] <= upto[side]
    /\ LET c == q[side][cur[side]].chip IN
       IF c \in Opaque
       THEN cur' = [cur EXCEPT ![side] = @ + 1] /\ UNCHANGED <<w, pc>>
       ELSE w' = db.head[c].irel0 /\ pc' = "irel" /\ UNCHANGED cur
    /\ UNCHANGED <<db, ends, q, upto, side, round, ret>>

\* It follows the chain of the relations that end there, then of those that start.
follow_irel ==
    /\ pc = "irel"
    /\ IF w = 0
       THEN w' = db.head[q[side][cur[side]].chip].orel0 /\ pc' = "orel" /\ UNCHANGED q
       ELSE w' = db.wire[w].samedstnextsrc /\ route_add(db.wire[w].src)
    /\ UNCHANGED <<db, ends, cur, upto, side, round, ret>>

follow_orel_Mutant ==
    /\ pc = "orel"
    /\ IF w = 0 THEN pc' = "take" /\ UNCHANGED <<q, w>>
       ELSE w' = db.wire[w].samesrcnextdst /\ route_add(db.wire[w].dst)
    /\ UNCHANGED <<db, ends, cur, upto, side, round, ret>>
follow_orel ==
    /\ pc = "orel"
    /\ IF w = 0
       THEN cur' = [cur EXCEPT ![side] = @ + 1] /\ pc' = "take" /\ UNCHANGED <<q, w>>
       ELSE /\ w' = db.wire[w].samesrcnextdst /\ route_add(db.wire[w].dst)
            /\ UNCHANGED cur
    /\ UNCHANGED <<db, ends, upto, side, round, ret>>

\* The end of route_bfs: a long queue ends the search before the queues are
\* compared, q1 follows q0, and both are compared after q1.
half_done ==
    /\ pc = "take" /\ cur[side] > upto[side]
    /\ IF Len(q[side]) >= Stop THEN pc' = "done" /\ UNCHANGED side
       ELSE IF side = 0 THEN side' = 1 /\ UNCHANGED pc
       ELSE pc' = "meet" /\ UNCHANGED side
    /\ UNCHANGED <<db, ends, q, cur, upto, w, round, ret>>

\* The entries of this round that name one chip.  The last of q0 wins, and a
\* find in a later round replaces the one before.
New_Mutant(s) == upto[s] .. Len(q[s])
New(s) == upto[s] + 1 .. Len(q[s])

Found_Mutant(y, x) == (q[0][y].chip \in Opaque) = (q[1][x].chip \in Opaque)
Found(y, x) == q[0][y].chip = q[1][x].chip
LastFound(y) == \A z \in New(0) : (\E x \in New(1) : Found(z, x)) => z <= y

LastRound_Mutant == round = Rounds
LastRound == round + 1 = Rounds

compare ==
    /\ pc = "meet"
    /\ \/ \E y \in New(0), x \in New(1) :
            /\ Found(y, x) /\ LastFound(y)
            /\ ret' = [s \in Sides |-> IF s = 0 THEN y ELSE x]
       \/ /\ \A y \in New(0), x \in New(1) : ~Found(y, x)
          /\ UNCHANGED ret
    /\ round' = round + 1
    /\ upto' = [s \in Sides |-> Len(q[s])]
    /\ side' = 0
    /\ pc' = IF LastRound THEN "done" ELSE "take"
    /\ UNCHANGED <<db, ends, q, cur, w>>

Next ==
    \/ open_entry
    \/ follow_irel
    \/ follow_orel
    \/ half_done
    \/ compare

\* One thread, which nothing blocks.
Spec == Init /\ [][Next]_vars /\ WF_vars(Next)

----------------------------------------------------------------------------
(* Properties. *)

TypeOK ==
    /\ Home(db)
    /\ ends \in [Sides -> Named]
    /\ q \in [Sides -> Seq([chip: Chip, parent: Nat \ {0}])]
    /\ cur \in [Sides -> Nat \ {0}]
    /\ upto \in [Sides -> Nat]
    /\ side \in Sides
    /\ w \in 0 .. Len(db.wire)
    /\ round \in 0 .. Rounds
    /\ ret \in [Sides -> Nat]
    /\ pc \in {"take", "irel", "orel", "meet", "done", "overrun"}

\* Some relation of the store joins the two chips, in either direction.
JoinedBy(wire, c, d) ==
    \E i \in DOMAIN wire : \/ wire[i].src = c /\ wire[i].dst = d
                           \/ wire[i].src = d /\ wire[i].dst = c
Joined(c, d) == JoinedBy(db.wire, c, d)

(* Each queue is a tree: it begins with the string asked for, every later entry is
   joined by a relation to the earlier entry it names as its parent, and no chip is
   there twice.  What route prints, entry by parent, is a path of the store. *)
QueuesAreTrees ==
    \A s \in Sides :
      /\ Len(q[s]) >= 1 /\ q[s][1].chip = ends[s]
      /\ \A e \in 2 .. Len(q[s]) :
           q[s][e].parent < e /\ Joined(q[s][q[s][e].parent].chip, q[s][e].chip)
      /\ \A e, f \in DOMAIN q[s] : q[s][e].chip = q[s][f].chip => e = f

(* The two halves of a route that is printed meet in one chip. *)
RouteMeets ==
    ret # [s \in Sides |-> 0] =>
      /\ \A s \in Sides : ret[s] \in DOMAIN q[s]
      /\ q[0][ret[0]].chip = q[1][ret[1]].chip

\* What is within d relations of chip c, not going through an opaque chip.
Around(wire, B) == {c \in Chip : \E b \in B \ Opaque : JoinedBy(wire, b, c)}
BallOf(wire, c, d) ==
    LET Within[k \in Nat] == IF k = 0 THEN {c} ELSE Within[k - 1] \cup Around(wire, Within[k - 1])
    IN  Within[d]
Ball(s, d) == BallOf(db.wire, ends[s], d)

Sphere(s, d) == IF d = 0 THEN {ends[s]} ELSE Ball(s, d) \ Ball(s, d - 1)

(* When a round begins each queue holds exactly the chips within that many
   relations of its end, so the search is breadth first in fact: nothing near is
   missing, nothing far has slipped in. *)
RoundsAreBalls ==
    pc # "overrun" =>
      \A s \in Sides : {q[s][e].chip : e \in 1 .. upto[s]} = Ball(s, round)

(* What the search can find: a route is reported only if some chip is equally far
   from both ends, and one is reported then, unless a queue grew to Stop.  Two
   strings an odd number of relations apart, the ends of one relation among them,
   have a route that is never reported. *)
FindsTheMiddle ==
    LET middle == \E d \in 1 .. Rounds : Sphere(0, d) \cap Sphere(1, d) # {}
    IN  pc = "done" =>
          /\ ret[0] # 0 => middle
          /\ middle => ret[0] # 0 \/ \E s \in Sides : Len(q[s]) >= Stop

(* So the search is exact: breadth first in fact, and it answers for the middles. *)
SearchExact == RoundsAreBalls /\ FindsTheMiddle

(* Whatever the chains hold, loops and relations of a chip with itself included,
   the search ends. *)
Ends == <>(pc \in {"done", "overrun"})
=============================================================================
