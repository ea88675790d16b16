-------------------------------- MODULE Wire --------------------------------
(***************************************************************************)
(* The relation store of libunit/rel/rel.c: an append-only array of        *)
(* relations, each threaded on two chains, the relations with the same     *)
(* source and the relations with the same destination.  A chain hangs on   *)
(* four fields of the chip at its end (a string, file, function, pin...):  *)
(* orel0/oreln are the first and last relation that start there,           *)
(* irel0/ireln the first and last that end there.                          *)
(*                                                                         *)
(* Sizes are counted in relations (64 bytes).  Relation 0 is never used:   *)
(* its number is the null link.                                            *)
(***************************************************************************)
EXTENDS RelOps, Sequences

CONSTANTS
    Chip,       \* the things a relation may connect
    WireStart,  \* initial capacity (0x100000 bytes in the code)
    MaxRel      \* bound on the relations a model run creates

ASSUME WireStartOK == WireStart \in Nat \ {0}
ASSUME MaxRelOK == MaxRel \in Nat

VARIABLES
    wirebuf,    \* the relations in memory, a function on 1 .. wirecur - 1
    wirecur,    \* the next free relation
    wirelen,    \* capacity of the buffer
    head,       \* the four chain ends of each chip
    wirefile,   \* the relations in .42/wire/00
    open        \* a learning process is running

vars == <<wirebuf, wirecur, wirelen, head, wirefile, open>>

\* relation_start(0)
Init ==
    /\ wirebuf = NoRel
    /\ wirecur = 1
    /\ wirelen = WireStart
    /\ head = [c \in Chip |-> NoHead]
    /\ wirefile = NoRel
    /\ open = TRUE

----------------------------------------------------------------------------
\* relation_generate's growth: write all there is to the file, then double.
Generate ==
    IF wirecur >= wirelen
    THEN wirefile' = wirebuf /\ wirelen' = 2 * wirelen
    ELSE UNCHANGED <<wirefile, wirelen>>

relationcreate(s, d) ==
    /\ open
    /\ wirecur <= MaxRel
    /\ Generate
    /\ wirebuf' = Threaded(wirebuf, wirecur, s, head[s].oreln, d, head[d].ireln)
    /\ head' = [c \in Chip |->
                  LET o == IF c = s THEN AsSource(head[c], wirecur) ELSE head[c]
                  IN  IF c = d THEN AsTarget(o, wirecur) ELSE o]
    /\ wirecur' = wirecur + 1
    /\ UNCHANGED open

\* relation_stop
relation_stop ==
    /\ open
    /\ wirefile' = wirebuf
    /\ open' = FALSE
    /\ UNCHANGED <<wirebuf, wirecur, wirelen, head>>

\* The process dies: the file keeps what the last growth wrote.
Crash ==
    /\ open
    /\ open' = FALSE
    /\ UNCHANGED <<wirebuf, wirecur, wirelen, head, wirefile>>

\* Restart over the file of the run before.
Restart_Mutant ==
    /\ ~open
    /\ wirebuf' = NoRel /\ wirecur' = 1 /\ wirelen' = WireStart
    /\ head' = [c \in Chip |-> NoHead]
    /\ open' = TRUE
    /\ UNCHANGED wirefile

\* relation_start(0) of the next learning process truncates the file.
Restart ==
    /\ ~open
    /\ wirebuf' = NoRel /\ wirecur' = 1 /\ wirelen' = WireStart
    /\ head' = [c \in Chip |-> NoHead]
    /\ wirefile' = NoRel
    /\ open' = TRUE

Next ==
    \/ \E s, d \in Chip : relationcreate(s, d)
    \/ relation_stop
    \/ Crash
    \/ Restart

Spec == Init /\ [][Next]_vars

----------------------------------------------------------------------------
(* Properties. *)

Recs == 1 .. wirecur - 1

Rel(n) == [src: Chip, dst: Chip,
           samesrcprevdst: 0 .. n, samesrcnextdst: 0 .. n,
           samedstprevsrc: 0 .. n, samedstnextsrc: 0 .. n]

ChainEnds(n) == [orel0: 0 .. n, oreln: 0 .. n, irel0: 0 .. n, ireln: 0 .. n]

\* State: every link is null or names a relation of the buffer.
TypeOK ==
    /\ wirecur \in Nat \ {0}
    /\ wirelen \in Nat \ {0}
    /\ wirebuf \in [Recs -> Rel(wirecur - 1)]
    /\ head \in [Chip -> ChainEnds(wirecur - 1)]
    /\ open \in BOOLEAN

\* Of the relations 1..n, those with end c lie from first[c] to last[c], both of
\* them of that kind; a chip with no such relation has null there.
EndsOK(n, end, first, last) ==
    \A c \in Chip :
      \/ /\ first[c] = 0 /\ last[c] = 0
         /\ \A i \in 1 .. n : end[i] # c
      \/ /\ first[c] \in 1 .. n /\ last[c] \in 1 .. n
         /\ end[first[c]] = c /\ end[last[c]] = c
         /\ \A i \in 1 .. n : end[i] = c => first[c] <= i /\ i <= last[c]

\* next[i] is the first relation after i with the same end, null at the last.
NextOK(n, end, next, last) ==
    \A i \in 1 .. n :
      \/ next[i] = 0 /\ i = last[end[i]]
      \/ /\ next[i] \in i + 1 .. n
         /\ end[next[i]] = end[i]
         /\ \A j \in i + 1 .. next[i] - 1 : end[j] # end[i]

\* prev undoes next, and is null at the first.
PrevOK(n, end, prev, next, first) ==
    \A i \in 1 .. n :
      /\ next[i] # 0 => prev[next[i]] = i
      /\ \/ prev[i] = 0 /\ i = first[end[i]]
         \/ prev[i] \in 1 .. i - 1 /\ next[prev[i]] = i

\* The links thread the relations 1..n into one chain per chip, in the order of
\* their creation, leaving none out.
Chained(n, end, prev, next, first, last) ==
    /\ EndsOK(n, end, first, last)
    /\ NextOK(n, end, next, last)
    /\ PrevOK(n, end, prev, next, first)

(* From any chip, orel0 and samesrcnextdst lead through every relation that
   starts there, oldest first, up to oreln, and samesrcprevdst leads back; the
   search, the route finder and the renderer read the database along this chain. *)
OutChains ==
    Chained(wirecur - 1,
            [i \in Recs |-> wirebuf[i].src],
            [i \in Recs |-> wirebuf[i].samesrcprevdst],
            [i \in Recs |-> wirebuf[i].samesrcnextdst],
            [c \in Chip |-> head[c].orel0],
            [c \in Chip |-> head[c].oreln])

(* The same for the relations that end at a chip. *)
InChains ==
    Chained(wirecur - 1,
            [i \in Recs |-> wirebuf[i].dst],
            [i \in Recs |-> wirebuf[i].samedstprevsrc],
            [i \in Recs |-> wirebuf[i].samedstnextsrc],
            [c \in Chip |-> head[c].irel0],
            [c \in Chip |-> head[c].ireln])

(* Whatever moment the process dies at, the file holds a prefix of the relations
   with the right ends, and each link in it is the one of memory or is null
   because its target came after the write: no link of the file leads astray. *)
FileIsPrefix ==
    \A i \in DOMAIN wirefile :
      /\ i \in Recs
      /\ wirefile[i].src = wirebuf[i].src
      /\ wirefile[i].dst = wirebuf[i].dst
      /\ wirefile[i].samesrcprevdst = wirebuf[i].samesrcprevdst
      /\ wirefile[i].samedstprevsrc = wirebuf[i].samedstprevsrc
      /\ wirefile[i].samesrcnextdst \in {0, wirebuf[i].samesrcnextdst}
      /\ wirefile[i].samedstnextsrc \in {0, wirebuf[i].samedstnextsrc}

(* While a process lives, a relation once made keeps its ends and its backward
   links, and a forward link once set is never redirected. *)
LinksSetOnce ==
    [][open /\ open' =>
         \A i \in Recs :
           /\ wirebuf'[i].src = wirebuf[i].src
           /\ wirebuf'[i].dst = wirebuf[i].dst
           /\ wirebuf'[i].samesrcprevdst = wirebuf[i].samesrcprevdst
           /\ wirebuf'[i].samedstprevsrc = wirebuf[i].samedstprevsrc
           /\ wirebuf[i].samesrcnextdst # 0 =>
                wirebuf'[i].samesrcnextdst = wirebuf[i].samesrcnextdst
           /\ wirebuf[i].samedstnextsrc # 0 =>
                wirebuf'[i].samedstnextsrc = wirebuf[i].samedstnextsrc]_vars

\* The walk of search_item, route_add and render: from relation i along `link`, in a
\* store of n relations.
Follow(n, link, i) ==
    LET Rest[j \in 0 .. n] == IF j = 0 THEN << >> ELSE <<j>> \o Rest[link[j]]
    IN  Rest[i]

StartingAt ==
    [c \in Chip |-> Follow(wirecur - 1, [i \in Recs |-> wirebuf[i].samesrcnextdst], head[c].orel0)]
EndingAt ==
    [c \in Chip |-> Follow(wirecur - 1, [i \in Recs |-> wirebuf[i].samedstnextsrc], head[c].irel0)]

Log == INSTANCE RelLog WITH count <- wirecur - 1, from <- StartingAt, to <- EndingAt

(* The store implements RelLog: after every relationcreate the walk from either
   end of a chip lists exactly its relations, in the order they were made. *)
ImplementsLog == Log!Spec
=============================================================================
