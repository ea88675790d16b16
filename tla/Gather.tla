------------------------------- MODULE Gather -------------------------------
(***************************************************************************)
(* What the commands render (lv2/operate/render/render.c) and kirchhoff    *)
(* (lv2/operate/kirchhoff/kirchhoff.c) collect from a loaded store before  *)
(* they draw or solve it: breadth first from what a user names, entry by   *)
(* entry, the things and the wires between them.                           *)
(*                                                                         *)
(* A store is what Route loads, with the foot of each relation on the chip *)
(* it leads to.  Entry k of the code's tables is element k + 1 here, and   *)
(* wires are counted the same way.                                         *)
(***************************************************************************)
EXTENDS RelOps, Sequences, SequencesExt

CONSTANTS
    Thing,      \* strings, files, functions, chips, pins and shapes
    Kind,       \* the kind of each
    Stores,     \* the stores that may be loaded
    Asks,       \* how many names render is given
    NodeStop,   \* nodes that end the collection of render (1000)
    WireStop,   \* wires that undo its last round (0x1000)
    NodeRoom,   \* entries of nodebuf (0x8000)
    WireRoom,   \* and of wirebuf (0x40000)
    CtxRoom,    \* entries of each table of kirchhoff (100)
    CtxRounds   \* rounds of kirchhoff (20)

ThingKinds == {"hash", "file", "func", "chip", "pin", "shap"}
Parts == {"chip", "pin"}

\* Every chain is whole and stays on its thing; cir.c relates pins to chips, and nothing
\* else relates two of either.
ASSUME GatherAssumption ==
    /\ Kind \in [Thing -> ThingKinds]
    /\ {Asks, NodeStop, WireStop, NodeRoom, WireRoom, CtxRoom, CtxRounds} \subseteq Nat /\ CtxRounds > 0
    /\ \A d \in Stores :
         /\ d.wire \in Seq(LinkedRel(Thing, Len(d.wire)))
         /\ HomeChains(Thing, Len(d.wire), d.wire, d.head)
         /\ WholeChains(Len(d.wire), d.wire, d.head)
         /\ d.foot \in [DOMAIN d.wire -> Nat]
         /\ \A r \in DOMAIN d.wire :
              Kind[d.wire[r].src] \in Parts /\ Kind[d.wire[r].dst] \in Parts =>
                Kind[d.wire[r].src] = "pin" /\ Kind[d.wire[r].dst] = "chip"

VARIABLES
    store,      \* [wire, head, foot]
    task,       \* "render", "kirchhoff", or "none" before either
    asked,      \* the thing named, and how many were
    nodes,      \* nodebuf, ctxbuf: the things found, in order
    wires,      \* wirebuf, wbuf
    next,       \* the entry opened next
    layer,      \* [nodes, wires, count]: their lengths when the round began, and rounds done
    detail,     \* of each entry the P and N that kirchhoff_sort writes
    phase       \* "bfs", "sort" (and its pass), "done", "overrun"

gather == <<store, task, asked, nodes, wires, next, layer, detail, phase>>

GatherFresh ==
    /\ task = "none" /\ asked = [thing |-> 0, count |-> 0]
    /\ nodes = << >> /\ wires = << >> /\ next = 1
    /\ layer = [nodes |-> 0, wires |-> 0, count |-> 0]
    /\ detail = << >> /\ phase = "done"
GatherInit == store \in Stores /\ GatherFresh

----------------------------------------------------------------------------
(* Both walk the chains of a thing in the order its relations were made. *)

Followed(s, follow) ==
    LET r == IF s = << >> THEN 0 ELSE follow[s[Len(s)]]
    IN  IF r = 0 THEN s ELSE Append(s, r)
Chain(first, follow) ==
    LET along[n \in 0 .. Len(store.wire)] ==
          IF n = 0 THEN IF first = 0 THEN << >> ELSE <<first>> ELSE Followed(along[n - 1], follow)
    IN  along[Len(store.wire)]
In(t) == Chain(store.head[t].irel0, [r \in DOMAIN store.wire |-> store.wire[r].samedstnextsrc])
Out(t) == Chain(store.head[t].orel0, [r \in DOMAIN store.wire |-> store.wire[r].samesrcnextdst])

\* render_addnode, kirchhoff_add: the table with t in it, and where t is.
Added(table, t) == IF \E i \in DOMAIN table : table[i] = t THEN table ELSE Append(table, t)
At(table, t) == CHOOSE i \in DOMAIN table : table[i] = t

\* kirchhoff_wire, and render_addpair: a wire is kept once.  (The _Mutant forms are the
\* same code with a bug in it; the run finds each of them.)
Wired_Mutant(table, x) ==
    IF table # << >> /\ table[Len(table)] = x THEN table ELSE Append(table, x)
Wired(table, x) == IF \E i \in DOMAIN table : table[i] = x THEN table ELSE Append(table, x)

Begin(name, first, count) ==
    /\ task' = name
    /\ asked' = [thing |-> first, count |-> count]
    /\ next' = 1
    /\ layer' = [nodes |-> 1, wires |-> 0, count |-> 0]
    /\ phase' = "bfs"

----------------------------------------------------------------------------
(* render: two layers around each name it is given.  *)

render_start(t) == nodes' = <<t>> /\ wires' = << >>
render_trav(t) ==
    /\ task \in {"none", "render"} /\ phase = "done" /\ asked.count < Asks
    /\ Kind[t] \in {"hash", "file", "func"}
    /\ Begin("render", t, asked.count + 1)
    /\ render_start(t)
    /\ UNCHANGED <<store, detail>>

\* Each pair has its lower entry first; a thing related to itself has no wire.
render_addpair(table, j, k) ==
    IF j = k THEN table ELSE Wired(table, IF j < k THEN <<j, k>> ELSE <<k, j>>)

\* Shapes are put in the table and not opened.
Others(t) ==
    LET ins == In(t)
        outs == Out(t)
    IN  [i \in DOMAIN ins |-> store.wire[ins[i]].src] \o [i \in DOMAIN outs |-> store.wire[outs[i]].dst]
LinkedTo(found, j, t) ==
    LET table == Added(found.nodes, t)
    IN  [nodes |-> table, wires |-> render_addpair(found.wires, j, At(table, t))]
Opened(j) ==
    LET list == IF Kind[nodes[j]] = "shap" THEN << >> ELSE Others(nodes[j])
        found[n \in 0 .. Len(list)] ==
          IF n = 0 THEN [nodes |-> nodes, wires |-> wires] ELSE LinkedTo(found[n - 1], j, list[n])
    IN  found[Len(list)]
(* Both stops are looked at between rounds only: a round may fill the tables beyond their
   ends, which are not looked at. *)
render_bfs ==
    /\ task = "render" /\ phase = "bfs" /\ next <= layer.nodes
    /\ nodes' = Opened(next).nodes /\ wires' = Opened(next).wires
    /\ next' = next + 1
    /\ phase' = IF Len(nodes') > NodeRoom \/ Len(wires') > WireRoom THEN "overrun" ELSE phase
    /\ UNCHANGED <<store, task, asked, layer, detail>>

NextLayer == layer' = [nodes |-> Len(nodes), wires |-> Len(wires), count |-> layer.count + 1]

\* Wires too many, the round is taken back.
render_round ==
    /\ task = "render" /\ phase = "bfs" /\ next > layer.nodes
    /\ IF Len(wires) >= WireStop
       THEN nodes' = SubSeq(nodes, 1, layer.nodes) /\ wires' = SubSeq(wires, 1, layer.wires)
       ELSE UNCHANGED <<nodes, wires>>
    /\ IF \/ Len(wires) >= WireStop \/ Len(nodes) <= layer.nodes
          \/ Len(nodes) >= NodeStop \/ layer.count + 1 = 2
       THEN phase' = "done" /\ UNCHANGED layer
       ELSE NextLayer /\ UNCHANGED phase
    /\ UNCHANGED <<store, task, asked, next, detail>>

----------------------------------------------------------------------------
(* kirchhoff: the circuit around the pin of a net. *)

\* A name nothing points at, as the name of a chip, ends the command.
kirchhoff(t) ==
    /\ task = "none" /\ Kind[t] = "hash" /\ store.head[t].irel0 # 0
    /\ Begin("kirchhoff", t, 1)
    /\ nodes' = <<store.wire[store.head[t].irel0].src>> /\ wires' = << >>
    /\ UNCHANGED <<store, detail>>

Wire(pin, chip, foot) == <<pin, chip, foot>>

\* An end that is a pin has no foot of its own.
FeetAt(t) ==
    LET ins == In(t)
        outs == Out(t)
        from(r) == [thing |-> store.wire[r].src, foot |-> IF Kind[store.wire[r].src] = "chip" THEN 0 ELSE store.foot[r]]
        to(r) == [thing |-> store.wire[r].dst, foot |-> IF Kind[store.wire[r].dst] = "chip" THEN store.foot[r] ELSE 0]
    IN  [i \in DOMAIN ins |-> from(ins[i])] \o [i \in DOMAIN outs |-> to(outs[i])]
Footed(found, j, e) ==
    LET table == Added(found.nodes, e.thing)
        k == At(table, e.thing)
    IN  CASE Kind[e.thing] = "chip" -> [nodes |-> table, wires |-> Wired(found.wires, Wire(j, k, e.foot))]
          [] Kind[e.thing] = "pin" -> [nodes |-> table, wires |-> Wired(found.wires, Wire(k, j, e.foot))]
          [] OTHER -> found
Met(j) ==
    LET list == IF Kind[nodes[j]] \in Parts THEN FeetAt(nodes[j]) ELSE << >>
        found[n \in 0 .. Len(list)] ==
          IF n = 0 THEN [nodes |-> nodes, wires |-> wires] ELSE Footed(found[n - 1], j, list[n])
    IN  found[Len(list)]
kirchhoff_bfs ==
    /\ task = "kirchhoff" /\ phase = "bfs" /\ next <= layer.nodes
    /\ nodes' = Met(next).nodes /\ wires' = Met(next).wires
    /\ next' = next + 1
    /\ phase' = IF Len(nodes') > CtxRoom \/ Len(wires') > CtxRoom THEN "overrun" ELSE phase
    /\ UNCHANGED <<store, task, asked, layer, detail>>

\* kirchhoff_data: the statics of detail are as the process began with them, zero, which
\* is the first entry.
kirchhoff_round ==
    /\ task = "kirchhoff" /\ phase = "bfs" /\ next > layer.nodes
    /\ IF Len(nodes) <= layer.nodes \/ layer.count + 1 = CtxRounds
       THEN /\ phase' = "sort" /\ next' = 1 /\ UNCHANGED layer
            /\ detail' = [i \in DOMAIN nodes |-> [P |-> 1, N |-> 1]]
       ELSE NextLayer /\ UNCHANGED <<next, detail, phase>>
    /\ UNCHANGED <<store, task, asked, nodes, wires>>

Above(a, b) == a[1] > b[1] \/ (a[1] = b[1] /\ (a[2] > b[2] \/ (a[2] = b[2] /\ a[3] > b[3])))

\* One pass of the sort begins one entry later than the one before, so that the first
\* entry moves in the first pass only.
Swapped(s, k) == IF Above(s[k - 1], s[k]) THEN [s EXCEPT ![k] = s[k - 1], ![k - 1] = s[k]] ELSE s
PassOver(from) ==
    LET pass[n \in 0 .. Len(wires) - from] == IF n = 0 THEN wires ELSE Swapped(pass[n - 1], from + n)
    IN  pass[Len(wires) - from]
kirchhoff_sort ==
    /\ phase = "sort" /\ next <= Len(wires)
    /\ wires' = PassOver(next)
    /\ next' = next + 1
    /\ UNCHANGED <<store, task, asked, nodes, layer, detail, phase>>

\* The rest of kirchhoff_sort: of a pin its first wire, of a chip the pins of its feet.
First(j) == j = 1 \/ wires[j - 1][1] # wires[j][1]
Noted(table, j) ==
    LET pin == wires[j][1]
        pinned == IF First(j) THEN [table EXCEPT ![pin].P = j] ELSE table
    IN  CASE wires[j][3] = 43 -> [pinned EXCEPT ![wires[j][2]].P = pin]     \* '+'
          [] wires[j][3] = 45 -> [pinned EXCEPT ![wires[j][2]].N = pin]     \* '-'
          [] OTHER -> pinned
Detailed ==
    LET noted[j \in 0 .. Len(wires)] == IF j = 0 THEN detail ELSE Noted(noted[j - 1], j)
    IN  noted[Len(wires)]
kirchhoff_feet ==
    /\ phase = "sort" /\ next > Len(wires)
    /\ detail' = Detailed
    /\ phase' = "done"
    /\ UNCHANGED <<store, task, asked, nodes, wires, next, layer>>

GatherStep ==
    \/ \E t \in Thing : render_trav(t) \/ kirchhoff(t)
    \/ render_bfs \/ render_round
    \/ kirchhoff_bfs \/ kirchhoff_round \/ kirchhoff_sort \/ kirchhoff_feet
GatherSpec == GatherInit /\ [][GatherStep]_gather
----------------------------------------------------------------------------
(* Properties. *)

Touches(r, a, b) == {store.wire[r].src, store.wire[r].dst} = {a, b}

\* What is within k relations of a thing, through the kinds that are opened.
Reach(t, kinds, depth) ==
    LET within[k \in 0 .. depth] ==
          IF k = 0 THEN {t}
          ELSE within[k - 1] \cup
               {b \in Thing : \E a \in within[k - 1], r \in DOMAIN store.wire :
                               Kind[a] \in kinds /\ Touches(r, a, b)}
    IN  within[depth]

RelatedPairs(opened) ==
    {{a, b} : a \in {a \in opened : Kind[a] # "shap"}, b \in Thing} \cap
    {{store.wire[r].src, store.wire[r].dst} : r \in {r \in DOMAIN store.wire :
                                                     store.wire[r].src # store.wire[r].dst}}

(* What is drawn for a name is what lies within two relations of it, or within one or
   none when that would be too much: every thing and every pair of related things once,
   none left over from a name before, and none of a round that was taken back. *)
DrawnAround ==
    task = "render" /\ phase = "done" =>
      LET ball(k) == Reach(asked.thing, ThingKinds \ {"shap"}, k)
          pairs(k) == RelatedPairs(ball(k - 1))
          depth == IF Cardinality(pairs(1)) >= WireStop THEN 0
                   ELSE IF Cardinality(ball(1)) >= NodeStop \/ Cardinality(pairs(2)) >= WireStop THEN 1
                   ELSE 2
      IN  /\ IsInjective(nodes) /\ Range(nodes) = ball(depth)
          /\ IsInjective(wires) /\ \A x \in Range(wires) : x[2] \in DOMAIN nodes
          /\ {{nodes[x[1]], nodes[x[2]]} : x \in Range(wires)} = IF depth = 0 THEN {} ELSE pairs(depth)

(* The circuit kirchhoff shows is the one around the net that was named: each pin and
   chip once, each foot between two of them once, on whichever side it was met first;
   the plus and the minus of a chip are nets its feet are on, and the wire shown for a
   net is one of its own, however the sort left them. *)
CircuitWhole ==
    task = "kirchhoff" /\ phase = "done" =>
      LET rounds(k) == {t \in Reach(nodes[1], Parts, k) : Kind[t] \in Parts} \cup {nodes[1]}
          feet == {r \in DOMAIN store.wire :
                     /\ Kind[store.wire[r].src] = "pin" /\ Kind[store.wire[r].dst] = "chip"
                     /\ {store.wire[r].src, store.wire[r].dst} \cap rounds(CtxRounds - 1) # {}}
          on(c, sign) == {x[1] : x \in {x \in Range(wires) : x[2] = c /\ x[3] = sign}}
      IN  /\ IsInjective(nodes) /\ Range(nodes) = rounds(CtxRounds)
          /\ IsInjective(wires)
          /\ {<<nodes[x[1]], nodes[x[2]], x[3]>> : x \in Range(wires)} =
                {<<store.wire[r].src, store.wire[r].dst, store.foot[r]>> : r \in feet}
          /\ \A i \in DOMAIN nodes :
               IF Kind[nodes[i]] = "pin"
               THEN (\E x \in Range(wires) : x[1] = i) => wires[detail[i].P][1] = i
               ELSE /\ on(i, 43) # {} => detail[i].P \in on(i, 43)
                    /\ on(i, 45) # {} => detail[i].N \in on(i, 45)

(* Both collect what lies around the name they were given, and all of it. *)
CollectsAll == DrawnAround /\ CircuitWhole
=============================================================================
