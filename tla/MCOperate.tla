----------------------------- MODULE MCOperate -----------------------------
(* Instances of Operate for TLC.  For Route every graph on five chips, one of them
   related to itself or not, as the stores relationcreate would make of it; for Gather
   graphs on strings, a file, a function and a shape, and circuits of three pins and two
   chips; for Llama vocabularies of 22 words, and for Weights small headers. *)
EXTENDS Operate

MCChip == 1 .. 5
MCNamed == {1, 2}
MCOpaque == {5}

\* One orientation of each pair, and the order the relations are created in.
Pairs == << <<1, 2>>, <<3, 1>>, <<1, 4>>, <<5, 1>>, <<2, 3>>, <<4, 2>>,
            <<2, 5>>, <<3, 4>>, <<5, 3>>, <<4, 5>>, <<3, 3>> >>

Empty(things) == [wire |-> << >>, head |-> [c \in things |-> NoHead]]

\* relationcreate, as in Wire.
Create(d, p) ==
    LET n == Len(d.wire) + 1
        source == [d.head EXCEPT ![p[1]] = AsSource(@, n)]
    IN  [wire |-> Threaded(d.wire, n, p[1], d.head[p[1]].oreln, p[2], d.head[p[2]].ireln),
         head |-> [source EXCEPT ![p[2]] = AsTarget(@, n)]]

Made(things, g) == FoldLeft(Create, Empty(things), g)
MCDatabases == {Made(MCChip, SelectSeq(Pairs, LAMBDA p : p \in g)) : g \in SUBSET Range(Pairs)}

\* 6 to 8 are the pins and 9 and 10 the chips of a circuit, 1 the name of the net of pin
\* 6 and 2 that of chip 9.
MCThing == 1 .. 10
MCKind == <<"hash", "hash", "file", "func", "shap", "pin", "pin", "pin", "chip", "chip">>

\* A third of a pair is the foot, one of '+', '-' and 'b'.
With(g) == LET d == Made(MCThing, g) IN
           [wire |-> d.wire, head |-> d.head, foot |-> [i \in DOMAIN g |-> IF Len(g[i]) = 3 THEN g[i][3] ELSE 0]]
Feet == << <<8, 10, 45>>, <<8, 9, 43>>, <<6, 10, 43>>, <<7, 9, 45>>, <<7, 10, 45>>, <<6, 9, 45>>,
           <<6, 9, 43>>, <<8, 9, 98>>, <<7, 10, 43>> >>
Few == {1, 3, 4, 5, 6, 7, 9, 10, 11}
MCStores ==
    {With(SelectSeq(Pairs, LAMBDA p : p \in {Pairs[i] : i \in g})) : g \in SUBSET Few}
    \cup {With(<< <<6, 1>>, <<2, 9>> >> \o SelectSeq(Feet, LAMBDA p : p \in g)) : g \in SUBSET Range(Feet)}

\* Letters 1 and 2, a new line, "[inst]" and "[/inst]" as the letters 5 and 6, and the
\* headers of llama3 as letters from 20 on; 9 has no word, and of llama3 the new line.
Word(t, s) == [text |-> t, score |-> s]
MCVocab ==
    LET a == << Word(<<20>>, 0), Word(<<21>>, 0), Word(<<22>>, 0), Word(<<10>>, 0), Word(<<1>>, 0), Word(<<2>>, 0) >>
        merges == << Word(<<1, 2>>, 5), Word(<<2, 1>>, 5), Word(<<1, 2, 1>>, 3), Word(<<5, 1>>, 9), Word(<<2, 2>>, 7) >>
        headers == [i \in 1 .. 8 |-> Word(<<22 + i>>, 0)]
        tail == << Word(<<5>>, 0), Word(<<6>>, 0), Word(<<1, 2>>, 1) >>
    IN  (0 :> a \o merges \o tail \o headers) @@ (2 :> a \o merges \o headers \o tail)
        @@ (3 :> [a EXCEPT ![4] = Word(<<31>>, 0)] \o merges \o headers \o tail)
MCSpecial == [begin |-> 11, gap |-> 12, start |-> 13, system |-> 14, end |-> 15, eot |-> 16, user |-> 17,
              assistant |-> 18, endoftext |-> 19]
MCSeqLen == (0 :> 5) @@ (2 :> 7) @@ (3 :> 19)
MCOpening == <<5>>
MCClosing == <<6>>
\* One or two turns, the second of an input that ends without an empty line.
MCLines == {<<1>>, <<2, 1>>, <<2, 1, 2>>, <<1, 9, 2>>, <<1, 2, 2, 1>>, <<2, 1, 2, 1, 2>>}
MCInputs == {<<l>> : l \in MCLines} \cup {<< <<2, 1, 2>>, << >>, l>> : l \in MCLines}
            \cup {<< <<1>>, <<2>>, << >>, <<1>> >>, << << >> >>}
MCDists ==
    LET Spread(p) == [i \in 1 .. 22 |-> IF i - 1 \in DOMAIN p THEN p[i - 1] ELSE 0]
    IN  {Spread(p) : p \in {(4 :> 100) @@ (6 :> 79) @@ (2 :> 20) @@ (5 :> 1), (4 :> 60) @@ (6 :> 60) @@ (16 :> 60) @@ (5 :> 20),
                            (5 :> 190) @@ (4 :> 5) @@ (6 :> 5), (1 :> 10) @@ (4 :> 20) @@ (5 :> 30) @@ (6 :> 40) @@ (7 :> 100)}}
MCHeaders ==
    {[dim |-> 4, hidden |-> 3, layers |-> 2, heads |-> 2, kv |-> k, vocab |-> v, seq |-> 2] : k \in {1, 2}, v \in {3, -3}}
    \cup {[dim |-> d, hidden |-> 2, layers |-> 1, heads |-> 1, kv |-> 1, vocab |-> v, seq |-> s] : d \in {2, 3}, v \in {2, -2}, s \in {1, 2}}
    \cup {[dim |-> 2, hidden |-> 1, layers |-> 1, heads |-> 2, kv |-> 1, vocab |-> v, seq |-> 3] : v \in {2, -2}}
    \* Products that wrap, to what is below zero, none and too few.
    \cup {[dim |-> 4, hidden |-> 1, layers |-> l, heads |-> 4, kv |-> 1, vocab |-> v, seq |-> 1] :
             l \in {1, 4, 8, 9}, v \in {2, -4, 8, -9}}
    \cup {[dim |-> 4, hidden |-> 1, layers |-> 1, heads |-> 4, kv |-> k, vocab |-> 2, seq |-> 1] : k \in {4, 9}}
=============================================================================
