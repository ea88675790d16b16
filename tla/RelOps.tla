------------------------------- MODULE RelOps -------------------------------
(***************************************************************************)
(* The data relationcreate of libunit/rel/rel.c works on: relations and    *)
(* the four chain ends (struct hash in evil.h) of the things they connect. *)
(***************************************************************************)
EXTENDS Integers

\* The chain ends of a chip with no relations, and a buffer with none.
NoHead == [orel0 |-> 0, oreln |-> 0, irel0 |-> 0, ireln |-> 0]
NoRel == [i \in {} |-> 0]

\* (The _Mutant forms, here and in the modules that use this one, are the same code
\* with a bug in it; the runs find each of them.)
\* The buffer after relation n from s to d is appended behind `so`, the last
\* relation that starts at s, and `di`, the last that ends at d (0 for none).
Threaded_MutantPrev(buf, n, s, so, d, di) ==
    [i \in 1 .. n |->
        IF i = n
        THEN [src |-> s, samesrcprevdst |-> 0, samesrcnextdst |-> 0,
              dst |-> d, samedstprevsrc |-> di, samedstnextsrc |-> 0]
        ELSE [buf[i] EXCEPT !.samesrcnextdst = IF i = so THEN n ELSE @,
                            !.samedstnextsrc = IF i = di THEN n ELSE @]]
Threaded_MutantCopy(buf, n, s, so, d, di) ==
    [i \in 1 .. n |->
        IF i = n
        THEN [src |-> s, samesrcprevdst |-> so, samesrcnextdst |-> 0,
              dst |-> d, samedstprevsrc |-> so, samedstnextsrc |-> 0]
        ELSE [buf[i] EXCEPT !.samesrcnextdst = IF i = so THEN n ELSE @,
                            !.samedstnextsrc = IF i = so THEN n ELSE @]]
Threaded(buf, n, s, so, d, di) ==
    [i \in 1 .. n |->
        IF i = n
        THEN [src |-> s, samesrcprevdst |-> so, samesrcnextdst |-> 0,
              dst |-> d, samedstprevsrc |-> di, samedstnextsrc |-> 0]
        ELSE [buf[i] EXCEPT !.samesrcnextdst = IF i = so THEN n ELSE @,
                            !.samedstnextsrc = IF i = di THEN n ELSE @]]

\* The chain ends of a chip once relation n starts there, or ends there.
AsSource_MutantNext(h, n) == [h EXCEPT !.oreln = n + 1, !.orel0 = IF @ = 0 THEN n ELSE @]
AsSource_MutantLast(h, n) == IF h.oreln # 0 THEN h ELSE [h EXCEPT !.oreln = n, !.orel0 = n]
AsSource(h, n) == [h EXCEPT !.oreln = n, !.orel0 = IF @ = 0 THEN n ELSE @]
AsTarget_Mutant(h, n) == [h EXCEPT !.ireln = n, !.irel0 = n]
AsTarget(h, n) == [h EXCEPT !.ireln = n, !.irel0 = IF @ = 0 THEN n ELSE @]

\* The n relations of buf and the chain ends of the chips, with no chain that
\* leaves the chip it hangs on or turns back: what a reader of the store relies on.
LinkedRel(chips, n) ==
    [src: chips, dst: chips, samesrcprevdst: 0 .. n, samesrcnextdst: 0 .. n,
     samedstprevsrc: 0 .. n, samedstnextsrc: 0 .. n]
HomeChains(chips, n, buf, head) ==
    /\ buf \in [1 .. n -> LinkedRel(chips, n)]
    /\ head \in [chips -> [orel0: 0 .. n, oreln: 0 .. n, irel0: 0 .. n, ireln: 0 .. n]]
    /\ \A c \in chips :
         /\ head[c].orel0 # 0 => buf[head[c].orel0].src = c
         /\ head[c].irel0 # 0 => buf[head[c].irel0].dst = c
    /\ \A i \in 1 .. n :
         LET o == buf[i].samesrcnextdst
             t == buf[i].samedstnextsrc
         IN  /\ o # 0 => o > i /\ buf[o].src = buf[i].src
             /\ t # 0 => t > i /\ buf[t].dst = buf[i].dst

\* And no chain that leaves one of its relations out: the first is the oldest, and the
\* next of a relation is the oldest after it.
WholeChains(n, buf, head) ==
    \A i \in 1 .. n :
      /\ head[buf[i].src].orel0 \in 1 .. i
      /\ head[buf[i].dst].irel0 \in 1 .. i
      /\ \A j \in i + 1 .. n :
           /\ buf[j].src = buf[i].src => buf[i].samesrcnextdst \in 1 .. j
           /\ buf[j].dst = buf[i].dst => buf[i].samedstnextsrc \in 1 .. j
=============================================================================
