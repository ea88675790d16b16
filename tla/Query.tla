------------------------------- MODULE Query -------------------------------
(***************************************************************************)
(* The search command of lv2/operate/easyop/search.c on a database the     *)
(* learner made: what search_one lists for a string, a file or a function. *)
(* The server's "?" requests call the same search_one.                     *)
(***************************************************************************)
EXTENDS Learn

\* What search_one looks up: a string by its hash, the others by their number.  The
\* chain ends found there, or nothing for an unknown string.
Items(c) ==
    IF c[1] = "hash"
    THEN LET at == Search(db.tree, c[2])
         IN  IF at = <<0, 0>> THEN {} ELSE {HeadAt(db, AtSlot(c[2], at))}
    ELSE {HeadAt(db, [type |-> c[1], at |-> c[2], means |-> c[2]])}

\* The relations from i on along a link.
Along(link, i) ==
    LET Rest[j \in 0 .. Len(db.wire)] == IF j = 0 THEN << >> ELSE <<j>> \o Rest[link[j]]
    IN  Rest[i]

\* search_item: the relations that end at the item, then those that start there.
search_item_Mutant(item) ==
    Along([i \in Recs |-> db.wire[i].samesrcnextdst], item.irel0)
    \o Along([i \in Recs |-> db.wire[i].samesrcnextdst], item.orel0)
search_item(item) ==
    Along([i \in Recs |-> db.wire[i].samedstnextsrc], item.irel0)
    \o Along([i \in Recs |-> db.wire[i].samesrcnextdst], item.orel0)

\* search_one: the listing, or none for "notfound".
search_one(c) == {search_item(item) : item \in Items(c)}

\* Places a to b of a listing show the relations of S, each once and in the order they
\* were made.
Listed(l, a, b, S) ==
    /\ {l[i] : i \in a .. b} = S
    /\ \A i, j \in a .. b : i < j => l[i] < l[j]

(* Files and functions stay put, so nothing is lost of theirs: a search for a file or
   a function lists every relation that ends or starts there, those that end there
   first, each once on its side and in the order they were made, whatever the
   strings at the other ends went through. *)
FixedChipsComplete ==
    \A c \in {d.chip : d \in Chips} :
      c[1] # "hash" =>
        /\ search_one(c) # {}
        /\ \A l \in search_one(c) :
             \E k \in 0 .. Len(l) :
               /\ Listed(l, 1, k, {i \in Recs : db.wire[i].dst = c})
               /\ Listed(l, k + 1, Len(l), {i \in Recs : db.wire[i].src = c})
=============================================================================
