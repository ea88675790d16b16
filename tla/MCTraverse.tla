----------------------------- MODULE MCTraverse -----------------------------
(* Instances of Traverse for TLC: every tree on five entries, of every kind, whose
   numbers grow from a folder to what is in it, with a name that fits and that does not
   by one character, by two and by three. *)
EXTENDS Traverse

MCNode == 1 .. 5

\* What is under f when `up` names the folder each entry is in.
Listed(up, f) == SelectSeq(<<2, 3, 4, 5>>, LAMBDA n : up[n] = f)

\* The long name is the second entry's, which is in the folder the walk starts at.
Widths == {[n \in MCNode |-> CASE n = 1 -> 1 [] n = 2 -> w [] OTHER -> 2] :
             w \in {2, Buffer - 2, Buffer - 1, Buffer}}

\* Entries have a folder, which the walk may pass over.
MCTrees ==
    {[kind |-> k, list |-> [f \in MCNode |-> Listed(up, f)], width |-> w, slash |-> s] :
       <<k, up>> \in {<<kk, u>> \in [MCNode -> Kinds] \X [2 .. 5 -> 1 .. 4] :
                        /\ kk[1] \in {"dir", "leaf"}
                        /\ \A n \in 2 .. 5 : u[n] < n
                        /\ \A n \in 2 .. 5 : u[n] = 1 \/ kk[u[n]] \in {"dir", "link"}},
       w \in Widths,
       s \in BOOLEAN}
=============================================================================
