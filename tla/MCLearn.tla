------------------------------ MODULE MCLearn ------------------------------
(* Instances of Learn for TLC.  Paths 8 and 5 have the names 3 and 6, which lie
   on both sides of them in the tree; path 2 is given to learn directly. *)
EXTENDS Query

MCPath == {2, 5, 8}
MCNameOf == [p \in MCPath |-> CASE p = 2 -> 0 [] p = 5 -> 6 [] p = 8 -> 3]
MCNoHead == NoHead
=============================================================================
