------------------------------- MODULE StrMap -------------------------------
(***************************************************************************)
(* What the string index of libunit/str promises its callers: a map from   *)
(* a 64-bit hash to the string first written under it.  A second string    *)
(* with the same hash is not stored; it takes the place of the first.      *)
(***************************************************************************)
CONSTANTS Str, HashOf

VARIABLE entries   \* the pairs of a hash and its string

Init == entries = {}

Write(s) ==
    entries' = IF \E e \in entries : e.hash = HashOf[s] THEN entries
               ELSE entries \cup {[hash |-> HashOf[s], str |-> s]}

Next == \E s \in Str : Write(s)

Spec == Init /\ [][Next]_entries
=============================================================================
