------------------------------- MODULE RelLog -------------------------------
(***************************************************************************)
(* What the relation store promises its readers: for every chip the list   *)
(* of the relations that start there and the list of those that end there, *)
(* each in the order the relations were created.                           *)
(***************************************************************************)
EXTENDS Naturals, Sequences

CONSTANT Chip

VARIABLES
    count,      \* relations created
    from, to    \* per chip, the relations that start and that end there

Init ==
    /\ count = 0
    /\ from = [c \in Chip |-> << >>]
    /\ to = [c \in Chip |-> << >>]

Create(s, d) ==
    /\ count' = count + 1
    /\ from' = [from EXCEPT ![s] = Append(@, count + 1)]
    /\ to' = [to EXCEPT ![d] = Append(@, count + 1)]

\* A new learning process starts from nothing.
Reset ==
    /\ count' = 0
    /\ from' = [c \in Chip |-> << >>]
    /\ to' = [c \in Chip |-> << >>]

Next == (\E s, d \in Chip : Create(s, d)) \/ Reset

Spec == Init /\ [][Next]_<<count, from, to>>
=============================================================================
