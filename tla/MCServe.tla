------------------------------ MODULE MCServe ------------------------------
(* An instance of Servers for TLC: for epoll a peer that asks for a search and one that
   asks for a file, under every combination of limits that two connections can meet; for
   the completion port two peers and two threads, with sockets for one or for both. *)
EXTENDS Servers

CONSTANTS a, b

MCWant == [c \in Client |-> IF c = a THEN "search" ELSE "file"]
MCLimits == [MAXSIZE: 1 .. 2, nofile: 1 .. 3]

\* A buffer of a head and two units.
MCAnswer == [list |-> [kind |-> "search", n |-> 2], page |-> [kind |-> "file", n |-> 1],
             none |-> [kind |-> "file", n |-> 0], big |-> [kind |-> "file", n |-> 3]]
MCWish == <<"list", "page">>
MCSlow == {{}, {1}, {2}}
=============================================================================
