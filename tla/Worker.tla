-------------------------------- MODULE Worker --------------------------------
(* What the parsers of the learner share (learn.c): a file is opened for the parser of
   its suffix, read into a buffer that is never cleared, and handed to the start, the
   read and the stop function of that parser.  The parsers keep their state in static
   variables, which nothing resets but their start functions.  The tables of records
   are arrays with a length; slot 0 is never given out. *)
EXTENDS Integers, Sequences

CONSTANTS
    Suffix,         \* which of the registered parsers are looked at
    Slots           \* slots of a table of records

ASSUME WorkerAssumption ==
    /\ Suffix \subseteq {"s", "c", "java", "cir", "3d", "utf8", "map"}
    /\ Slots \in Nat \ {0, 1}

VARIABLES
    wk,         \* the parser chosen
    pc          \* "read", "end" of a file, "slipped", or how the process died

\* The files of other suffixes between two of one parser change nothing it looks at.
worker_choose == wk \in Suffix
Reading(suffix) == wk = suffix /\ pc = "read"
Ended(suffix) == wk = suffix /\ pc = "end"

\* chip_write, like filemd5_write and funcindex_write: the last slot is filled and null
\* returned; the relation made with that null is the end of the process.
chip_write(table, what) ==
    LET t == Append(table, what) IN
    [table |-> t, at |-> IF Len(t) + 1 >= Slots THEN 0 ELSE Len(t)]

\* pin_write, shapeindex_write and pointdata_write do not look at the length.
pin_write(table, what) == [table |-> Append(table, what), at |-> Len(table) + 1]
Inside(at) == at < Slots
=============================================================================
