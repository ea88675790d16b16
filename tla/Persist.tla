------------------------------ MODULE Persist ------------------------------
(***************************************************************************)
(* The database directory .42 through the life of processes: a learner     *)
(* (readthemall(0), learn, writethemall of libunit/load.c) that may die at *)
(* any moment, run again and again, and a reader (search, route, serve,    *)
(* render, kirchhoff: readthemall(1)) that loads the stores one after      *)
(* another, with no lock against the learner.                              *)
(*                                                                         *)
(* A store is abstracted to whose data its file holds, the number of the   *)
(* learning run (0: nobody's), and to how much of it. It is written, and   *)
(* read, in pieces: what a reader gets is told by the file it met with its *)
(* first read() and with its last.                                         *)
(***************************************************************************)
EXTENDS Integers, Sequences

CONSTANT MaxRun     \* bound on the learning runs of a model run

ASSUME MaxRunOK == MaxRun \in Nat

VARIABLES
    disk,   \* the file of each store
    run,    \* number of the current or last learning run
    lpc,    \* the learner: <<"off">>, <<"start", i>>, <<"learn">>, <<"stop", i>>
            \* or <<"write", i>>
    rpc,    \* stores the reader has loaded so far, 0 also before it starts
    reading,    \* it is in the middle of the next one
    snap    \* the file its first read found in the string index and in the relations,
            \* and its last

vars == <<disk, run, lpc, rpc, reading, snap>>

\* The order of the calls in readthemall and in writethemall.  (The _Mutant forms
\* are the same code with a bug in it; the run finds each of them.)
Loads_Mutant == <<"chip", "filedata", "file", "funcdata", "func", "pin", "pointdata",
                  "point", "shape", "str", "wire", "index">>
Loads == <<"chip", "filedata", "file", "funcdata", "func", "pin", "pointdata",
           "point", "shape", "str", "index", "wire">>
Saves_Mutant == <<"chip", "filedata", "file", "funcdata", "func", "pin", "pointdata",
                  "point", "shape", "str", "index", "wire">>
Saves == <<"wire", "chip", "filedata", "file", "funcdata", "func", "pin", "pointdata",
           "point", "shape", "str", "index">>

Store == {Loads[i] : i \in DOMAIN Loads}
\* The stores whose contents the model follows into a reader: the slots of the
\* index hold the numbers of relations.
Linked == {"index", "wire"}

Nothing == [run |-> 0, part |-> "empty"]
Unread == [first |-> Nothing, last |-> Nothing]

Init ==
    /\ disk = [s \in Store |-> Nothing]
    /\ run = 0
    /\ lpc = <<"off">>
    /\ rpc = 0
    /\ reading = FALSE
    /\ snap = [s \in Linked |-> Unread]

----------------------------------------------------------------------------
(* The learner. *)

learn ==
    /\ lpc[1] = "off" /\ run < MaxRun
    /\ run' = run + 1
    /\ lpc' = <<"start", 1>>
    /\ UNCHANGED <<disk, rpc, reading, snap>>

\* One *_start(0): every store but the string index truncates its file, so the
\* relations of the run before are gone while its string index stays.
start_store ==
    /\ lpc[1] = "start"
    /\ disk' = [disk EXCEPT ![Loads[lpc[2]]] =
                   IF Loads[lpc[2]] = "index" THEN @
                   ELSE [run |-> run, part |-> "empty"]]
    /\ lpc' = IF lpc[2] = Len(Loads) THEN <<"learn">> ELSE <<"start", lpc[2] + 1>>
    /\ UNCHANGED <<run, rpc, reading, snap>>

\* A buffer that doubles after its store was stopped.
Grow_Mutant(s) ==
    /\ lpc[1] \in {"learn", "stop"}
    /\ s \in {"wire", "str"}
    /\ disk' = [disk EXCEPT ![s] = [run |-> run, part |-> "some"]]
    /\ UNCHANGED <<run, lpc, rpc, reading, snap>>

\* A buffer that doubles is written out first: relation_generate, strdata_write.
Grow(s) ==
    /\ lpc[1] = "learn"
    /\ s \in {"wire", "str"}
    /\ disk' = [disk EXCEPT ![s] = [run |-> run, part |-> "some"]]
    /\ UNCHANGED <<run, lpc, rpc, reading, snap>>

writethemall ==
    /\ lpc[1] = "learn"
    /\ lpc' = <<"stop", 1>>
    /\ UNCHANGED <<disk, run, rpc, reading, snap>>

\* One *_stop, as it starts to write (for the index this is the O_TRUNC of its
\* open) and as it is done with the whole buffer.
stop_store ==
    /\ lpc[1] = "stop"
    /\ disk' = [disk EXCEPT ![Saves[lpc[2]]] = [run |-> run, part |-> "some"]]
    /\ lpc' = <<"write", lpc[2]>>
    /\ UNCHANGED <<run, rpc, reading, snap>>

written ==
    /\ lpc[1] = "write"
    /\ disk' = [disk EXCEPT ![Saves[lpc[2]]] = [run |-> run, part |-> "whole"]]
    /\ lpc' = IF lpc[2] = Len(Saves) THEN <<"off">> ELSE <<"stop", lpc[2] + 1>>
    /\ UNCHANGED <<run, rpc, reading, snap>>

\* The process dies, between two calls or in the middle of a write.
Crash ==
    /\ lpc[1] # "off"
    /\ lpc' = <<"off">>
    /\ UNCHANGED <<disk, run, rpc, reading, snap>>

----------------------------------------------------------------------------
(* The reader. *)

\* One *_start(1): the open and the first read(), which may come short.
open_store ==
    /\ ~reading /\ rpc < Len(Loads)
    /\ reading' = TRUE
    /\ snap' = [s \in Linked |->
                  IF s = Loads[rpc + 1] THEN [first |-> disk[s], last |-> disk[s]]
                  ELSE snap[s]]
    /\ UNCHANGED <<disk, run, lpc, rpc>>

\* Its last read(), which did; a file longer than the buffer has taken more of them, and
\* what the learner did to it in the meantime is done.
load_store ==
    /\ reading
    /\ reading' = FALSE
    /\ rpc' = rpc + 1
    /\ snap' = [s \in Linked |->
                  IF s = Loads[rpc + 1] THEN [snap[s] EXCEPT !.last = disk[s]]
                  ELSE snap[s]]
    /\ UNCHANGED <<disk, run, lpc>>

\* The reader ends, or another one is started.
Leave ==
    /\ rpc > 0 \/ reading
    /\ rpc' = 0
    /\ reading' = FALSE
    /\ snap' = [s \in Linked |-> Unread]
    /\ UNCHANGED <<disk, run, lpc>>

Next ==
    \/ learn
    \/ start_store
    \/ \E s \in Store : Grow(s)
    \/ writethemall
    \/ stop_store
    \/ written
    \/ Crash
    \/ open_store
    \/ load_store
    \/ Leave

Spec == Init /\ [][Next]_vars

----------------------------------------------------------------------------
(* Properties. *)

\* State.
File == [run: 0 .. run, part: {"empty", "some", "whole"}]
TypeOK ==
    /\ disk \in [Store -> File]
    /\ run \in 0 .. MaxRun
    /\ \/ lpc \in {<<"off">>, <<"learn">>}
       \/ lpc \in {"start"} \X DOMAIN Loads
       \/ lpc \in {"stop", "write"} \X DOMAIN Saves
    /\ rpc \in 0 .. Len(Loads)
    /\ reading \in BOOLEAN
    /\ reading => rpc < Len(Loads)
    /\ snap \in [Linked -> [first: File, last: File]]

Whole(d, r) == d = [run |-> r, part |-> "whole"]

\* The reader has all of a store: the file was whole, of one run, from the first read to
\* the last.  It has a store torn: a later run emptied the file under it, and what it has
\* is the first part of what was there, with perhaps some of the new behind.
Complete(s) == snap[s].first.part = "whole" /\ snap[s].last = snap[s].first
Torn(s) == snap[s].first.run < snap[s].last.run

(* Wherever a learner dies, an index that is whole and of the last run vouches for
   every other store: it is the last one written, so all are whole and of that run. *)
IndexSealsRun ==
    run > 0 /\ Whole(disk["index"], run) => \A s \in Store : Whole(disk[s], run)

(* The reader loads the index before the relations, while the learner saves them the
   other way round.  So however the two overlap, read by read, no relation it loads is
   older than its index; and if the index is complete and the relations are of the same
   run, their file was whole when it began to read them, and it has them all unless they
   were torn: nothing keeps the next learner from opening the file with O_TRUNC between
   two reads, and then part of the relations stays beside a complete index. *)
IndexVouchesForWire ==
    rpc = Len(Loads) =>
      /\ snap["index"].last.run <= snap["wire"].first.run
      /\ Complete("index") /\ snap["wire"].first.run = snap["index"].first.run =>
           /\ snap["wire"].first.part = "whole"
           /\ Complete("wire") \/ Torn("wire")

(* A store once saved whole is not touched again in the same run: nothing after its
   stop, a crash included, damages it. *)
SavedStaysSaved ==
    [][\A s \in Store :
         Whole(disk[s], run) /\ run' = run /\ lpc'[1] # "start" =>
           disk'[s] = disk[s]]_vars
=============================================================================
