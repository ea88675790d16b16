--------------------------- MODULE PersistProofs ---------------------------
(***************************************************************************)
(* Proofs about what the program does with directories: what a learner     *)
(* that dies anywhere, and a reader that no lock keeps away from it, leave *)
(* and find in the one of the database; that the walk over the others      *)
(* gives the learner every entry of the tree once, its path as far as the  *)
(* buffer holds it; and that of a database it has loaded render draws and  *)
(* kirchhoff collects what lies around a name, all of it and once.         *)
(***************************************************************************)
EXTENDS Persist, Traverse, Gather, Recursion, FiniteSetTheorems, SequenceTheorems

(* The calls of readthemall: twelve stores, the string index the last but one and
   the relations the last. *)
LEMMA LoadsFacts ==
    /\ Len(Loads) = 12
    /\ DOMAIN Loads = 1 .. 12
    /\ \A i \in 1 .. 12 :
          /\ Loads[i] \in Store
          /\ Loads[i] = "index" <=> i = 11
          /\ Loads[i] = "wire" <=> i = 12
<1>1. Len(Loads) = 12  BY DEF Loads
<1>2. DOMAIN Loads = 1 .. 12  BY DEF Loads
<1>3. \A i \in 1 .. 12 : Loads[i] \in Store  BY <1>2 DEF Store
<1>4. \A i \in 1 .. 12 :
         /\ Loads[i] = "index" <=> i = 11
         /\ Loads[i] = "wire" <=> i = 12
  BY DEF Loads
<1> QED  BY <1>1, <1>2, <1>3, <1>4

(* The calls of writethemall: every store once, the relations first and the string
   index last. *)
LEMMA SavesFacts ==
    /\ Len(Saves) = 12
    /\ DOMAIN Saves = 1 .. 12
    /\ \A i \in 1 .. 12 :
          /\ Saves[i] \in Store
          /\ Saves[i] = "index" <=> i = 12
          /\ Saves[i] = "wire" <=> i = 1
    /\ \A i, j \in 1 .. 12 : Saves[i] = Saves[j] => i = j
    /\ \A s \in Store : \E i \in 1 .. 12 : s = Saves[i]
<1>1. Len(Saves) = 12  BY DEF Saves
<1>2. DOMAIN Saves = 1 .. 12  BY DEF Saves
<1>3. Store = {"chip", "filedata", "file", "funcdata", "func", "pin", "pointdata",
               "point", "shape", "str", "index", "wire"}
  BY LoadsFacts DEF Store, Loads
<1>4. \A i \in 1 .. 12 :
         /\ Saves[i] \in Store
         /\ Saves[i] = "index" <=> i = 12
         /\ Saves[i] = "wire" <=> i = 1
  BY <1>3 DEF Saves
<1>5. \A i, j \in 1 .. 12 : Saves[i] = Saves[j] => i = j
  BY DEF Saves
<1>6. \A s \in Store : \E i \in 1 .. 12 : s = Saves[i]
  BY <1>3 DEF Saves
<1> QED  BY <1>1, <1>2, <1>4, <1>5, <1>6

----------------------------------------------------------------------------

\* The learner has not begun to save: no file is whole of this run yet.
NoneWholeYet ==
    lpc[1] \in {"start", "learn"} => \A s \in Store : ~Whole(disk[s], run)

\* While it saves, the stores it has stopped are whole and no other is.
SavedInOrder ==
    lpc[1] \in {"stop", "write"} =>
      \A k \in 1 .. 12 : Whole(disk[Saves[k]], run) <=> k < lpc[2]

\* The index file is of an older run until the last store is being stopped.
IndexStaysOld ==
    \/ lpc[1] \in {"start", "learn", "stop"}
    \/ lpc[1] = "write" /\ lpc[2] < 12
    => disk["index"].run < run

\* What an index says of the relations beside it.
Vouches(index, wire) ==
    /\ index.run <= wire.run
    /\ index.part = "whole" /\ wire.run = index.run => wire.part = "whole"

\* The two files, and what the reader holds against the file or against its own copy.
FilesVouch == Vouches(disk["index"], disk["wire"])
ReaderBehind ==
    /\ snap["index"].first.run <= snap["index"].last.run
    /\ snap["index"].last.run <= disk["index"].run
ReaderVouches ==
    IF rpc = 12 \/ (rpc = 11 /\ reading) THEN Vouches(snap["index"].last, snap["wire"].first)
    ELSE Vouches(snap["index"].last, disk["wire"])

\* A later state of the file of the relations: of a later run, or untouched if it was
\* whole.
Later(file, then) ==
    /\ file.run <= then.run
    /\ file.part = "whole" /\ then.run = file.run => then = file
WireLater ==
    /\ rpc = 11 /\ reading => Later(snap["wire"].first, disk["wire"])
    /\ rpc = 12 => Later(snap["wire"].first, snap["wire"].last)

IInv ==
    /\ TypeOK
    /\ NoneWholeYet
    /\ SavedInOrder
    /\ IndexStaysOld
    /\ IndexSealsRun
    /\ FilesVouch
    /\ ReaderBehind
    /\ ReaderVouches
    /\ WireLater

----------------------------------------------------------------------------

(* The variables stay in their types. *)
LEMMA TypeStep == TypeOK /\ [Next]_vars => TypeOK'
<1> SUFFICES ASSUME TypeOK, [Next]_vars
             PROVE  TypeOK'
  OBVIOUS
<1> USE LoadsFacts, SavesFacts, MaxRunOK
<1>1. CASE learn
  BY <1>1 DEF TypeOK, learn, File
<1>2. CASE start_store
  BY <1>2 DEF TypeOK, start_store, File
<1>3. CASE \E s \in Store : Grow(s)
  BY <1>3 DEF TypeOK, Grow, File
<1>4. CASE writethemall
  BY <1>4 DEF TypeOK, writethemall, File
<1>5. CASE stop_store
  BY <1>5 DEF TypeOK, stop_store, File
<1>6. CASE written
  BY <1>6 DEF TypeOK, written, File
<1>7. CASE Crash
  BY <1>7 DEF TypeOK, Crash, File
<1>8. CASE open_store \/ load_store
  <2>1. run' = run /\ disk' = disk /\ lpc' = lpc /\ File' = File
    BY <1>8 DEF open_store, load_store, File
  <2>2. snap' \in [Linked -> [first: File, last: File]]
    <3>1. \A s \in Linked : disk[s] \in File
      BY DEF TypeOK, Linked
    <3>2. \A s \in Linked : /\ snap[s].first \in File
                            /\ [first |-> disk[s], last |-> disk[s]] \in [first: File, last: File]
                            /\ [snap[s] EXCEPT !.last = disk[s]] \in [first: File, last: File]
      BY <3>1 DEF TypeOK
    <3> QED  BY <1>8, <3>2 DEF TypeOK, open_store, load_store
  <2>3. rpc' \in 0 .. Len(Loads) /\ (reading' => rpc' < Len(Loads))
    BY <1>8 DEF TypeOK, open_store, load_store
  <2>4. reading' \in BOOLEAN
    BY <1>8 DEF open_store, load_store
  <2> QED  BY <2>1, <2>2, <2>3, <2>4, Zenon DEF TypeOK
<1>9. CASE Leave
  <2>1. run' = run /\ disk' = disk /\ lpc' = lpc /\ File' = File
    BY <1>9 DEF Leave, File
  <2>2. Nothing \in File
    BY DEF TypeOK, Nothing, File
  <2>3. snap' \in [Linked -> [first: File, last: File]]
    BY <1>9, <2>2 DEF Leave, Unread
  <2>4. rpc' \in 0 .. Len(Loads) /\ (reading' => rpc' < Len(Loads))
    BY <1>9 DEF Leave
  <2>5. reading' \in BOOLEAN
    BY <1>9 DEF Leave
  <2> QED  BY <2>1, <2>3, <2>4, <2>5, Zenon DEF TypeOK
<1>10. CASE UNCHANGED vars
  BY <1>10 DEF TypeOK, vars, File
<1> QED
  BY <1>1, <1>2, <1>3, <1>4, <1>5, <1>6, <1>7, <1>8, <1>9, <1>10 DEF Next

----------------------------------------------------------------------------
(* What a step of the learner does to the two files the reader links. *)

PairKept == disk'["index"] = disk["index"] /\ disk'["wire"] = disk["wire"]
WireRewritten ==
    /\ disk'["index"] = disk["index"] /\ disk["index"].run < run
    /\ disk'["wire"].run = run /\ ~Whole(disk["wire"], run)
IndexRewritten ==
    disk'["wire"] = disk["wire"] /\ Whole(disk["wire"], run) /\ disk'["index"].run = run

(* A learner that touches the relations only under an older index, and the index only
   beside whole relations, takes nothing the reader relies on from it. *)
LEMMA PairStep ==
    ASSUME TypeOK, FilesVouch, ReaderBehind, ReaderVouches, WireLater,
           UNCHANGED <<rpc, reading, snap>>,
           PairKept \/ WireRewritten \/ IndexRewritten
    PROVE  FilesVouch' /\ ReaderBehind' /\ ReaderVouches' /\ WireLater'
<1>1. /\ disk["index"].run \in 0 .. run /\ disk["wire"].run \in 0 .. run
      /\ disk["wire"] = [run |-> disk["wire"].run, part |-> disk["wire"].part]
      /\ snap["index"].first.run \in 0 .. run /\ snap["index"].last.run \in 0 .. run
      /\ snap["wire"].first.run \in 0 .. run /\ snap["wire"].last.run \in 0 .. run
      /\ run \in Nat
  BY LoadsFacts, MaxRunOK DEF TypeOK, Linked, File
<1>2. CASE PairKept
  BY <1>2 DEF PairKept, FilesVouch, ReaderBehind, ReaderVouches, WireLater
<1>3. CASE WireRewritten
  <2>1. FilesVouch' /\ ReaderBehind' /\ ReaderVouches'
    BY <1>1, <1>3 DEF WireRewritten, FilesVouch, ReaderBehind, ReaderVouches, Vouches
  <2>2. ASSUME rpc = 11, reading PROVE Later(snap["wire"].first, disk'["wire"])
    <3>1. Later(snap["wire"].first, disk["wire"])
      BY <2>2 DEF WireLater
    <3>2. snap["wire"].first.run <= disk'["wire"].run
      BY <1>1, <1>3, <3>1 DEF WireRewritten, Later
    <3>3. ASSUME snap["wire"].first.part = "whole", snap["wire"].first.run = run
          PROVE  FALSE
      <4>1. disk["wire"].run = run
        BY <1>1, <3>1, <3>3 DEF Later
      <4>2. disk["wire"].part = "whole"
        BY <3>1, <3>3, <4>1 DEF Later
      <4> QED  BY <1>1, <1>3, <4>1, <4>2 DEF WireRewritten, Whole
    <3> QED  BY <1>3, <3>2, <3>3 DEF WireRewritten, Later
  <2> QED  BY <2>1, <2>2 DEF WireLater
<1>4. CASE IndexRewritten
  BY <1>1, <1>4 DEF IndexRewritten, FilesVouch, ReaderBehind, ReaderVouches, Vouches, Whole,
                    WireLater
<1> QED  BY <1>2, <1>3, <1>4

(* Starting over: the number of the run is new, so no file is of it. *)
LEMMA LearnStep == IInv /\ learn => IInv'
<1> SUFFICES ASSUME IInv, learn PROVE IInv'
  OBVIOUS
<1> USE LoadsFacts, SavesFacts, MaxRunOK DEF IInv, learn
<1>1. TypeOK'
  BY TypeStep DEF Next
<1>2. run' = run + 1 /\ run \in Nat /\ lpc' = <<"start", 1>> /\ disk' = disk
      /\ \A s \in Store : disk[s].run \in 0 .. run
  BY DEF TypeOK, File
<1>3. NoneWholeYet'
  BY <1>2 DEF NoneWholeYet, Whole
<1>4. SavedInOrder' /\ IndexStaysOld'
  BY <1>2 DEF SavedInOrder, IndexStaysOld
<1>5. IndexSealsRun'
  BY <1>2, <1>4 DEF IndexStaysOld, IndexSealsRun, Whole
<1>6. PairKept
  BY DEF PairKept
<1>7. FilesVouch' /\ ReaderBehind' /\ ReaderVouches' /\ WireLater'
  BY <1>6, PairStep
<1> QED  BY <1>1, <1>3, <1>4, <1>5, <1>7

(* Opening the stores: each is emptied, the index apart. *)
LEMMA StartStep == IInv /\ start_store => IInv'
<1> SUFFICES ASSUME IInv, start_store PROVE IInv'
  OBVIOUS
<1> USE LoadsFacts, SavesFacts, MaxRunOK DEF IInv, start_store
<1>1. TypeOK'
  BY TypeStep DEF Next
<1>2. /\ run' = run /\ run \in Nat /\ lpc[1] = "start" /\ lpc'[1] \in {"start", "learn"}
      /\ lpc[2] \in 1 .. 12 /\ disk["index"].run < run
  BY DEF TypeOK, IndexStaysOld
<1>3. \A s \in Store :
         disk'[s] = IF s = Loads[lpc[2]] /\ s # "index"
                    THEN [run |-> run, part |-> "empty"] ELSE disk[s]
  BY <1>2 DEF TypeOK
<1>4. NoneWholeYet'
  BY <1>2, <1>3 DEF NoneWholeYet, Whole
<1>5. SavedInOrder' /\ IndexStaysOld'
  BY <1>2, <1>3 DEF SavedInOrder, IndexStaysOld
<1>6. IndexSealsRun'
  BY <1>2, <1>3 DEF IndexSealsRun, Whole
<1>7. PairKept \/ WireRewritten
  BY <1>2, <1>3 DEF PairKept, WireRewritten, NoneWholeYet
<1>8. FilesVouch' /\ ReaderBehind' /\ ReaderVouches' /\ WireLater'
  BY <1>7, PairStep
<1> QED  BY <1>1, <1>4, <1>5, <1>6, <1>8

(* Learning: a buffer that doubles writes part of a store. *)
LEMMA GrowStep == ASSUME IInv, NEW s \in Store, Grow(s) PROVE IInv'
<1> USE LoadsFacts, SavesFacts, MaxRunOK DEF IInv, Grow
<1>1. TypeOK'
  BY TypeStep DEF Next
<1>2. /\ run' = run /\ run \in Nat /\ lpc' = lpc /\ lpc[1] = "learn"
      /\ disk["index"].run < run
  BY DEF TypeOK, IndexStaysOld
<1>3. \A t \in Store :
         disk'[t] = IF t = s THEN [run |-> run, part |-> "some"] ELSE disk[t]
  BY DEF TypeOK
<1>4. NoneWholeYet'
  BY <1>2, <1>3 DEF NoneWholeYet, Whole
<1>5. SavedInOrder' /\ IndexStaysOld'
  BY <1>2, <1>3 DEF SavedInOrder, IndexStaysOld
<1>6. IndexSealsRun'
  BY <1>2, <1>3 DEF IndexSealsRun, Whole
<1>7. PairKept \/ WireRewritten
  BY <1>2, <1>3 DEF PairKept, WireRewritten, NoneWholeYet
<1>8. FilesVouch' /\ ReaderBehind' /\ ReaderVouches' /\ WireLater'
  BY <1>7, PairStep
<1> QED  BY <1>1, <1>4, <1>5, <1>6, <1>8

(* The end of learning: nothing is saved yet. *)
LEMMA WriteThemAllStep == IInv /\ writethemall => IInv'
<1> SUFFICES ASSUME IInv, writethemall PROVE IInv'
  OBVIOUS
<1> USE LoadsFacts, SavesFacts, MaxRunOK DEF IInv, writethemall
<1>1. TypeOK'
  BY TypeStep DEF Next
<1>2. run' = run /\ disk' = disk /\ lpc' = <<"stop", 1>> /\ lpc[1] = "learn"
  OBVIOUS
<1>3. NoneWholeYet' /\ IndexStaysOld' /\ IndexSealsRun'
  BY <1>2 DEF NoneWholeYet, IndexStaysOld, IndexSealsRun
<1>4. SavedInOrder'
  <2>1. \A k \in 1 .. 12 : ~Whole(disk[Saves[k]], run)
    BY <1>2 DEF NoneWholeYet
  <2>2. \A k \in 1 .. 12 : Whole(disk[Saves[k]], run)' <=> Whole(disk[Saves[k]], run)
    BY <1>2 DEF Whole
  <2> QED  BY <1>2, <2>1, <2>2 DEF SavedInOrder
<1>5. PairKept
  BY DEF PairKept
<1>6. FilesVouch' /\ ReaderBehind' /\ ReaderVouches' /\ WireLater'
  BY <1>5, PairStep
<1> QED  BY <1>1, <1>3, <1>4, <1>6

(* A store being stopped: its file is cut short, those before it stay whole. *)
LEMMA StopStep == IInv /\ stop_store => IInv'
<1> SUFFICES ASSUME IInv, stop_store PROVE IInv'
  OBVIOUS
<1> USE LoadsFacts, SavesFacts, MaxRunOK DEF IInv, stop_store
<1>1. TypeOK'
  BY TypeStep DEF Next
<1>2. /\ run' = run /\ run \in Nat /\ lpc[1] = "stop" /\ lpc[2] \in 1 .. 12
      /\ lpc' = <<"write", lpc[2]>> /\ disk["index"].run < run
  BY DEF TypeOK, IndexStaysOld
<1>3. \A s \in Store :
         disk'[s] = IF s = Saves[lpc[2]] THEN [run |-> run, part |-> "some"] ELSE disk[s]
  BY <1>2 DEF TypeOK
<1>4. NoneWholeYet' /\ IndexStaysOld'
  BY <1>2, <1>3 DEF NoneWholeYet, IndexStaysOld
<1>5. SavedInOrder'
  <2> SUFFICES ASSUME NEW k \in 1 .. 12
               PROVE  Whole(disk'[Saves[k]], run) <=> k < lpc[2]
    BY <1>2 DEF SavedInOrder, Whole
  <2>1. CASE k = lpc[2]
    BY <1>2, <1>3, <2>1 DEF Whole
  <2>2. CASE k # lpc[2]
    BY <1>2, <1>3, <2>2 DEF SavedInOrder
  <2> QED  BY <2>1, <2>2
<1>6. IndexSealsRun'
  BY <1>2, <1>3 DEF IndexSealsRun, Whole
<1>7. WireRewritten \/ IndexRewritten \/ PairKept
  <2>1. IF lpc[2] > 1 THEN Whole(disk["wire"], run) ELSE ~Whole(disk["wire"], run)
    BY <1>2 DEF SavedInOrder
  <2> QED  BY <1>2, <1>3, <2>1 DEF WireRewritten, IndexRewritten, PairKept
<1>8. FilesVouch' /\ ReaderBehind' /\ ReaderVouches' /\ WireLater'
  BY <1>7, PairStep
<1> QED  BY <1>1, <1>4, <1>5, <1>6, <1>8

(* A store saved: it is whole, and if it was the index so are all the others. *)
LEMMA WrittenStep == IInv /\ written => IInv'
<1> SUFFICES ASSUME IInv, written PROVE IInv'
  OBVIOUS
<1> USE LoadsFacts, SavesFacts, MaxRunOK DEF IInv, written
<1>1. TypeOK'
  BY TypeStep DEF Next
<1>2. /\ run' = run /\ run \in Nat /\ lpc[1] = "write" /\ lpc[2] \in 1 .. 12
      /\ lpc' = IF lpc[2] = 12 THEN <<"off">> ELSE <<"stop", lpc[2] + 1>>
      /\ lpc[2] < 12 => disk["index"].run < run
  BY DEF TypeOK, IndexStaysOld
<1>3. \A s \in Store :
         disk'[s] = IF s = Saves[lpc[2]] THEN [run |-> run, part |-> "whole"] ELSE disk[s]
  BY <1>2 DEF TypeOK
<1>4. NoneWholeYet' /\ IndexStaysOld'
  BY <1>2, <1>3 DEF NoneWholeYet, IndexStaysOld
<1>5. \A k \in 1 .. 12 : Whole(disk'[Saves[k]], run) <=> k < lpc[2] + 1
  <2> SUFFICES ASSUME NEW k \in 1 .. 12
               PROVE  Whole(disk'[Saves[k]], run) <=> k < lpc[2] + 1
    OBVIOUS
  <2>1. CASE k = lpc[2]
    BY <1>2, <1>3, <2>1 DEF Whole
  <2>2. CASE k # lpc[2]
    BY <1>2, <1>3, <2>2 DEF SavedInOrder
  <2> QED  BY <2>1, <2>2
<1>6. SavedInOrder'
  BY <1>2, <1>5 DEF SavedInOrder, Whole
<1>7. IndexSealsRun'
  <2>1. CASE lpc[2] = 12
    BY <1>2, <1>5, <2>1 DEF IndexSealsRun, Whole
  <2>2. CASE lpc[2] < 12
    BY <1>2, <1>3, <2>2 DEF IndexSealsRun, Whole
  <2> QED  BY <1>2, <2>1, <2>2
<1>8. WireRewritten \/ IndexRewritten \/ PairKept
  <2>1. IF lpc[2] > 1 THEN Whole(disk["wire"], run) ELSE ~Whole(disk["wire"], run)
    BY <1>2 DEF SavedInOrder
  <2> QED  BY <1>2, <1>3, <2>1 DEF WireRewritten, IndexRewritten, PairKept
<1>9. FilesVouch' /\ ReaderBehind' /\ ReaderVouches' /\ WireLater'
  BY <1>8, PairStep
<1> QED  BY <1>1, <1>4, <1>6, <1>7, <1>9

(* The learner dies: the files stay as they are, whatever it was in the middle of. *)
LEMMA CrashStep == IInv /\ Crash => IInv'
<1> SUFFICES ASSUME IInv, Crash PROVE IInv'
  OBVIOUS
<1> USE DEF IInv, Crash
<1>1. TypeOK'
  BY TypeStep DEF Next
<1>2. NoneWholeYet' /\ SavedInOrder' /\ IndexStaysOld'
  BY DEF NoneWholeYet, SavedInOrder, IndexStaysOld
<1>3. IndexSealsRun'
  BY DEF IndexSealsRun, Whole
<1>4. PairKept
  BY DEF PairKept
<1>5. FilesVouch' /\ ReaderBehind' /\ ReaderVouches' /\ WireLater'
  BY <1>4, PairStep
<1> QED  BY <1>1, <1>2, <1>3, <1>5

(* A step of the reader leaves the files alone; it reads the index while the relations
   are still to come, and what it reads of them last is a later state of their file. *)
LEMMA ReaderStep == IInv /\ (open_store \/ load_store \/ Leave) => IInv'
<1> SUFFICES ASSUME IInv, open_store \/ load_store \/ Leave PROVE IInv'
  OBVIOUS
<1> USE DEF IInv
<1>1. TypeOK'
  BY TypeStep DEF Next
<1>2. UNCHANGED <<disk, run, lpc>>
  BY DEF open_store, load_store, Leave
<1>3. NoneWholeYet' /\ SavedInOrder' /\ IndexStaysOld' /\ IndexSealsRun' /\ FilesVouch'
  BY <1>2 DEF NoneWholeYet, SavedInOrder, IndexStaysOld, IndexSealsRun, FilesVouch, Whole,
              Vouches
<1>4. /\ disk["index"].run \in 0 .. run /\ disk["wire"].run \in 0 .. run
      /\ snap["index"].first.run \in 0 .. run /\ snap["index"].last.run \in 0 .. run
      /\ run \in Nat /\ rpc \in 0 .. 12 /\ reading \in BOOLEAN
  BY LoadsFacts, MaxRunOK DEF TypeOK, Linked, File
<1>5. CASE open_store
  <2>1. /\ snap'["index"] = IF rpc = 10 THEN [first |-> disk["index"], last |-> disk["index"]]
                            ELSE snap["index"]
        /\ snap'["wire"] = IF rpc = 11 THEN [first |-> disk["wire"], last |-> disk["wire"]]
                           ELSE snap["wire"]
        /\ rpc' = rpc /\ reading' = TRUE /\ reading = FALSE /\ rpc \in 0 .. 11
    BY <1>4, <1>5, LoadsFacts DEF open_store, Linked
  <2>2. ReaderBehind'
    BY <1>2, <1>4, <2>1 DEF ReaderBehind
  <2>3. ReaderVouches'
    BY <1>2, <2>1 DEF ReaderVouches, FilesVouch
  <2>4. WireLater'
    BY <1>2, <1>4, <2>1 DEF WireLater, Later
  <2> QED  BY <1>1, <1>3, <2>2, <2>3, <2>4
<1>6. CASE load_store
  <2>1. /\ snap'["index"] = IF rpc = 10 THEN [snap["index"] EXCEPT !.last = disk["index"]]
                            ELSE snap["index"]
        /\ snap'["wire"] = IF rpc = 11 THEN [snap["wire"] EXCEPT !.last = disk["wire"]]
                           ELSE snap["wire"]
        /\ rpc' = rpc + 1 /\ reading' = FALSE /\ reading = TRUE /\ rpc \in 0 .. 11
    BY <1>4, <1>6, LoadsFacts DEF load_store, Linked, TypeOK
  <2>2. /\ snap'["index"].first = snap["index"].first
        /\ snap'["index"].last = IF rpc = 10 THEN disk["index"] ELSE snap["index"].last
        /\ snap'["wire"].first = snap["wire"].first
        /\ rpc = 11 => snap'["wire"].last = disk["wire"]
    BY <2>1 DEF TypeOK, Linked
  <2>3. ReaderBehind'
    BY <1>2, <1>4, <2>2 DEF ReaderBehind
  <2>4. ReaderVouches'
    BY <1>2, <2>1, <2>2 DEF ReaderVouches, FilesVouch
  <2>5. WireLater'
    BY <1>2, <2>1, <2>2 DEF WireLater
  <2> QED  BY <1>1, <1>3, <2>3, <2>4, <2>5
<1>7. CASE Leave
  <2>1. /\ rpc' = 0 /\ reading' = FALSE
        /\ snap'["index"].first = Nothing /\ snap'["index"].last = Nothing
    BY <1>7 DEF Leave, Linked, Unread
  <2>2. ReaderBehind' /\ ReaderVouches' /\ WireLater'
    BY <1>2, <1>4, <2>1 DEF ReaderBehind, ReaderVouches, WireLater, Vouches, Nothing
  <2> QED  BY <1>1, <1>3, <2>2
<1> QED  BY <1>5, <1>6, <1>7

----------------------------------------------------------------------------

(* Every step keeps the invariant. *)
LEMMA InvStep == IInv /\ [Next]_vars => IInv'
<1>1. IInv /\ UNCHANGED vars => IInv'
  BY DEF IInv, vars, TypeOK, NoneWholeYet, SavedInOrder, IndexStaysOld, IndexSealsRun,
         FilesVouch, ReaderBehind, ReaderVouches, WireLater, Later, Whole, Vouches, File
<1> QED
  BY <1>1, LearnStep, StartStep, GrowStep, WriteThemAllStep, StopStep, WrittenStep,
     CrashStep, ReaderStep DEF Next

(* The invariant holds of an empty directory. *)
LEMMA InvInit == Init => IInv
<1> SUFFICES ASSUME Init PROVE IInv
  OBVIOUS
<1>1. "index" \in Store /\ "wire" \in Store /\ Len(Loads) = 12
  BY LoadsFacts
<1>2. TypeOK
  <2>1. Nothing \in File
    BY DEF Init, File, Nothing
  <2>2. disk \in [Store -> File]
    BY <2>1 DEF Init
  <2>3. snap \in [Linked -> [first: File, last: File]]
    BY <2>1 DEF Init, Unread
  <2>4. <<"off">> \in {<<"off">>, <<"learn">>}
    OBVIOUS
  <2>5. rpc \in 0 .. Len(Loads) /\ (reading => rpc < Len(Loads)) /\ run \in 0 .. MaxRun
    BY <1>1, MaxRunOK DEF Init
  <2>6. reading \in BOOLEAN /\ lpc \in {<<"off">>, <<"learn">>}
    BY <2>4 DEF Init
  <2> QED  BY <2>2, <2>3, <2>5, <2>6, Zenon DEF TypeOK
<1>3. NoneWholeYet /\ SavedInOrder /\ IndexStaysOld /\ IndexSealsRun
  BY DEF Init, NoneWholeYet, SavedInOrder, IndexStaysOld, IndexSealsRun
<1>4. FilesVouch /\ ReaderBehind /\ ReaderVouches /\ WireLater
  BY <1>1 DEF Init, FilesVouch, ReaderBehind, ReaderVouches, WireLater, Vouches, Nothing,
              Unread, Linked
<1> QED  BY <1>2, <1>3, <1>4 DEF IInv

(* The invariant holds throughout. *)
THEOREM PersistInv == Spec => []IInv
BY InvInit, InvStep, PTL DEF Spec

(* The state keeps its types: the learner and the reader stay at calls that exist, and
   no file is of a run that has not begun. *)
THEOREM PersistTypes == Spec => []TypeOK
<1>1. IInv => TypeOK  BY DEF IInv
<1> QED  BY <1>1, PersistInv, PTL

(* Wherever a learner of writethemall dies, an index that is whole and of the last run
   vouches for every store. *)
THEOREM IndexSeals == Spec => []IndexSealsRun
<1>1. IInv => IndexSealsRun  BY DEF IInv
<1> QED  BY <1>1, PersistInv, PTL

(* However readthemall(1) overlaps a learner, read by read: no relation it loads is older
   than the index it loaded; and beside a complete index of the same run it has all the
   relations, or a later learner emptied their file under it. *)
THEOREM IndexVouches == Spec => []IndexVouchesForWire
<1>1. IInv => IndexVouchesForWire
  <2> SUFFICES ASSUME IInv, rpc = 12 PROVE IndexVouchesForWire
    BY LoadsFacts DEF IndexVouchesForWire
  <2>1. /\ snap["wire"].first.run \in Nat /\ snap["wire"].last.run \in Nat
        /\ snap["index"].first.run \in Nat /\ snap["index"].last.run \in Nat
    BY MaxRunOK DEF IInv, TypeOK, Linked, File
  <2>2. Vouches(snap["index"].last, snap["wire"].first)
    BY DEF IInv, ReaderVouches
  <2>3. Later(snap["wire"].first, snap["wire"].last)
    BY DEF IInv, WireLater
  <2>4. Complete("index") => snap["index"].last = snap["index"].first
                             /\ snap["index"].first.part = "whole"
    BY DEF Complete
  <2> QED
    BY LoadsFacts, <2>1, <2>2, <2>3, <2>4
       DEF Vouches, Later, IndexVouchesForWire, Complete, Torn
<1> QED  BY <1>1, PersistInv, PTL

(* A store once saved whole is not written again in its run, by a buffer that doubles,
   another stop or a crash. *)
THEOREM SavedStays == Spec => SavedStaysSaved
<1> DEFINE Kept == \A s \in Store :
                      Whole(disk[s], run) /\ run' = run /\ lpc'[1] # "start" =>
                        disk'[s] = disk[s]
<1>1. IInv /\ [Next]_vars => [Kept]_vars
  <2> SUFFICES ASSUME IInv, Next, NEW s \in Store,
                      Whole(disk[s], run), run' = run, lpc'[1] # "start"
               PROVE  disk'[s] = disk[s]
    BY DEF vars
  <2> USE LoadsFacts, SavesFacts DEF IInv
  <2>1. CASE learn
    BY <2>1 DEF learn
  <2>2. CASE start_store
    BY <2>2 DEF start_store, NoneWholeYet
  <2>3. CASE \E t \in Store : Grow(t)
    BY <2>3 DEF Grow, NoneWholeYet
  <2>4. CASE stop_store \/ written
    <3>1. PICK k \in 1 .. 12 : s = Saves[k]
      OBVIOUS
    <3>2. lpc[1] \in {"stop", "write"} /\ lpc[2] \in 1 .. 12
      BY <2>4 DEF stop_store, written, TypeOK
    <3>3. k < lpc[2]
      BY <3>1, <3>2 DEF SavedInOrder
    <3>4. s # Saves[lpc[2]]
      BY <3>1, <3>2, <3>3
    <3> QED  BY <2>4, <3>4 DEF stop_store, written, TypeOK
  <2>5. CASE writethemall \/ Crash \/ open_store \/ load_store \/ Leave
    BY <2>5 DEF writethemall, Crash, open_store, load_store, Leave
  <2> QED  BY <2>1, <2>2, <2>3, <2>4, <2>5 DEF Next
<1> QED  BY <1>1, PersistInv, PTL DEF Spec, SavedStaysSaved

----------------------------------------------------------------------------
(* The directory walk.  The entries of a tree, and the paths to them. *)

\* What the walk goes into of folder n.
Entries(t, n) ==
    {t.list[n][i] : i \in {j \in DOMAIN t.list[n] : t.kind[t.list[n][j]] \notin Passed}}

\* A path of the tree: from folder to folder, by entries that are not passed over.
IsPath(t, p) ==
    /\ p \in Seq(Node) /\ Len(p) >= 1 /\ p[1] = Root
    /\ \A i \in 1 .. Len(p) - 1 : t.kind[p[i]] = "dir" /\ p[i + 1] \in Entries(t, p[i])

\* A tree is one of the assumption.
LEMMA TreeIs ==
    ASSUME NEW t \in Trees
    PROVE  /\ t.kind \in [Node -> Kinds] /\ t.kind[Root] \in {"dir", "leaf"}
           /\ t.list \in [Node -> Seq(Node)] /\ t.width \in [Node -> Nat \ {0}]
           /\ t.slash \in BOOLEAN /\ (t.slash => t.width[Root] = 1) /\ Folders(t)
BY TreesOK

\* The root alone is a path, and a path goes on by an entry of the folder it ends in.
LEMMA RootPath == ASSUME NEW t PROVE IsPath(t, <<Root>>)
<1>1. <<Root>> \in Seq(Node) /\ Len(<<Root>>) = 1 /\ <<Root>>[1] = Root
  BY RootOK
<1>2. \A i \in 1 .. Len(<<Root>>) - 1 : FALSE
  BY <1>1
<1> QED BY <1>1, <1>2 DEF IsPath

LEMMA PathOn ==
    ASSUME NEW t \in Trees, NEW p, IsPath(t, p), NEW x \in Node
    PROVE  IsPath(t, Append(p, x)) <=> t.kind[p[Len(p)]] = "dir" /\ x \in Entries(t, p[Len(p)])
<1> DEFINE q == Append(p, x)
           n == Len(p)
<1>1. p \in Seq(Node) /\ n \in Nat /\ n >= 1 /\ p[1] = Root
  BY DEF IsPath
<1>2. q \in Seq(Node) /\ Len(q) = n + 1 /\ q[n + 1] = x /\ \A i \in 1 .. n : q[i] = p[i]
  BY <1>1
<1>3. \A i \in 1 .. n - 1 : t.kind[p[i]] = "dir" /\ p[i + 1] \in Entries(t, p[i])
  BY DEF IsPath
<1> HIDE DEF q, n
<1>4. q[1] = Root /\ q[n] = p[n]
  BY <1>1, <1>2
<1>5. ASSUME t.kind[p[n]] = "dir", x \in Entries(t, p[n])
      PROVE  \A i \in 1 .. Len(q) - 1 : t.kind[q[i]] = "dir" /\ q[i + 1] \in Entries(t, q[i])
  <2> SUFFICES ASSUME NEW i \in 1 .. n  PROVE t.kind[q[i]] = "dir" /\ q[i + 1] \in Entries(t, q[i])
    BY <1>1, <1>2
  <2>1. CASE i = n
    BY <1>2, <1>4, <1>5, <2>1
  <2>2. CASE i # n
    <3>1. i \in 1 .. n - 1 /\ i + 1 \in 1 .. n /\ i \in 1 .. n
      BY <1>1, <2>2
    <3> QED BY <1>2, <1>3, <3>1
  <2> QED BY <2>1, <2>2
<1>6. ASSUME IsPath(t, q)  PROVE t.kind[p[n]] = "dir" /\ x \in Entries(t, p[n])
  <2>1. n \in 1 .. Len(q) - 1
    BY <1>1, <1>2
  <2>2. t.kind[q[n]] = "dir" /\ q[n + 1] \in Entries(t, q[n])
    BY <1>6, <2>1 DEF IsPath
  <2> QED BY <1>2, <1>4, <2>2
<1>7. Len(q) >= 1
  BY <1>1, <1>2
<1>8. t.kind[p[n]] = "dir" /\ x \in Entries(t, p[n]) => IsPath(t, q)
  BY <1>2, <1>4, <1>5, <1>7 DEF IsPath
<1> QED BY <1>6, <1>8 DEF q, n

\* A path without its last entry is one.
LEMMA PathBack ==
    ASSUME NEW t \in Trees, NEW q, IsPath(t, q), NEW k \in 1 .. Len(q)
    PROVE  LET p == SubSeq(q, 1, k)
           IN  IsPath(t, p) /\ Len(p) = k /\ \A i \in 1 .. k : p[i] = q[i]
<1> DEFINE p == SubSeq(q, 1, k)
<1>1. q \in Seq(Node) /\ Len(q) \in Nat /\ q[1] = Root
  BY DEF IsPath
<1>2. p \in Seq(Node) /\ Len(p) = k /\ \A i \in 1 .. k : p[i] = q[i]
  BY <1>1
<1> HIDE DEF p
<1>3. \A i \in 1 .. k - 1 : i \in 1 .. Len(q) - 1 /\ i \in 1 .. k /\ i + 1 \in 1 .. k
  BY <1>1
<1>4. \A i \in 1 .. Len(p) - 1 : t.kind[p[i]] = "dir" /\ p[i + 1] \in Entries(t, p[i])
  BY <1>2, <1>3 DEF IsPath
<1>5. p[1] = Root /\ Len(p) >= 1
  BY <1>1, <1>2
<1>6. IsPath(t, p)
  BY <1>2, <1>4, <1>5 DEF IsPath
<1> QED BY <1>2, <1>6 DEF p

\* No entry is on a path twice, for no folder is below itself.
LEMMA PathDistinct ==
    ASSUME NEW t \in Trees, NEW p, IsPath(t, p), NEW i \in 1 .. Len(p), NEW j \in 1 .. Len(p), i < j
    PROVE  p[i] # p[j]
<1> SUFFICES ASSUME p[i] = p[j]  PROVE FALSE
  OBVIOUS
<1> DEFINE S == {p[k] : k \in i .. j - 1}
<1>1. p \in Seq(Node) /\ Len(p) \in Nat
  BY DEF IsPath
<1>2. \A k \in i .. j - 1 : k \in 1 .. Len(p) /\ p[k] \in Node
  BY <1>1
<1>3. S \in SUBSET Node /\ p[i] \in S
  <2>1. i \in i .. j - 1
    OBVIOUS
  <2> QED BY <1>2, <2>1
<1>4. PICK n \in S : \A m \in S : \A e \in DOMAIN t.list[m] : t.list[m][e] # n
  <2>1. S \in (SUBSET Node) \ {{}}
    BY <1>3
  <2> HIDE DEF S
  <2> QED BY <2>1, TreeIs DEF Folders
<1>5. PICK k \in i .. j - 1 : n = p[k]
  OBVIOUS
<1>6. \E m \in S : n \in Entries(t, m)
  <2>1. CASE k > i
    <3>1. k - 1 \in i .. j - 1 /\ k - 1 \in 1 .. Len(p) - 1 /\ (k - 1) + 1 = k
      BY <1>1, <2>1
    <3>2. p[(k - 1) + 1] \in Entries(t, p[k - 1])
      BY <3>1 DEF IsPath
    <3> QED BY <1>5, <3>1, <3>2
  <2>2. CASE ~(k > i)
    <3>1. k = i /\ j - 1 \in i .. j - 1 /\ j - 1 \in 1 .. Len(p) - 1 /\ (j - 1) + 1 = j
      BY <1>1, <2>2
    <3>2. p[(j - 1) + 1] \in Entries(t, p[j - 1])
      BY <3>1 DEF IsPath
    <3> QED BY <1>5, <3>1, <3>2
  <2> QED BY <2>1, <2>2
<1> HIDE DEF S
<1> QED BY <1>4, <1>6 DEF Entries

\* So no path is longer than there are entries.
LEMMA PathShort ==
    ASSUME NEW t \in Trees, NEW p, IsPath(t, p)
    PROVE  Len(p) <= Cardinality(Node) /\ Cardinality(Node) \in Nat
<1> DEFINE n == Len(p)
<1>1. p \in Seq(Node) /\ n \in Nat
  BY DEF IsPath
<1>2. p \in [1 .. n -> Node]
  BY <1>1
<1>3. \A i, j \in 1 .. n : p[i] = p[j] => i = j
  <2> SUFFICES ASSUME NEW i \in 1 .. n, NEW j \in 1 .. n, p[i] = p[j], i # j  PROVE FALSE
    OBVIOUS
  <2>1. i < j \/ j < i
    OBVIOUS
  <2> QED BY <2>1, PathDistinct
<1> HIDE DEF n
<1>4. p \in Injection(1 .. n, Node)
  BY <1>2, <1>3 DEF Injection, IsInjective
<1>5. Cardinality(1 .. n) <= Cardinality(Node)
  BY <1>4, RootOK, FS_Injection
<1>6. Cardinality(1 .. n) = n
  BY <1>1, FS_Interval
<1>7. Cardinality(Node) \in Nat
  BY RootOK, FS_CardinalityType
<1> QED BY <1>5, <1>6, <1>7 DEF n

\* The paths one entry longer than p are its kids.
LEMMA KidsAre ==
    ASSUME tree \in Trees, NEW p, IsPath(tree, p)
    PROVE  /\ \A q \in Kids(p) : IsPath(tree, q) /\ Len(q) = Len(p) + 1
           /\ \A x \in Node : IsPath(tree, Append(p, x)) => Append(p, x) \in Kids(p)
<1> DEFINE node == p[Len(p)]
           E == Entries(tree, node)
<1>1. p \in Seq(Node) /\ Len(p) \in Nat /\ node \in Node
  BY DEF IsPath
<1>2. Kids(p) = IF tree.kind[node] # "dir" THEN {} ELSE {Append(p, x) : x \in E}
  BY DEF Kids, Entries
<1>3. E \subseteq Node
  <2>1. tree.list[node] \in Seq(Node)
    BY <1>1, TreeIs
  <2> QED BY <2>1 DEF Entries
<1>4. \A x \in Node : IsPath(tree, Append(p, x)) <=> tree.kind[node] = "dir" /\ x \in E
  BY PathOn
<1>5. \A x \in Node : Len(Append(p, x)) = Len(p) + 1
  BY <1>1
<1> HIDE DEF node, E
<1> QED BY <1>2, <1>3, <1>4, <1>5

\* g is the recursion of AllPaths.
PathsIs(g) ==
    g = [d \in Nat |-> IF d = 0 THEN {<<Root>>} ELSE g[d - 1] \cup UNION {Kids(p) : p \in g[d - 1]}]

LEMMA PathsDefined == ASSUME tree \in Trees PROVE \E g : PathsIs(g)
<1> DEFINE P == {p \in Seq(Node) : IsPath(tree, p)}
           X == SUBSET P
           E == [S \in X |-> S \cup UNION {Kids(p) : p \in S}]
<1>1. {<<Root>>} \in X
  BY RootPath, RootOK
<1>2. ASSUME NEW S \in X  PROVE S \cup UNION {Kids(p) : p \in S} \in X
  <2>1. \A p \in S : \A q \in Kids(p) : q \in P
    BY KidsAre DEF IsPath
  <2> HIDE DEF P
  <2> QED BY <2>1
<1>3. E \in [X -> X]
  BY <1>2
<1>4. \A S \in X : E[S] = S \cup UNION {Kids(p) : p \in S}
  OBVIOUS
<1> HIDE DEF X, E
<1>5. PICK g \in [Nat -> X] : RecursOn(g, {<<Root>>}, E)
  BY <1>1, <1>3, RecursionOnNat
<1>6. g = [d \in Nat |-> IF d = 0 THEN {<<Root>>} ELSE E[g[d - 1]]]
  BY <1>5 DEF RecursOn
<1>7. \A d \in Nat : d # 0 => g[d - 1] \in X
  BY <1>5
<1>8. \A d \in Nat : (IF d = 0 THEN {<<Root>>} ELSE E[g[d - 1]])
                     = IF d = 0 THEN {<<Root>>} ELSE g[d - 1] \cup UNION {Kids(p) : p \in g[d - 1]}
  BY <1>4, <1>7
<1>9. PathsIs(g)
  BY <1>6, <1>8 DEF PathsIs
<1> QED BY <1>9

(* The paths the property counts are those of the tree. *)
LEMMA AllPathsAre ==
    ASSUME tree \in Trees
    PROVE  \A p : p \in AllPaths <=> IsPath(tree, p)
<1> DEFINE g == CHOOSE h : PathsIs(h)
           N == Cardinality(Node)
           Short(d) == {p \in Seq(Node) : IsPath(tree, p) /\ Len(p) <= d + 1}
           T == {d \in Nat : g[d] = Short(d)}
<1>1. PathsIs(g)
  BY PathsDefined, Zenon
<1>2. AllPaths = g[N]
  BY Zenon DEF AllPaths, PathsIs
<1> HIDE DEF g
<1>3. \A d \in Nat : g[d] = IF d = 0 THEN {<<Root>>} ELSE g[d - 1] \cup UNION {Kids(p) : p \in g[d - 1]}
  BY <1>1 DEF PathsIs
<1>4. 0 \in T
  <2>1. g[0] = {<<Root>>}
    BY <1>3
  <2>2. <<Root>> \in Short(0)
    BY RootPath, RootOK
  <2>3. ASSUME NEW p \in Short(0)  PROVE p = <<Root>>
    <3>1. p \in Seq(Node) /\ Len(p) \in Nat /\ Len(p) <= 0 + 1 /\ Len(p) >= 1 /\ p[1] = Root
      BY DEF IsPath
    <3>2. Len(p) = 1
      <4> DEFINE n == Len(p)
      <4>1. n \in Nat /\ n <= 1 /\ n >= 1
        BY <3>1
      <4> HIDE DEF n
      <4>2. n = 1
        BY <4>1
      <4> QED BY <4>2 DEF n
    <3> QED BY <3>1, <3>2
  <2> QED BY <2>1, <2>2, <2>3
<1>5. ASSUME NEW d \in T  PROVE d + 1 \in T
  <2>1. d \in Nat /\ d + 1 \in Nat /\ d + 1 # 0 /\ (d + 1) - 1 = d /\ g[d] = Short(d)
    OBVIOUS
  <2>2. g[d + 1] = Short(d) \cup UNION {Kids(p) : p \in Short(d)}
    BY <1>3, <2>1
  <2>3. ASSUME NEW p \in Short(d), NEW q \in Kids(p)  PROVE q \in Short(d + 1)
    <3>1. IsPath(tree, q) /\ Len(q) = Len(p) + 1
      BY <2>3, KidsAre
    <3>2. Len(p) \in Nat /\ q \in Seq(Node)
      BY <3>1 DEF IsPath
    <3> QED BY <2>1, <3>1, <3>2
  <2>4. ASSUME NEW q \in Short(d + 1), q \notin Short(d)  PROVE \E p \in Short(d) : q \in Kids(p)
    <3>1. IsPath(tree, q) /\ q \in Seq(Node) /\ Len(q) \in Nat /\ Len(q) = d + 2
      BY <2>1, <2>4 DEF IsPath
    <3> DEFINE p == SubSeq(q, 1, d + 1)
               x == q[d + 2]
    <3>2. IsPath(tree, p) /\ Len(p) = d + 1
      BY <2>1, <3>1, PathBack
    <3>3. q = Append(p, x) /\ x \in Node /\ p \in Seq(Node)
      BY <2>1, <3>1
    <3> HIDE DEF p, x
    <3>4. q \in Kids(p)
      BY <3>1, <3>2, <3>3, KidsAre
    <3> QED BY <2>1, <3>2, <3>3, <3>4
  <2>5. \A p \in Short(d) : p \in Short(d + 1)
    BY <2>1 DEF IsPath
  <2> HIDE DEF Short
  <2>6. g[d + 1] = Short(d + 1)
    BY <2>2, <2>3, <2>4, <2>5
  <2> QED BY <2>1, <2>6
<1>6. T = Nat
  <2>1. T \in SUBSET Nat
    OBVIOUS
  <2> HIDE DEF T
  <2> QED BY <1>4, <1>5, <2>1, Induction
<1>7. N \in Nat
  BY RootPath, PathShort
<1>8. AllPaths = Short(N)
  <2> HIDE DEF Short
  <2> QED BY <1>2, <1>6, <1>7
<1>9. \A p : IsPath(tree, p) => p \in Seq(Node) /\ Len(p) <= N + 1
  <2> SUFFICES ASSUME NEW p, IsPath(tree, p)  PROVE p \in Seq(Node) /\ Len(p) <= N + 1
    OBVIOUS
  <2>1. Len(p) <= N
    BY PathShort
  <2>2. p \in Seq(Node) /\ Len(p) \in Nat
    BY DEF IsPath
  <2> HIDE DEF N
  <2> QED BY <1>7, <2>1, <2>2
<1> QED BY <1>8, <1>9

----------------------------------------------------------------------------
(* The walk. *)

\* A path as it stands in the buffer, and where its first k entries end there.
InBuffer(t, p) == IF t.slash /\ Len(p) > 1 THEN Tail(p) ELSE p
Kept(t, k) == IF t.slash /\ k > 1 THEN k - 1 ELSE k

\* The characters of the first k components of a path: CharsTo, for a tree that is given.
Wide(t, p, k) ==
    LET C[i \in 0 .. Len(p)] == IF i = 0 THEN 0 ELSE C[i - 1] + t.width[p[i]]
    IN  C[k]
WideRec(t, p, g) == g = [i \in 0 .. Len(p) |-> IF i = 0 THEN 0 ELSE g[i - 1] + t.width[p[i]]]

\* The characters of the first k entries of a path as the buffer has them, whether it
\* holds so many, and whether it holds all of a path.
Name(t, p, k) == IF t.slash /\ k > 1 THEN Wide(t, p, k) - 1 ELSE Wide(t, p, k)
Held(t, p, k) == Name(t, p, k) < Buffer
AllHeld(t, p) == Wide(t, p, Len(p)) < Buffer

\* A path begins with the first k entries of another.
Agree(p, q, k) == Len(p) >= k /\ \A i \in 1 .. k : p[i] = q[i]

\* A level of the stack: whether its folder is open, whether it was not tried yet, and the
\* entries readdir has left.
IsOpen(s, l) == s[l].namelen # 0 /\ s[l].folder # NoFolder
Fresh(s, l) == s[l].namelen # 0 /\ s[l].folder = NoFolder
LeftOf(s, l) == {s[l].folder[i] : i \in DOMAIN s[l].folder}

\* Names that are a path of the tree as far as the buffer holds them.
Names(p) == p \in Seq(Node) /\ Len(p) >= 1 /\ p[1] = Root
OnTree(t, F) ==
    /\ Names(F)
    /\ \A i \in 1 .. Len(F) - 1 :
         Held(t, F, i + 1) => t.kind[F[i]] = "dir" /\ F[i + 1] \in Entries(t, F[i])

\* A level is one of the names F: its name is as long as in the buffer, and if the buffer
\* holds it, what is left of its folder was in it, each entry once.
Level(t, s, l, F) ==
    /\ s[l].namelen \in {0, Name(t, F, l + 1)}
    /\ IsOpen(s, l) =>
         /\ s[l].folder \in Seq(Node)
         /\ Held(t, F, l + 1) =>
              /\ t.kind[F[l + 1]] = "dir"
              /\ \A i, j \in DOMAIN s[l].folder : s[l].folder[i] = s[l].folder[j] => i = j
              /\ LeftOf(s, l) \subseteq {t.list[F[l + 1]][i] : i \in DOMAIN t.list[F[l + 1]]}

\* A level below the one in use is open, at an entry it does not give again.
Below(t, s, l, F) == IsOpen(s, l) /\ (Held(t, F, l + 1) => F[l + 2] \notin LeftOf(s, l))

Frames == [namelen : Nat, folder : Seq(Node) \cup {NoFolder}]

\* The stack is one of folders open along the names F, of which the buffer has what is longest.
StackOK(t, s, r, p, F) ==
    /\ s \in [0 .. Levels - 1 -> Frames] /\ r \in 0 .. Levels - 1
    /\ OnTree(t, F) /\ p = InBuffer(t, F) /\ Len(F) >= r + 1
    /\ Fresh(s, r) => Len(F) = r + 1
    /\ \A l \in 0 .. r : Level(t, s, l, F)
    /\ \A l \in 0 .. r - 1 : Below(t, s, l, F)

\* A path still to come: by an entry some open folder has left, or at or below the name
\* not tried yet.
Ahead(s, l, F, q) ==
    IsOpen(s, l) /\ Len(q) > l + 1 /\ Agree(q, F, l + 1) /\ q[l + 2] \in LeftOf(s, l)
Pending(s, r, F, q) ==
    \/ \E l \in 0 .. r : Ahead(s, l, F, q)
    \/ Fresh(s, r) /\ Agree(q, F, r + 1)

\* What was given whole are paths of the tree, each once and cut at its name, and of the
\* paths the buffer holds exactly those not still to come.
Given == [path : Seq(Node), offs : Nat, type : {"dir", "file"}]
Shown(t, g, q) == \E i \in DOMAIN g : g[i].path = InBuffer(t, q)
CutAt(t, q, offs) ==
    IF Len(q) = 1 THEN offs = 0
    ELSE IF Len(q) = 2 /\ t.slash THEN offs = 1
    ELSE offs + t.width[q[Len(q)]] = Wide(t, InBuffer(t, q), Len(InBuffer(t, q)))
Tally(t, s, r, g, F) ==
    /\ g \in Seq(Given)
    /\ \A i \in DOMAIN g :
         AllHeld(t, g[i].path) =>
           \E q : IsPath(t, q) /\ g[i].path = InBuffer(t, q) /\ CutAt(t, q, g[i].offs)
    /\ \A i, j \in DOMAIN g : AllHeld(t, g[i].path) /\ g[i].path = g[j].path => i = j
    /\ \A q : IsPath(t, q) /\ Held(t, q, Len(q)) => (Pending(s, r, F, q) <=> ~Shown(t, g, q))

(* The invariant of the walk. *)
WalkInv ==
    /\ tree \in Trees
    /\ \E F : StackOK(tree, stack, rsp, path, F) /\ Tally(tree, stack, rsp, given, F)
    /\ pc = "end" => rsp = 0 /\ stack[0].namelen = 0

\* Of two paths that look the same in the buffer there is only one.
LEMMA BufferTells ==
    ASSUME NEW t \in Trees, NEW p, NEW q, IsPath(t, p), IsPath(t, q), InBuffer(t, p) = InBuffer(t, q)
    PROVE  p = q
<1>1. /\ p \in Seq(Node) /\ Len(p) \in Nat /\ Len(p) >= 1 /\ p[1] = Root
      /\ q \in Seq(Node) /\ Len(q) \in Nat /\ Len(q) >= 1 /\ q[1] = Root
  BY DEF IsPath
<1>2. ASSUME NEW a, IsPath(t, a), NEW b, IsPath(t, b), Len(a) > 1, ~(Len(b) > 1), Tail(a) = b  PROVE FALSE
  <2>1. a \in Seq(Node) /\ Len(a) \in Nat /\ a[1] = Root /\ b \in Seq(Node) /\ b[1] = Root /\ Len(b) \in Nat /\ Len(b) >= 1
    BY <1>2 DEF IsPath
  <2>2. Tail(a)[1] = a[2] /\ 1 \in 1 .. Len(a) /\ 2 \in 1 .. Len(a)
    BY <1>2, <2>1
  <2>3. a[1] # a[2]
    BY <1>2, <2>2, PathDistinct
  <2> QED BY <1>2, <2>1, <2>2, <2>3
<1>3. CASE Len(p) > 1 /\ Len(q) > 1 /\ t.slash
  <2>1. Tail(p) = Tail(q)
    BY <1>3 DEF InBuffer
  <2>2. Len(Tail(p)) = Len(p) - 1 /\ Len(Tail(q)) = Len(q) - 1
    BY <1>1, <1>3
  <2>3. Len(p) = Len(q)
    BY <1>1, <2>1, <2>2
  <2>4. \A i \in 2 .. Len(p) : p[i] = Tail(p)[i - 1] /\ q[i] = Tail(q)[i - 1]
    BY <1>1, <1>3, <2>3
  <2>5. \A i \in 1 .. Len(p) : p[i] = q[i]
    <3> SUFFICES ASSUME NEW i \in 1 .. Len(p)  PROVE p[i] = q[i]
      OBVIOUS
    <3>1. i = 1 \/ i \in 2 .. Len(p)
      BY <1>1
    <3> QED BY <1>1, <2>1, <2>4, <3>1
  <2> QED BY <1>1, <2>3, <2>5
<1>4. CASE ~t.slash
  BY <1>4 DEF InBuffer
<1>5. CASE t.slash /\ Len(p) > 1 /\ ~(Len(q) > 1)
  <2>1. Tail(p) = q
    BY <1>5 DEF InBuffer
  <2> QED BY <1>2, <1>5, <2>1
<1>6. CASE t.slash /\ ~(Len(p) > 1) /\ Len(q) > 1
  <2>1. Tail(q) = p
    BY <1>6 DEF InBuffer
  <2> QED BY <1>2, <1>6, <2>1
<1>7. CASE t.slash /\ ~(Len(p) > 1) /\ ~(Len(q) > 1)
  BY <1>7 DEF InBuffer
<1> QED BY <1>3, <1>4, <1>5, <1>6, <1>7

\* The path in the buffer is of entries, and as long as Kept says; it ends in the last entry.
LEMMA BufferIs ==
    ASSUME NEW t \in Trees, NEW p, Names(p)
    PROVE  /\ InBuffer(t, p) \in Seq(Node) /\ Len(InBuffer(t, p)) = Kept(t, Len(p))
           /\ Len(p) \in Nat /\ Len(p) >= 1
           /\ InBuffer(t, p)[Len(InBuffer(t, p))] = p[Len(p)]
<1>1. p \in Seq(Node) /\ Len(p) \in Nat /\ Len(p) >= 1
  BY DEF Names
<1>2. CASE t.slash /\ Len(p) > 1
  <2> DEFINE b == Tail(p)
  <2>1. b \in Seq(Node) /\ Len(b) = Len(p) - 1 /\ b[Len(p) - 1] = p[Len(p)]
    BY <1>1, <1>2
  <2>2. InBuffer(t, p) = b /\ Kept(t, Len(p)) = Len(p) - 1
    BY <1>2 DEF InBuffer, Kept
  <2> HIDE DEF b
  <2> QED BY <1>1, <2>1, <2>2
<1>3. CASE ~(t.slash /\ Len(p) > 1)
  <2>1. InBuffer(t, p) = p /\ Kept(t, Len(p)) = Len(p)
    BY <1>3 DEF InBuffer, Kept
  <2> QED BY <1>1, <2>1
<1> QED BY <1>2, <1>3

\* Pushing an entry behind the first k entries of the path writes the path that goes on so.
LEMMA BufferOn ==
    ASSUME NEW t \in Trees, NEW p, Names(p), NEW k \in 1 .. Len(p), NEW x \in Node
    PROVE  InBuffer(t, Append(SubSeq(p, 1, k), x)) =
             IF k = 1 /\ t.slash THEN <<x>> ELSE Append(SubSeq(InBuffer(t, p), 1, Kept(t, k)), x)
<1> DEFINE n == Len(p)
           q == Append(SubSeq(p, 1, k), x)
           b == Tail(p)
<1>1. p \in Seq(Node) /\ n \in Nat /\ n >= 1 /\ k \in Nat /\ k >= 1
  BY DEF Names
<1>2. q \in Seq(Node) /\ Len(q) = k + 1 /\ q[k + 1] = x /\ \A i \in 1 .. k : q[i] = p[i]
  BY <1>1
<1>3. CASE ~t.slash
  <2>1. InBuffer(t, q) = q /\ InBuffer(t, p) = p /\ Kept(t, k) = k
    BY <1>3 DEF InBuffer, Kept
  <2> QED BY <1>3, <2>1
<1>4. CASE t.slash
  <2>1. InBuffer(t, q) = Tail(q)
    <3>1. Len(q) > 1
      BY <1>1, <1>2
    <3> HIDE DEF q
    <3> QED BY <1>4, <3>1 DEF InBuffer
  <2> HIDE DEF q
  <2>2. Tail(q) \in Seq(Node) /\ Len(Tail(q)) = k /\ \A i \in 1 .. k : Tail(q)[i] = q[i + 1]
    BY <1>1, <1>2
  <2>3. CASE k = 1
    <3> DEFINE e == Tail(q)
    <3>1. e \in Seq(Node) /\ Len(e) = 1 /\ e[1] = x
      <4>1. 1 \in 1 .. k /\ 1 + 1 = k + 1
        BY <2>3
      <4> HIDE DEF e
      <4>2. e[1] = q[1 + 1]
        BY <2>2, <4>1 DEF e
      <4> QED BY <1>2, <2>2, <2>3, <4>1, <4>2 DEF e
    <3> HIDE DEF e
    <3>2. e = <<x>>
      BY <3>1
    <3> QED BY <1>4, <2>1, <2>3, <3>2 DEF q, e
  <2>4. CASE k # 1
    <3>1. n > 1 /\ k > 1 /\ k - 1 \in 1 .. n - 1
      BY <1>1, <2>4
    <3>2. InBuffer(t, p) = b /\ Kept(t, k) = k - 1
      BY <1>4, <3>1 DEF InBuffer, Kept
    <3>3. b \in Seq(Node) /\ Len(b) = n - 1 /\ \A i \in 1 .. n - 1 : b[i] = p[i + 1]
      BY <1>1, <3>1
    <3> HIDE DEF b, n
    <3> DEFINE c == SubSeq(b, 1, k - 1)
    <3>4. c \in Seq(Node) /\ Len(c) = k - 1 /\ \A i \in 1 .. k - 1 : c[i] = b[i]
      BY <3>1, <3>3
    <3> HIDE DEF c
    <3> DEFINE d == Append(c, x)
    <3>5. d \in Seq(Node) /\ Len(d) = k /\ d[k] = x /\ \A i \in 1 .. k - 1 : d[i] = c[i]
      BY <1>1, <3>4
    <3> HIDE DEF d
    <3>6. \A i \in 1 .. k : Tail(q)[i] = d[i]
      <4> SUFFICES ASSUME NEW i \in 1 .. k  PROVE q[i + 1] = d[i]
        BY <2>2
      <4>1. CASE i = k
        BY <1>2, <3>5, <4>1
      <4>2. CASE i # k
        <5>1. i \in 1 .. k - 1 /\ i \in 1 .. n - 1 /\ i + 1 \in 1 .. k
          BY <1>1, <3>1, <4>2
        <5> QED BY <1>2, <3>3, <3>4, <3>5, <5>1
      <4> QED BY <4>1, <4>2
    <3>7. Tail(q) = d
      BY <2>2, <3>5, <3>6
    <3> QED BY <1>4, <2>1, <2>4, <3>2, <3>7 DEF q, d, c
  <2> QED BY <2>3, <2>4
<1> QED BY <1>3, <1>4

----------------------------------------------------------------------------
(* The characters of a path. *)

\* What Wide adds up.
LEMMA WideIs ==
    ASSUME NEW t \in Trees, NEW p \in Seq(Node)
    PROVE  /\ Wide(t, p, 0) = 0
           /\ \A k \in 1 .. Len(p) : Wide(t, p, k) = Wide(t, p, k - 1) + t.width[p[k]]
           /\ \A k \in 0 .. Len(p) : Wide(t, p, k) \in Nat
           /\ \A k \in 1 .. Len(p) : t.width[p[k]] \in Nat \ {0}
<1> DEFINE n == Len(p)
           w == [i \in 1 .. n |-> t.width[p[i]]]
           E == [i \in 1 .. n |-> [x \in Nat |-> x + w[i]]]
           C == CHOOSE g : WideRec(t, p, g)
<1>1. n \in Nat /\ \A i \in 1 .. n : p[i] \in Node
  OBVIOUS
<1>2. \A i \in 1 .. n : t.width[p[i]] \in Nat \ {0} /\ w[i] = t.width[p[i]]
  BY <1>1, TreeIs
<1>3. \A i \in 1 .. n : w[i] \in Nat
  BY <1>2
<1> HIDE DEF w, n
<1>4. E \in [1 .. n -> [Nat -> Nat]]
  BY <1>3
<1>5. \A i \in 1 .. n : \A x \in Nat : E[i][x] = x + w[i]
  OBVIOUS
<1> HIDE DEF E
<1>6. PICK g \in [0 .. n -> Nat] : Recurs(g, n, 0, E)
  BY <1>1, <1>4, RecursionDefines
<1>7. \A i \in 0 .. n : g[i] \in Nat /\ (i # 0 => i \in 1 .. n /\ g[i - 1] \in Nat)
  <2>1. \A i \in 0 .. n : i # 0 => i \in 1 .. n /\ i - 1 \in 0 .. n
    BY <1>1
  <2> QED BY <2>1
<1>8. \A i \in 0 .. n : g[i] = IF i = 0 THEN 0 ELSE g[i - 1] + t.width[p[i]]
  <2> SUFFICES ASSUME NEW i \in 0 .. n  PROVE g[i] = IF i = 0 THEN 0 ELSE g[i - 1] + t.width[p[i]]
    OBVIOUS
  <2>1. g[i] = IF i = 0 THEN 0 ELSE E[i][g[i - 1]]
    BY <1>6 DEF Recurs
  <2>2. i # 0 => E[i][g[i - 1]] = g[i - 1] + t.width[p[i]]
    BY <1>2, <1>5, <1>7
  <2> QED BY <2>1, <2>2
<1>9. g = [i \in 0 .. n |-> g[i]]
  OBVIOUS
<1>10. WideRec(t, p, g)
  BY <1>8, <1>9, Zenon DEF WideRec, n
<1>11. WideRec(t, p, C)
  BY <1>10, Zenon
<1>12. \A k : Wide(t, p, k) = C[k]
  BY Zenon DEF Wide, WideRec
<1> HIDE DEF C
<1>13. \A i \in 0 .. n : C[i] = IF i = 0 THEN 0 ELSE C[i - 1] + t.width[p[i]]
  BY <1>11 DEF WideRec, n
<1>14. 0 \in 0 .. n /\ \A k \in 1 .. n : k \in 0 .. n /\ k # 0
  BY <1>1
<1>15. C[0] = 0 /\ \A k \in 1 .. n : C[k] = C[k - 1] + t.width[p[k]]
  BY <1>13, <1>14
<1> DEFINE T == {k \in 0 .. n : C[k] \in Nat}
<1>16. 0 \in T
  BY <1>14, <1>15
<1>17. ASSUME NEW k \in 0 .. n - 1, k \in T  PROVE k + 1 \in T
  <2>1. k + 1 \in 1 .. n /\ (k + 1) - 1 = k /\ C[k] \in Nat
    BY <1>1, <1>17
  <2>2. C[k + 1] = C[k] + t.width[p[k + 1]] /\ t.width[p[k + 1]] \in Nat
    BY <1>2, <1>15, <2>1
  <2>3. C[k + 1] \in Nat
    BY <2>1, <2>2
  <2> QED BY <1>14, <2>1, <2>3
<1> HIDE DEF T
<1>18. \A k \in 0 .. n : k \in T
  BY <1>1, <1>16, <1>17, InductionUpTo
<1>19. \A k \in 0 .. n : C[k] \in Nat
  BY <1>18 DEF T
<1>20. \A k \in 1 .. n : t.width[p[k]] \in Nat \ {0}
  BY <1>2
<1> QED BY ONLY <1>12, <1>15, <1>19, <1>20 DEF n

\* Paths that begin alike are as wide there.
LEMMA WideAgree ==
    ASSUME NEW t \in Trees, NEW p \in Seq(Node), NEW q \in Seq(Node),
           NEW m \in Nat, m <= Len(p), m <= Len(q), \A i \in 1 .. m : p[i] = q[i]
    PROVE  \A k \in 0 .. m : Wide(t, p, k) = Wide(t, q, k)
<1> DEFINE T == {k \in 0 .. m : Wide(t, p, k) = Wide(t, q, k)}
<1>1. 0 \in T
  BY WideIs
<1>2. ASSUME NEW k \in 0 .. m - 1, k \in T  PROVE k + 1 \in T
  <2>1. k + 1 \in 1 .. m /\ k + 1 \in 1 .. Len(p) /\ k + 1 \in 1 .. Len(q) /\ (k + 1) - 1 = k
    BY LenProperties
  <2>2. Wide(t, p, k + 1) = Wide(t, p, k) + t.width[p[k + 1]]
    BY <2>1, WideIs
  <2>3. Wide(t, q, k + 1) = Wide(t, q, k) + t.width[q[k + 1]]
    BY <2>1, WideIs
  <2>4. k + 1 \in 0 .. m
    BY <2>1
  <2> QED BY <1>2, <2>1, <2>2, <2>3, <2>4
<1> HIDE DEF T
<1>3. \A k \in 0 .. m : k \in T
  BY <1>1, <1>2, InductionUpTo
<1> QED BY <1>3 DEF T

\* A path grows with every entry.
LEMMA WideGrows ==
    ASSUME NEW t \in Trees, NEW p \in Seq(Node), NEW i \in 0 .. Len(p), NEW j \in 0 .. Len(p), i < j
    PROVE  Wide(t, p, i) < Wide(t, p, j)
<1> DEFINE n == Len(p)
           T == {k \in 0 .. n : i < k => Wide(t, p, i) < Wide(t, p, k)}
<1>0. n \in Nat /\ i \in Nat
  OBVIOUS
<1>1. 0 \in T
  BY <1>0
<1>2. ASSUME NEW k \in 0 .. n - 1, k \in T  PROVE k + 1 \in T
  <2>1. k + 1 \in 1 .. n /\ (k + 1) - 1 = k /\ k \in 0 .. n /\ k + 1 \in 0 .. n
    BY <1>0
  <2>2. Wide(t, p, k + 1) = Wide(t, p, k) + t.width[p[k + 1]] /\ t.width[p[k + 1]] \in Nat \ {0}
    BY <2>1, WideIs
  <2>3. Wide(t, p, k) \in Nat /\ Wide(t, p, i) \in Nat
    BY <2>1, WideIs
  <2>4. Wide(t, p, k) < Wide(t, p, k + 1)
    <3>1. \A a, c \in Nat : c # 0 => a < a + c
      OBVIOUS
    <3> QED BY <2>2, <2>3, <3>1
  <2>5. Wide(t, p, k + 1) \in Nat
    BY <2>1, WideIs
  <2>6. i < k + 1 => i = k \/ i < k
    BY <1>0
  <2>7. CASE i < k
    <3>1. Wide(t, p, i) < Wide(t, p, k)
      BY <1>2, <2>7
    <3>2. \A a, b, c \in Nat : a < b /\ b < c => a < c
      OBVIOUS
    <3>3. Wide(t, p, i) < Wide(t, p, k + 1)
      BY <2>3, <2>4, <2>5, <3>1, <3>2
    <3> QED BY <2>1, <3>3
  <2> QED BY <2>1, <2>4, <2>6, <2>7
<1> HIDE DEF T
<1>3. \A k \in 0 .. n : k \in T
  BY <1>0, <1>1, <1>2, InductionUpTo
<1> QED BY <1>3 DEF T

\* Without its first entry a path is as much shorter as that is wide.
LEMMA WideTail ==
    ASSUME NEW t \in Trees, NEW p \in Seq(Node), Len(p) >= 1
    PROVE  /\ Tail(p) \in Seq(Node) /\ Len(Tail(p)) = Len(p) - 1
           /\ \A k \in 0 .. Len(p) - 1 : Wide(t, p, k + 1) = Wide(t, Tail(p), k) + t.width[p[1]]
<1> DEFINE b == Tail(p)
           n == Len(p) - 1
           T == {k \in 0 .. n : Wide(t, p, k + 1) = Wide(t, b, k) + t.width[p[1]]}
<1>1. b \in Seq(Node) /\ Len(b) = n /\ n \in Nat /\ \A i \in 1 .. n : b[i] = p[i + 1]
  OBVIOUS
<1>0. Len(p) \in Nat /\ n + 1 = Len(p)
  OBVIOUS
<1> HIDE DEF b, n
<1>2. 0 \in T
  <2>1. 1 \in 1 .. Len(p) /\ 1 - 1 = 0 /\ 0 + 1 = 1 /\ 0 \in 0 .. n
    BY <1>0, <1>1
  <2>2. Wide(t, p, 1) = Wide(t, p, 0) + t.width[p[1]] /\ Wide(t, p, 0) = 0 /\ Wide(t, b, 0) = 0
    BY <1>1, <2>1, WideIs
  <2> QED BY <2>1, <2>2
<1>3. ASSUME NEW k \in 0 .. n - 1, k \in T  PROVE k + 1 \in T
  <2>1. /\ k + 1 \in 1 .. n /\ (k + 1) - 1 = k /\ k + 1 \in 0 .. n
        /\ (k + 1) + 1 \in 1 .. Len(p) /\ ((k + 1) + 1) - 1 = k + 1 /\ k \in 0 .. n
    BY <1>0, <1>1
  <2>2. Wide(t, b, k + 1) = Wide(t, b, k) + t.width[b[k + 1]]
    BY <1>1, <2>1, WideIs
  <2>3. Wide(t, p, (k + 1) + 1) = Wide(t, p, k + 1) + t.width[p[(k + 1) + 1]]
    BY <2>1, WideIs
  <2>4. b[k + 1] = p[(k + 1) + 1]
    BY <1>1, <2>1
  <2>5. Wide(t, b, k) \in Nat /\ t.width[b[k + 1]] \in Nat /\ t.width[p[1]] \in Nat
    <3>1. 1 \in 1 .. Len(p)
      BY <1>0, <1>1
    <3> QED BY <1>1, <2>1, <3>1, WideIs
  <2>6. Wide(t, p, k + 1) = Wide(t, b, k) + t.width[p[1]]
    BY <1>3
  <2>7. \A x, y, z \in Nat : (x + y) + z = (x + z) + y
    OBVIOUS
  <2>8. Wide(t, p, (k + 1) + 1) = (Wide(t, b, k) + t.width[p[1]]) + t.width[b[k + 1]]
    BY ONLY <2>3, <2>4, <2>6
  <2>9. Wide(t, p, (k + 1) + 1) = Wide(t, b, k + 1) + t.width[p[1]]
    BY ONLY <2>2, <2>5, <2>7, <2>8
  <2> QED BY <2>1, <2>9
<1> HIDE DEF T
<1>4. \A k \in 0 .. n : k \in T
  BY <1>1, <1>2, <1>3, InductionUpTo
<1> QED BY <1>1, <1>4 DEF T, b, n

\* What the names of a path measure, and where they end in the buffer.
LEMMA NameIs ==
    ASSUME NEW t \in Trees, NEW p, Names(p)
    PROVE  /\ \A k \in 1 .. Len(p) : Name(t, p, k) \in Nat \ {0}
           /\ \A k \in 1 .. Len(p) - 1 :
                Name(t, p, k + 1) = (IF k = 1 /\ t.slash THEN 0 ELSE Name(t, p, k)) + t.width[p[k + 1]]
           /\ Name(t, p, 1) = t.width[Root]
<1>1. p \in Seq(Node) /\ Len(p) \in Nat /\ Len(p) >= 1 /\ p[1] = Root
  BY DEF Names
<1>2. 1 \in 1 .. Len(p) /\ 1 - 1 = 0
  BY <1>1
<1>3. Wide(t, p, 1) = t.width[Root] /\ t.width[Root] \in Nat \ {0}
  BY <1>1, <1>2, WideIs
<1>4. ASSUME NEW k \in 1 .. Len(p)  PROVE Name(t, p, k) \in Nat \ {0}
  <2>1. k \in Nat /\ k \in 0 .. Len(p) /\ 1 \in 0 .. Len(p) /\ 0 \in 0 .. Len(p)
    BY <1>1
  <2>2. Wide(t, p, k) \in Nat /\ Wide(t, p, 0) = 0
    BY <1>1, <2>1, WideIs
  <2>3. 0 < Wide(t, p, k)
    BY <1>1, <2>1, <2>2, WideGrows
  <2>4. CASE t.slash /\ k > 1
    <3>1. Wide(t, p, 1) < Wide(t, p, k) /\ Wide(t, p, 1) = 1
      BY <1>1, <1>3, <2>1, <2>4, TreeIs, WideGrows
    <3>2. \A x \in Nat : 1 < x => x - 1 \in Nat \ {0}
      OBVIOUS
    <3> QED BY <2>2, <2>4, <3>1, <3>2 DEF Name
  <2>5. CASE ~(t.slash /\ k > 1)
    BY <2>2, <2>3, <2>5 DEF Name
  <2> QED BY <2>4, <2>5
<1>5. ASSUME NEW k \in 1 .. Len(p) - 1
      PROVE  Name(t, p, k + 1) = (IF k = 1 /\ t.slash THEN 0 ELSE Name(t, p, k)) + t.width[p[k + 1]]
  <2>1. k + 1 \in 1 .. Len(p) /\ (k + 1) - 1 = k /\ k + 1 > 1 /\ k \in 1 .. Len(p) /\ k \in 0 .. Len(p) /\ (k # 1 => k > 1)
    BY <1>1
  <2>2. Wide(t, p, k + 1) = Wide(t, p, k) + t.width[p[k + 1]] /\ t.width[p[k + 1]] \in Nat /\ Wide(t, p, k) \in Nat
    BY <1>1, <2>1, WideIs
  <2>3. CASE ~t.slash
    BY <2>2, <2>3 DEF Name
  <2>4. CASE t.slash /\ k = 1
    <3>1. Wide(t, p, k) = 1
      BY <1>3, <2>4, TreeIs
    <3>2. Name(t, p, k + 1) = Wide(t, p, k + 1) - 1
      BY <2>1, <2>4 DEF Name
    <3>3. \A x, y \in Nat : (1 + x) - 1 = 0 + x
      OBVIOUS
    <3> QED BY <2>2, <2>4, <3>1, <3>2, <3>3
  <2>5. CASE t.slash /\ k # 1
    <3>1. Name(t, p, k + 1) = Wide(t, p, k + 1) - 1 /\ Name(t, p, k) = Wide(t, p, k) - 1
      BY <2>1, <2>5 DEF Name
    <3>2. \A x, y \in Nat : (x + y) - 1 = (x - 1) + y
      OBVIOUS
    <3> QED BY <2>2, <2>5, <3>1, <3>2
  <2> QED BY <2>3, <2>4, <2>5
<1>6. Name(t, p, 1) = t.width[Root]
  BY <1>3 DEF Name
<1> QED BY <1>4, <1>5, <1>6

\* A longer part of a path takes no less.
LEMMA NameGrows ==
    ASSUME NEW t \in Trees, NEW p, Names(p), NEW k \in 1 .. Len(p), NEW m \in 1 .. Len(p), k <= m,
           Held(t, p, m), Buffer \in Nat
    PROVE  Held(t, p, k)
<1>1. p \in Seq(Node) /\ Len(p) \in Nat /\ p[1] = Root /\ k \in 0 .. Len(p) /\ m \in 0 .. Len(p) /\ 1 \in 0 .. Len(p)
  BY DEF Names
<1>2. Wide(t, p, k) \in Nat /\ Wide(t, p, m) \in Nat /\ (k # m => Wide(t, p, k) < Wide(t, p, m))
  <2>1. k # m => k < m
    OBVIOUS
  <2> QED BY <1>1, <2>1, WideIs, WideGrows
<1>3. CASE k = m
  BY <1>3
<1>4. CASE k # m /\ t.slash
  <2>1. m > 1 /\ Name(t, p, m) = Wide(t, p, m) - 1
    BY <1>1, <1>4 DEF Name
  <2>2. Name(t, p, k) = Wide(t, p, k) - 1 \/ Name(t, p, k) = Wide(t, p, k)
    BY DEF Name
  <2>3. \A x, y \in Nat : x < y => x - 1 <= y - 1 /\ x <= y - 1
    OBVIOUS
  <2>4. \A x, y \in Nat : y - 1 < Buffer /\ x < y => x - 1 < Buffer /\ x < Buffer
    OBVIOUS
  <2> QED BY <1>2, <1>4, <2>1, <2>2, <2>4 DEF Held
<1>5. CASE k # m /\ ~t.slash
  <2>1. Name(t, p, k) = Wide(t, p, k) /\ Name(t, p, m) = Wide(t, p, m)
    BY <1>5 DEF Name
  <2>2. \A x, y \in Nat : x < y /\ y < Buffer => x < Buffer
    OBVIOUS
  <2> QED BY <1>2, <1>5, <2>1, <2>2 DEF Held
<1> QED BY <1>3, <1>4, <1>5

\* Names that begin alike measure the same there.
LEMMA NameAgree ==
    ASSUME NEW t \in Trees, NEW p, NEW q, p \in Seq(Node), q \in Seq(Node),
           NEW m \in Nat, m <= Len(p), m <= Len(q), \A i \in 1 .. m : p[i] = q[i]
    PROVE  \A k \in 1 .. m : Name(t, p, k) = Name(t, q, k)
<1>1. \A k \in 1 .. m : Wide(t, p, k) = Wide(t, q, k)
  <2>1. \A k \in 1 .. m : k \in 0 .. m
    OBVIOUS
  <2> QED BY <2>1, WideAgree
<1> QED BY <1>1 DEF Name

\* The buffer is as long as the last name, and each name but that of "/" ends in it.
LEMMA BufferWide ==
    ASSUME NEW t \in Trees, NEW p, Names(p)
    PROVE  /\ Wide(t, InBuffer(t, p), Len(InBuffer(t, p))) = Name(t, p, Len(p))
           /\ \A k \in 1 .. Len(p) :
                ~(k = 1 /\ t.slash) => /\ Kept(t, k) \in 0 .. Len(InBuffer(t, p))
                                       /\ Wide(t, InBuffer(t, p), Kept(t, k)) = Name(t, p, k)
<1>1. p \in Seq(Node) /\ Len(p) \in Nat /\ Len(p) >= 1 /\ p[1] = Root
  BY DEF Names
<1>2. CASE t.slash /\ Len(p) > 1
  <2>1. InBuffer(t, p) = Tail(p)
    BY <1>2 DEF InBuffer
  <2>2. t.width[Root] = 1
    BY <1>2, TreeIs
  <2>3. /\ Tail(p) \in Seq(Node) /\ Len(Tail(p)) = Len(p) - 1
        /\ \A k \in 0 .. Len(p) - 1 : Wide(t, p, k + 1) = Wide(t, Tail(p), k) + 1
    BY <1>1, <2>2, WideTail
  <2>4. ASSUME NEW k \in 2 .. Len(p)
        PROVE  /\ Kept(t, k) = k - 1 /\ k - 1 \in 0 .. Len(p) - 1
               /\ Wide(t, Tail(p), k - 1) = Name(t, p, k)
    <3>1. k - 1 \in 0 .. Len(p) - 1 /\ (k - 1) + 1 = k /\ k > 1
      BY <1>1
    <3>2. Wide(t, p, (k - 1) + 1) = Wide(t, Tail(p), k - 1) + 1
      BY <2>3, <3>1
    <3>3. Wide(t, Tail(p), k - 1) \in Nat
      BY <2>3, <3>1, WideIs
    <3>4. Name(t, p, k) = Wide(t, p, k) - 1
      BY <1>2, <3>1 DEF Name
    <3>5. Wide(t, p, k) = Wide(t, Tail(p), k - 1) + 1
      BY ONLY <3>1, <3>2
    <3>6. \A x \in Nat : (x + 1) - 1 = x
      OBVIOUS
    <3>7. Wide(t, Tail(p), k - 1) = Name(t, p, k)
      BY ONLY <3>3, <3>4, <3>5, <3>6
    <3> QED BY <1>2, <3>1, <3>7 DEF Kept
  <2>5. Len(p) \in 2 .. Len(p) /\ \A k \in 1 .. Len(p) : k = 1 \/ k \in 2 .. Len(p)
    BY <1>1, <1>2
  <2> QED BY <1>2, <2>1, <2>3, <2>4, <2>5
<1>3. CASE t.slash /\ ~(Len(p) > 1)
  <2>1. InBuffer(t, p) = p
    BY <1>3 DEF InBuffer
  <2>2. \A m \in Nat : m >= 1 /\ ~(m > 1) => m = 1
    OBVIOUS
  <2>3. Len(p) = 1
    BY <1>1, <1>3, <2>2
  <2>4. Name(t, p, Len(p)) = Wide(t, p, Len(p))
    BY <2>3 DEF Name
  <2>5. \A k \in 1 .. Len(p) : k = 1
    BY <2>3
  <2> QED BY <1>3, <2>1, <2>4, <2>5
<1>4. CASE ~t.slash
  <2>1. /\ InBuffer(t, p) = p /\ Name(t, p, Len(p)) = Wide(t, p, Len(p))
        /\ \A k : Kept(t, k) = k /\ Name(t, p, k) = Wide(t, p, k)
    BY <1>4 DEF InBuffer, Name, Kept
  <2> QED BY <1>1, <1>4, <2>1
<1> QED BY <1>2, <1>3, <1>4

\* Names of the tree that the buffer holds are a path of it.
LEMMA HeldIsPath ==
    ASSUME NEW t \in Trees, NEW F, OnTree(t, F), NEW k \in 1 .. Len(F), Held(t, F, k)
    PROVE  \A i \in 1 .. k - 1 : t.kind[F[i]] = "dir" /\ F[i + 1] \in Entries(t, F[i])
<1>1. Names(F) /\ Len(F) \in Nat
  BY DEF OnTree, Names
<1> SUFFICES ASSUME NEW i \in 1 .. k - 1  PROVE t.kind[F[i]] = "dir" /\ F[i + 1] \in Entries(t, F[i])
  OBVIOUS
<1>2. i + 1 \in 1 .. Len(F) /\ i + 1 <= k /\ i \in 1 .. Len(F) - 1
  BY <1>1
<1>3. Held(t, F, i + 1)
  BY <1>1, <1>2, NameGrows, LevelsOK
<1> QED BY <1>2, <1>3 DEF OnTree

\* A path is of names, and of the tree.
LEMMA PathNames ==
    ASSUME NEW t \in Trees, NEW q, IsPath(t, q)
    PROVE  Names(q) /\ q \in Seq(Node) /\ Len(q) \in Nat /\ Len(q) >= 1
BY DEF IsPath, Names

----------------------------------------------------------------------------
(* The steps. *)

\* What StackOK says of the stack.
LEMMA StackTypes ==
    ASSUME NEW t \in Trees, NEW s, NEW r, NEW p, NEW F, StackOK(t, s, r, p, F)
    PROVE  /\ r \in Nat /\ r + 1 \in 1 .. Len(F) /\ Len(F) \in Nat /\ F \in Seq(Node)
           /\ \A l \in 0 .. r : /\ l \in 0 .. Levels - 1 /\ s[l] \in Frames /\ l + 1 \in 1 .. Len(F)
                                /\ F[l + 1] \in Node /\ t.list[F[l + 1]] \in Seq(Node)
<1>1. s \in [0 .. Levels - 1 -> Frames] /\ r \in 0 .. Levels - 1 /\ Len(F) >= r + 1 /\ Levels \in Nat
  BY LevelsOK DEF StackOK
<1>2. F \in Seq(Node) /\ Len(F) \in Nat
  BY DEF StackOK, OnTree, Names
<1>3. r \in Nat /\ r + 1 \in 1 .. Len(F)
  BY <1>1, <1>2
<1>4. \A l \in 0 .. r : l \in 0 .. Levels - 1 /\ l + 1 \in 1 .. Len(F)
  BY <1>1, <1>2, <1>3
<1>5. \A i \in 1 .. Len(F) : F[i] \in Node
  BY <1>2
<1>6. \A n \in Node : t.list[n] \in Seq(Node)
  BY TreeIs
<1>7. \A l \in 0 .. r : s[l] \in Frames
  BY <1>1, <1>4
<1> QED BY <1>2, <1>3, <1>4, <1>5, <1>6, <1>7

\* When nothing new is given, the tally stays as long as the same is still to come.
LEMMA TallyStays ==
    ASSUME NEW t, NEW s, NEW r, NEW g, NEW F, Tally(t, s, r, g, F), NEW s2, NEW r2, NEW G,
           \A q : IsPath(t, q) => (Pending(s2, r2, G, q) <=> Pending(s, r, F, q))
    PROVE  Tally(t, s2, r2, g, G)
BY Zenon DEF Tally

\* The walk begins with the root, and all of the tree still to come.
LEMMA WalkStart == traverse_start => WalkInv
<1> SUFFICES ASSUME traverse_start  PROVE WalkInv
  OBVIOUS
<1> DEFINE F == <<Root>>
           w == tree.width[Root]
<1>1. /\ tree \in Trees /\ rsp = 0 /\ path = F /\ given = << >> /\ pc = "read"
      /\ stack = [l \in 0 .. Levels - 1 |-> [namelen |-> IF l = 0 THEN w ELSE 0, folder |-> NoFolder]]
  BY DEF traverse_start
<1>2. w \in Nat \ {0}
  BY <1>1, RootOK, TreeIs
<1> HIDE DEF w
<1>3. 0 \in 0 .. Levels - 1 /\ stack[0].namelen = w /\ stack[0].folder = NoFolder
  BY <1>1, LevelsOK
<1>4. stack \in [0 .. Levels - 1 -> Frames]
  BY <1>1, <1>2 DEF Frames
<1>5. IsPath(tree, F) /\ Len(F) = 1 /\ F[1] = Root /\ F \in Seq(Node)
  BY RootPath, RootOK
<1> HIDE DEF F
<1>6. InBuffer(tree, F) = F /\ Names(F)
  BY <1>5 DEF InBuffer, Names
<1>7. OnTree(tree, F)
  BY <1>5, <1>6 DEF OnTree
<1>8. Level(tree, stack, 0, F)
  <2>1. Name(tree, F, 1) = w
    BY <1>1, <1>6, NameIs DEF w
  <2> QED BY <1>3, <2>1 DEF Level, IsOpen
<1>9. StackOK(tree, stack, rsp, path, F)
  BY <1>1, <1>3, <1>4, <1>5, <1>6, <1>7, <1>8 DEF StackOK
<1>10. \A q : IsPath(tree, q) => Pending(stack, rsp, F, q)
  BY <1>1, <1>2, <1>3, <1>5 DEF Pending, Fresh, Agree, IsPath
<1>11. Tally(tree, stack, rsp, given, F)
  <2>1. given \in Seq(Given) /\ DOMAIN given = {}
    BY <1>1
  <2> QED BY <1>10, <2>1 DEF Tally, Shown
<1> QED BY <1>1, <1>9, <1>11 DEF WalkInv

\* An entry whose name is used up.
LEMMA BackStep == WalkInv /\ go_back => WalkInv'
<1> SUFFICES ASSUME WalkInv, go_back  PROVE WalkInv'
  OBVIOUS
<1>1. PICK F : StackOK(tree, stack, rsp, path, F) /\ Tally(tree, stack, rsp, given, F)
  BY DEF WalkInv
<1>2. tree \in Trees /\ stack[rsp].namelen = 0 /\ tree' = tree /\ stack' = stack /\ path' = path /\ given' = given
  BY DEF WalkInv, go_back, Top
<1>3. CASE rsp = 0
  <2>1. pc' = "end" /\ rsp' = rsp
    BY <1>3 DEF go_back
  <2> QED BY <1>1, <1>2, <1>3, <2>1 DEF WalkInv
<1>4. CASE rsp # 0
  <2> DEFINE r == rsp
             u == rsp - 1
  <2>1. rsp' = u /\ pc' = pc /\ pc = "read"
    BY <1>4 DEF go_back
  <2>2. r \in Nat /\ u \in 0 .. r - 1 /\ u \in 0 .. Levels - 1 /\ u + 1 = r /\ u \in Nat /\ r \in 0 .. Levels - 1
    BY <1>1, <1>2, <1>4, StackTypes, LevelsOK DEF StackOK
  <2> HIDE DEF u
  <2>3. IsOpen(stack, u) /\ ~Fresh(stack, u) /\ ~IsOpen(stack, r) /\ ~Fresh(stack, r)
    BY <1>1, <1>2, <2>2 DEF StackOK, Below, IsOpen, Fresh
  <2>4. StackOK(tree, stack, u, path, F)
    <3>1. /\ stack \in [0 .. Levels - 1 -> Frames] /\ OnTree(tree, F) /\ path = InBuffer(tree, F)
          /\ Len(F) >= r + 1 /\ Len(F) \in Nat
          /\ \A l \in 0 .. r : Level(tree, stack, l, F)
          /\ \A l \in 0 .. r - 1 : Below(tree, stack, l, F)
      BY <1>1, <1>2, StackTypes DEF StackOK
    <3>2. Len(F) >= u + 1 /\ (\A l \in 0 .. u : l \in 0 .. r) /\ (\A l \in 0 .. u - 1 : l \in 0 .. r - 1)
      BY <2>2, <3>1
    <3> HIDE DEF r
    <3> QED BY <2>2, <2>3, <3>1, <3>2 DEF StackOK
  <2>5. \A q : Pending(stack, u, F, q) <=> Pending(stack, r, F, q)
    <3>1. \A q : ~Ahead(stack, r, F, q)
      BY <2>3 DEF Ahead
    <3>2. \A l \in 0 .. r : l = r \/ l \in 0 .. u
      BY <2>2
    <3>3. \A l \in 0 .. u : l \in 0 .. r
      BY <2>2
    <3> HIDE DEF r
    <3> QED BY <2>3, <3>1, <3>2, <3>3 DEF Pending
  <2>6. Tally(tree, stack, u, given, F)
    BY <1>1, <2>5, TallyStays
  <2> QED BY <1>2, <2>1, <2>4, <2>6 DEF WalkInv
<1> QED BY <1>3, <1>4

\* readdir has nothing more.
LEMMA CloseStep == WalkInv /\ close_folder => WalkInv'
<1> SUFFICES ASSUME WalkInv, close_folder  PROVE WalkInv'
  OBVIOUS
<1>1. PICK F : StackOK(tree, stack, rsp, path, F) /\ Tally(tree, stack, rsp, given, F)
  BY DEF WalkInv
<1> DEFINE r == rsp
           u == IF r > 0 THEN r - 1 ELSE 0
           s2 == [stack EXCEPT ![r].namelen = 0]
<1>2. /\ tree \in Trees /\ pc = "read" /\ stack[r].namelen # 0 /\ stack[r].folder = << >>
      /\ tree' = tree /\ stack' = s2 /\ rsp' = u /\ path' = path /\ given' = given /\ pc' = pc
  BY DEF WalkInv, close_folder, Top
<1>3. /\ stack \in [0 .. Levels - 1 -> Frames] /\ OnTree(tree, F) /\ path = InBuffer(tree, F)
      /\ Len(F) >= r + 1 /\ Len(F) \in Nat /\ r \in Nat /\ r \in 0 .. Levels - 1
      /\ \A l \in 0 .. r : Level(tree, stack, l, F)
      /\ \A l \in 0 .. r - 1 : Below(tree, stack, l, F)
  BY <1>1, <1>2, StackTypes DEF StackOK
<1>4. /\ u \in Nat /\ u \in 0 .. Levels - 1 /\ Len(F) >= u + 1
      /\ \A l \in 0 .. u : l \in 0 .. r
      /\ \A l \in 0 .. u - 1 : l \in 0 .. r - 1
      /\ \A l \in 0 .. r : l = r \/ (l \in 0 .. u /\ l \in 0 .. r - 1 /\ l \in 0 .. Levels - 1)
  BY <1>3, LevelsOK
<1>5. /\ s2 \in [0 .. Levels - 1 -> Frames]
      /\ s2[r].namelen = 0
      /\ \A l \in 0 .. Levels - 1 : l # r => s2[l] = stack[l]
  <2>1. [stack[r] EXCEPT !.namelen = 0] \in Frames
    BY <1>3 DEF Frames
  <2> QED BY <1>3, <2>1
<1> HIDE DEF r, u, s2
<1>6. /\ ~IsOpen(s2, r) /\ ~Fresh(s2, r) /\ ~Fresh(stack, r) /\ LeftOf(stack, r) = {}
  <2>1. stack[r].folder # NoFolder
    <3>1. << >> \in Seq(Node)
      OBVIOUS
    <3> QED BY <1>2, <3>1, RootOK
  <2> QED BY <1>2, <1>5, <2>1 DEF IsOpen, Fresh, LeftOf
<1>7. \A l \in 0 .. r : l # r => /\ IsOpen(s2, l) <=> IsOpen(stack, l)
                                 /\ LeftOf(s2, l) = LeftOf(stack, l)
                                 /\ Level(tree, s2, l, F)
  <2> SUFFICES ASSUME NEW l \in 0 .. r, l # r
               PROVE  /\ IsOpen(s2, l) <=> IsOpen(stack, l)
                      /\ LeftOf(s2, l) = LeftOf(stack, l)
                      /\ Level(tree, s2, l, F)
    OBVIOUS
  <2>1. s2[l] = stack[l]
    BY <1>4, <1>5
  <2>2. Level(tree, stack, l, F)
    BY <1>3
  <2>3. (IsOpen(s2, l) <=> IsOpen(stack, l)) /\ LeftOf(s2, l) = LeftOf(stack, l)
    BY ONLY <2>1 DEF IsOpen, LeftOf
  <2>4. Level(tree, s2, l, F)
    BY ONLY <2>1, <2>2, <2>3 DEF Level
  <2> QED BY <2>3, <2>4
<1>8. Level(tree, s2, r, F)
  BY <1>5, <1>6 DEF Level
<1>9. ~Fresh(s2, u)
  <2>1. u = r \/ (u \in 0 .. r - 1 /\ u \in 0 .. r /\ u # r)
    BY <1>3, <1>4 DEF u
  <2> QED BY <1>3, <1>4, <1>5, <1>6, <2>1 DEF Below, IsOpen, Fresh
<1>10. StackOK(tree, s2, u, path, F)
  <2>1. \A l \in 0 .. u : Level(tree, s2, l, F)
    BY <1>4, <1>7, <1>8
  <2>2. \A l \in 0 .. u - 1 : l \in 0 .. r - 1 /\ l \in 0 .. r /\ l # r
    <3>1. \A l \in 0 .. r - 1 : l \in 0 .. r /\ l # r
      <4>1. r \in Nat
        BY <1>3
      <4> QED BY ONLY <4>1
    <3>2. \A l \in 0 .. u - 1 : l \in 0 .. r - 1
      BY <1>4
    <3> QED BY ONLY <3>1, <3>2
  <2>3. \A l \in 0 .. u - 1 : Below(tree, s2, l, F)
    BY <1>3, <1>7, <2>2 DEF Below
  <2> QED BY <1>3, <1>4, <1>5, <1>9, <2>1, <2>3 DEF StackOK
<1>11. \A q : Pending(s2, u, F, q) <=> Pending(stack, r, F, q)
  <2>1. \A q : ~Ahead(stack, r, F, q) /\ ~Ahead(s2, r, F, q)
    BY <1>6 DEF Ahead
  <2>2. \A q : \A l \in 0 .. r : l # r => (Ahead(s2, l, F, q) <=> Ahead(stack, l, F, q))
    BY <1>7 DEF Ahead
  <2>3. r \in 0 .. r
    BY <1>3
  <2> QED BY <1>4, <1>6, <1>9, <2>1, <2>2, <2>3 DEF Pending
<1>12. Tally(tree, s2, u, given, F)
  BY <1>1, <1>11, TallyStays DEF r
<1> QED BY <1>2, <1>10, <1>12 DEF WalkInv

----------------------------------------------------------------------------

\* What a step does to one level of the stack leaves the others as they were.
LEMMA OtherLevels ==
    ASSUME NEW s, NEW s2, NEW l, s2[l] = s[l], NEW t, NEW F, NEW G, NEW q
    PROVE  /\ IsOpen(s2, l) <=> IsOpen(s, l)
           /\ LeftOf(s2, l) = LeftOf(s, l)
           /\ Name(t, G, l + 1) = Name(t, F, l + 1) =>
                /\ Level(t, s, l, F) /\ G[l + 1] = F[l + 1] => Level(t, s2, l, G)
                /\ Below(t, s, l, F) /\ G[l + 2] = F[l + 2] => Below(t, s2, l, G)
           /\ (Ahead(s2, l, F, q) <=> Ahead(s, l, F, q))
<1>1. (IsOpen(s2, l) <=> IsOpen(s, l)) /\ LeftOf(s2, l) = LeftOf(s, l)
  BY DEF IsOpen, LeftOf
<1>2. Name(t, G, l + 1) = Name(t, F, l + 1) /\ Level(t, s, l, F) /\ G[l + 1] = F[l + 1] => Level(t, s2, l, G)
  BY <1>1 DEF Level, Held
<1>3. Name(t, G, l + 1) = Name(t, F, l + 1) /\ Below(t, s, l, F) /\ G[l + 2] = F[l + 2] => Below(t, s2, l, G)
  BY <1>1 DEF Below, Held
<1>4. Ahead(s2, l, F, q) <=> Ahead(s, l, F, q)
  BY <1>1 DEF Ahead
<1> QED BY <1>1, <1>2, <1>3, <1>4

\* A name is tried as a folder, and given either way.
LEMMA OpenStep == WalkInv /\ open_name => WalkInv'
<1> SUFFICES ASSUME WalkInv, open_name  PROVE WalkInv'
  OBVIOUS
<1>1. PICK F : StackOK(tree, stack, rsp, path, F) /\ Tally(tree, stack, rsp, given, F)
  BY DEF WalkInv
<1> DEFINE r == rsp
           t == tree
           s == stack
           s2 == stack'
           node == F[r + 1]
           g2 == given'
<1>2. t \in Trees /\ t' = t /\ rsp' = r /\ path' = path /\ pc' = pc /\ pc = "read" /\ Fresh(s, r)
  BY DEF WalkInv, open_name, Top, Fresh
<1>3. /\ s \in [0 .. Levels - 1 -> Frames] /\ OnTree(t, F) /\ path = InBuffer(t, F)
      /\ Len(F) = r + 1 /\ r \in Nat /\ r \in 0 .. Levels - 1 /\ Names(F) /\ F \in Seq(Node)
      /\ \A l \in 0 .. r : Level(t, s, l, F)
      /\ \A l \in 0 .. r - 1 : Below(t, s, l, F)
  BY <1>1, <1>2, StackTypes DEF StackOK, OnTree
<1>4. path \in Seq(Node) /\ path[Len(path)] = node
  BY <1>2, <1>3, BufferIs
<1>5. AllHeld(t, path) <=> Held(t, F, r + 1)
  <2>1. Wide(t, InBuffer(t, F), Len(InBuffer(t, F))) = Name(t, F, Len(F))
    BY <1>2, <1>3, BufferWide
  <2> QED BY <1>3, <2>1 DEF AllHeld, Held
\* What opendir gives for a path the buffer holds is what the entry is.
<1>6. PICK folder \in opendir :
        /\ folder # NoFolder => s2 = [s EXCEPT ![r].folder = folder]
        /\ folder = NoFolder => s2 = [s EXCEPT ![r].namelen = 0]
        /\ \E y \in {"dir", "file"} : g2 = Append(given, [path |-> path, offs |-> Offs, type |-> y])
  <2>1. PICK folder \in opendir :
           IF folder # NoFolder
           THEN /\ s2 = [s EXCEPT ![r].folder = folder]
                /\ g2 = Append(given, [path |-> path, offs |-> Offs, type |-> "dir"])
           ELSE /\ s2 = [s EXCEPT ![r].namelen = 0]
                /\ g2 = Append(given, [path |-> path, offs |-> Offs, type |-> "file"])
    BY DEF open_name
  <2> HIDE DEF s, s2, g2, r
  <2>2. \E y \in {"dir", "file"} : g2 = Append(given, [path |-> path, offs |-> Offs, type |-> y])
    BY <2>1
  <2> QED BY <2>1, <2>2
<1>7. node \in Node /\ t.list[node] \in Seq(Node) /\ Folders(t) /\ r \in 0 .. r
  <2>1. r \in 0 .. r
    BY <1>3
  <2> QED BY <1>1, <1>2, <2>1, StackTypes, TreeIs
<1>8. /\ folder \in Seq(Node) \cup {NoFolder}
      /\ Held(t, F, r + 1) => folder = IF t.kind[node] = "dir" THEN t.list[node] ELSE NoFolder
  <2>1. \A n \in Node : t.list[n] \in Seq(Node)
    BY <1>2, TreeIs
  <2>2. Fitting(path) <=> AllHeld(t, path)
    BY DEF Fitting, Chars, CharsTo, AllHeld, Wide
  <2>3. \A n \in Node : FolderOf(n) \in Seq(Node) \cup {NoFolder}
    BY <2>1 DEF FolderOf
  <2>4. Fitting(path) => folder = FolderOf(node)
    BY <1>4, <1>6 DEF opendir
  <2>5. ~Fitting(path) => folder \in Seq(Node) \cup {NoFolder}
    BY <1>6, <2>3 DEF opendir
  <2> HIDE DEF node, t
  <2> QED BY <1>5, <1>7, <2>2, <2>3, <2>4, <2>5 DEF FolderOf, t
<1>9. \E e \in Given : g2 = Append(given, e) /\ e.path = path /\ e.offs = Offs
  <2>1. Offs \in Nat
    <3>1. rsp # 0 => rsp - 1 \in 0 .. Levels - 1
      BY <1>3, LevelsOK
    <3>2. rsp # 0 => stack[rsp - 1] \in Frames
      BY <1>3, <3>1
    <3> QED BY <3>2 DEF Offs, Frames
  <2>2. PICK y \in {"dir", "file"} : g2 = Append(given, [path |-> path, offs |-> Offs, type |-> y])
    BY <1>6
  <2> DEFINE e == [path |-> path, offs |-> Offs, type |-> y]
  <2>3. e \in Given /\ e.path = path /\ e.offs = Offs
    BY <1>4, <2>1 DEF Given
  <2> HIDE DEF g2
  <2> QED BY <2>2, <2>3
<1> HIDE DEF node
\* The name of the entry begins where that of the folder ends.
<1>10. Held(t, F, r + 1) => CutAt(t, F, Offs)
  <2>1. CASE r = 0
    <3>1. Len(F) = 1
      BY <1>3, <2>1
    <3> QED BY <2>1, <3>1 DEF CutAt, Offs
  <2>2. CASE r # 0
    <3>1. r - 1 \in 0 .. r - 1 /\ r - 1 \in 0 .. r /\ (r - 1) + 1 = r /\ r \in 1 .. Len(F) - 1 /\ r \in 1 .. Len(F) /\ Len(F) # 1
      BY <1>3, <2>2
    <3>2. s[r - 1].namelen # 0 /\ s[r - 1].namelen \in {0, Name(t, F, (r - 1) + 1)}
      BY <1>3, <3>1 DEF Below, IsOpen, Level
    <3>3. Offs = Name(t, F, r)
      BY <2>2, <3>1, <3>2 DEF Offs, s, r
    <3>4. /\ Name(t, F, r + 1) = (IF r = 1 /\ t.slash THEN 0 ELSE Name(t, F, r)) + t.width[F[r + 1]]
          /\ Name(t, F, 1) = t.width[Root]
      BY <1>2, <1>3, <3>1, NameIs
    <3>5. Wide(t, InBuffer(t, F), Len(InBuffer(t, F))) = Name(t, F, r + 1)
      BY <1>2, <1>3, BufferWide
    <3>6. CASE Len(F) = 2 /\ t.slash
      <4>0. \A m \in Nat : m + 1 = 2 => m = 1
        OBVIOUS
      <4>1. r = 1
        BY ONLY <1>3, <3>6, <4>0
      <4>2. Offs = 1
        BY <1>2, <3>3, <3>4, <3>6, <4>1, TreeIs
      <4> QED BY <3>6, <4>2 DEF CutAt
    <3>7. CASE ~(Len(F) = 2 /\ t.slash)
      <4>1. ~(r = 1 /\ t.slash)
        BY <1>3, <3>7
      <4>2. Offs + t.width[F[Len(F)]] = Wide(t, InBuffer(t, F), Len(InBuffer(t, F)))
        BY <1>3, <3>3, <3>4, <3>5, <4>1
      <4> QED BY <3>1, <3>7, <4>2 DEF CutAt
    <3> QED BY <3>6, <3>7
  <2> QED BY <2>1, <2>2
<1>11. /\ s2 \in [0 .. Levels - 1 -> Frames]
       /\ \A l \in 0 .. Levels - 1 : l # r => s2[l] = s[l]
       /\ folder # NoFolder => s2[r].namelen = s[r].namelen /\ s2[r].folder = folder
       /\ folder = NoFolder => s2[r].namelen = 0
  <2> DEFINE a == [s[r] EXCEPT !.folder = folder]
             b == [s[r] EXCEPT !.namelen = 0]
  <2> HIDE DEF s, s2, r, t
  <2>1. a \in Frames /\ a.folder = folder /\ a.namelen = s[r].namelen /\ b \in Frames /\ b.namelen = 0
    BY <1>3, <1>8 DEF Frames
  <2>2. CASE folder # NoFolder
    <3>1. s2 = [s EXCEPT ![r] = a]
      BY <1>6, <2>2
    <3> HIDE DEF a, b
    <3> QED BY <1>3, <2>1, <2>2, <3>1
  <2>3. CASE folder = NoFolder
    <3>1. s2 = [s EXCEPT ![r] = b]
      BY <1>6, <2>3
    <3> HIDE DEF a, b
    <3> QED BY <1>3, <2>1, <2>3, <3>1
  <2> QED BY <2>2, <2>3
<1> HIDE DEF s, s2, r, t, g2
<1>12. \A l \in 0 .. r - 1 : l \in 0 .. r /\ l # r /\ s2[l] = s[l]
  BY <1>3, <1>11, LevelsOK
<1>13. ~Fresh(s2, r) /\ ~IsOpen(s, r)
  BY <1>2, <1>11 DEF Fresh, IsOpen
<1>14. Level(t, s2, r, F)
  <2>1. CASE folder # NoFolder
    <3> DEFINE L == t.list[node]
    <3>1. s2[r].folder = folder /\ folder \in Seq(Node)
      BY <1>8, <1>11, <2>1
    <3>2. s2[r].namelen \in {0, Name(t, F, r + 1)}
      BY <1>3, <1>7, <1>11, <2>1 DEF Level
    <3>3. ASSUME Held(t, F, r + 1)
          PROVE  /\ t.kind[F[r + 1]] = "dir"
                 /\ \A i, j \in DOMAIN folder : folder[i] = folder[j] => i = j
                 /\ LeftOf(s2, r) \subseteq {t.list[F[r + 1]][i] : i \in DOMAIN t.list[F[r + 1]]}
      <4>1. t.kind[node] = "dir" /\ folder = L
        BY <1>8, <2>1, <3>3
      <4>2. \A i, j \in DOMAIN L : L[i] = L[j] => i = j
        BY <1>7 DEF Folders
      <4>3. LeftOf(s2, r) = {L[i] : i \in DOMAIN L}
        BY <3>1, <4>1 DEF LeftOf
      <4> QED BY <4>1, <4>2, <4>3 DEF node
    <3> QED BY <3>1, <3>2, <3>3 DEF Level
  <2>2. CASE folder = NoFolder
    BY <1>11, <2>2 DEF Level, IsOpen
  <2> QED BY <2>1, <2>2
<1>15. StackOK(t, s2, r, path, F)
  <2>1. \A l \in 0 .. r - 1 : Level(t, s2, l, F) /\ Below(t, s2, l, F)
    BY <1>3, <1>12, OtherLevels
  <2>2. \A l \in 0 .. r : l = r \/ l \in 0 .. r - 1
    BY <1>3
  <2>3. \A l \in 0 .. r : Level(t, s2, l, F)
    BY <1>14, <2>1, <2>2
  <2>4. Len(F) >= r + 1
    BY <1>3
  <2> QED BY <1>3, <1>11, <1>13, <2>1, <2>3, <2>4 DEF StackOK
\* Of what the buffer holds, all that was still to come still is, but for F itself.
<1>16. ASSUME NEW q, IsPath(t, q), Held(t, q, Len(q))
       PROVE  /\ Pending(s2, r, F, q) <=> Pending(s, r, F, q) /\ q # F
              /\ q = F => Held(t, F, r + 1)
  <2>0. Names(q) /\ q \in Seq(Node) /\ Len(q) \in Nat /\ Len(q) >= 1
    BY <1>2, <1>16, PathNames
  <2>1. \A l \in 0 .. r - 1 : Ahead(s2, l, F, q) <=> Ahead(s, l, F, q)
    BY <1>12, OtherLevels
  <2>2. \A l \in 0 .. r : l = r \/ l \in 0 .. r - 1
    BY <1>3
  <2>3. Pending(s2, r, F, q) <=> (\E l \in 0 .. r - 1 : Ahead(s, l, F, q)) \/ Ahead(s2, r, F, q)
    BY <1>7, <1>12, <1>13, <2>1, <2>2 DEF Pending
  <2>4. Pending(s, r, F, q) <=> (\E l \in 0 .. r - 1 : Ahead(s, l, F, q)) \/ Agree(q, F, r + 1)
    <3>1. ~Ahead(s, r, F, q)
      BY <1>13 DEF Ahead
    <3> QED BY <1>2, <1>12, <2>2, <3>1 DEF Pending
  <2>5. Agree(q, F, r + 1) => Held(t, F, r + 1)
    <3> SUFFICES ASSUME Agree(q, F, r + 1)  PROVE Held(t, F, r + 1)
      OBVIOUS
    <3>1. r + 1 \in Nat /\ r + 1 <= Len(q) /\ r + 1 <= Len(F) /\ r + 1 \in 1 .. Len(q) /\ r + 1 \in 1 .. r + 1
          /\ Len(q) \in 1 .. Len(q) /\ \A i \in 1 .. r + 1 : q[i] = F[i]
      BY <1>3, <2>0 DEF Agree
    <3>2. Name(t, q, r + 1) = Name(t, F, r + 1)
      BY <1>2, <1>3, <2>0, <3>1, NameAgree
    <3>3. Held(t, q, r + 1)
      BY <1>2, <1>16, <2>0, <3>1, NameGrows, LevelsOK
    <3> QED BY <3>2, <3>3 DEF Held
  <2>6. q = F => Agree(q, F, r + 1)
    BY <1>3 DEF Agree
  <2>7. q = F => ~ \E l \in 0 .. r - 1 : Ahead(s, l, F, q)
    <3> SUFFICES ASSUME q = F, NEW l \in 0 .. r - 1, Ahead(s, l, F, q)  PROVE FALSE
      OBVIOUS
    <3>1. l + 1 \in 1 .. Len(F) /\ l + 1 <= r + 1 /\ r + 1 \in 1 .. Len(F)
      BY <1>3
    <3>2. Held(t, F, l + 1)
      BY <1>2, <1>3, <2>5, <2>6, <3>1, NameGrows, LevelsOK
    <3>3. F[l + 2] \in LeftOf(s, l)
      BY DEF Ahead
    <3> QED BY <1>3, <3>2, <3>3 DEF Below
  <2>8. Ahead(s2, r, F, q) <=> Agree(q, F, r + 1) /\ q # F
    <3>1. F \in Seq(Node) /\ q \in Seq(Node) /\ Len(q) \in Nat
      BY <1>3, <2>0
    <3>2. ASSUME Agree(q, F, r + 1), q # F
          PROVE  /\ Len(q) > r + 1 /\ folder # NoFolder
                 /\ q[r + 2] \in {folder[i] : i \in DOMAIN folder}
      <4>1. Len(q) >= r + 1 /\ \A i \in 1 .. r + 1 : q[i] = F[i]
        BY <3>2 DEF Agree
      <4>2. Len(q) # r + 1
        BY <1>3, <3>1, <3>2, <4>1
      <4>3. r + 1 \in 1 .. Len(q) - 1 /\ r + 1 \in 1 .. r + 1 /\ (r + 1) + 1 = r + 2
        BY <1>3, <3>1, <4>1, <4>2
      <4>4. t.kind[q[r + 1]] = "dir" /\ q[(r + 1) + 1] \in Entries(t, q[r + 1])
        BY <1>16, <4>3 DEF IsPath
      <4>5. q[r + 1] = node
        BY <4>1, <4>3 DEF node
      <4>6. Len(q) > r + 1
        BY <1>3, <3>1, <4>1, <4>2
      <4>7. folder = t.list[node] /\ folder # NoFolder
        BY <1>7, <1>8, <2>5, <3>2, <4>4, <4>5, RootOK
      <4> QED BY <4>3, <4>4, <4>5, <4>6, <4>7 DEF Entries
    <3>3. folder # NoFolder => IsOpen(s2, r) /\ LeftOf(s2, r) = {folder[i] : i \in DOMAIN folder}
      <4>1. s[r].namelen # 0
        BY <1>2 DEF Fresh
      <4> QED BY <1>11, <4>1 DEF IsOpen, LeftOf
    <3>4. Len(q) > r + 1 => q # F
      BY <1>3
    <3> QED BY <3>2, <3>3, <3>4 DEF Ahead
  <2> QED BY <2>3, <2>4, <2>5, <2>6, <2>7, <2>8
<1>17. Held(t, F, r + 1) => IsPath(t, F)
  <2> SUFFICES ASSUME Held(t, F, r + 1)  PROVE IsPath(t, F)
    OBVIOUS
  <2>1. r + 1 \in 1 .. Len(F)
    BY <1>3
  <2>2. \A i \in 1 .. (r + 1) - 1 : t.kind[F[i]] = "dir" /\ F[i + 1] \in Entries(t, F[i])
    BY <1>2, <1>3, <2>1, HeldIsPath
  <2> QED BY <1>3, <2>2 DEF IsPath, Names
<1>18. Tally(t, s2, r, g2, F)
  <2> DEFINE g == given
             N == Len(g)
  <2>1. PICK e \in Given : g2 = Append(g, e) /\ e.path = InBuffer(t, F) /\ e.offs = Offs
    BY <1>3, <1>9
  <2>2. /\ g \in Seq(Given) /\ N \in Nat
        /\ \A i \in DOMAIN g : AllHeld(t, g[i].path) =>
             \E q : IsPath(t, q) /\ g[i].path = InBuffer(t, q) /\ CutAt(t, q, g[i].offs)
        /\ \A i, j \in DOMAIN g : AllHeld(t, g[i].path) /\ g[i].path = g[j].path => i = j
        /\ \A q : IsPath(t, q) /\ Held(t, q, Len(q)) => (Pending(s, r, F, q) <=> ~Shown(t, g, q))
    BY <1>1 DEF Tally, t, s, r
  <2>3. /\ g2 \in Seq(Given) /\ DOMAIN g = 1 .. N /\ DOMAIN g2 = 1 .. N + 1
        /\ g2[N + 1] = e /\ \A i \in 1 .. N : g2[i] = g[i]
    BY <2>1, <2>2
  <2> HIDE DEF g, N
  <2>4. Pending(s, r, F, F)
    <3>1. Agree(F, F, r + 1)
      BY <1>3 DEF Agree
    <3> QED BY <1>2, <3>1 DEF Pending
  <2>5. AllHeld(t, e.path) => Held(t, F, Len(F)) /\ IsPath(t, F) /\ CutAt(t, F, e.offs)
    BY <1>3, <1>5, <1>10, <1>17, <2>1
  <2>6. \A i \in 1 .. N : AllHeld(t, e.path) => g[i].path # InBuffer(t, F)
    BY <2>2, <2>3, <2>4, <2>5 DEF Shown
  <2>7. \A i \in 1 .. N + 1 : i = N + 1 \/ i \in 1 .. N
    BY <2>2
  <2>8. \A i \in DOMAIN g2 : AllHeld(t, g2[i].path) =>
          \E q : IsPath(t, q) /\ g2[i].path = InBuffer(t, q) /\ CutAt(t, q, g2[i].offs)
    BY <2>1, <2>2, <2>3, <2>5, <2>7
  <2>9. \A i, j \in DOMAIN g2 : AllHeld(t, g2[i].path) /\ g2[i].path = g2[j].path => i = j
    BY <2>1, <2>2, <2>3, <2>6, <2>7
  <2>10. ASSUME NEW q, IsPath(t, q), Held(t, q, Len(q))
         PROVE  Shown(t, g2, q) <=> Shown(t, g, q) \/ q = F
    <3>1. InBuffer(t, q) = InBuffer(t, F) <=> q = F
      <4> SUFFICES ASSUME InBuffer(t, q) = InBuffer(t, F)  PROVE q = F
        OBVIOUS
      <4>1. Names(q)
        BY <1>2, <2>10, PathNames
      <4>2. Wide(t, InBuffer(t, q), Len(InBuffer(t, q))) = Name(t, q, Len(q))
        BY <1>2, <4>1, BufferWide
      <4>3. AllHeld(t, InBuffer(t, F))
        BY <2>10, <4>2 DEF AllHeld, Held
      <4> QED BY <1>2, <2>1, <2>5, <2>10, <4>3, BufferTells
    <3>2. N + 1 \in 1 .. N + 1 /\ \A i \in 1 .. N : i \in 1 .. N + 1
      BY <2>2
    <3> QED BY <2>1, <2>3, <2>7, <3>1, <3>2 DEF Shown
  <2>11. \A q : IsPath(t, q) /\ Held(t, q, Len(q)) => (Pending(s2, r, F, q) <=> ~Shown(t, g2, q))
    BY <1>16, <2>2, <2>10
  <2> QED BY <2>3, <2>8, <2>9, <2>11 DEF Tally
<1> QED BY <1>2, <1>15, <1>18 DEF WalkInv, s2, g2, t, r

----------------------------------------------------------------------------

\* What readdir gives next is an entry of the folder, and when the entries differ the rest
\* does not have it again.
LEMMA TakenIs ==
    ASSUME NEW l \in Seq(Node), l # << >>
    PROVE  /\ Head(l) \in Node /\ Tail(l) \in Seq(Node)
           /\ {l[i] : i \in DOMAIN l} = {Head(l)} \cup {Tail(l)[i] : i \in DOMAIN Tail(l)}
           /\ (\A i, j \in DOMAIN l : l[i] = l[j] => i = j) =>
                /\ \A i, j \in DOMAIN Tail(l) : Tail(l)[i] = Tail(l)[j] => i = j
                /\ Head(l) \notin {Tail(l)[i] : i \in DOMAIN Tail(l)}
<1> DEFINE h == Head(l)
           b == Tail(l)
           n == Len(l)
<1>1. n \in Nat /\ n >= 1 /\ DOMAIN l = 1 .. n /\ h = l[1] /\ h \in Node
  BY DEF n, h
<1>2. b \in Seq(Node) /\ DOMAIN b = 1 .. n - 1 /\ \A i \in 1 .. n - 1 : b[i] = l[i + 1]
  BY <1>1
<1> HIDE DEF h, b, n
<1>3. \A i \in 1 .. n - 1 : i + 1 \in 1 .. n /\ i + 1 # 1
  BY <1>1
<1> DEFINE Once == \A i, j \in DOMAIN l : l[i] = l[j] => i = j
<1>4. Once => \A i, j \in DOMAIN b : b[i] = b[j] => i = j
  <2> SUFFICES ASSUME Once, NEW i \in 1 .. n - 1, NEW j \in 1 .. n - 1, b[i] = b[j]  PROVE i = j
    BY <1>2
  <2>1. i + 1 = j + 1
    BY <1>1, <1>2, <1>3
  <2> QED BY <1>1, <2>1
<1>5. Once => h \notin {b[i] : i \in DOMAIN b}
  <2> SUFFICES ASSUME Once, NEW i \in 1 .. n - 1, b[i] = h  PROVE FALSE
    BY <1>2
  <2>1. l[i + 1] = l[1] /\ i + 1 \in 1 .. n /\ 1 \in 1 .. n
    BY <1>1, <1>2, <1>3
  <2> QED BY <1>1, <1>3, <2>1
<1>6. \A i \in 1 .. n : l[i] = h \/ \E j \in 1 .. n - 1 : l[i] = b[j]
  <2> SUFFICES ASSUME NEW i \in 1 .. n, i # 1  PROVE \E j \in 1 .. n - 1 : l[i] = b[j]
    BY <1>1
  <2>1. i - 1 \in 1 .. n - 1 /\ (i - 1) + 1 = i
    BY <1>1
  <2>2. b[i - 1] = l[i]
    BY <1>2, <2>1
  <2> QED BY <2>1, <2>2
<1>7. 1 \in 1 .. n
  BY <1>1
<1>8. {l[i] : i \in DOMAIN l} = {h} \cup {b[i] : i \in DOMAIN b}
  <2>1. \A i \in 1 .. n : l[i] \in {h} \cup {b[j] : j \in 1 .. n - 1}
    BY <1>6
  <2>2. \A j \in 1 .. n - 1 : b[j] \in {l[i] : i \in 1 .. n}
    BY <1>2, <1>3
  <2>3. h \in {l[i] : i \in 1 .. n}
    BY <1>1, <1>7
  <2> DEFINE A == {l[i] : i \in 1 .. n}
             B == {b[j] : j \in 1 .. n - 1}
  <2>4. A \subseteq {h} \cup B /\ B \subseteq A /\ h \in A
    BY <2>1, <2>2, <2>3
  <2>5. A = {h} \cup B
    <3> HIDE DEF A, B
    <3> QED BY <2>4
  <2> QED BY <1>1, <1>2, <2>5
<1> QED BY <1>1, <1>2, <1>4, <1>5, <1>8 DEF h, b

\* The next entry of the folder on top.
LEMMA EntryStep == WalkInv /\ next_entry => WalkInv'
<1> SUFFICES ASSUME WalkInv, next_entry  PROVE WalkInv'
  OBVIOUS
<1>1. PICK F : StackOK(tree, stack, rsp, path, F) /\ Tally(tree, stack, rsp, given, F)
  BY DEF WalkInv
<1> DEFINE r == rsp
           t == tree
           s == stack
           L == stack[rsp].folder
           node == Head(L)
           rest == Tail(L)
           taken == [stack EXCEPT ![rsp].folder = Tail(@)]
           s2 == stack'
<1>2. t \in Trees /\ t' = t /\ given' = given /\ pc = "read" /\ s[r].namelen # 0 /\ L \notin {NoFolder, << >>}
  BY DEF WalkInv, next_entry, Top
<1>3. /\ s \in [0 .. Levels - 1 -> Frames] /\ OnTree(t, F) /\ path = InBuffer(t, F)
      /\ Names(F) /\ F \in Seq(Node)
      /\ Len(F) >= r + 1 /\ Len(F) \in Nat /\ r \in Nat /\ r \in 0 .. Levels - 1 /\ r + 1 \in 1 .. Len(F)
      /\ \A l \in 0 .. r : Level(t, s, l, F)
      /\ \A l \in 0 .. r - 1 : Below(t, s, l, F)
      /\ r \in 0 .. r
  <2>1. /\ r \in Nat /\ r + 1 \in 1 .. Len(F) /\ Len(F) \in Nat /\ F \in Seq(Node)
        /\ OnTree(t, F) /\ path = InBuffer(t, F) /\ r \in 0 .. Levels - 1
        /\ s \in [0 .. Levels - 1 -> Frames] /\ Len(F) >= r + 1
        /\ \A l \in 0 .. r : Level(t, s, l, F)
        /\ \A l \in 0 .. r - 1 : Below(t, s, l, F)
    BY <1>1, <1>2, StackTypes DEF StackOK
  <2>2. r \in 0 .. r
    BY ONLY <2>1
  <2>3. Names(F)
    BY <2>1 DEF OnTree
  <2> HIDE DEF r, t, s
  <2> QED BY ONLY <2>1, <2>2, <2>3
<1> DEFINE held == Held(t, F, r + 1)
<1>4. /\ IsOpen(s, r) /\ ~Fresh(s, r)
      /\ s[r].namelen = Name(t, F, r + 1) /\ L \in Seq(Node)
      /\ held => /\ t.kind[F[r + 1]] = "dir" /\ \A i, j \in DOMAIN L : L[i] = L[j] => i = j
                 /\ {L[i] : i \in DOMAIN L} \subseteq {t.list[F[r + 1]][i] : i \in DOMAIN t.list[F[r + 1]]}
  <2>1. IsOpen(s, r) /\ ~Fresh(s, r)
    BY <1>2 DEF IsOpen, Fresh
  <2>2. Level(t, s, r, F)
    BY <1>3
  <2> QED BY <1>2, <2>1, <2>2 DEF Level, LeftOf
<1>5. /\ node \in Node /\ rest \in Seq(Node)
      /\ {L[i] : i \in DOMAIN L} = {node} \cup {rest[i] : i \in DOMAIN rest}
      /\ held => /\ \A i, j \in DOMAIN rest : rest[i] = rest[j] => i = j
                 /\ node \notin {rest[i] : i \in DOMAIN rest}
  <2> HIDE DEF L, held
  <2> QED BY <1>2, <1>4, TakenIs
<1> DEFINE all == {t.list[F[r + 1]][i] : i \in DOMAIN t.list[F[r + 1]]}
           later == {rest[i] : i \in DOMAIN rest}
<1>6. held => node \in all /\ later \subseteq all
  <2> SUFFICES ASSUME held  PROVE node \in all /\ later \subseteq all
    OBVIOUS
  <2> DEFINE now == {L[i] : i \in DOMAIN L}
  <2>1. now \subseteq all /\ now = {node} \cup later
    BY <1>4, <1>5
  <2> HIDE DEF now, all, later, node
  <2> QED BY <2>1
<1> DEFINE a == [s[r] EXCEPT !.folder = rest]
<1>7. a \in Frames /\ a.folder = rest /\ a.namelen = s[r].namelen /\ rest # NoFolder
  <2>1. rest # NoFolder
    BY <1>5, RootOK
  <2>2. s[r] \in Frames
    BY <1>3
  <2> HIDE DEF rest, s, r
  <2> QED BY <1>5, <2>1, <2>2 DEF Frames
<1>8. taken = [s EXCEPT ![r] = a]
  OBVIOUS
<1>9. \/ t.kind[node] \in Passed /\ s2 = taken /\ rsp' = r /\ path' = path /\ pc' = pc
      \/ t.kind[node] \notin Passed /\ pc' = "overrun" /\ s2 = s /\ rsp' = r /\ path' = path
      \/ /\ t.kind[node] \notin Passed /\ r + 1 # Levels /\ rsp' = r + 1 /\ path' = Pushed(node) /\ pc' = pc
         /\ s2 = [taken EXCEPT ![r + 1] = [namelen |-> Behind + t.width[node], folder |-> NoFolder]]
  BY DEF next_entry, Top
<1> HIDE DEF s, s2, L, node, rest, a, r, t, all, later, held
<1>10. /\ taken \in [0 .. Levels - 1 -> Frames] /\ taken[r] = a
      /\ \A l \in 0 .. Levels - 1 : l # r => taken[l] = s[l]
  BY <1>3, <1>7, <1>8
<1> HIDE DEF taken
\* Of the level on top only the entry taken is gone.
<1>11. IsOpen(taken, r) /\ ~Fresh(taken, r) /\ LeftOf(s, r) = {node} \cup LeftOf(taken, r) /\ (held => node \notin LeftOf(taken, r))
  <2>1. LeftOf(s, r) = {L[i] : i \in DOMAIN L}
    BY DEF LeftOf, L, s, r
  <2>2. LeftOf(taken, r) = {rest[i] : i \in DOMAIN rest}
    BY <1>7, <1>10 DEF LeftOf
  <2> QED BY <1>2, <1>5, <1>7, <1>10, <2>1, <2>2 DEF IsOpen, Fresh
<1>12. \A l \in 0 .. r - 1 : l \in 0 .. r /\ l # r /\ taken[l] = s[l]
  BY <1>3, <1>10, LevelsOK
<1>13. \A l \in 0 .. r : l = r \/ l \in 0 .. r - 1
  BY <1>3
<1>14. Level(t, taken, r, F)
  <2>1. held => LeftOf(taken, r) \subseteq {t.list[F[r + 1]][i] : i \in DOMAIN t.list[F[r + 1]]}
    <3>1. LeftOf(taken, r) = later
      BY <1>7, <1>10 DEF LeftOf, later
    <3> QED BY <1>6, <3>1 DEF all
  <2>2. taken[r].namelen = Name(t, F, r + 1) /\ taken[r].folder = rest
    BY <1>4, <1>7, <1>10
  <2> QED BY <1>4, <1>5, <2>1, <2>2 DEF Level, held
<1>15. ASSUME NEW q, IsPath(t, q)
       PROVE  Ahead(s, r, F, q) <=>
                Ahead(taken, r, F, q) \/ (Len(q) > r + 1 /\ Agree(q, F, r + 1) /\ q[r + 2] = node)
  BY <1>4, <1>11 DEF Ahead
<1>16. CASE t.kind[node] \in Passed /\ s2 = taken /\ rsp' = r /\ path' = path /\ pc' = pc
  <2>1. \A l \in 0 .. r - 1 : Level(t, taken, l, F) /\ Below(t, taken, l, F)
    BY <1>3, <1>12, OtherLevels
  <2>2. \A l \in 0 .. r : Level(t, taken, l, F)
    BY <1>13, <1>14, <2>1
  <2>3. StackOK(t, taken, r, path, F)
    BY <1>3, <1>10, <1>11, <2>1, <2>2 DEF StackOK
  <2>4. ASSUME NEW q, IsPath(t, q)  PROVE Pending(taken, r, F, q) <=> Pending(s, r, F, q)
    <3>1. ~(Len(q) > r + 1 /\ q[r + 2] = node)
      <4> SUFFICES ASSUME Len(q) > r + 1, q[r + 2] = node  PROVE FALSE
        OBVIOUS
      <4>1. Len(q) \in Nat
        BY <2>4 DEF IsPath
      <4>2. r + 1 \in 1 .. Len(q) - 1 /\ (r + 1) + 1 = r + 2
        BY <1>3, <4>1
      <4>3. q[(r + 1) + 1] \in Entries(t, q[r + 1])
        BY <2>4, <4>2 DEF IsPath
      <4> QED BY <1>16, <4>2, <4>3 DEF Entries
    <3>2. Ahead(taken, r, F, q) <=> Ahead(s, r, F, q)
      BY <1>15, <2>4, <3>1
    <3>3. \A l \in 0 .. r - 1 : Ahead(taken, l, F, q) <=> Ahead(s, l, F, q)
      BY <1>12, OtherLevels
    <3> QED BY <1>4, <1>11, <1>13, <3>2, <3>3 DEF Pending
  <2>5. Tally(t, taken, r, given, F)
    BY <1>1, <2>4, TallyStays DEF t, s, r
  <2> QED BY <1>2, <1>16, <2>3, <2>5 DEF WalkInv, s2, t, r
<1>17. CASE t.kind[node] \notin Passed /\ pc' = "overrun" /\ s2 = s /\ rsp' = r /\ path' = path
  BY <1>1, <1>2, <1>17 DEF WalkInv, s2, s, t, r
<1>18. CASE /\ t.kind[node] \notin Passed /\ r + 1 # Levels /\ rsp' = r + 1 /\ path' = Pushed(node) /\ pc' = pc
            /\ s2 = [taken EXCEPT ![r + 1] = [namelen |-> Behind + t.width[node], folder |-> NoFolder]]
  <2> DEFINE u == r + 1
             P == SubSeq(F, 1, r + 1)
             G == Append(P, node)
             p2 == Pushed(node)
             top == [namelen |-> Behind + t.width[node], folder |-> NoFolder]
  <2>1. P \in Seq(Node) /\ Len(P) = r + 1 /\ \A i \in 1 .. r + 1 : P[i] = F[i]
    BY <1>3
  <2>2. /\ G \in Seq(Node) /\ Len(G) = r + 2 /\ G[r + 2] = node
        /\ \A i \in 1 .. r + 1 : G[i] = P[i]
    <3> HIDE DEF P
    <3> QED BY <1>3, <1>5, <2>1
  <2>3. Names(G) /\ Len(G) \in Nat /\ r + 1 \in 1 .. Len(G) - 1
    <3>1. 1 \in 1 .. r + 1
      BY <1>3
    <3>2. G[1] = Root
      BY <1>3, <2>1, <2>2, <3>1 DEF Names
    <3> HIDE DEF G
    <3> QED BY <1>3, <2>2, <3>2 DEF Names
  <2>4. \A k \in 1 .. r + 1 : Name(t, G, k) = Name(t, F, k)
    <3>1. r + 1 \in Nat /\ r + 1 <= Len(G) /\ r + 1 <= Len(F) /\ \A i \in 1 .. r + 1 : G[i] = F[i]
      BY <1>3, <2>1, <2>2
    <3> HIDE DEF G
    <3> QED BY <1>2, <1>3, <2>2, <3>1, NameAgree
  <2>5. OnTree(t, G)
    <3>1. ASSUME NEW i \in 1 .. Len(G) - 1, Held(t, G, i + 1)
          PROVE  t.kind[G[i]] = "dir" /\ G[i + 1] \in Entries(t, G[i])
      <4>1. CASE i = r + 1
        <5>1. G[i] = F[r + 1] /\ G[i + 1] = node /\ r + 1 \in 1 .. r + 1
          <6>1. i + 1 = r + 2 /\ r + 1 \in 1 .. r + 1
            BY <1>3, <4>1
          <6> QED BY <2>1, <2>2, <4>1, <6>1
        <5>2. held
          <6>1. r + 1 \in 1 .. Len(G) /\ i + 1 \in 1 .. Len(G) /\ r + 1 <= i + 1
            BY <1>3, <2>3, <4>1
          <6>2. Held(t, G, r + 1)
            BY <1>2, <2>3, <3>1, <6>1, NameGrows, LevelsOK
          <6> QED BY <2>4, <5>1, <6>2 DEF Held, held
        <5>3. node \in Entries(t, F[r + 1])
          <6>1. PICK j \in DOMAIN t.list[F[r + 1]] : node = t.list[F[r + 1]][j]
            BY <1>6, <5>2 DEF all
          <6> QED BY <1>18, <6>1 DEF Entries
        <5> QED BY <1>4, <5>1, <5>2, <5>3
      <4>2. CASE i # r + 1
        <5>1. i \in 1 .. r + 1 /\ i + 1 \in 1 .. r + 1 /\ i \in 1 .. Len(F) - 1
          BY <1>3, <2>2, <4>2
        <5>2. G[i] = F[i] /\ G[i + 1] = F[i + 1]
          BY <2>1, <2>2, <5>1
        <5>3. Held(t, F, i + 1)
          BY <2>4, <3>1, <5>1 DEF Held
        <5> QED BY <1>3, <5>1, <5>2, <5>3 DEF OnTree
      <4> QED BY <4>1, <4>2
    <3> HIDE DEF G
    <3> QED BY <2>3, <3>1 DEF OnTree
\* The entry is written behind the name of its folder.
  <2>6a. /\ Behind = IF r = 0 /\ t.slash THEN 0 ELSE Name(t, F, r + 1)
         /\ r = 0 /\ t.slash => Pushed(node) = <<node>>
         /\ ~(r = 0 /\ t.slash) => Pushed(node) = Append(SubSeq(path, 1, Kept(t, r + 1)), node)
    <3>1. Behind = IF r = 0 /\ t.slash THEN 0 ELSE Name(t, F, r + 1)
      BY <1>4 DEF Behind, Top, s, r, t
    <3>2. path \in Seq(Node) /\ Len(path) \in Nat
      BY <1>2, <1>3, BufferIs
    <3>3. \A k \in 0 .. Len(path) : \A m \in 0 .. Len(path) : Wide(t, path, k) = Wide(t, path, m) => k = m
      <4> SUFFICES ASSUME NEW k \in 0 .. Len(path), NEW m \in 0 .. Len(path), Wide(t, path, k) = Wide(t, path, m), k # m
                   PROVE  FALSE
        OBVIOUS
      <4>1. k < m \/ m < k
        BY <3>2
      <4>2. Wide(t, path, k) < Wide(t, path, m) \/ Wide(t, path, m) < Wide(t, path, k)
        BY <1>2, <3>2, <4>1, WideGrows
      <4>3. Wide(t, path, k) \in Nat /\ Wide(t, path, m) \in Nat
        BY <1>2, <3>2, WideIs
      <4>4. \A x \in Nat : ~(x < x)
        OBVIOUS
      <4> QED BY <4>2, <4>3, <4>4
    <3>4. \A k : CharsTo(path, k) = Wide(t, path, k)
      BY Zenon DEF CharsTo, Wide, t
    <3>5. ASSUME NEW k \in 0 .. Len(path), Wide(t, path, k) = Behind
          PROVE  Before(Behind) = SubSeq(path, 1, k)
      <4> DEFINE K == CHOOSE m \in 0 .. Len(path) : CharsTo(path, m) = Behind
      <4>1. K \in 0 .. Len(path) /\ CharsTo(path, K) = Behind
        BY <3>4, <3>5, Zenon
      <4>2. Before(Behind) = SubSeq(path, 1, K)
        BY DEF Before
      <4> HIDE DEF K
      <4>3. K = k
        BY <3>3, <3>4, <3>5, <4>1
      <4> QED BY <4>2, <4>3
    <3>6. ASSUME r = 0, t.slash  PROVE Pushed(node) = <<node>>
      <4>1. 0 \in 0 .. Len(path) /\ Wide(t, path, 0) = 0 /\ Behind = 0
        BY <1>2, <3>1, <3>2, <3>6, WideIs
      <4>2. Before(Behind) = SubSeq(path, 1, 0)
        BY <3>5, <4>1
      <4>3. SubSeq(path, 1, 0) = << >>
        BY <3>2
      <4>4. Append(<< >>, node) = <<node>>
        OBVIOUS
      <4> QED BY <4>2, <4>3, <4>4 DEF Pushed
    <3>7. ASSUME ~(r = 0 /\ t.slash)  PROVE Pushed(node) = Append(SubSeq(path, 1, Kept(t, r + 1)), node)
      <4>1. ~(r + 1 = 1 /\ t.slash)
        BY <1>3, <3>7
      <4>2. Kept(t, r + 1) \in 0 .. Len(path) /\ Wide(t, path, Kept(t, r + 1)) = Name(t, F, r + 1)
        BY <1>2, <1>3, <4>1, BufferWide
      <4>3. Behind = Name(t, F, r + 1)
        BY <3>1, <3>7
      <4>4. Before(Behind) = SubSeq(path, 1, Kept(t, r + 1))
        BY <3>5, <4>2, <4>3
      <4> QED BY <4>4 DEF Pushed
    <3> QED BY <3>1, <3>6, <3>7
  <2>6b. p2 = InBuffer(t, G)
    <3>1. InBuffer(t, G) = IF r + 1 = 1 /\ t.slash THEN <<node>>
                           ELSE Append(SubSeq(InBuffer(t, F), 1, Kept(t, r + 1)), node)
      BY <1>2, <1>3, <1>5, BufferOn
    <3>2. r + 1 = 1 <=> r = 0
      BY <1>3
    <3> HIDE DEF G
    <3> QED BY <1>3, <2>6a, <3>1, <3>2
  <2>6c. Behind + t.width[node] = Name(t, G, u + 1) /\ Behind + t.width[node] \in Nat \ {0}
    <3>1. /\ Name(t, G, (r + 1) + 1) = (IF r + 1 = 1 /\ t.slash THEN 0 ELSE Name(t, G, r + 1)) + t.width[G[(r + 1) + 1]]
          /\ \A k \in 1 .. Len(G) : Name(t, G, k) \in Nat \ {0}
      <4> HIDE DEF G
      <4> QED BY <1>2, <2>3, NameIs
    <3>2. /\ (r + 1 = 1 <=> r = 0) /\ r + 1 \in 1 .. r + 1 /\ (r + 1) + 1 = r + 2
          /\ (r + 1) + 1 \in 1 .. Len(G)
      BY <1>3, <2>2
    <3>3. Behind = IF r + 1 = 1 /\ t.slash THEN 0 ELSE Name(t, G, r + 1)
      BY <2>4, <2>6a, <3>2
    <3>4. G[(r + 1) + 1] = node
      BY <2>2, <3>2
    <3> HIDE DEF G
    <3>5. Name(t, G, (r + 1) + 1) = Behind + t.width[node]
      BY <3>1, <3>3, <3>4
    <3> QED BY <3>1, <3>2, <3>5
  <2>6. u \in 0 .. Levels - 1 /\ u \in Nat /\ r # u
    BY <1>3, <1>18, LevelsOK
  <2>7. top \in Frames
    BY <2>6c DEF Frames
  <2>8. path' = p2 /\ s2 = [taken EXCEPT ![u] = top]
    BY <1>18
  <2>9. top.namelen = Name(t, G, u + 1) /\ top.namelen # 0 /\ top.folder = NoFolder
    BY <2>6c
  <2> HIDE DEF P, G, p2, top, u
  <2>10. /\ s2 \in [0 .. Levels - 1 -> Frames] /\ s2[u] = top
         /\ \A l \in 0 .. Levels - 1 : l # u => s2[l] = taken[l]
    BY <1>10, <2>6, <2>7, <2>8
  <2>11. Fresh(s2, u) /\ ~IsOpen(s2, u)
    BY <2>9, <2>10 DEF Fresh, IsOpen
  <2>12. s2[r] = taken[r] /\ \A l \in 0 .. r - 1 : s2[l] = s[l]
    <3>1. \A l \in 0 .. r - 1 : l \in 0 .. Levels - 1 /\ l # u
      BY <1>3, LevelsOK DEF u
    <3> QED BY <1>3, <1>12, <2>6, <2>10, <3>1
  <2>13. \A i \in 1 .. r + 1 : G[i] = F[i]
    BY <2>1, <2>2
  <2>14. \A l \in 0 .. u : l = u \/ l = r \/ l \in 0 .. r - 1
    BY <1>3 DEF u
  <2>15. \A l \in 0 .. r - 1 : l + 1 \in 1 .. r + 1 /\ l + 2 \in 1 .. r + 1 /\ l \in 0 .. u
    BY <1>3 DEF u
  <2>16. \A l \in 0 .. r - 1 : Level(t, s2, l, G) /\ Below(t, s2, l, G)
    BY <1>3, <1>12, <2>4, <2>12, <2>13, <2>15, OtherLevels
  <2>17. Level(t, s2, r, G) /\ Below(t, s2, r, G)
    <3>1. r + 1 \in 1 .. r + 1
      BY <1>3
    <3>2. Level(t, s2, r, G) /\ IsOpen(s2, r) /\ LeftOf(s2, r) = LeftOf(taken, r)
      BY <1>11, <1>14, <2>4, <2>12, <2>13, <3>1, OtherLevels
    <3>3. Held(t, G, r + 1) => held
      BY <2>4, <3>1 DEF Held, held
    <3> QED BY <1>11, <2>2, <3>2, <3>3 DEF Below
  <2>18. Level(t, s2, u, G)
    BY <2>9, <2>10, <2>11 DEF Level
  <2>19. StackOK(t, s2, u, p2, G)
    <3>1. Len(G) = u + 1
      BY <1>3, <2>2 DEF u
    <3>2. \A l \in 0 .. u : Level(t, s2, l, G)
      BY <2>14, <2>16, <2>17, <2>18
    <3>3. \A l \in 0 .. u - 1 : Below(t, s2, l, G)
      <4>1. \A l \in 0 .. u - 1 : l = r \/ l \in 0 .. r - 1
        BY <1>3 DEF u
      <4> QED BY <2>16, <2>17, <4>1
    <3>4. Len(G) >= u + 1
      BY <2>6, <3>1
    <3> QED BY <2>5, <2>6, <2>6b, <2>10, <3>1, <3>2, <3>3, <3>4 DEF StackOK
  <2>20. ASSUME NEW q, IsPath(t, q)  PROVE Pending(s2, u, G, q) <=> Pending(s, r, F, q)
    <3>1. ASSUME NEW l \in 0 .. r - 1  PROVE Ahead(s2, l, G, q) <=> Ahead(s, l, F, q)
      <4>1. Ahead(s2, l, F, q) <=> Ahead(s, l, F, q)
        BY <2>12, OtherLevels
      <4>2. Agree(q, G, l + 1) <=> Agree(q, F, l + 1)
        <5>1. \A i \in 1 .. l + 1 : i \in 1 .. r + 1
          BY <1>3
        <5> QED BY <2>13, <5>1 DEF Agree
      <4> QED BY <4>1, <4>2 DEF Ahead
    <3>2. Agree(q, G, r + 1) <=> Agree(q, F, r + 1)
      BY <2>13 DEF Agree
    <3>3. Ahead(s2, r, G, q) <=> Ahead(taken, r, F, q)
      <4>1. Ahead(s2, r, F, q) <=> Ahead(taken, r, F, q)
        BY <2>12, OtherLevels
      <4> QED BY <3>2, <4>1 DEF Ahead
    <3>4. Agree(q, G, u + 1) <=> Len(q) > r + 1 /\ Agree(q, F, r + 1) /\ q[r + 2] = node
      <4>1. Len(q) \in Nat
        BY <2>20 DEF IsPath
      <4>2. u + 1 = r + 2 /\ (Len(q) >= u + 1 <=> Len(q) > r + 1) /\ (Len(q) >= u + 1 => Len(q) >= r + 1)
        BY <1>3, <4>1 DEF u
      <4>3. (\A i \in 1 .. r + 2 : q[i] = G[i]) <=> (\A i \in 1 .. r + 1 : q[i] = G[i]) /\ q[r + 2] = G[r + 2]
        <5>1. r + 2 \in 1 .. r + 2 /\ \A i \in 1 .. r + 2 : i = r + 2 \/ i \in 1 .. r + 1
          BY <1>3
        <5>2. \A i \in 1 .. r + 1 : i \in 1 .. r + 2
          BY <1>3
        <5> QED BY ONLY <5>1, <5>2
      <4>4. Agree(q, G, u + 1) <=> Len(q) >= u + 1 /\ \A i \in 1 .. r + 2 : q[i] = G[i]
        BY <4>2 DEF Agree
      <4>5. Agree(q, G, r + 1) <=> Len(q) >= r + 1 /\ \A i \in 1 .. r + 1 : q[i] = G[i]
        BY DEF Agree
      <4> QED BY <2>2, <3>2, <4>2, <4>3, <4>4, <4>5
    <3>5. ~Ahead(s2, u, G, q)
      BY <2>11 DEF Ahead
    <3>6. r \in 0 .. u /\ r \in 0 .. r
      BY <1>3 DEF u
    <3>7. Pending(s2, u, G, q) <=> \/ \E l \in 0 .. r - 1 : Ahead(s, l, F, q)
                                   \/ Ahead(s2, r, G, q)
                                   \/ Agree(q, G, u + 1)
      BY <2>11, <2>14, <2>15, <3>1, <3>5, <3>6 DEF Pending
    <3>8. Pending(s, r, F, q) <=> (\E l \in 0 .. r - 1 : Ahead(s, l, F, q)) \/ Ahead(s, r, F, q)
      BY <1>4, <1>12, <1>13, <3>6 DEF Pending
    <3>9. Ahead(s, r, F, q) <=>
            Ahead(taken, r, F, q) \/ (Len(q) > r + 1 /\ Agree(q, F, r + 1) /\ q[r + 2] = node)
      BY <1>15, <2>20
    <3> QED BY <3>3, <3>4, <3>7, <3>8, <3>9
  <2>21. Tally(t, s2, u, given, G)
    <3>1. Tally(t, s, r, given, F)
      BY <1>1 DEF t, s, r
    <3> QED BY <2>20, <3>1, TallyStays
  <2>22. rsp' = u /\ pc' = "read"
    BY <1>2, <1>18 DEF u
  <2> QED BY <1>2, <2>8, <2>19, <2>21, <2>22 DEF WalkInv, s2, t
<1> QED BY <1>9, <1>16, <1>17, <1>18

\* Every step keeps the invariant.
LEMMA WalkKeeps == WalkInv /\ [traverse_read]_walk => WalkInv'
<1>1. CASE UNCHANGED walk
  BY <1>1 DEF WalkInv, walk
<1> QED BY <1>1, BackStep, OpenStep, CloseStep, EntryStep DEF traverse_read

(* traverse_read gives the learner every entry of the tree whose path the buffer holds
   once, under its own path and cut at its name, whatever the levels before left in the
   buffer they share, and whatever was found under a path that was cut short. *)
THEOREM TreeGiven == TraverseSpec => []GivesTheTree
<1>1. WalkInv => GivesTheTree
  <2> SUFFICES ASSUME WalkInv  PROVE GivesTheTree
    OBVIOUS
  <2>1. PICK F : StackOK(tree, stack, rsp, path, F) /\ Tally(tree, stack, rsp, given, F)
    BY DEF WalkInv
  <2>2. tree \in Trees /\ \A p : p \in AllPaths <=> IsPath(tree, p)
    BY AllPathsAre DEF WalkInv
  <2>3. \A p : Written(p) = InBuffer(tree, p)
    BY DEF Written, InBuffer
  <2>4. \A p, k : CharsTo(p, k) = Wide(tree, p, k)
    BY Zenon DEF CharsTo, Wide
  <2>5. \A p : Fitting(p) <=> AllHeld(tree, p)
    BY <2>4 DEF Fitting, Chars, AllHeld
  <2>6. ASSUME NEW p, IsPath(tree, p)  PROVE Fitting(Written(p)) <=> Held(tree, p, Len(p))
    <3>1. Wide(tree, InBuffer(tree, p), Len(InBuffer(tree, p))) = Name(tree, p, Len(p))
      BY <2>2, <2>6, PathNames, BufferWide
    <3> QED BY <2>3, <2>5, <3>1 DEF AllHeld, Held
  <2>7. ASSUME NEW p, NEW offs, IsPath(tree, p), CutAt(tree, p, offs)  PROVE CutAtName(p, offs)
    <3>1. Chars(Written(p)) = Wide(tree, InBuffer(tree, p), Len(InBuffer(tree, p)))
      BY <2>3, <2>4 DEF Chars
    <3>2. Len(p) \in Nat
      BY <2>2, <2>7, PathNames
    <3>3. CASE Len(p) = 1
      <4>1. ~(Len(p) = 2 /\ tree.slash)
        BY <3>3
      <4> QED BY <2>7, <3>3, <4>1 DEF CutAt, CutAtName
    <3>4. CASE Len(p) # 1 /\ Len(p) = 2 /\ tree.slash
      BY <2>7, <3>4 DEF CutAt, CutAtName
    <3>5. CASE Len(p) # 1 /\ ~(Len(p) = 2 /\ tree.slash)
      BY <2>7, <3>1, <3>5 DEF CutAt, CutAtName
    <3> QED BY <3>3, <3>4, <3>5
  <2> DEFINE N == Len(given)
             I == {i \in 1 .. N : AllHeld(tree, given[i].path)}
             A == {p \in AllPaths : Fitting(Written(p))}
  <2>8. /\ given \in Seq(Given) /\ N \in Nat /\ DOMAIN given = 1 .. N
        /\ \A i \in I : \E q : IsPath(tree, q) /\ given[i].path = InBuffer(tree, q) /\ CutAt(tree, q, given[i].offs)
        /\ \A i, j \in 1 .. N : AllHeld(tree, given[i].path) /\ given[i].path = given[j].path => i = j
        /\ \A q : IsPath(tree, q) /\ Held(tree, q, Len(q)) =>
             (Pending(stack, rsp, F, q) <=> ~ \E i \in 1 .. N : given[i].path = InBuffer(tree, q))
    BY <2>1 DEF Tally, Shown
  <2>9. {i \in DOMAIN given : Fitting(given[i].path)} = I
    BY <2>5, <2>8
  <2> HIDE DEF N, A
  <2>10. ASSUME pc = "end"  PROVE Cardinality(I) = Cardinality(A)
    <3>1. \A q : ~Pending(stack, rsp, F, q)
      <4>1. rsp = 0 /\ stack[0].namelen = 0 /\ \A l \in 0 .. 0 : l = 0
        BY <2>10 DEF WalkInv
      <4> QED BY <4>1 DEF Pending, Ahead, IsOpen, Fresh
    <3> DEFINE f == [i \in I |-> CHOOSE q : IsPath(tree, q) /\ given[i].path = InBuffer(tree, q)]
    <3>2. ASSUME NEW i \in I  PROVE IsPath(tree, f[i]) /\ given[i].path = InBuffer(tree, f[i])
      <4>1. \E q : IsPath(tree, q) /\ given[i].path = InBuffer(tree, q)
        BY <2>8
      <4>2. f[i] = CHOOSE q : IsPath(tree, q) /\ given[i].path = InBuffer(tree, q)
        OBVIOUS
      <4> HIDE DEF f
      <4> QED BY <4>1, <4>2, Zenon
    <3>3. DOMAIN f = I /\ f = [i \in I |-> f[i]]
      OBVIOUS
    <3> HIDE DEF f
    <3>4. ASSUME NEW i \in I  PROVE f[i] \in A
      <4>1. AllHeld(tree, given[i].path)
        OBVIOUS
      <4> QED BY <2>2, <2>3, <2>5, <3>2, <4>1 DEF A
    <3>5. \A i, j \in I : f[i] = f[j] => i = j
      BY <2>8, <3>2
    <3>6. ASSUME NEW q \in A  PROVE \E i \in I : f[i] = q
      <4>1. IsPath(tree, q) /\ Held(tree, q, Len(q)) /\ AllHeld(tree, InBuffer(tree, q))
        BY <2>2, <2>3, <2>5, <2>6 DEF A
      <4>2. PICK i \in 1 .. N : given[i].path = InBuffer(tree, q)
        BY <2>8, <3>1, <4>1
      <4>3. i \in I
        BY <4>1, <4>2
      <4>4. InBuffer(tree, q) = InBuffer(tree, f[i]) /\ IsPath(tree, f[i])
        BY <3>2, <4>2, <4>3
      <4> QED BY <2>2, <4>1, <4>3, <4>4, BufferTells
    <3>7. f \in [I -> A]
      <4> HIDE DEF I
      <4> QED BY <3>3, <3>4
    <3>8. f \in Bijection(I, A)
      <4> HIDE DEF I
      <4>1. f \in Injection(I, A)
        BY <3>5, <3>7 DEF Injection, IsInjective
      <4>2. f \in Surjection(I, A)
        BY <3>6, <3>7 DEF Surjection
      <4> QED BY <4>1, <4>2 DEF Bijection
    <3>9. IsFiniteSet(I)
      <4>1. IsFiniteSet(1 .. N)
        BY <2>8, FS_Interval
      <4>2. I \subseteq 1 .. N
        OBVIOUS
      <4> HIDE DEF I
      <4> QED BY <4>1, <4>2, FS_Subset
    <3> HIDE DEF I
    <3>10. ExistsBijection(I, A)
      BY <3>8 DEF ExistsBijection
    <3> QED BY <3>9, <3>10, FS_Bijection
  <2>11. \A i \in I : \E p \in AllPaths : given[i].path = Written(p) /\ CutAtName(p, given[i].offs)
    <3> SUFFICES ASSUME NEW i \in I  PROVE \E p \in AllPaths : given[i].path = Written(p) /\ CutAtName(p, given[i].offs)
      OBVIOUS
    <3>1. PICK q : IsPath(tree, q) /\ given[i].path = InBuffer(tree, q) /\ CutAt(tree, q, given[i].offs)
      BY <2>8
    <3> QED BY <2>2, <2>3, <2>7, <3>1
  <2>12. \A i, j \in DOMAIN given : Fitting(given[i].path) /\ given[i].path = given[j].path => i = j
    BY <2>5, <2>8
  <2>13. \A i \in DOMAIN given : Fitting(given[i].path) =>
           \E p \in AllPaths : given[i].path = Written(p) /\ CutAtName(p, given[i].offs)
    BY <2>9, <2>11
  <2>14. pc = "end" => Cardinality({i \in DOMAIN given : Fitting(given[i].path)})
                         = Cardinality({p \in AllPaths : Fitting(Written(p))})
    BY <2>9, <2>10 DEF A
  <2> QED BY ONLY <2>12, <2>13, <2>14 DEF GivesTheTree
<1> QED BY <1>1, WalkStart, WalkKeeps, PTL DEF TraverseSpec

----------------------------------------------------------------------------
(* Gather: the chains of a thing. *)

Rels == 1 .. Len(store.wire)
StoreOK ==
    /\ store.wire \in Seq(LinkedRel(Thing, Len(store.wire)))
    /\ HomeChains(Thing, Len(store.wire), store.wire, store.head)
    /\ WholeChains(Len(store.wire), store.wire, store.head)
    /\ store.foot \in [Rels -> Nat]
    /\ \A r \in Rels :
         Kind[store.wire[r].src] \in Parts /\ Kind[store.wire[r].dst] \in Parts =>
           Kind[store.wire[r].src] = "pin" /\ Kind[store.wire[r].dst] = "chip"

\* What the assumption says of the store at hand.
LEMMA StoreIsOK == store \in Stores => StoreOK
<1> SUFFICES ASSUME store \in Stores PROVE StoreOK
  OBVIOUS
<1>1. store.wire \in Seq(LinkedRel(Thing, Len(store.wire))) /\ store.foot \in [DOMAIN store.wire -> Nat]
  BY GatherAssumption
<1>2. DOMAIN store.wire = Rels
  BY <1>1 DEF Rels
<1>3. \A r \in DOMAIN store.wire :
         Kind[store.wire[r].src] \in Parts /\ Kind[store.wire[r].dst] \in Parts =>
           Kind[store.wire[r].src] = "pin" /\ Kind[store.wire[r].dst] = "chip"
  BY GatherAssumption, Zenon
<1>4. HomeChains(Thing, Len(store.wire), store.wire, store.head) /\ WholeChains(Len(store.wire), store.wire, store.head)
  BY GatherAssumption, Zenon
<1> QED BY <1>1, <1>2, <1>3, <1>4, Zenon DEF StoreOK

\* The ends and the foot of each relation.
LEMMA RelsAre ==
    ASSUME StoreOK
    PROVE  /\ Len(store.wire) \in Nat /\ DOMAIN store.wire = Rels
           /\ \A r \in Rels : store.wire[r].src \in Thing /\ store.wire[r].dst \in Thing /\ store.foot[r] \in Nat
<1>1. store.wire \in Seq(LinkedRel(Thing, Len(store.wire))) /\ store.foot \in [Rels -> Nat]
  BY DEF StoreOK
<1> DEFINE L == LinkedRel(Thing, Len(store.wire))
<1>2. Len(store.wire) \in Nat /\ DOMAIN store.wire = Rels /\ \A r \in Rels : store.wire[r] \in L
  <2> HIDE DEF L
  <2>1. store.wire \in Seq(L)
    BY <1>1 DEF L
  <2> QED BY <2>1 DEF Rels
<1>3. \A x \in L : x.src \in Thing /\ x.dst \in Thing
  BY DEF LinkedRel
<1> HIDE DEF L
<1> QED BY <1>1, <1>2, <1>3

\* A chain as the loop of its steps.
LEMMA ChainRuns ==
    ASSUME StoreOK, NEW first \in 0 .. Len(store.wire), NEW follow \in [Rels -> 0 .. Len(store.wire)]
    PROVE  \E h \in [0 .. Len(store.wire) -> Seq(Rels)] :
             /\ h[0] = (IF first = 0 THEN << >> ELSE <<first>>) /\ Chain(first, follow) = h[Len(store.wire)]
             /\ \A i \in 1 .. Len(store.wire) : h[i] = Followed(h[i - 1], follow)
<1> DEFINE M == Len(store.wire)
           X == Seq(Rels)
           a == (IF first = 0 THEN << >> ELSE <<first>>)
           Step(i, l) == Followed(l, follow)
<1>1. M \in Nat /\ a \in X
  <2>1. M \in Nat
    BY RelsAre
  <2>2. first # 0 => first \in Rels
    BY <2>1 DEF Rels
  <2> QED BY <2>1, <2>2
<1>2. ASSUME NEW i \in 1 .. M, NEW l \in X  PROVE Step(i, l) \in X
  <2> HIDE DEF M
  <2>1. CASE l = << >>
    BY <2>1 DEF Followed
  <2>2. CASE l # << >>
    <3> DEFINE r == follow[l[Len(l)]]
    <3>1. Len(l) \in 1 .. Len(l) /\ l[Len(l)] \in Rels
      BY <2>2
    <3>2. r \in 0 .. M
      BY <3>1 DEF M
    <3>3. r # 0 => r \in Rels
      BY <1>1, <3>2 DEF Rels, M
    <3>4. Followed(l, follow) = IF r = 0 THEN l ELSE Append(l, r)
      BY <2>2, Zenon DEF Followed
    <3> HIDE DEF r
    <3> QED BY <3>3, <3>4
  <2> QED BY <2>1, <2>2
<1>3. Chain(first, follow) = (CHOOSE g : g = [i \in 0 .. M |-> IF i = 0 THEN a ELSE Step(i, g[i - 1])])[M]
  BY Zenon DEF Chain
<1> DEFINE E == [i \in 1 .. M |-> [l \in X |-> Step(i, l)]]
           Is(g) == g = [i \in 0 .. M |-> IF i = 0 THEN a ELSE Step(i, g[i - 1])]
           h == CHOOSE g : Is(g)
<1>4. \A i \in 1 .. M : \A l \in X : E[i][l] = Step(i, l)
  OBVIOUS
<1>5. E \in [1 .. M -> [X -> X]]
  <2> HIDE DEF Step, X, M
  <2>1. \A i \in 1 .. M : [l \in X |-> Step(i, l)] \in [X -> X]
    BY <1>2
  <2> QED BY <2>1
<1> HIDE DEF E, M, X, a, Step
<1>6. PICK g \in [0 .. M -> X] : Recurs(g, M, a, E)
  BY <1>1, <1>5, RecursionDefines
<1>7. ASSUME NEW i \in 0 .. M  PROVE g[i] = IF i = 0 THEN a ELSE Step(i, g[i - 1])
  <2>1. g[i] = IF i = 0 THEN a ELSE E[i][g[i - 1]]
    BY <1>6 DEF Recurs
  <2>2. i # 0 => i \in 1 .. M /\ i - 1 \in 0 .. M
    BY <1>1
  <2> QED BY <1>4, <2>1, <2>2
<1>8. Is(g)
  <2>1. g = [i \in 0 .. M |-> g[i]]
    OBVIOUS
  <2> QED BY <1>7, <2>1, Zenon
<1>9. Is(h)
  BY <1>8, Zenon
<1> HIDE DEF h
<1>10. \A i \in 0 .. M : h[i] = IF i = 0 THEN a ELSE Step(i, h[i - 1])
  <2>1. h = [i \in 0 .. M |-> IF i = 0 THEN a ELSE Step(i, h[i - 1])]
    BY <1>9
  <2> QED BY <2>1
<1>11. h = [i \in 0 .. M |-> h[i]]
  <2>1. h = [i \in 0 .. M |-> IF i = 0 THEN a ELSE Step(i, h[i - 1])]
    BY <1>9
  <2> HIDE DEF Is
  <2> QED BY <1>10, <2>1, Zenon
<1> HIDE DEF Is
<1> DEFINE T == {i \in 0 .. M : h[i] \in X}
<1>12. \A i \in 0 .. M : i \in T
  <2>1. 0 \in T
    BY <1>1, <1>10
  <2>2. ASSUME NEW n \in 0 .. M - 1, n \in T  PROVE n + 1 \in T
    <3>1. n + 1 \in 0 .. M /\ n + 1 \in 1 .. M /\ n + 1 # 0 /\ (n + 1) - 1 = n
      BY <1>1
    <3>2. h[n + 1] = Step(n + 1, h[n])
      BY <1>10, <3>1
    <3> QED BY <1>2, <2>2, <3>1, <3>2
  <2> HIDE DEF T
  <2> QED BY <1>1, <2>1, <2>2, InductionUpTo
<1>13. h \in [0 .. M -> X]
  <2>1. \A i \in 0 .. M : h[i] \in X
    BY <1>12
  <2> QED BY <1>11, <2>1
<1>14. h[0] = a /\ \A i \in 1 .. M : h[i] = Step(i, h[i - 1])
  BY <1>1, <1>10
<1>15. Chain(first, follow) = h[M]
  BY <1>3, Zenon DEF h, Is
<1> QED BY <1>13, <1>14, <1>15 DEF M, X, a, Step

\* A chain that starts with the first of Own, and leads from each to the next, has all of them.
LEMMA ChainIs ==
    ASSUME StoreOK, NEW first \in 0 .. Len(store.wire), NEW follow \in [Rels -> 0 .. Len(store.wire)],
           NEW Own \in SUBSET Rels,
           first = 0 => Own = {},
           first # 0 => first \in Own /\ \A r \in Own : first <= r,
           \A i \in Own : /\ follow[i] # 0 => follow[i] \in Own /\ follow[i] > i /\ \A r \in Own : r > i => follow[i] <= r
                          /\ follow[i] = 0 => \A r \in Own : r <= i
    PROVE  /\ Chain(first, follow) \in Seq(Rels)
           /\ \A r : r \in Own <=> \E k \in 1 .. Len(Chain(first, follow)) : Chain(first, follow)[k] = r
<1> DEFINE M == Len(store.wire)
<1>1. M \in Nat
  BY RelsAre
<1>2. PICK h \in [0 .. M -> Seq(Rels)] :
        /\ h[0] = (IF first = 0 THEN << >> ELSE <<first>>) /\ Chain(first, follow) = h[M]
        /\ \A i \in 1 .. M : h[i] = Followed(h[i - 1], follow)
  BY ChainRuns
<1>3. Own \subseteq Nat /\ \A r \in Own : r <= M /\ r >= 1
  BY <1>1 DEF Rels
<1> DEFINE Good(n, s) == /\ s # << >> /\ \A k \in 1 .. Len(s) : s[k] \in Own
                         /\ s[Len(s)] >= Len(s)
                         /\ \A r \in Own : r <= s[Len(s)] => \E k \in 1 .. Len(s) : s[k] = r
                         /\ Len(s) = n + 1 \/ follow[s[Len(s)]] = 0
<1>4. CASE first = 0
  <2> DEFINE T == {n \in 0 .. M : h[n] = << >>}
  <2>1. 0 \in T
    BY <1>1, <1>2, <1>4
  <2>2. ASSUME NEW n \in 0 .. M - 1, n \in T  PROVE n + 1 \in T
    <3>1. n + 1 \in 1 .. M /\ (n + 1) - 1 = n /\ n + 1 \in 0 .. M
      BY <1>1
    <3>2. h[n + 1] = Followed(h[n], follow)
      BY <1>2, <3>1
    <3> QED BY <2>2, <3>1, <3>2 DEF Followed
  <2>3. \A n \in 0 .. M : n \in T
    <3> HIDE DEF T, M
    <3> QED BY <1>1, <2>1, <2>2, InductionUpTo
  <2>4. Chain(first, follow) = << >>
    BY <1>1, <1>2, <2>3
  <2>5. << >> \in Seq(Rels) /\ Len(<< >>) = 0 /\ Own = {}
    BY <1>4
  <2>6. \A k : k \notin 1 .. 0
    OBVIOUS
  <2> QED BY <2>4, <2>5, <2>6
<1>5. CASE first # 0
  <2> DEFINE T == {n \in 0 .. M : Good(n, h[n])}
  <2>1. 0 \in T
    <3> DEFINE s == <<first>>
    <3>1. h[0] = s /\ s # << >> /\ Len(s) = 1 /\ s[1] = first /\ first \in Own
      BY <1>2, <1>5
    <3> HIDE DEF s
    <3>2. first >= 1 /\ \A r \in Own : r <= first => r = first
      BY <1>3, <1>5
    <3>3. Good(0, s)
      BY <3>1, <3>2
    <3> QED BY <1>1, <3>1, <3>3
  <2>2. ASSUME NEW n \in 0 .. M - 1, n \in T  PROVE n + 1 \in T
    <3> DEFINE s == h[n]
               last == s[Len(s)]
               r == follow[last]
    <3>1. n + 1 \in 1 .. M /\ (n + 1) - 1 = n /\ n + 1 \in 0 .. M /\ n \in Nat
      BY <1>1
    <3>2. h[n + 1] = Followed(s, follow) /\ s \in Seq(Rels) /\ Good(n, s)
      BY <1>2, <2>2, <3>1
    <3>3. Len(s) \in Nat /\ Len(s) >= 1 /\ last \in Own /\ last \in Rels
      BY <3>2
    <3>4. h[n + 1] = IF r = 0 THEN s ELSE Append(s, r)
      BY <3>2, Zenon DEF Followed
    <3>5. CASE r = 0
      <4>1. Good(n + 1, s)
        BY <3>2, <3>5
      <4> QED BY <3>1, <3>4, <3>5, <4>1
    <3>6. CASE r # 0
      <4>1. r \in Own /\ r > last /\ \A q \in Own : q > last => r <= q
        BY <3>3, <3>6
      <4> DEFINE t == Append(s, r)
      <4>2. Len(t) = Len(s) + 1 /\ t # << >> /\ t[Len(t)] = r /\ \A k \in 1 .. Len(s) : t[k] = s[k]
        <5>1. r \in Rels
          BY <4>1
        <5>2. s \in Seq(Rels) /\ Len(s) \in Nat
          BY <3>2
        <5> HIDE DEF r, s
        <5>3. Len(t) = Len(s) + 1 /\ t[Len(s) + 1] = r /\ \A k \in 1 .. Len(s) : t[k] = s[k]
          BY <5>1, <5>2
        <5>4. t # << >>
          <6>1. Len(s) + 1 # 0 /\ Len(<< >>) = 0
            BY <5>2
          <6> HIDE DEF t
          <6> QED BY <5>3, <6>1
        <5> HIDE DEF t
        <5> QED BY <5>3, <5>4
      <4> HIDE DEF t, r, s, last
      <4>3. \A k \in 1 .. Len(t) : k \in 1 .. Len(s) \/ k = Len(t)
        BY <3>3, <4>2
      <4>4. \A k \in 1 .. Len(t) : t[k] \in Own
        BY <3>2, <4>1, <4>2, <4>3
      <4>5. r >= Len(s) + 1
        <5>1. last >= Len(s)
          BY <3>2 DEF last
        <5>2. r \in Nat /\ last \in Nat
          BY <1>3, <3>3, <4>1
        <5> QED BY <3>3, <4>1, <5>1, <5>2
      <4>6. \A q \in Own : q <= r => \E k \in 1 .. Len(t) : t[k] = q
        <5> SUFFICES ASSUME NEW q \in Own, q <= r  PROVE \E k \in 1 .. Len(t) : t[k] = q
          OBVIOUS
        <5>1. Len(t) \in 1 .. Len(t) /\ \A k \in 1 .. Len(s) : k \in 1 .. Len(t)
          BY <3>3, <4>2
        <5>2. q <= last \/ q = r
          BY <1>3, <3>3, <4>1
        <5>3. CASE q <= last
          <6>1. PICK k \in 1 .. Len(s) : s[k] = q
            BY <3>2, <5>3 DEF last
          <6> QED BY <4>2, <5>1, <6>1
        <5> QED BY <4>2, <5>1, <5>2, <5>3
      <4>7. Len(s) = n + 1
        BY <3>2, <3>6 DEF r, last
      <4>8. Good(n + 1, t)
        BY <4>2, <4>4, <4>5, <4>6, <4>7, <3>1
      <4> QED BY <3>1, <3>4, <3>6, <4>8 DEF t
    <3> QED BY <3>5, <3>6
  <2>3. \A n \in 0 .. M : n \in T
    <3> HIDE DEF T, M
    <3> QED BY <1>1, <2>1, <2>2, InductionUpTo
  <2> DEFINE s == h[M]
             last == s[Len(s)]
  <2>4. Good(M, s) /\ s \in Seq(Rels)
    <3>1. M \in 0 .. M
      BY <1>1
    <3>2. M \in T
      BY <2>3, <3>1
    <3>3. s \in Seq(Rels)
      BY <1>2, <3>1
    <3> HIDE DEF M, Good
    <3> QED BY <3>2, <3>3
  <2>5. Len(s) \in Nat /\ Len(s) >= 1 /\ last \in Own
    <3>1. Len(s) \in Nat /\ Len(s) >= 1
      BY <2>4
    <3>2. \A k \in 1 .. Len(s) : s[k] \in Own
      BY <2>4
    <3> HIDE DEF s
    <3> QED BY <3>1, <3>2
  <2>6. follow[last] = 0
    <3>0. last <= M /\ last >= Len(s) /\ last \in Nat
      BY <1>3, <2>4, <2>5
    <3>1. Len(s) <= M
      <4> HIDE DEF M, last, s
      <4> QED BY <1>1, <2>5, <3>0
    <3> QED BY <1>1, <2>4, <2>5, <3>1
  <2>7. \A r \in Own : \E k \in 1 .. Len(s) : s[k] = r
    BY <2>4, <2>5, <2>6
  <2>8. Chain(first, follow) = s
    BY <1>2
  <2> HIDE DEF s, last
  <2> QED BY <2>4, <2>7, <2>8
<1> QED BY <1>4, <1>5

Holds(s, x) == \E k \in 1 .. Len(s) : s[k] = x

\* The relations that end at a thing, and those that start there.
LEMMA InIs ==
    ASSUME StoreOK, NEW t \in Thing
    PROVE  In(t) \in Seq(Rels) /\ \A r : Holds(In(t), r) <=> r \in Rels /\ store.wire[r].dst = t
<1> DEFINE first == store.head[t].irel0
           follow == [r \in DOMAIN store.wire |-> store.wire[r].samedstnextsrc]
           Own == {r \in Rels : store.wire[r].dst = t}
           M == Len(store.wire)
           w == store.wire
<1>1. M \in Nat /\ DOMAIN store.wire = Rels /\ Rels = 1 .. M
  BY RelsAre DEF Rels
<1>2. HomeChains(Thing, M, w, store.head) /\ WholeChains(M, w, store.head)
  BY DEF StoreOK
<1>3. first \in 0 .. M /\ (first # 0 => first \in Own)
  <2>1. store.head \in [Thing -> [orel0: 0 .. M, oreln: 0 .. M, irel0: 0 .. M, ireln: 0 .. M]]
    BY <1>2, Zenon DEF HomeChains
  <2>2. first \in 0 .. M
    BY <2>1
  <2>3. first # 0 => w[first].dst = t
    BY <1>2, Zenon DEF HomeChains
  <2>4. first # 0 => first \in Rels
    BY <1>1, <2>2
  <2> QED BY <2>2, <2>3, <2>4
<1>4. \A i \in Rels : follow[i] = w[i].samedstnextsrc /\ follow[i] \in 0 .. M
  BY <1>1, <1>2 DEF HomeChains, LinkedRel
<1>5. follow \in [Rels -> 0 .. M]
  BY <1>1, <1>4
<1>6. \A i \in Rels : follow[i] # 0 => follow[i] > i /\ w[follow[i]].dst = w[i].dst
  BY <1>1, <1>2, <1>4 DEF HomeChains
<1>7. \A i \in Own : first \in 1 .. i
  BY <1>1, <1>2 DEF WholeChains
<1>8. \A i \in Own : \A j \in Own : j > i => follow[i] \in 1 .. j
  <2> SUFFICES ASSUME NEW i \in Own, NEW j \in Own, j > i  PROVE follow[i] \in 1 .. j
    OBVIOUS
  <2>1. i \in 1 .. M /\ j \in i + 1 .. M /\ w[j].dst = w[i].dst
    BY <1>1
  <2> QED BY <1>1, <1>2, <1>4, <2>1 DEF WholeChains
<1>9. In(t) = Chain(first, follow)
  BY Zenon DEF In
<1>10. Own \in SUBSET Rels /\ \A i \in Own : i \in Nat
  BY <1>1
<1>11. first = 0 => Own = {}
  BY <1>7
<1>12. first # 0 => first \in Own /\ \A r \in Own : first <= r
  BY <1>3, <1>7
<1>13. ASSUME NEW i \in Own
       PROVE  /\ follow[i] # 0 => follow[i] \in Own /\ follow[i] > i /\ \A r \in Own : r > i => follow[i] <= r
              /\ follow[i] = 0 => \A r \in Own : r <= i
  <2>1. follow[i] # 0 => follow[i] \in Own
    <3>1. i \in Rels /\ w[i].dst = t
      OBVIOUS
    <3>2. follow[i] # 0 => follow[i] \in Rels
      <4>1. follow[i] \in 0 .. M
        BY <1>4, <3>1
      <4> HIDE DEF follow, M
      <4> QED BY <1>1, <4>1
    <3>3. follow[i] # 0 => w[follow[i]].dst = w[i].dst
      BY <1>6, <3>1
    <3> HIDE DEF follow
    <3> QED BY <3>1, <3>2, <3>3
  <2>2. \A r \in Own : r > i => follow[i] <= r /\ follow[i] # 0
    BY <1>8
  <2>3. \A r \in Own : r > i \/ r <= i
    BY <1>10
  <2> QED BY <1>6, <2>1, <2>2, <2>3
<1>15. M = Len(store.wire)
  OBVIOUS
<1> HIDE DEF first, follow, Own, M
<1>14. /\ Chain(first, follow) \in Seq(Rels)
       /\ \A r : r \in Own <=> \E k \in 1 .. Len(Chain(first, follow)) : Chain(first, follow)[k] = r
  <2>1. first \in 0 .. Len(store.wire) /\ follow \in [Rels -> 0 .. Len(store.wire)]
    BY <1>3, <1>5, <1>15
  <2> QED BY <1>10, <1>11, <1>12, <1>13, <2>1, ChainIs
<1> QED BY <1>9, <1>14 DEF Own, Holds

\* And the chain that starts at it of those that start there.
LEMMA OutIs ==
    ASSUME StoreOK, NEW t \in Thing
    PROVE  Out(t) \in Seq(Rels) /\ \A r : Holds(Out(t), r) <=> r \in Rels /\ store.wire[r].src = t
<1> DEFINE first == store.head[t].orel0
           follow == [r \in DOMAIN store.wire |-> store.wire[r].samesrcnextdst]
           Own == {r \in Rels : store.wire[r].src = t}
           M == Len(store.wire)
           w == store.wire
<1>1. M \in Nat /\ DOMAIN store.wire = Rels /\ Rels = 1 .. M
  BY RelsAre DEF Rels
<1>2. HomeChains(Thing, M, w, store.head) /\ WholeChains(M, w, store.head)
  BY DEF StoreOK
<1>3. first \in 0 .. M /\ (first # 0 => first \in Own)
  <2>1. store.head \in [Thing -> [orel0: 0 .. M, oreln: 0 .. M, irel0: 0 .. M, ireln: 0 .. M]]
    BY <1>2, Zenon DEF HomeChains
  <2>2. first \in 0 .. M
    BY <2>1
  <2>3. first # 0 => w[first].src = t
    BY <1>2, Zenon DEF HomeChains
  <2>4. first # 0 => first \in Rels
    BY <1>1, <2>2
  <2> QED BY <2>2, <2>3, <2>4
<1>4. \A i \in Rels : follow[i] = w[i].samesrcnextdst /\ follow[i] \in 0 .. M
  BY <1>1, <1>2 DEF HomeChains, LinkedRel
<1>5. follow \in [Rels -> 0 .. M]
  BY <1>1, <1>4
<1>6. \A i \in Rels : follow[i] # 0 => follow[i] > i /\ w[follow[i]].src = w[i].src
  BY <1>1, <1>2, <1>4 DEF HomeChains
<1>7. \A i \in Own : first \in 1 .. i
  BY <1>1, <1>2 DEF WholeChains
<1>8. \A i \in Own : \A j \in Own : j > i => follow[i] \in 1 .. j
  <2> SUFFICES ASSUME NEW i \in Own, NEW j \in Own, j > i  PROVE follow[i] \in 1 .. j
    OBVIOUS
  <2>1. i \in 1 .. M /\ j \in i + 1 .. M /\ w[j].src = w[i].src
    BY <1>1
  <2> QED BY <1>1, <1>2, <1>4, <2>1 DEF WholeChains
<1>9. Out(t) = Chain(first, follow)
  BY Zenon DEF Out
<1>10. Own \in SUBSET Rels /\ \A i \in Own : i \in Nat
  BY <1>1
<1>11. first = 0 => Own = {}
  BY <1>7
<1>12. first # 0 => first \in Own /\ \A r \in Own : first <= r
  BY <1>3, <1>7
<1>13. ASSUME NEW i \in Own
       PROVE  /\ follow[i] # 0 => follow[i] \in Own /\ follow[i] > i /\ \A r \in Own : r > i => follow[i] <= r
              /\ follow[i] = 0 => \A r \in Own : r <= i
  <2>1. follow[i] # 0 => follow[i] \in Own
    <3>1. i \in Rels /\ w[i].src = t
      OBVIOUS
    <3>2. follow[i] # 0 => follow[i] \in Rels
      <4>1. follow[i] \in 0 .. M
        BY <1>4, <3>1
      <4> HIDE DEF follow, M
      <4> QED BY <1>1, <4>1
    <3>3. follow[i] # 0 => w[follow[i]].src = w[i].src
      BY <1>6, <3>1
    <3> HIDE DEF follow
    <3> QED BY <3>1, <3>2, <3>3
  <2>2. \A r \in Own : r > i => follow[i] <= r /\ follow[i] # 0
    BY <1>8
  <2>3. \A r \in Own : r > i \/ r <= i
    BY <1>10
  <2> QED BY <1>6, <2>1, <2>2, <2>3
<1>15. M = Len(store.wire)
  OBVIOUS
<1> HIDE DEF first, follow, Own, M
<1>14. /\ Chain(first, follow) \in Seq(Rels)
       /\ \A r : r \in Own <=> \E k \in 1 .. Len(Chain(first, follow)) : Chain(first, follow)[k] = r
  <2>1. first \in 0 .. Len(store.wire) /\ follow \in [Rels -> 0 .. Len(store.wire)]
    BY <1>3, <1>5, <1>15
  <2> QED BY <1>10, <1>11, <1>12, <1>13, <2>1, ChainIs
<1> QED BY <1>9, <1>14 DEF Own, Holds

\* What two lists hold, one behind the other.
LEMMA ConcatHolds ==
    ASSUME NEW S, NEW p \in Seq(S), NEW q \in Seq(S)
    PROVE  p \o q \in Seq(S) /\ \A x : Holds(p \o q, x) <=> Holds(p, x) \/ Holds(q, x)
<1> DEFINE c == p \o q
<1>1. c \in Seq(S) /\ Len(p) \in Nat /\ Len(q) \in Nat /\ Len(c) = Len(p) + Len(q)
      /\ \A i \in 1 .. Len(c) : c[i] = IF i <= Len(p) THEN p[i] ELSE q[i - Len(p)]
  BY ConcatProperties
<1>2. ASSUME NEW x, Holds(c, x)  PROVE Holds(p, x) \/ Holds(q, x)
  <2>1. PICK i \in 1 .. Len(c) : c[i] = x
    BY <1>2 DEF Holds
  <2>2. i <= Len(p) => i \in 1 .. Len(p) /\ p[i] = x
    BY <1>1, <2>1
  <2>3. ~(i <= Len(p)) => i - Len(p) \in 1 .. Len(q)
    BY <1>1
  <2>4. ~(i <= Len(p)) => q[i - Len(p)] = x
    BY <1>1, <2>1
  <2> QED BY <2>2, <2>3, <2>4 DEF Holds
<1>3. ASSUME NEW x, Holds(p, x)  PROVE Holds(c, x)
  <2>1. PICK i \in 1 .. Len(p) : p[i] = x
    BY <1>3 DEF Holds
  <2>2. i \in 1 .. Len(c) /\ i <= Len(p)
    BY <1>1
  <2> QED BY <1>1, <2>1, <2>2 DEF Holds
<1>4. ASSUME NEW x, Holds(q, x)  PROVE Holds(c, x)
  <2>1. PICK i \in 1 .. Len(q) : q[i] = x
    BY <1>4 DEF Holds
  <2> DEFINE k == Len(p) + i
  <2>2. k \in 1 .. Len(c) /\ ~(k <= Len(p)) /\ k - Len(p) = i
    BY <1>1
  <2> HIDE DEF k, c
  <2>3. c[k] = q[i]
    BY <1>1, <2>2
  <2> QED BY <2>1, <2>2, <2>3 DEF Holds
<1> HIDE DEF c
<1> QED BY <1>1, <1>2, <1>3, <1>4 DEF c

\* What a list holds of which each entry is looked up.
LEMMA MapHolds ==
    ASSUME NEW S, NEW A, NEW s \in Seq(A), NEW f \in [A -> S], NEW p,
           p = [i \in DOMAIN s |-> f[s[i]]]
    PROVE  p \in Seq(S) /\ Len(p) = Len(s) /\ \A x : Holds(p, x) <=> \E y \in A : Holds(s, y) /\ f[y] = x
<1>1. Len(s) \in Nat /\ DOMAIN s = 1 .. Len(s) /\ \A i \in 1 .. Len(s) : s[i] \in A
  OBVIOUS
<1>2. p = [i \in 1 .. Len(s) |-> f[s[i]]]
  BY <1>1
<1>3. \A i \in 1 .. Len(s) : f[s[i]] \in S
  BY <1>1
<1>4. p \in Seq(S) /\ Len(p) = Len(s)
  BY <1>1, <1>2, <1>3
<1>5. \A i \in 1 .. Len(s) : p[i] = f[s[i]]
  BY <1>2
<1> QED BY <1>1, <1>4, <1>5 DEF Holds

\* What a thing is related to, whichever of the two is the source.
LEMMA OthersIs ==
    ASSUME StoreOK, NEW t \in Thing
    PROVE  Others(t) \in Seq(Thing) /\ \A b : Holds(Others(t), b) <=> \E r \in Rels : Touches(r, t, b)
<1> DEFINE w == store.wire
           ins == In(t)
           outs == Out(t)
           f == [r \in Rels |-> w[r].src]
           g == [r \in Rels |-> w[r].dst]
           p == [i \in DOMAIN ins |-> w[ins[i]].src]
           q == [i \in DOMAIN outs |-> w[outs[i]].dst]
<1>1. \A r \in Rels : w[r].src \in Thing /\ w[r].dst \in Thing
  BY RelsAre
<1>2. f \in [Rels -> Thing] /\ g \in [Rels -> Thing]
  BY <1>1
<1>3. ins \in Seq(Rels) /\ \A r : Holds(ins, r) <=> r \in Rels /\ w[r].dst = t
  BY InIs
<1>4. outs \in Seq(Rels) /\ \A r : Holds(outs, r) <=> r \in Rels /\ w[r].src = t
  BY OutIs
<1>5. \A r \in Rels : f[r] = w[r].src /\ g[r] = w[r].dst
  OBVIOUS
<1>6. Others(t) = p \o q
  BY Zenon DEF Others
<1> HIDE DEF ins, outs
<1>7. p = [i \in DOMAIN ins |-> f[ins[i]]] /\ q = [i \in DOMAIN outs |-> g[outs[i]]]
  <2>1. (\A i \in DOMAIN ins : ins[i] \in Rels) /\ (\A i \in DOMAIN outs : outs[i] \in Rels)
    BY <1>3, <1>4
  <2> QED BY <2>1
<1> HIDE DEF f, g, p, q
<1>8. p \in Seq(Thing) /\ \A x : Holds(p, x) <=> \E y \in Rels : Holds(ins, y) /\ f[y] = x
  <2>1. ins \in Seq(Rels) /\ f \in [Rels -> Thing] /\ p = [i \in DOMAIN ins |-> f[ins[i]]]
    BY <1>2, <1>3, <1>7
  <2> QED BY ONLY <2>1, MapHolds
<1>9. q \in Seq(Thing) /\ \A x : Holds(q, x) <=> \E y \in Rels : Holds(outs, y) /\ g[y] = x
  <2>1. outs \in Seq(Rels) /\ g \in [Rels -> Thing] /\ q = [i \in DOMAIN outs |-> g[outs[i]]]
    BY <1>2, <1>4, <1>7
  <2> QED BY ONLY <2>1, MapHolds
<1>10. p \o q \in Seq(Thing) /\ \A x : Holds(p \o q, x) <=> Holds(p, x) \/ Holds(q, x)
  BY <1>8, <1>9, ConcatHolds
<1>11. \A b : Holds(p \o q, b) <=> \E r \in Rels : (w[r].dst = t /\ w[r].src = b) \/ (w[r].src = t /\ w[r].dst = b)
  BY <1>3, <1>4, <1>5, <1>8, <1>9, <1>10
<1>12. \A b, r : Touches(r, t, b) <=> (w[r].dst = t /\ w[r].src = b) \/ (w[r].src = t /\ w[r].dst = b)
  BY DEF Touches
<1> HIDE DEF w
<1>13. \A b : (\E r \in Rels : Touches(r, t, b)) <=> \E r \in Rels : (w[r].dst = t /\ w[r].src = b) \/ (w[r].src = t /\ w[r].dst = b)
  BY <1>12
<1> QED BY ONLY <1>6, <1>10, <1>11, <1>13

\* Of the parts of a circuit, what a pin or a chip is related to, and by which foot.
LEMMA FeetAtIs ==
    ASSUME StoreOK, NEW t \in Thing, Kind[t] \in Parts
    PROVE  /\ FeetAt(t) \in Seq([thing : Thing, foot : Nat])
           /\ \A e \in [thing : Thing, foot : Nat] : Kind[e.thing] \in Parts =>
                (Holds(FeetAt(t), e) <=>
                   \E r \in Rels :
                     \/ Kind[t] = "pin" /\ Kind[e.thing] = "chip" /\ store.wire[r].src = t
                          /\ store.wire[r].dst = e.thing /\ store.foot[r] = e.foot
                     \/ Kind[t] = "chip" /\ Kind[e.thing] = "pin" /\ store.wire[r].src = e.thing
                          /\ store.wire[r].dst = t /\ store.foot[r] = e.foot)
<1> DEFINE w == store.wire
           E == [thing : Thing, foot : Nat]
           ins == In(t)
           outs == Out(t)
           from(r) == [thing |-> w[r].src, foot |-> IF Kind[w[r].src] = "chip" THEN 0 ELSE store.foot[r]]
           to(r) == [thing |-> w[r].dst, foot |-> IF Kind[w[r].dst] = "chip" THEN store.foot[r] ELSE 0]
           f == [r \in Rels |-> from(r)]
           g == [r \in Rels |-> to(r)]
           p == [i \in DOMAIN ins |-> from(ins[i])]
           q == [i \in DOMAIN outs |-> to(outs[i])]
<1>1. \A r \in Rels : w[r].src \in Thing /\ w[r].dst \in Thing /\ store.foot[r] \in Nat
  BY RelsAre
<1>2. \A r \in Rels : from(r) \in E /\ to(r) \in E
  BY <1>1
<1>3. ins \in Seq(Rels) /\ \A r : Holds(ins, r) <=> r \in Rels /\ w[r].dst = t
  BY InIs
<1>4. outs \in Seq(Rels) /\ \A r : Holds(outs, r) <=> r \in Rels /\ w[r].src = t
  BY OutIs
<1>5. \A r \in Rels : f[r] = from(r) /\ g[r] = to(r)
  OBVIOUS
<1>6. FeetAt(t) = p \o q
  BY Zenon DEF FeetAt
<1>a. \A r \in Rels, e \in E : from(r) = e <=> w[r].src = e.thing /\ e.foot = IF Kind[w[r].src] = "chip" THEN 0 ELSE store.foot[r]
  OBVIOUS
<1>b. \A r \in Rels, e \in E : to(r) = e <=> w[r].dst = e.thing /\ e.foot = IF Kind[w[r].dst] = "chip" THEN store.foot[r] ELSE 0
  OBVIOUS
<1> HIDE DEF ins, outs, from, to
<1>7. p = [i \in DOMAIN ins |-> f[ins[i]]] /\ q = [i \in DOMAIN outs |-> g[outs[i]]]
  <2>1. (\A i \in DOMAIN ins : ins[i] \in Rels) /\ (\A i \in DOMAIN outs : outs[i] \in Rels)
    BY <1>3, <1>4
  <2> QED BY <2>1
<1>c. f \in [Rels -> E] /\ g \in [Rels -> E]
  <2> HIDE DEF E
  <2> QED BY <1>2
<1> HIDE DEF f, g, p, q, E
<1>8. p \in Seq(E) /\ \A x : Holds(p, x) <=> \E y \in Rels : Holds(ins, y) /\ f[y] = x
  <2>1. ins \in Seq(Rels) /\ f \in [Rels -> E] /\ p = [i \in DOMAIN ins |-> f[ins[i]]]
    BY <1>c, <1>3, <1>7
  <2> QED BY ONLY <2>1, MapHolds
<1>9. q \in Seq(E) /\ \A x : Holds(q, x) <=> \E y \in Rels : Holds(outs, y) /\ g[y] = x
  <2>1. outs \in Seq(Rels) /\ g \in [Rels -> E] /\ q = [i \in DOMAIN outs |-> g[outs[i]]]
    BY <1>c, <1>4, <1>7
  <2> QED BY ONLY <2>1, MapHolds
<1>10. p \o q \in Seq(E) /\ \A x : Holds(p \o q, x) <=> Holds(p, x) \/ Holds(q, x)
  BY <1>8, <1>9, ConcatHolds
<1>11. \A x : Holds(p \o q, x) <=> \E r \in Rels : (w[r].dst = t /\ from(r) = x) \/ (w[r].src = t /\ to(r) = x)
  BY <1>3, <1>4, <1>5, <1>8, <1>9, <1>10
<1>12. \A r \in Rels : Kind[w[r].src] \in Parts /\ Kind[w[r].dst] \in Parts => Kind[w[r].src] = "pin" /\ Kind[w[r].dst] = "chip"
  BY Zenon DEF StoreOK
<1>13. ASSUME NEW e \in E, Kind[e.thing] \in Parts, NEW r \in Rels
       PROVE  (w[r].dst = t /\ from(r) = e) \/ (w[r].src = t /\ to(r) = e) <=>
                     \/ Kind[t] = "pin" /\ Kind[e.thing] = "chip" /\ w[r].src = t
                          /\ w[r].dst = e.thing /\ store.foot[r] = e.foot
                     \/ Kind[t] = "chip" /\ Kind[e.thing] = "pin" /\ w[r].src = e.thing
                          /\ w[r].dst = t /\ store.foot[r] = e.foot
  BY <1>a, <1>b, <1>12, <1>13
<1> HIDE DEF w
<1>14. \A e \in E : Kind[e.thing] \in Parts =>
                (Holds(p \o q, e) <=>
                   \E r \in Rels :
                     \/ Kind[t] = "pin" /\ Kind[e.thing] = "chip" /\ w[r].src = t
                          /\ w[r].dst = e.thing /\ store.foot[r] = e.foot
                     \/ Kind[t] = "chip" /\ Kind[e.thing] = "pin" /\ w[r].src = e.thing
                          /\ w[r].dst = t /\ store.foot[r] = e.foot)
  BY <1>11, <1>13
<1> QED BY <1>6, <1>10, <1>14 DEF E, w

----------------------------------------------------------------------------
(* Gather: what is near, and the tables. *)

NextTo(S, kinds) == {b \in Thing : \E a \in S, r \in DOMAIN store.wire : Kind[a] \in kinds /\ Touches(r, a, b)}

ReachBy(h, t, kinds, depth) ==
    /\ h \in [0 .. depth -> SUBSET Thing] /\ h[0] = {t} /\ Reach(t, kinds, depth) = h[depth]
    /\ \A i \in 1 .. depth : h[i] = h[i - 1] \cup NextTo(h[i - 1], kinds)

\* Reach as the loop of its steps.
LEMMA ReachRuns ==
    ASSUME NEW t \in Thing, NEW kinds \in SUBSET ThingKinds, NEW depth \in Nat
    PROVE  \E h : ReachBy(h, t, kinds, depth)
<1> DEFINE M == depth
           X == SUBSET Thing
           a == {t}
           Step(i, l) == l \cup NextTo(l, kinds)
<1>1. M \in Nat /\ a \in X
  OBVIOUS
<1>2. ASSUME NEW i \in 1 .. M, NEW l \in X  PROVE Step(i, l) \in X
  BY DEF NextTo
<1>3. Reach(t, kinds, depth) = (CHOOSE g : g = [i \in 0 .. M |-> IF i = 0 THEN a ELSE Step(i, g[i - 1])])[M]
  BY Zenon DEF Reach, NextTo
<1> DEFINE E == [i \in 1 .. M |-> [l \in X |-> Step(i, l)]]
           Is(g) == g = [i \in 0 .. M |-> IF i = 0 THEN a ELSE Step(i, g[i - 1])]
           h == CHOOSE g : Is(g)
<1>4. \A i \in 1 .. M : \A l \in X : E[i][l] = Step(i, l)
  OBVIOUS
<1>5. E \in [1 .. M -> [X -> X]]
  <2> HIDE DEF Step, X, M
  <2>1. \A i \in 1 .. M : [l \in X |-> Step(i, l)] \in [X -> X]
    BY <1>2
  <2> QED BY <2>1
<1> HIDE DEF E, M, X, a, Step
<1>6. PICK g \in [0 .. M -> X] : Recurs(g, M, a, E)
  BY <1>1, <1>5, RecursionDefines
<1>7. ASSUME NEW i \in 0 .. M  PROVE g[i] = IF i = 0 THEN a ELSE Step(i, g[i - 1])
  <2>1. g[i] = IF i = 0 THEN a ELSE E[i][g[i - 1]]
    BY <1>6 DEF Recurs
  <2>2. i # 0 => i \in 1 .. M /\ i - 1 \in 0 .. M
    BY <1>1
  <2> QED BY <1>4, <2>1, <2>2
<1>8. Is(g)
  <2>1. g = [i \in 0 .. M |-> g[i]]
    OBVIOUS
  <2> QED BY <1>7, <2>1, Zenon
<1>9. Is(h)
  BY <1>8, Zenon
<1> HIDE DEF h
<1>10. \A i \in 0 .. M : h[i] = IF i = 0 THEN a ELSE Step(i, h[i - 1])
  <2>1. h = [i \in 0 .. M |-> IF i = 0 THEN a ELSE Step(i, h[i - 1])]
    BY <1>9
  <2> QED BY <2>1
<1>11. h = [i \in 0 .. M |-> h[i]]
  <2>1. h = [i \in 0 .. M |-> IF i = 0 THEN a ELSE Step(i, h[i - 1])]
    BY <1>9
  <2> HIDE DEF Is
  <2> QED BY <1>10, <2>1, Zenon
<1> HIDE DEF Is
<1> DEFINE T == {i \in 0 .. M : h[i] \in X}
<1>12. \A i \in 0 .. M : i \in T
  <2>1. 0 \in T
    BY <1>1, <1>10
  <2>2. ASSUME NEW n \in 0 .. M - 1, n \in T  PROVE n + 1 \in T
    <3>1. n + 1 \in 0 .. M /\ n + 1 \in 1 .. M /\ n + 1 # 0 /\ (n + 1) - 1 = n
      BY <1>1
    <3>2. h[n + 1] = Step(n + 1, h[n])
      BY <1>10, <3>1
    <3> QED BY <1>2, <2>2, <3>1, <3>2
  <2> HIDE DEF T
  <2> QED BY <1>1, <2>1, <2>2, InductionUpTo
<1>13. h \in [0 .. M -> X]
  <2>1. \A i \in 0 .. M : h[i] \in X
    BY <1>12
  <2> QED BY <1>11, <2>1
<1>14. h[0] = a /\ \A i \in 1 .. M : h[i] = Step(i, h[i - 1])
  BY <1>1, <1>10
<1>15. Reach(t, kinds, depth) = h[M]
  BY <1>3, Zenon DEF h, Is
<1>16. ReachBy(h, t, kinds, depth)
  BY <1>13, <1>14, <1>15, Zenon DEF ReachBy, M, X, a, Step
<1> QED BY <1>16, Zenon

\* The ball of one relation more is the ball and all next to it.
LEMMA ReachIs ==
    ASSUME NEW t \in Thing, NEW kinds \in SUBSET ThingKinds, NEW k \in Nat
    PROVE  /\ Reach(t, kinds, 0) = {t} /\ Reach(t, kinds, k) \subseteq Thing
           /\ Reach(t, kinds, k + 1) = Reach(t, kinds, k) \cup NextTo(Reach(t, kinds, k), kinds)
<1>1. Reach(t, kinds, 0) = {t}
  <2>1. PICK h : ReachBy(h, t, kinds, 0)
    BY ReachRuns
  <2> QED BY <2>1 DEF ReachBy
<1>2. PICK h : ReachBy(h, t, kinds, k)
  BY ReachRuns
<1> DEFINE d == k + 1
<1>d. d \in Nat
  OBVIOUS
<1> HIDE DEF d
<1>3. PICK g : ReachBy(g, t, kinds, d)
  BY <1>d, ReachRuns
<1>2a. /\ h \in [0 .. k -> SUBSET Thing] /\ h[0] = {t} /\ Reach(t, kinds, k) = h[k]
       /\ \A i \in 1 .. k : h[i] = h[i - 1] \cup NextTo(h[i - 1], kinds)
  BY <1>2, Zenon DEF ReachBy
<1>3a. /\ g \in [0 .. d -> SUBSET Thing] /\ g[0] = {t} /\ Reach(t, kinds, d) = g[d]
       /\ \A i \in 1 .. d : g[i] = g[i - 1] \cup NextTo(g[i - 1], kinds)
  BY <1>3, Zenon DEF ReachBy
<1> DEFINE T == {i \in 0 .. k : h[i] = g[i]}
<1>4. 0 \in T
  <2>1. 0 \in 0 .. k
    OBVIOUS
  <2> QED BY <1>2a, <1>3a, <2>1, Zenon
<1>5. ASSUME NEW n \in 0 .. k - 1, n \in T  PROVE n + 1 \in T
  <2>1. n + 1 \in 1 .. k /\ n + 1 \in 1 .. d /\ (n + 1) - 1 = n /\ n + 1 \in 0 .. k
    BY DEF d
  <2>2. h[n + 1] = h[n] \cup NextTo(h[n], kinds) /\ g[n + 1] = g[n] \cup NextTo(g[n], kinds)
    BY <1>2a, <1>3a, <2>1
  <2> QED BY <1>5, <2>1, <2>2
<1>6. \A n \in 0 .. k : n \in T
  <2> HIDE DEF T
  <2> QED BY <1>4, <1>5, InductionUpTo
<1>7. h[k] = g[k] /\ h[k] \subseteq Thing
  <2>1. k \in 0 .. k
    OBVIOUS
  <2> QED BY <1>2a, <1>6, <2>1
<1>8. g[d] = g[k] \cup NextTo(g[k], kinds)
  <2>1. d \in 1 .. d /\ d - 1 = k
    BY DEF d
  <2> QED BY <1>3a, <2>1
<1> QED BY <1>1, <1>2a, <1>3a, <1>7, <1>8, Zenon DEF d

Extends(s, t) == Len(s) <= Len(t) /\ \A i \in 1 .. Len(s) : t[i] = s[i]

\* A table with t in it.
LEMMA AddedIs ==
    ASSUME NEW S, NEW table \in Seq(S), NEW t \in S, IsInjective(table)
    PROVE  /\ Added(table, t) \in Seq(S) /\ IsInjective(Added(table, t))
           /\ Extends(table, Added(table, t))
           /\ At(Added(table, t), t) \in 1 .. Len(Added(table, t)) /\ Added(table, t)[At(Added(table, t), t)] = t
           /\ \A x : Holds(Added(table, t), x) <=> Holds(table, x) \/ x = t
<1> DEFINE T == Added(table, t)
<1>1. Len(table) \in Nat /\ DOMAIN table = 1 .. Len(table)
  OBVIOUS
<1>2. ASSUME T \in Seq(S), NEW k \in 1 .. Len(T), T[k] = t
      PROVE  At(T, t) \in 1 .. Len(T) /\ T[At(T, t)] = t
  <2> HIDE DEF T
  <2>1. DOMAIN T = 1 .. Len(T)
    BY <1>2
  <2> QED BY <1>2, <2>1 DEF At
<1>3. CASE \E i \in DOMAIN table : table[i] = t
  <2>1. T = table
    BY <1>3 DEF Added
  <2> HIDE DEF T
  <2>2. PICK k \in 1 .. Len(T) : T[k] = t
    BY <1>1, <1>3, <2>1
  <2>3. At(T, t) \in 1 .. Len(T) /\ T[At(T, t)] = t
    BY <1>2, <2>1, <2>2
  <2>4. Extends(table, T)
    BY <1>1, <2>1 DEF Extends
  <2> QED BY <1>1, <2>1, <2>2, <2>3, <2>4 DEF Holds, T
<1>4. CASE ~\E i \in DOMAIN table : table[i] = t
  <2>1. T = Append(table, t)
    BY <1>4 DEF Added
  <2>2. T \in Seq(S) /\ Len(T) = Len(table) + 1 /\ T[Len(table) + 1] = t /\ \A i \in 1 .. Len(table) : T[i] = table[i]
    BY <2>1
  <2> HIDE DEF T
  <2>3. \A i \in 1 .. Len(T) : i \in 1 .. Len(table) \/ i = Len(table) + 1
    BY <1>1, <2>2
  <2>4. Len(table) + 1 \in 1 .. Len(T) /\ Len(table) <= Len(T) /\ \A i \in 1 .. Len(table) : i \in 1 .. Len(T)
    BY <1>1, <2>2
  <2>5. \A i \in 1 .. Len(table) : T[i] # t
    BY <1>1, <1>4, <2>2
  <2>6. IsInjective(T)
    <3>1. DOMAIN T = 1 .. Len(T)
      BY <2>2
    <3> SUFFICES ASSUME NEW a \in 1 .. Len(T), NEW b \in 1 .. Len(T), T[a] = T[b]  PROVE a = b
      BY <3>1 DEF IsInjective
    <3>2. a \in 1 .. Len(table) /\ b \in 1 .. Len(table) => a = b
      BY <1>1, <2>2 DEF IsInjective
    <3> QED BY <2>2, <2>3, <2>5, <3>2
  <2>7. At(T, t) \in 1 .. Len(T) /\ T[At(T, t)] = t
    BY <1>2, <2>2, <2>4
  <2>8. \A x : Holds(T, x) <=> Holds(table, x) \/ x = t
    BY <2>2, <2>3, <2>4 DEF Holds
  <2>9. Extends(table, T)
    BY <2>2, <2>4 DEF Extends
  <2> QED BY <2>2, <2>6, <2>7, <2>8, <2>9 DEF T
<1> QED BY <1>3, <1>4

\* A wire kept once.
LEMMA WiredIs ==
    ASSUME NEW S, NEW table \in Seq(S), NEW t \in S, IsInjective(table)
    PROVE  /\ Wired(table, t) \in Seq(S) /\ IsInjective(Wired(table, t))
           /\ Extends(table, Wired(table, t))
           /\ \A x : Holds(Wired(table, t), x) <=> Holds(table, x) \/ x = t
<1>1. Wired(table, t) = Added(table, t)
  BY DEF Wired, Added
<1>2. Added(table, t) \in Seq(S) /\ IsInjective(Added(table, t))
  BY AddedIs
<1>3. Extends(table, Added(table, t))
  BY AddedIs
<1>4. \A x : Holds(Added(table, t), x) <=> Holds(table, x) \/ x = t
  BY AddedIs
<1> QED BY <1>1, <1>2, <1>3, <1>4, Zenon

----------------------------------------------------------------------------
(* Gather: what render opens. *)

\* Tables as render keeps them: each thing once, each pair once with its lower entry first.
Drawing(ns, ws) ==
    /\ ns \in Seq(Thing) /\ IsInjective(ns) /\ ws \in Seq(Nat \X Nat) /\ IsInjective(ws)
    /\ \A x : Holds(ws, x) => x[1] \in 1 .. Len(ns) /\ x[2] \in 1 .. Len(ns) /\ x[1] < x[2]
PairIn(ns, ws, p) == \E x : Holds(ws, x) /\ p = {ns[x[1]], ns[x[2]]}

LinkMade(f, g, j, t) ==
    /\ Drawing(g.nodes, g.wires) /\ Extends(f.nodes, g.nodes) /\ Extends(f.wires, g.wires)
    /\ \A b : Holds(g.nodes, b) <=> Holds(f.nodes, b) \/ b = t
    /\ \A p : PairIn(g.nodes, g.wires, p) <=>
                PairIn(f.nodes, f.wires, p) \/ (t # f.nodes[j] /\ p = {f.nodes[j], t})

\* render_addnode and render_addpair, of one end: the tables gain it and its pair.
LEMMA LinkedIs ==
    ASSUME NEW f, Drawing(f.nodes, f.wires), NEW j \in 1 .. Len(f.nodes), NEW t \in Thing
    PROVE  LinkMade(f, LinkedTo(f, j, t), j, t)
<1> DEFINE ns == f.nodes
           ws == f.wires
           T == Added(ns, t)
           k == At(T, t)
           x == IF j < k THEN <<j, k>> ELSE <<k, j>>
           W == render_addpair(ws, j, k)
           g == LinkedTo(f, j, t)
<1>1. g.nodes = T /\ g.wires = W
  BY DEF LinkedTo
<1>2. ns \in Seq(Thing) /\ IsInjective(ns) /\ ws \in Seq(Nat \X Nat) /\ IsInjective(ws) /\ Len(ns) \in Nat /\ Len(ws) \in Nat
  BY DEF Drawing
<1>3. \A y : Holds(ws, y) => y[1] \in 1 .. Len(ns) /\ y[2] \in 1 .. Len(ns) /\ y[1] < y[2]
  BY DEF Drawing
<1>4. T \in Seq(Thing) /\ IsInjective(T)
  BY <1>2, AddedIs
<1>5. Len(ns) <= Len(T) /\ \A i \in 1 .. Len(ns) : T[i] = ns[i]
  <2>1. Extends(ns, T)
    BY <1>2, AddedIs
  <2> QED BY <2>1 DEF Extends
<1>6. k \in 1 .. Len(T) /\ T[k] = t
  BY <1>2, AddedIs
<1>7. \A b : Holds(T, b) <=> Holds(ns, b) \/ b = t
  BY <1>2, AddedIs
<1> HIDE DEF T, k, ns, ws, g
<1>8. j \in 1 .. Len(ns) /\ Len(T) \in Nat /\ T[j] = ns[j]
  BY <1>4, <1>5 DEF ns
<1>9. j = k <=> t = ns[j]
  <2>1. j \in DOMAIN T /\ k \in DOMAIN T
    BY <1>2, <1>4, <1>5, <1>6, <1>8
  <2> QED BY <1>4, <1>6, <1>8, <2>1 DEF IsInjective
<1>10. Extends(ns, T)
  BY <1>5 DEF Extends
<1>11. CASE j = k
  <2>1. W = ws
    BY <1>11 DEF render_addpair
  <2>2. Extends(ws, W)
    BY <1>2, <2>1 DEF Extends
  <2>3. \A y : Holds(W, y) => y[1] \in 1 .. Len(T) /\ y[2] \in 1 .. Len(T) /\ y[1] < y[2]
    BY <1>2, <1>3, <1>5, <1>8, <2>1
  <2>4. Drawing(T, W)
    BY <1>2, <1>4, <2>1, <2>3 DEF Drawing
  <2>5. \A p : PairIn(T, W, p) <=> PairIn(ns, ws, p)
    BY <1>3, <1>5, <2>1 DEF PairIn
  <2> QED BY <1>1, <1>7, <1>9, <1>10, <1>11, <2>2, <2>4, <2>5 DEF LinkMade, ns, ws, g
<1>12. CASE j # k
  <2>1. W = Wired(ws, x)
    BY <1>12 DEF render_addpair
  <2>2. x \in Nat \X Nat /\ x[1] \in 1 .. Len(T) /\ x[2] \in 1 .. Len(T) /\ x[1] < x[2] /\ {T[x[1]], T[x[2]]} = {ns[j], t}
    BY <1>2, <1>5, <1>6, <1>8, <1>12
  <2> HIDE DEF x, W
  <2>3. W \in Seq(Nat \X Nat) /\ IsInjective(W)
    BY <1>2, <2>1, <2>2, WiredIs
  <2>4. Extends(ws, W)
    BY <1>2, <2>1, <2>2, WiredIs
  <2>5. \A y : Holds(W, y) <=> Holds(ws, y) \/ y = x
    BY <1>2, <2>1, <2>2, WiredIs
  <2>6. \A y : Holds(W, y) => y[1] \in 1 .. Len(T) /\ y[2] \in 1 .. Len(T) /\ y[1] < y[2]
    <3>1. \A i \in 1 .. Len(ns) : i \in 1 .. Len(T)
      BY <1>2, <1>5, <1>8
    <3> QED BY <1>3, <2>2, <2>5, <3>1
  <2>7. Drawing(T, W)
    BY <1>4, <2>3, <2>6 DEF Drawing
  <2>8. \A p : PairIn(T, W, p) <=> PairIn(ns, ws, p) \/ p = {ns[j], t}
    <3>1. \A y : Holds(ws, y) => {T[y[1]], T[y[2]]} = {ns[y[1]], ns[y[2]]}
      BY <1>3, <1>5
    <3> QED BY <2>2, <2>5, <3>1 DEF PairIn
  <2> QED BY <1>1, <1>7, <1>9, <1>10, <1>12, <2>4, <2>7, <2>8 DEF LinkMade, ns, ws, g
<1> QED BY <1>11, <1>12

Towards(j) == IF Kind[nodes[j]] = "shap" THEN << >> ELSE Others(nodes[j])
Drawings(j) == {f \in [nodes : Seq(Thing), wires : Seq(Nat \X Nat)] : Drawing(f.nodes, f.wires) /\ j \in 1 .. Len(f.nodes)}

\* The ends render opens are those next to the entry.
LEMMA TowardsIs ==
    ASSUME StoreOK, Drawing(nodes, wires), NEW j \in 1 .. Len(nodes)
    PROVE  /\ Towards(j) \in Seq(Thing) /\ nodes[j] \in Thing
           /\ \A b : Holds(Towards(j), b) <=> Kind[nodes[j]] # "shap" /\ \E r \in Rels : Touches(r, nodes[j], b)
<1>1. nodes[j] \in Thing
  BY DEF Drawing
<1>2. CASE Kind[nodes[j]] = "shap"
  BY <1>1, <1>2 DEF Towards, Holds
<1>3. CASE Kind[nodes[j]] # "shap"
  <2>1. Towards(j) = Others(nodes[j])
    BY <1>3 DEF Towards
  <2>2. Others(nodes[j]) \in Seq(Thing) /\ \A b : Holds(Others(nodes[j]), b) <=> \E r \in Rels : Touches(r, nodes[j], b)
    BY <1>1, OthersIs
  <2> QED BY <1>1, <1>3, <2>1, <2>2, Zenon
<1> QED BY <1>2, <1>3

OpenedBy(h, j) ==
    /\ h \in [0 .. Len(Towards(j)) -> Drawings(j)] /\ h[0] = [nodes |-> nodes, wires |-> wires] /\ Opened(j) = h[Len(Towards(j))]
    /\ \A i \in 1 .. Len(Towards(j)) : h[i] = LinkedTo(h[i - 1], j, Towards(j)[i])

\* The opening of an entry as the loop of its steps.
LEMMA OpenedRuns ==
    ASSUME StoreOK, Drawing(nodes, wires), NEW j \in 1 .. Len(nodes)
    PROVE  \E h : OpenedBy(h, j)
<1> DEFINE M == Len(Towards(j))
           X == Drawings(j)
           a == [nodes |-> nodes, wires |-> wires]
           Step(i, l) == LinkedTo(l, j, Towards(j)[i])
<1>1. M \in Nat /\ a \in X
  <2>1. Len(Towards(j)) \in Nat
    BY TowardsIs
  <2> QED BY <2>1 DEF Drawings, Drawing
<1>2. ASSUME NEW i \in 1 .. M, NEW l \in X  PROVE Step(i, l) \in X
  <2>1. Towards(j) \in Seq(Thing)
    BY TowardsIs
  <2> DEFINE t == Towards(j)[i]
             g == LinkedTo(l, j, t)
  <2>2. t \in Thing
    BY <2>1
  <2>3. l \in [nodes : Seq(Thing), wires : Seq(Nat \X Nat)] /\ Drawing(l.nodes, l.wires) /\ j \in 1 .. Len(l.nodes)
    BY DEF Drawings
  <2> HIDE DEF t
  <2>4. LinkMade(l, g, j, t)
    BY <2>2, <2>3, LinkedIs
  <2>5. g = [nodes |-> g.nodes, wires |-> g.wires]
    BY DEF LinkedTo
  <2> HIDE DEF g
  <2>6. g.nodes \in Seq(Thing) /\ g.wires \in Seq(Nat \X Nat) /\ Drawing(g.nodes, g.wires)
    BY <2>4 DEF LinkMade, Drawing
  <2>7. j \in 1 .. Len(g.nodes)
    <3>1. Len(l.nodes) <= Len(g.nodes) /\ Len(g.nodes) \in Nat /\ Len(l.nodes) \in Nat
      BY <2>3, <2>4, <2>6 DEF LinkMade, Extends
    <3> QED BY <2>3, <3>1
  <2>8. g \in Drawings(j)
    <3>1. g \in [nodes : Seq(Thing), wires : Seq(Nat \X Nat)]
      BY <2>5, <2>6
    <3> QED BY <2>6, <2>7, <3>1 DEF Drawings
  <2> QED BY <2>8 DEF g, t
<1>3. Opened(j) = (CHOOSE g : g = [i \in 0 .. M |-> IF i = 0 THEN a ELSE Step(i, g[i - 1])])[M]
  BY Zenon DEF Opened, Towards
<1> DEFINE E == [i \in 1 .. M |-> [l \in X |-> Step(i, l)]]
           Is(g) == g = [i \in 0 .. M |-> IF i = 0 THEN a ELSE Step(i, g[i - 1])]
           h == CHOOSE g : Is(g)
<1>4. \A i \in 1 .. M : \A l \in X : E[i][l] = Step(i, l)
  OBVIOUS
<1>5. E \in [1 .. M -> [X -> X]]
  <2> HIDE DEF Step, X, M
  <2>1. \A i \in 1 .. M : [l \in X |-> Step(i, l)] \in [X -> X]
    BY <1>2
  <2> QED BY <2>1
<1> HIDE DEF E, M, X, a, Step
<1>6. PICK g \in [0 .. M -> X] : Recurs(g, M, a, E)
  BY <1>1, <1>5, RecursionDefines
<1>7. ASSUME NEW i \in 0 .. M  PROVE g[i] = IF i = 0 THEN a ELSE Step(i, g[i - 1])
  <2>1. g[i] = IF i = 0 THEN a ELSE E[i][g[i - 1]]
    BY <1>6 DEF Recurs
  <2>2. i # 0 => i \in 1 .. M /\ i - 1 \in 0 .. M
    BY <1>1
  <2> QED BY <1>4, <2>1, <2>2
<1>8. Is(g)
  <2>1. g = [i \in 0 .. M |-> g[i]]
    OBVIOUS
  <2> QED BY <1>7, <2>1, Zenon
<1>9. Is(h)
  BY <1>8, Zenon
<1> HIDE DEF h
<1>10. \A i \in 0 .. M : h[i] = IF i = 0 THEN a ELSE Step(i, h[i - 1])
  <2>1. h = [i \in 0 .. M |-> IF i = 0 THEN a ELSE Step(i, h[i - 1])]
    BY <1>9
  <2> QED BY <2>1
<1>11. h = [i \in 0 .. M |-> h[i]]
  <2>1. h = [i \in 0 .. M |-> IF i = 0 THEN a ELSE Step(i, h[i - 1])]
    BY <1>9
  <2> HIDE DEF Is
  <2> QED BY <1>10, <2>1, Zenon
<1> HIDE DEF Is
<1> DEFINE T == {i \in 0 .. M : h[i] \in X}
<1>12. \A i \in 0 .. M : i \in T
  <2>1. 0 \in T
    BY <1>1, <1>10
  <2>2. ASSUME NEW n \in 0 .. M - 1, n \in T  PROVE n + 1 \in T
    <3>1. n + 1 \in 0 .. M /\ n + 1 \in 1 .. M /\ n + 1 # 0 /\ (n + 1) - 1 = n
      BY <1>1
    <3>2. h[n + 1] = Step(n + 1, h[n])
      BY <1>10, <3>1
    <3> QED BY <1>2, <2>2, <3>1, <3>2
  <2> HIDE DEF T
  <2> QED BY <1>1, <2>1, <2>2, InductionUpTo
<1>13. h \in [0 .. M -> X]
  <2>1. \A i \in 0 .. M : h[i] \in X
    BY <1>12
  <2> QED BY <1>11, <2>1
<1>14. h[0] = a /\ \A i \in 1 .. M : h[i] = Step(i, h[i - 1])
  BY <1>1, <1>10
<1>15. Opened(j) = h[M]
  BY <1>3, Zenon DEF h, Is
<1>16. OpenedBy(h, j)
  BY <1>13, <1>14, <1>15, Zenon DEF OpenedBy, M, X, a, Step
<1> QED BY <1>16, Zenon

\* An entry opened: the tables gain all that is next to it, and its pairs.
LEMMA OpenedIs ==
    ASSUME StoreOK, Drawing(nodes, wires), NEW j \in 1 .. Len(nodes)
    PROVE  /\ Drawing(Opened(j).nodes, Opened(j).wires)
           /\ Extends(nodes, Opened(j).nodes) /\ Extends(wires, Opened(j).wires)
           /\ \A b : Holds(Opened(j).nodes, b) <=> Holds(nodes, b) \/ Holds(Towards(j), b)
           /\ \A p : PairIn(Opened(j).nodes, Opened(j).wires, p) <=>
                       \/ PairIn(nodes, wires, p)
                       \/ \E b : Holds(Towards(j), b) /\ b # nodes[j] /\ p = {nodes[j], b}
<1> DEFINE M == Len(Towards(j))
           t == Towards(j)
           a == nodes[j]
<1>1. M \in Nat /\ t \in Seq(Thing) /\ nodes \in Seq(Thing) /\ wires \in Seq(Nat \X Nat)
  BY TowardsIs DEF Drawing
<1>2. PICK h : OpenedBy(h, j)
  BY OpenedRuns
<1>3. /\ h \in [0 .. M -> Drawings(j)] /\ h[0] = [nodes |-> nodes, wires |-> wires] /\ Opened(j) = h[M]
      /\ \A i \in 1 .. M : h[i] = LinkedTo(h[i - 1], j, t[i])
  BY <1>2, Zenon DEF OpenedBy
<1> DEFINE Upto(n, f) ==
             /\ Extends(nodes, f.nodes) /\ Extends(wires, f.wires)
             /\ \A b : Holds(f.nodes, b) <=> Holds(nodes, b) \/ \E i \in 1 .. n : t[i] = b
             /\ \A p : PairIn(f.nodes, f.wires, p) <=>
                         PairIn(nodes, wires, p) \/ \E i \in 1 .. n : t[i] # a /\ p = {a, t[i]}
           S == {n \in 0 .. M : Upto(n, h[n])}
<1>4. 0 \in S
  <2>1. 0 \in 0 .. M /\ h[0].nodes = nodes /\ h[0].wires = wires /\ \A i : i \notin 1 .. 0
    BY <1>1, <1>3
  <2>2. Extends(nodes, nodes) /\ Extends(wires, wires)
    BY <1>1 DEF Extends
  <2>3. Upto(0, h[0])
    BY <2>1, <2>2
  <2> QED BY <2>1, <2>3
<1>5. ASSUME NEW n \in 0 .. M - 1, n \in S  PROVE n + 1 \in S
  <2> DEFINE f == h[n]
             g == h[n + 1]
             u == t[n + 1]
  <2>1. n + 1 \in 1 .. M /\ n + 1 \in 0 .. M /\ (n + 1) - 1 = n /\ n \in 0 .. M /\ n \in Nat
    BY <1>1
  <2>2. g = LinkedTo(f, j, u) /\ Upto(n, f) /\ f \in Drawings(j)
    <3>1. h[n + 1] = LinkedTo(h[(n + 1) - 1], j, t[n + 1])
      BY <1>3, <2>1
    <3>2. Upto(n, h[n])
      BY <1>5
    <3>3. h[n] \in Drawings(j)
      BY <1>3, <2>1
    <3> QED BY <2>1, <3>1, <3>2, <3>3
  <2>3. u \in Thing
    BY <1>1, <2>1
  <2>4. Drawing(f.nodes, f.wires) /\ j \in 1 .. Len(f.nodes)
    BY <2>2 DEF Drawings
  <2> HIDE DEF f, g, u, Upto
  <2>5. LinkMade(f, g, j, u)
    BY <2>2, <2>3, <2>4, LinkedIs
  <2>6. f.nodes[j] = a
    BY <2>2 DEF Extends, Upto
  <2>7. Extends(nodes, g.nodes) /\ Extends(wires, g.wires)
    <3>1. Extends(nodes, f.nodes) /\ Extends(wires, f.wires) /\ Extends(f.nodes, g.nodes) /\ Extends(f.wires, g.wires)
      BY <2>2, <2>5 DEF Upto, LinkMade
    <3>2. Len(nodes) \in Nat /\ Len(wires) \in Nat /\ Len(f.nodes) \in Nat /\ Len(f.wires) \in Nat /\ Len(g.nodes) \in Nat /\ Len(g.wires) \in Nat
      BY <1>1, <2>4, <2>5 DEF LinkMade, Drawing
    <3>3. \A A, B, C : Len(A) \in Nat /\ Len(B) \in Nat /\ Len(C) \in Nat /\ Extends(A, B) /\ Extends(B, C) => Extends(A, C)
      BY DEF Extends
    <3> QED BY <3>1, <3>2, <3>3
  <2>8. \A q : (\E i \in 1 .. n + 1 : t[i] = q) <=> (\E i \in 1 .. n : t[i] = q) \/ u = q
    <3>1. \A i \in 1 .. n + 1 : i \in 1 .. n \/ i = n + 1
      BY <2>1
    <3>2. n + 1 \in 1 .. n + 1 /\ \A i \in 1 .. n : i \in 1 .. n + 1
      BY <2>1
    <3> QED BY <3>1, <3>2 DEF u
  <2>9. \A b : Holds(g.nodes, b) <=> Holds(nodes, b) \/ \E i \in 1 .. n + 1 : t[i] = b
    <3>1. \A b : Holds(g.nodes, b) <=> Holds(f.nodes, b) \/ b = u
      BY <2>5 DEF LinkMade
    <3>2. \A b : Holds(f.nodes, b) <=> Holds(nodes, b) \/ \E i \in 1 .. n : t[i] = b
      BY <2>2 DEF Upto
    <3> QED BY <2>8, <3>1, <3>2
  <2>10. \A p : PairIn(g.nodes, g.wires, p) <=>
                  PairIn(nodes, wires, p) \/ \E i \in 1 .. n + 1 : t[i] # a /\ p = {a, t[i]}
    <3>1. \A p : PairIn(g.nodes, g.wires, p) <=> PairIn(f.nodes, f.wires, p) \/ (u # a /\ p = {a, u})
      BY <2>5, <2>6 DEF LinkMade
    <3>2. \A p : PairIn(f.nodes, f.wires, p) <=>
                   PairIn(nodes, wires, p) \/ \E i \in 1 .. n : t[i] # a /\ p = {a, t[i]}
      BY <2>2 DEF Upto
    <3>3. \A p : (\E i \in 1 .. n + 1 : t[i] # a /\ p = {a, t[i]}) <=>
                   (\E i \in 1 .. n : t[i] # a /\ p = {a, t[i]}) \/ (u # a /\ p = {a, u})
      <4>1. \A i \in 1 .. n + 1 : i \in 1 .. n \/ i = n + 1
        BY <2>1
      <4>2. n + 1 \in 1 .. n + 1 /\ \A i \in 1 .. n : i \in 1 .. n + 1
        BY <2>1
      <4> HIDE DEF a, t
      <4> QED BY <4>1, <4>2 DEF u
    <3> HIDE DEF a, t
    <3> QED BY <3>1, <3>2, <3>3
  <2>11. Upto(n + 1, g)
    BY <2>7, <2>9, <2>10 DEF Upto
  <2> QED BY <2>1, <2>11 DEF g
<1>6. \A n \in 0 .. M : n \in S
  <2> HIDE DEF S, M
  <2> QED BY <1>1, <1>4, <1>5, InductionUpTo
<1> DEFINE o == Opened(j)
<1>7. Upto(M, o) /\ o \in Drawings(j)
  <2>1. M \in 0 .. M
    BY <1>1
  <2>2. Upto(M, h[M])
    BY <1>6, <2>1
  <2>3. h[M] \in Drawings(j)
    BY <1>3, <2>1
  <2> HIDE DEF Upto
  <2> QED BY <1>3, <2>2, <2>3
<1> HIDE DEF o
<1>8. Drawing(o.nodes, o.wires)
  BY <1>7 DEF Drawings
<1>9. \A b : Holds(t, b) <=> \E i \in 1 .. M : t[i] = b
  BY DEF Holds
<1>10. \A p : (\E i \in 1 .. M : t[i] # a /\ p = {a, t[i]}) <=> \E b : Holds(t, b) /\ b # a /\ p = {a, b}
  BY DEF Holds
<1> QED BY <1>7, <1>8, <1>9, <1>10 DEF o

----------------------------------------------------------------------------
(* Gather: what render has drawn. *)

\* The first n entries are the things of S, the first m wires the pairs of P.
DrawnTo(ns, n, ws, m, S, P) ==
    /\ n \in 1 .. Len(ns) /\ m \in 0 .. Len(ws)
    /\ \A i \in 1 .. m : ws[i][1] \in 1 .. n /\ ws[i][2] \in 1 .. n
    /\ \A b : (\E i \in 1 .. n : ns[i] = b) <=> b \in S
    /\ \A p : (\E i \in 1 .. m : p = {ns[ws[i][1]], ns[ws[i][2]]}) <=> p \in P

\* Each thing and each pair once, so that the tables are as long as the sets are large.
LEMMA DrawnCounts ==
    ASSUME NEW ns, NEW ws, NEW n, NEW m, NEW S, NEW P, Drawing(ns, ws), DrawnTo(ns, n, ws, m, S, P)
    PROVE  Cardinality(S) = n /\ Cardinality(P) = m
<1>1. ns \in Seq(Thing) /\ IsInjective(ns) /\ ws \in Seq(Nat \X Nat) /\ IsInjective(ws)
  BY DEF Drawing
<1>2. n \in Nat /\ m \in Nat /\ (\A i \in 1 .. n : i \in DOMAIN ns) /\ \A i \in 1 .. m : i \in DOMAIN ws
  BY <1>1 DEF DrawnTo
<1>3. Cardinality(S) = n
  <2> DEFINE f == [i \in 1 .. n |-> ns[i]]
  <2>1. \A i \in 1 .. n : f[i] \in S
    BY DEF DrawnTo
  <2>2. f \in [1 .. n -> S]
    BY <2>1
  <2>3. \A i, k \in 1 .. n : f[i] = f[k] => i = k
    BY <1>1, <1>2 DEF IsInjective
  <2>4. \A b \in S : \E i \in 1 .. n : f[i] = b
    BY DEF DrawnTo
  <2>5. f \in Bijection(1 .. n, S)
    BY <2>2, <2>3, <2>4 DEF Bijection, Injection, Surjection, IsInjective
  <2>6. ExistsBijection(1 .. n, S)
    BY <2>5 DEF ExistsBijection
  <2> QED BY <1>2, <2>6, FS_CountingElements
<1>4. Cardinality(P) = m
  <2> DEFINE f == [i \in 1 .. m |-> {ns[ws[i][1]], ns[ws[i][2]]}]
  <2>1. \A i \in 1 .. m : f[i] \in P
    BY DEF DrawnTo
  <2>2. f \in [1 .. m -> P]
    BY <2>1
  <2>3. \A i, k \in 1 .. m : f[i] = f[k] => i = k
    <3> SUFFICES ASSUME NEW i \in 1 .. m, NEW k \in 1 .. m, f[i] = f[k]  PROVE i = k
      OBVIOUS
    <3> DEFINE x == ws[i]
               y == ws[k]
    <3>1. {ns[x[1]], ns[x[2]]} = {ns[y[1]], ns[y[2]]}
      OBVIOUS
    <3>2. x \in Nat \X Nat /\ y \in Nat \X Nat
      BY <1>1, <1>2
    <3>3. x[1] < x[2] /\ y[1] < y[2] /\ x[1] \in DOMAIN ns /\ x[2] \in DOMAIN ns /\ y[1] \in DOMAIN ns /\ y[2] \in DOMAIN ns
      <4>1. Holds(ws, x) /\ Holds(ws, y)
        <5>1. i \in 1 .. Len(ws) /\ k \in 1 .. Len(ws)
          BY <1>1, <1>2
        <5> QED BY <5>1 DEF Holds
      <4>2. DOMAIN ns = 1 .. Len(ns)
        BY <1>1
      <4> HIDE DEF x, y
      <4> QED BY <4>1, <4>2 DEF Drawing
    <3>4. x = y => i = k
      BY <1>1, <1>2 DEF IsInjective
    <3> HIDE DEF x, y, f
    <3>5. (x[1] = y[1] /\ x[2] = y[2]) \/ (x[1] = y[2] /\ x[2] = y[1])
      BY <1>1, <3>1, <3>3 DEF IsInjective
    <3>6. x[1] = y[1] /\ x[2] = y[2]
      BY <3>2, <3>3, <3>5
    <3> QED BY <3>2, <3>4, <3>6
  <2>4. \A p \in P : \E i \in 1 .. m : f[i] = p
    <3> SUFFICES ASSUME NEW p \in P  PROVE \E i \in 1 .. m : f[i] = p
      OBVIOUS
    <3>1. PICK i \in 1 .. m : p = {ns[ws[i][1]], ns[ws[i][2]]}
      BY DEF DrawnTo
    <3> QED BY <3>1
  <2> HIDE DEF f
  <2>5. f \in Bijection(1 .. m, P)
    BY <2>2, <2>3, <2>4 DEF Bijection, Injection, Surjection, IsInjective
  <2>6. ExistsBijection(1 .. m, P)
    BY <2>5 DEF ExistsBijection
  <2> QED BY <1>2, <2>6, FS_CountingElements
<1> QED BY <1>3, <1>4

\* Of the tables that are shown.
Showing(ns, ws, S, P) ==
    /\ IsInjective(ns) /\ Range(ns) = S
    /\ IsInjective(ws) /\ \A x \in Range(ws) : x[2] \in DOMAIN ns
    /\ {{ns[x[1]], ns[x[2]]} : x \in Range(ws)} = P

\* Such tables are what the property asks for.
LEMMA DrawnShows ==
    ASSUME NEW ns, NEW ws, NEW n, NEW m, NEW S, NEW P, Drawing(ns, ws), DrawnTo(ns, n, ws, m, S, P),
           NEW T \in Seq(Thing), Len(T) = n, \A i \in 1 .. n : T[i] = ns[i],
           NEW U \in Seq(Nat \X Nat), Len(U) = m, \A i \in 1 .. m : U[i] = ws[i]
    PROVE  Drawing(T, U) /\ Showing(T, U, S, P)
<1>1. ns \in Seq(Thing) /\ IsInjective(ns) /\ ws \in Seq(Nat \X Nat) /\ IsInjective(ws)
  BY DEF Drawing
<1>2. (\A i \in 1 .. n : i \in DOMAIN ns) /\ (\A i \in 1 .. m : i \in DOMAIN ws /\ i \in 1 .. Len(ws))
  <2>1. Len(ns) \in Nat /\ Len(ws) \in Nat /\ DOMAIN ns = 1 .. Len(ns) /\ DOMAIN ws = 1 .. Len(ws)
    BY <1>1
  <2>2. n \in 1 .. Len(ns) /\ m \in 0 .. Len(ws)
    BY DEF DrawnTo
  <2> QED BY <2>1, <2>2
<1>3. DOMAIN T = 1 .. n /\ DOMAIN U = 1 .. m
  OBVIOUS
<1>4. IsInjective(T) /\ IsInjective(U)
  BY <1>1, <1>2, <1>3 DEF IsInjective
<1>5. Range(T) = S
  BY <1>3 DEF Range, DrawnTo
<1>6. \A i \in 1 .. m : U[i][1] \in 1 .. n /\ U[i][2] \in 1 .. n
  BY DEF DrawnTo
<1>7. \A x \in Range(U) : x[2] \in DOMAIN T
  BY <1>3, <1>6 DEF Range
<1>8. \A i \in 1 .. m : {T[U[i][1]], T[U[i][2]]} = {ns[ws[i][1]], ns[ws[i][2]]}
  BY <1>6
<1>9. {{T[x[1]], T[x[2]]} : x \in Range(U)} = P
  <2> DEFINE Was(i) == {ns[ws[i][1]], ns[ws[i][2]]}
             Is(x) == {T[x[1]], T[x[2]]}
  <2>1. \A p : (\E i \in 1 .. m : p = Was(i)) <=> p \in P
    BY DEF DrawnTo
  <2>2. \A i \in 1 .. m : Is(U[i]) = Was(i)
    BY <1>8
  <2>3. Range(U) = {U[i] : i \in 1 .. m}
    BY <1>3 DEF Range
  <2> HIDE DEF Was, Is
  <2>4. \A p \in {Is(x) : x \in Range(U)} : p \in P
    BY <2>1, <2>2, <2>3
  <2>5. \A p \in P : p \in {Is(x) : x \in Range(U)}
    BY <2>1, <2>2, <2>3
  <2>6. {Is(x) : x \in Range(U)} = P
    BY <2>4, <2>5
  <2> QED BY <2>6 DEF Is
<1>10. \A x : Holds(U, x) => x[1] \in 1 .. Len(T) /\ x[2] \in 1 .. Len(T) /\ x[1] < x[2]
  <2> SUFFICES ASSUME NEW i \in 1 .. m
               PROVE  U[i][1] \in 1 .. n /\ U[i][2] \in 1 .. n /\ U[i][1] < U[i][2]
    BY DEF Holds
  <2>1. Holds(ws, ws[i])
    BY <1>2 DEF Holds
  <2>2. ws[i][1] < ws[i][2]
    BY <2>1 DEF Drawing
  <2> QED BY <1>6, <2>2
<1>11. Drawing(T, U)
  BY <1>4, <1>10 DEF Drawing
<1> QED BY <1>4, <1>5, <1>7, <1>9, <1>11 DEF Showing

\* What was drawn stays drawn when tables grow.
LEMMA DrawnExtends ==
    ASSUME NEW ns, NEW ws, NEW n, NEW m, NEW S, NEW P, Drawing(ns, ws), DrawnTo(ns, n, ws, m, S, P),
           NEW T, NEW U, Drawing(T, U), Extends(ns, T), Extends(ws, U)
    PROVE  DrawnTo(T, n, U, m, S, P)
<1>1. Len(ns) \in Nat /\ Len(ws) \in Nat /\ Len(T) \in Nat /\ Len(U) \in Nat
  BY DEF Drawing
<1>2. n \in 1 .. Len(ns) /\ m \in 0 .. Len(ws) /\ \A i \in 1 .. m : ws[i][1] \in 1 .. n /\ ws[i][2] \in 1 .. n
  BY DEF DrawnTo
<1>3. n \in 1 .. Len(T) /\ m \in 0 .. Len(U)
  BY <1>1, <1>2 DEF Extends
<1>4. (\A i \in 1 .. n : T[i] = ns[i]) /\ (\A i \in 1 .. m : U[i] = ws[i])
  BY <1>1, <1>2 DEF Extends
<1>5. \A i \in 1 .. m : {T[U[i][1]], T[U[i][2]]} = {ns[ws[i][1]], ns[ws[i][2]]}
  BY <1>2, <1>4
<1>6. \A b : (\E i \in 1 .. n : T[i] = b) <=> b \in S
  BY <1>4 DEF DrawnTo
<1>7. \A p : (\E i \in 1 .. m : p = {T[U[i][1]], T[U[i][2]]}) <=> p \in P
  <2> DEFINE Was(i) == {ns[ws[i][1]], ns[ws[i][2]]}
             Is(i) == {T[U[i][1]], T[U[i][2]]}
  <2>1. \A p : (\E i \in 1 .. m : p = Was(i)) <=> p \in P
    BY DEF DrawnTo
  <2>2. \A i \in 1 .. m : Is(i) = Was(i)
    BY <1>5
  <2> HIDE DEF Was, Is
  <2>3. \A p : (\E i \in 1 .. m : p = Is(i)) <=> p \in P
    BY <2>1, <2>2
  <2> QED BY <2>3 DEF Is
<1>8. \A i \in 1 .. m : U[i][1] \in 1 .. n /\ U[i][2] \in 1 .. n
  BY <1>2, <1>4
<1> QED BY <1>3, <1>6, <1>7, <1>8 DEF DrawnTo

Opening == ThingKinds \ {"shap"}

\* A pair is drawn when a relation joins two things, one of which was opened.
LEMMA PairsAre ==
    ASSUME StoreOK, NEW S \in SUBSET Thing, NEW p
    PROVE  p \in RelatedPairs(S) <=>
             \E a \in S, b \in Thing, r \in Rels : Kind[a] # "shap" /\ Touches(r, a, b) /\ a # b /\ p = {a, b}
<1>1. DOMAIN store.wire = Rels
  BY RelsAre
<1> DEFINE w == store.wire
<1>2. p \in RelatedPairs(S) <=>
        /\ \E a \in S, b \in Thing : Kind[a] # "shap" /\ p = {a, b}
        /\ \E r \in Rels : w[r].src # w[r].dst /\ p = {w[r].src, w[r].dst}
  BY <1>1 DEF RelatedPairs
<1>3. \A a, b, r : Touches(r, a, b) => (a # b <=> w[r].src # w[r].dst)
  BY DEF Touches
<1>4. ASSUME p \in RelatedPairs(S)
      PROVE  \E a \in S, b \in Thing, r \in Rels : Kind[a] # "shap" /\ Touches(r, a, b) /\ a # b /\ p = {a, b}
  <2>1. PICK a \in S, b \in Thing : Kind[a] # "shap" /\ p = {a, b}
    BY <1>2, <1>4
  <2>2. PICK r \in Rels : w[r].src # w[r].dst /\ p = {w[r].src, w[r].dst}
    BY <1>2, <1>4
  <2>3. Touches(r, a, b)
    BY <2>1, <2>2 DEF Touches
  <2>4. a # b
    BY <1>3, <2>2, <2>3
  <2> QED BY <2>1, <2>3, <2>4
<1>5. ASSUME NEW a \in S, NEW b \in Thing, NEW r \in Rels, Kind[a] # "shap" /\ Touches(r, a, b) /\ a # b /\ p = {a, b}
      PROVE  p \in RelatedPairs(S)
  <2>1. w[r].src # w[r].dst
    BY <1>3, <1>5
  <2>2. p = {w[r].src, w[r].dst}
    BY <1>5 DEF Touches
  <2> HIDE DEF w
  <2> QED BY <1>2, <1>5, <2>1, <2>2
<1> QED BY <1>4, <1>5

\* An entry opened adds what is next to it.
LEMMA DrawnGrows ==
    ASSUME StoreOK, Drawing(nodes, wires), NEW j \in 1 .. Len(nodes), NEW C, NEW S \in SUBSET Thing,
           DrawnTo(nodes, Len(nodes), wires, Len(wires), C \cup NextTo(S, Opening), RelatedPairs(S))
    PROVE  LET o == Opened(j)
               B == S \cup {nodes[j]}
           IN  DrawnTo(o.nodes, Len(o.nodes), o.wires, Len(o.wires), C \cup NextTo(B, Opening), RelatedPairs(B))
<1> DEFINE o == Opened(j)
           a == nodes[j]
           B == S \cup {a}
<1>1. Drawing(o.nodes, o.wires) /\ Extends(nodes, o.nodes)
  BY OpenedIs
<1>2. \A b : Holds(o.nodes, b) <=> Holds(nodes, b) \/ Holds(Towards(j), b)
  BY OpenedIs
<1>3. \A p : PairIn(o.nodes, o.wires, p) <=>
               \/ PairIn(nodes, wires, p)
               \/ \E b : Holds(Towards(j), b) /\ b # a /\ p = {a, b}
  BY OpenedIs
<1>4. a \in Thing /\ Towards(j) \in Seq(Thing)
  BY TowardsIs
<1>5. \A b : Holds(Towards(j), b) <=> Kind[a] # "shap" /\ \E r \in Rels : Touches(r, a, b)
  BY TowardsIs
<1>6. \A b : Holds(Towards(j), b) => b \in Thing
  BY <1>4 DEF Holds
<1>7. Kind[a] # "shap" <=> Kind[a] \in Opening
  BY <1>4, GatherAssumption DEF Opening
<1>8. DOMAIN store.wire = Rels
  BY RelsAre
<1> HIDE DEF o, a
<1>9. \A b : b \in NextTo(B, Opening) <=> b \in NextTo(S, Opening) \/ Holds(Towards(j), b)
  BY <1>5, <1>6, <1>7, <1>8 DEF NextTo
<1>10. \A p : p \in RelatedPairs(B) <=>
               p \in RelatedPairs(S) \/ \E b : Holds(Towards(j), b) /\ b # a /\ p = {a, b}
  <2>1. B \in SUBSET Thing
    BY <1>4
  <2>2. \A p : p \in RelatedPairs(B) <=>
         \E x \in B, b \in Thing, r \in Rels : Kind[x] # "shap" /\ Touches(r, x, b) /\ x # b /\ p = {x, b}
    BY <2>1, PairsAre
  <2>3. \A p : p \in RelatedPairs(S) <=>
         \E x \in S, b \in Thing, r \in Rels : Kind[x] # "shap" /\ Touches(r, x, b) /\ x # b /\ p = {x, b}
    BY PairsAre
  <2> DEFINE Q(x, p) == \E b \in Thing, r \in Rels : Kind[x] # "shap" /\ Touches(r, x, b) /\ x # b /\ p = {x, b}
  <2>4. \A p : (p \in RelatedPairs(B) <=> \E x \in B : Q(x, p)) /\ (p \in RelatedPairs(S) <=> \E x \in S : Q(x, p))
    BY <2>2, <2>3
  <2>5. \A p : Q(a, p) <=> \E b : Holds(Towards(j), b) /\ b # a /\ p = {a, b}
    BY <1>5, <1>6
  <2>6. \A x : x \in B <=> x \in S \/ x = a
    OBVIOUS
  <2> HIDE DEF Q, B
  <2>7. \A p : p \in RelatedPairs(B) <=> p \in RelatedPairs(S) \/ Q(a, p)
    BY <2>4, <2>6
  <2> QED BY <2>5, <2>7
<1>11. \A b : Holds(nodes, b) <=> b \in C \cup NextTo(S, Opening)
  BY DEF DrawnTo, Holds
<1>12. \A p : PairIn(nodes, wires, p) <=> p \in RelatedPairs(S)
  BY DEF DrawnTo, PairIn, Holds
<1>13. \A b : Holds(o.nodes, b) <=> b \in C \cup NextTo(B, Opening)
  BY <1>2, <1>9, <1>11
<1>14. \A p : PairIn(o.nodes, o.wires, p) <=> p \in RelatedPairs(B)
  BY <1>3, <1>10, <1>12
<1> HIDE DEF B
<1>15. Len(o.nodes) \in 1 .. Len(o.nodes) /\ Len(o.wires) \in 0 .. Len(o.wires)
  <2>1. Len(o.nodes) \in Nat /\ Len(o.wires) \in Nat /\ Len(nodes) \in Nat
    BY <1>1 DEF Drawing
  <2> QED BY <1>1, <2>1 DEF Extends
<1>16. \A i \in 1 .. Len(o.wires) : o.wires[i][1] \in 1 .. Len(o.nodes) /\ o.wires[i][2] \in 1 .. Len(o.nodes)
  BY <1>1 DEF Drawing, Holds
<1>17. DrawnTo(o.nodes, Len(o.nodes), o.wires, Len(o.wires), C \cup NextTo(B, Opening), RelatedPairs(B))
  <2>1. \A b : (\E i \in 1 .. Len(o.nodes) : o.nodes[i] = b) <=> b \in C \cup NextTo(B, Opening)
    BY <1>13 DEF Holds
  <2> DEFINE Pair(x) == {o.nodes[x[1]], o.nodes[x[2]]}
  <2>2. \A p : (\E x : Holds(o.wires, x) /\ p = Pair(x)) <=> p \in RelatedPairs(B)
    BY <1>14 DEF PairIn
  <2> HIDE DEF Pair
  <2>3. \A p : (\E i \in 1 .. Len(o.wires) : p = Pair(o.wires[i])) <=> p \in RelatedPairs(B)
    BY <2>2 DEF Holds
  <2>4. \A p : (\E i \in 1 .. Len(o.wires) : p = {o.nodes[o.wires[i][1]], o.nodes[o.wires[i][2]]}) <=> p \in RelatedPairs(B)
    BY <2>3 DEF Pair
  <2> QED BY <1>15, <1>16, <2>1, <2>4 DEF DrawnTo
<1> QED BY <1>17 DEF o, B, a

----------------------------------------------------------------------------
(* Gather: the rounds of render. *)

Ball(k) == Reach(asked.thing, ThingKinds \ {"shap"}, k)
PairsShown(k) == IF k = 0 THEN {} ELSE RelatedPairs(Ball(k - 1))
Seen == {nodes[i] : i \in 1 .. next - 1}
Depth ==
    IF Cardinality(RelatedPairs(Ball(0))) >= WireStop THEN 0
    ELSE IF Cardinality(Ball(1)) >= NodeStop \/ Cardinality(RelatedPairs(Ball(1))) >= WireStop THEN 1
    ELSE 2

\* In a round: what was drawn when it began, and what is drawn by now.
Rounding ==
    /\ layer.count \in {0, 1} /\ next \in 1 .. layer.nodes + 1
    /\ DrawnTo(nodes, layer.nodes, wires, layer.wires, Ball(layer.count), PairsShown(layer.count))
    /\ DrawnTo(nodes, Len(nodes), wires, Len(wires), Ball(layer.count) \cup NextTo(Seen, Opening), RelatedPairs(Seen))
    /\ layer.count = 1 => Cardinality(RelatedPairs(Ball(0))) < WireStop /\ Cardinality(Ball(1)) < NodeStop
RenderInv ==
    task = "render" =>
      /\ asked.thing \in Thing /\ Drawing(nodes, wires)
      /\ phase \in {"bfs", "done", "overrun"}
      /\ phase = "bfs" => Rounding
      /\ phase = "done" => Showing(nodes, wires, Ball(Depth), PairsShown(Depth))

\* A step that keeps the store and the name keeps the balls.
LEMMA BallsKeep ==
    ASSUME store' = store, asked' = asked
    PROVE  /\ \A k : Ball(k)' = Ball(k) /\ PairsShown(k)' = PairsShown(k)
           /\ \A S : RelatedPairs(S)' = RelatedPairs(S) /\ NextTo(S, Opening)' = NextTo(S, Opening)
           /\ Depth' = Depth
<1>1. \A k : Ball(k)' = Ball(k)
  BY DEF Ball, Reach, Touches
<1>2. \A S : RelatedPairs(S)' = RelatedPairs(S)
  BY DEF RelatedPairs
<1>3. \A S : NextTo(S, Opening)' = NextTo(S, Opening)
  BY DEF NextTo, Touches, Opening
<1>4. \A k : PairsShown(k)' = PairsShown(k)
  <2> SUFFICES ASSUME NEW k  PROVE PairsShown(k)' = PairsShown(k)
    OBVIOUS
  <2>1. RelatedPairs(Ball(k - 1))' = RelatedPairs(Ball(k - 1))
    <3>1. Ball(k - 1)' = Ball(k - 1)
      BY <1>1
    <3> QED BY <3>1 DEF RelatedPairs
  <2> QED BY <2>1 DEF PairsShown
<1>5. Depth' = Depth
  <2>1. RelatedPairs(Ball(0))' = RelatedPairs(Ball(0)) /\ RelatedPairs(Ball(1))' = RelatedPairs(Ball(1))
    <3>1. Ball(0)' = Ball(0) /\ Ball(1)' = Ball(1)
      BY <1>1
    <3> QED BY <3>1 DEF RelatedPairs
  <2> QED BY <1>1, <2>1, Zenon DEF Depth
<1> QED BY <1>1, <1>2, <1>3, <1>4, <1>5

\* The balls around a name grow by what is next to them.
LEMMA BallsAre ==
    ASSUME asked.thing \in Thing
    PROVE  /\ Ball(0) = {asked.thing} /\ \A k \in Nat : Ball(k) \subseteq Thing
           /\ \A k \in Nat : Ball(k + 1) = Ball(k) \cup NextTo(Ball(k), Opening) /\ PairsShown(k + 1) = RelatedPairs(Ball(k))
<1>1. ThingKinds \ {"shap"} \in SUBSET ThingKinds
  OBVIOUS
<1>2. Ball(0) = {asked.thing}
  BY <1>1, ReachIs DEF Ball
<1>3. ASSUME NEW k \in Nat
      PROVE  Ball(k) \subseteq Thing /\ Ball(k + 1) = Ball(k) \cup NextTo(Ball(k), Opening) /\ PairsShown(k + 1) = RelatedPairs(Ball(k))
  <2>1. Ball(k) \subseteq Thing
    BY <1>1, ReachIs DEF Ball
  <2>2. Ball(k + 1) = Ball(k) \cup NextTo(Ball(k), Opening)
    BY <1>1, ReachIs, Zenon DEF Ball, Opening
  <2>3. (k + 1) - 1 = k /\ k + 1 # 0
    OBVIOUS
  <2>4. PairsShown(k + 1) = RelatedPairs(Ball(k))
    BY <2>3, Zenon DEF PairsShown
  <2> QED BY <2>1, <2>2, <2>4
<1> QED BY <1>2, <1>3

\* When render is done, its tables are what DrawnAround says.
LEMMA RenderDraws ==
    ASSUME StoreOK, RenderInv
    PROVE  DrawnAround
<1> SUFFICES ASSUME task = "render", phase = "done"
             PROVE  DrawnAround
  BY DEF DrawnAround
<1>1. Showing(nodes, wires, Ball(Depth), PairsShown(Depth))
  BY DEF RenderInv
<1>2. 1 - 1 = 0 /\ 2 - 1 = 1
  OBVIOUS
<1> DEFINE ball(k) == Reach(asked.thing, ThingKinds \ {"shap"}, k)
           pairs(k) == RelatedPairs(ball(k - 1))
           depth == IF Cardinality(pairs(1)) >= WireStop THEN 0
                    ELSE IF Cardinality(ball(1)) >= NodeStop \/ Cardinality(pairs(2)) >= WireStop THEN 1
                    ELSE 2
<1>3. \A k : ball(k) = Ball(k)
  BY Zenon DEF Ball
<1>4. pairs(1) = RelatedPairs(Ball(0)) /\ pairs(2) = RelatedPairs(Ball(1))
  BY <1>2, Zenon DEF Ball
<1> HIDE DEF ball, pairs
<1>5. depth = Depth
  BY <1>3, <1>4, Zenon DEF Depth
<1>6. \A k : pairs(k) = RelatedPairs(Ball(k - 1))
  BY <1>3, Zenon DEF pairs
<1> HIDE DEF depth
<1>7. PairsShown(Depth) = IF depth = 0 THEN {} ELSE pairs(depth)
  BY <1>5, <1>6, Zenon DEF PairsShown
<1>8. /\ IsInjective(nodes) /\ Range(nodes) = ball(depth)
      /\ IsInjective(wires) /\ \A x \in Range(wires) : x[2] \in DOMAIN nodes
      /\ {{nodes[x[1]], nodes[x[2]]} : x \in Range(wires)} = IF depth = 0 THEN {} ELSE pairs(depth)
  BY <1>1, <1>3, <1>5, <1>7, Zenon DEF Showing
<1> QED BY <1>8, Zenon DEF DrawnAround, ball, pairs, depth

\* render_trav begins with the name alone, the ball of no relation.
LEMMA TravDraws ==
    ASSUME StoreOK, NEW t \in Thing, render_trav(t)
    PROVE  RenderInv'
<1>1. /\ task' = "render" /\ asked'.thing = t /\ next' = 1 /\ phase' = "bfs" /\ store' = store
      /\ layer'.nodes = 1 /\ layer'.wires = 0 /\ layer'.count = 0 /\ nodes' = <<t>> /\ wires' = << >>
  BY DEF render_trav, Begin, render_start
<1>2. Drawing(nodes, wires)'
  <2>1. <<t>> \in Seq(Thing) /\ IsInjective(<<t>>) /\ << >> \in Seq(Nat \X Nat) /\ IsInjective(<< >>) /\ \A x : ~Holds(<< >>, x)
    BY DEF IsInjective, Holds
  <2> QED BY <1>1, <2>1 DEF Drawing, Holds
<1>3. Ball(0)' = {t}
  <2>1. asked'.thing \in Thing
    BY <1>1
  <2> DEFINE d == 0
             h == [i \in 0 .. 0 |-> {t}]
  <2>2. Reach(t, ThingKinds \ {"shap"}, 0)' = {t}
    <3>1. Reach(t, ThingKinds \ {"shap"}, 0)' = Reach(t, ThingKinds \ {"shap"}, 0)
      BY <1>1 DEF Reach, Touches
    <3> QED BY <3>1, ReachIs
  <2> QED BY <1>1, <2>2 DEF Ball
<1>4. PairsShown(0)' = {} /\ Seen' = {}
  BY <1>1 DEF PairsShown, Seen
<1>5. NextTo(Seen, Opening)' = {} /\ RelatedPairs(Seen)' = {}
  BY <1>4 DEF NextTo, RelatedPairs
<1>6. DrawnTo(<<t>>, 1, << >>, 0, {t}, {})
  BY DEF DrawnTo
<1>7. Rounding'
  <2>1. DrawnTo(nodes, layer.nodes, wires, layer.wires, Ball(layer.count), PairsShown(layer.count))'
    BY <1>1, <1>3, <1>4, <1>6
  <2>2. (Ball(layer.count) \cup NextTo(Seen, Opening))' = {t}
    BY <1>1, <1>3, <1>5
  <2>3. Len(<<t>>) = 1 /\ Len(<< >>) = 0
    OBVIOUS
  <2>4. DrawnTo(nodes, Len(nodes), wires, Len(wires), Ball(layer.count) \cup NextTo(Seen, Opening), RelatedPairs(Seen))'
    BY <1>1, <1>5, <1>6, <2>2, <2>3
  <2> QED BY <1>1, <2>1, <2>4 DEF Rounding
<1> QED BY <1>1, <1>2, <1>7 DEF RenderInv

\* render_bfs: an entry more is seen.
LEMMA BfsDraws ==
    ASSUME StoreOK, RenderInv, render_bfs
    PROVE  RenderInv'
<1>1. /\ task = "render" /\ phase = "bfs" /\ next <= layer.nodes
      /\ nodes' = Opened(next).nodes /\ wires' = Opened(next).wires /\ next' = next + 1
      /\ store' = store /\ task' = task /\ asked' = asked /\ layer' = layer
      /\ phase' = "bfs" \/ phase' = "overrun"
  BY DEF render_bfs
<1>2. asked.thing \in Thing /\ Drawing(nodes, wires) /\ Rounding
  BY <1>1 DEF RenderInv
<1>3. PICK c \in {0, 1} : layer.count = c
  BY <1>2 DEF Rounding
<1> DEFINE a == nodes[next]
           n == layer.nodes
           S == Seen
<1>4. n \in 1 .. Len(nodes) /\ Len(nodes) \in Nat /\ next \in 1 .. n + 1
  BY <1>2 DEF Rounding, DrawnTo, Drawing
<1>5. next \in 1 .. Len(nodes) /\ next \in 1 .. n /\ n \in Nat
  BY <1>1, <1>4
<1>6. Seen \in SUBSET Thing
  <2>1. \A i \in 1 .. next - 1 : i \in 1 .. Len(nodes)
    BY <1>5
  <2>2. nodes \in Seq(Thing)
    BY <1>2 DEF Drawing
  <2> QED BY <2>1, <2>2 DEF Seen
<1>7. DrawnTo(nodes, Len(nodes), wires, Len(wires), Ball(c) \cup NextTo(S, Opening), RelatedPairs(S))
  BY <1>2, <1>3, Zenon DEF Rounding
<1> DEFINE o == Opened(next)
           B == S \cup {a}
<1>8. DrawnTo(o.nodes, Len(o.nodes), o.wires, Len(o.wires), Ball(c) \cup NextTo(B, Opening), RelatedPairs(B))
  BY <1>2, <1>5, <1>6, <1>7, DrawnGrows, Zenon
<1>9. Drawing(o.nodes, o.wires) /\ Extends(nodes, o.nodes) /\ Extends(wires, o.wires)
  BY <1>2, <1>5, OpenedIs
<1>10. DrawnTo(nodes, n, wires, layer.wires, Ball(c), PairsShown(c))
  BY <1>2, <1>3, Zenon DEF Rounding
<1>11. DrawnTo(o.nodes, n, o.wires, layer.wires, Ball(c), PairsShown(c))
  BY <1>2, <1>9, <1>10, DrawnExtends
<1>12. Seen' = B
  <2>1. next' - 1 = next /\ \A i : i \in 1 .. next <=> i \in 1 .. next - 1 \/ i = next
    BY <1>1, <1>5
  <2>2. \A i \in 1 .. next : o.nodes[i] = nodes[i]
    BY <1>5, <1>9 DEF Extends
  <2> QED BY <1>1, <2>1, <2>2 DEF Seen
<1>13. NextTo(Seen, Opening)' = NextTo(B, Opening)
  BY <1>1, <1>12 DEF NextTo, Touches, Opening
<1>14. RelatedPairs(Seen)' = RelatedPairs(B)
  BY <1>1, <1>12 DEF RelatedPairs
<1>15. layer'.count = c /\ layer'.nodes = n /\ layer'.wires = layer.wires
  BY <1>1, <1>3
<1>16. Ball(layer.count)' = Ball(c)
  BY <1>1, <1>15 DEF Ball, Reach, Touches
<1>17. PairsShown(layer.count)' = PairsShown(c)
  <2>1. PairsShown(c)' = PairsShown(c)
    BY <1>1, BallsKeep
  <2> QED BY <1>1, <1>3, <2>1, Zenon DEF PairsShown
<1> HIDE DEF o, B, S, a
<1>18. DrawnTo(nodes, layer.nodes, wires, layer.wires, Ball(layer.count), PairsShown(layer.count))'
  BY <1>1, <1>11, <1>15, <1>16, <1>17 DEF o
<1>19. DrawnTo(nodes, Len(nodes), wires, Len(wires), Ball(layer.count) \cup NextTo(Seen, Opening), RelatedPairs(Seen))'
  BY <1>1, <1>8, <1>13, <1>14, <1>16 DEF o
<1>20. (layer.count = 1 => Cardinality(RelatedPairs(Ball(0))) < WireStop /\ Cardinality(Ball(1)) < NodeStop)'
  <2>1. Ball(0)' = Ball(0) /\ Ball(1)' = Ball(1)
    BY <1>1, BallsKeep
  <2>2. RelatedPairs(Ball(0))' = RelatedPairs(Ball(0))
    BY <1>1, <2>1 DEF RelatedPairs
  <2>3. layer.count = 1 => Cardinality(RelatedPairs(Ball(0))) < WireStop /\ Cardinality(Ball(1)) < NodeStop
    BY <1>2, Zenon DEF Rounding
  <2> QED BY <1>1, <2>1, <2>2, <2>3, Zenon
<1>21. next' \in 1 .. layer'.nodes + 1
  BY <1>1, <1>5
<1>22. Rounding'
  BY <1>15, <1>18, <1>19, <1>20, <1>21, Zenon DEF Rounding
<1>23. Drawing(nodes, wires)'
  BY <1>1, <1>9, Zenon DEF Drawing, o, Holds
<1> QED BY <1>1, <1>2, <1>22, <1>23 DEF RenderInv

\* What a round has drawn once all its entries are opened, and how much.
LEMMA RoundDrawn ==
    ASSUME StoreOK, RenderInv, task = "render", phase = "bfs", next > layer.nodes,
           NEW c \in {0, 1}, layer.count = c
    PROVE  /\ DrawnTo(nodes, layer.nodes, wires, layer.wires, Ball(c), PairsShown(c))
           /\ DrawnTo(nodes, Len(nodes), wires, Len(wires), Ball(c + 1), PairsShown(c + 1))
           /\ Drawing(nodes, wires) /\ asked.thing \in Thing
           /\ Cardinality(Ball(c)) = layer.nodes /\ Cardinality(PairsShown(c)) = layer.wires
           /\ Cardinality(Ball(c + 1)) = Len(nodes) /\ Cardinality(PairsShown(c + 1)) = Len(wires)
<1>1. asked.thing \in Thing /\ Drawing(nodes, wires) /\ Rounding
  BY DEF RenderInv
<1>2. DrawnTo(nodes, layer.nodes, wires, layer.wires, Ball(c), PairsShown(c))
  BY <1>1, Zenon DEF Rounding
<1>3. DrawnTo(nodes, Len(nodes), wires, Len(wires), Ball(c) \cup NextTo(Seen, Opening), RelatedPairs(Seen))
  BY <1>1, Zenon DEF Rounding
<1>4. next \in 1 .. layer.nodes + 1 /\ layer.nodes \in 1 .. Len(nodes) /\ Len(nodes) \in Nat
  BY <1>1 DEF Rounding, DrawnTo, Drawing
<1>5. next - 1 = layer.nodes
  BY <1>4
<1>6. Seen = Ball(c)
  BY <1>2, <1>5 DEF Seen, DrawnTo
<1>7. Ball(c + 1) = Ball(c) \cup NextTo(Ball(c), Opening) /\ PairsShown(c + 1) = RelatedPairs(Ball(c))
  BY <1>1, BallsAre
<1>8. DrawnTo(nodes, Len(nodes), wires, Len(wires), Ball(c + 1), PairsShown(c + 1))
  BY <1>3, <1>6, <1>7, Zenon
<1>9. Cardinality(Ball(c)) = layer.nodes /\ Cardinality(PairsShown(c)) = layer.wires
  BY <1>1, <1>2, DrawnCounts
<1>10. Cardinality(Ball(c + 1)) = Len(nodes) /\ Cardinality(PairsShown(c + 1)) = Len(wires)
  BY <1>1, <1>8, DrawnCounts
<1> QED BY <1>1, <1>2, <1>8, <1>9, <1>10

\* A round that opens nothing new has drawn all there is.
LEMMA NothingMore ==
    ASSUME StoreOK, RenderInv, task = "render", phase = "bfs", next > layer.nodes, Len(nodes) <= layer.nodes
    PROVE  /\ layer.count = 0 => Ball(1) = Ball(0) /\ Ball(2) = Ball(1) /\ PairsShown(2) = PairsShown(1)
           /\ layer.count = 1 => Ball(2) = Ball(1)
<1>1. PICK c \in {0, 1} : layer.count = c
  BY DEF RenderInv, Rounding
<1>2. /\ DrawnTo(nodes, layer.nodes, wires, layer.wires, Ball(c), PairsShown(c))
      /\ DrawnTo(nodes, Len(nodes), wires, Len(wires), Ball(c + 1), PairsShown(c + 1))
      /\ Drawing(nodes, wires) /\ asked.thing \in Thing
  BY <1>1, RoundDrawn
<1>3. Len(nodes) = layer.nodes
  <2>1. layer.nodes \in 1 .. Len(nodes) /\ Len(nodes) \in Nat
    BY <1>2 DEF DrawnTo, Drawing
  <2> QED BY <2>1
<1>4. Ball(c + 1) = Ball(c)
  <2>1. \A b : b \in Ball(c + 1) <=> b \in Ball(c)
    BY <1>2, <1>3 DEF DrawnTo
  <2> QED BY <2>1
<1>5. 0 + 1 = 1 /\ 1 + 1 = 2
  OBVIOUS
<1>6. CASE c = 0
  <2>1. Ball(1) = Ball(0)
    BY <1>4, <1>5, <1>6
  <2>2. Ball(0 + 1) = Ball(0) \cup NextTo(Ball(0), Opening) /\ PairsShown(0 + 1) = RelatedPairs(Ball(0))
    BY <1>2, BallsAre
  <2>3. Ball(1 + 1) = Ball(1) \cup NextTo(Ball(1), Opening) /\ PairsShown(1 + 1) = RelatedPairs(Ball(1))
    BY <1>2, BallsAre
  <2>4. Ball(2) = Ball(1) /\ PairsShown(2) = PairsShown(1)
    BY <1>5, <2>1, <2>2, <2>3
  <2> QED BY <1>1, <1>6, <2>1, <2>4
<1>7. CASE c = 1
  BY <1>1, <1>4, <1>5, <1>7
<1> QED BY <1>6, <1>7

\* The end of a round: it counts, is the last, or is taken back.
LEMMA RoundDraws ==
    ASSUME StoreOK, RenderInv, render_round
    PROVE  RenderInv'
<1> DEFINE much == Len(wires) >= WireStop
           over == \/ Len(wires) >= WireStop \/ Len(nodes) <= layer.nodes
                   \/ Len(nodes) >= NodeStop \/ layer.count + 1 = 2
           T == SubSeq(nodes, 1, layer.nodes)
           U == SubSeq(wires, 1, layer.wires)
<1>1. /\ task = "render" /\ phase = "bfs" /\ next > layer.nodes
      /\ store' = store /\ task' = task /\ asked' = asked /\ next' = next
  BY DEF render_round
<1>2. /\ much => nodes' = T /\ wires' = U
      /\ ~much => nodes' = nodes /\ wires' = wires
      /\ over => phase' = "done" /\ layer' = layer
      /\ ~over => phase' = "bfs" /\ layer' = [nodes |-> Len(nodes), wires |-> Len(wires), count |-> layer.count + 1]
  BY <1>1 DEF render_round, NextLayer
<1>3. Rounding /\ Drawing(nodes, wires) /\ asked.thing \in Thing
  BY <1>1 DEF RenderInv
<1>4. PICK c \in {0, 1} : layer.count = c
  BY <1>3 DEF Rounding
<1>5. /\ DrawnTo(nodes, layer.nodes, wires, layer.wires, Ball(c), PairsShown(c))
      /\ DrawnTo(nodes, Len(nodes), wires, Len(wires), Ball(c + 1), PairsShown(c + 1))
  BY <1>1, <1>4, RoundDrawn
<1>6. /\ Cardinality(Ball(c)) = layer.nodes /\ Cardinality(PairsShown(c)) = layer.wires
      /\ Cardinality(Ball(c + 1)) = Len(nodes) /\ Cardinality(PairsShown(c + 1)) = Len(wires)
  BY <1>1, <1>4, RoundDrawn
<1>7. /\ nodes \in Seq(Thing) /\ wires \in Seq(Nat \X Nat) /\ Len(nodes) \in Nat /\ Len(wires) \in Nat
      /\ layer.nodes \in 1 .. Len(nodes) /\ layer.wires \in 0 .. Len(wires)
  BY <1>3, <1>5 DEF Drawing, DrawnTo
<1>8. WireStop \in Nat /\ NodeStop \in Nat
  BY GatherAssumption
<1>9. PairsShown(1) = RelatedPairs(Ball(0)) /\ PairsShown(2) = RelatedPairs(Ball(1))
  <2>1. PairsShown(0 + 1) = RelatedPairs(Ball(0)) /\ PairsShown(1 + 1) = RelatedPairs(Ball(1))
    BY <1>3, BallsAre
  <2>2. 0 + 1 = 1 /\ 1 + 1 = 2
    OBVIOUS
  <2> QED BY <2>1, <2>2
<1> DEFINE W1 == Cardinality(PairsShown(1))
           W2 == Cardinality(PairsShown(2))
           N1 == Cardinality(Ball(1))
<1>10. Depth = IF W1 >= WireStop THEN 0 ELSE IF N1 >= NodeStop \/ W2 >= WireStop THEN 1 ELSE 2
  BY <1>9, Zenon DEF Depth
<1>11. c = 0 => W1 = Len(wires) /\ N1 = Len(nodes)
  <2>1. 0 + 1 = 1
    OBVIOUS
  <2> QED BY <1>6, <2>1
<1>12. c = 1 => W2 = Len(wires) /\ W1 = layer.wires /\ N1 = layer.nodes
  <2>1. 1 + 1 = 2
    OBVIOUS
  <2> QED BY <1>6, <2>1
<1>13. c = 1 => W1 < WireStop /\ N1 < NodeStop
  BY <1>3, <1>4, <1>9, Zenon DEF Rounding
<1> HIDE DEF W1, W2, N1, T, U
<1>14. CASE much
  <2>1. Depth = c
    <3>1. CASE c = 0
      BY <1>10, <1>11, <1>14, <3>1
    <3>2. CASE c = 1
      <4>1. ~(W1 >= WireStop)
        BY <1>7, <1>8, <1>12, <1>13, <3>2
      <4> QED BY <1>10, <1>12, <1>14, <3>2, <4>1
    <3> QED BY <3>1, <3>2
  <2>2. T \in Seq(Thing) /\ Len(T) = layer.nodes /\ \A i \in 1 .. layer.nodes : T[i] = nodes[i]
    BY <1>7 DEF T
  <2>3. U \in Seq(Nat \X Nat) /\ Len(U) = layer.wires /\ \A i \in 1 .. layer.wires : U[i] = wires[i]
    <3> DEFINE S == Nat \X Nat
    <3> HIDE DEF S
    <3>1. wires \in Seq(S)
      BY <1>7 DEF S
    <3>2. U \in Seq(S) /\ Len(U) = layer.wires /\ \A i \in 1 .. layer.wires : U[i] = wires[i]
      BY <1>7, <3>1 DEF U
    <3> QED BY <3>2 DEF S
  <2>4. Drawing(T, U) /\ Showing(T, U, Ball(c), PairsShown(c))
    BY <1>3, <1>5, <2>2, <2>3, DrawnShows
  <2>5. Drawing(nodes, wires)'
    BY <1>2, <1>14, <2>4, Zenon
  <2>6. Showing(nodes, wires, Ball(Depth), PairsShown(Depth))'
    <3>1. Depth' = c
      BY <1>1, <2>1, BallsKeep
    <3>2. Ball(Depth)' = Ball(c)
      <4>1. Ball(c)' = Ball(c)
        BY <1>1, BallsKeep
      <4> QED BY <3>1, <4>1, Zenon DEF Ball
    <3>3. PairsShown(Depth)' = PairsShown(c)
      <4>1. PairsShown(c)' = PairsShown(c)
        BY <1>1, BallsKeep
      <4> QED BY <3>1, <4>1, Zenon DEF PairsShown
    <3> QED BY <1>2, <1>14, <2>4, <3>2, <3>3, Zenon
  <2>7. phase' = "done"
    BY <1>2, <1>14
  <2> QED BY <1>1, <1>3, <2>5, <2>6, <2>7 DEF RenderInv
<1>15. CASE ~much /\ over
  <2>1. Ball(Depth) = Ball(c + 1) /\ PairsShown(Depth) = PairsShown(c + 1)
    <3>1. CASE c = 0
      <4>1. ~(W1 >= WireStop)
        BY <1>11, <1>15, <3>1
      <4>2. Depth = 1 \/ Depth = 2
        BY <1>10, <4>1
      <4>3. Len(nodes) <= layer.nodes \/ Len(nodes) >= NodeStop
        BY <1>4, <1>15, <3>1
      <4>4. CASE Len(nodes) >= NodeStop
        <5>1. Depth = 1
          BY <1>10, <1>11, <3>1, <4>1, <4>4
        <5> QED BY <3>1, <5>1
      <4>5. CASE Len(nodes) <= layer.nodes
        <5>1. Ball(2) = Ball(1) /\ PairsShown(2) = PairsShown(1)
          BY <1>1, <1>4, <3>1, <4>5, NothingMore
        <5>2. c + 1 = 1
          BY <3>1
        <5> QED BY <4>2, <5>1, <5>2
      <4> QED BY <4>3, <4>4, <4>5
    <3>2. CASE c = 1
      <4>1. ~(W1 >= WireStop) /\ ~(N1 >= NodeStop)
        BY <1>7, <1>8, <1>12, <1>13, <3>2
      <4>2. ~(W2 >= WireStop)
        BY <1>12, <1>15, <3>2
      <4>3. Depth = 2
        BY <1>10, <4>1, <4>2
      <4> QED BY <3>2, <4>3
    <3> QED BY <3>1, <3>2
  <2>2. Showing(nodes, wires, Ball(c + 1), PairsShown(c + 1))
    <3>1. nodes \in Seq(Thing) /\ wires \in Seq(Nat \X Nat)
      BY <1>7
    <3>2. Drawing(nodes, wires) /\ DrawnTo(nodes, Len(nodes), wires, Len(wires), Ball(c + 1), PairsShown(c + 1))
      BY <1>3, <1>5
    <3>3. (\A i \in 1 .. Len(nodes) : nodes[i] = nodes[i]) /\ \A i \in 1 .. Len(wires) : wires[i] = wires[i]
      OBVIOUS
    <3> QED BY <3>1, <3>2, <3>3, DrawnShows
  <2>3. Depth' = Depth /\ Depth \in {0, 1, 2}
    BY <1>1, <1>10, BallsKeep
  <2>4. Ball(Depth)' = Ball(Depth) /\ PairsShown(Depth)' = PairsShown(Depth)
    <3> DEFINE d == Depth
    <3>1. PICK e \in {0, 1, 2} : Depth = e /\ Depth' = e
      BY <2>3
    <3>2. Ball(e)' = Ball(e) /\ PairsShown(e)' = PairsShown(e)
      BY <1>1, BallsKeep
    <3>3. Ball(Depth)' = Ball(e)
      BY <3>1, <3>2, Zenon DEF Ball
    <3>4. PairsShown(Depth)' = PairsShown(e)
      BY <3>1, <3>2, Zenon DEF PairsShown
    <3> QED BY <3>1, <3>3, <3>4, Zenon
  <2>5. Showing(nodes, wires, Ball(Depth), PairsShown(Depth))'
    BY <1>2, <1>15, <2>1, <2>2, <2>4, Zenon
  <2>6. phase' = "done" /\ nodes' = nodes /\ wires' = wires
    BY <1>2, <1>15
  <2>7. Drawing(nodes, wires)'
    BY <1>3, <2>6, Zenon
  <2> QED BY <1>1, <1>3, <2>5, <2>6, <2>7 DEF RenderInv
<1>16. CASE ~over
  <2>1. c = 0 /\ ~much /\ nodes' = nodes /\ wires' = wires /\ phase' = "bfs" /\ layer' = [nodes |-> Len(nodes), wires |-> Len(wires), count |-> layer.count + 1]
    BY <1>2, <1>4, <1>16
  <2>2. layer'.nodes = Len(nodes) /\ layer'.wires = Len(wires) /\ layer'.count = 1
    BY <1>4, <2>1
  <2>3. W1 < WireStop /\ N1 < NodeStop
    BY <1>7, <1>8, <1>11, <1>16, <2>1
  <2>4. Ball(layer.count)' = Ball(1)
    <3>1. Ball(1)' = Ball(1)
      BY <1>1, BallsKeep
    <3> QED BY <2>2, <3>1, Zenon DEF Ball
  <2>5. PairsShown(layer.count)' = PairsShown(1)
    <3>1. PairsShown(1)' = PairsShown(1)
      BY <1>1, BallsKeep
    <3> QED BY <2>2, <3>1, Zenon DEF PairsShown
  <2>6. DrawnTo(nodes, Len(nodes), wires, Len(wires), Ball(1), PairsShown(1))
    <3>1. 0 + 1 = 1
      OBVIOUS
    <3> QED BY <1>5, <2>1, <3>1
  <2>7. DrawnTo(nodes, layer.nodes, wires, layer.wires, Ball(layer.count), PairsShown(layer.count))'
    BY <2>1, <2>2, <2>4, <2>5, <2>6
  <2>8. next = layer.nodes + 1
    BY <1>1, <1>3, <1>7 DEF Rounding
  <2>9. Seen = Ball(0)
    <3>1. next - 1 = layer.nodes
      BY <1>7, <2>8
    <3>2. \A b : (\E i \in 1 .. layer.nodes : nodes[i] = b) <=> b \in Ball(0)
      BY <1>5, <2>1 DEF DrawnTo
    <3> QED BY <3>1, <3>2 DEF Seen
  <2>10. Seen' = Ball(0)
    <3>1. Seen' = Seen
      BY <1>1, <2>1 DEF Seen
    <3> QED BY <2>9, <3>1
  <2>11. NextTo(Seen, Opening)' = NextTo(Ball(0), Opening)
    BY <1>1, <2>10 DEF NextTo, Touches, Opening
  <2>12. RelatedPairs(Seen)' = RelatedPairs(Ball(0))
    BY <1>1, <2>10 DEF RelatedPairs
  <2>13. Ball(1) = Ball(0) \cup NextTo(Ball(0), Opening)
    <3>1. Ball(0 + 1) = Ball(0) \cup NextTo(Ball(0), Opening)
      BY <1>3, BallsAre
    <3>2. 0 + 1 = 1
      OBVIOUS
    <3> QED BY <3>1, <3>2
  <2>14. (Ball(layer.count) \cup NextTo(Seen, Opening))' = Ball(1)
    BY <2>4, <2>11, <2>13
  <2>15. DrawnTo(nodes, Len(nodes), wires, Len(wires), Ball(layer.count) \cup NextTo(Seen, Opening), RelatedPairs(Seen))'
    BY <1>9, <2>1, <2>6, <2>12, <2>14
  <2>16. (layer.count = 1 => Cardinality(RelatedPairs(Ball(0))) < WireStop /\ Cardinality(Ball(1)) < NodeStop)'
    <3>1. Ball(0)' = Ball(0) /\ Ball(1)' = Ball(1)
      BY <1>1, BallsKeep
    <3>2. RelatedPairs(Ball(0))' = RelatedPairs(Ball(0))
      BY <1>1, <3>1 DEF RelatedPairs
    <3> QED BY <1>9, <2>3, <3>1, <3>2, Zenon DEF W1, N1
  <2>17. next' \in 1 .. layer'.nodes + 1
    BY <1>1, <1>7, <2>2, <2>8
  <2>18. Rounding'
    BY <2>2, <2>7, <2>15, <2>16, <2>17 DEF Rounding
  <2>19. Drawing(nodes, wires)'
    BY <1>3, <2>1, Zenon
  <2> QED BY <1>1, <1>3, <2>1, <2>18, <2>19 DEF RenderInv
<1> QED BY <1>14, <1>15, <1>16

----------------------------------------------------------------------------
(* Gather: what kirchhoff meets. *)

Feet == [thing : Thing, foot : Nat]
Triples == Nat \X Nat \X Nat

\* Tables as kirchhoff keeps them: each thing once, each foot once from a pin to a chip.
Circuit(ns, ws) ==
    /\ ns \in Seq(Thing) /\ IsInjective(ns) /\ ws \in Seq(Triples) /\ IsInjective(ws)
    /\ \A x : Holds(ws, x) => /\ x[1] \in 1 .. Len(ns) /\ Kind[ns[x[1]]] = "pin"
                              /\ x[2] \in 1 .. Len(ns) /\ Kind[ns[x[2]]] = "chip"
FootIn(ns, ws, q) == \E x : Holds(ws, x) /\ q = <<ns[x[1]], ns[x[2]], x[3]>>

\* The foot of a pin or a chip a that e is, the pin first.
FootOf(a, e) == IF Kind[e.thing] = "chip" THEN <<a, e.thing, e.foot>> ELSE <<e.thing, a, e.foot>>
FootMade(f, g, j, e) ==
    /\ Circuit(g.nodes, g.wires) /\ Extends(f.nodes, g.nodes)
    /\ \A b : Holds(g.nodes, b) <=> Holds(f.nodes, b) \/ (Kind[e.thing] \in Parts /\ b = e.thing)
    /\ \A q : FootIn(g.nodes, g.wires, q) <=>
                FootIn(f.nodes, f.wires, q) \/ (Kind[e.thing] \in Parts /\ q = FootOf(f.nodes[j], e))
Fits(a, e) == Kind[e.thing] \in Parts => {Kind[a], Kind[e.thing]} = Parts

\* kirchhoff_add and kirchhoff_wire, of one end: the tables gain it and its foot.
LEMMA FootedIs ==
    ASSUME NEW f, Circuit(f.nodes, f.wires), NEW j \in 1 .. Len(f.nodes), NEW e \in Feet, Fits(f.nodes[j], e)
    PROVE  FootMade(f, Footed(f, j, e), j, e)
<1> DEFINE ns == f.nodes
           ws == f.wires
           t == e.thing
           T == Added(ns, t)
           k == At(T, t)
           x == IF Kind[t] = "chip" THEN Wire(j, k, e.foot) ELSE Wire(k, j, e.foot)
           W == Wired(ws, x)
           g == Footed(f, j, e)
<1>1. CASE Kind[t] \notin Parts
  <2>1. g = f
    BY <1>1 DEF Footed, Parts
  <2>2. Extends(ns, ns)
    BY DEF Extends, Circuit
  <2>3. Circuit(f.nodes, f.wires)
    OBVIOUS
  <2> HIDE DEF g
  <2>4. FootMade(f, f, j, e)
    BY <1>1, <2>2, <2>3, Zenon DEF FootMade
  <2> QED BY <2>1, <2>4, Zenon DEF g
<1>2. CASE Kind[t] \in Parts
  <2>1. g.nodes = T /\ g.wires = W
    <3>1. CASE Kind[t] = "chip"
      BY <3>1 DEF Footed
    <3>2. CASE Kind[t] = "pin"
      BY <3>2 DEF Footed
    <3> QED BY <1>2, <3>1, <3>2 DEF Parts
  <2>2. ns \in Seq(Thing) /\ IsInjective(ns) /\ ws \in Seq(Triples) /\ IsInjective(ws) /\ Len(ns) \in Nat /\ Len(ws) \in Nat
    BY DEF Circuit
  <2>3. \A y : Holds(ws, y) => /\ y[1] \in 1 .. Len(ns) /\ Kind[ns[y[1]]] = "pin"
                               /\ y[2] \in 1 .. Len(ns) /\ Kind[ns[y[2]]] = "chip"
    BY DEF Circuit
  <2>4. t \in Thing /\ e.foot \in Nat
    BY DEF Feet
  <2>5. T \in Seq(Thing) /\ IsInjective(T)
    BY <2>2, <2>4, AddedIs
  <2>6. Extends(ns, T)
    BY <2>2, <2>4, AddedIs
  <2>7. k \in 1 .. Len(T) /\ T[k] = t
    <3> HIDE DEF ns, t
    <3> QED BY <2>2, <2>4, AddedIs
  <2>8. \A b : Holds(T, b) <=> Holds(ns, b) \/ b = t
    BY <2>2, <2>4, AddedIs
  <2> HIDE DEF T, k, ns, ws, g, t
  <2>9. j \in 1 .. Len(ns) /\ Len(T) \in Nat /\ T[j] = ns[j] /\ \A i \in 1 .. Len(ns) : i \in 1 .. Len(T) /\ T[i] = ns[i]
    BY <2>2, <2>5, <2>6 DEF ns, Extends
  <2>10. (Kind[t] = "chip" /\ Kind[ns[j]] = "pin") \/ (Kind[t] = "pin" /\ Kind[ns[j]] = "chip")
    BY <1>2 DEF Fits, Parts, t, ns
  <2>11. /\ x[1] \in 1 .. Len(T) /\ Kind[T[x[1]]] = "pin" /\ x[2] \in 1 .. Len(T) /\ Kind[T[x[2]]] = "chip"
         /\ x[3] = e.foot /\ x[1] \in Nat /\ x[2] \in Nat /\ x \in Triples
    BY <2>4, <2>7, <2>9, <2>10 DEF Wire, Triples
  <2>12. <<T[x[1]], T[x[2]], x[3]>> = FootOf(ns[j], e)
    BY <2>7, <2>9, <2>10 DEF FootOf, Wire, t
  <2> HIDE DEF x, W
  <2>13. W \in Seq(Triples) /\ IsInjective(W)
    BY <2>2, <2>11, WiredIs DEF W
  <2>14. \A y : Holds(W, y) <=> Holds(ws, y) \/ y = x
    BY <2>2, <2>11, WiredIs DEF W
  <2>15. \A y : Holds(W, y) => /\ y[1] \in 1 .. Len(T) /\ Kind[T[y[1]]] = "pin"
                               /\ y[2] \in 1 .. Len(T) /\ Kind[T[y[2]]] = "chip"
    BY <2>3, <2>9, <2>11, <2>14
  <2>16. Circuit(T, W)
    BY <2>5, <2>13, <2>15 DEF Circuit
  <2>17. \A q : FootIn(T, W, q) <=> FootIn(ns, ws, q) \/ q = FootOf(ns[j], e)
    <3> DEFINE Was(y) == <<ns[y[1]], ns[y[2]], y[3]>>
               Is(y) == <<T[y[1]], T[y[2]], y[3]>>
    <3>1. \A y : Holds(ws, y) => Is(y) = Was(y)
      BY <2>3, <2>9
    <3>2. Is(x) = FootOf(ns[j], e)
      BY <2>12
    <3>3. \A q : (FootIn(T, W, q) <=> \E y : Holds(W, y) /\ q = Is(y)) /\ (FootIn(ns, ws, q) <=> \E y : Holds(ws, y) /\ q = Was(y))
      BY DEF FootIn
    <3> HIDE DEF Was, Is
    <3> QED BY <2>14, <3>1, <3>2, <3>3
  <2> QED BY <1>2, <2>1, <2>6, <2>8, <2>16, <2>17 DEF FootMade, ns, ws, g, t
<1> QED BY <1>1, <1>2

\* What an entry is opened to.
FeetOn(j) == IF Kind[nodes[j]] \in Parts THEN FeetAt(nodes[j]) ELSE << >>
Circuits(j) == {f \in [nodes : Seq(Thing), wires : Seq(Triples)] :
                  Circuit(f.nodes, f.wires) /\ j \in 1 .. Len(f.nodes) /\ f.nodes[j] = nodes[j]}

\* The feet of an entry are those of its relations with other parts.
LEMMA FeetOnIs ==
    ASSUME StoreOK, Circuit(nodes, wires), NEW j \in 1 .. Len(nodes)
    PROVE  /\ FeetOn(j) \in Seq(Feet) /\ nodes[j] \in Thing
           /\ \A e \in Feet : Kind[e.thing] \in Parts =>
                (Holds(FeetOn(j), e) <=>
                   \E r \in Rels :
                     \/ Kind[nodes[j]] = "pin" /\ Kind[e.thing] = "chip" /\ store.wire[r].src = nodes[j]
                          /\ store.wire[r].dst = e.thing /\ store.foot[r] = e.foot
                     \/ Kind[nodes[j]] = "chip" /\ Kind[e.thing] = "pin" /\ store.wire[r].src = e.thing
                          /\ store.wire[r].dst = nodes[j] /\ store.foot[r] = e.foot)
           /\ \A e : Holds(FeetOn(j), e) => e \in Feet /\ Fits(nodes[j], e)
<1> DEFINE a == nodes[j]
           Near(e) == \E r \in Rels :
                     \/ Kind[a] = "pin" /\ Kind[e.thing] = "chip" /\ store.wire[r].src = a
                          /\ store.wire[r].dst = e.thing /\ store.foot[r] = e.foot
                     \/ Kind[a] = "chip" /\ Kind[e.thing] = "pin" /\ store.wire[r].src = e.thing
                          /\ store.wire[r].dst = a /\ store.foot[r] = e.foot
<1>1. a \in Thing
  BY DEF Circuit
<1>2. FeetOn(j) \in Seq(Feet) /\ \A e \in Feet : Kind[e.thing] \in Parts => (Holds(FeetOn(j), e) <=> Near(e))
  <2>1. CASE Kind[a] \in Parts
    <3>1. FeetOn(j) = FeetAt(a)
      BY <2>1 DEF FeetOn
    <3>2. FeetAt(a) \in Seq(Feet)
      BY <1>1, <2>1, FeetAtIs, Zenon DEF Feet
    <3>3. \A e \in Feet : Kind[e.thing] \in Parts => (Holds(FeetAt(a), e) <=> Near(e))
      BY <1>1, <2>1, FeetAtIs, Zenon DEF Feet
    <3> QED BY <3>1, <3>2, <3>3, Zenon
  <2>2. CASE Kind[a] \notin Parts
    <3>1. FeetOn(j) = << >>
      BY <2>2 DEF FeetOn
    <3>2. \A e : ~Near(e)
      BY <2>2 DEF Parts
    <3>3. << >> \in Seq(Feet) /\ \A e : ~Holds(<< >>, e)
      BY DEF Holds
    <3> HIDE DEF Near
    <3> QED BY <3>1, <3>2, <3>3
  <2> QED BY <2>1, <2>2
<1>3. \A e : Near(e) => {Kind[a], Kind[e.thing]} = Parts
  BY DEF Parts
<1>4. \A e : Holds(FeetOn(j), e) => e \in Feet
  BY <1>2 DEF Holds
<1> HIDE DEF Near, a
<1>5. \A e : Holds(FeetOn(j), e) => Fits(a, e)
  BY <1>2, <1>3, <1>4 DEF Fits
<1> QED BY <1>1, <1>2, <1>4, <1>5, Zenon DEF Near, a

MetBy(h, j) ==
    /\ h \in [0 .. Len(FeetOn(j)) -> Circuits(j)] /\ h[0] = [nodes |-> nodes, wires |-> wires] /\ Met(j) = h[Len(FeetOn(j))]
    /\ \A i \in 1 .. Len(FeetOn(j)) : h[i] = Footed(h[i - 1], j, FeetOn(j)[i])

\* The meeting of an entry's feet as the loop of its steps.
LEMMA MetRuns ==
    ASSUME StoreOK, Circuit(nodes, wires), NEW j \in 1 .. Len(nodes)
    PROVE  \E h : MetBy(h, j)
<1> DEFINE M == Len(FeetOn(j))
           X == Circuits(j)
           a == [nodes |-> nodes, wires |-> wires]
           Step(i, l) == Footed(l, j, FeetOn(j)[i])
<1>1. M \in Nat /\ a \in X
  <2>1. Len(FeetOn(j)) \in Nat
    BY FeetOnIs
  <2> QED BY <2>1 DEF Circuits, Circuit
<1>2. ASSUME NEW i \in 1 .. M, NEW l \in X  PROVE Step(i, l) \in X
  <2>1. FeetOn(j) \in Seq(Feet)
    BY FeetOnIs
  <2> DEFINE e == FeetOn(j)[i]
             g == Footed(l, j, e)
  <2>2. e \in Feet /\ Holds(FeetOn(j), e)
    BY <2>1 DEF Holds
  <2>3. l \in [nodes : Seq(Thing), wires : Seq(Triples)] /\ Circuit(l.nodes, l.wires) /\ j \in 1 .. Len(l.nodes) /\ l.nodes[j] = nodes[j]
    BY DEF Circuits
  <2>x. Fits(l.nodes[j], e)
    BY <2>2, <2>3, FeetOnIs
  <2> HIDE DEF e
  <2>4. FootMade(l, g, j, e)
    BY <2>2, <2>3, <2>x, FootedIs
  <2>5. g = [nodes |-> g.nodes, wires |-> g.wires]
    <3>1. l = [nodes |-> l.nodes, wires |-> l.wires]
      BY <2>3
    <3>2. CASE Kind[e.thing] = "chip"
      BY <3>2 DEF Footed
    <3>3. CASE Kind[e.thing] = "pin"
      BY <3>3 DEF Footed
    <3>4. CASE Kind[e.thing] # "chip" /\ Kind[e.thing] # "pin"
      <4>1. g = l
        BY <3>4 DEF Footed
      <4> HIDE DEF g
      <4> QED BY <3>1, <4>1
    <3> QED BY <3>2, <3>3, <3>4
  <2> HIDE DEF g
  <2>6. g.nodes \in Seq(Thing) /\ g.wires \in Seq(Triples) /\ Circuit(g.nodes, g.wires)
    BY <2>4 DEF FootMade, Circuit
  <2>7. j \in 1 .. Len(g.nodes) /\ g.nodes[j] = nodes[j]
    <3>1. Len(l.nodes) <= Len(g.nodes) /\ Len(g.nodes) \in Nat /\ Len(l.nodes) \in Nat /\ g.nodes[j] = l.nodes[j]
      BY <2>3, <2>4, <2>6 DEF FootMade, Extends
    <3> QED BY <2>3, <3>1
  <2>8. g \in Circuits(j)
    <3>1. g \in [nodes : Seq(Thing), wires : Seq(Triples)]
      BY <2>5, <2>6
    <3> QED BY <2>6, <2>7, <3>1 DEF Circuits
  <2> QED BY <2>8 DEF g, e
<1>3. Met(j) = (CHOOSE g : g = [i \in 0 .. M |-> IF i = 0 THEN a ELSE Step(i, g[i - 1])])[M]
  BY Zenon DEF Met, FeetOn
<1> DEFINE E == [i \in 1 .. M |-> [l \in X |-> Step(i, l)]]
           Is(g) == g = [i \in 0 .. M |-> IF i = 0 THEN a ELSE Step(i, g[i - 1])]
           h == CHOOSE g : Is(g)
<1>4. \A i \in 1 .. M : \A l \in X : E[i][l] = Step(i, l)
  OBVIOUS
<1>5. E \in [1 .. M -> [X -> X]]
  <2> HIDE DEF Step, X, M
  <2>1. \A i \in 1 .. M : [l \in X |-> Step(i, l)] \in [X -> X]
    BY <1>2
  <2> QED BY <2>1
<1> HIDE DEF E, M, X, a, Step
<1>6. PICK g \in [0 .. M -> X] : Recurs(g, M, a, E)
  BY <1>1, <1>5, RecursionDefines
<1>7. ASSUME NEW i \in 0 .. M  PROVE g[i] = IF i = 0 THEN a ELSE Step(i, g[i - 1])
  <2>1. g[i] = IF i = 0 THEN a ELSE E[i][g[i - 1]]
    BY <1>6 DEF Recurs
  <2>2. i # 0 => i \in 1 .. M /\ i - 1 \in 0 .. M
    BY <1>1
  <2> QED BY <1>4, <2>1, <2>2
<1>8. Is(g)
  <2>1. g = [i \in 0 .. M |-> g[i]]
    OBVIOUS
  <2> QED BY <1>7, <2>1, Zenon
<1>9. Is(h)
  BY <1>8, Zenon
<1> HIDE DEF h
<1>10. \A i \in 0 .. M : h[i] = IF i = 0 THEN a ELSE Step(i, h[i - 1])
  <2>1. h = [i \in 0 .. M |-> IF i = 0 THEN a ELSE Step(i, h[i - 1])]
    BY <1>9
  <2> QED BY <2>1
<1>11. h = [i \in 0 .. M |-> h[i]]
  <2>1. h = [i \in 0 .. M |-> IF i = 0 THEN a ELSE Step(i, h[i - 1])]
    BY <1>9
  <2> HIDE DEF Is
  <2> QED BY <1>10, <2>1, Zenon
<1> HIDE DEF Is
<1> DEFINE T == {i \in 0 .. M : h[i] \in X}
<1>12. \A i \in 0 .. M : i \in T
  <2>1. 0 \in T
    BY <1>1, <1>10
  <2>2. ASSUME NEW n \in 0 .. M - 1, n \in T  PROVE n + 1 \in T
    <3>1. n + 1 \in 0 .. M /\ n + 1 \in 1 .. M /\ n + 1 # 0 /\ (n + 1) - 1 = n
      BY <1>1
    <3>2. h[n + 1] = Step(n + 1, h[n])
      BY <1>10, <3>1
    <3> QED BY <1>2, <2>2, <3>1, <3>2
  <2> HIDE DEF T
  <2> QED BY <1>1, <2>1, <2>2, InductionUpTo
<1>13. h \in [0 .. M -> X]
  <2>1. \A i \in 0 .. M : h[i] \in X
    BY <1>12
  <2> QED BY <1>11, <2>1
<1>14. h[0] = a /\ \A i \in 1 .. M : h[i] = Step(i, h[i - 1])
  BY <1>1, <1>10
<1>15. Met(j) = h[M]
  BY <1>3, Zenon DEF h, Is
<1>16. MetBy(h, j)
  BY <1>13, <1>14, <1>15, Zenon DEF MetBy, M, X, a, Step
<1> QED BY <1>16, Zenon

\* An entry opened: the tables gain the parts next to it, and their feet.
LEMMA MetIs ==
    ASSUME StoreOK, Circuit(nodes, wires), NEW j \in 1 .. Len(nodes)
    PROVE  /\ Circuit(Met(j).nodes, Met(j).wires) /\ Extends(nodes, Met(j).nodes)
           /\ \A b : Holds(Met(j).nodes, b) <=>
                       Holds(nodes, b) \/ \E e : Holds(FeetOn(j), e) /\ Kind[e.thing] \in Parts /\ b = e.thing
           /\ \A q : FootIn(Met(j).nodes, Met(j).wires, q) <=>
                       \/ FootIn(nodes, wires, q)
                       \/ \E e : Holds(FeetOn(j), e) /\ Kind[e.thing] \in Parts /\ q = FootOf(nodes[j], e)
<1> DEFINE M == Len(FeetOn(j))
           t == FeetOn(j)
           a == nodes[j]
<1>1. M \in Nat /\ t \in Seq(Feet) /\ nodes \in Seq(Thing) /\ wires \in Seq(Triples)
  BY FeetOnIs DEF Circuit
<1>2. PICK h : MetBy(h, j)
  BY MetRuns
<1>3. /\ h \in [0 .. M -> Circuits(j)] /\ h[0] = [nodes |-> nodes, wires |-> wires] /\ Met(j) = h[M]
      /\ \A i \in 1 .. M : h[i] = Footed(h[i - 1], j, t[i])
  BY <1>2, Zenon DEF MetBy
<1> DEFINE Adds(i, b) == Kind[t[i].thing] \in Parts /\ b = t[i].thing
           Wires(i, q) == Kind[t[i].thing] \in Parts /\ q = FootOf(a, t[i])
           Upto(n, f) ==
             /\ Extends(nodes, f.nodes)
             /\ \A b : Holds(f.nodes, b) <=> Holds(nodes, b) \/ \E i \in 1 .. n : Adds(i, b)
             /\ \A q : FootIn(f.nodes, f.wires, q) <=> FootIn(nodes, wires, q) \/ \E i \in 1 .. n : Wires(i, q)
           S == {n \in 0 .. M : Upto(n, h[n])}
<1>4. 0 \in S
  <2>1. 0 \in 0 .. M /\ h[0].nodes = nodes /\ h[0].wires = wires /\ \A i : i \notin 1 .. 0
    BY <1>1, <1>3
  <2>2. Extends(nodes, nodes)
    BY <1>1 DEF Extends
  <2> HIDE DEF Adds, Wires
  <2>3. Upto(0, h[0])
    BY <2>1, <2>2
  <2> QED BY <2>1, <2>3
<1>5. ASSUME NEW n \in 0 .. M - 1, n \in S  PROVE n + 1 \in S
  <2> DEFINE f == h[n]
             g == h[n + 1]
             u == t[n + 1]
  <2>1. n + 1 \in 1 .. M /\ n + 1 \in 0 .. M /\ (n + 1) - 1 = n /\ n \in 0 .. M /\ n \in Nat
    BY <1>1
  <2>2. g = Footed(f, j, u) /\ Upto(n, f) /\ f \in Circuits(j)
    <3>1. h[n + 1] = Footed(h[(n + 1) - 1], j, t[n + 1])
      BY <1>3, <2>1
    <3>2. Upto(n, h[n])
      BY <1>5
    <3>3. h[n] \in Circuits(j)
      BY <1>3, <2>1
    <3> QED BY <2>1, <3>1, <3>2, <3>3
  <2>3. u \in Feet /\ Holds(t, u)
    BY <1>1, <2>1 DEF Holds
  <2>4. Circuit(f.nodes, f.wires) /\ j \in 1 .. Len(f.nodes) /\ f.nodes[j] = a
    BY <2>2 DEF Circuits
  <2>5. Fits(f.nodes[j], u)
    BY <2>3, <2>4, FeetOnIs
  <2>6. Adds(n + 1, u.thing) <=> Kind[u.thing] \in Parts
    OBVIOUS
  <2>7. /\ \A b : Adds(n + 1, b) <=> Kind[u.thing] \in Parts /\ b = u.thing
        /\ \A q : Wires(n + 1, q) <=> Kind[u.thing] \in Parts /\ q = FootOf(a, u)
    OBVIOUS
  <2> HIDE DEF f, g, u, Upto, Adds, Wires
  <2>8. FootMade(f, g, j, u)
    BY <2>2, <2>3, <2>4, <2>5, FootedIs
  <2>9. Extends(nodes, g.nodes)
    <3>1. Extends(nodes, f.nodes) /\ Extends(f.nodes, g.nodes)
      BY <2>2, <2>8 DEF Upto, FootMade
    <3>2. Len(nodes) \in Nat /\ Len(f.nodes) \in Nat /\ Len(g.nodes) \in Nat
      BY <1>1, <2>4, <2>8 DEF FootMade, Circuit
    <3> QED BY <3>1, <3>2 DEF Extends
  <2>10. \A i : i \in 1 .. n + 1 <=> i \in 1 .. n \/ i = n + 1
    BY <2>1
  <2>11. \A b : Holds(g.nodes, b) <=> Holds(nodes, b) \/ \E i \in 1 .. n + 1 : Adds(i, b)
    <3>1. \A b : Holds(g.nodes, b) <=> Holds(f.nodes, b) \/ Adds(n + 1, b)
      BY <2>7, <2>8 DEF FootMade
    <3>2. \A b : Holds(f.nodes, b) <=> Holds(nodes, b) \/ \E i \in 1 .. n : Adds(i, b)
      BY <2>2 DEF Upto
    <3> QED BY <2>10, <3>1, <3>2
  <2>12. \A q : FootIn(g.nodes, g.wires, q) <=> FootIn(nodes, wires, q) \/ \E i \in 1 .. n + 1 : Wires(i, q)
    <3>1. \A q : FootIn(g.nodes, g.wires, q) <=> FootIn(f.nodes, f.wires, q) \/ Wires(n + 1, q)
      BY <2>4, <2>7, <2>8 DEF FootMade
    <3>2. \A q : FootIn(f.nodes, f.wires, q) <=> FootIn(nodes, wires, q) \/ \E i \in 1 .. n : Wires(i, q)
      BY <2>2 DEF Upto
    <3> QED BY <2>10, <3>1, <3>2
  <2>13. Upto(n + 1, g)
    BY <2>9, <2>11, <2>12 DEF Upto
  <2> QED BY <2>1, <2>13 DEF g
<1>6. \A n \in 0 .. M : n \in S
  <2> HIDE DEF S, M
  <2> QED BY <1>1, <1>4, <1>5, InductionUpTo
<1> DEFINE o == Met(j)
<1>7. Upto(M, o) /\ o \in Circuits(j)
  <2>1. M \in 0 .. M
    BY <1>1
  <2>2. Upto(M, h[M])
    BY <1>6, <2>1
  <2>3. h[M] \in Circuits(j)
    BY <1>3, <2>1
  <2> HIDE DEF Upto
  <2> QED BY <1>3, <2>2, <2>3
<1> HIDE DEF o
<1>8. Circuit(o.nodes, o.wires)
  BY <1>7 DEF Circuits
<1>9. \A b : (\E i \in 1 .. M : Adds(i, b)) <=> \E e : Holds(t, e) /\ Kind[e.thing] \in Parts /\ b = e.thing
  BY DEF Holds
<1>10. \A q : (\E i \in 1 .. M : Wires(i, q)) <=> \E e : Holds(t, e) /\ Kind[e.thing] \in Parts /\ q = FootOf(a, e)
  BY DEF Holds
<1> HIDE DEF Adds, Wires
<1> QED BY <1>7, <1>8, <1>9, <1>10 DEF o

\* The feet on any of some things.
Joined(S) == {r \in DOMAIN store.wire :
                /\ Kind[store.wire[r].src] = "pin" /\ Kind[store.wire[r].dst] = "chip"
                /\ {store.wire[r].src, store.wire[r].dst} \cap S # {}}
FeetOf(S) == {<<store.wire[r].src, store.wire[r].dst, store.foot[r]>> : r \in Joined(S)}
PartsBy(S) == {b \in NextTo(S, Parts) : Kind[b] \in Parts}

\* The same, said of the relations: what a part more brings to a circuit.
LEMMA MetAdds ==
    ASSUME StoreOK, Circuit(nodes, wires), NEW j \in 1 .. Len(nodes)
    PROVE  /\ \A b : Holds(Met(j).nodes, b) <=> Holds(nodes, b) \/ b \in PartsBy({nodes[j]})
           /\ \A q : FootIn(Met(j).nodes, Met(j).wires, q) <=> FootIn(nodes, wires, q) \/ q \in FeetOf({nodes[j]})
<1> DEFINE a == nodes[j]
           w == store.wire
           Near(e, r) ==
             \/ Kind[a] = "pin" /\ Kind[e.thing] = "chip" /\ w[r].src = a /\ w[r].dst = e.thing /\ store.foot[r] = e.foot
             \/ Kind[a] = "chip" /\ Kind[e.thing] = "pin" /\ w[r].src = e.thing /\ w[r].dst = a /\ store.foot[r] = e.foot
<1>1. DOMAIN w = Rels /\ \A r \in Rels : w[r].src \in Thing /\ w[r].dst \in Thing /\ store.foot[r] \in Nat
  BY RelsAre
<1>2. \A r \in Rels : Kind[w[r].src] \in Parts /\ Kind[w[r].dst] \in Parts => Kind[w[r].src] = "pin" /\ Kind[w[r].dst] = "chip"
  BY Zenon DEF StoreOK
<1>3. a \in Thing /\ \A e : Holds(FeetOn(j), e) => e \in Feet
  BY FeetOnIs
<1>4. \A e \in Feet : Kind[e.thing] \in Parts => (Holds(FeetOn(j), e) <=> \E r \in Rels : Near(e, r))
  BY FeetOnIs
<1> HIDE DEF a
<1>5. ASSUME NEW b, NEW e, Holds(FeetOn(j), e), Kind[e.thing] \in Parts, b = e.thing
      PROVE  b \in PartsBy({a})
  <2>1. PICK r \in Rels : Near(e, r)
    BY <1>3, <1>4, <1>5
  <2>2. Touches(r, a, b) /\ Kind[a] \in Parts /\ Kind[b] \in Parts
    BY <1>5, <2>1 DEF Touches, Parts
  <2>3. b \in Thing
    BY <1>3, <1>5 DEF Feet
  <2> QED BY <1>1, <2>2, <2>3 DEF PartsBy, NextTo
<1>6. ASSUME NEW b \in PartsBy({a})
      PROVE  \E e : Holds(FeetOn(j), e) /\ Kind[e.thing] \in Parts /\ b = e.thing
  <2>1. b \in Thing /\ Kind[b] \in Parts /\ Kind[a] \in Parts
    BY DEF PartsBy, NextTo
  <2>2. PICK r \in Rels : Touches(r, a, b)
    BY <1>1 DEF PartsBy, NextTo
  <2> DEFINE e == [thing |-> b, foot |-> store.foot[r]]
  <2>3. e \in Feet /\ e.thing = b /\ e.foot = store.foot[r]
    BY <1>1, <2>1 DEF Feet
  <2>4. Kind[w[r].src] = "pin" /\ Kind[w[r].dst] = "chip"
    BY <1>2, <2>1, <2>2 DEF Touches
  <2>5. (w[r].src = a /\ w[r].dst = b) \/ (w[r].src = b /\ w[r].dst = a)
    BY <2>2 DEF Touches
  <2> HIDE DEF e
  <2>6. Near(e, r)
    BY <2>3, <2>4, <2>5
  <2>7. Holds(FeetOn(j), e)
    BY <1>4, <2>1, <2>3, <2>6
  <2> QED BY <2>1, <2>3, <2>7
<1>7. ASSUME NEW q, NEW e, Holds(FeetOn(j), e), Kind[e.thing] \in Parts, q = FootOf(a, e)
      PROVE  q \in FeetOf({a})
  <2>1. PICK r \in Rels : Near(e, r)
    BY <1>3, <1>4, <1>7
  <2>2. q = <<w[r].src, w[r].dst, store.foot[r]>>
    BY <1>7, <2>1 DEF FootOf
  <2>3. r \in Joined({a})
    BY <1>1, <2>1 DEF Joined
  <2> QED BY <2>2, <2>3 DEF FeetOf
<1>8. ASSUME NEW q \in FeetOf({a})
      PROVE  \E e : Holds(FeetOn(j), e) /\ Kind[e.thing] \in Parts /\ q = FootOf(a, e)
  <2>1. PICK r \in Joined({a}) : q = <<w[r].src, w[r].dst, store.foot[r]>>
    BY DEF FeetOf
  <2>2. r \in Rels /\ Kind[w[r].src] = "pin" /\ Kind[w[r].dst] = "chip" /\ (w[r].src = a \/ w[r].dst = a)
    BY <1>1 DEF Joined
  <2> DEFINE b == IF w[r].src = a THEN w[r].dst ELSE w[r].src
             e == [thing |-> b, foot |-> store.foot[r]]
  <2>3. e \in Feet /\ e.thing = b /\ e.foot = store.foot[r]
    BY <1>1, <2>2 DEF Feet
  <2>4. Near(e, r) /\ Kind[b] \in Parts
    BY <2>2 DEF Parts
  <2>5. q = FootOf(a, e)
    BY <2>1, <2>2 DEF FootOf
  <2> HIDE DEF e, b
  <2>6. Holds(FeetOn(j), e)
    BY <1>4, <2>2, <2>3, <2>4
  <2> QED BY <2>3, <2>4, <2>5, <2>6
<1>9. \A b : Holds(Met(j).nodes, b) <=>
               Holds(nodes, b) \/ \E e : Holds(FeetOn(j), e) /\ Kind[e.thing] \in Parts /\ b = e.thing
  BY MetIs
<1>10. \A q : FootIn(Met(j).nodes, Met(j).wires, q) <=>
                \/ FootIn(nodes, wires, q)
                \/ \E e : Holds(FeetOn(j), e) /\ Kind[e.thing] \in Parts /\ q = FootOf(a, e)
  BY MetIs DEF a
<1>11. \A b : Holds(Met(j).nodes, b) <=> Holds(nodes, b) \/ b \in PartsBy({a})
  BY <1>5, <1>6, <1>9
<1>12. \A q : FootIn(Met(j).nodes, Met(j).wires, q) <=> FootIn(nodes, wires, q) \/ q \in FeetOf({a})
  BY <1>7, <1>8, <1>10
<1> QED BY <1>11, <1>12 DEF a

----------------------------------------------------------------------------
(* Gather: the rounds of kirchhoff. *)

Parted(k) == {t \in Reach(nodes[1], Parts, k) : Kind[t] \in Parts} \cup {nodes[1]}

\* The parts within one relation more are those and the parts next to them.
LEMMA PartedIs ==
    ASSUME nodes[1] \in Thing
    PROVE  /\ Parted(0) = {nodes[1]}
           /\ \A k \in Nat : Parted(k) \subseteq Thing /\ Parted(k + 1) = Parted(k) \cup PartsBy(Parted(k))
<1> DEFINE x == nodes[1]
<1>1. Parts \in SUBSET ThingKinds
  BY DEF Parts, ThingKinds
<1>2. Parted(0) = {x}
  <2>1. Reach(x, Parts, 0) = {x}
    BY <1>1, ReachIs
  <2> QED BY <2>1 DEF Parted
<1>3. ASSUME NEW k \in Nat  PROVE Parted(k) \subseteq Thing /\ Parted(k + 1) = Parted(k) \cup PartsBy(Parted(k))
  <2>1. Reach(x, Parts, k) \subseteq Thing
    BY <1>1, ReachIs
  <2>2. Reach(x, Parts, k + 1) = Reach(x, Parts, k) \cup NextTo(Reach(x, Parts, k), Parts)
    BY <1>1, ReachIs
  <2>3. x \in Reach(x, Parts, k)
    <3> DEFINE T == {d \in 0 .. k : x \in Reach(x, Parts, d)}
    <3>1. 0 \in T
      BY <1>1, ReachIs
    <3>2. ASSUME NEW d \in 0 .. k - 1, d \in T  PROVE d + 1 \in T
      <4>1. d \in Nat /\ d + 1 \in 0 .. k
        OBVIOUS
      <4>2. Reach(x, Parts, d + 1) = Reach(x, Parts, d) \cup NextTo(Reach(x, Parts, d), Parts)
        BY <1>1, <4>1, ReachIs
      <4> QED BY <3>2, <4>1, <4>2
    <3>3. \A d \in 0 .. k : d \in T
      <4> HIDE DEF T
      <4> QED BY <3>1, <3>2, InductionUpTo
    <3> QED BY <3>3
  <2> DEFINE R == Reach(x, Parts, k)
  <2>4. Parted(k) = {t \in R : Kind[t] \in Parts} \cup {x}
    BY DEF Parted
  <2>5. Parted(k + 1) = {t \in R \cup NextTo(R, Parts) : Kind[t] \in Parts} \cup {x}
    BY <2>2 DEF Parted
  <2> HIDE DEF R, x
  <2>6. NextTo(Parted(k), Parts) = NextTo(R, Parts)
    BY <2>3, <2>4 DEF NextTo, R
  <2> QED BY <2>1, <2>3, <2>4, <2>5, <2>6 DEF PartsBy, R
<1> QED BY <1>2, <1>3

\* A round that meets nothing new is followed by none that would.
LEMMA PartedEnds ==
    ASSUME nodes[1] \in Thing, NEW c \in Nat, Parted(c + 1) = Parted(c), NEW k \in Nat, k >= c
    PROVE  Parted(k) = Parted(c)
<1> DEFINE N == k - c
           T == {d \in 0 .. N : Parted(c + d) = Parted(c)}
<1>1. N \in Nat /\ c + N = k /\ c + 0 = c
  OBVIOUS
<1>2. 0 \in T
  BY <1>1
<1>3. ASSUME NEW d \in 0 .. N - 1, d \in T  PROVE d + 1 \in T
  <2>1. c + d \in Nat /\ c + (d + 1) = (c + d) + 1 /\ d + 1 \in 0 .. N
    BY <1>1
  <2>2. Parted((c + d) + 1) = Parted(c + d) \cup PartsBy(Parted(c + d))
    BY <2>1, PartedIs
  <2>3. Parted(c + 1) = Parted(c) \cup PartsBy(Parted(c))
    BY PartedIs
  <2>4. Parted(c + d) = Parted(c)
    BY <1>3
  <2> QED BY <2>1, <2>2, <2>3, <2>4
<1>4. \A d \in 0 .. N : d \in T
  <2> HIDE DEF T, N
  <2> QED BY <1>1, <1>2, <1>3, InductionUpTo
<1>5. N \in T
  <2>1. N \in 0 .. N
    BY <1>1
  <2> HIDE DEF T
  <2> QED BY <1>4, <2>1
<1> QED BY <1>1, <1>5

\* The parts around a net depend on the store and the net alone.
LEMMA PartedKeeps ==
    ASSUME store' = store, nodes'[1] = nodes[1]
    PROVE  \A k : Parted(k)' = Parted(k)
  BY DEF Parted, Reach, Touches

----------------------------------------------------------------------------
(* Gather: the sort of kirchhoff, and the details. *)

\* A comparison of the sort keeps the wires.
LEMMA SwappedIs ==
    ASSUME NEW S, NEW s \in Seq(S), IsInjective(s), NEW k \in 2 .. Len(s)
    PROVE  /\ Swapped(s, k) \in Seq(S) /\ Len(Swapped(s, k)) = Len(s) /\ IsInjective(Swapped(s, k))
           /\ \A x : Holds(Swapped(s, k), x) <=> Holds(s, x)
<1> DEFINE h == k - 1
           g == [s EXCEPT ![k] = s[k - 1], ![k - 1] = s[k]]
<1>1. k \in 1 .. Len(s) /\ h \in 1 .. Len(s) /\ h # k /\ Len(s) \in Nat /\ DOMAIN s = 1 .. Len(s)
  OBVIOUS
<1>2. CASE ~Above(s[k - 1], s[k])
  <2>1. Swapped(s, k) = s
    BY <1>2 DEF Swapped
  <2> QED BY <2>1
<1>3. CASE Above(s[k - 1], s[k])
  <2>1. Swapped(s, k) = g
    BY <1>3 DEF Swapped
  <2>2. \A i \in 1 .. Len(s) : s[i] \in S
    OBVIOUS
  <2>3. g = [i \in 1 .. Len(s) |-> IF i = h THEN s[k] ELSE IF i = k THEN s[h] ELSE s[i]]
    BY <1>1
  <2>4. \A i \in 1 .. Len(s) : g[i] = IF i = h THEN s[k] ELSE IF i = k THEN s[h] ELSE s[i]
    BY <2>3
  <2> HIDE DEF g, h
  <2>5. g \in [1 .. Len(s) -> S]
    BY <1>1, <2>2, <2>3
  <2>6. g \in Seq(S) /\ Len(g) = Len(s) /\ DOMAIN g = 1 .. Len(s)
    BY <1>1, <2>5
  <2>7. IsInjective(g)
    BY <1>1, <2>4, <2>6 DEF IsInjective
  <2>8. \A x : Holds(g, x) <=> Holds(s, x)
    <3>1. ASSUME NEW x, NEW i \in 1 .. Len(s), g[i] = x  PROVE Holds(s, x)
      BY <1>1, <2>4, <3>1 DEF Holds
    <3>2. ASSUME NEW x, NEW i \in 1 .. Len(s), s[i] = x  PROVE \E l \in 1 .. Len(s) : g[l] = x
      <4>1. CASE i = h
        BY <1>1, <2>4, <3>2, <4>1
      <4>2. CASE i = k
        BY <1>1, <2>4, <3>2, <4>2
      <4>3. CASE i # h /\ i # k
        BY <1>1, <2>4, <3>2, <4>3
      <4> QED BY <4>1, <4>2, <4>3
    <3> QED BY <2>6, <3>1, <3>2 DEF Holds
  <2> QED BY <2>1, <2>6, <2>7, <2>8
<1> QED BY <1>2, <1>3

Orders == {s \in Seq(Triples) : Len(s) = Len(wires) /\ IsInjective(s) /\ \A x : Holds(s, x) <=> Holds(wires, x)}

PassBy(h, from) ==
    /\ h \in [0 .. Len(wires) - from -> Orders] /\ h[0] = wires /\ PassOver(from) = h[Len(wires) - from]
    /\ \A i \in 1 .. Len(wires) - from : h[i] = Swapped(h[i - 1], from + i)

\* A pass as the loop of its steps: it leaves the wires what they are.
LEMMA PassRuns ==
    ASSUME wires \in Seq(Triples), IsInjective(wires), NEW from \in 1 .. Len(wires)
    PROVE  \E h : PassBy(h, from)
<1> DEFINE M == Len(wires) - from
           X == Orders
           a == wires
           Step(i, l) == Swapped(l, from + i)
<1>1. M \in Nat /\ a \in X
  BY DEF Orders
<1>2. ASSUME NEW i \in 1 .. M, NEW l \in X  PROVE Step(i, l) \in X
  <2>1. l \in Seq(Triples) /\ Len(l) = Len(wires) /\ IsInjective(l) /\ \A x : Holds(l, x) <=> Holds(wires, x)
    BY DEF Orders
  <2> DEFINE k == from + i
             g == Swapped(l, k)
  <2>2. k \in 2 .. Len(l)
    BY <2>1
  <2> HIDE DEF k
  <2>3. g \in Seq(Triples) /\ Len(g) = Len(l) /\ IsInjective(g)
    BY <2>1, <2>2, SwappedIs
  <2>4. \A x : Holds(g, x) <=> Holds(l, x)
    BY <2>1, <2>2, SwappedIs
  <2> HIDE DEF g
  <2>5. g \in Orders
    BY <2>1, <2>3, <2>4 DEF Orders
  <2> QED BY <2>5 DEF g, k
<1>3. PassOver(from) = (CHOOSE g : g = [i \in 0 .. M |-> IF i = 0 THEN a ELSE Step(i, g[i - 1])])[M]
  BY Zenon DEF PassOver
<1> DEFINE E == [i \in 1 .. M |-> [l \in X |-> Step(i, l)]]
           Is(g) == g = [i \in 0 .. M |-> IF i = 0 THEN a ELSE Step(i, g[i - 1])]
           h == CHOOSE g : Is(g)
<1>4. \A i \in 1 .. M : \A l \in X : E[i][l] = Step(i, l)
  OBVIOUS
<1>5. E \in [1 .. M -> [X -> X]]
  <2> HIDE DEF Step, X, M
  <2>1. \A i \in 1 .. M : [l \in X |-> Step(i, l)] \in [X -> X]
    BY <1>2
  <2> QED BY <2>1
<1> HIDE DEF E, M, X, a, Step
<1>6. PICK g \in [0 .. M -> X] : Recurs(g, M, a, E)
  BY <1>1, <1>5, RecursionDefines
<1>7. ASSUME NEW i \in 0 .. M  PROVE g[i] = IF i = 0 THEN a ELSE Step(i, g[i - 1])
  <2>1. g[i] = IF i = 0 THEN a ELSE E[i][g[i - 1]]
    BY <1>6 DEF Recurs
  <2>2. i # 0 => i \in 1 .. M /\ i - 1 \in 0 .. M
    BY <1>1
  <2> QED BY <1>4, <2>1, <2>2
<1>8. Is(g)
  <2>1. g = [i \in 0 .. M |-> g[i]]
    OBVIOUS
  <2> QED BY <1>7, <2>1, Zenon
<1>9. Is(h)
  BY <1>8, Zenon
<1> HIDE DEF h
<1>10. \A i \in 0 .. M : h[i] = IF i = 0 THEN a ELSE Step(i, h[i - 1])
  <2>1. h = [i \in 0 .. M |-> IF i = 0 THEN a ELSE Step(i, h[i - 1])]
    BY <1>9
  <2> QED BY <2>1
<1>11. h = [i \in 0 .. M |-> h[i]]
  <2>1. h = [i \in 0 .. M |-> IF i = 0 THEN a ELSE Step(i, h[i - 1])]
    BY <1>9
  <2> HIDE DEF Is
  <2> QED BY <1>10, <2>1, Zenon
<1> HIDE DEF Is
<1> DEFINE T == {i \in 0 .. M : h[i] \in X}
<1>12. \A i \in 0 .. M : i \in T
  <2>1. 0 \in T
    BY <1>1, <1>10
  <2>2. ASSUME NEW n \in 0 .. M - 1, n \in T  PROVE n + 1 \in T
    <3>1. n + 1 \in 0 .. M /\ n + 1 \in 1 .. M /\ n + 1 # 0 /\ (n + 1) - 1 = n
      BY <1>1
    <3>2. h[n + 1] = Step(n + 1, h[n])
      BY <1>10, <3>1
    <3> QED BY <1>2, <2>2, <3>1, <3>2
  <2> HIDE DEF T
  <2> QED BY <1>1, <2>1, <2>2, InductionUpTo
<1>13. h \in [0 .. M -> X]
  <2>1. \A i \in 0 .. M : h[i] \in X
    BY <1>12
  <2> QED BY <1>11, <2>1
<1>14. h[0] = a /\ \A i \in 1 .. M : h[i] = Step(i, h[i - 1])
  BY <1>1, <1>10
<1>15. PassOver(from) = h[M]
  BY <1>3, Zenon DEF h, Is
<1>16. PassBy(h, from)
  BY <1>13, <1>14, <1>15, Zenon DEF PassBy, M, X, a, Step
<1> QED BY <1>16, Zenon

\* So does a pass.
LEMMA PassedIs ==
    ASSUME wires \in Seq(Triples), IsInjective(wires), NEW from \in 1 .. Len(wires)
    PROVE  /\ PassOver(from) \in Seq(Triples) /\ Len(PassOver(from)) = Len(wires) /\ IsInjective(PassOver(from))
           /\ \A x : Holds(PassOver(from), x) <=> Holds(wires, x)
<1>1. PICK h : PassBy(h, from)
  BY PassRuns
<1> DEFINE M == Len(wires) - from
<1>2. h \in [0 .. M -> Orders] /\ PassOver(from) = h[M]
  BY <1>1, Zenon DEF PassBy
<1>3. M \in 0 .. M
  OBVIOUS
<1>4. PassOver(from) \in Orders
  BY <1>2, <1>3
<1> QED BY <1>4 DEF Orders

Details == [1 .. Len(nodes) -> [P : Nat, N : Nat]]

\* Writing one P of detail.
LEMMA SetP ==
    ASSUME NEW d \in Details, NEW k \in 1 .. Len(nodes), NEW v \in Nat
    PROVE  /\ [d EXCEPT ![k].P = v] \in Details
           /\ \A i \in 1 .. Len(nodes) : /\ [d EXCEPT ![k].P = v][i].P = IF i = k THEN v ELSE d[i].P
                                         /\ [d EXCEPT ![k].P = v][i].N = d[i].N
<1> DEFINE D == [P : Nat, N : Nat]
           Put(e) == [e EXCEPT !.P = v]
           I == 1 .. Len(nodes)
           g == [d EXCEPT ![k] = Put(d[k])]
<1>1. \A e \in D : Put(e) \in D /\ Put(e).P = v /\ Put(e).N = e.N
  OBVIOUS
<1>2. d \in [I -> D] /\ k \in I
  BY DEF Details
<1>3. [d EXCEPT ![k].P = v] = g
  OBVIOUS
<1> HIDE DEF D, Put, I, g
<1>4. g \in [I -> D] /\ \A i \in I : g[i] = IF i = k THEN Put(d[k]) ELSE d[i]
  BY <1>1, <1>2 DEF g
<1>5. \A i \in I : g[i].P = (IF i = k THEN v ELSE d[i].P) /\ g[i].N = d[i].N
  <2> SUFFICES ASSUME NEW i \in I  PROVE g[i].P = (IF i = k THEN v ELSE d[i].P) /\ g[i].N = d[i].N
    OBVIOUS
  <2>1. d[k] \in D
    BY <1>2
  <2>2. CASE i = k
    BY <1>1, <1>4, <2>1, <2>2
  <2>3. CASE i # k
    BY <1>4, <2>3
  <2> QED BY <2>2, <2>3
<1> QED BY <1>3, <1>4, <1>5 DEF D, I, Details

\* Writing one N of detail.
LEMMA SetN ==
    ASSUME NEW d \in Details, NEW k \in 1 .. Len(nodes), NEW v \in Nat
    PROVE  /\ [d EXCEPT ![k].N = v] \in Details
           /\ \A i \in 1 .. Len(nodes) : /\ [d EXCEPT ![k].N = v][i].N = IF i = k THEN v ELSE d[i].N
                                         /\ [d EXCEPT ![k].N = v][i].P = d[i].P
<1> DEFINE D == [P : Nat, N : Nat]
           Put(e) == [e EXCEPT !.N = v]
           I == 1 .. Len(nodes)
           g == [d EXCEPT ![k] = Put(d[k])]
<1>1. \A e \in D : Put(e) \in D /\ Put(e).N = v /\ Put(e).P = e.P
  OBVIOUS
<1>2. d \in [I -> D] /\ k \in I
  BY DEF Details
<1>3. [d EXCEPT ![k].N = v] = g
  OBVIOUS
<1> HIDE DEF D, Put, I, g
<1>4. g \in [I -> D] /\ \A i \in I : g[i] = IF i = k THEN Put(d[k]) ELSE d[i]
  BY <1>1, <1>2 DEF g
<1>5. \A i \in I : g[i].N = (IF i = k THEN v ELSE d[i].N) /\ g[i].P = d[i].P
  <2> SUFFICES ASSUME NEW i \in I  PROVE g[i].N = (IF i = k THEN v ELSE d[i].N) /\ g[i].P = d[i].P
    OBVIOUS
  <2>1. d[k] \in D
    BY <1>2
  <2>2. CASE i = k
    BY <1>1, <1>4, <2>1, <2>2
  <2>3. CASE i # k
    BY <1>4, <2>3
  <2> QED BY <2>2, <2>3
<1> QED BY <1>3, <1>4, <1>5 DEF D, I, Details

DetailBy(h) ==
    /\ h \in [0 .. Len(wires) -> Details] /\ h[0] = detail /\ Detailed = h[Len(wires)]
    /\ \A i \in 1 .. Len(wires) : h[i] = Noted(h[i - 1], i)

\* The details as the loop over the wires.
LEMMA DetailRuns ==
    ASSUME Circuit(nodes, wires), detail \in Details
    PROVE  \E h : DetailBy(h)
<1> DEFINE M == Len(wires)
           X == Details
           a == detail
           Step(i, l) == Noted(l, i)
<1>1. M \in Nat /\ a \in X
  BY DEF Circuit
<1>2. ASSUME NEW i \in 1 .. M, NEW l \in X  PROVE Step(i, l) \in X
  <2>1. wires \in Seq(Triples)
    BY DEF Circuit
  <2> DEFINE x == wires[i]
  <2>2. x \in Triples /\ Holds(wires, x)
    BY <2>1 DEF Holds
  <2>3. x[1] \in 1 .. Len(nodes) /\ x[2] \in 1 .. Len(nodes) /\ x[1] \in Nat
    <3> HIDE DEF x
    <3>1. x[1] \in 1 .. Len(nodes) /\ x[2] \in 1 .. Len(nodes)
      BY <2>2 DEF Circuit
    <3> QED BY <3>1
  <2> DEFINE p == IF First(i) THEN [l EXCEPT ![x[1]].P = i] ELSE l
  <2>4. p \in Details
    <3>1. i \in Nat
      OBVIOUS
    <3> HIDE DEF x
    <3>2. [l EXCEPT ![x[1]].P = i] \in Details
      BY <2>3, <3>1, SetP
    <3> QED BY <3>2
  <2>5. Noted(l, i) = CASE x[3] = 43 -> [p EXCEPT ![x[2]].P = x[1]]
                        [] x[3] = 45 -> [p EXCEPT ![x[2]].N = x[1]]
                        [] OTHER -> p
    BY Zenon DEF Noted
  <2> HIDE DEF p, x
  <2>6. /\ x[3] = 43 => Noted(l, i) = [p EXCEPT ![x[2]].P = x[1]]
        /\ x[3] = 45 => Noted(l, i) = [p EXCEPT ![x[2]].N = x[1]]
        /\ x[3] # 43 /\ x[3] # 45 => Noted(l, i) = p
    BY <2>5
  <2>7. [p EXCEPT ![x[2]].P = x[1]] \in Details
    BY <2>3, <2>4, SetP
  <2>8. [p EXCEPT ![x[2]].N = x[1]] \in Details
    BY <2>3, <2>4, SetN
  <2>9. Noted(l, i) \in Details
    <3> HIDE DEF Details
    <3> QED BY <2>4, <2>6, <2>7, <2>8
  <2> QED BY <2>9
<1>3. Detailed = (CHOOSE g : g = [i \in 0 .. M |-> IF i = 0 THEN a ELSE Step(i, g[i - 1])])[M]
  BY Zenon DEF Detailed
<1> DEFINE E == [i \in 1 .. M |-> [l \in X |-> Step(i, l)]]
           Is(g) == g = [i \in 0 .. M |-> IF i = 0 THEN a ELSE Step(i, g[i - 1])]
           h == CHOOSE g : Is(g)
<1>4. \A i \in 1 .. M : \A l \in X : E[i][l] = Step(i, l)
  OBVIOUS
<1>5. E \in [1 .. M -> [X -> X]]
  <2> HIDE DEF Step, X, M
  <2>1. \A i \in 1 .. M : [l \in X |-> Step(i, l)] \in [X -> X]
    BY <1>2
  <2> QED BY <2>1
<1> HIDE DEF E, M, X, a, Step
<1>6. PICK g \in [0 .. M -> X] : Recurs(g, M, a, E)
  BY <1>1, <1>5, RecursionDefines
<1>7. ASSUME NEW i \in 0 .. M  PROVE g[i] = IF i = 0 THEN a ELSE Step(i, g[i - 1])
  <2>1. g[i] = IF i = 0 THEN a ELSE E[i][g[i - 1]]
    BY <1>6 DEF Recurs
  <2>2. i # 0 => i \in 1 .. M /\ i - 1 \in 0 .. M
    BY <1>1
  <2> QED BY <1>4, <2>1, <2>2
<1>8. Is(g)
  <2>1. g = [i \in 0 .. M |-> g[i]]
    OBVIOUS
  <2> QED BY <1>7, <2>1, Zenon
<1>9. Is(h)
  BY <1>8, Zenon
<1> HIDE DEF h
<1>10. \A i \in 0 .. M : h[i] = IF i = 0 THEN a ELSE Step(i, h[i - 1])
  <2>1. h = [i \in 0 .. M |-> IF i = 0 THEN a ELSE Step(i, h[i - 1])]
    BY <1>9
  <2> QED BY <2>1
<1>11. h = [i \in 0 .. M |-> h[i]]
  <2>1. h = [i \in 0 .. M |-> IF i = 0 THEN a ELSE Step(i, h[i - 1])]
    BY <1>9
  <2> HIDE DEF Is
  <2> QED BY <1>10, <2>1, Zenon
<1> HIDE DEF Is
<1> DEFINE T == {i \in 0 .. M : h[i] \in X}
<1>12. \A i \in 0 .. M : i \in T
  <2>1. 0 \in T
    BY <1>1, <1>10
  <2>2. ASSUME NEW n \in 0 .. M - 1, n \in T  PROVE n + 1 \in T
    <3>1. n + 1 \in 0 .. M /\ n + 1 \in 1 .. M /\ n + 1 # 0 /\ (n + 1) - 1 = n
      BY <1>1
    <3>2. h[n + 1] = Step(n + 1, h[n])
      BY <1>10, <3>1
    <3> QED BY <1>2, <2>2, <3>1, <3>2
  <2> HIDE DEF T
  <2> QED BY <1>1, <2>1, <2>2, InductionUpTo
<1>13. h \in [0 .. M -> X]
  <2>1. \A i \in 0 .. M : h[i] \in X
    BY <1>12
  <2> QED BY <1>11, <2>1
<1>14. h[0] = a /\ \A i \in 1 .. M : h[i] = Step(i, h[i - 1])
  BY <1>1, <1>10
<1>15. Detailed = h[M]
  BY <1>3, Zenon DEF h, Is
<1>16. DetailBy(h)
  BY <1>13, <1>14, <1>15, Zenon DEF DetailBy, M, X, a, Step
<1> QED BY <1>16, Zenon

\* What one wire notes: for its pin, the wire, when the one before is of another; for its
\* chip, the pin, under the sign of the foot.
LEMMA NotedIs ==
    ASSUME Circuit(nodes, wires), NEW d \in Details, NEW j \in 1 .. Len(wires)
    PROVE  LET x == wires[j]
               g == Noted(d, j)
           IN  /\ g \in Details
               /\ \A i \in 1 .. Len(nodes) :
                    /\ Kind[nodes[i]] = "pin" => g[i].P = IF First(j) /\ i = x[1] THEN j ELSE d[i].P
                    /\ Kind[nodes[i]] # "pin" =>
                         /\ g[i].P = IF x[2] = i /\ x[3] = 43 THEN x[1] ELSE d[i].P
                         /\ g[i].N = IF x[2] = i /\ x[3] = 45 THEN x[1] ELSE d[i].N
<1> DEFINE x == wires[j]
           g == Noted(d, j)
           p == IF First(j) THEN [d EXCEPT ![x[1]].P = j] ELSE d
<1>1. wires \in Seq(Triples)
  BY DEF Circuit
<1>2. x \in Triples /\ Holds(wires, x)
  BY <1>1 DEF Holds
<1> HIDE DEF x
<1>3. x[1] \in 1 .. Len(nodes) /\ x[2] \in 1 .. Len(nodes) /\ Kind[nodes[x[1]]] = "pin" /\ Kind[nodes[x[2]]] = "chip"
  BY <1>2 DEF Circuit
<1>4. x[1] \in Nat /\ j \in Nat
  BY <1>3
<1>5. g = CASE x[3] = 43 -> [p EXCEPT ![x[2]].P = x[1]]
            [] x[3] = 45 -> [p EXCEPT ![x[2]].N = x[1]]
            [] OTHER -> p
  BY Zenon DEF Noted, x
<1>6. p \in Details /\ \A i \in 1 .. Len(nodes) : p[i].P = (IF First(j) /\ i = x[1] THEN j ELSE d[i].P) /\ p[i].N = d[i].N
  <2>1. CASE First(j)
    <3>1. p = [d EXCEPT ![x[1]].P = j]
      BY <2>1
    <3> HIDE DEF p
    <3>2. p \in Details
      BY <1>3, <1>4, <3>1, SetP
    <3>3. \A i \in 1 .. Len(nodes) : p[i].P = (IF i = x[1] THEN j ELSE d[i].P) /\ p[i].N = d[i].N
      BY <1>3, <1>4, <3>1, SetP
    <3> HIDE DEF Details
    <3> QED BY <2>1, <3>2, <3>3
  <2>2. CASE ~First(j)
    BY <2>2
  <2> QED BY <2>1, <2>2
<1> HIDE DEF p, g
<1>7. CASE x[3] = 43
  <2>1. g = [p EXCEPT ![x[2]].P = x[1]]
    BY <1>5, <1>7
  <2>2. g \in Details
    BY <1>3, <1>4, <1>6, <2>1, SetP
  <2>3. \A i \in 1 .. Len(nodes) : g[i].P = (IF i = x[2] THEN x[1] ELSE p[i].P) /\ g[i].N = p[i].N
    BY <1>3, <1>4, <1>6, <2>1, SetP
  <2> HIDE DEF Details
  <2>4. \A i \in 1 .. Len(nodes) :
          /\ Kind[nodes[i]] = "pin" => g[i].P = IF First(j) /\ i = x[1] THEN j ELSE d[i].P
          /\ Kind[nodes[i]] # "pin" =>
               /\ g[i].P = IF x[2] = i /\ x[3] = 43 THEN x[1] ELSE d[i].P
               /\ g[i].N = IF x[2] = i /\ x[3] = 45 THEN x[1] ELSE d[i].N
    BY <1>3, <1>6, <1>7, <2>3
  <2> QED BY <2>2, <2>4 DEF g, x
<1>8. CASE x[3] = 45
  <2>1. g = [p EXCEPT ![x[2]].N = x[1]]
    BY <1>5, <1>8
  <2>2. g \in Details
    BY <1>3, <1>4, <1>6, <2>1, SetN
  <2>3. \A i \in 1 .. Len(nodes) : g[i].N = (IF i = x[2] THEN x[1] ELSE p[i].N) /\ g[i].P = p[i].P
    BY <1>3, <1>4, <1>6, <2>1, SetN
  <2> HIDE DEF Details
  <2>4. \A i \in 1 .. Len(nodes) :
          /\ Kind[nodes[i]] = "pin" => g[i].P = IF First(j) /\ i = x[1] THEN j ELSE d[i].P
          /\ Kind[nodes[i]] # "pin" =>
               /\ g[i].P = IF x[2] = i /\ x[3] = 43 THEN x[1] ELSE d[i].P
               /\ g[i].N = IF x[2] = i /\ x[3] = 45 THEN x[1] ELSE d[i].N
    BY <1>3, <1>6, <1>8, <2>3
  <2> QED BY <2>2, <2>4 DEF g, x
<1>9. CASE x[3] # 43 /\ x[3] # 45
  <2>1. g = p
    BY <1>5, <1>9
  <2> HIDE DEF Details
  <2>4. \A i \in 1 .. Len(nodes) :
          /\ Kind[nodes[i]] = "pin" => g[i].P = IF First(j) /\ i = x[1] THEN j ELSE d[i].P
          /\ Kind[nodes[i]] # "pin" =>
               /\ g[i].P = IF x[2] = i /\ x[3] = 43 THEN x[1] ELSE d[i].P
               /\ g[i].N = IF x[2] = i /\ x[3] = 45 THEN x[1] ELSE d[i].N
    BY <1>3, <1>6, <1>9, <2>1
  <2> QED BY <1>6, <2>1, <2>4 DEF g, x
<1> QED BY <1>7, <1>8, <1>9

\* The details of the first n wires: a wire of each pin, a pin of each sign of each chip.
OfPin(d, n, i) == (\E m \in 1 .. n : wires[m][1] = i) => \E m \in 1 .. n : d[i].P = m /\ wires[m][1] = i
Signed(v, n, i, sign) ==
    (\E m \in 1 .. n : wires[m][2] = i /\ wires[m][3] = sign) =>
      \E m \in 1 .. n : wires[m][2] = i /\ wires[m][3] = sign /\ v = wires[m][1]
NotedTo(d, n) ==
    \A i \in 1 .. Len(nodes) :
      /\ Kind[nodes[i]] = "pin" => OfPin(d, n, i)
      /\ Kind[nodes[i]] # "pin" => Signed(d[i].P, n, i, 43) /\ Signed(d[i].N, n, i, 45)

\* A wire more leaves the noted sign among those seen.
LEMMA SignedMore ==
    ASSUME NEW n \in Nat, NEW i, NEW sign, NEW u, NEW v, Signed(u, n, i, sign),
           v = IF wires[n + 1][2] = i /\ wires[n + 1][3] = sign THEN wires[n + 1][1] ELSE u
    PROVE  Signed(v, n + 1, i, sign)
<1>1. \A m : m \in 1 .. n + 1 <=> m \in 1 .. n \/ m = n + 1
  OBVIOUS
<1> DEFINE Here(m) == wires[m][2] = i /\ wires[m][3] = sign
           Has(m, w) == w = wires[m][1]
<1>2. CASE Here(n + 1)
  <2>1. Has(n + 1, v)
    BY <1>2
  <2> HIDE DEF Here, Has
  <2>2. \E m \in 1 .. n + 1 : Here(m) /\ Has(m, v)
    BY <1>1, <1>2, <2>1
  <2> QED BY <2>2 DEF Signed, Here, Has
<1>3. CASE ~Here(n + 1)
  <2>1. v = u
    BY <1>3
  <2>2. (\E m \in 1 .. n : Here(m)) => \E m \in 1 .. n : Here(m) /\ Has(m, u)
    BY DEF Signed
  <2> HIDE DEF Here, Has
  <2>3. (\E m \in 1 .. n + 1 : Here(m)) => \E m \in 1 .. n + 1 : Here(m) /\ Has(m, v)
    BY <1>1, <1>3, <2>1, <2>2
  <2> QED BY <2>3 DEF Signed, Here, Has
<1> QED BY <1>2, <1>3

\* A wire more leaves the noted wire one of the pin.
LEMMA PinMore ==
    ASSUME NEW n \in Nat, NEW i, NEW d, NEW g, OfPin(d, n, i),
           g[i].P = IF First(n + 1) /\ i = wires[n + 1][1] THEN n + 1 ELSE d[i].P
    PROVE  OfPin(g, n + 1, i)
<1>1. \A m : m \in 1 .. n + 1 <=> m \in 1 .. n \/ m = n + 1
  OBVIOUS
<1> DEFINE Here(m) == wires[m][1] = i
<1>2. (\E m \in 1 .. n : Here(m)) => \E m \in 1 .. n : d[i].P = m /\ Here(m)
  BY DEF OfPin
<1>3. CASE First(n + 1) /\ Here(n + 1)
  <2>1. g[i].P = n + 1
    BY <1>3
  <2> HIDE DEF Here
  <2>2. \E m \in 1 .. n + 1 : g[i].P = m /\ Here(m)
    BY <1>1, <1>3, <2>1
  <2> QED BY <2>2 DEF OfPin, Here
<1>4. CASE ~(First(n + 1) /\ Here(n + 1))
  <2>1. g[i].P = d[i].P
    BY <1>4
  <2>2. Here(n + 1) => \E m \in 1 .. n : Here(m)
    <3> SUFFICES ASSUME Here(n + 1)  PROVE \E m \in 1 .. n : Here(m)
      OBVIOUS
    <3>1. ~First(n + 1)
      BY <1>4
    <3>2. n + 1 # 1 /\ wires[(n + 1) - 1][1] = wires[n + 1][1] /\ (n + 1) - 1 = n
      BY <3>1 DEF First
    <3>3. n \in 1 .. n /\ Here(n)
      BY <3>2
    <3> QED BY <3>3
  <2> HIDE DEF Here
  <2>3. (\E m \in 1 .. n + 1 : Here(m)) => \E m \in 1 .. n + 1 : g[i].P = m /\ Here(m)
    BY <1>1, <1>2, <2>1, <2>2
  <2> QED BY <2>3 DEF OfPin, Here
<1> QED BY <1>3, <1>4

\* The loop over the sorted wires notes what it should of each entry.
LEMMA DetailedIs ==
    ASSUME Circuit(nodes, wires), detail \in Details
    PROVE  NotedTo(Detailed, Len(wires))
<1> DEFINE M == Len(wires)
<1>1. M \in Nat
  BY DEF Circuit
<1>2. PICK h : DetailBy(h)
  BY DetailRuns
<1>3. h \in [0 .. M -> Details] /\ Detailed = h[M] /\ \A i \in 1 .. M : h[i] = Noted(h[i - 1], i)
  BY <1>2, Zenon DEF DetailBy
<1> DEFINE S == {n \in 0 .. M : NotedTo(h[n], n)}
<1>4. 0 \in S
  <2>1. \A m : m \notin 1 .. 0
    OBVIOUS
  <2>2. NotedTo(h[0], 0)
    BY <2>1 DEF NotedTo, OfPin, Signed
  <2> QED BY <1>1, <2>2
<1>5. ASSUME NEW n \in 0 .. M - 1, n \in S  PROVE n + 1 \in S
  <2>1. n + 1 \in 1 .. M /\ n + 1 \in 0 .. M /\ (n + 1) - 1 = n /\ n \in 0 .. M /\ n \in Nat
    BY <1>1
  <2> DEFINE d == h[n]
             g == h[n + 1]
             j == n + 1
  <2>2. d \in Details /\ g = Noted(d, n + 1) /\ NotedTo(d, n)
    BY <1>3, <1>5, <2>1
  <2> HIDE DEF d, g
  <2>3. \A i \in 1 .. Len(nodes) :
          /\ Kind[nodes[i]] = "pin" => g[i].P = IF First(n + 1) /\ i = wires[n + 1][1] THEN n + 1 ELSE d[i].P
          /\ Kind[nodes[i]] # "pin" =>
               /\ g[i].P = IF wires[n + 1][2] = i /\ wires[n + 1][3] = 43 THEN wires[n + 1][1] ELSE d[i].P
               /\ g[i].N = IF wires[n + 1][2] = i /\ wires[n + 1][3] = 45 THEN wires[n + 1][1] ELSE d[i].N
    BY <2>1, <2>2, NotedIs
  <2>4. NotedTo(g, n + 1)
    <3> SUFFICES ASSUME NEW i \in 1 .. Len(nodes)
                 PROVE  /\ Kind[nodes[i]] = "pin" => OfPin(g, n + 1, i)
                        /\ Kind[nodes[i]] # "pin" => Signed(g[i].P, n + 1, i, 43) /\ Signed(g[i].N, n + 1, i, 45)
      BY DEF NotedTo
    <3>1. /\ Kind[nodes[i]] = "pin" => OfPin(d, n, i)
          /\ Kind[nodes[i]] # "pin" => Signed(d[i].P, n, i, 43) /\ Signed(d[i].N, n, i, 45)
      BY <2>2, Zenon DEF NotedTo
    <3>2. CASE Kind[nodes[i]] = "pin"
      <4>1. g[i].P = IF First(n + 1) /\ i = wires[n + 1][1] THEN n + 1 ELSE d[i].P
        BY <2>3, <3>2, Zenon
      <4>2. OfPin(d, n, i)
        BY <3>1, <3>2
      <4>3. OfPin(g, n + 1, i)
        BY ONLY <2>1, <4>1, <4>2, PinMore
      <4> QED BY <3>2, <4>3
    <3>3. CASE Kind[nodes[i]] # "pin"
      <4>1. g[i].P = IF wires[n + 1][2] = i /\ wires[n + 1][3] = 43 THEN wires[n + 1][1] ELSE d[i].P
        BY <2>3, <3>3, Zenon
      <4>2. g[i].N = IF wires[n + 1][2] = i /\ wires[n + 1][3] = 45 THEN wires[n + 1][1] ELSE d[i].N
        BY <2>3, <3>3, Zenon
      <4>3. Signed(d[i].P, n, i, 43) /\ Signed(d[i].N, n, i, 45)
        BY <3>1, <3>3
      <4>4. Signed(g[i].P, n + 1, i, 43)
        BY ONLY <2>1, <4>1, <4>3, SignedMore
      <4>5. Signed(g[i].N, n + 1, i, 45)
        BY ONLY <2>1, <4>2, <4>3, SignedMore
      <4> QED BY <3>3, <4>4, <4>5
    <3> QED BY <3>2, <3>3
  <2> QED BY <2>1, <2>4 DEF g
<1>6. \A n \in 0 .. M : n \in S
  <2> HIDE DEF S, M
  <2> QED BY <1>1, <1>4, <1>5, InductionUpTo
<1>7. NotedTo(h[M], M)
  <2>1. M \in 0 .. M
    BY <1>1
  <2> QED BY <1>6, <2>1
<1> QED BY <1>3, <1>7

----------------------------------------------------------------------------
(* Gather: the invariant of kirchhoff. *)

\* In a round: what was met when it began, and what is met by now.
Meeting ==
    /\ layer.count \in 0 .. CtxRounds - 1 /\ layer.nodes \in 1 .. Len(nodes) /\ next \in 1 .. layer.nodes + 1
    /\ \A b : (\E i \in 1 .. layer.nodes : nodes[i] = b) <=> b \in Parted(layer.count)
    /\ \A b : Holds(nodes, b) <=> b \in Parted(layer.count) \cup PartsBy(Seen)
    /\ \A q : FootIn(nodes, wires, q) <=> q \in FeetOf(Seen)
Collected ==
    /\ \A b : Holds(nodes, b) <=> b \in Parted(CtxRounds)
    /\ \A q : FootIn(nodes, wires, q) <=> q \in FeetOf(Parted(CtxRounds - 1))
CircuitInv ==
    task = "kirchhoff" =>
      /\ Circuit(nodes, wires) /\ 1 \in 1 .. Len(nodes)
      /\ phase \in {"bfs", "sort", "done", "overrun"}
      /\ phase = "bfs" => Meeting
      /\ phase \in {"sort", "done"} => Collected
      /\ phase = "sort" => next \in Nat \ {0} /\ detail \in Details
      /\ phase = "done" => NotedTo(detail, Len(wires))

\* So do what is next to parts, and their feet.
LEMMA CircuitKeeps ==
    ASSUME store' = store, nodes'[1] = nodes[1]
    PROVE  /\ \A k : Parted(k)' = Parted(k)
           /\ \A S : PartsBy(S)' = PartsBy(S) /\ FeetOf(S)' = FeetOf(S)
<1>1. \A k : Parted(k)' = Parted(k)
  BY PartedKeeps
<1>2. \A S : PartsBy(S)' = PartsBy(S)
  BY DEF PartsBy, NextTo, Touches
<1>3. \A S : FeetOf(S)' = FeetOf(S)
  BY DEF FeetOf, Joined
<1> QED BY <1>1, <1>2, <1>3

\* When kirchhoff is done, its tables are what CircuitWhole says.
LEMMA CircuitShows ==
    ASSUME StoreOK, CircuitInv
    PROVE  CircuitWhole
<1> SUFFICES ASSUME task = "kirchhoff", phase = "done"
             PROVE  CircuitWhole
  BY DEF CircuitWhole
<1>1. Circuit(nodes, wires) /\ Collected /\ NotedTo(detail, Len(wires))
  BY DEF CircuitInv
<1>2. nodes \in Seq(Thing) /\ IsInjective(nodes) /\ wires \in Seq(Triples) /\ IsInjective(wires)
  BY <1>1 DEF Circuit
<1>3. DOMAIN nodes = 1 .. Len(nodes) /\ DOMAIN wires = 1 .. Len(wires)
  BY <1>2
<1> DEFINE rounds(k) == {t \in Reach(nodes[1], Parts, k) : Kind[t] \in Parts} \cup {nodes[1]}
           feet == {r \in DOMAIN store.wire :
                     /\ Kind[store.wire[r].src] = "pin" /\ Kind[store.wire[r].dst] = "chip"
                     /\ {store.wire[r].src, store.wire[r].dst} \cap rounds(CtxRounds - 1) # {}}
           on(c, sign) == {x[1] : x \in {x \in Range(wires) : x[2] = c /\ x[3] = sign}}
<1>4. \A k : rounds(k) = Parted(k)
  BY Zenon DEF Parted
<1>5. \A x : x \in Range(wires) <=> Holds(wires, x)
  BY <1>3 DEF Range, Holds
<1>6. Range(nodes) = rounds(CtxRounds)
  <2>1. \A b : b \in Range(nodes) <=> b \in Parted(CtxRounds)
    BY <1>1, <1>3 DEF Range, Holds, Collected
  <2> HIDE DEF rounds
  <2> QED BY <1>4, <2>1
<1>7. {<<nodes[x[1]], nodes[x[2]], x[3]>> : x \in Range(wires)} =
        {<<store.wire[r].src, store.wire[r].dst, store.foot[r]>> : r \in feet}
  <2>1. feet = Joined(Parted(CtxRounds - 1))
    <3> HIDE DEF rounds
    <3>1. rounds(CtxRounds - 1) = Parted(CtxRounds - 1)
      BY <1>4
    <3> QED BY <3>1, Zenon DEF Joined
  <2> HIDE DEF feet
  <2>2. {<<store.wire[r].src, store.wire[r].dst, store.foot[r]>> : r \in feet} = FeetOf(Parted(CtxRounds - 1))
    BY <2>1, Zenon DEF FeetOf
  <2> DEFINE Is(x) == <<nodes[x[1]], nodes[x[2]], x[3]>>
             F == FeetOf(Parted(CtxRounds - 1))
  <2>3. \A q : (\E x : Holds(wires, x) /\ q = Is(x)) <=> q \in F
    BY <1>1 DEF Collected, FootIn
  <2> HIDE DEF Is, F
  <2>4. {Is(x) : x \in Range(wires)} = F
    BY <1>5, <2>3
  <2> QED BY <2>2, <2>4 DEF Is, F
<1>8. ASSUME NEW i \in DOMAIN nodes
      PROVE  IF Kind[nodes[i]] = "pin"
             THEN (\E x \in Range(wires) : x[1] = i) => wires[detail[i].P][1] = i
             ELSE /\ on(i, 43) # {} => detail[i].P \in on(i, 43)
                  /\ on(i, 45) # {} => detail[i].N \in on(i, 45)
  <2>1. /\ Kind[nodes[i]] = "pin" => OfPin(detail, Len(wires), i)
        /\ Kind[nodes[i]] # "pin" => Signed(detail[i].P, Len(wires), i, 43) /\ Signed(detail[i].N, Len(wires), i, 45)
    BY <1>1, <1>3 DEF NotedTo
  <2>2. CASE Kind[nodes[i]] = "pin"
    BY <1>3, <2>1, <2>2 DEF OfPin, Range
  <2>3. ASSUME NEW v, NEW sign, Signed(v, Len(wires), i, sign), on(i, sign) # {}
        PROVE  v \in on(i, sign)
    <3>1. PICK x \in Range(wires) : x[2] = i /\ x[3] = sign
      BY <2>3
    <3>2. PICK m \in 1 .. Len(wires) : wires[m] = x
      BY <1>3 DEF Range
    <3>3. PICK n \in 1 .. Len(wires) : wires[n][2] = i /\ wires[n][3] = sign /\ v = wires[n][1]
      BY <2>3, <3>1, <3>2 DEF Signed
    <3>4. wires[n] \in Range(wires)
      BY <1>3 DEF Range
    <3> QED BY <3>3, <3>4
  <2>4. CASE Kind[nodes[i]] # "pin"
    <3> HIDE DEF on
    <3> QED BY <2>1, <2>3, <2>4
  <2> QED BY <2>2, <2>4
<1> HIDE DEF rounds, on, feet
<1> QED BY <1>2, <1>6, <1>7, <1>8, Zenon DEF CircuitWhole, rounds, on, feet

\* kirchhoff begins with what its name is related to first.
LEMMA NamedMeets ==
    ASSUME StoreOK, NEW t \in Thing, kirchhoff(t)
    PROVE  CircuitInv'
<1> DEFINE r == store.head[t].irel0
           x == store.wire[r].src
<1>1. /\ task' = "kirchhoff" /\ next' = 1 /\ phase' = "bfs" /\ store' = store /\ r # 0
      /\ layer'.nodes = 1 /\ layer'.wires = 0 /\ layer'.count = 0 /\ nodes' = <<x>> /\ wires' = << >>
  BY DEF kirchhoff, Begin
<1>2. x \in Thing
  <2>1. HomeChains(Thing, Len(store.wire), store.wire, store.head)
    BY DEF StoreOK
  <2>2. r \in 0 .. Len(store.wire)
    <3> DEFINE M == Len(store.wire)
    <3>1. store.head \in [Thing -> [orel0: 0 .. M, oreln: 0 .. M, irel0: 0 .. M, ireln: 0 .. M]]
      BY <2>1, Zenon DEF HomeChains
    <3> QED BY <3>1
  <2>3. Len(store.wire) \in Nat
    BY RelsAre
  <2>4. r \in Rels
    BY <1>1, <2>2, <2>3 DEF Rels
  <2> HIDE DEF r
  <2> QED BY <2>4, RelsAre
<1> HIDE DEF x, r
<1>3. Circuit(nodes, wires)'
  <2>1. <<x>> \in Seq(Thing) /\ IsInjective(<<x>>) /\ << >> \in Seq(Triples) /\ IsInjective(<< >>)
    BY <1>2 DEF IsInjective
  <2>2. \A y : ~Holds(<< >>, y)
    BY DEF Holds
  <2> QED BY <1>1, <2>1, <2>2 DEF Circuit, Holds
<1>4. Parted(0)' = {x}
  <2>1. Parts \in SUBSET ThingKinds
    BY DEF Parts, ThingKinds
  <2> PICK y \in Thing : y = x
    BY <1>2
  <2>2. Reach(y, Parts, 0) = {y}
    BY <2>1, ReachIs
  <2>3. Reach(y, Parts, 0)' = Reach(y, Parts, 0)
    BY <1>1 DEF Reach, Touches
  <2>4. nodes'[1] = y
    BY <1>1
  <2>5. Reach(nodes[1], Parts, 0)' = {x}
    BY <2>2, <2>3, <2>4
  <2> QED BY <2>4, <2>5 DEF Parted
<1>5. Parted(layer.count)' = {x}
  BY <1>1, <1>4 DEF Parted
<1>6. Seen' = {} /\ PartsBy(Seen)' = {} /\ FeetOf(Seen)' = {}
  <2>1. Seen' = {}
    BY <1>1 DEF Seen
  <2> QED BY <2>1 DEF PartsBy, NextTo, FeetOf, Joined
<1>7. CtxRounds \in Nat /\ CtxRounds > 0
  BY GatherAssumption
<1>8. Meeting'
  <2>1. \A b : (\E i \in 1 .. 1 : <<x>>[i] = b) <=> b \in {x}
    OBVIOUS
  <2>2. \A b : Holds(<<x>>, b) <=> b \in {x}
    BY DEF Holds
  <2>3. \A q : ~FootIn(<<x>>, << >>, q)
    BY DEF FootIn, Holds
  <2>4. (layer.count \in 0 .. CtxRounds - 1 /\ layer.nodes \in 1 .. Len(nodes) /\ next \in 1 .. layer.nodes + 1)'
    BY <1>1, <1>7
  <2>5. (\A b : (\E i \in 1 .. layer.nodes : nodes[i] = b) <=> b \in Parted(layer.count))'
    BY <1>1, <1>5, <2>1
  <2>6. (\A b : Holds(nodes, b) <=> b \in Parted(layer.count) \cup PartsBy(Seen))'
    <3>1. (Parted(layer.count) \cup PartsBy(Seen))' = {x}
      BY <1>5, <1>6
    <3> QED BY <1>1, <2>2, <3>1
  <2>7. (\A q : FootIn(nodes, wires, q) <=> q \in FeetOf(Seen))'
    BY <1>1, <1>6, <2>3
  <2> QED BY <2>4, <2>5, <2>6, <2>7 DEF Meeting
<1>9. (1 \in 1 .. Len(nodes))'
  BY <1>1
<1> QED BY <1>1, <1>3, <1>8, <1>9 DEF CircuitInv

\* kirchhoff_bfs: an entry more is opened.
LEMMA BfsMeets ==
    ASSUME StoreOK, CircuitInv, kirchhoff_bfs
    PROVE  CircuitInv'
<1> DEFINE o == Met(next)
           a == nodes[next]
           n == layer.nodes
           B == Seen \cup {a}
<1>1. /\ task = "kirchhoff" /\ phase = "bfs" /\ next <= n
      /\ nodes' = o.nodes /\ wires' = o.wires /\ next' = next + 1
      /\ phase' = "overrun" \/ phase' = "bfs"
      /\ store' = store /\ task' = task /\ layer' = layer
  BY DEF kirchhoff_bfs
<1>2. Circuit(nodes, wires) /\ Meeting
  BY <1>1 DEF CircuitInv
<1>3. layer.count \in 0 .. CtxRounds - 1 /\ n \in 1 .. Len(nodes) /\ next \in 1 .. n + 1 /\ Len(nodes) \in Nat
  BY <1>2 DEF Meeting, Circuit
<1>4. next \in 1 .. Len(nodes) /\ next \in 1 .. n /\ n \in Nat
  BY <1>1, <1>3
<1>5. Circuit(o.nodes, o.wires) /\ Extends(nodes, o.nodes)
  BY <1>2, <1>4, MetIs
<1>6. \A b : Holds(o.nodes, b) <=> Holds(nodes, b) \/ b \in PartsBy({a})
  BY <1>2, <1>4, MetAdds
<1>7. \A q : FootIn(o.nodes, o.wires, q) <=> FootIn(nodes, wires, q) \/ q \in FeetOf({a})
  BY <1>2, <1>4, MetAdds
<1> HIDE DEF o, a
<1>8. \A b : b \in PartsBy(B) <=> b \in PartsBy(Seen) \/ b \in PartsBy({a})
  BY DEF PartsBy, NextTo
<1>9. \A q : q \in FeetOf(B) <=> q \in FeetOf(Seen) \/ q \in FeetOf({a})
  BY DEF FeetOf, Joined
<1>10. Len(o.nodes) \in Nat /\ \A i \in 1 .. Len(nodes) : i \in 1 .. Len(o.nodes) /\ o.nodes[i] = nodes[i]
  <2>1. Len(o.nodes) \in Nat /\ Len(nodes) <= Len(o.nodes) /\ \A i \in 1 .. Len(nodes) : o.nodes[i] = nodes[i]
    BY <1>5 DEF Circuit, Extends
  <2> QED BY <1>3, <2>1
<1>11. Seen' = B
  <2>1. next' - 1 = next /\ \A i : i \in 1 .. next <=> i \in 1 .. next - 1 \/ i = next
    BY <1>1, <1>4
  <2>2. \A i \in 1 .. next : o.nodes[i] = nodes[i]
    BY <1>4, <1>10
  <2> QED BY <1>1, <2>1, <2>2 DEF Seen, a
<1>12. nodes'[1] = nodes[1]
  BY <1>1, <1>4, <1>10
<1>13. PartsBy(Seen)' = PartsBy(B)
  BY <1>1, <1>11 DEF PartsBy, NextTo, Touches
<1>14. FeetOf(Seen)' = FeetOf(B)
  BY <1>1, <1>11 DEF FeetOf, Joined
<1>15. Parted(layer.count)' = Parted(layer.count)
  BY <1>1, <1>12 DEF Parted, Reach, Touches
<1> HIDE DEF B
<1>16. Circuit(nodes, wires)'
  BY <1>1, <1>5, Zenon
<1>17. (1 \in 1 .. Len(nodes))'
  BY <1>1, <1>4, <1>10
<1>18. Meeting'
  <2>1. (layer.count \in 0 .. CtxRounds - 1 /\ layer.nodes \in 1 .. Len(nodes) /\ next \in 1 .. layer.nodes + 1)'
    BY <1>1, <1>3, <1>4, <1>10
  <2>2. (\A b : (\E i \in 1 .. layer.nodes : nodes[i] = b) <=> b \in Parted(layer.count))'
    <3>1. \A b : (\E i \in 1 .. n : nodes[i] = b) <=> b \in Parted(layer.count)
      BY <1>2 DEF Meeting
    <3>2. \A i \in 1 .. n : o.nodes[i] = nodes[i]
      BY <1>3, <1>10
    <3>3. \A b : (\E i \in 1 .. n : o.nodes[i] = b) <=> b \in Parted(layer.count)
      BY <3>1, <3>2
    <3> QED BY <1>1, <1>15, <3>3
  <2>3. (\A b : Holds(nodes, b) <=> b \in Parted(layer.count) \cup PartsBy(Seen))'
    <3>1. \A b : Holds(nodes, b) <=> b \in Parted(layer.count) \cup PartsBy(Seen)
      BY <1>2 DEF Meeting
    <3>2. \A b : Holds(o.nodes, b) <=> b \in Parted(layer.count) \cup PartsBy(B)
      BY <1>6, <1>8, <3>1
    <3> QED BY <1>1, <1>13, <1>15, <3>2
  <2>4. (\A q : FootIn(nodes, wires, q) <=> q \in FeetOf(Seen))'
    <3>1. \A q : FootIn(nodes, wires, q) <=> q \in FeetOf(Seen)
      BY <1>2 DEF Meeting
    <3>2. \A q : FootIn(o.nodes, o.wires, q) <=> q \in FeetOf(B)
      BY <1>7, <1>9, <3>1
    <3> QED BY <1>1, <1>14, <3>2
  <2> QED BY <2>1, <2>2, <2>3, <2>4 DEF Meeting
<1> QED BY <1>1, <1>16, <1>17, <1>18 DEF CircuitInv

\* A round over: what it met is one step further out.
LEMMA RoundMet ==
    ASSUME StoreOK, CircuitInv, task = "kirchhoff", phase = "bfs", next > layer.nodes
    PROVE  /\ Seen = Parted(layer.count) /\ layer.count \in Nat
           /\ \A b : Holds(nodes, b) <=> b \in Parted(layer.count + 1)
           /\ \A q : FootIn(nodes, wires, q) <=> q \in FeetOf(Parted(layer.count))
           /\ Len(nodes) <= layer.nodes => Parted(layer.count + 1) = Parted(layer.count)
<1> DEFINE c == layer.count
           n == layer.nodes
<1>1. Circuit(nodes, wires) /\ Meeting /\ 1 \in 1 .. Len(nodes)
  BY DEF CircuitInv
<1>2. CtxRounds \in Nat
  BY GatherAssumption
<1>3. c \in Nat /\ n \in 1 .. Len(nodes) /\ next \in 1 .. n + 1 /\ Len(nodes) \in Nat
  BY <1>1, <1>2 DEF Meeting, Circuit
<1>4. next - 1 = n
  BY <1>3
<1>5. \A b : (\E i \in 1 .. n : nodes[i] = b) <=> b \in Parted(c)
  BY <1>1 DEF Meeting
<1>6. Seen = Parted(c)
  BY <1>4, <1>5 DEF Seen
<1>7. nodes[1] \in Thing
  BY <1>1 DEF Circuit
<1>8. Parted(c + 1) = Parted(c) \cup PartsBy(Parted(c))
  BY <1>3, <1>7, PartedIs
<1>9. \A b : Holds(nodes, b) <=> b \in Parted(c) \cup PartsBy(Seen)
  BY <1>1 DEF Meeting
<1>10. \A b : Holds(nodes, b) <=> b \in Parted(c + 1)
  BY <1>6, <1>8, <1>9
<1>11. \A q : FootIn(nodes, wires, q) <=> q \in FeetOf(Seen)
  BY <1>1 DEF Meeting
<1>12. Len(nodes) <= n => Parted(c + 1) = Parted(c)
  <2> SUFFICES ASSUME Len(nodes) <= n  PROVE Parted(c + 1) = Parted(c)
    OBVIOUS
  <2>1. Len(nodes) = n
    BY <1>3
  <2>2. \A b : b \in Parted(c + 1) <=> b \in Parted(c)
    BY <1>5, <1>10, <2>1 DEF Holds
  <2> QED BY <2>2
<1> QED BY <1>3, <1>6, <1>10, <1>11, <1>12

\* The end of a round: it counts, or the circuit is whole and the sort begins.
LEMMA RoundMeets ==
    ASSUME StoreOK, CircuitInv, kirchhoff_round
    PROVE  CircuitInv'
<1> DEFINE c == layer.count
           over == Len(nodes) <= layer.nodes \/ c + 1 = CtxRounds
<1>1. /\ task = "kirchhoff" /\ phase = "bfs" /\ next > layer.nodes
      /\ store' = store /\ task' = task /\ nodes' = nodes /\ wires' = wires
  BY DEF kirchhoff_round
<1>2. /\ over => phase' = "sort" /\ next' = 1 /\ detail' = [i \in DOMAIN nodes |-> [P |-> 1, N |-> 1]]
      /\ ~over => /\ layer' = [nodes |-> Len(nodes), wires |-> Len(wires), count |-> c + 1]
                  /\ next' = next /\ phase' = phase
  BY DEF kirchhoff_round, NextLayer
<1>3. Circuit(nodes, wires) /\ Meeting /\ 1 \in 1 .. Len(nodes)
  BY <1>1 DEF CircuitInv
<1>4. CtxRounds \in Nat /\ CtxRounds > 0
  BY GatherAssumption
<1>5. c \in 0 .. CtxRounds - 1 /\ layer.nodes \in 1 .. Len(nodes) /\ next \in 1 .. layer.nodes + 1 /\ Len(nodes) \in Nat
  BY <1>3 DEF Meeting, Circuit
<1>6. nodes[1] \in Thing
  BY <1>3 DEF Circuit
<1>7. /\ Seen = Parted(c)
      /\ \A b : Holds(nodes, b) <=> b \in Parted(c + 1)
      /\ \A q : FootIn(nodes, wires, q) <=> q \in FeetOf(Parted(c))
      /\ Len(nodes) <= layer.nodes => Parted(c + 1) = Parted(c)
  BY <1>1, RoundMet
<1>8. (Circuit(nodes, wires) /\ 1 \in 1 .. Len(nodes))'
  BY <1>1, <1>3, Zenon
<1>9. CASE over
  <2>1. Parted(CtxRounds) = Parted(c + 1) /\ Parted(CtxRounds - 1) = Parted(c)
    <3>1. CASE c + 1 = CtxRounds
      <4>1. CtxRounds - 1 = c
        BY <1>4, <1>5, <3>1
      <4> QED BY <3>1, <4>1
    <3>2. CASE Len(nodes) <= layer.nodes
      <4>1. Parted(c + 1) = Parted(c)
        BY <1>7, <3>2
      <4>2. c \in Nat /\ CtxRounds >= c /\ CtxRounds - 1 \in Nat /\ CtxRounds - 1 >= c
        BY <1>4, <1>5
      <4>3. Parted(CtxRounds) = Parted(c)
        BY <1>4, <1>6, <4>1, <4>2, PartedEnds
      <4>4. Parted(CtxRounds - 1) = Parted(c)
        <5> DEFINE k == CtxRounds - 1
        <5>1. k \in Nat /\ k >= c
          BY <4>2
        <5> HIDE DEF k
        <5>2. Parted(k) = Parted(c)
          BY <1>6, <4>1, <4>2, <5>1, PartedEnds
        <5> QED BY <5>2 DEF k
      <4> QED BY <4>1, <4>3, <4>4
    <3> QED BY <1>9, <3>1, <3>2
  <2>2. Collected
    BY <1>7, <2>1, Zenon DEF Collected
  <2>3. Parted(CtxRounds)' = Parted(CtxRounds)
    BY <1>1, CircuitKeeps
  <2>4. FeetOf(Parted(CtxRounds - 1))' = FeetOf(Parted(CtxRounds - 1))
    <3>1. Parted(CtxRounds - 1)' = Parted(CtxRounds - 1)
      BY <1>1, CircuitKeeps
    <3> QED BY <1>1, <3>1 DEF FeetOf, Joined
  <2>5. Collected'
    BY <1>1, <2>2, <2>3, <2>4 DEF Collected
  <2>6. detail' \in Details'
    <3>1. DOMAIN nodes = 1 .. Len(nodes)
      BY <1>3 DEF Circuit
    <3>2. detail' = [i \in 1 .. Len(nodes) |-> [P |-> 1, N |-> 1]]
      BY <1>2, <1>9, <3>1
    <3> QED BY <1>1, <3>2 DEF Details
  <2> QED BY <1>1, <1>2, <1>8, <1>9, <2>5, <2>6 DEF CircuitInv
<1>10. CASE ~over
  <2>1. layer'.count = c + 1 /\ layer'.nodes = Len(nodes) /\ next' = next /\ phase' = "bfs"
    BY <1>1, <1>2, <1>10
  <2>2. next = layer.nodes + 1
    BY <1>1, <1>5
  <2>3. (layer.count \in 0 .. CtxRounds - 1 /\ layer.nodes \in 1 .. Len(nodes) /\ next \in 1 .. layer.nodes + 1)'
    BY <1>1, <1>3, <1>4, <1>5, <1>10, <2>1, <2>2
  <2>4. Seen' = Parted(c)
    <3>1. Seen' = Seen
      BY <1>1, <2>1 DEF Seen
    <3> QED BY <1>7, <3>1
  <2>5. PartsBy(Seen)' = PartsBy(Parted(c))
    BY <1>1, <2>4 DEF PartsBy, NextTo, Touches
  <2>6. FeetOf(Seen)' = FeetOf(Parted(c))
    BY <1>1, <2>4 DEF FeetOf, Joined
  <2>7. Parted(layer.count)' = Parted(c + 1)
    BY <1>1, <2>1 DEF Parted, Reach, Touches
  <2>8. (\A b : (\E i \in 1 .. layer.nodes : nodes[i] = b) <=> b \in Parted(layer.count))'
    BY <1>1, <1>7, <2>1, <2>7 DEF Holds
  <2>9. Parted(c + 1) \cup PartsBy(Parted(c)) = Parted(c + 1)
    <3>1. c \in Nat
      BY <1>4, <1>5
    <3>2. Parted(c + 1) = Parted(c) \cup PartsBy(Parted(c))
      BY <1>6, <3>1, PartedIs
    <3> QED BY <3>2
  <2>10. (\A b : Holds(nodes, b) <=> b \in Parted(layer.count) \cup PartsBy(Seen))'
    BY <1>1, <1>7, <2>5, <2>7, <2>9
  <2>11. (\A q : FootIn(nodes, wires, q) <=> q \in FeetOf(Seen))'
    BY <1>1, <1>7, <2>6
  <2>12. Meeting'
    BY <2>3, <2>8, <2>10, <2>11 DEF Meeting
  <2> QED BY <1>1, <1>8, <2>1, <2>12 DEF CircuitInv
<1> QED BY <1>9, <1>10

\* A pass of the sort leaves the circuit as it was collected.
LEMMA SortMeets ==
    ASSUME StoreOK, CircuitInv, kirchhoff_sort
    PROVE  CircuitInv'
<1> SUFFICES ASSUME task = "kirchhoff"
             PROVE  CircuitInv'
  BY DEF CircuitInv, kirchhoff_sort
<1>1. /\ phase = "sort" /\ next <= Len(wires) /\ wires' = PassOver(next) /\ next' = next + 1
      /\ store' = store /\ task' = task /\ nodes' = nodes /\ detail' = detail /\ phase' = phase
  BY DEF kirchhoff_sort
<1>2. Circuit(nodes, wires) /\ 1 \in 1 .. Len(nodes) /\ Collected /\ next \in Nat \ {0} /\ detail \in Details
  BY <1>1 DEF CircuitInv
<1>3. wires \in Seq(Triples) /\ IsInjective(wires) /\ Len(wires) \in Nat
  BY <1>2 DEF Circuit
<1>4. next \in 1 .. Len(wires)
  BY <1>1, <1>2, <1>3
<1> DEFINE W == PassOver(next)
<1>5. W \in Seq(Triples) /\ IsInjective(W)
  BY <1>3, <1>4, PassedIs
<1>6. \A x : Holds(W, x) <=> Holds(wires, x)
  BY <1>3, <1>4, PassedIs
<1> HIDE DEF W
<1>7. Circuit(nodes, W)
  BY <1>2, <1>5, <1>6 DEF Circuit
<1>8. \A q : FootIn(nodes, W, q) <=> FootIn(nodes, wires, q)
  BY <1>6 DEF FootIn
<1>9. wires' = W
  BY <1>1 DEF W
<1>10. Circuit(nodes, wires)'
  BY <1>1, <1>7, <1>9, Zenon
<1>11. Collected'
  <2>1. Parted(CtxRounds)' = Parted(CtxRounds)
    BY <1>1, CircuitKeeps
  <2>2. FeetOf(Parted(CtxRounds - 1))' = FeetOf(Parted(CtxRounds - 1))
    <3>1. Parted(CtxRounds - 1)' = Parted(CtxRounds - 1)
      BY <1>1, CircuitKeeps
    <3> QED BY <1>1, <3>1 DEF FeetOf, Joined
  <2> QED BY <1>1, <1>2, <1>8, <1>9, <2>1, <2>2 DEF Collected
<1>12. (next \in Nat \ {0} /\ detail \in Details)'
  BY <1>1, <1>2 DEF Details
<1>13. (1 \in 1 .. Len(nodes))'
  BY <1>1, <1>2
<1> QED BY <1>1, <1>10, <1>11, <1>12, <1>13 DEF CircuitInv

\* kirchhoff_sort ends with the notes.
LEMMA FeetMeet ==
    ASSUME StoreOK, CircuitInv, kirchhoff_feet
    PROVE  CircuitInv'
<1> SUFFICES ASSUME task = "kirchhoff"
             PROVE  CircuitInv'
  BY DEF CircuitInv, kirchhoff_feet
<1>1. /\ phase = "sort" /\ detail' = Detailed /\ phase' = "done"
      /\ store' = store /\ task' = task /\ nodes' = nodes /\ wires' = wires
  BY DEF kirchhoff_feet
<1>2. Circuit(nodes, wires) /\ 1 \in 1 .. Len(nodes) /\ Collected /\ detail \in Details
  BY <1>1 DEF CircuitInv
<1>3. NotedTo(Detailed, Len(wires))
  BY <1>2, DetailedIs
<1>4. NotedTo(detail, Len(wires))'
  BY <1>1, <1>3 DEF NotedTo, OfPin, Signed
<1>5. Collected'
  <2>1. Parted(CtxRounds)' = Parted(CtxRounds)
    BY <1>1, CircuitKeeps
  <2>2. FeetOf(Parted(CtxRounds - 1))' = FeetOf(Parted(CtxRounds - 1))
    <3>1. Parted(CtxRounds - 1)' = Parted(CtxRounds - 1)
      BY <1>1, CircuitKeeps
    <3> QED BY <1>1, <3>1 DEF FeetOf, Joined
  <2> QED BY <1>1, <1>2, <2>1, <2>2 DEF Collected
<1>6. (Circuit(nodes, wires) /\ 1 \in 1 .. Len(nodes))'
  BY <1>1, <1>2, Zenon
<1> QED BY <1>1, <1>4, <1>5, <1>6 DEF CircuitInv
----------------------------------------------------------------------------
(* Gather: the theorem. *)

GatherInv == store \in Stores /\ RenderInv /\ CircuitInv

\* Every step of both commands keeps the invariant.
LEMMA GatherSteps == GatherInv /\ [GatherStep]_gather => GatherInv'
<1> SUFFICES ASSUME GatherInv, [GatherStep]_gather
             PROVE  GatherInv'
  OBVIOUS
<1>1. store \in Stores /\ RenderInv /\ CircuitInv
  BY DEF GatherInv
<1>2. StoreOK
  BY <1>1, StoreIsOK
<1>3. ASSUME NEW t \in Thing, render_trav(t)
      PROVE  GatherInv'
  <2>1. store' = store /\ task' = "render"
    BY <1>3 DEF render_trav, Begin
  <2>2. RenderInv'
    BY <1>2, <1>3, TravDraws
  <2>3. CircuitInv'
    BY <2>1 DEF CircuitInv
  <2> QED BY <1>1, <2>1, <2>2, <2>3 DEF GatherInv
<1>4. ASSUME NEW t \in Thing, kirchhoff(t)
      PROVE  GatherInv'
  <2>1. store' = store /\ task' = "kirchhoff"
    BY <1>4 DEF kirchhoff, Begin
  <2>2. CircuitInv'
    BY <1>2, <1>4, NamedMeets
  <2>3. RenderInv'
    BY <2>1 DEF RenderInv
  <2> QED BY <1>1, <2>1, <2>2, <2>3 DEF GatherInv
<1>5. CASE render_bfs
  <2>1. store' = store /\ task' = "render"
    BY <1>5 DEF render_bfs
  <2>2. RenderInv'
    BY <1>1, <1>2, <1>5, BfsDraws
  <2>3. CircuitInv'
    BY <2>1 DEF CircuitInv
  <2> QED BY <1>1, <2>1, <2>2, <2>3 DEF GatherInv
<1>6. CASE render_round
  <2>1. store' = store /\ task' = "render"
    BY <1>6 DEF render_round
  <2>2. RenderInv'
    BY <1>1, <1>2, <1>6, RoundDraws
  <2>3. CircuitInv'
    BY <2>1 DEF CircuitInv
  <2> QED BY <1>1, <2>1, <2>2, <2>3 DEF GatherInv
<1>7. CASE kirchhoff_bfs
  <2>1. store' = store /\ task' = "kirchhoff"
    BY <1>7 DEF kirchhoff_bfs
  <2>2. CircuitInv'
    BY <1>1, <1>2, <1>7, BfsMeets
  <2>3. RenderInv'
    BY <2>1 DEF RenderInv
  <2> QED BY <1>1, <2>1, <2>2, <2>3 DEF GatherInv
<1>8. CASE kirchhoff_round
  <2>1. store' = store /\ task' = "kirchhoff"
    BY <1>8 DEF kirchhoff_round
  <2>2. CircuitInv'
    BY <1>1, <1>2, <1>8, RoundMeets
  <2>3. RenderInv'
    BY <2>1 DEF RenderInv
  <2> QED BY <1>1, <2>1, <2>2, <2>3 DEF GatherInv
<1>9. CASE kirchhoff_sort
  <2>1. store' = store /\ task' = task /\ phase = "sort"
    BY <1>9 DEF kirchhoff_sort
  <2>2. CircuitInv'
    BY <1>1, <1>2, <1>9, SortMeets
  <2>3. RenderInv'
    BY <1>1, <2>1 DEF RenderInv
  <2> QED BY <1>1, <2>1, <2>2, <2>3 DEF GatherInv
<1>10. CASE kirchhoff_feet
  <2>1. store' = store /\ task' = task /\ phase = "sort"
    BY <1>10 DEF kirchhoff_feet
  <2>2. CircuitInv'
    BY <1>1, <1>2, <1>10, FeetMeet
  <2>3. RenderInv'
    BY <1>1, <2>1 DEF RenderInv
  <2> QED BY <1>1, <2>1, <2>2, <2>3 DEF GatherInv
<1>11. CASE UNCHANGED gather
  <2>1. /\ store' = store /\ task' = task /\ asked' = asked /\ nodes' = nodes /\ wires' = wires /\ next' = next
        /\ layer' = layer /\ detail' = detail /\ phase' = phase
    BY <1>11 DEF gather
  <2>2. RenderInv'
    <3>1. Rounding' <=> Rounding
      BY <2>1 DEF Rounding, Ball, Reach, Touches, PairsShown, Seen, NextTo, RelatedPairs
    <3>2. Ball(Depth)' = Ball(Depth) /\ PairsShown(Depth)' = PairsShown(Depth)
      BY <2>1 DEF Ball, Reach, Touches, PairsShown, RelatedPairs, Depth
    <3>3. Showing(nodes, wires, Ball(Depth), PairsShown(Depth))' <=> Showing(nodes, wires, Ball(Depth), PairsShown(Depth))
      BY <2>1, <3>2, Zenon
    <3>4. Drawing(nodes, wires)' <=> Drawing(nodes, wires)
      BY <2>1, Zenon
    <3> QED BY <1>1, <2>1, <3>1, <3>3, <3>4, Zenon DEF RenderInv
  <2>3. CircuitInv'
    <3>1. Meeting' <=> Meeting
      BY <2>1 DEF Meeting, Parted, Reach, Touches, Seen, PartsBy, NextTo, FeetOf, Joined
    <3>2. Collected' <=> Collected
      BY <2>1 DEF Collected, Parted, Reach, Touches, FeetOf, Joined
    <3>3. NotedTo(detail, Len(wires))' <=> NotedTo(detail, Len(wires))
      BY <2>1 DEF NotedTo, OfPin, Signed
    <3>4. Circuit(nodes, wires)' <=> Circuit(nodes, wires)
      BY <2>1, Zenon
    <3>5. (detail \in Details)' <=> detail \in Details
      BY <2>1 DEF Details
    <3> QED BY <1>1, <2>1, <3>1, <3>2, <3>3, <3>4, <3>5, Zenon DEF CircuitInv
  <2> QED BY <1>1, <2>1, <2>2, <2>3 DEF GatherInv
<1> QED BY <1>3, <1>4, <1>5, <1>6, <1>7, <1>8, <1>9, <1>10, <1>11 DEF GatherStep

\* What render draws and what kirchhoff solves is all that lies around the name they were
\* given, once each.
THEOREM AllCollected == GatherSpec => []CollectsAll
<1>1. GatherInit => GatherInv
  BY DEF GatherInit, GatherFresh, GatherInv, RenderInv, CircuitInv
<1>2. GatherInv /\ [GatherStep]_gather => GatherInv'
  BY GatherSteps
<1>3. GatherInv => CollectsAll
  BY StoreIsOK, RenderDraws, CircuitShows DEF GatherInv, CollectsAll
<1> QED BY <1>1, <1>2, <1>3, PTL DEF GatherSpec
=============================================================================
