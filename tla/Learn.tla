------------------------------- MODULE Learn -------------------------------
(***************************************************************************)
(* The learner of lv2/learn/learn.c with its C parser: what one process    *)
(* does to the string index, the file and function tables and the          *)
(* relations while it works through its files.                             *)
(*                                                                         *)
(* The handlers pass raw pointers around.  A pointer to a string is the    *)
(* address of a slot of the B+ tree, and slots move: an insertion shifts   *)
(* its neighbours and a split copies half a page.  So a pointer is         *)
(* modelled as a place, and relationcreate reads the identity and the      *)
(* chain ends of whatever is at that place when it runs.                   *)
(*                                                                         *)
(* A string is its own hash.  Lines, foot types and file sizes are left    *)
(* out, as are the tables' capacities and the growth of the wire buffer.   *)
(***************************************************************************)
EXTENDS BPlus, RelOps, Sequences

CONSTANTS
    Path,       \* the paths traverse_read may return
    NameOf,     \* the last component of each path; 0 for a path given to learn
                \* itself, which traverse_read returns with offs = 0
    Word,       \* function names and literals of the files
    Unrecorded, \* the words purec_func skips: one letter, if, for, while, switch
    MaxRel,     \* bound on the relations of a model run
    MaxNest     \* bound on the depth of braces

ASSUME Words == Path \cup Word \subseteq Nat \ {0} /\ Unrecorded \subseteq Word
ASSUME NameOfType == NameOf \in [Path -> Nat]
ASSUME Cleared == NoBody = NoHead  \* what bplus_prepare cleared has no relations

VARIABLES
    db,         \* [tree: btnode, wire: wirebuf, file: md5buf, func: funcindexbuf,
                \* and a ghost meant: for each relation the ends its creator took
                \* it to have and the file being learned]
    fileobj,    \* number of the current file, 0 before the first
    funcobj,    \* number of the function recorded last, 0 before the first
    infunc,     \* depth of braces inside a function body, 0 outside
    pc          \* "next" file, "parse" of one, or "segv"

vars == <<db, fileobj, funcobj, infunc, pc>>

----------------------------------------------------------------------------
(* Pointers. `means` is a ghost: what the holder takes the target to be. *)

AtSlot(s, at) == [type |-> "hash", at |-> at, means |-> s]
AtFile(n) == [type |-> "file", at |-> n, means |-> n]
AtFunc(n) == [type |-> "func", at |-> n, means |-> n]

\* The identity relation_generate stores: the first word of the target.
ChipAt_Mutant(m, x) == <<x.type, x.means>>
ChipAt(m, x) == <<x.type, IF x.type = "hash" THEN Slot(m.tree, x.at).hash ELSE x.at>>

HeadAt(m, x) ==
    CASE x.type = "hash" -> Slot(m.tree, x.at).body
      [] x.type = "file" -> m.file[x.at]
      [] x.type = "func" -> m.func[x.at]

SetHead(m, x, h) ==
    CASE x.type = "hash" -> [m EXCEPT !.tree = SetBody(@, x.at, h)]
      [] x.type = "file" -> [m EXCEPT !.file[x.at] = h]
      [] x.type = "func" -> [m EXCEPT !.func[x.at] = h]

\* relationcreate(sc, dc): the relation, then the chain ends of both sides, the
\* second read after the first is written.
Linked(m, n, sc, dc) ==
    [m EXCEPT !.wire = Threaded(@, n, ChipAt(m, sc), HeadAt(m, sc).oreln,
                                      ChipAt(m, dc), HeadAt(m, dc).ireln),
              !.meant = Append(@, [src |-> <<sc.type, sc.means>>,
                                   dst |-> <<dc.type, dc.means>>,
                                   during |-> Len(m.file)])]
Sourced(m, n, sc) == SetHead(m, sc, AsSource(HeadAt(m, sc), n))
Targeted(m, n, dc) == SetHead(m, dc, AsTarget(HeadAt(m, dc), n))

Related(m, sc, dc) ==
    LET n == Len(m.wire) + 1
    IN  Targeted(Sourced(Linked(m, n, sc, dc), n, sc), n, dc)

\* strhash_write(s): the memory after it and the pointer it returns.
Held(m, s, w) == [mem |-> [m EXCEPT !.tree = w.tree], ptr |-> AtSlot(s, w.at)]
StrWrite(m, s) == Held(m, s, Written(m.tree, [hash |-> s, body |-> NoHead]))

----------------------------------------------------------------------------
Init ==
    /\ db = [tree |-> Prepared, wire |-> << >>, file |-> << >>, func |-> << >>,
             meant |-> << >>]
    /\ fileobj = 0 /\ funcobj = 0 /\ infunc = 0
    /\ pc = "next"

\* connect_path_to_name, which learn_one calls when there is a '/' before the
\* name.  pathhash is taken before the name is written and used after it.
Joined(pathhash, name) == Related(name.mem, pathhash, name.ptr)
Named(path, p) == Joined(path.ptr, StrWrite(path.mem, NameOf[p]))
connect_path_to_name(m, p) ==
    IF NameOf[p] = 0 THEN m ELSE Named(StrWrite(m, p), p)

\* What learn_one does to any path: relate it to its name, then write it again.
Known(p) == StrWrite(connect_path_to_name(db, p), p)

\* connect_file_to_hash: a new file, and its relation to the string whose hash
\* worker_start left in `strhash`, if bplus_search finds one.
Filed(m) == [m EXCEPT !.file = Append(@, NoHead)]
Found(m, p, at) ==
    IF at = <<0, 0>> THEN m ELSE Related(m, AtSlot(p, at), AtFile(Len(m.file)))
connect_file_to_hash(m, p, strhash) == Found(Filed(m), p, Search(m.tree, strhash))

\* learn_one on a path worker_start turns down: an unknown suffix, a directory,
\* an empty or an oversized file.
learn_skipped(p) ==
    /\ pc = "next" /\ Len(db.wire) < MaxRel
    /\ db' = Known(p).mem
    /\ UNCHANGED <<fileobj, funcobj, infunc, pc>>

\* c_start: the parser forgets how deep the file before left it.
c_start_Mutant == infunc' = infunc
c_start == infunc' = 0

\* learn_one on a C file, as far as wk[chosen].start(); funcobj stays what it is.
Opened(w, p) == connect_file_to_hash(w.mem, p, ChipAt(w.mem, w.ptr)[2])
learn_parsed(p) ==
    /\ pc = "next" /\ Len(db.wire) + 1 < MaxRel
    /\ db' = Opened(Known(p), p)
    /\ fileobj' = Len(db.file) + 1
    /\ c_start
    /\ pc' = "parse"
    /\ UNCHANGED funcobj

\* The '{' of a function body: purec_func outside a function, which calls
\* connect_func_to_file unless it skips the name, then infunc++ all the same.
Owned(m, n) == Related([m EXCEPT !.func = Append(@, NoHead)], AtFile(fileobj), AtFunc(n))
connect_func_to_file(w, n) == Related(Owned(w.mem, n), w.ptr, AtFunc(n))
c_function(f) ==
    /\ pc = "parse" /\ infunc = 0 /\ Len(db.wire) + 1 < MaxRel
    /\ infunc' = 1
    /\ UNCHANGED <<fileobj, pc>>
    /\ IF f \in Unrecorded THEN UNCHANGED <<db, funcobj>>
       ELSE /\ funcobj' = Len(db.func) + 1
            /\ db' = connect_func_to_file(StrWrite(db, f), Len(db.func) + 1)

\* A string is written and the thing at x related to it.
RelatedTo(x, w) == Related(w.mem, x, w.ptr)

\* From the function at funcobj; with no function yet, relationcreate is given a
\* null pointer.
FromFunction(s) ==
    IF funcobj = 0
    THEN db' = StrWrite(db, s).mem /\ pc' = "segv"
    ELSE db' = RelatedTo(AtFunc(funcobj), StrWrite(db, s)) /\ UNCHANGED pc

\* purec_func inside a function: funcname_called_by_func.
c_call(f) ==
    /\ pc = "parse" /\ infunc > 0 /\ Len(db.wire) < MaxRel
    /\ f \notin Unrecorded
    /\ UNCHANGED <<fileobj, funcobj, infunc>>
    /\ FromFunction(f)

\* purec_str: string_infile_global or string_infile_infunc.
c_string(s) ==
    /\ pc = "parse" /\ Len(db.wire) < MaxRel
    /\ UNCHANGED <<fileobj, funcobj, infunc>>
    /\ IF infunc > 0 THEN FromFunction(s)
       ELSE db' = RelatedTo(AtFile(fileobj), StrWrite(db, s)) /\ UNCHANGED pc

\* A brace inside a function, and the brace that closes one.
c_open ==
    /\ pc = "parse" /\ infunc \in 1 .. MaxNest - 1
    /\ infunc' = infunc + 1
    /\ UNCHANGED <<db, fileobj, funcobj, pc>>

c_close ==
    /\ pc = "parse" /\ infunc > 0
    /\ infunc' = infunc - 1
    /\ UNCHANGED <<db, fileobj, funcobj, pc>>

\* The end of the text, wherever the parser stands: stop() and close.
worker_stop ==
    /\ pc = "parse"
    /\ pc' = "next"
    /\ UNCHANGED <<db, fileobj, funcobj, infunc>>

Next ==
    \/ \E p \in Path : learn_skipped(p) \/ learn_parsed(p)
    \/ \E w \in Word : c_function(w) \/ c_call(w) \/ c_string(w)
    \/ c_open
    \/ c_close
    \/ worker_stop

Spec == Init /\ [][Next]_vars

----------------------------------------------------------------------------
(* Properties. *)

Recs == DOMAIN db.wire

\* What a reader of the database can start from: the strings bplus_search finds,
\* the files and the functions, each with its chain ends.
Target(x) == [chip |-> ChipAt(db, x), head |-> HeadAt(db, x)]

IndexLeaves == {p \in Pages(db.tree) : db.tree.page[p].type = "leaf"}

Chips ==
    (UNION {{Target(AtSlot(0, <<p, i>>)) : i \in 0 .. db.tree.page[p].len - 1} : p \in IndexLeaves})
    \cup {Target(AtFile(n)) : n \in DOMAIN db.file}
    \cup {Target(AtFunc(n)) : n \in DOMAIN db.func}

(* Whatever slot a relation was hung on, the chains a reader can start on stay
   sound: a chip's first relations are its own, each link leads to a later relation
   of the same chip, so every walk of search.c ends and shows only relations of the
   chip it began at. *)
ChainsStayHome ==
    /\ \A c \in Chips :
         /\ c.head.orel0 # 0 => db.wire[c.head.orel0].src = c.chip
         /\ c.head.irel0 # 0 => db.wire[c.head.irel0].dst = c.chip
    /\ \A i \in Recs :
         LET r == db.wire[i] IN
         /\ r.samesrcnextdst # 0 =>
              r.samesrcnextdst > i /\ db.wire[r.samesrcnextdst].src = r.src
         /\ r.samedstnextsrc # 0 =>
              r.samedstnextsrc > i /\ db.wire[r.samedstnextsrc].dst = r.dst

(* A call or a literal is filed under a function of the file it was read in. *)
LocalsStayInFile ==
    \A i \in Recs :
      db.wire[i].src[1] = "func" =>
        \E j \in Recs : /\ db.wire[j].src = <<"file", db.meant[i].during>>
                        /\ db.wire[j].dst = db.wire[i].src

(* Every relation has the ends its creator meant it to have: a path is related to
   its own name, a file to its own path, a function to its own name. *)
RelationsMeantHold ==
    \A i \in Recs : db.wire[i].src = db.meant[i].src /\ db.wire[i].dst = db.meant[i].dst

=============================================================================
