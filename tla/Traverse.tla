------------------------------ MODULE Traverse ------------------------------
(***************************************************************************)
(* The directory walk of libunit/file/filelib.c that feeds the learner: a  *)
(* stack of open folders over one path buffer.  A step is one turn of the  *)
(* loop of traverse_read.                                                  *)
(*                                                                         *)
(* A path is the sequence of its components, each with the number of       *)
(* characters it takes, its "/" included; lengths are in characters.  The  *)
(* buffer holds the path as far as there is room for it: what snprintf cut *)
(* off is kept in `path` and told by its length.  A name given as "/" is a *)
(* component that the first push writes over.                              *)
(***************************************************************************)
EXTENDS Integers, Sequences, FiniteSets

CONSTANTS
    Node,       \* directory entries
    Root,       \* the name the walk starts at
    Trees,      \* [kind: the kind of each node, list: what readdir gives for it,
                \*  width: the characters of its name and the "/" before it,
                \*  slash: whether the name is "/"]
    Levels,     \* entries of the stack (16)
    Buffer,     \* characters of the path buffer, the 0 at the end included (0x1000)
    NoFolder    \* the folder of an entry not opened yet, or that cannot be

Kinds == {"dir", "leaf", "link", "dot"}

\* The names in a folder differ, and no folder is in itself or in one below it: among
\* any entries there is one that none of the others holds.
Folders(t) ==
    /\ \A n \in Node : \A i, j \in DOMAIN t.list[n] : t.list[n][i] = t.list[n][j] => i = j
    /\ \A S \in (SUBSET Node) \ {{}} :
         \E n \in S : \A m \in S : \A i \in DOMAIN t.list[m] : t.list[m][i] # n

ASSUME TreesOK ==
    \A t \in Trees : /\ t.kind \in [Node -> Kinds] /\ t.kind[Root] \in {"dir", "leaf"}
                     /\ t.list \in [Node -> Seq(Node)]
                     /\ t.width \in [Node -> Nat \ {0}]
                     /\ t.slash \in BOOLEAN /\ (t.slash => t.width[Root] = 1)
                     /\ Folders(t)
ASSUME LevelsOK == Levels \in Nat \ {0} /\ Buffer \in Nat
ASSUME RootOK == IsFiniteSet(Node) /\ Root \in Node /\ NoFolder \notin Seq(Node)

VARIABLES
    tree,       \* the file system, which does not change during the walk
    stack,      \* per level [namelen, folder: what readdir has left, or NoFolder]
    rsp,        \* the level in use
    path,       \* the path buffer
    given,      \* what traverse_read has returned: [path, offs, type]
    pc          \* "read", "end" for a null result, or "overrun" of the stack or the buffer

walk == <<tree, stack, rsp, path, given, pc>>

Top == stack[rsp]

\* The characters of the first k components of a path, and of all.
CharsTo(p, k) ==
    LET C[i \in 0 .. Len(p)] == IF i = 0 THEN 0 ELSE C[i - 1] + tree.width[p[i]]
    IN  C[k]
Chars(p) == CharsTo(p, Len(p))

\* The buffer holds all of the path.
Fitting(p) == Chars(p) < Buffer

----------------------------------------------------------------------------
\* The first entry of the stack is cleared.  A name is shorter than the buffer.
traverse_start ==
    /\ tree \in Trees
    /\ tree.width[Root] < Buffer
    /\ stack = [l \in 0 .. Levels - 1 |->
                  [namelen |-> IF l = 0 THEN tree.width[Root] ELSE 0, folder |-> NoFolder]]
    /\ rsp = 0
    /\ path = <<Root>>
    /\ given = << >>
    /\ pc = "read"

\* (The _Mutant forms are the same code with a bug in it; the run finds each of them.)
\* An entry whose name is used up: back to the one below, or to the caller.
go_back_Mutant ==
    /\ pc = "read" /\ Top.namelen = 0
    /\ IF rsp = 0 THEN pc' = "end" ELSE UNCHANGED pc
    /\ UNCHANGED <<tree, stack, rsp, path, given>>
go_back ==
    /\ pc = "read" /\ Top.namelen = 0
    /\ IF rsp = 0 THEN pc' = "end" /\ UNCHANGED rsp
       ELSE rsp' = rsp - 1 /\ UNCHANGED pc
    /\ UNCHANGED <<tree, stack, path, given>>

\* A name not opened yet is tried as a folder and given to the caller either way;
\* offs is where the name of the entry begins.
Offs_Mutant == IF rsp = 0 THEN 0 ELSE Top.namelen
Offs == IF rsp = 0 THEN 0 ELSE stack[rsp - 1].namelen

\* What opendir gives: of a path that was cut, whatever else it may name.
FolderOf(node) == IF tree.kind[node] = "dir" THEN tree.list[node] ELSE NoFolder
opendir ==
    IF Fitting(path) THEN {FolderOf(path[Len(path)])}
    ELSE {FolderOf(node) : node \in Node} \cup {NoFolder}

open_name ==
    /\ pc = "read" /\ Top.namelen # 0 /\ Top.folder = NoFolder
    /\ \E folder \in opendir :
         IF folder # NoFolder
         THEN /\ stack' = [stack EXCEPT ![rsp].folder = folder]
              /\ given' = Append(given, [path |-> path, offs |-> Offs, type |-> "dir"])
         ELSE /\ stack' = [stack EXCEPT ![rsp].namelen = 0]
              /\ given' = Append(given, [path |-> path, offs |-> Offs, type |-> "file"])
    /\ UNCHANGED <<tree, rsp, path, pc>>

\* readdir has nothing more: close, and go on with the level below.
close_folder ==
    /\ pc = "read" /\ Top.namelen # 0 /\ Top.folder = << >>
    /\ stack' = [stack EXCEPT ![rsp].namelen = 0]
    /\ rsp' = IF rsp > 0 THEN rsp - 1 ELSE 0
    /\ UNCHANGED <<tree, path, given, pc>>

\* The next entry; symbolic links and names with a leading dot are passed over.  Its name
\* is written behind the first `Behind` characters of the buffer, whatever stands there.
\* The stack is pushed without a look at its size, and a name that was too long for the
\* buffer has no room behind it: the size snprintf is told is below zero.
Passed == {"link", "dot"}

Behind == IF rsp = 0 /\ tree.slash THEN 0 ELSE Top.namelen
Before(j) == SubSeq(path, 1, CHOOSE k \in 0 .. Len(path) : CharsTo(path, k) = j)

Pushed_Mutant(node) == Append(path, node)
Pushed(node) == Append(Before(Behind), node)

next_entry ==
    /\ pc = "read" /\ Top.namelen # 0 /\ Top.folder \notin {NoFolder, << >>}
    /\ LET node == Head(Top.folder)
           taken == [stack EXCEPT ![rsp].folder = Tail(@)]
       IN  IF tree.kind[node] \in Passed
           THEN stack' = taken /\ UNCHANGED <<rsp, path, pc>>
           ELSE IF rsp + 1 = Levels \/ Behind > Buffer
           THEN pc' = "overrun" /\ UNCHANGED <<stack, rsp, path>>
           ELSE /\ rsp' = rsp + 1
                /\ path' = Pushed(node)
                /\ stack' = [taken EXCEPT ![rsp + 1] =
                       [namelen |-> Behind + tree.width[node], folder |-> NoFolder]]
                /\ UNCHANGED pc
    /\ UNCHANGED <<tree, given>>

traverse_read == go_back \/ open_name \/ close_folder \/ next_entry

\* One thread, which waits for nothing but the file system.
TraverseSpec == traverse_start /\ [][traverse_read]_walk /\ WF_walk(traverse_read)

----------------------------------------------------------------------------
(* Properties. *)

\* The true path of every entry the walk should visit.
Kids(p) ==
    LET node == p[Len(p)] IN
    IF tree.kind[node] # "dir" THEN {}
    ELSE {Append(p, tree.list[node][i]) :
            i \in {j \in DOMAIN tree.list[node] : tree.kind[tree.list[node][j]] \notin Passed}}

AllPaths ==
    LET Deep[d \in Nat] == IF d = 0 THEN {<<Root>>}
                           ELSE Deep[d - 1] \cup UNION {Kids(p) : p \in Deep[d - 1]}
    IN  Deep[Cardinality(Node)]

\* A path as it stands in the buffer: under "/" the first component is not there.
Written(p) == IF tree.slash /\ Len(p) > 1 THEN Tail(p) ELSE p

\* Where an entry is cut from its path: what comes before its name, the name of the walk
\* has no cut.  What is in "/" is cut behind a "/" its path does not begin with once more,
\* within the name, which the learner then does not take for one.
CutAtName(p, offs) ==
    CASE Len(p) = 1 -> offs = 0
      [] Len(p) = 2 /\ tree.slash -> offs = 1
      [] OTHER -> offs + tree.width[p[Len(p)]] = Chars(Written(p))

(* traverse_read gives the learner every entry of the tree whose path the buffer holds,
   once, under its own path and cut at its name; the path buffer is shared by all the
   levels and holds what the last one left.  A longer path is given cut short, and what
   is found there does not keep an entry that fits from its turn. *)
GivesTheTree ==
    /\ \A i, j \in DOMAIN given :
         Fitting(given[i].path) /\ given[i].path = given[j].path => i = j
    /\ \A i \in DOMAIN given :
         Fitting(given[i].path) =>
           \E p \in AllPaths : given[i].path = Written(p) /\ CutAtName(p, given[i].offs)
    /\ pc = "end" => Cardinality({i \in DOMAIN given : Fitting(given[i].path)})
                       = Cardinality({p \in AllPaths : Fitting(Written(p))})

(* The walk comes to an end, and leaves the stack only for a tree as deep as it, or the
   buffer for one with a path it does not hold. *)
WalkEnds ==
    <>(pc = "end" \/ (pc = "overrun" /\ \E p \in AllPaths : Len(p) > Levels \/ ~Fitting(Written(p))))
=============================================================================
