-------------------------------- MODULE Walk --------------------------------
(***************************************************************************)
(* The control-flow walks of lv1/analyse: follow (recursive, on both       *)
(* processors; travel for arm64 is the same text) and travel for x86-64    *)
(* (a stack of its own, and a table of the blocks found).  A step is one   *)
(* instruction of their loops.                                             *)
(*                                                                         *)
(* What the disassembler prints is left out.  An instruction is what the   *)
(* walks look at: its kind, its size, and where it branches to.  What the  *)
(* buffer holds at an address is settled when a walk first looks there,    *)
(* which is every buffer at once.                                          *)
(***************************************************************************)
EXTENDS Integers, Sequences, FiniteSets, FiniteSetsExt

CONSTANTS
    Instr,      \* the instructions a buffer may hold: [kind, size, to]
    len,        \* the length of the buffer
    Near,       \* how near a branch target keeps a block going (128)
    Entries,    \* where a walk may begin: at, the second argument
    Blocks,     \* how many blocks the tables of travel have room for (65536)
    Ints,       \* how many addresses those of follow have room for (262144)
    Unread      \* a place of the buffer that no walk has looked at

Commands == {"follow_x8664", "follow_arm64", "travel_x8664"}    \* and travel_arm64
Kinds == {"plain", "ret", "cond", "jump", "call"}

ASSUME InstrOK == \A i \in Instr : i.kind \in Kinds /\ i.size \in Nat \ {0} /\ i.to \in Int
ASSUME BoundsOK == len \in Nat \ {0} /\ Near \in Nat
ASSUME EntriesOK == Entries \subseteq Nat
ASSUME TablesOK == Blocks \in Nat \ {0} /\ Ints \in Nat \ {0}
ASSUME UnreadOK == Unread \notin Instr

VARIABLES
    cmd,        \* the command of evil.c
    code,       \* buf: what it holds, as far as it has been read
    known,      \* knowntable: addresses (follow), blocks [addr, llll, rrrr] (travel)
    frames,     \* follow: the activations of *_one, [called, cur, j, far]
    stack,      \* travel: [head, tail, save, type]
    here,       \* travel: [entry, j, self]
    seen,       \* the addresses disassembled so far
    pc          \* "walk", "sort", "end"; "overrun": a write behind the end of a table

vars == <<cmd, code, known, frames, stack, here, seen, pc>>

Inside(off) == off >= 0 /\ off < len

Nowhere == [entry |-> 0, j |-> 0, self |-> 0]
Block(a) == [addr |-> a, llll |-> a, rrrr |-> a]

\* follow_*: an empty table; travel_x8664_one: a table with the entry in it.
Init ==
    /\ cmd \in Commands
    /\ code = [a \in 0 .. len - 1 |-> Unread]
    /\ \E at \in Entries :
         IF cmd = "travel_x8664"
         THEN /\ known = <<Block(at)>>
              /\ here = [entry |-> at, j |-> at, self |-> 1]
              /\ frames = << >>
         ELSE /\ known = << >>
              /\ frames = <<[called |-> -1, cur |-> at, j |-> at, far |-> at]>>
              /\ here = Nowhere
    /\ stack = << >>
    /\ seen = {}
    /\ pc = "walk"

\* The tables are two of malloc(0x100000), whatever the buffer needs.
Room == IF cmd = "travel_x8664" THEN Blocks ELSE Ints
Full == Len(known) = Room

----------------------------------------------------------------------------
(* follow *)

sp == Len(frames)
F == frames[sp]
InFollow == pc = "walk" /\ cmd # "travel_x8664" /\ F.j < len

\* (The _Mutant forms are the same code with a bug in it; the run finds each of them.)
knowncheck_Mutant(off) == \E k \in DOMAIN known : k < Len(known) /\ known[k] = off
knowncheck(off) == \E k \in DOMAIN known : known[k] = off

\* stack[0..sp): the calls that are open.
stackcheck(off) == \E k \in 2 .. sp : frames[k].called = off

\* On x86-64 the distance is counted from the next instruction, on arm64 from this one.
From(size) == IF cmd = "follow_x8664" THEN F.j + size ELSE F.j
StillMore(size) == F.far > From(size) /\ F.far < From(size) + Near

\* disasm_*_one: the instruction at j, printed.
Held(j) == IF code[j] = Unread THEN Instr ELSE {code[j]}
Disasm(j, i) ==
    /\ code' = [code EXCEPT ![j] = i]
    /\ seen' = seen \cup {j}

GoOn(fr, size) == frames' = [frames EXCEPT ![sp] = [fr EXCEPT !.j = @ + size]]

\* The end of the buffer, and a return with no branch just beyond it: leave, and let
\* the caller go on behind its call.
Leave ==
    IF sp = 1 THEN frames' = << >> /\ pc' = "end"
    ELSE /\ LET up == frames[sp - 1] IN
            frames' = [SubSeq(frames, 1, sp - 1) EXCEPT ![sp - 1].j = @ + code[up.j].size]
         /\ UNCHANGED pc

follow_off_the_end ==
    /\ pc = "walk" /\ cmd # "travel_x8664" /\ F.j >= len
    /\ Leave
    /\ UNCHANGED <<cmd, code, known, stack, here, seen>>

follow_ret(i) ==
    /\ i.kind = "ret"
    /\ IF StillMore(i.size) THEN GoOn(F, i.size) /\ UNCHANGED pc ELSE Leave
    /\ Disasm(F.j, i)
    /\ UNCHANGED <<cmd, known, stack, here>>

\* A conditional branch is not taken: it moves the mark up to which the block goes on.
follow_cond(i) ==
    /\ i.kind = "cond"
    /\ GoOn([F EXCEPT !.far = IF @ < i.to THEN i.to ELSE @], i.size)
    /\ Disasm(F.j, i)
    /\ UNCHANGED <<cmd, known, stack, here, pc>>

JumpSkipped(off, size) ==
    \/ ~Inside(off)
    \/ off >= F.cur /\ off <= F.j
    \/ F.far > From(size) /\ off >= From(size) /\ off < From(size) + Near
    \/ knowncheck(off)

follow_jump(i) ==
    /\ i.kind = "jump"
    /\ IF JumpSkipped(i.to, i.size)
       THEN GoOn(F, i.size) /\ UNCHANGED <<known, pc>>
       ELSE IF Full
       THEN pc' = "overrun" /\ UNCHANGED <<known, frames>>
       ELSE /\ known' = Append(known, i.to)
            /\ frames' = [frames EXCEPT ![sp] = [called |-> F.called, cur |-> i.to,
                                                 j |-> i.to, far |-> i.to]]
            /\ UNCHANGED pc
    /\ Disasm(F.j, i)
    /\ UNCHANGED <<cmd, stack, here>>

\* A call is put on the stack, above the sp - 1 that are open, before it is looked up.
follow_call(i) ==
    /\ i.kind = "call"
    /\ LET off == i.to IN
       IF ~Inside(off) \/ stackcheck(off) \/ (sp <= Room /\ knowncheck(off))
       THEN GoOn(F, i.size) /\ UNCHANGED <<known, pc>>
       ELSE IF sp > Room \/ Full
       THEN pc' = "overrun" /\ UNCHANGED <<known, frames>>
       ELSE /\ known' = Append(known, off)
            /\ frames' = Append(frames, [called |-> off, cur |-> off, j |-> off, far |-> off])
            /\ UNCHANGED pc
    /\ Disasm(F.j, i)
    /\ UNCHANGED <<cmd, stack, here>>

follow_plain(i) ==
    /\ i.kind = "plain"
    /\ GoOn(F, i.size)
    /\ Disasm(F.j, i)
    /\ UNCHANGED <<cmd, known, stack, here, pc>>

----------------------------------------------------------------------------
(* travel on x86-64 *)

InTravel == pc = "walk" /\ cmd = "travel_x8664" /\ here.j < len
Behind(i) == here.j + i.size

\* The index of a block by its address, or 0 (-1 in the code).
known_check(off) ==
    IF \E k \in DOMAIN known : known[k].addr = off
    THEN Min({k \in DOMAIN known : known[k].addr = off}) ELSE 0

checkrecur(off) == \E k \in DOMAIN stack : stack[k].head = off
checkmerge(off) == \E k \in DOMAIN stack : stack[k].head <= off /\ off <= stack[k].tail

\* Back to the last call or condition, over the jumps; without one the walk is over.
Saved == {k \in DOMAIN stack : stack[k].type \in {"call", "cond"}}
Back_Mutant ==
    IF Saved = {} THEN pc' = "sort" /\ stack' = << >> /\ UNCHANGED here
    ELSE LET t == stack[Max(Saved)] IN
         /\ stack' = SubSeq(stack, 1, Max(Saved))
         /\ here' = [entry |-> t.head, j |-> t.save, self |-> known_check(t.head)]
         /\ UNCHANGED pc
Back ==
    IF Saved = {} THEN pc' = "sort" /\ stack' = << >> /\ UNCHANGED here
    ELSE LET t == stack[Max(Saved)] IN
         /\ stack' = SubSeq(stack, 1, Max(Saved) - 1)
         /\ here' = [entry |-> t.head, j |-> t.save, self |-> known_check(t.head)]
         /\ UNCHANGED pc

Skip(i) == here' = [here EXCEPT !.j = Behind(i)] /\ UNCHANGED <<stack, pc>>

\* The block so far ends behind this instruction.
Stretched(i) == [known EXCEPT ![here.self].rrrr = Behind(i)]

\* A row is written behind the last one of the table.
Overrun(i) == pc' = "overrun" /\ known' = Stretched(i) /\ UNCHANGED <<stack, here>>

\* Into a block not known before; what is behind the branch is kept for later.
Enter(i, type) ==
    /\ stack' = Append(stack, [head |-> here.entry, tail |-> Behind(i),
                               save |-> Behind(i), type |-> type])
    /\ here' = [entry |-> i.to, j |-> i.to, self |-> Len(known) + 1]
    /\ UNCHANGED pc

travel_off_the_end ==
    /\ pc = "walk" /\ cmd = "travel_x8664" /\ here.j >= len
    /\ pc' = "sort"
    /\ UNCHANGED <<cmd, code, known, frames, stack, here, seen>>

\* The walk has come to the start of another block.
Merging == InTravel /\ known_check(here.j) # 0 /\ here.j # here.entry

Merged_Mutant(that) == [known EXCEPT ![here.self].rrrr = known[that].rrrr + 1,
                                     ![that].llll = known[here.self].llll]
Merged(that) == [known EXCEPT ![here.self].rrrr = known[that].rrrr,
                              ![that].llll = known[here.self].llll]
travel_merge ==
    /\ Merging
    /\ known' = Merged(known_check(here.j))
    /\ Back
    /\ UNCHANGED <<cmd, code, frames, seen>>

travel_ret(i) ==
    /\ i.kind = "ret"
    /\ known' = Stretched(i)
    /\ Back
    /\ Disasm(here.j, i)
    /\ UNCHANGED <<cmd, frames>>

travel_call(i) ==
    /\ i.kind = "call"
    /\ LET off == i.to IN
       IF ~Inside(off) \/ checkrecur(off) \/ known_check(off) # 0
       THEN known' = Stretched(i) /\ Skip(i)
       ELSE IF Full THEN Overrun(i)
       ELSE known' = Append(Stretched(i), Block(off)) /\ Enter(i, "call")
    /\ Disasm(here.j, i)
    /\ UNCHANGED <<cmd, frames>>

\* Out of the buffer, back into this block, or to a block that is known.
StillInside(off) == off >= here.entry /\ off < here.j

travel_cond(i) ==
    /\ i.kind = "cond"
    /\ LET off == i.to IN
       IF ~Inside(off) \/ StillInside(off) \/ known_check(off) # 0
       THEN known' = Stretched(i) /\ Skip(i)
       ELSE IF Full THEN Overrun(i)
       ELSE /\ known' = Append(Stretched(i), Block(off))
            /\ IF checkmerge(off) THEN Skip(i) ELSE Enter(i, "cond")
    /\ Disasm(here.j, i)
    /\ UNCHANGED <<cmd, frames>>

travel_jump(i) ==
    /\ i.kind = "jump"
    /\ LET off == i.to IN
       IF ~Inside(off) \/ StillInside(off)
       THEN known' = Stretched(i) /\ Skip(i)
       ELSE IF known_check(off) # 0
       THEN known' = Stretched(i) /\ Back
       ELSE IF Full THEN Overrun(i)
       ELSE /\ known' = Append(Stretched(i), Block(off))
            /\ IF checkmerge(off) THEN Back ELSE Enter(i, "jump")
    /\ Disasm(here.j, i)
    /\ UNCHANGED <<cmd, frames>>

travel_plain(i) ==
    /\ i.kind = "plain"
    /\ Skip(i)
    /\ Disasm(here.j, i)
    /\ UNCHANGED <<cmd, known, frames>>

\* known_sort: a quicksort by address around the first entry, p, which leaves a hole at lo,
\* to be filled from the right and from the left in turn.
Row == [addr : Int, llll : Int, rrrr : Int]
Sorting == {r \in [buf : Seq(Row), lo : Nat, hi : Nat, p : Row] :
              1 <= r.lo /\ r.lo <= r.hi /\ r.hi <= Len(r.buf)}

Swept(r) ==
    LET h == Max({k \in r.lo .. r.hi : k = r.lo \/ r.buf[k].addr < r.p.addr})
        l == Min({k \in r.lo .. h : k = h \/ (k # r.lo /\ r.buf[k].addr > r.p.addr)})
    IN  [buf |-> [r.buf EXCEPT ![r.lo] = r.buf[h],
                               ![h] = IF l = r.lo THEN r.buf[h] ELSE r.buf[l]],
         lo |-> l, hi |-> h, p |-> r.p]

Hole[r \in Sorting] ==
    IF r.lo = r.hi THEN [r EXCEPT !.buf[r.lo] = r.p] ELSE Hole[Swept(r)]

known_sort[b \in Seq(Row)] ==
    IF Len(b) <= 1 THEN b
    ELSE IF Len(b) = 2
    THEN IF b[1].addr < b[2].addr THEN b ELSE <<b[2], b[1]>>
    ELSE LET q == Hole[[buf |-> b, lo |-> 1, hi |-> Len(b), p |-> b[1]]]
         IN  known_sort[SubSeq(q.buf, 1, q.hi - 1)] \o <<q.buf[q.hi]>>
             \o known_sort[SubSeq(q.buf, q.hi + 1, Len(b))]

travel_report ==
    /\ pc = "sort"
    /\ known' = known_sort[known]
    /\ pc' = "end"
    /\ UNCHANGED <<cmd, code, frames, stack, here, seen>>

----------------------------------------------------------------------------
follow_one(i) == \/ follow_ret(i) \/ follow_cond(i) \/ follow_jump(i)
                 \/ follow_call(i) \/ follow_plain(i)
\* The command travel for arm64 is the text of follow for arm64.
travel_arm64_one(i) == follow_one(i)
travel_one(i) == \/ travel_ret(i) \/ travel_call(i) \/ travel_cond(i)
                 \/ travel_jump(i) \/ travel_plain(i)

Next == \/ follow_off_the_end \/ travel_off_the_end \/ travel_merge \/ travel_report
        \/ InFollow /\ \E i \in Held(F.j) :
             IF cmd = "follow_x8664" THEN follow_one(i) ELSE travel_arm64_one(i)
        \/ InTravel /\ ~Merging /\ \E i \in Held(here.j) : travel_one(i)

\* One thread over a buffer in memory.
Spec == Init /\ [][Next]_vars /\ WF_vars(Next)

----------------------------------------------------------------------------
(* Properties. *)

\* The places of the buffer that the branches printed so far go to, those a walk enters; and
\* the entry at, which travel lists as well.
Entering == IF cmd = "travel_x8664" THEN {"cond", "jump", "call"} ELSE {"jump", "call"}
Goals(at) ==
    {b \in {code[a].to : a \in {x \in seen : code[x].kind \in Entering}} : Inside(b)}
      \cup (IF cmd = "travel_x8664" THEN {at} ELSE {})

(* The tables of addresses or blocks, and the stack beside each, have one megabyte and are
   not checked.  A place is listed once and only when a printed branch goes there, so
   nothing is written behind a table unless more different places are branched to than it
   has rows.  A buffer of sixteen megabytes may have that many; the walk is then overrun. *)
TablesBounded ==
    LET addr(k) == IF cmd = "travel_x8664" THEN known[k].addr ELSE known[k] IN
    /\ \A k, l \in DOMAIN known : addr(k) = addr(l) => k = l
    /\ Len(known) <= Room /\ Len(stack) <= Room /\ Len(frames) <= Room + 1
    /\ \E at \in Entries :
         /\ \A k \in DOMAIN known : addr(k) \in Goals(at)
         /\ pc = "overrun" => Cardinality(Goals(at)) > Room

\* The instructions that may run after one of those in S: the next one, but not behind
\* a return or a jump, and the target.
After(S) ==
    {b \in {a + code[a].size : a \in {x \in S : code[x].kind \notin {"ret", "jump"}}}
           \cup {code[a].to : a \in {x \in S : code[x].kind \in {"cond", "jump", "call"}}} :
       Inside(b)}

Printed == UNION {a .. a + code[a].size - 1 : a \in seen}
Targets == {code[a].to : a \in {x \in seen : code[x].kind \in {"cond", "jump"}}}
BehindBranch == {a + code[a].size : a \in {x \in seen : code[x].kind \in {"cond", "jump", "call"}}}
\* Every byte that can run is printed, but for what checkmerge takes for done.
ReachablePrinted ==
    cmd = "travel_x8664" /\ pc = "end" /\ stack = << >> =>
      After(seen) \subseteq Printed \cup (Targets \cap BehindBranch)

\* The report of travel is in ascending order, and the range it gives for a block holds
\* nothing that was not printed.
ReportTrue ==
    cmd = "travel_x8664" /\ pc = "end" =>
      /\ \A k \in 1 .. Len(known) - 1 : known[k].addr < known[k + 1].addr
      /\ \A k \in DOMAIN known : known[k].llll .. known[k].rrrr - 1 \subseteq Printed

(* travel on x86-64 prints every byte that can run, and reports what it printed: what it
   skips, because it is inside the block, known, or between the ends of an open one, is
   reached from elsewhere, and rows that were stretched, merged and cut off name no more
   than that.  There are two exceptions.  A walk that runs off the end of the buffer
   gives up the branches it had kept for later, which are then still on the stack.  And
   checkmerge counts the address just behind an open block as inside it, so a jump to
   what is behind a branch is taken for done, and the way back to there for a merge: a
   loop entered at its condition loses its body. *)
ListingTrue == ReachablePrinted /\ ReportTrue

(* Every walk ends, over loops, recursion and code that calls itself, or overruns a table. *)
WalkEnds == <>(pc \in {"end", "overrun"})
=============================================================================
