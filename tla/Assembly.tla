------------------------------ MODULE Assembly ------------------------------
(***************************************************************************)
(* The commands asm and disasm, for arm64, for x86-64 (Assembly86), and    *)
(* for riscv64 and mips64 (Risc): a line of a file is cut into tokens, the *)
(* tokens are read by their position, and the word they make is shown      *)
(* through the disassembler; or a word of a file is shown.                 *)
(*                                                                         *)
(* A token is its first letters and the number the assembler reads from    *)
(* it.  The table of tokens is not cleared, so that a token past the last  *)
(* one is whatever an earlier line left there.                             *)
(***************************************************************************)
EXTENDS Arm64

X == INSTANCE Assembly86
V == INSTANCE Risc

CONSTANTS
    Line,       \* the lines of arm64 a file may hold: [op, sz, d, n, how, m, amt]
    Op86,       \* the operations of a line of x86-64, and its operands
    Flat86,
    Sum86,
    Other86,    \* what the other operand of a sum is
    Junk,       \* what may be read where nothing was written
    Word,       \* the words of arm64 a file may hold
    Prefix86,   \* the first bytes of an instruction of x86-64, its modrm and sib bytes,
    Modrm86,    \* and all that follows
    Sib86,
    Rest86,
    RvLine,     \* the lines of riscv64: [op, d, s0, s1, minus, imm]
    RvWord      \* and its words, or those of mips64

Bytes == 0 .. 255
None == -1      \* an amount left out
Op64 == {"mov", "orr", "add", "adds", "sub", "subs", "cmp", "cmn"}
Reads86 == [k : {"reg"}, size : {8, 16, 32, 64}, n : Nat] \cup [k : {"num"}, v : Nat]
ASSUME AssemblyAssumption ==
    /\ Word \subseteq [b31 : 0 .. 1, b30 : 0 .. 1, b29 : 0 .. 1, b24 : 0 .. 31, b22 : 0 .. 3, b21 : 0 .. 1,
                       b16 : 0 .. 31, b10 : 0 .. 63, b5 : 0 .. 31, b0 : 0 .. 31]
    /\ \A l \in Line :
         /\ l.op \in Op64 /\ {l.sz, l.how} \subseteq STRING /\ {l.d, l.n, l.m} \subseteq Nat
         /\ l.amt \in Nat \cup {None} /\ (l.how \in {"<", ">"} => l.amt # None)
    /\ Junk \subseteq Nat
    /\ Flat86 \cup Other86 \subseteq Reads86
    /\ \A x \in Sum86 : x.k = "sum"
    /\ Op86 \subseteq {"mov", "add", "sub", "cmp", "or", "and", "xor", "test", "xchg", "imul", "lea"}
    /\ Prefix86 \subseteq Seq(Bytes) /\ Modrm86 \cup Sib86 \subseteq Bytes /\ Rest86 \in Seq(Bytes)

ZR == 100       \* a register spelled by name

VARIABLES
    tool,       \* the command, or "none" before it
    first,      \* what the file begins with: an operation, or the bits that name one
    line,       \* the line assembled
    past,       \* what is read where nothing was written
    word,       \* the word, or the bytes
    shown       \* what has been printed for it

tools == <<tool, first, line, past, word, shown>>

Shifts == <<"lsl", "lsr", "asr">>
Extends == <<"uxtb", "uxth", "uxtw", "uxtx", "sxtb", "sxth", "sxtw", "sxtx">>
Place(s, name) == CHOOSE i \in DOMAIN s : s[i] = name
Within(name, s) == \E i \in DOMAIN s : s[i] = name

Tok(c, v) == [c |-> c, v |-> v]
Reg(sz, r) == Tok(sz, IF r = ZR THEN 0 ELSE r)
Sym(c) == Tok(c, 0)

\* assembly_oneline: "add x0 = x1 + uxtw ( x2 , 3 )" and the other forms.  A shift sign
\* without blanks stays in one token with its register.
Operand(l) ==
    CASE l.how = "imm" -> <<Tok("digit", l.m)>>
      [] l.how \in {"none", "tight"} -> <<Reg(l.sz, l.m)>>
      [] l.how \in {"<", ">"} -> <<Reg(l.sz, l.m), Sym(l.how), Tok("digit", l.amt)>>
      [] OTHER -> <<Sym(l.how), Sym("("), Reg(l.sz, l.m)>>
                  \o (IF l.amt = None THEN << >> ELSE <<Sym("comma"), Tok("digit", l.amt)>>)
                  \o <<Sym(")")>>
assembly_oneline(l) ==
    CASE l.op \in {"cmp", "cmn"} -> <<Reg(l.sz, l.n), Sym("+"), Reg(l.sz, l.m)>>
      [] l.op = "mov" -> <<Reg(l.sz, l.d), Sym("="), Reg(l.sz, l.m)>>
      [] OTHER -> <<Reg(l.sz, l.d), Sym("="), Reg(l.sz, l.n), Sym("+")>> \o Operand(l)

----------------------------------------------------------------------------
(* buf[i] is token i behind the mnemonic. *)

\* Only the first source is looked at, for orr too.
assembly_arm64_orr(buf) ==
    LET sf == IF buf[0].c = "x" THEN 1 ELSE 0
        s0 == buf[2].v
    IN  IF buf[0].c # buf[2].c \/ buf[0].c \notin {"x", "w"} THEN NoWord
        ELSE Fields(sf, 0, 1, 10, 0, (s0 \div 2^5) % 2, s0, 0, 31, buf[0].v)

assembly_arm64_addsub(op, what, cnt, buf) ==
    LET sf == IF buf[0].c = "x" THEN 1 ELSE 0
        sized == buf[0].c = buf[2].c /\ buf[0].c \in {"x", "w"}
        s == IF what = 1 THEN 1 ELSE 0
        d0 == buf[0].v
        s0 == buf[2].v
        kind == buf[4].c
        Shift(type, v) == regshift_encode(op, d0, s0, v[1], v[2], type, s, sf)
    IN  CASE what = 2 -> regext_encode(op, 31, d0, s0, 2 + sf, 0, 1, sf)
          [] what < 2 /\ ~sized -> NoWord
          [] what < 2 /\ sized /\ kind = "digit" -> imm_encode(op, d0, s0, buf[4].v, s, sf)
          [] what < 2 /\ sized /\ kind = buf[0].c ->
               IF cnt = 7 THEN Shift(IF buf[5].c = ">" THEN 1 ELSE 0, <<buf[4].v, buf[6].v>>)
               ELSE Shift(0, <<buf[4].v, 0>>)
          [] what < 2 /\ sized /\ Within(kind, Shifts) ->
               Shift(Place(Shifts, kind) - 1, <<buf[6].v, buf[8].v>>)
          [] what < 2 /\ sized /\ Within(kind, Extends) ->
               regext_encode(op, d0, s0, buf[6].v, Place(Extends, kind) - 1,
                             IF cnt > 7 THEN buf[8].v ELSE 0, s, sf)
          [] OTHER -> NoWord

assembly_arm64_add(name, cnt, buf) ==
    assembly_arm64_addsub(0, CASE name = "adds" -> 1 [] name = "cmn" -> 2 [] OTHER -> 0, cnt, buf)
assembly_arm64_sub(name, cnt, buf) ==
    assembly_arm64_addsub(1, CASE name = "subs" -> 1 [] name = "cmp" -> 2 [] OTHER -> 0, cnt, buf)

assembly_compile_arm64(name, toks, junk) ==
    LET buf == [i \in 0 .. 8 |-> IF i < Len(toks) THEN toks[i + 1] ELSE Tok("none", junk)]
        cnt == Len(toks)
    IN  CASE name \in {"mov", "orr"} -> assembly_arm64_orr(buf)
          [] name \in {"add", "adds", "cmn"} -> assembly_arm64_add(name, cnt, buf)
          [] name \in {"sub", "subs", "cmp"} -> assembly_arm64_sub(name, cnt, buf)

----------------------------------------------------------------------------
Blank == [op |-> "none"]
Fresh == tool = "none" /\ first = Blank /\ line = Blank /\ past = 0 /\ word = Blank /\ shown = Blank

\* What a file holds is settled as it is read: first which operation it is.
read_first(name, firsts) ==
    /\ tool = "none"
    /\ tool' = name /\ first' \in firsts
    /\ UNCHANGED <<line, past, word, shown>>

Reads(name) == tool = name /\ shown = Blank /\ UNCHANGED <<tool, first>>

asm_arm64 ==
    /\ Reads("asm_arm64")
    /\ line' \in {l \in Line : l.op = first.op} /\ past' \in Junk
    /\ word' = assembly_compile_arm64(first.op, assembly_oneline(line'), past')
    /\ shown' = disasm_arm64_one(word')

PlainLines == IF first.op = "lea" THEN {}
              ELSE [op : {first.op}, to : {x \in Flat86 : x.k = "reg"}, from : Flat86]
IntoSum(sum) == IF first.op = "lea" THEN {} ELSE [op : {first.op}, to : {sum}, from : Other86]
OutOfSum(sum) == [op : {first.op}, to : {x \in Other86 : x.k = "reg"}, from : {sum}]
asm_x8664 ==
    /\ Reads("asm_x8664")
    /\ \/ line' \in PlainLines
       \/ \E sum \in Sum86 : line' \in IntoSum(sum) \cup OutOfSum(sum)
    /\ past' \in Junk
    /\ word' = X!assembly_compile_x8664(line', past')
    /\ shown' = X!disasm_x8664_one(word')

disasm_arm64 ==
    /\ Reads("disasm_arm64")
    /\ word' \in {w \in Word : w.b24 = first.bits}
    /\ shown' = disasm_arm64_one(word')
    /\ UNCHANGED <<line, past>>

disasm_x8664 ==
    /\ Reads("disasm_x8664")
    /\ \E m \in Modrm86, s \in Sib86 : word' = first.bytes \o <<m, s>> \o Rest86
    /\ shown' = X!disasm_x8664_one(word')
    /\ UNCHANGED <<line, past>>

asm_riscv64 ==
    /\ Reads("asm_riscv64")
    /\ line' \in {l \in RvLine : l.op = first.op} /\ past' \in Junk
    /\ word' = V!assembly_compile_riscv64(line', past')
    /\ shown' = V!disasm_riscv64_one(word')

disasm_riscv64 ==
    /\ Reads("disasm_riscv64")
    /\ word' \in {w \in RvWord : w.opcode = first.bits}
    /\ shown' = V!disasm_riscv64_one(word')
    /\ UNCHANGED <<line, past>>

asm_mips64 ==
    /\ Reads("asm_mips64")
    /\ line' \in {l \in Line : l.op = first.op}
    /\ LET toks == assembly_oneline(line') IN
       shown' = V!Show(first.op, IF first.op = "mov" THEN V!assembly_mips64_mov(toks)
                              ELSE V!assembly_mips64_add(toks), <<"none">>)
    /\ UNCHANGED <<past, word>>

disasm_mips64 ==
    /\ Reads("disasm_mips64")
    /\ word' \in {w \in RvWord : w.opcode = first.bits}
    /\ shown' = V!disasm_mips64_one(word')
    /\ UNCHANGED <<line, past>>

ToolStep ==
    \/ read_first("asm_arm64", [op : {l.op : l \in Line}])
    \/ read_first("asm_x8664", [op : Op86])
    \/ read_first("disasm_arm64", [bits : {w.b24 : w \in Word}])
    \/ \E pre \in Prefix86 : read_first("disasm_x8664", [bytes : {pre \o <<op>> : op \in 0 .. 255}])
    \/ read_first("asm_riscv64", [op : {l.op : l \in RvLine}])
    \/ read_first("asm_mips64", [op : {"mov", "add"}])
    \/ \E name \in {"disasm_riscv64", "disasm_mips64"} : read_first(name, [bits : {w.opcode : w \in RvWord}])
    \/ asm_arm64 \/ asm_x8664 \/ disasm_arm64 \/ disasm_x8664
    \/ asm_riscv64 \/ disasm_riscv64 \/ asm_mips64 \/ disasm_mips64

AssemblySpec == Fresh /\ [][ToolStep]_tools

----------------------------------------------------------------------------
(* Properties. *)

Number(r) == IF r = ZR THEN 31 ELSE r

\* A plain register, and one extended from its own width, are shifts to the left.
Effect(s) ==
    IF <<s.sz, s.rest[1]>> \in {<<"x", "uxtx">>, <<"w", "uxtw">>}
    THEN [s EXCEPT !.rest = <<"lsl", s.rest[2]>>] ELSE s

\* What a line asks for, in the terms of what is shown.
Meant(l) ==
    LET amt == IF l.amt = None THEN 0 ELSE l.amt
        rest == CASE l.how = "imm" -> <<"imm", l.m>>
                  [] l.how = ">" -> <<"lsr", amt>>
                  [] l.how \in {"none", "tight", "<"} -> <<"lsl", amt>>
                  [] OTHER -> <<l.how, amt>>
        minus == IF l.op \in {"sub", "subs", "cmp"} THEN "-" ELSE "+"
        regs == <<Number(l.n)>> \o (IF l.how = "imm" THEN << >> ELSE <<Number(l.m)>>)
    IN  CASE l.op = "cmp" -> Signs("subs", l.sz, minus, <<31>> \o regs, rest)
          [] l.op = "cmn" -> Signs("adds", l.sz, minus, <<31>> \o regs, rest)
          [] l.op = "mov" -> Show("orr", l.sz, <<Number(l.d), 31, Number(l.m)>>, rest)
          [] l.op = "orr" -> Show("orr", l.sz, <<Number(l.d)>> \o regs, rest)
          [] OTHER -> Signs(l.op, l.sz, minus, <<Number(l.d)>> \o regs, rest)

\* What the assembler or the disassembler gets wrong without a word.
Used(l) == {l.n} \cup (IF l.op \in {"cmp", "cmn"} THEN {} ELSE {l.d})
                 \cup (IF l.how = "imm" THEN {} ELSE {l.m})
Misread(l) ==
    \/ \E r \in Used(l) : r > 31                        \* too large, or a name: read as 0
    \/ l.how = "imm" /\ l.m >= 2^12 /\ (l.m >= 2^24 \/ l.m % 2^12 # 0)
    \/ l.how = "tight"                                  \* the shift is dropped
    \/ (l.how \in {"<", ">"} \/ Within(l.how, Shifts)) /\ l.amt > 63
    \/ Within(l.how, Extends) /\ l.amt > 7
    \/ l.op = "orr"                                     \* the second source is dropped
    \/ l.op = "sub" /\ Within(l.how, Extends) /\ l.n # 31   \* shown with a plus
    \/ Within(l.how, Shifts \o Extends) /\ l.amt = None /\ past # 0 \* read past the last token

(* A line that is assembled comes back from the disassembler with the meaning it was
   typed with, through the widths of all fields, but for the lines of Misread, and on
   x86-64 for those that have no form.  On riscv64 that is the sum it puts into its
   register. *)
AssembledAsTyped ==
    /\ tool = "asm_arm64" /\ shown # Blank /\ ~Misread(line) => Effect(shown) = Effect(Meant(line))
    /\ tool = "asm_x8664" /\ shown # Blank /\ X!Writable(line) =>
         /\ shown.op = line.op
         /\ <<X!ShownOperand(shown.to), X!ShownOperand(shown.from)>> \in
              X!Pair(line.op, X!MeantOperand(line.to), X!MeantOperand(line.from))
    /\ tool = "asm_riscv64" /\ shown # Blank /\ ~V!Misread(line, past) =>
         V!Effect(shown) = V!Meant(line)

(* The walks and the listing read each word by themselves, and agree on what is a
   branch and where it leads.  On arm64 they differ on b and bl by exactly 2^27 back,
   which the listing shows as forward, and on conditions with bit 4 set, which walks
   pass by; only a return through x30 (or 31) ends a walk.  On x86-64 the walks look at
   the first byte only, so that a branch behind a prefix, and the loops, are passed by. *)
KindOf(s) ==
    CASE s.op = "b" -> "jump" [] s.op = "bl" -> "call"
      [] s.op = "ret" /\ s.regs[1] \in {30, 31} -> "ret"
      [] s.op \in {"b.cond", "cbz", "cbnz", "tbz", "tbnz"} -> "cond"
      [] OTHER -> "plain"
KindOf86(s) ==
    CASE s.op = "j" -> "cond" [] s.op = "call" -> "call" [] s.op = "jmp" -> "jump"
      [] s.op = "ret" -> "ret" [] OTHER -> "plain"
Front == {102, 103} \cup (64 .. 79)
Arm64Word == tool \in {"asm_arm64", "disasm_arm64"} /\ shown # Blank
X8664Word == tool \in {"asm_x8664", "disasm_x8664"} /\ shown # Blank
WalkSeesWhatIsShown ==
    /\ Arm64Word =>
         LET seen == Seen(word) IN
         \/ /\ seen.kind = KindOf(shown)
            /\ seen.kind \in {"cond", "jump", "call"} =>
                 seen.to = shown.rest[2] \/ (shown.rest[2] = 2^27 /\ seen.to = -(2^27))
         \/ shown.op = "b.cond" /\ word.b0 >= 16
    /\ X8664Word /\ word[1] \notin Front =>
         LET seen == X!Seen86(word) IN
         /\ seen.kind = KindOf86(shown)
         /\ shown.to.k = "rel" /\ seen.kind # "plain" =>
              seen.from = shown.to.from /\ seen.disp = shown.to.disp /\ seen.from = shown.len

(* Every instruction that is shown is shown with the length it has, so that the next
   one is read, and branched over, from its first byte; and the distances of its
   operand are counted from there.  A segment, lock or rep is shown as an instruction
   of its own. *)
WrongLength(p, s) ==
    LET n == CHOOSE i \in 0 .. 8 : p[i + 1] \notin Front /\ \A k \in 1 .. i : p[k] \in Front
        has(S) == \E i \in 1 .. n : p[i] \in S
        op == p[n + 1]
    IN  \/ p[1] \in {38, 46, 54, 62, 100, 101, 240, 242, 243}
        \/ s.op = "lea" /\ p[n + 2] >= 192           \* no such instruction
        \/ s.op = "movsxd"                          \* counts its prefix twice
        \/ has({102}) /\ op \in {o \in 0 .. 63 : o % 8 = 5} \cup {104, 105, 129, 169, 199, 247} \cup (184 .. 191)
        \/ has(72 .. 79) /\ op \in 184 .. 191       \* eight bytes are not read as such
        \/ has({103}) /\ op \in 160 .. 163
        \/ \E i \in 1 .. 4 : p[i] = 15 /\ p[i + 1] \in {31, 41}   \* nops and movaps are guessed
\* The relative places of these are counted from one byte too low.
LongOpcode(p) == \E i \in 1 .. 3 : p[i] = 15 /\ \A k \in 1 .. i - 1 : p[k] \in Front
LengthsTrue ==
    X8664Word /\ shown.op # "error" /\ ~WrongLength(word, shown) =>
      /\ shown.len = X!Length(word)
      /\ shown.to.k = "rel" => shown.to.from = shown.len
      /\ \A x \in {shown.to, shown.from} :
           x.k = "mem" => x.base # X!Rip \/ x.from = shown.len \/ LongOpcode(word)

Flipped(w, f, k) ==
    [w EXCEPT ![f] = IF (@ \div 2^k) % 2 = 1 THEN @ - 2^k ELSE @ + 2^k]

\* The fields of which the listing drops a bit or all.
Dropped(w, s) ==
    CASE s.op \in {"madd", "msub"} -> {"b22", "b21"}    \* so long multiplies look plain
      [] w.b24 = 26 /\ w.b22 = 3 /\ w.b21 = 0 /\ w.b30 = 0 -> {"b16"}  \* the second source
      [] s.op = "ldr_literal" -> {"b22"}                \* the last bit of the distance
      [] s.op \in {"str", "ldr"} -> {"b22"}
      [] s.op \in {"st", "ld"} -> {"b21"}
      [] s.op = "b.cond" -> {"b0"}
      [] s.op \in {"braa", "blraa", "braa_reg", "blraa_reg"} -> {"b21", "b5", "b0"}
      [] s.op \in {"csel", "csinc", "csinv", "csneg"} -> {"b29", "b10"}
      [] s.op \in {"ccmn", "ccmp"} -> {"b10", "b0"}
      [] s.op = "addg" -> {"b22", "b10"}
      [] s.op \in {"rmif", "whole"} -> {"b0"}
      [] s.rest[1] = "mask" -> IF s.sz = "x" THEN {"b22"} ELSE {"b22", "b21", "b10"}
      [] s.rest = <<"imm", 0>> \/ (w.b24 = 11 /\ w.b21 = 1) -> {"b22"}
      [] OTHER -> {}

(* Nothing else is lost in the listing: a word that is shown at all differs from one
   with any one bit changed, so that no field is read too narrow or from the wrong
   place, and no instruction is taken for another one tested before it. *)
NothingLost ==
    /\ Arm64Word /\ shown # Unknown =>
      \A f \in DOMAIN Width \ Dropped(word, shown) : \A k \in 0 .. Width[f] - 1 :
         disasm_arm64_one(Flipped(word, f, k)) # shown
    /\ tool = "disasm_riscv64" /\ shown # Blank =>
      \A f \in DOMAIN V!rv64r \ V!Dropped(word, shown) : \A k \in 0 .. V!rv64r[f] - 1 :
         V!disasm_riscv64_one(Flipped(word, f, k)) # shown
=============================================================================
