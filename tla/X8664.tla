------------------------------- MODULE X8664 -------------------------------
(***************************************************************************)
(* Instructions of x86-64 as lv1/assembly/cpu/x8664.c reads and writes     *)
(* them, and as the walks of lv1/analyse look at them.                     *)
(*                                                                         *)
(* An instruction is a sequence of bytes.  What is shown is how many bytes *)
(* it takes, the operation and two operands, the one written to first;     *)
(* numbers are kept as the bytes they stand in.  An operation that is      *)
(* shown without operands is known by its bytes.                           *)
(***************************************************************************)
EXTENDS Integers, Sequences

None == -1
Rip == -2

at(p, i) == IF i < Len(p) THEN p[i + 1] ELSE 0
From(p, k) == SubSeq(p, k + 1, Len(p))
Take(p, off, n) == [i \in 1 .. n |-> at(p, off + i - 1)]

mod(m) == m \div 64
bit3(m) == (m \div 8) % 8
bit0(m) == m % 8

NoOperand == [k |-> "none"]
Reg(size, n) == [k |-> "reg", size |-> size, n |-> n]
Imm(bytes) == [k |-> "imm", bytes |-> bytes]
\* A place relative to the instruction: the distance is counted from byte "from" of it.
Rel(from, disp) == [k |-> "rel", from |-> from, disp |-> disp]

Show86(len, op, to, from) == [len |-> len, op |-> op, to |-> to, from |-> from]
Plain86(len, bytes) == Show86(len, "plain", Imm(bytes), NoOperand)
Unknown86 == Show86(1, "error", NoOperand, NoOperand)
Refused == Show86(0, "none", NoOperand, NoOperand)

----------------------------------------------------------------------------
(* The prefixes, and the registers they make of three bits. *)

Prefixes(pre) ==
    LET has(S) == \E i \in DOMAIN pre : pre[i] \in S
        rex(bit) == \E i \in DOMAIN pre : pre[i] \in 64 .. 79 /\ (pre[i] \div bit) % 2 = 1
        ext(bit) == IF rex(bit) THEN 8 ELSE 0
    IN  [size |-> IF rex(8) THEN 64 ELSE IF has({102}) THEN 16 ELSE 32,
         word |-> has({102}), addr |-> IF has({103}) THEN 32 ELSE 64,
         r |-> ext(4), x |-> ext(2), b |-> ext(1), rex |-> has({64})]
NoPrefix == Prefixes(<< >>)

\* al..bh: 16..19 stand for ah..bh.  A byte register takes no bit from the prefix.
Reg8(fx, n) == Reg(8, IF n >= 4 /\ ~fx.rex THEN n + 12 ELSE n)

\* The memory operand of a modrm byte, p[1], and how long it makes the instruction.
disasm_x8664_sib(p, at0, fx) ==
    LET m == at(p, 1)
        s == at(p, 2)
        b == IF bit0(m) = 4 THEN bit0(s) + fx.b ELSE bit0(m) + fx.b
        i == IF bit0(m) # 4 \/ bit3(s) = 4 THEN None ELSE bit3(s) + fx.x
        Mem(len, base, dlen) ==
            [len |-> len,
             mem |-> [k |-> "mem", size |-> fx.addr, base |-> base, index |-> i,
                      scale |-> IF i = None THEN 0 ELSE 2^mod(s),
                      disp |-> Take(p, len - dlen, dlen), from |-> at0 + 6]]
        more == IF bit0(m) = 4 THEN 1 ELSE 0
    IN  CASE m >= 128 -> Mem(6 + more, b, 4)
          [] m >= 64 /\ m < 128 -> Mem(3 + more, b, 1)
          [] m < 64 /\ bit0(m) = 5 -> Mem(6, Rip, 4)
          [] m < 64 /\ bit0(m) = 4 /\ bit0(s) = 5 -> Mem(7, None, 4)
          [] OTHER -> Mem(2 + more, b, 0)

\* A register if the modrm byte says so, memory otherwise.
RM(p, at0, fx, reg) ==
    IF mod(at(p, 1)) = 3 THEN [len |-> 2, mem |-> reg] ELSE disasm_x8664_sib(p, at0, fx)

\* With n bytes of a number behind the operand, from where a relative place is counted.
Behind_Mutant(rm, n) == rm     \* the same with a bug in it, which the run finds
Behind(rm, n) ==
    IF rm.mem.k = "mem" THEN [rm EXCEPT !.mem.from = @ + n] ELSE rm

----------------------------------------------------------------------------
(* One byte, but for rep in front of 0f. *)

OneByte ==
    {38, 46, 54, 62} \cup (80 .. 95) \cup {100, 101} \cup (108 .. 111) \cup (144 .. 153)
    \cup (155 .. 159) \cup (164 .. 167) \cup (170 .. 175)
    \cup {195, 201, 203, 204, 207, 214, 215} \cup (236 .. 242) \cup {243, 244, 245}
    \cup (248 .. 253)
disasm_x8664_1b(p) ==
    IF at(p, 0) \in OneByte /\ ~(at(p, 0) = 243 /\ at(p, 1) = 15)
    THEN Show86(1, IF at(p, 0) = 195 THEN "ret" ELSE "plain", Imm(Take(p, 0, 1)), NoOperand)
    ELSE Refused

(* The instructions of disasm_x8664_normal: p is at the opcode, j bytes behind the
   start, fx what the j bytes in front of it say.  Lengths leave these j bytes out. *)

Word0(fx, p) == Reg(fx.size, bit0(at(p, 1)) + fx.b)
Word3(fx, p) == Reg(fx.size, bit3(at(p, 1)) + fx.r)

Arith == <<"add", "or", "adc", "sbb", "and", "sub", "xor", "cmp">>
\* The eight of them differ in nothing else: the operand of the modrm byte written,
\* or read, or the accumulator and a number.
ArithTo(name, m, r) == Show86(m.len, name, m.mem, r)
ArithFrom(name, m, r) == Show86(m.len, name, r, m.mem)
ArithAccumulator(p, name) ==
    IF at(p, 0) % 8 = 4 THEN Show86(2, name, Reg(8, 0), Imm(Take(p, 1, 1)))
    ELSE Show86(5, name, Reg(32, 0), Imm(Take(p, 1, 4)))
ShownArith(p, j, fx) ==
    LET op == at(p, 0)
        name == Arith[op \div 8 + 1]
        m == RM(p, j, fx, IF op % 2 = 0 THEN Reg8(fx, bit0(at(p, 1))) ELSE Word0(fx, p))
        r == IF op % 2 = 0 THEN Reg8(fx, bit3(at(p, 1))) ELSE Word3(fx, p)
    IN  CASE op % 8 < 2 -> ArithTo(name, m, r)
          [] op % 8 \in {2, 3} -> ArithFrom(name, m, r)
          [] op % 8 \in {4, 5} -> ArithAccumulator(p, name)

\* 63, 68..6b: movsxd counts the prefix, which its caller counts too.
ShownExtend(p, j, fx) ==
    LET m == RM(p, j, fx, Reg(32, bit0(at(p, 1)) + fx.b))
    IN  Show86(j + m.len, "movsxd", Word3(fx, p), m.mem)
ShownPush(p) ==
    IF at(p, 0) = 104 THEN Show86(5, "push", Imm(Take(p, 1, 4)), NoOperand)
    ELSE Show86(2, "push", Imm(Take(p, 1, 1)), NoOperand)
ShownImul(p, j, fx) ==
    LET n == IF at(p, 0) = 105 THEN 4 ELSE 1
        m == Behind(RM(p, j, fx, Word0(fx, p)), n)
    IN  Show86(m.len + n, "imul", Word3(fx, p), m.mem)

ShownBranch(p, j) ==
    LET op == at(p, 0)
        name == CASE op \in 112 .. 127 -> "j" [] op \in 224 .. 227 -> "loop"
                  [] op = 232 -> "call" [] OTHER -> "jmp"
        n == IF op \in {232, 233} THEN 4 ELSE 1
    IN  Show86(1 + n, name, Rel(j + 1 + n, Take(p, 1, n)), Imm(<<op>>))

\* 80, 81, 83, c0, c1: an operation named by bits 3..5 of the modrm byte, with a number.
Shift == <<"rol", "ror", "rcl", "rcr", "shl", "shr", "error", "sar">>
ShownGroup(p, j, fx) ==
    LET op == at(p, 0)
        m == at(p, 1)
        n == IF op = 129 THEN 4 ELSE 1
        name == IF op >= 192 THEN Shift[bit3(m) + 1] ELSE Arith[bit3(m) + 1]
        reg == CASE op = 128 /\ m \in (192 .. 199) \cup (232 .. 239) -> Reg8(NoPrefix, bit0(m))
                 [] op = 192 -> Reg8(fx, bit0(m))
                 [] OTHER -> Word0(fx, p)
        rm == Behind(RM(p, j, fx, reg), n)
    IN  Show86(rm.len + n, name, rm.mem, Imm(Take(p, rm.len, n)))

\* 84..8b: test, xchg, and mov in both directions.
ShownMove(p, j, fx) ==
    LET op == at(p, 0)
        m == RM(p, j, fx, IF op % 2 = 0 THEN Reg8(fx, bit0(at(p, 1))) ELSE Word0(fx, p))
        r == IF op % 2 = 0 THEN Reg8(fx, bit3(at(p, 1))) ELSE Word3(fx, p)
    IN  CASE op < 136 -> Show86(m.len, IF op < 134 THEN "test" ELSE "xchg", r, m.mem)
          [] op \in {136, 137} -> Show86(m.len, "mov", m.mem, r)
          [] op \in {138, 139} -> Show86(m.len, "mov", r, m.mem)

ShownLea(p, j, fx) ==
    LET m == disasm_x8664_sib(p, j, fx) IN Show86(m.len, "lea", Word3(fx, p), m.mem)

\* a0..a9, b0..bf: the accumulator, and a number into a register.
ShownAccumulator(p) ==
    LET op == at(p, 0) IN
    CASE op < 164 -> Show86(9, "mov", Reg(IF op % 2 = 0 THEN 8 ELSE 32, 0), Imm(Take(p, 1, 8)))
      [] op = 168 -> Show86(2, "test", Reg(8, 0), Imm(Take(p, 1, 1)))
      [] op = 169 -> Show86(5, "test", Reg(32, 0), Imm(Take(p, 1, 4)))
ShownLoad(p, fx) ==
    LET op == at(p, 0) IN
    IF op < 184
    THEN Show86(2, "mov", IF fx.word THEN Reg(16, op % 8) ELSE Reg8(fx, op % 8), Imm(Take(p, 1, 1)))
    ELSE Show86(5, "mov", Reg(fx.size, (op % 8) + fx.b), Imm(Take(p, 1, 4)))

\* c6, c7: a number into memory, or with c7 into 64 bits.
ShownStore(p, j, fx) ==
    LET op == at(p, 0)
        m == at(p, 1)
        n == IF op = 198 THEN 1 ELSE 4
        rm == Behind(disasm_x8664_sib(p, j, fx), n)
    IN  CASE m = 248 -> Show86(2 + n, "x", Imm(Take(p, 2, n)), NoOperand)
          [] m < 192 /\ bit3(m) = 0 ->
               Show86(rm.len + n, "mov", rm.mem, Imm(Take(p, rm.len, n)))
          [] m \in 192 .. 199 ->
               Show86(2 + n, "mov", IF op = 198 THEN Reg8(fx, bit0(m)) ELSE Reg(64, bit0(m)),
                      Imm(Take(p, 2, n)))
          [] OTHER -> Refused

ShownUnary == <<"test", "error", "not", "neg", "mul", "imul", "div", "idiv">>
ShownF6F7(p, j, fx) ==
    LET op == at(p, 0)
        n == IF op = 246 THEN 1 ELSE 4
        kind == bit3(at(p, 1))
        rm == RM(p, j, fx, IF op = 246 THEN Reg8(fx, bit0(at(p, 1))) ELSE Word0(fx, p))
    IN  CASE kind = 0 -> Show86(rm.len + n, "test", Behind(rm, n).mem, Imm(Take(p, rm.len, n)))
          [] kind = 1 -> Refused
          [] OTHER -> Show86(rm.len, ShownUnary[kind + 1], rm.mem, NoOperand)

ShownFEFF(p, j, fx) ==
    LET op == at(p, 0)
        kind == bit3(at(p, 1))
        rm == RM(p, j, fx, IF op = 254 THEN Reg8(fx, bit0(at(p, 1))) ELSE Word0(fx, p))
        name == <<"inc", "dec", "call*", "call*", "jmp*", "jmp*", "push">>[kind + 1]
    IN  IF kind = 7 \/ (op = 254 /\ kind > 1) \/ (mod(at(p, 1)) = 3 /\ kind \in {3, 5})
        THEN Refused ELSE Show86(rm.len, name, rm.mem, NoOperand)

Fixed == [c \in {194, 200, 202, 205, 228, 229, 230, 231} |->
            IF c \in {194, 202} THEN 3 ELSE IF c = 200 THEN 4 ELSE 2]

disasm_x8664_normal(pre, p) ==
    LET fx == Prefixes(pre)
        j == Len(pre)
        op == at(p, 0)
    IN  CASE op < 64 /\ op % 8 < 6 -> ShownArith(p, j, fx)
          [] op = 99 /\ j > 0 -> ShownExtend(p, j, fx)
          [] op \in {104, 106} -> ShownPush(p)
          [] op \in {105, 107} -> ShownImul(p, j, fx)
          [] op \in (112 .. 127) \cup (224 .. 227) \cup {232, 233, 235} -> ShownBranch(p, j)
          [] op \in {128, 129, 131, 192, 193} -> ShownGroup(p, j, fx)
          [] op \in 132 .. 139 -> ShownMove(p, j, fx)
          [] op = 141 -> ShownLea(p, j, fx)
          [] op \in (160 .. 163) \cup {168, 169} -> ShownAccumulator(p)
          [] op \in 176 .. 191 -> ShownLoad(p, fx)
          [] op \in {198, 199} -> ShownStore(p, j, fx)
          [] op \in DOMAIN Fixed -> Plain86(Fixed[op], Take(p, 0, Fixed[op]))
          [] op = 243 /\ Take(p, 1, 3) = <<15, 30, 250>> -> Plain86(4, Take(p, 0, 4))
          [] op \in {246, 247} -> ShownF6F7(p, j, fx)
          [] op \in {254, 255} -> ShownFEFF(p, j, fx)
          [] OTHER -> Refused

----------------------------------------------------------------------------
(* Two bytes, p at 0f; the length leaves the prefix out, if there is one. *)

Machine == (48 .. 53) \cup {55, 57, 60, 61}      \* wrmsr to cpu_read
TwoByte == (5 .. 9) \cup {11, 14} \cup Machine \cup {119} \cup (160 .. 162) \cup (168 .. 170)
\* Two bytes and a modrm byte of one of these values.
ThreeByte ==
    {<<1, 7>>, <<1, 15>>, <<166, 192>>, <<166, 200>>, <<166, 208>>}
    \cup ({167} \X {192, 200, 208, 216, 224, 232}) \cup ((32 .. 35) \X (192 .. 255))
    \cup ((144 .. 159) \X (192 .. 199)) \cup ({190} \X {10, 200}) \cup ({199} \X (240 .. 255))
\* The sizes a nop is known by.
NopSize(m) == CASE m = 0 -> 3 [] m = 132 -> 8 [] m = 128 -> 7 [] m = 68 -> 5 [] OTHER -> 4

\* movaps into a place above the stack pointer: five bytes, the far ones too.
MovapsFar == {156, 164, 172, 180, 188}
ShownMovaps(p) ==
    IF at(p, 2) \in {68, 76, 84} \cup MovapsFar /\ at(p, 3) = 36
    THEN Plain86(5, Take(p, 0, 5)) ELSE Refused

\* cmov, imul, movzx: operands of the plain prefixless kind.  The opcode has two bytes,
\* so that a relative place is counted from one byte too low.
Two(name, p, at0, reg) ==
    LET m == RM(From(p, 1), at0, NoPrefix, reg)
    IN  Show86(1 + m.len, name, Reg(32, bit3(at(p, 2))), m.mem)
ShownCmov(p, at0) == Two("cmov", p, at0, Reg(32, bit0(at(p, 2))))
ShownMovzx(p, at0) ==
    Two("movzx", p, at0, IF at(p, 1) = 182 THEN Reg8(NoPrefix, bit0(at(p, 2))) ELSE Reg(16, bit0(at(p, 2))))
\* imul looks at the first byte of the instruction as a prefix, also where there is none.
ShownImul2(first, p, at0) ==
    LET r == IF (first \div 4) % 2 = 1 THEN 8 ELSE 0
        b == IF first % 2 = 1 THEN 8 ELSE 0
        m == RM(From(p, 1), at0, NoPrefix, Reg(64, bit0(at(p, 2)) + b))
    IN  Show86(1 + m.len, "imul", Reg(64, bit3(at(p, 2)) + r), m.mem)

\* From b8 on.
ShownHigh(first, p, at0) ==
    LET op == at(p, 1) IN
    CASE op = 184 -> Show86(6, "jmpe", Rel(at0 + 6, Take(p, 2, 4)), NoOperand)
      [] op \in 200 .. 207 -> Show86(2, "bswap", Reg(IF first = 72 THEN 64 ELSE 32, op % 8), NoOperand)
      [] op = 255 -> Plain86(2, Take(p, 0, 2))
      [] OTHER -> Unknown86

disasm_x8664_0f(first, p, at0) ==
    LET op == at(p, 1) IN
    CASE op \in TwoByte -> Plain86(2, Take(p, 0, 2))
      [] <<op, at(p, 2)>> \in ThreeByte -> Plain86(3, Take(p, 0, 3))
      [] op = 31 -> Plain86(NopSize(at(p, 2)), Take(p, 0, 2))
      [] op = 41 /\ ShownMovaps(p) # Refused -> ShownMovaps(p)
      [] op \in 64 .. 79 -> ShownCmov(p, at0)
      [] op \in {182, 183} -> ShownMovzx(p, at0)
      [] op \in 128 .. 143 -> Show86(6, "j", Rel(at0 + 6, Take(p, 2, 4)), Imm(<<op - 16>>))
      [] op = 175 -> ShownImul2(first, p, at0)
      [] OTHER -> ShownHigh(first, p, at0)

\* With the bytes in front; nothing of the kind is an error of one byte.
Prefixed(s, j) == IF s = Refused THEN Unknown86 ELSE [s EXCEPT !.len = @ + j]

disasm_x8664_4x(p) ==
    LET op == at(p, 1) IN
    CASE at(p, 0) = 64 /\ op = 86 -> Plain86(2, Take(p, 0, 2))
      [] at(p, 0) = 65 /\ op \in 80 .. 95 -> Plain86(2, Take(p, 0, 2))
      [] op = 152 -> Plain86(2, Take(p, 0, 2))
      [] op = 15 -> Prefixed(disasm_x8664_0f(at(p, 0), From(p, 1), 1), 1)
      [] OTHER -> Prefixed(disasm_x8664_normal(Take(p, 0, 1), From(p, 1)), 1)

disasm_x8664_66(p) ==
    LET more(i) == at(p, i) \in {102, 103} \cup (64 .. 79)
        j == CHOOSE k \in 1 .. 8 : (k = 8 \/ ~more(k)) /\ \A i \in 1 .. k - 1 : more(i)
    IN  CASE Take(p, 1, 3) = <<15, 0, 200>> -> Plain86(4, Take(p, 0, 4))
          [] Take(p, 1, 2) = <<15, 31>> -> Plain86(NopSize(at(p, 3)) + 1, Take(p, 0, 3))
          [] Take(p, 1, 4) = <<102, 46, 15, 31>> -> Plain86(11, Take(p, 0, 5))
          [] Take(p, 1, 3) = <<46, 15, 31>> -> Plain86(10, Take(p, 0, 4))
          [] at(p, 1) = 144 -> Plain86(2, Take(p, 0, 2))
          [] OTHER -> Prefixed(disasm_x8664_normal(Take(p, 0, j), From(p, j)), j)

disasm_x8664_67(p) == Prefixed(disasm_x8664_normal(Take(p, 0, 1), From(p, 1)), 1)

disasm_x8664_one(p) ==
    LET one == disasm_x8664_1b(p)
        op == at(p, 0)
    IN  CASE one # Refused -> one
          [] one = Refused /\ op = 15 -> disasm_x8664_0f(op, p, 0)
          [] one = Refused /\ op \in 64 .. 79 -> disasm_x8664_4x(p)
          [] one = Refused /\ op = 102 -> disasm_x8664_66(p)
          [] one = Refused /\ op = 103 -> disasm_x8664_67(p)
          [] OTHER -> Prefixed(disasm_x8664_normal(<< >>, p), 0)
=============================================================================
