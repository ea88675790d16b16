-------------------------------- MODULE Risc --------------------------------
(***************************************************************************)
(* Instructions of riscv64 as lv1/assembly/cpu/riscv64.c writes and reads  *)
(* them, and what mips64.c does of the kind.                               *)
(*                                                                         *)
(* Every word is taken for the form with two source registers: where an    *)
(* instruction has a number in place of the second one, its low five bits  *)
(* are shown as that register and funct7 as multiples of 32.               *)
(***************************************************************************)
EXTENDS Integers, Sequences

None == -1      \* a number left out
Named == 100    \* a register spelled by another name than x0 to x31

rv64r == [opcode |-> 7, rd |-> 5, funct3 |-> 3, rs1 |-> 5, rs2 |-> 5, funct7 |-> 7]
riscv64_encode(opcode, funct3, rd, rs1, rs2, funct7) ==
    LET v == [opcode |-> opcode, rd |-> rd, funct3 |-> funct3, rs1 |-> rs1, rs2 |-> rs2, funct7 |-> funct7]
    IN  [f \in DOMAIN rv64r |-> v[f] % 2^rv64r[f]]

Show(op, regs, rest) == [op |-> op, sz |-> "x", sign |-> "none", regs |-> regs, rest |-> rest]
Raw(p) == Show("raw", <<p.rd, p.rs1, p.rs2>>, <<"fields", p.opcode, p.funct3, p.funct7>>)
Spelled(name, p) == Show(name, <<p.rd, p.rs1, p.rs2>>, <<"funct7", p.funct7>>)

----------------------------------------------------------------------------
(* What the disassembler shows. *)

Loads == <<"lb", "lh", "lw", "ld", "lbu", "lhu", "lwu">>
ShownLoad(p) == IF p.funct3 < 7 THEN Spelled(Loads[p.funct3 + 1], p) ELSE Raw(p)

Stores == <<"sb", "sh", "sw", "sd">>
ShownStore(p) == IF p.funct3 < 4 THEN Spelled(Stores[p.funct3 + 1], p) ELSE Raw(p)

\* addi has its sign shown, li has not.
Size(p) == IF p.funct7 < 64 THEN 32 * p.funct7 ELSE (128 - p.funct7) * 32
ShownAddi(p) ==
    LET imm == IF p.funct7 < 64 THEN Size(p) ELSE -Size(p) IN
    CASE p.rs1 = 0 /\ p.rs2 = 0 -> Show("li", <<p.rd>>, <<"imm", Size(p)>>)
      [] p.rs1 # 0 /\ p.rs2 = 0 /\ p.funct7 = 0 -> Show("mv", <<p.rd, p.rs1>>, <<"none">>)
      [] p.rs1 # 0 /\ p.rs2 = 0 /\ p.funct7 # 0 -> Show("addi", <<p.rd, p.rs1>>, <<"imm", imm>>)
      [] p.rs2 # 0 -> Show("addi", <<p.rd, p.rs1, p.rs2>>, <<"imm", imm>>)
Immediates == <<"slli", "slti", "sltiu", "xori", "sr?i", "ori", "andi">>
ShownImmediate(p) == IF p.funct3 = 0 THEN ShownAddi(p) ELSE Spelled(Immediates[p.funct3], p)

\* By funct7; the others are shown without saying which funct3 it was.
Plain == <<"add", "sll", "slt", "sltu", "xor", "srl", "or", "and">>
Multiply == <<"mul", "mulh", "mulhsu", "mulhu", "div", "divu", "rem", "remu">>
Registers(name, p) == Show(name, <<p.rd, p.rs1, p.rs2>>, <<"none">>)
ShownRegisters(p) ==
    CASE p.funct7 = 0 -> Registers(Plain[p.funct3 + 1], p)
      [] p.funct7 = 1 -> Registers(Multiply[p.funct3 + 1], p)
      [] p.funct7 = 32 /\ p.funct3 = 0 -> Registers("sub", p)
      [] p.funct7 = 32 /\ p.funct3 = 5 -> Registers("sra", p)
      [] OTHER -> Spelled("?", p)

ret == riscv64_encode(103, 0, 0, 1, 0, 0)
disasm_riscv64_one(p) ==
    CASE p.opcode = 3 -> ShownLoad(p)
      [] p.opcode = 19 -> ShownImmediate(p)
      [] p.opcode = 35 -> ShownStore(p)
      [] p.opcode = 51 -> ShownRegisters(p)
      [] p = ret -> Show("ret", << >>, <<"none">>)
      [] OTHER -> Raw(p)

----------------------------------------------------------------------------
(* The assembler: "li x9 = 96", "mv x13 = x20", "addi x4 = x3 + x2 + 320". *)

Tok(c, v) == [c |-> c, v |-> v]
Sym(c) == Tok(c, -1)
Register(r) == IF r = Named THEN Sym("none") ELSE Tok("x", r)
Amount(l) == (IF l.minus THEN <<Sym("-")>> ELSE << >>) \o <<Tok("digit", l.imm)>>
assembly_oneline(l) ==
    LET start == <<Register(l.d), Sym("=")>> IN
    CASE l.op = "li" -> start \o Amount(l)
      [] l.op = "mv" -> start \o <<Register(l.s0)>>
      [] l.op = "addi" ->
           start \o <<Register(l.s0)>>
             \o (IF l.s1 = None THEN << >> ELSE <<Sym("+"), Register(l.s1)>>)
             \o (IF l.imm = None THEN << >> ELSE <<Sym(IF l.minus THEN "-" ELSE "+"), Tok("digit", l.imm)>>)

\* buf[i] is token i behind the mnemonic; of the sign between two nothing is read.
assembly_riscv64_addi(name, buf) ==
    LET d0 == buf[0].v  s0 == buf[2].v IN
    CASE name = "li" -> riscv64_encode(19, 0, d0, 0, 0, s0 \div 32)
      [] name = "mv" -> riscv64_encode(19, 0, d0, s0, 0, 0)
      [] name = "addi" /\ buf[4].c = "digit" -> riscv64_encode(19, 0, d0, s0, 0, buf[4].v \div 32)
      [] name = "addi" /\ buf[4].c # "digit" -> riscv64_encode(19, 0, d0, s0, buf[4].v, buf[6].v \div 32)
assembly_compile_riscv64(l, junk) ==
    LET toks == assembly_oneline(l)
        buf == [i \in 0 .. 6 |-> IF i < Len(toks) THEN toks[i + 1] ELSE Tok("x", junk)]
    IN  assembly_riscv64_addi(l.op, buf)

\* mips64 shows the word as it is, and of a line the operands it would use.
disasm_mips64_one(word) == Raw(word)
assembly_mips64_mov(toks) == <<toks[1], toks[3]>>
assembly_mips64_add(toks) == <<toks[1], toks[3], toks[5]>>

----------------------------------------------------------------------------
(* What the properties compare with: the sum that goes into a register. *)

Sum(d, regs, imm) == [d |-> d, regs |-> SelectSeq(regs, LAMBDA r : r \notin {0, None}), imm |-> imm]
Effect(s) == Sum(s.regs[1], Tail(s.regs), IF s.rest[1] = "imm" THEN s.rest[2] ELSE 0)
Meant(l) ==
    LET imm == IF l.op = "mv" \/ l.imm = None THEN 0 ELSE IF l.minus THEN -l.imm ELSE l.imm
        regs == CASE l.op = "li" -> << >> [] l.op = "mv" -> <<l.s0>> [] OTHER -> <<l.s0, l.s1>>
    IN  Sum(l.d, regs, imm)

\* What is assembled to something else without a word.
Misread(l, junk) ==
    \/ \E r \in {l.d} \cup (IF l.op = "li" THEN {} ELSE {l.s0}) \cup (IF l.op = "addi" THEN {l.s1} ELSE {}) : r > 31
    \/ l.op # "mv" /\ l.imm % 32 # 0 /\ l.imm # None    \* five bits are dropped
    \/ l.op # "mv" /\ l.imm >= 2^11                     \* shown as below zero, and further cut
    \/ l.op # "mv" /\ l.minus                           \* the sign is not read
    \/ l.op = "addi" /\ l.s1 = None /\ l.imm = None     \* read past the last token
    \/ l.op = "addi" /\ l.imm = None /\ junk >= 32

\* Fields of which a bit is dropped: a sign, and the funct3 of what is not known.
Dropped(p, s) ==
    CASE s.op = "li" -> {"funct7"} [] s.op = "?" -> {"funct3"} [] OTHER -> {}
=============================================================================
