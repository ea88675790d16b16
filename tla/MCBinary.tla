------------------------------ MODULE MCBinary ------------------------------
(* All buffers of a few units for the walks; the forms of the lines, and the words
   around every boundary of every field, for the assemblers and disassemblers. *)
EXTENDS Binary

\* Branches to every place of the buffer and out of it; a plain instruction of two
\* units, which a branch may enter in the middle, stands for the others.
MCInstr ==
    [kind : {"cond", "jump", "call"}, size : {1}, to : 0 .. len - 1]
      \cup {[kind |-> "ret", size |-> 1, to |-> 0], [kind |-> "plain", size |-> 2, to |-> 0],
            [kind |-> "jump", size |-> 1, to |-> len]}

\* Lines of arm64: registers and numbers at both ends of their fields and beyond.
MCLine ==
    LET L(ops, ds, ns, hows, ms, amts) ==
            [op : ops, sz : {"x", "w"}, d : ds, n : ns, how : hows, m : ms, amt : amts]
        arith == {"add", "adds", "sub", "subs"}
        R == {0, 30, 31, 33, ZR}
    IN  L(arith, {0, 31, 33}, {1, 31, ZR}, {"imm"}, {0, 1, 4095, 4096, 4097, 16773120, 16777216}, {None})
        \cup L(arith, {0, 31}, {1, 31}, {"none", "tight"}, R, {None})
        \cup L(arith, {0, 31}, {1, 31}, {"<", ">", "lsl", "lsr", "asr"}, {2, 31, ZR}, {0, 4, 63, 64})
        \cup L(arith, {0, 31}, {1, 31}, {Extends[i] : i \in 1 .. 8}, {2, 33}, {None, 0, 7, 9})
        \cup L(arith, {0}, {1}, {"lsl", "asr"}, {2}, {None})
        \cup L({"cmp", "cmn", "mov", "orr"}, R, R, {"none"}, R, {None})
Tails == {<<0, 0, 1, 2>>, <<31, 0, 3, 0>>, <<31, 0, 30, 0>>, <<31, 2, 31, 31>>, <<31, 3, 7, 31>>, <<0, 2, 5, 13>>,
          <<0, 18, 5, 13>>, <<5, 33, 5, 13>>, <<15, 16, 31, 16>>, <<1, 23, 8, 1>>, <<20, 63, 31, 31>>, <<2, 11, 4, 3>>,
          <<3, 8, 0, 31>>, <<3, 15, 22, 31>>, <<12, 33, 28, 7>>}
MCWord ==
    {[b31 |-> h[1], b30 |-> h[2], b29 |-> h[3], b24 |-> k, b22 |-> b, b21 |-> c,
      b16 |-> t[1], b10 |-> t[2], b5 |-> t[3], b0 |-> t[4]] :
       h \in {0, 1} \X {0, 1} \X {0, 1}, k \in 8 .. 31, b \in 0 .. 3, c \in {0, 1}, t \in Tails}
    \cup {[NoWord EXCEPT !.b31 = s, !.b24 = 22] : s \in {0, 1}}
MCRest86 == <<17, 34, 51, 68, 17, 34, 51, 68, 17>>
MCPrefix86 ==
    LET pre == {<< >>, <<64>>, <<65>>, <<72>>, <<79>>, <<102>>, <<103>>, <<102, 72>>, <<102, 103>>}
    IN  pre \cup {p \o <<15>> : p \in pre} \cup {<<102, 46, 15>>, <<102, 102, 46, 15>>}
MCModrm86 == {0, 5, 4, 12, 36, 29, 68, 84, 132, 108, 156, 164, 192, 200, 208, 224, 232, 248, 255}
MCSum86 ==
    LET r == {X!RegTerm(n) : n \in {0, 4, 5, 12}}
        c == {X!NumTerm(v) : v \in {8, 200, 4096}}
        p == {X!Product(1, 2), X!Product(4, 4), X!Product(9, 3), X!Product(1, 8)}
        texts == {<<a>> : a \in r \cup c \cup p} \cup (r \X c) \cup (c \X r) \cup (p \X c) \cup (c \X p)
                 \cup (r \X p) \cup (r \X r) \cup (r \X r \X c) \cup (c \X r \X p) \cup (p \X r \X c)
    IN  {X!Sum(t) : t \in texts}
MCPlain86 == {X!Reg(s, n) : s \in {8, 16, 32, 64}, n \in {0, 3, 5, 7, 9}}
             \cup {X!Num(v) : v \in {0, 5, 127, 200, 300, 70000}}
MCOther86 == {X!Reg(64, 0), X!Reg(64, 6), X!Reg(32, 1), X!Num(5), X!Num(300)}
MCRvLine ==
    LET R == {0, 1, 31, 33, V!Named}
        N == {0, 31, 32, 320, 2016, 2048, 4096}
        L(ops, s0s, s1s, imms) ==
            [op : ops, d : {1, 31, 32}, s0 : s0s, s1 : s1s, minus : BOOLEAN, imm : imms]
    IN  L({"li"}, {0}, {V!None}, N) \cup L({"mv"}, R, {V!None}, {V!None})
        \cup L({"addi"}, R, R \cup {V!None}, N \cup {V!None})
MCRvWord ==
    [opcode : {0, 3, 19, 35, 51, 99, 103, 111}, rd : {0, 1, 31}, funct3 : 0 .. 7, rs1 : {0, 1, 18},
     rs2 : {0, 5}, funct7 : {0, 1, 5, 32, 64, 96, 127}]
MCOp86 == {"mov", "add", "sub", "cmp", "or", "and", "xor", "test", "xchg", "imul", "lea"}
=============================================================================
