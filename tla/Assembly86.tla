----------------------------- MODULE Assembly86 -----------------------------
(***************************************************************************)
(* The assembler of lv1/assembly/cpu/x8664.c, over the instructions of     *)
(* X8664.  A line is an operation and two operands: a register, a number,  *)
(* or the sum in brackets that makes an address.                           *)
(*                                                                         *)
(* The bytes are made in an array that is not cleared, on a stack that is  *)
(* not cleared either: what no statement writes reads as junk.             *)
(***************************************************************************)
EXTENDS X8664

Num(v) == [k |-> "num", v |-> v]
Sum(terms) == [k |-> "sum", terms |-> terms]
\* The terms of a sum.
RegTerm(n) == [t |-> "reg", n |-> n, v |-> 0]
NumTerm(v) == [t |-> "num", n |-> 0, v |-> v]
Product(n, v) == [t |-> "prod", n |-> n, v |-> v]

Typed(kind, terms) == SelectSeq(terms, LAMBDA x : x.t = kind)
Shape(terms) == <<Len(Typed("prod", terms)), Len(Typed("reg", terms)), Len(Typed("num", terms))>>

Td(s, i, b, d) == [s |-> s, i |-> i, b |-> b, d |-> d]

\* Which term is what, by the kinds of the terms, in whatever order they are typed.
OneTerm(terms) ==
    CASE Shape(terms) = <<0, 0, 1>> -> Td(0, None, None, terms[1].v)
      [] Shape(terms) = <<0, 1, 0>> -> Td(0, None, terms[1].n, None)
\* Two of them, or a product.  Nothing is read of two registers without a number.
TwoTerms(p, r, c, junk) ==
    CASE <<Len(p), Len(r), Len(c)>> = <<1, 0, 0>> -> Td(p[1].v, p[1].n, None, None)
      [] <<Len(p), Len(r), Len(c)>> = <<0, 1, 1>> -> Td(0, None, r[1].n, c[1].v)
      [] <<Len(p), Len(r), Len(c)>> = <<0, 2, 0>> -> Td(junk, None, junk, junk)
ThreeTerms(p, r, c) ==
    CASE p # << >> /\ r = << >> -> Td(p[1].v, p[1].n, None, c[1].v)
      [] p # << >> /\ c = << >> -> Td(p[1].v, p[1].n, r[1].n, None)
      [] p = << >> -> Td(1, r[1].n, r[2].n, c[1].v)
FourTerms(p, r, c) == Td(p[1].v, p[1].n, r[1].n, c[1].v)
\* A product is two terms of the source.
x8664_scaleindexbaseimm(terms, junk) ==
    LET p == Typed("prod", terms)
        r == Typed("reg", terms)
        c == Typed("num", terms)
        n == Len(terms) + Len(p)
    IN  CASE n = 1 -> OneTerm(terms)
          [] n = 2 -> TwoTerms(p, r, c, junk)
          [] n = 3 -> ThreeTerms(p, r, c)
          [] n = 4 -> FourTerms(p, r, c)

\* whichreg, and the logarithm of the scale.
Log2 == [v \in {1, 2, 4, 8} |-> CASE v = 1 -> 0 [] v = 2 -> 1 [] v = 4 -> 2 [] v = 8 -> 3]
get_reg_or_sib(x, junk) ==
    IF x.k # "sum" THEN x
    ELSE LET td == x8664_scaleindexbaseimm(x.terms, junk) IN
         [k |-> "sib", td |-> [td EXCEPT !.s = IF @ \in DOMAIN Log2 THEN Log2[@] ELSE @]]

----------------------------------------------------------------------------
(* The bytes. *)

Bit(v, one) == IF one % 2 = 1 /\ v % 2 = 0 THEN v + 1 ELSE v
\* The three fields are or-ed together: a register above seven runs into the next field.
ModRM(top, reg, rm) == 64 * Bit(top % 4, reg \div 8) + 8 * Bit(reg % 8, rm \div 8) + (rm % 8)

Byte(v) == v % 256
Int4(v) == [i \in 1 .. 4 |-> (v \div 256^(i - 1)) % 256]

(* modrm_sib_1dstnsrc and modrm_sib_ndst1src, which differ in the names only. *)
modrm_sib(reg, td) ==
    LET d == IF td.d = None THEN 0 ELSE td.d IN
    CASE td.i = None /\ td.b = None -> <<ModRM(0, reg, 4), 37>> \o Int4(d)
      [] td.i = None /\ td.b # None /\ td.d = None ->
           IF td.b = 5 THEN <<ModRM(1, reg, 5), 0>> ELSE <<ModRM(0, reg, td.b)>>
      [] td.i = None /\ td.b # None /\ td.d # None ->
           IF d < 256 THEN <<ModRM(1, reg, td.b), d>> ELSE <<ModRM(2, reg, td.b)>> \o Int4(d)
      [] td.i # None /\ td.b = None -> <<ModRM(0, reg, 4), ModRM(td.s, td.i, 5)>> \o Int4(d)
      [] OTHER -> <<ModRM(2, reg, 4), ModRM(td.s, td.i, td.b)>> \o Int4(d)

\* What both operands are: the size of a register, 0 for a number, 99 for an address.
Kind(x) == CASE x.k = "reg" -> x.size [] x.k = "num" -> 0 [] x.k = "sib" -> 99

assembly_x8664_opcode(opcode, src, dst) ==
    LET size == Kind(dst)
        pre == CASE size = 16 -> <<102>> [] size = 64 -> <<72>> [] OTHER -> << >>
        or2 == IF (opcode \div 2) % 2 = 1 THEN opcode ELSE opcode + 2
    IN  CASE size \in {16, 32, 64} /\ Kind(src) = size ->
               pre \o <<opcode, ModRM(3, src.n, dst.n)>>
          [] size = 8 /\ Kind(src) = 0 ->
               IF dst.n = 0 THEN <<52, Byte(src.v)>> ELSE <<128, ModRM(3, 6, dst.n), Byte(src.v)>>
          [] size \in {16, 32, 64} /\ Kind(src) = 0 ->
               pre \o <<opcode, ModRM(3, 0, dst.n), Byte(src.v)>>
          [] size = 64 /\ Kind(src) = 99 -> <<72, or2>> \o modrm_sib(dst.n, src.td)
          [] size = 99 /\ Kind(src) = 64 -> <<72, opcode>> \o modrm_sib(src.n, dst.td)
          [] OTHER -> << >>

assembly_x8664_lea(dst, src, junk) ==
    IF Kind(dst) = 64
    THEN <<72, 141>> \o modrm_sib(dst.n, x8664_scaleindexbaseimm(src.terms, junk)) ELSE << >>

assembly_x8664_mov(dst, src) ==
    LET kinds == <<Kind(dst), Kind(src)>> IN
    CASE kinds = <<8, 8>> -> <<136, ModRM(3, src.n, dst.n)>>
      [] kinds = <<8, 0>> -> <<176 + dst.n, Byte(src.v)>>
      [] kinds = <<16, 0>> -> <<102, 176 + dst.n>> \o SubSeq(Int4(src.v), 1, 2)
      [] kinds = <<32, 0>> -> <<184 + (dst.n % 8)>> \o Int4(src.v)
      [] kinds = <<64, 0>> -> <<72, 199, ModRM(3, 0, dst.n)>> \o Int4(src.v)
      [] kinds = <<99, 0>> ->
           <<199, ModRM(1, 0, IF dst.td.b = None THEN 0 ELSE dst.td.b),
             IF dst.td.d = None THEN 0 ELSE Byte(dst.td.d)>> \o Int4(src.v)
      [] OTHER -> assembly_x8664_opcode(137, src, dst)

\* add and sub have a short form for numbers: reg says which of the two.
Short(dst, src, accumulator, reg) ==
    IF dst.size = 8 /\ dst.n = 0 THEN <<accumulator, Byte(src.v)>>
    ELSE (CASE dst.size = 8 -> <<128>> [] dst.size = 16 -> <<102, 131>>
            [] dst.size = 32 -> <<131>> [] dst.size = 64 -> <<72, 131>>)
         \o <<ModRM(3, reg, dst.n), Byte(src.v)>>
assembly_x8664_add(dst, src) ==
    IF dst.k = "reg" /\ src.k = "num" THEN Short(dst, src, 4, 0)
    ELSE assembly_x8664_opcode(1, src, dst)
assembly_x8664_sub(dst, src) ==
    IF dst.k = "reg" /\ src.k = "num" THEN Short(dst, src, 44, 5)
    ELSE assembly_x8664_opcode(41, src, dst)

\* cmp, or and and share the byte form of add; xor has its own.
Logical(dst, src, opcode, accumulator, reg) ==
    CASE Kind(dst) = 8 /\ Kind(src) = 0 /\ dst.n = 0 -> <<accumulator, Byte(src.v)>>
      [] Kind(dst) = 8 /\ Kind(src) = 0 /\ dst.n # 0 ->
           <<128, ModRM(3, reg, dst.n), Byte(src.v)>>
      [] OTHER -> assembly_x8664_opcode(opcode, src, dst)
assembly_x8664_cmp(dst, src) == Logical(dst, src, 57, 4, 0)
assembly_x8664_or(dst, src) == Logical(dst, src, 9, 4, 0)
assembly_x8664_and(dst, src) == Logical(dst, src, 33, 4, 0)
assembly_x8664_xor(dst, src) == Logical(dst, src, 49, 52, 6)

assembly_x8664_test(dst, src) ==
    IF Kind(dst) = 64 /\ Kind(src) = 99 THEN << >> ELSE assembly_x8664_opcode(133, src, dst)
assembly_x8664_xchg(dst, src) ==
    IF Kind(dst) = 99 /\ Kind(src) = 64 THEN << >> ELSE assembly_x8664_opcode(135, src, dst)
assembly_x8664_imul(dst, src) ==
    IF Kind(dst) = 8 /\ Kind(src) = 0 THEN << >> ELSE assembly_x8664_opcode(15, src, dst)

Written(l, junk) ==
    LET dst == get_reg_or_sib(l.to, junk)
        src == get_reg_or_sib(l.from, junk)
    IN  CASE l.op = "lea" -> assembly_x8664_lea(l.to, l.from, junk)
          [] l.op = "mov" -> assembly_x8664_mov(dst, src)
          [] l.op = "add" -> assembly_x8664_add(dst, src)
          [] l.op = "sub" -> assembly_x8664_sub(dst, src)
          [] l.op = "cmp" -> assembly_x8664_cmp(dst, src)
          [] l.op = "or" -> assembly_x8664_or(dst, src)
          [] l.op = "and" -> assembly_x8664_and(dst, src)
          [] l.op = "xor" -> assembly_x8664_xor(dst, src)
          [] l.op = "test" -> assembly_x8664_test(dst, src)
          [] l.op = "xchg" -> assembly_x8664_xchg(dst, src)
          [] l.op = "imul" -> assembly_x8664_imul(dst, src)
assembly_compile_x8664(l, junk) ==
    LET bytes == Written(l, junk) IN [i \in 1 .. 12 |-> IF i <= Len(bytes) THEN bytes[i] ELSE junk]

----------------------------------------------------------------------------
(* What follow and travel take the bytes for: only the first one is looked at. *)

Seen86(p) ==
    LET op == at(p, 0) IN
    CASE op = 195 -> [kind |-> "ret", from |-> 0, disp |-> << >>]
      [] op \in 112 .. 127 -> [kind |-> "cond", from |-> 2, disp |-> Take(p, 1, 1)]
      [] op = 15 /\ at(p, 1) \in 128 .. 143 -> [kind |-> "cond", from |-> 6, disp |-> Take(p, 2, 4)]
      [] op = 232 -> [kind |-> "call", from |-> 5, disp |-> Take(p, 1, 4)]
      [] op = 233 -> [kind |-> "jump", from |-> 5, disp |-> Take(p, 1, 4)]
      [] op = 235 -> [kind |-> "jump", from |-> 2, disp |-> Take(p, 1, 1)]
      [] OTHER -> [kind |-> "plain", from |-> 0, disp |-> << >>]

----------------------------------------------------------------------------
(* What the properties compare with. *)

\* The bytes of a number, the last of which has the sign.
Value(bytes) ==
    CASE Len(bytes) = 0 -> 0
      [] Len(bytes) = 1 -> IF bytes[1] > 127 THEN bytes[1] - 256 ELSE bytes[1]
      [] Len(bytes) = 4 -> bytes[1] + 2^8 * bytes[2] + 2^16 * bytes[3]
                           + 2^24 * IF bytes[4] > 127 THEN bytes[4] - 256 ELSE bytes[4]

Address(b, i, s, d) == [base |-> b, index |-> i, scale |-> s, disp |-> d]
MeantOperand(x) ==
    CASE x.k = "reg" -> IF x.size = 8 THEN Reg8(NoPrefix, x.n) ELSE x
      [] x.k = "num" -> Int4(x.v)
      [] x.k = "sum" ->
           LET p == Typed("prod", x.terms)
               r == Typed("reg", x.terms)
               c == Typed("num", x.terms)
           IN  Address(IF r = << >> THEN None ELSE r[Len(r)].n,
                       IF p # << >> THEN p[1].n ELSE IF Len(r) = 2 THEN r[1].n ELSE None,
                       IF p # << >> THEN p[1].v ELSE IF Len(r) = 2 THEN 1 ELSE 0,
                       IF c = << >> THEN 0 ELSE c[1].v)
ShownOperand(x) ==
    CASE x.k = "imm" -> [i \in 1 .. 4 |-> IF i <= Len(x.bytes) THEN x.bytes[i] ELSE 0]
      [] x.k = "mem" -> Address(x.base, x.index, x.scale, Value(x.disp))
      [] OTHER -> x
Pair(op, a, b) == IF op \in {"test", "xchg"} THEN {<<a, b>>, <<b, a>>} ELSE {<<a, b>>}

\* Addresses that can be written.  The address of lea takes the scale as it is, where
\* the bits of its logarithm should be.
Addressable(op, x) ==
    LET a == MeantOperand(x) IN
    /\ \A i \in DOMAIN x.terms : x.terms[i].n < 8   \* no rex.b and rex.x
    /\ Shape(x.terms) # <<0, 2, 0>>
    /\ a.index # None => op # "lea" /\ a.index # 4 /\ a.scale \in {1, 2, 4, 8}
    /\ a.index = None /\ a.base # None =>
         a.base # 4 /\ a.disp \notin 128 .. 255     \* rsp takes a sib byte; the byte has a sign

\* The forms of a line that the assembler can write.
Writable(l) ==
    LET to == l.to  from == l.from  arith == {"add", "sub", "cmp", "or", "and", "xor"} IN
    /\ to.k = "reg" => to.n < 8
    /\ from.k = "reg" => from.n < 8
    /\ to.k = "sum" => Addressable(l.op, to)
    /\ from.k = "sum" => Addressable(l.op, from)
    /\ \/ /\ to.k = "reg" /\ from.k = "reg" /\ to.size = from.size
          /\ l.op \in {"mov"} \/ (to.size # 8 /\ l.op \in arith \cup {"test", "xchg"})
       \/ /\ to.k = "reg" /\ from.k = "num"
          /\ \/ l.op = "mov" /\ to.size # 16
             \/ l.op \in {"add", "sub"}
             \/ l.op = "xor" /\ to.size = 8 /\ to.n = 0
          /\ from.v < 256 \/ (l.op = "mov" /\ to.size \in {32, 64})
       \/ /\ to.k = "reg" /\ to.size = 64 /\ from.k = "sum"
          /\ l.op \in {"lea", "mov", "xchg"} \cup arith
       \/ /\ to.k = "sum" /\ from.k = "reg" /\ from.size = 64
          /\ l.op \in {"mov", "test"} \cup arith
       \/ /\ to.k = "sum" /\ from.k = "num" /\ l.op = "mov"
          /\ MeantOperand(to).base # None /\ MeantOperand(to).index = None
          /\ MeantOperand(to).disp < 128

(* The length of an instruction as the processor counts it. *)
Modrm(p) ==
    LET m == at(p, 0)
        sib == IF mod(m) # 3 /\ bit0(m) = 4 THEN 1 ELSE 0
    IN  1 + sib + (CASE mod(m) = 1 -> 1
                     [] mod(m) = 2 \/ (mod(m) = 0 /\ bit0(m) = 5)
                          \/ (mod(m) = 0 /\ sib = 1 /\ bit0(at(p, 1)) = 5) -> 4
                     [] OTHER -> 0)
HasModrm == {op \in 0 .. 63 : op % 8 < 4} \cup {99, 105, 107, 192, 193, 198, 199, 246, 247, 254, 255}
            \cup (128 .. 143) \cup (208 .. 211)
Number1(op, m) == op \in ({o \in 0 .. 63 : o % 8 = 4} \cup {106, 107, 128, 131, 168, 192, 193, 198, 205, 235}
                          \cup (112 .. 127) \cup (176 .. 183) \cup (224 .. 231)) \/ (op = 246 /\ bit3(m) < 2)
Number4(op, m) == op \in ({o \in 0 .. 63 : o % 8 = 5} \cup {104, 105, 129, 169, 199})
                  \/ (op = 247 /\ bit3(m) < 2)
NoModrm0F == (5 .. 9) \cup {11, 14, 119} \cup (48 .. 55) \cup (57 .. 61) \cup (160 .. 162) \cup (168 .. 170)
             \cup (200 .. 207) \cup {255}
Length(p) ==
    LET front(i) == at(p, i) \in {102, 103} \cup (64 .. 79)
        j == CHOOSE k \in 0 .. Len(p) : ~front(k) /\ \A i \in 0 .. k - 1 : front(i)
        op == at(p, j)
        q == From(p, j + 1)
        m == at(q, 0)
        short == \E i \in 0 .. j - 1 : at(p, i) = 102
        wide == \E i \in 0 .. j - 1 : at(p, i) \in 72 .. 79
        z == IF short /\ ~wide THEN 2 ELSE 4
    IN  j + 1 + (CASE op = 15 ->
                        1 + (IF m \in (128 .. 143) \cup {184} THEN 4
                             ELSE IF m \in NoModrm0F THEN 0 ELSE Modrm(From(q, 1)))
                   [] op \in 184 .. 191 -> IF wide THEN 8 ELSE z
                   [] op \in 160 .. 163 -> IF \E i \in 0 .. j - 1 : at(p, i) = 103 THEN 4 ELSE 8
                   [] op \in {194, 202} -> 2
                   [] op = 200 -> 3
                   [] op \in {232, 233} -> 4
                   [] OTHER -> (IF op \in HasModrm THEN Modrm(q) ELSE 0)
                               + (IF Number1(op, m) THEN 1 ELSE IF Number4(op, m) THEN z ELSE 0))
=============================================================================
