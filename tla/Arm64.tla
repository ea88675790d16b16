------------------------------- MODULE Arm64 -------------------------------
(***************************************************************************)
(* Instructions of arm64 as lv1/assembly/cpu/arm64.c writes and reads them *)
(* and as lv1/analyse/follow/arm64.c walks over them.                      *)
(*                                                                         *)
(* A word is its fields, named for their lowest bit, so that a test of     *)
(* code & mask is a test of the fields under the mask.  What is shown is   *)
(* the mnemonic, the width of the registers, the registers from left to    *)
(* right (sp is 31; an alias as cmp or neg is shown under its plain name), *)
(* and the rest of the operands.                                           *)
(***************************************************************************)
EXTENDS Integers, Sequences

Width == [b31 |-> 1, b30 |-> 1, b29 |-> 1, b24 |-> 5, b22 |-> 2, b21 |-> 1,
          b16 |-> 5, b10 |-> 6, b5 |-> 5, b0 |-> 5]
Low(v, bits) == v % 2^bits

NoWord == [f \in DOMAIN Width |-> 0]

Top(w) == <<w.b31, w.b30, w.b29>>
Sz(w) == IF w.b31 = 1 THEN "x" ELSE "w"
imm12(w) == w.b10 + 2^6 * w.b16 + 2^11 * w.b21
imm19(w) == w.b5 + 2^5 * w.b10 + 2^11 * w.b16 + 2^16 * w.b21 + 2^17 * w.b22
imm14(w) == w.b5 + 2^5 * w.b10 + 2^11 * (w.b16 % 8)
imm26(w) == w.b0 + 2^5 * imm19(w) + 2^24 * (w.b24 % 4)
Signed(v, bits) == IF v >= 2^(bits - 1) THEN v - 2^bits ELSE v

----------------------------------------------------------------------------
(* What the assembler writes; op is 0 for add and 1 for sub. *)

Fields(sf, op, s, b24, b22, b21, rm, b10, rn, rd) ==
    [b31 |-> sf, b30 |-> op, b29 |-> s, b24 |-> b24, b22 |-> Low(b22, 2), b21 |-> b21,
     b16 |-> Low(rm, 5), b10 |-> Low(b10, 6), b5 |-> Low(rn, 5), b0 |-> Low(rd, 5)]

imm_encode(op, rd, rn, imm, s, sf) ==
    LET at(shift, v) == Fields(sf, op, s, 17, shift, v \div 2^11, v \div 2^6, v, rn, rd) IN
    IF imm < 2^12 THEN at(0, imm)
    ELSE IF imm < 2^24 /\ imm % 2^12 = 0 THEN at(1, imm \div 2^12)
    ELSE NoWord

regext_encode(op, rd, rn, rm, option, sh, s, sf) ==
    Fields(sf, op, s, 11, 0, 1, rm, 8 * option + Low(sh, 3), rn, rd)

regshift_encode(op, rd, rn, rm, sh, shtype, s, sf) ==
    Fields(sf, op, s, 11, shtype, 0, rm, sh, rn, rd)

----------------------------------------------------------------------------
(* What the disassembler shows. *)

Show(op, sz, regs, rest) ==
    [op |-> op, sz |-> sz, sign |-> "none", regs |-> regs, rest |-> rest]
Signs(op, sz, sign, regs, rest) ==
    [op |-> op, sz |-> sz, sign |-> sign, regs |-> regs, rest |-> rest]
Unknown == Show("unknown", "none", << >>, <<"none">>)

AddSub(w) == <<"add", "adds", "sub", "subs">>[2 * w.b30 + w.b29 + 1]
Minus(w) == IF w.b30 = 1 THEN "-" ELSE "+"

ShownAddImm(w) ==
    Signs(AddSub(w), Sz(w), Minus(w), <<w.b0, w.b5>>,
          <<"imm", imm12(w) * IF w.b22 = 1 THEN 2^12 ELSE 1>>)

\* (The _Mutant forms are the same code with a bug in it; the run finds each of them.)

\* A bit mask as long as its low field and turned right by its high one.
ShownLogicalImm(w) ==
    Show(<<"and", "orr", "eor", "ands">>[2 * w.b30 + w.b29 + 1], Sz(w), <<w.b0, w.b5>>,
         IF w.b31 = 1 THEN <<"mask", w.b10, w.b16 + 2^5 * w.b21>>
         ELSE <<"mask", w.b10 % 2^5, w.b16>>)

ShownMoveWide_Mutant(w) ==
    IF <<w.b30, w.b29>> = <<0, 1>> THEN Unknown
    ELSE Show(<<"movn", "none", "movz", "movk">>[2 * w.b30 + w.b29 + 1], Sz(w), <<w.b0>>,
              <<"imm", imm19(w) % 2^16, 16 * w.b21>>)
ShownMoveWide(w) ==
    IF <<w.b30, w.b29>> = <<0, 1>> THEN Unknown
    ELSE Show(<<"movn", "none", "movz", "movk">>[2 * w.b30 + w.b29 + 1], Sz(w), <<w.b0>>,
              <<"imm", imm19(w) % 2^16, 16 * (w.b21 + 2 * (w.b22 % 2))>>)

ShownBitfield(w) ==
    IF w.b22 # w.b31 \/ <<w.b30, w.b29>> = <<1, 1>> THEN Unknown
    ELSE Show(<<"sbfm", "bfm", "ubfm">>[2 * w.b30 + w.b29 + 1], Sz(w), <<w.b0, w.b5>>,
              <<"bits", w.b16 + 2^5 * w.b21, w.b10>>)

ShownExtract(w) ==
    IF \/ Top(w) = <<0, 0, 0>> /\ w.b22 = 2 /\ w.b21 = 0 /\ w.b16 < 16
       \/ Top(w) = <<1, 0, 0>> /\ w.b22 = 3 /\ w.b21 = 0
    THEN Show("extr", Sz(w), <<w.b0, w.b5, w.b16>>, <<"lsb", w.b10>>)
    ELSE Unknown

disasm_arm64_100x(w) ==
    CASE w.b24 = 16 ->
           Show(IF w.b31 = 1 THEN "adrp" ELSE "adr", "x", <<w.b0>>,
                <<"at", 4 * Signed(imm19(w), 19) + 2 * w.b30 + w.b29>>)
      [] w.b24 = 17 /\ w.b22 < 2 -> ShownAddImm(w)
      [] w.b24 = 17 /\ w.b22 >= 2 /\ Top(w) = <<1, 0, 0>> ->
           Show("addg", "x", <<w.b0, w.b5>>,
                <<"tag", w.b10 % 16, 16 * (w.b16 + 2^5 * w.b21)>>)
      [] w.b24 = 18 /\ w.b22 < 2 -> ShownLogicalImm(w)
      [] w.b24 = 18 /\ w.b22 >= 2 -> ShownMoveWide(w)
      [] w.b24 = 19 /\ w.b22 < 2 -> ShownBitfield(w)
      [] w.b24 = 19 /\ w.b22 >= 2 -> ShownExtract(w)
      [] OTHER -> Unknown

\* svc, brk and the like: the class in bits 21..23, the kind in the low five.
ShownException(w) ==
    LET class == 2 * w.b22 + w.b21
        name == CASE class = 0 /\ w.b0 \in 1 .. 3 -> <<"svc", "hvc", "smc">>[w.b0]
                  [] class = 1 /\ w.b0 = 0 -> "brk"
                  [] class = 2 /\ w.b0 = 0 -> "hlt"
                  [] class = 5 /\ w.b0 \in 1 .. 3 -> <<"dcps1", "dcps2", "dcps3">>[w.b0]
                  [] OTHER -> "unknown"
    IN  IF name = "unknown" THEN Unknown ELSE Show(name, "none", << >>, <<"imm", imm19(w) % 2^16>>)

(* A branch through a register.  The cases of the switch fall through, so the tests
   from the one of this class on are made in turn. *)
ShownBranchRegister(w) ==
    LET class == 8 * (w.b24 % 2) + 2 * w.b22 + w.b21
        keyed == w.b10 \in {2, 3}
        key == IF w.b10 = 2 THEN "a" ELSE "b"
        To(op) == Show(op, "x", <<w.b5>>, <<"none">>)
        Keyed(op) == Show(op, "x", << >>, <<key>>)
        plain == w.b10 = 0 /\ w.b0 = 0
        return == keyed /\ w.b5 = 31 /\ w.b0 = 31
        earlier == (class \in {0, 1} /\ keyed /\ w.b0 = 31) \/ (class \in {2, 4} /\ return)
    IN  IF w.b16 # 31 \/ class \notin {0, 1, 2, 4, 5, 8, 9} THEN Unknown
        ELSE CASE class = 0 /\ plain -> To("br")
               [] class = 0 /\ keyed /\ w.b0 = 31 -> Keyed("braa")
               [] class = 1 /\ plain -> To("blr")
               [] class = 1 /\ keyed /\ w.b0 = 31 -> Keyed("blraa")
               [] class = 2 /\ plain -> To("ret")
               [] class = 2 /\ return -> Keyed("retaa")
               [] class = 4 /\ plain -> To("eret")
               [] class = 4 /\ return -> Keyed("eretaa")
               [] class = 5 /\ plain /\ w.b5 = 31 -> Keyed("drps")
               [] class < 9 /\ keyed /\ ~earlier -> Keyed("braa_reg")
               [] class = 9 /\ keyed -> Keyed("blraa_reg")
               [] OTHER -> Unknown

\* The offset of b and bl.
ShownFar(w) == IF imm26(w) > 2^25 THEN imm26(w) - 2^26 ELSE imm26(w)

ShownTest(w) == Signed(imm14(w), 14)

\* A system register or operation: op0, op1, crn, crm and op2.
System(w) == <<w.b16 \div 8, w.b16 % 8, w.b10 \div 4, 4 * (w.b10 % 4) + (w.b5 \div 8), w.b5 % 8>>
\* Each one has a name of its own, or is spelled by these numbers.
disasm_arm64_str(w) == <<"name">> \o System(w)
\* Words without a register: hints, barriers, and bits of the processor's state.
HintWords ==
    ({3} \X {2} \X {0} \X (0 .. 7 \ {6})) \cup ({3} \X {2} \X {1} \X {0, 2, 4, 6})
    \cup ({3} \X {2} \X {2} \X {0, 1, 4}) \cup ({3} \X {2} \X {3} \X (0 .. 7))
BarrierWords == {3} \X {3} \X (0 .. 15) \X {2, 4, 5, 6}
StateWords ==
    ({0} \X {4} \X {0, 1} \X {3, 4, 5}) \cup ({3} \X {4} \X {0, 1} \X {2})
    \cup ({3} \X {4} \X (0 .. 15) \X {6, 7})
\* What is done to a whole cache, or all of the tables, is shown without its register.
WholeOperations ==
    ({0} \X {7} \X {1, 5} \X {0}) \cup ({0} \X {8} \X {1, 3, 7} \X {0})
    \cup ({4} \X {8} \X {1, 3, 7} \X {0, 4, 6}) \cup ({6} \X {8} \X {1, 3, 7} \X {0})
disasm_arm64_msr(w) ==
    LET place == Tail(System(w)) IN
    CASE w.b16 \div 8 = 0 /\ w.b0 = 31 /\ place \in HintWords \cup BarrierWords \cup StateWords ->
           Show("fixed", "none", << >>, disasm_arm64_str(w))
      [] w.b16 \div 8 = 1 /\ place \in WholeOperations ->
           Show("whole", "none", << >>, disasm_arm64_str(w))
      [] OTHER -> Show("msr", "x", <<w.b0>>, disasm_arm64_str(w))
disasm_arm64_mrs(w) == Show("mrs", "x", <<w.b0>>, disasm_arm64_str(w))

disasm_arm64_101x(w) ==
    LET kind == w.b24 - 20 IN
    CASE Top(w) = <<0, 1, 0>> /\ kind = 0 ->
           Show("b.cond", "none", << >>, <<"pc", 4 * Signed(imm19(w), 19), w.b0 % 16>>)
      [] Top(w) = <<0, 0, 0>> -> Show("b", "none", << >>, <<"pc", 4 * ShownFar(w)>>)
      [] Top(w) = <<1, 0, 0>> -> Show("bl", "none", << >>, <<"pc", 4 * ShownFar(w)>>)
      [] <<w.b30, w.b29>> = <<0, 1>> /\ kind < 2 ->
           Show(<<"cbz", "cbnz">>[kind + 1], Sz(w), <<w.b0>>, <<"pc", 4 * Signed(imm19(w), 19)>>)
      [] <<w.b30, w.b29>> = <<0, 1>> /\ kind >= 2 ->
           Show(<<"tbz", "tbnz">>[kind - 1], Sz(w), <<w.b0>>,
                <<"pc", 4 * ShownTest(w), (imm19(w) \div 2^14) + 2^5 * w.b31>>)
      [] Top(w) = <<1, 1, 0>> /\ kind = 0 -> ShownException(w)
      [] Top(w) = <<1, 1, 0>> /\ kind = 1 /\ w.b22 = 0 ->
           IF w.b21 = 0 THEN disasm_arm64_msr(w) ELSE disasm_arm64_mrs(w)
      [] Top(w) = <<1, 1, 0>> /\ kind >= 2 -> ShownBranchRegister(w)
      [] OTHER -> Unknown

\* str, ldr and their kin with a signed offset of nine bits and four ways to use it.
ShownUnscaled(w, sz) ==
    Show(<<"st", "ld">>[w.b22 + 1], sz, <<w.b0, w.b5>>,
         <<"off", Signed((imm12(w) \div 4) % 2^9, 9), w.b10 % 4>>)

ShownPair(w) ==
    Show(<<"stp", "ldp">>[(w.b22 % 2) + 1], "x", <<w.b0, w.b10 % 2^5, w.b5>>,
         <<"off", 8 * Signed(imm12(w) \div 2^5, 7), w.b22 \div 2, w.b24>>)

\* A literal ahead of the instruction; the offset is not signed, and 18 bits of it are
\* read for w registers.
ShownLiteral(w) ==
    Show("ldr_literal", IF w.b30 = 1 THEN "x" ELSE "w", <<w.b0>>,
         <<"pc", 4 * (imm19(w) % 2^(IF w.b30 = 1 THEN 19 ELSE 18))>>)

disasm_arm64_x1x0(w) ==
    CASE Top(w) \in {<<0, 0, 0>>, <<0, 1, 0>>} /\ w.b24 = 24 -> ShownLiteral(w)
      [] Top(w) = <<1, 0, 1>> /\ w.b24 = 24 /\ w.b22 < 2 -> ShownUnscaled(w, "w")
      [] Top(w) = <<1, 0, 1>> /\ w.b24 \in {8, 9} -> ShownPair(w)
      [] Top(w) = <<1, 0, 1>> /\ w.b24 = 25 /\ w.b22 < 3 ->
           Show(<<"str", "ldr", "ldrsw">>[w.b22 + 1], IF w.b22 = 2 THEN "x" ELSE "w",
                <<w.b0, w.b5>>, <<"off", 4 * imm12(w)>>)
      [] Top(w) = <<1, 1, 1>> /\ w.b24 = 24 /\ w.b22 < 2 /\ w.b21 = 0 -> ShownUnscaled(w, "x")
      [] Top(w) = <<1, 1, 1>> /\ w.b24 \in {25, 29} ->
           Show(<<"str", "ldr">>[(w.b22 % 2) + 1], IF w.b24 = 25 THEN "x" ELSE "d",
                <<w.b0, w.b5>>, <<"off", 8 * imm12(w)>>)
      [] OTHER -> Unknown

\* Two sources: the second is taken one bit too low.
TwoSource ==
    [k \in 0 .. 63 |->
       CASE k = 2 -> "udiv" [] k = 3 -> "sdiv" [] k = 8 -> "lsl" [] k = 9 -> "lsr"
         [] k = 10 -> "asr" [] k = 11 -> "ror" [] OTHER -> "unknown"]
TwoSourceSized ==
    [k \in 0 .. 63 |->
       CASE k = 4 -> <<"irg", "x">> [] k = 5 -> <<"gmi", "x">> [] k = 12 -> <<"ror", "x">>
         [] k \in 16 .. 22 \ {19} ->
              <<<<"crc32b", "crc32h", "crc32w", "none", "crc32cb", "crc32ch", "crc32cw">>[k - 15], "w">>
         [] k \in {19, 23} -> <<IF k = 19 THEN "crc32x" ELSE "crc32cx", "x">>
         [] OTHER -> <<"unknown", "none">>]
ShownTwoSource(w) ==
    LET regs == <<w.b0, w.b5, w.b10 \div 2^5 + 2 * (w.b16 % 2^4)>> IN
    CASE w.b10 = 0 /\ w.b31 = 1 -> Show(<<"subp", "subps">>[w.b29 + 1], "x", regs, <<"none">>)
      [] w.b29 = 0 /\ TwoSource[w.b10] # "unknown" ->
           Show(TwoSource[w.b10], Sz(w), regs, <<"none">>)
      [] w.b29 = 0 /\ TwoSourceSized[w.b10][2] = Sz(w) ->
           Show(TwoSourceSized[w.b10][1], Sz(w), regs, <<"none">>)
      [] OTHER -> Unknown

ShownOneSource(w) ==
    IF w.b29 = 0 /\ w.b16 = 0 /\ <<Sz(w), w.b10>> \in
         {<<"w", 0>>, <<"x", 0>>, <<"w", 1>>, <<"x", 1>>, <<"w", 2>>, <<"x", 3>>, <<"w", 4>>, <<"x", 4>>}
    THEN Show(<<"rbit", "rev16", "rev", "rev", "clz">>[w.b10 + 1], Sz(w), <<w.b0, w.b5>>, <<"none">>)
    ELSE Unknown

Shifted(w) == <<<<"lsl", "lsr", "asr", "ror">>[w.b22 + 1], w.b10>>

\* and, bic, ... eon, bics, with b22 = 0 or 1: the others are not taken for these.
ShownLogical(w) ==
    Show(<<"and", "bic", "orr", "orn", "eor", "eon", "ands", "bics">>
           [4 * w.b30 + 2 * w.b29 + w.b21 + 1], Sz(w), <<w.b0, w.b5, w.b16>>, Shifted(w))

ShownAddShifted(w) ==
    IF w.b22 = 3 THEN Unknown
    ELSE Signs(AddSub(w), Sz(w), Minus(w), <<w.b0, w.b5, w.b16>>, Shifted(w))

\* The sign of sub is a minus only behind the stack pointer.
ExtendSign(w) == IF w.b30 = 1 /\ (w.b29 = 1 \/ w.b5 = 31) THEN "-" ELSE "+"
ShownAddExtended_Mutant(w) ==
    Signs(AddSub(w), Sz(w), ExtendSign(w), <<w.b0, w.b5, w.b16>>,
          <<<<"uxtb", "uxth", "uxtw", "uxtx", "sxtb", "sxth", "sxtx", "sxtw">>[w.b10 \div 8 + 1], w.b10 % 8>>)
ShownAddExtended(w) ==
    Signs(AddSub(w), Sz(w), ExtendSign(w), <<w.b0, w.b5, w.b16>>,
          <<<<"uxtb", "uxth", "uxtw", "uxtx", "sxtb", "sxth", "sxtw", "sxtx">>[w.b10 \div 8 + 1], w.b10 % 8>>)

ShownCarryOrFlags(w) ==
    CASE w.b10 = 0 ->
           Show(<<"adc", "adcs", "sbc", "sbcs">>[2 * w.b30 + w.b29 + 1], Sz(w),
                <<w.b0, w.b5, w.b16>>, <<"none">>)
      [] Top(w) = <<1, 0, 1>> /\ w.b10 % 2^5 = 1 /\ w.b0 < 16 ->
           Show("rmif", "x", <<w.b5>>, <<"imm", w.b10 \div 2^5 + 2 * w.b16>>)
      [] Top(w) = <<0, 0, 1>> /\ w.b16 = 0 /\ w.b0 = 13 /\ w.b10 \in {2, 18} ->
           Show(IF w.b10 = 2 THEN "setf8" ELSE "setf16", "w", <<w.b5>>, <<"none">>)
      [] OTHER -> Unknown

ShownCompare(w) ==
    IF w.b29 = 0 THEN Unknown
    ELSE Show(<<"ccmn", "ccmp">>[w.b30 + 1], Sz(w), <<w.b5>>,
              <<IF (w.b10 \div 2) % 2 = 1 THEN "imm" ELSE "reg", w.b16>>)

ShownSelect(w) ==
    Show(<<"csel", "csinc", "csinv", "csneg">>[2 * w.b30 + (w.b10 % 2) + 1], Sz(w),
         <<w.b0, w.b5, w.b16>>, <<"cond", w.b10 \div 4>>)

\* The tests for madd and msub do not look at bits 21..23, so that the long multiplies
\* behind them are never reached.
ShownThreeSource(w) ==
    IF <<w.b30, w.b29>> # <<0, 0>> THEN Unknown
    ELSE Show(<<"madd", "msub">>[w.b10 \div 2^5 + 1], Sz(w),
              <<w.b0, w.b10 % 2^5, w.b5, w.b16>>, <<"none">>)

disasm_arm64_x101(w) ==
    LET op2 == 8 * (w.b24 % 2) + 2 * w.b22 + w.b21 IN
    IF w.b24 >= 26
    THEN CASE op2 = 6 /\ w.b30 = 0 -> ShownTwoSource(w)
           [] op2 = 6 /\ w.b30 = 1 -> ShownOneSource(w)
           [] op2 = 0 -> ShownCarryOrFlags(w)
           [] op2 = 2 -> ShownCompare(w)
           [] op2 = 4 -> ShownSelect(w)
           [] op2 >= 8 -> ShownThreeSource(w)
           [] OTHER -> Unknown
    ELSE CASE op2 < 4 -> ShownLogical(w)
           [] op2 >= 8 /\ w.b21 = 0 -> ShownAddShifted(w)
           [] op2 >= 8 /\ w.b21 = 1 -> ShownAddExtended(w)
           [] OTHER -> Unknown

disasm_arm64_one(w) ==
    CASE w.b24 \in 16 .. 19 -> disasm_arm64_100x(w)
      [] w.b24 \in 20 .. 23 -> disasm_arm64_101x(w)
      [] w.b24 \in {8, 9, 12, 13, 24, 25, 28, 29} -> disasm_arm64_x1x0(w)
      [] w.b24 \in {10, 11, 26, 27} -> disasm_arm64_x101(w)
      [] OTHER -> Unknown

----------------------------------------------------------------------------
(* What the walks of follow and travel take a word for, with how far it branches. *)

Seen_Mutant(w) ==
    IF w.b24 \div 4 = 5 /\ <<w.b30, w.b29>> = <<0, 0>>
    THEN [kind |-> IF w.b31 = 1 THEN "call" ELSE "jump", to |-> 4 * imm26(w)]
    ELSE [kind |-> "plain", to |-> 0]
Seen(w) ==
    CASE /\ Top(w) = <<1, 1, 0>> /\ w.b24 = 22 /\ w.b22 = 1 /\ w.b21 = 0
         /\ w.b16 = 31 /\ w.b10 = 0 /\ w.b5 \in {30, 31} /\ w.b0 = 0 ->
           [kind |-> "ret", to |-> 0]
      [] Top(w) = <<0, 1, 0>> /\ w.b24 = 20 /\ w.b0 < 16 ->
           [kind |-> "cond", to |-> 4 * Signed(imm19(w), 19)]
      [] <<w.b30, w.b29>> = <<0, 1>> /\ w.b24 \in {20, 21} ->
           [kind |-> "cond", to |-> 4 * Signed(imm19(w), 19)]
      [] <<w.b30, w.b29>> = <<0, 1>> /\ w.b24 \in {22, 23} ->
           [kind |-> "cond", to |-> 4 * Signed(imm14(w), 14)]
      [] Top(w) = <<0, 0, 0>> /\ w.b24 \div 4 = 5 ->
           [kind |-> "jump", to |-> 4 * Signed(imm26(w), 26)]
      [] Top(w) = <<1, 0, 0>> /\ w.b24 \div 4 = 5 ->
           [kind |-> "call", to |-> 4 * Signed(imm26(w), 26)]
      [] OTHER -> [kind |-> "plain", to |-> 0]
=============================================================================
