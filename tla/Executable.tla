----------------------------- MODULE Executable -----------------------------
(***************************************************************************)
(* The command disasm (lv1/assembly/disasm.c): the kind of a file is told  *)
(* from its first bytes, its tables are walked (exe/elf.c, exe/mac.c,      *)
(* exe/pe.c), and the sections asked for are given to the disassembler of  *)
(* the machine.                                                            *)
(*                                                                         *)
(* Of a file the tables count.  A section is its name, and whether that    *)
(* name runs on: one that fills its field has no end of its own, so that   *)
(* what follows it is compared too.  A part that is listed is named by     *)
(* where it stands in the tables.                                          *)
(***************************************************************************)
EXTENDS Integers, Sequences

CONSTANTS
    SectName,   \* the names of sections, without the dots and dashes of a format
    LongName,   \* those of them that fill the field of a name
    MaxSect     \* how many sections, and how many commands, a table has at most

ASSUME ExecutableAssumption == MaxSect \in Nat

AnySection == ""                    \* no section is asked for
TextNames == {"text", "textlong"}   \* the names that begin with text
EntryNames == {"init", "fini", "text", "plt"}

UpTo(S) == UNION {[1 .. n -> S] : n \in 0 .. MaxSect}
Named(S) == [name : SectName, runs : S]
elf64_shdr == Named({FALSE})
sectab == {s \in Named(BOOLEAN) : s.runs => s.name \in LongName}
section_64 == {s \in Named(BOOLEAN) : s.runs <=> s.name \in LongName}

\* A table may be missing; of the program headers only the first is looked at.
elf64_hdr == [kind : {"elf64", "elf32"}, machine : {"x8664", "arm64", "riscv64", "mips64"},
              phoff : BOOLEAN, shoff : BOOLEAN, sects : UpTo(elf64_shdr)]
\* The optional header tells the width, 0 if neither, and where the base of the image is.
pe == [kind : {"pe"}, machine : {"x8664", "arm64"}, magic : {32, 64, 0}, sects : UpTo(sectab)]
\* A command may claim to have no length.
command_19 == [cmd : {25, 2}, empty : BOOLEAN, sects : UpTo(section_64)]
mach_header_64 == [kind : {"mach"}, machine : {"x8664", "arm64", "ppc"}, cmds : UpTo(command_19)]
object == [kind : {"object", "other"}]

VARIABLES
    exe,        \* the tables of the file
    want,       \* the section asked for, or AnySection
    row,        \* how far the walk over a table has come
    place,      \* the command the walk is at
    listed,     \* the parts given to a disassembler, in order
    stage       \* which table is walked; "" before the command, "end" after it

file == <<exe, want, row, place, listed, stage>>

Unwritten == [kind |-> ""]
Untouched == /\ exe = Unwritten /\ want = AnySection /\ listed = << >>
             /\ row = 0 /\ place = 0 /\ stage = ""

\* The disassemblers of arm64 and riscv64 take their address as an int.
Part(part) ==
    [part |-> part, cpu |-> exe.machine, base |-> IF exe.machine = "x8664" THEN "own" ELSE "low32"]
\* There is no disassembler for other machines.
Disassembled(list, s, part) == IF s /\ exe.machine # "mips64" THEN Append(list, part) ELSE list

check_elf == exe'.kind \in {"elf64", "elf32"}
check_mach == exe'.kind = "mach" /\ exe'.machine # "ppc"
check_pe == exe'.kind = "pe"

\* An object is told, and nothing is done with it.  The width of a pe unknown, its
\* directory is printed from wherever the stack says.
disasm(files) ==
    /\ stage = ""
    /\ exe' \in files
    /\ want' \in {AnySection} \cup SectName
    /\ \/ check_elf /\ stage' = IF exe'.kind = "elf32" THEN "end" ELSE "program"
       \/ check_mach /\ stage' = "commands"
       \/ check_pe /\ stage' = "sections"
       \/ check_pe /\ exe'.magic = 0 /\ stage' = "crash"
       \/ ~check_elf /\ ~check_mach /\ ~check_pe /\ stage' = "end"
    /\ row' = 1 /\ place' = 1
    /\ UNCHANGED listed

\* (The _Mutant form is the code with a bug in it, which the run finds: strncmp for
\* strcmp.)
shoulddisasm_Mutant(s, default) ==
    s.name \in (CASE want = AnySection -> default [] want = "text" -> TextNames [] OTHER -> {want})
\* Not ended, a name is not equal to what is asked for.
shoulddisasm(s, default) ==
    IF want = AnySection THEN s.name \in default ELSE s.name = want /\ ~s.runs

\* The first segment is listed whatever is asked for.
disasm_elf64_program ==
    /\ stage = "program"
    /\ listed' = Disassembled(listed, exe.phoff, Part(0))
    /\ stage' = IF exe.shoff THEN "sections" ELSE "end"
    /\ UNCHANGED <<exe, want, row, place>>

disasm_elf64_section ==
    /\ stage = "sections" /\ exe.kind = "elf64" /\ row <= Len(exe.sects)
    /\ listed' = Disassembled(listed, shoulddisasm(exe.sects[row], EntryNames), Part(row))
    /\ row' = row + 1
    /\ UNCHANGED <<exe, want, place, stage>>

\* The machine is not looked at; without a known width the base is left unset.
disasm_pe64_nt(p) == IF p.magic = 0 THEN "unset" ELSE "own"
disasm_pe64 ==
    /\ stage = "sections" /\ exe.kind = "pe" /\ row <= Len(exe.sects)
    /\ listed' = Disassembled(listed, shoulddisasm(exe.sects[row], TextNames),
                              [part |-> row, cpu |-> "x8664", base |-> disasm_pe64_nt(exe)])
    /\ row' = row + 1
    /\ UNCHANGED <<exe, want, place, stage>>

sections_done ==
    /\ stage = "sections" /\ row > Len(exe.sects)
    /\ stage' = "end"
    /\ UNCHANGED <<exe, want, row, place, listed>>

\* As many commands as the header says, each from where the length of the one before
\* leads.
disasm_macho64_seg19(c) ==
    LET sects == exe.cmds[c].sects
        list[j \in 0 .. Len(sects)] ==
          IF j = 0 THEN listed
          ELSE Disassembled(list[j - 1], shoulddisasm(sects[j], TextNames), Part(<<c, j>>))
    IN  list[Len(sects)]
disasm_macho64 ==
    /\ stage = "commands" /\ row <= Len(exe.cmds)
    /\ listed' = IF exe.cmds[place].cmd = 25 THEN disasm_macho64_seg19(place) ELSE listed
    /\ place' = IF exe.cmds[place].empty THEN place ELSE place + 1
    /\ row' = row + 1
    /\ UNCHANGED <<exe, want, stage>>

commands_done ==
    /\ stage = "commands" /\ row > Len(exe.cmds)
    /\ stage' = "end"
    /\ UNCHANGED <<exe, want, row, place, listed>>

ExeStep ==
    \/ disasm(elf64_hdr) \/ disasm(pe) \/ disasm(mach_header_64) \/ disasm(object)
    \/ disasm_elf64_program \/ disasm_elf64_section \/ disasm_pe64 \/ sections_done
    \/ disasm_macho64 \/ commands_done

ExeSpec == Untouched /\ [][ExeStep]_file

----------------------------------------------------------------------------
Asked(s) == IF want = AnySection
            THEN s.name \in (IF exe.kind = "elf64" THEN EntryNames ELSE TextNames)
            ELSE s.name = want /\ ~s.runs
Before(a, b) == IF exe.kind = "mach" THEN a[1] < b[1] \/ (a[1] = b[1] /\ a[2] < b[2]) ELSE a < b

\* The parts a reader of the tables would name.
Wanted ==
    IF exe.kind = "mach"
    THEN {p \in (DOMAIN exe.cmds) \X (1 .. MaxSect) :
            /\ exe.cmds[p[1]].cmd = 25 /\ p[2] \in DOMAIN exe.cmds[p[1]].sects
            /\ Asked(exe.cmds[p[1]].sects[p[2]])}
    ELSE {i \in DOMAIN exe.sects : exe.kind = "pe" \/ exe.shoff} \cap
         {i \in DOMAIN exe.sects : Asked(exe.sects[i])}

\* What the code gets wrong, or has no listing for.
Unlisted ==
    \/ exe.machine = "mips64"
    \/ exe.kind = "pe" /\ (exe.machine # "x8664" \/ exe.magic = 0) \* as x86-64, from no base
    \/ exe.kind = "mach" /\ \E c \in DOMAIN exe.cmds : exe.cmds[c].empty \* one taken again

(* Each section asked for is listed once and no other, in the order of the file, for
   the machine the file is for, whatever the tables in between hold: a name that only
   begins with what is asked for is not taken, one that fills its field is found only
   by default, and in front of an elf goes its first segment.  It is so but for the
   files of Unlisted. *)
ListedAsAsked ==
    stage = "end" /\ exe.kind \in {"elf64", "pe", "mach"} /\ exe.machine # "ppc" /\ ~Unlisted =>
      LET head == IF exe.kind = "elf64" /\ exe.phoff THEN 1 ELSE 0
          rows == SubSeq(listed, head + 1, Len(listed))
      IN  /\ head = 1 => listed[1] = Part(0)
          /\ {rows[i] : i \in DOMAIN rows} = {Part(p) : p \in Wanted}
          /\ \A i \in 2 .. Len(rows) : Before(rows[i - 1].part, rows[i].part)
=============================================================================
