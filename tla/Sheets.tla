-------------------------------- MODULE Sheets --------------------------------
(* The parsers that read a file line by line: circuits (cir.c), maps of lines and
   stations (map.c), assembler (asm.c) and plain text (utf8.c).  A step reads one line
   of any shape; beside it the text is read as its author meant it, and `made` are the
   relations and names the parser makes of the line, `meant` those of the author.  A
   file is followed until the two part for one of the reasons listed with each parser. *)
EXTENDS Worker, FiniteSets

CONSTANTS
    Name,           \* the names in the text
    Matches,        \* entries of the match table of cir.c
    MaxFile,        \* bound: files read one after the other
    MaxCount        \* bound: nested blocks, and stations of a line

ASSUME SheetsAssumption == {Matches, MaxFile, MaxCount} \subseteq Nat

VARIABLES
    chips, pins,    \* the tables: what each record was made for
    cir,            \* the statics of cir.c: match table, pinbody
    map,            \* the statics of map.c: infunc, count, chip
    innote,         \* of asm_read
    text,           \* the text as it is meant: the file, the block and the comment in it
    made, meant
sheets == <<chips, pins, cir, map, innote, text, made, meant>>

Opened(f) == [file |-> f, block |-> 0, blocks |-> 0, seen |-> {}, note |-> FALSE]

SheetsInit ==
    /\ chips = << >> /\ pins = << >>
    /\ cir = [mt |-> << >>, pinbody |-> 0]
    /\ map = [infunc |-> 0, count |-> 0, chip |-> 0]
    /\ innote = FALSE
    /\ text = Opened(1) /\ made = {} /\ meant = {}

\* A line that parts from its meaning ends the model, like the death of the process.
Comes(died, slips) == pc' = IF died # "none" THEN died ELSE IF slips THEN "slipped" ELSE "read"

----------------------------------------------------------------------------
(* Circuits: a net is "name {", the feet of chips on it "chip(foot)", and "}"; the value
   of a chip is "chip = value". *)

CirLine == [k : {"open", "foot", "value"}, name : Name, spaced : BOOLEAN,
            lost : {"none", "comment", "eof"}]
           \cup [k : {"close"}, name : {0}, spaced : {FALSE}, lost : {"none"}]

\* A blank before a bracket or a brace is part of the name.
Spelled(l) == IF l.spaced /\ l.k # "value" THEN <<l.name, "blank">> ELSE <<l.name, "tight">>

\* The chip of a name: the one made in this file, or a new one, which has to find room
\* in the table of chips and in the match table.
cir_read_chip(name, what) ==
    LET hits == {i \in DOMAIN cir.mt : cir.mt[i].name = name}
        new == chip_write(chips, what)
    IN  IF hits # {}
        THEN [at |-> cir.mt[CHOOSE i \in hits : TRUE].body, chips |-> chips, mt |-> cir.mt,
              made |-> {}, died |-> "none"]
        ELSE [at |-> Len(new.table), chips |-> new.table,
              mt |-> Append(cir.mt, [name |-> name, body |-> new.at]),
              made |-> {<<<<"name", 0, name>>, what>>},
              died |-> IF new.at = 0 THEN "crash"
                       ELSE IF Len(cir.mt) >= Matches THEN "overrun" ELSE "none"]

\* The line as the author means it.
CirMeant(l) ==
    LET chip == <<"chip", text.file, l.name>>
        name == <<"name", 0, <<l.name, "tight">>>>
        first == IF l.name \in text.seen THEN {} ELSE {<<name, chip>>}
    IN  CASE l.k = "open" -> {<<<<"pin", text.file, text.blocks + 1>>, name>>}
          [] l.k = "foot" /\ text.block # 0 ->
               first \cup {<<<<"pin", text.file, text.block>>, chip>>}
          [] l.k = "value" -> first \cup {<<<<"value", 0, 0>>, chip>>}
          [] OTHER -> {}

\* Not read: what stands before a comment, and a last line without its end.  A foot
\* outside of a net goes to the pin of the net before, of another file if need be.  A
\* name with a blank behind it is another name, of a chip as of a net.
CirSlips(l) ==
    \/ l.lost # "none"
    \/ l.spaced /\ l.k \in {"foot", "open"}
    \/ l.k = "foot" /\ text.block = 0

cir_read_line(l) ==
    LET chip == cir_read_chip(Spelled(l), <<"chip", text.file, l.name>>)
        pin == pin_write(pins, <<"pin", text.file, text.blocks + 1>>)
    IN  CASE l.lost # "none" \/ l.k = "close" ->
               /\ made' = {} /\ Comes("none", CirSlips(l)) /\ UNCHANGED <<chips, pins, cir>>
          [] l.lost = "none" /\ l.k = "open" ->
               /\ made' = {<<pin.table[pin.at], <<"name", 0, Spelled(l)>>>>}
               /\ pins' = pin.table /\ cir' = [cir EXCEPT !.pinbody = pin.at]
               /\ Comes(IF Inside(pin.at) THEN "none" ELSE "overrun", CirSlips(l))
               /\ UNCHANGED chips
          [] l.lost = "none" /\ l.k = "foot" ->
               /\ made' = chip.made \cup
                          (IF cir.pinbody = 0 THEN {} ELSE {<<pins[cir.pinbody], chip.chips[chip.at]>>})
               /\ chips' = chip.chips /\ cir' = [cir EXCEPT !.mt = chip.mt]
               /\ Comes(IF chip.died = "none" /\ cir.pinbody = 0 THEN "crash" ELSE chip.died, CirSlips(l))
               /\ UNCHANGED pins
          [] l.lost = "none" /\ l.k = "value" ->
               /\ made' = chip.made \cup {<<<<"value", 0, 0>>, chip.chips[chip.at]>>}
               /\ chips' = chip.chips /\ cir' = [cir EXCEPT !.mt = chip.mt]
               /\ Comes(chip.died, FALSE)
               /\ UNCHANGED pins

cir_read ==
    \E l \in CirLine :
      /\ cir_read_line(l)
      /\ meant' = CirMeant(l)
      /\ text' = [text EXCEPT
                    !.block = CASE l.k = "open" -> text.blocks + 1 [] l.k = "close" -> 0 [] OTHER -> @,
                    !.blocks = IF l.k = "open" THEN @ + 1 ELSE @,
                    !.seen = IF l.k \in {"foot", "value"} THEN @ \cup {l.name} ELSE @]
      /\ UNCHANGED <<map, innote>>

\* cir_start without tablen = 0.
cir_start_Mutant == UNCHANGED <<cir, map, innote>>

\* The match table is emptied, pinbody is not.
cir_start == cir' = [cir EXCEPT !.mt = << >>] /\ UNCHANGED <<map, innote>>

----------------------------------------------------------------------------
(* Maps: "line{", its stations, "}". *)

MapLine == [k : {"name_open", "name", "open", "close", "name_close"}, lost : {"none", "eof"}]

\* A name outside of braces is a line and begins a chip; any other is a station of it.
\* The relation of the line is made before the count is reset, and carries the one of
\* the line before it, or of the last file.
map_read_line(l) ==
    LET named == l.k \in {"name_open", "name"}
        line == chip_write(chips, <<"line", text.file, text.blocks + 1>>)
    IN  CASE l.k \in {"close", "name_close"} ->
               /\ map' = [map EXCEPT !.infunc = @ - 1] /\ made' = {} /\ UNCHANGED chips
          [] l.k = "open" -> map' = [map EXCEPT !.infunc = @ + 1] /\ made' = {} /\ UNCHANGED chips
          [] named /\ map.infunc = 0 ->
               /\ map' = [infunc |-> IF l.k = "name_open" THEN 1 ELSE 0, count |-> 0, chip |-> line.at]
               /\ made' = {<<"line", line.table[Len(line.table)], map.count>>}
               /\ chips' = line.table
          [] named /\ map.infunc # 0 ->
               /\ map' = [map EXCEPT !.infunc = IF l.k = "name_open" THEN @ + 1 ELSE @, !.count = @ + 1]
               /\ made' = IF map.chip = 0 THEN {} ELSE {<<"station", chips[map.chip], map.count>>}
               /\ UNCHANGED chips

\* The author means no number by a line.
Bare(m) == IF m[1] = "line" THEN <<m[1], m[2]>> ELSE m
Said(relations) == IF wk = "map" THEN {Bare(m) : m \in relations} ELSE relations

MapMeant(l) ==
    LET named == l.k \in {"name_open", "name", "name_close"} IN
    CASE named /\ text.block = 0 -> {<<"line", <<"line", text.file, text.blocks + 1>>>>}
      [] named /\ text.block # 0 ->
           {<<"station", <<"line", text.file, text.blocks>>, Cardinality(text.seen)>>}
      [] OTHER -> {}

\* A brace too many, stations without a line in this file, a name before a closing
\* brace, a last line without its end.
MapSlips(l) ==
    \/ l.k \in {"close", "name_close"} /\ text.block = 0
    \/ l.k = "open" /\ text.blocks = 0
    \/ l.k = "name_close" \/ l.lost # "none"

map_read ==
    \E l \in MapLine :
      /\ map.infunc \in 0 .. MaxCount - 1 /\ map.count < MaxCount
      /\ meant' = MapMeant(l)
      /\ IF l.lost = "none" THEN map_read_line(l) ELSE made' = {} /\ UNCHANGED <<map, chips>>
      /\ LET line == l.k \in {"name", "name_open"} /\ text.block = 0
             station == l.k \in {"name", "name_open"} /\ text.block # 0
         IN  /\ text' = [text EXCEPT
                           !.block = CASE l.k \in {"open", "name_open"} -> @ + 1
                                       [] l.k = "close" /\ @ > 0 -> @ - 1 [] OTHER -> @,
                           !.blocks = IF line THEN @ + 1 ELSE @,
                           !.seen = IF line THEN {} ELSE IF station THEN @ \cup {Cardinality(@)} ELSE @]
             /\ Comes(IF l.lost = "none" /\ (line \/ station) /\ map'.chip = 0 THEN "crash" ELSE "none",
                      MapSlips(l))
      /\ UNCHANGED <<pins, cir, innote>>

\* The chip and the count of an earlier file are kept.
map_start == map' = [map EXCEPT !.infunc = 0] /\ UNCHANGED <<cir, innote>>

----------------------------------------------------------------------------
(* Assembler and plain text. *)

\* "entry" is ENTRY(x) or GLOBAL(x), "call*" goes through a register, "callee:" is a label
\* that begins with these four letters, "x:" one of a single letter; "string" is a string
\* with the two characters in it that open a comment.  A comment that ends in the line
\* has the line behind it ("shuts"), or words of its own that begin like one ("says").
AsmLine == [k : {"entry", "call", "call*", "callee:", "label:", "x:", "other"},
            note : {"none", "before", "behind", "opens", "shuts", "says"}]
           \cup [k : {"string"}, note : {"none"}]

\* The line is read from its first character on, whichever side of a comment that is.
asm_read_line(l) ==
    CASE l.note \in {"before", "shuts"} -> {}
      [] l.note \notin {"before", "shuts"} /\ l.k \in {"entry", "label:"} -> {<<"func", "name">>}
      [] l.note \notin {"before", "shuts"} /\ l.k = "call" ->
           {<<"call", IF l.note \in {"behind", "says"} THEN "name_and_comment" ELSE "name">>}
      [] l.note \notin {"before", "shuts"} /\ l.k = "callee:" -> {<<"call", "nothing">>}
      [] OTHER -> {}

AsmMeant(l) ==
    IF text.note /\ l.note # "shuts" THEN {}
    ELSE CASE l.k \in {"entry", "label:", "callee:", "x:"} -> {<<"func", "name">>}
           [] l.k = "call" -> {<<"call", "name">>}
           [] OTHER -> {}

AsmSlips(l) ==
    \/ l.k = "string" /\ ~text.note
    \/ /\ l.k # "other" /\ AsmMeant(l) # {}
       /\ \/ l.k \in {"callee:", "x:"}
          \/ l.note \in {"before", "opens", "shuts"}
          \/ l.note = "behind" /\ l.k = "call"
    \/ l.note = "says" /\ l.k \in {"entry", "call", "callee:", "label:"}

\* A line counts when no comment is open at its end.
asm_read ==
    \E l \in AsmLine :
      /\ l.note \in {"shuts", "says"} <=> (text.note /\ l.note # "none")
      /\ innote' = CASE l.note = "opens" \/ l.k = "string" -> TRUE
                     [] l.note \in {"before", "behind", "shuts", "says"} -> FALSE
                     [] OTHER -> innote
      /\ made' = IF innote' THEN {} ELSE asm_read_line(l)
      /\ meant' = AsmMeant(l)
      /\ text' = [text EXCEPT !.note = CASE l.note = "opens" -> TRUE
                                         [] l.note \in {"shuts", "says"} -> FALSE [] OTHER -> @]
      /\ Comes("none", AsmSlips(l))
      /\ UNCHANGED <<chips, pins, cir, map>>

\* Lines that begin with # are comments; the last line needs its end.
utf8_read ==
    \E k \in {"text", "#", "empty"}, eof \in BOOLEAN :
      /\ made' = IF k = "text" /\ ~eof THEN {<<"string", "line">>} ELSE {}
      /\ meant' = IF k = "text" THEN {<<"string", "line">>} ELSE {}
      /\ Comes("none", k = "text" /\ eof)
      /\ UNCHANGED <<chips, pins, cir, map, innote, text>>

----------------------------------------------------------------------------
Stop == pc' = "end" /\ made' = {} /\ meant' = {} /\ UNCHANGED <<chips, pins, cir, map, innote, text>>

\* The next file, of the same parser.  innote is a local of asm_read.
Start ==
    /\ text.file < MaxFile
    /\ text' = Opened(text.file + 1) /\ pc' = "read"
    /\ CASE wk = "cir" -> cir_start
         [] wk = "map" -> map_start
         [] wk = "s" -> innote' = FALSE /\ UNCHANGED <<cir, map>>
         [] wk = "utf8" -> UNCHANGED <<cir, map, innote>>
    /\ UNCHANGED <<chips, pins, made, meant>>

SheetStep ==
    /\ \/ Reading("cir") /\ cir_read
       \/ Reading("map") /\ map_read
       \/ Reading("s") /\ asm_read
       \/ Reading("utf8") /\ utf8_read
       \/ wk \in {"cir", "map", "s", "utf8"} /\ pc = "read" /\ Stop
       \/ wk \in {"cir", "map", "s", "utf8"} /\ pc = "end" /\ Start
    /\ UNCHANGED wk
=============================================================================
