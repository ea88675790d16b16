-------------------------------- MODULE Lexer --------------------------------
(* How the C and the Java parser (c.c, java.c) read a file: one character after the
   other, with one or two looked at ahead, in a handful of static flags.  Out of the
   flags the C parser guesses which word is the name of a function: prophet is the
   word that may be one, doubt says that it has ended, insist is the word before the
   round bracket of a definition.  The text is any text: its characters are settled as
   they are looked at.  Beside the flags run the lexical rules of the language, and a
   file is followed until the first of the slips listed below. *)
EXTENDS Worker

CONSTANTS
    Deepest,        \* bound: open braces
    Rounds          \* bound: open round brackets at file level

ASSUME BoundsAssumption == Deepest \in Nat \ {0} /\ Rounds \in Nat \ {0}

VARIABLES
    at,         \* its static variables
    win,        \* the characters looked at and not taken yet
    told,       \* what the last step reported
    ref,        \* where the rules of the language are: mode, and open braces
    before        \* what kind of character was taken last
lexer == <<at, win, told, ref, before>>

\* "w" is a letter, a digit or an underscore, "open" and "close" are the braces; "semi"
\* stands for = ; | and "&" for & + - > <; "%" for every other mark.  "#if" and its like
\* are the sign, the blanks and the letters that are taken in one go; "#define" is also
\* for #include.  Line ends are one character.
Directive == {"#if", "#else", "#endif", "#define"}
Char == {"w", "blank", "nl", "(", ")", "open", "close", "*", "/", "dq", "sq", "bs",
         "comma", ":", "semi", "&", "%", "#", "eof"} \cup Directive

\* A word as the parser points to it is "whole" when it starts where a word starts and
\* is the last one so far; otherwise the name says what went wrong.
None == ""
Nobody == [as |-> "", name |-> None]

Reset == [infunc |-> 0, inmarco |-> FALSE, innote |-> 0, instr |-> FALSE, chance |-> FALSE,
          roundbracket |-> 0, prophet |-> None, insist |-> None, doubt |-> ""]
Outside == [mode |-> "code", depth |-> 0]

LexerInit == at = Reset /\ win = << >> /\ told = Nobody /\ ref = Outside /\ before = "mark"

----------------------------------------------------------------------------
(* The rules of the language. *)

Into(r, m) == [r EXCEPT !.mode = m]

\* A character of code.
InCode(r, ch) ==
    CASE ch = "/" -> Into(r, "slash")
      [] ch = "dq" -> Into(r, "str")
      [] ch = "sq" -> Into(r, "chr")
      [] ch = "bs" -> Into(r, "spliced")
      [] ch = "open" -> [mode |-> "code", depth |-> r.depth + 1]
      [] ch = "close" -> [mode |-> "code", depth |-> r.depth - 1]
      [] OTHER -> Into(r, "code")

Lexed(r, ch) ==
    CASE r.mode = "code" -> InCode(r, ch)
      [] r.mode = "spliced" -> Into(r, "code")
      [] r.mode = "slash" -> CASE ch = "/" -> Into(r, "line") [] ch = "*" -> Into(r, "block")
                               [] OTHER -> InCode(r, ch)
      [] r.mode = "line" -> CASE ch = "nl" -> Into(r, "code") [] ch = "bs" -> Into(r, "line_bs")
                              [] OTHER -> r
      [] r.mode = "line_bs" -> IF ch = "bs" THEN r ELSE Into(r, "line")
      [] r.mode \in {"block", "star"} ->
           CASE ch = "*" -> Into(r, "star")
             [] ch = "/" /\ r.mode = "star" -> Into(r, "code")
             [] OTHER -> Into(r, "block")
      [] r.mode = "str" -> CASE ch \in {"dq", "nl"} -> Into(r, "code")
                             [] ch = "bs" -> Into(r, "str_bs")
                             [] OTHER -> r
      [] r.mode = "str_bs" -> Into(r, "str")
      [] r.mode = "chr" -> CASE ch \in {"sq", "nl"} -> Into(r, "code")
                             [] ch = "bs" -> Into(r, "chr_bs")
                             [] OTHER -> r
      [] r.mode = "chr_bs" -> Into(r, "chr")

\* Where they are behind the characters of a step.
Beyond(eaten) ==
    LET r[i \in 0 .. Len(eaten)] == IF i = 0 THEN ref ELSE Lexed(r[i - 1], eaten[i])
    IN  r[Len(eaten)]

InBlock == ref.mode \in {"block", "star"}

\* Where the parsers part with the language, knowingly or not: `eaten` is what the
\* step takes.
Slips(eaten) ==
    LET ch == eaten[1] IN
    \* the end of the file is eaten, and what an earlier file left is read on
    \/ \E i \in DOMAIN eaten : eaten[i] = "eof"
    \* a backslash eats the star that ends a comment
    \/ InBlock /\ ch = "bs" /\ eaten[2] = "*"
    \* a mark of two characters is broken over two lines
    \/ ref.mode \in {"slash", "star"} /\ ch = "bs" /\ eaten[2] = "nl"
    \* the second of two backslashes continues the line
    \/ ~InBlock /\ ch = "nl" /\ before = "bsbs"
    \* what is skipped as a character in quotes is something else
    \/ /\ ch = "sq" /\ Len(eaten) = 3
       /\ ref.mode = "chr" \/ eaten[2] \in {"bs", "nl", "sq"}
    \* what is in quotes is longer than a character or an escape
    \/ ref.mode = "chr" /\ ch \notin {"sq", "bs", "nl"}

----------------------------------------------------------------------------
(* The parsers, one action per branch of their loops. *)

\* The windows of at least n characters that begin with ch.
Ahead(ch, n) ==
    LET known == IF win = << >> THEN <<ch>> ELSE win
        more == n - Len(known)
    IN  IF known[1] # ch THEN {}
        ELSE IF more <= 0 THEN {known} ELSE {known \o s : s \in [1 .. more -> Char]}

\* One round of the loop: the statics, what is taken, what was looked at behind it.
Round(a, eaten, rest, what, as) ==
    /\ at' = a /\ win' = rest /\ before' = what
    /\ told' \in as
    /\ ref' = IF at.infunc = 0 THEN [Beyond(eaten) EXCEPT !.depth = a.infunc]
               ELSE Beyond(eaten)
    /\ pc' = IF Slips(eaten) THEN "slipped" ELSE "read"
    /\ UNCHANGED wk

Taken(a, t, k) == Round(a, SubSeq(t, 1, k), SubSeq(t, k + 1, Len(t)), "mark", {Nobody})
Shown(as, p) == {Nobody, [as |-> as, name |-> p]}

InText == at.innote > 0 \/ at.instr
Lost == [at EXCEPT !.prophet = None, !.doubt = ""]

\* Nothing happens: inside comments and strings, and for the marks no branch knows.
Inert(ch) ==
    \/ ch = "%"
    \/ ch \notin {"nl", "bs", "dq", "sq", "/", "*", "eof"} /\ (InText \/ wk = "java")
    \/ ch = "dq" /\ at.innote > 0
    \/ ch \in {"sq", "/"} /\ InText
    \/ ch = "*" /\ (at.innote = 1 \/ at.instr)
inert == \E ch \in Char : Inert(ch) /\ \E t \in Ahead(ch, 1) : Taken(at, t, 1)

\* The word that is in the making has ended.
newline_Mutant ==
    \E t \in Ahead("nl", 1) :
      Round([at EXCEPT !.innote = IF @ = 1 THEN 0 ELSE @,
                       !.doubt = IF at.prophet # None THEN "blank" ELSE @],
            <<"nl">>, Tail(t), "blank", {Nobody})
newline ==
    \E t \in Ahead("nl", 1) :
      Round([at EXCEPT !.instr = FALSE, !.innote = IF @ = 1 THEN 0 ELSE @,
                       !.doubt = IF at.prophet # None THEN "blank" ELSE @],
            <<"nl">>, Tail(t), "blank", {Nobody})

\* A backslash takes whatever is behind it along, in every state.
backslash ==
    \E t \in Ahead("bs", 2) :
      Round(at, SubSeq(t, 1, 2), SubSeq(t, 3, Len(t)),
            IF t[2] = "bs" THEN "bsbs" ELSE "mark", {Nobody})

\* A string is reported when its text looks like words.
double_quote ==
    \E t \in Ahead("dq", 1) :
      /\ at.innote = 0
      /\ Round([at EXCEPT !.instr = ~@], <<"dq">>, Tail(t), "mark",
               IF at.instr /\ wk = "c" THEN Shown("string", None) ELSE {Nobody})

\* A character in quotes is skipped only when the third one is a quote.
single_quote ==
    /\ ~InText
    /\ \E t \in Ahead("sq", 3) : Taken(at, t, IF t[3] = "sq" THEN 3 ELSE 1)

slash ==
    /\ ~InText
    /\ \E t \in Ahead("/", 2) :
         CASE t[2] = "/" -> Taken([at EXCEPT !.innote = 1], t, 2)
           [] t[2] = "*" -> Taken([at EXCEPT !.innote = 9], t, 2)
           [] OTHER -> Taken(at, t, 1)

\* Also the star of a comment forgets the word before it.
star ==
    LET a == IF wk = "c" THEN Lost ELSE at IN
    /\ at.innote # 1 /\ ~at.instr
    /\ \E t \in Ahead("*", 2) :
         IF t[2] = "/" /\ at.innote = 9 THEN Taken([a EXCEPT !.innote = 0], t, 2)
         ELSE Taken(a, t, 1)

\* The branches for the code of a C file.
Code == wk = "c" /\ ~InText
Mark(ch, a) == Code /\ \E t \in Ahead(ch, 1) : Taken(a, t, 1)

\* What is taken of a directive is no word; inside one #if the letters of the next
\* are left for the loop.
directive ==
    /\ Code
    /\ \E ch \in Directive : \E t \in Ahead(ch, 1) :
         LET p == at.prophet
             a == [at EXCEPT !.inmarco = CASE ch \in {"#if", "#else"} -> TRUE
                                           [] ch = "#endif" -> FALSE [] OTHER -> @,
                             !.prophet = IF p = None THEN p ELSE "glued"]
         IN  IF ch = "#if" /\ at.inmarco
             THEN Round(at, <<"#">>, <<"w">> \o Tail(t), "mark", {Nobody})
             ELSE Round(a, <<ch>>, Tail(t), "#", {Nobody})
other_directive == Mark("#", at)

open_bracket ==
    /\ Code
    /\ \E t \in Ahead("(", 1) :
         IF at.infunc > 0
         THEN Round(IF at.prophet # None THEN Lost ELSE at, <<"(">>, Tail(t), "mark",
                    IF at.prophet # None THEN Shown("call", at.prophet) ELSE {Nobody})
         ELSE /\ at.roundbracket < Rounds
              /\ Taken([(IF at.prophet # None THEN Lost ELSE at) EXCEPT
                          !.insist = IF at.prophet # None /\ at.roundbracket = 0
                                     THEN at.prophet ELSE @,
                          !.roundbracket = @ + 1], t, 1)

close_bracket ==
    IF at.infunc > 0 THEN Mark(")", Lost)
    ELSE /\ at.roundbracket > 0 - Rounds
         /\ Mark(")", [Lost EXCEPT !.chance = TRUE, !.roundbracket = @ - 1])

\* A brace behind the bracket of insist, with nothing in between, opens a function.
open_brace ==
    /\ at.infunc < Deepest
    /\ IF at.infunc = 0 /\ at.chance /\ at.insist # None
       THEN /\ Code
            /\ \E t \in Ahead("open", 1) :
                 Round([Lost EXCEPT !.infunc = 1, !.chance = FALSE, !.insist = None],
                       <<"open">>, Tail(t), "mark", Shown("func", at.insist))
       ELSE Mark("open", [at EXCEPT !.infunc = IF @ = 0 THEN 0 ELSE @ + 1])

close_brace ==
    Mark("close", [at EXCEPT !.chance = FALSE, !.infunc = IF @ = 0 THEN 0 ELSE @ - 1])

comma_Mutant == Mark("comma", [at EXCEPT !.chance = FALSE, !.prophet = None])
comma == Mark("comma", [Lost EXCEPT !.chance = FALSE])

\* doubt is left standing, here with the note that it is.
colon == Mark(":", [at EXCEPT !.prophet = None, !.doubt = IF @ = "" THEN "" ELSE "colon"])

semicolon == Mark("semi", [Lost EXCEPT !.chance = FALSE, !.insist = None])
operator_mark == Mark("&", IF at.infunc > 0 THEN [Lost EXCEPT !.insist = None] ELSE at)

blank ==
    /\ Code
    /\ \E t \in Ahead("blank", 1) :
         Round(IF at.prophet = None THEN at ELSE [at EXCEPT !.doubt = "blank"],
               <<"blank">>, Tail(t), "blank", {Nobody})

\* A letter: of a new prophet when there is none or it is in doubt.
Prophet ==
    LET p == at.prophet
        new == CASE before = "w" -> IF at.doubt = "colon" THEN "cut_by_colon" ELSE "inside"
                 [] before = "#" -> "cut_by_directive"
                 [] OTHER -> "whole"
    IN  CASE p = None \/ at.doubt # "" -> new
          [] p # None /\ at.doubt = "" /\ before = "blank" -> "far"
          [] p # None /\ at.doubt = "" /\ before \notin {"w", "blank"} -> "glued"
          [] OTHER -> p
word ==
    /\ Code
    /\ \E t \in Ahead("w", 1) :
         Round([at EXCEPT !.chance = FALSE, !.prophet = Prophet,
                          !.doubt = IF at.prophet = None THEN @ ELSE ""],
               <<"w">>, Tail(t), "w", {Nobody})

\* The zero behind the text.
stop ==
    /\ pc' = "end"
    /\ \E t \in Ahead("eof", 1) : win' = << >>
    /\ told' = Nobody
    /\ UNCHANGED <<wk, at, ref, before>>

\* The next file.  c_start resets everything, java_start only its counters.
c_start == wk = "c" /\ at' = Reset /\ pc' = "read"
java_start ==
    /\ wk = "java" /\ at' = at
    /\ pc' = IF InText THEN "slipped" ELSE "read"
start ==
    /\ c_start \/ java_start
    /\ ref' = Outside /\ before' = "mark"
    /\ UNCHANGED <<wk, win, told>>

LexerStep ==
    \/ /\ Reading("c") \/ Reading("java")
       /\ \/ inert \/ newline \/ backslash \/ double_quote \/ single_quote \/ slash
          \/ star \/ directive \/ other_directive \/ open_bracket \/ close_bracket
          \/ open_brace \/ close_brace \/ comma \/ colon \/ semicolon \/ operator_mark
          \/ blank \/ word \/ stop
    \/ (Ended("c") \/ Ended("java")) /\ start

----------------------------------------------------------------------------
(* Properties. *)

(* Until a file slips, the flags of the parser say where the language is: in a line
   comment, a block comment, a string or code; and inside a function its counter is
   the number of braces that are open since the one that began it. *)
LexedAsC ==
    pc # "slipped" =>
      /\ at.innote = CASE ref.mode \in {"line", "line_bs"} -> 1 [] InBlock -> 9 [] OTHER -> 0
      /\ at.instr <=> ref.mode = "str"
      /\ at.infunc = ref.depth

(* A name reported as a function or a call is the word right before its round bracket,
   from its first letter on, but for three cases: behind a colon it may lose its first
   letter; the rest of a directive like #ifdef is taken for a word; and behind a name
   that only a mark the parser does not know parts from the next, or that a directive
   follows, blank or not, as in "a #if (", the earlier name is the one reported. *)
NamesAreWhole ==
    told.as \in {"func", "call"} =>
      told.name \in {"whole", "cut_by_colon", "cut_by_directive", "glued"}
=============================================================================
