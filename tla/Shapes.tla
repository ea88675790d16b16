-------------------------------- MODULE Shapes --------------------------------
(* The parser of drawings in space (3d.c), token by token: "1(x, y, z)" is a point,
   "name{ ... }" a shape with shapes in it, digits before the brace that closes it are
   its points, and a name alone on a line is a shape of before.  The parser keeps a
   stack of shapes, the place where the last word began, and whether it is in a
   comment; its start function resets none of them. *)
EXTENDS Worker

CONSTANTS
    Number,         \* the numbers points are given
    Levels          \* entries of the stack

VARIABLES
    shapes,         \* the table: for which shape of the text a record was made
    points,         \* the point each number was last given to, 0 for none
    three,          \* the statics: rsp, stack, inname, innote, inpoint; and num
    fresh,          \* whether the next byte is the first of the file
    draft,          \* the text as it is meant: file, shapes so far, those open
    drawn, wanted   \* what the last step related, and what it should have
solids == <<shapes, points, three, fresh, draft, drawn, wanted>>

ASSUME ShapesAssumption == Number \subseteq Nat /\ Levels \in Nat \ {0}

\* A word of digits is the set of numbers in it; a name is the empty set.
Nowhere == <<"none", {}>>
Draft(f) == [file |-> f, count |-> 0, open |-> << >>]

ShapesInit ==
    /\ shapes = << >> /\ points = [n \in Number \cup {0} |-> 0]
    /\ three = [rsp |-> 0, stack |-> [i \in 0 .. Levels - 1 |-> 0], inname |-> Nowhere,
                innote |-> FALSE, inpoint |-> FALSE, num |-> 0]
    /\ fresh = TRUE
    /\ draft = Draft(1) /\ drawn = {} /\ wanted = {}

Token == {<<"name", {}>>} \cup ({"digits"} \X {s \in SUBSET Number : s # {}})
         \cup ({"(", ")", "open", "close", "nl", "/*", "*/"} \X {{}})

Ends(slips) == pc' = IF slips THEN "slipped" ELSE "read"
Stands == UNCHANGED <<shapes, points>>
Nothing3 == drawn' = {} /\ wanted' = {}

Innermost == IF draft.open = << >> THEN 0 ELSE draft.open[Len(draft.open)]

----------------------------------------------------------------------------
\* What is left of a word without its first character.
Beheaded == {Nowhere, <<"name", {}>>} \cup ({"digits"} \X {s \in SUBSET Number : s # {}})

\* A word begins where none is in the making; later ones are part of it.  The place 0
\* stands for no word, so one at the head of the file begins at its second character.
three_word(t) ==
    /\ t[1] \in {"name", "digits"}
    /\ \E w \in IF fresh THEN Beheaded ELSE {t} :
         three' = IF three.innote THEN three
                  ELSE [three EXCEPT !.inname = IF @ = Nowhere THEN w
                                                ELSE <<@[1], IF @[1] = "digits" THEN @[2] \cup t[2] ELSE @[2]>>]
    /\ Ends(fresh) /\ Nothing3 /\ Stands /\ UNCHANGED draft

\* three_call looks for the shape among the relations that end at the name.  Those of
\* three_shape begin there, so none is ever found.
three_newline(t) ==
    /\ t[1] = "nl"
    /\ three' = [three EXCEPT !.inname = Nowhere]
    /\ Ends(three.inname # Nowhere /\ ~three.inpoint)
    /\ Nothing3 /\ Stands /\ UNCHANGED draft

\* A comment between the numbers of a shape is read with them.
three_comment(t) ==
    /\ t[1] \in {"/*", "*/"}
    /\ three' = [three EXCEPT !.innote = t[1] = "/*"]
    /\ Ends(t[1] = "/*" /\ three.inname[1] = "digits")
    /\ Nothing3 /\ Stands /\ UNCHANGED draft

\* The number of a point; without one the last number, or that at the head of the file.
three_number(t) ==
    /\ t[1] = "(" /\ ~three.innote
    /\ \E n \in CASE three.inname[1] = "digits" -> three.inname[2]
               [] three.inname[1] = "name" -> {three.num}
               [] OTHER -> Number \cup {three.num} :
         three' = [three EXCEPT !.num = n, !.inpoint = TRUE, !.inname = Nowhere]
    /\ Ends(three.inname[1] # "digits" \/ \A n \in Number : three.inname[2] # {n} \/ three.inpoint)
    /\ Nothing3 /\ Stands /\ UNCHANGED draft

\* Any number is taken for an index, and a point of an earlier file is overwritten.
three_point(t) ==
    /\ t[1] = ")" /\ ~three.innote
    /\ three' = [three EXCEPT !.inpoint = FALSE, !.inname = Nowhere]
    /\ points' = IF Inside(three.num) THEN [points EXCEPT ![three.num] = draft.file] ELSE points
    /\ pc' = IF ~Inside(three.num) THEN "overrun"
             ELSE IF ~three.inpoint \/ points[three.num] \notin {0, draft.file} THEN "slipped" ELSE "read"
    /\ Nothing3
    /\ UNCHANGED <<shapes, draft>>

\* The new shape hangs under the one on top of the stack, or under its name.
three_shape(t) ==
    LET shap == pin_write(shapes, <<draft.file, draft.count + 1>>) IN
    /\ t[1] = "open" /\ ~three.innote
    /\ drawn' = {<<IF three.rsp <= 0 THEN <<0, 0>> ELSE shapes[three.stack[three.rsp - 1]],
                   shap.table[shap.at]>>}
    /\ wanted' = {<<IF Innermost = 0 THEN <<0, 0>> ELSE <<draft.file, Innermost>>,
                    <<draft.file, draft.count + 1>>>>}
    /\ draft' = [draft EXCEPT !.count = @ + 1, !.open = Append(@, draft.count + 1)]
    /\ shapes' = shap.table
    /\ IF Inside(shap.at) /\ three.rsp \in 0 .. Levels - 1
       THEN /\ three' = [three EXCEPT !.stack[three.rsp] = shap.at, !.rsp = @ + 1, !.inname = Nowhere]
            /\ Ends(three.inname = Nowhere \/ three.inpoint)
       ELSE UNCHANGED three /\ pc' = "overrun"
    /\ UNCHANGED points

\* The shape that closes is related to the points numbered before the brace.
three_foot(t) ==
    LET feet == IF three.inname[1] = "digits" THEN three.inname[2] ELSE {} IN
    /\ t[1] = "close" /\ ~three.innote
    /\ drawn' = IF three.rsp <= 0 THEN {}
                ELSE {<<shapes[three.stack[three.rsp - 1]], <<points[n], 0>>>> : n \in feet}
    /\ wanted' = {<<<<draft.file, Innermost>>, <<draft.file, 0>>>> : n \in feet}
    /\ three' = [three EXCEPT !.rsp = @ - 1, !.inname = Nowhere]
    /\ draft' = [draft EXCEPT !.open = IF @ = << >> THEN @ ELSE SubSeq(@, 1, Len(@) - 1)]
    /\ Ends(draft.open = << >> \/ three.inname[1] = "name" \/ three.inpoint
            \/ \E n \in feet : points[n] # draft.file)
    /\ Stands

three_skip(t) ==
    /\ t[1] \in {"(", ")", "open", "close"} /\ three.innote
    /\ Ends(FALSE) /\ Nothing3 /\ Stands /\ UNCHANGED <<three, draft>>

three_stop == pc' = "end" /\ Nothing3 /\ Stands /\ UNCHANGED <<three, draft>>

\* three_start is empty: what is open at the end of a file goes on in the next.
three_start(max) ==
    /\ draft.file < max
    /\ draft' = Draft(draft.file + 1)
    /\ Ends(three.rsp # 0 \/ three.inname # Nowhere \/ three.innote \/ three.inpoint)
    /\ Nothing3 /\ Stands /\ UNCHANGED three

ShapesStep(max) ==
    /\ \/ /\ Reading("3d")
          /\ \/ /\ \E t \in Token : \/ three_word(t) \/ three_newline(t) \/ three_comment(t)
                                    \/ three_number(t) \/ three_point(t) \/ three_shape(t)
                                    \/ three_foot(t) \/ three_skip(t)
                /\ fresh' = FALSE
             \/ three_stop /\ UNCHANGED fresh
       \/ Ended("3d") /\ three_start(max) /\ fresh' = TRUE
    /\ UNCHANGED wk
=============================================================================
