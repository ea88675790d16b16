-------------------------------- MODULE Parsers --------------------------------
(* The registered parsers of the learner, one at a time over file after file, as
   worker_read calls them: start, read, stop. *)
EXTENDS Lexer, Sheets, Shapes

parsers == <<wk, pc, lexer, sheets, solids>>

ParsersInit ==
    worker_choose /\ pc = "read" /\ LexerInit /\ SheetsInit /\ ShapesInit

worker_read ==
    \/ LexerStep /\ UNCHANGED <<sheets, solids>>
    \/ SheetStep /\ UNCHANGED <<lexer, solids>>
    \/ ShapesStep(MaxFile) /\ UNCHANGED <<lexer, sheets>>

ParsersSpec == ParsersInit /\ [][worker_read]_parsers

----------------------------------------------------------------------------
(* What the line parsers and the drawing parser make of a text is what its author meant:
   feet hang on the net around them, stations on their line, shapes in the shape around
   them, points on the shape that names them; one name is one chip in one file and never
   that of another file.  It holds until the text and the parser part for one of the
   reasons named with the parsers, or a table is full.  Not compared is the number in the
   relation of a line, which is left from the line before. *)
DrawnAsWritten == pc \in {"read", "end"} => Said(made) = meant /\ drawn = wanted
=============================================================================
