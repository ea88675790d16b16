------------------------------- MODULE Binary -------------------------------
(***************************************************************************)
(* The commands of evil.c over a binary: one of the walks of Walk, one of  *)
(* the assemblers and disassemblers of Assembly, or the listing of the     *)
(* sections of an executable, of Executable.  They share no state; a walk  *)
(* calls the disassembler for what it prints and for how long each         *)
(* instruction is, which Assembly shows to agree with what the walk reads. *)
(***************************************************************************)
EXTENDS Walk, Assembly, Executable

\* The argument of main names a walk, or one of the others.
main ==
    /\ Fresh /\ Untouched
    /\ \/ Init
       \/ /\ cmd = ""
          /\ code = [a \in 0 .. len - 1 |-> Unread]
          /\ known = << >> /\ frames = << >> /\ stack = << >> /\ here = Nowhere
          /\ seen = {} /\ pc = "end"

Step ==
    \/ Next /\ UNCHANGED <<tools, file>>
    \/ cmd = "" /\ stage = "" /\ ToolStep /\ UNCHANGED <<vars, file>>
    \/ cmd = "" /\ tool = "none" /\ ExeStep /\ UNCHANGED <<vars, tools>>

\* One thread over a buffer in memory.
MainSpec == main /\ [][Step]_<<vars, tools, file>> /\ WF_vars(Next)
=============================================================================
