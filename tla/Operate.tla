------------------------------ MODULE Operate ------------------------------
(***************************************************************************)
(* The commands of evil.c that change nothing in the database: those of    *)
(* lv2/operate that search a loaded store, route, of Route, and render and *)
(* kirchhoff, of Gather; and those of lv3/llama, of Llama and Weights.     *)
(* Each is a process of its own; which one is settled as it begins.        *)
(***************************************************************************)
EXTENDS Route, Gather, Llama, Weights

VARIABLE command
everything == <<vars, gather, llama, weights, command>>

\* What the others would begin with, where they are not the command that was given.
Nothing == CHOOSE d \in Databases : Len(d.wire) = 0
NoRoute == /\ db = Nothing
           /\ ends = [s \in Sides |-> CHOOSE c \in Named : TRUE]
           /\ q = [s \in Sides |-> <<[chip |-> ends[s], parent |-> 1]>>]
           /\ cur = [s \in Sides |-> 1] /\ upto = cur
           /\ side = 0 /\ w = 0 /\ round = 0 /\ ret = [s \in Sides |-> 0] /\ pc = "done"
NoStore == CHOOSE d \in Stores : Len(d.wire) = 0
NoVersion == CHOOSE v \in DOMAIN Vocab : TRUE
NoHeader == CHOOSE h \in Headers : TRUE

\* main and llama2.c's llama: by the name of the command.
main ==
    /\ command \in {"route", "gather", "llama", "weights"}
    /\ IF command = "route" THEN Init ELSE NoRoute
    /\ IF command = "gather" THEN GatherInit ELSE store = NoStore /\ GatherFresh
    /\ IF command = "llama" THEN LlamaInit ELSE version = NoVersion /\ feed = << >> /\ LlamaFresh
    /\ IF command = "weights" THEN WeightsInit ELSE header = NoHeader /\ numbers = 0 /\ WeightsFresh

OperateStep ==
    /\ UNCHANGED command
    /\ \/ command = "route" /\ Next /\ UNCHANGED <<gather, llama, weights>>
       \/ command = "gather" /\ GatherStep /\ UNCHANGED <<vars, llama, weights>>
       \/ command = "llama" /\ LlamaStep /\ UNCHANGED <<vars, gather, weights>>
       \/ command = "weights" /\ WeightsStep /\ UNCHANGED <<vars, gather, llama>>

OperateSpec == main /\ [][OperateStep]_everything /\ WF_vars(Next)
=============================================================================
