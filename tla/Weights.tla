------------------------------ MODULE Weights ------------------------------
(***************************************************************************)
(* The model file between "llama quanti" (lv3/llama/detail/quanti.c), that *)
(* copies it with every number halved to 16 bits, and "llama infer"        *)
(* (infer.c), that finds each tensor in the copy at an offset it computes  *)
(* from the header.                                                        *)
(*                                                                         *)
(* Number k of the file behind its header is k, its halves <<k, "low">>    *)
(* and <<k, "high">>; the copy holds halves.                               *)
(*                                                                         *)
(* A product of ints is an int and wraps; where one factor is cast to u64  *)
(* first it does not.  An int below zero that becomes a u64 is more than   *)
(* any file holds, or any malloc gives.                                    *)
(***************************************************************************)
EXTENDS Integers, Sequences, SequencesExt

CONSTANTS
    Headers,    \* [dim, hidden, layers, heads, kv, vocab, seq], vocab negative without shared weights
    IntHalf,    \* the ints go from -IntHalf to IntHalf - 1 (2^31)
    ChunkStop,  \* numbers from which on a chunk is not doubled (0x10000000)
    Missing     \* by how much a file may be too short

\* Each head is given a part of the dimensions.
ASSUME WeightsAssumption ==
    /\ Headers \subseteq [dim : Nat \ {0}, hidden : Nat \ {0}, layers : Nat \ {0}, heads : Nat \ {0},
                         kv : Nat \ {0}, vocab : Int \ {0}, seq : Nat \ {0}]
    /\ IntHalf \in Nat \ {0}
    /\ \A h \in Headers :
         /\ h.heads <= h.dim
         /\ h.dim < IntHalf /\ h.hidden < IntHalf /\ h.layers < IntHalf /\ h.kv < IntHalf /\ h.seq < IntHalf
         /\ -IntHalf < h.vocab /\ h.vocab < IntHalf
    /\ ChunkStop \in Nat \ {0} /\ Missing \subseteq Nat \ {0}

VARIABLES
    header,
    numbers,    \* numbers in the file that is copied
    part,       \* which calc_1 of llama_quanti
    chunks,     \* cnt, the chunks of it written
    copy,       \* the file written
    loaded,     \* what the inference has of each tensor
    copying     \* "quanti", "exit", "copied", "loaded", "failed"

weights == <<header, numbers, part, chunks, copy, loaded, copying>>

Abs(n) == IF n < 0 THEN -n ELSE n
SharedIn(h) == h.vocab > 0
AsInt(n) == ((n + IntHalf) % (2 * IntHalf)) - IntHalf
Divided(a, b) == IF a < 0 THEN -((-a) \div b) ELSE a \div b
KvDim(h) == Divided(AsInt(h.dim * h.kv), h.heads)
HeadSize(h) == h.dim \div h.heads

----------------------------------------------------------------------------
(* Three functions know the layout, each by itself. *)

\* llama_quanti: columns and rows given to calc_1.
Calls(h) ==
    LET square == AsInt(h.dim * h.layers)
        heads == AsInt(KvDim(h) * h.layers)
    IN  << <<h.dim, Abs(h.vocab)>>, <<h.dim, h.layers>>, <<h.dim, square>>, <<h.dim, heads>>, <<h.dim, heads>>,
           <<h.dim, square>>, <<h.dim, h.layers>>, <<h.hidden, square>>, <<h.dim, AsInt(h.hidden * h.layers)>>,
           <<h.hidden, square>>, <<h.dim, 1>>, <<HeadSize(h) \div 2, h.seq>>, <<HeadSize(h) \div 2, h.seq>> >>
        \o IF SharedIn(h) THEN << >> ELSE << <<h.dim, Abs(h.vocab)>> >>

Names == <<"token_embedding_table", "rms_att_weight", "wq", "wk", "wv", "wo", "rms_ffn_weight", "w1", "w2", "w3",
           "rms_final_weight", "freq_cis_real", "freq_cis_imag", "wcls">>
NotRead == {"freq_cis_real", "freq_cis_imag"}

\* llama_info_model: the numbers of each tensor.
llama_info_model(h) ==
    LET layer == h.dim * h.layers
    IN  <<h.dim * Abs(h.vocab), layer, layer * h.dim, layer * KvDim(h), layer * KvDim(h), layer * h.dim, layer,
          layer * h.hidden, layer * h.hidden, layer * h.hidden, h.dim,
          (HeadSize(h) \div 2) * h.seq, (HeadSize(h) \div 2) * h.seq>>
        \o IF SharedIn(h) THEN << >> ELSE <<h.dim * Abs(h.vocab)>>

\* llama_initmodel: the size of each.  Those of token_embedding_table and of
\* rms_att_weight are products of ints, where the same of wcls and of rms_ffn_weight are not.
InitSizes_Mutant(h) ==
    [llama_info_model(h) EXCEPT ![4] = h.layers * h.dim * h.dim, ![5] = h.layers * h.dim * h.dim]
InitSizes(h) ==
    LET square == h.layers * h.dim * h.dim
        heads == h.layers * h.dim * KvDim(h)
        wide == h.layers * h.dim * h.hidden
        cis == (h.seq * HeadSize(h)) \div 2
    IN  <<AsInt(Abs(h.vocab) * h.dim), AsInt(h.layers * h.dim), square, heads, heads, square, h.layers * h.dim,
          wide, wide, wide, h.dim, cis, cis>>
        \o IF SharedIn(h) THEN << >> ELSE <<Abs(h.vocab) * h.dim>>

Offset(sizes, i) ==
    LET sum[n \in 0 .. Len(sizes)] == IF n = 0 THEN 0 ELSE sum[n - 1] + sizes[n]
    IN  sum[i - 1]
Total(sizes) == Offset(sizes, Len(sizes) + 1)

WeightsFresh ==
    /\ part = 1 /\ chunks = 0 /\ copy = << >> /\ loaded = << >> /\ copying = "quanti"
WeightsInit ==
    /\ header \in Headers
    /\ \E n \in {0} \cup Missing : numbers = Total(llama_info_model(header)) - n /\ numbers >= 0
    /\ WeightsFresh

----------------------------------------------------------------------------
(* llama_quanti *)

\* Rows are taken two, four and more at a time while their number is even.
Doubled(call) ==
    LET shape[n \in Nat] ==
          IF n = 0 THEN call
          ELSE LET s == shape[n - 1]
               IN  IF s[2] % 2 = 1 \/ s[1] >= ChunkStop THEN s ELSE <<2 * s[1], s[2] \div 2>>
    IN  shape[ChunkStop]

\* fp32tobf16 of every row in turn: the upper halves move to the front of the same buffer.
fp32tobf16(first, count) ==
    LET whole == [i \in 1 .. 2 * count |-> <<first + (i - 1) \div 2, IF i % 2 = 0 THEN "high" ELSE "low">>]
        buf[j \in 0 .. count] == IF j = 0 THEN whole ELSE [buf[j - 1] EXCEPT ![j] = buf[j - 1][2 * j]]
    IN  SubSeq(buf[count], 1, count)

\* One chunk; a short one, or one of nothing, ends the process with what was written
\* before it.
calc_1 ==
    /\ copying = "quanti" /\ part \in DOMAIN Calls(header)
    /\ LET shape == Doubled(Calls(header)[part])
           first == Len(copy) + 1
       IN  IF Len(copy) + shape[1] > numbers \/ shape[1] = 0
           THEN copying' = "exit" /\ UNCHANGED <<part, chunks, copy>>
           ELSE /\ copy' = copy \o fp32tobf16(first, shape[1])
                /\ IF shape[2] >= 0 /\ chunks + 1 >= shape[2] THEN part' = part + 1 /\ chunks' = 0
                                             ELSE chunks' = chunks + 1 /\ UNCHANGED part
                /\ UNCHANGED copying
    /\ UNCHANGED <<header, numbers, loaded>>

llama_quanti ==
    /\ copying = "quanti" /\ part \notin DOMAIN Calls(header)
    /\ copying' = "copied"
    /\ UNCHANGED <<header, numbers, part, chunks, copy, loaded>>

(* llama_initmodel, of what there is by then; the rotations are not read, a tensor that
   ends early is used as it is, and one too large for malloc ends the process. *)
llama_initmodel ==
    /\ copying \in {"copied", "exit"}
    /\ LET sizes == InitSizes(header)
           Slice(i) == LET from == Offset(sizes, i) IN SubSeq(copy, from + 1, IF from + sizes[i] < Len(copy) THEN from + sizes[i] ELSE Len(copy))
           Tensor(name) == Slice(CHOOSE i \in DOMAIN Names : Names[i] = name)
       IN  IF \E i \in DOMAIN sizes : sizes[i] < 0
           THEN copying' = "failed" /\ UNCHANGED loaded
           ELSE /\ loaded' = [name \in ToSet(Names) \ NotRead |->
                       IF name = "wcls" /\ SharedIn(header) THEN Tensor("token_embedding_table") ELSE Tensor(name)]
                /\ copying' = "loaded"
    /\ UNCHANGED <<header, numbers, part, chunks, copy>>

WeightsStep == calc_1 \/ llama_quanti \/ llama_initmodel
WeightsSpec == WeightsInit /\ [][WeightsStep]_weights
----------------------------------------------------------------------------
\* The products the three take in ints are ints.
InInts(h) ==
    \A n \in {Abs(h.vocab) * h.dim, h.dim * h.layers, h.hidden * h.layers, h.dim * h.kv, KvDim(h) * h.layers} :
      n < IntHalf

(* Every tensor the inference computes with is the one at its place in the file that was
   copied, number for number, upper half for upper half, or the beginning of it where the
   file was too short.  The classifier behind rotations of an odd head is not: their
   length is rounded for each row in one layout and once for all in the other.  Nor is
   anything of a model with a product that is no int: the place of each tensor is counted
   from the sizes before it, and llama_initmodel's first two, of a vocabulary of 2^32
   numbers and more, come out too small, where the other functions' do not. *)
ReadAsWritten ==
    copying = "loaded" /\ InInts(header) =>
      LET sizes == llama_info_model(header)
          Place(name) == CHOOSE i \in DOMAIN Names : Names[i] = IF name = "wcls" /\ SharedIn(header)
                                                                THEN "token_embedding_table" ELSE name
          Numbers(i) == [k \in 1 .. sizes[i] |-> <<Offset(sizes, i) + k, "high">>]
      IN  \A name \in DOMAIN loaded :
            \/ name = "wcls" /\ ~SharedIn(header) /\ HeadSize(header) % 2 = 1
            \/ /\ IsPrefix(loaded[name], Numbers(Place(name)))
               /\ numbers = Total(sizes) => loaded[name] = Numbers(Place(name))
=============================================================================
