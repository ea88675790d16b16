------------------------------- MODULE Llama -------------------------------
(***************************************************************************)
(* The conversation of the command "llama infer"                           *)
(* (lv3/llama/detail/infer.c): lines of input become a prompt, the prompt  *)
(* becomes tokens, the tokens pass through the transformer one by one, and *)
(* an answer is drawn token by token and passed through it too.            *)
(*                                                                         *)
(* A letter is a whole character of the input; token id is entry id + 1 of *)
(* the vocabulary.  What the transformer computes is left open: of its     *)
(* state the key and value cache is kept, as the token each place was      *)
(* written for, and the probabilities it ends with are any of Dists.       *)
(* Loops are functions of how far they have come.                          *)
(***************************************************************************)
EXTENDS Integers, Sequences, SequencesExt, FiniteSetsExt

CONSTANTS
    Vocab,      \* by version (0, 2, 3): the vocabulary, entries [text, score]
    SeqLen,     \* by version: seq_len of the model
    Inputs,     \* what may be on standard input: sequences of lines
    Dists,      \* probabilities by token, in parts of Whole
    Whole,
    Coins,      \* random_f32 is one of 0, 1 / Coins, ..., (Coins - 1) / Coins
    LineRoom,   \* bytes of str (4096)
    Special,    \* of llama3: the ids of its headers
    Opening, Closing    \* "[inst]" and "[/inst]" of llama2

NewLine == 10

TokenInfo == [text : Seq(Nat), score : Int]
Readers(v, text) == \A i \in DOMAIN text : \E k \in DOMAIN Vocab[v] : Vocab[v][k].text = <<text[i]>>

\* The sums of the first k of a list of numbers.
Sums(list) == LET upto[k \in 0 .. Len(list)] == IF k = 0 THEN 0 ELSE upto[k - 1] + list[k] IN upto

\* The vocabularies have the words that the code knows by number, and those of the marks
\* of llama2; softmax leaves probabilities that add up.
ASSUME LlamaAssumption ==
    /\ DOMAIN Vocab \subseteq {0, 2, 3}
    /\ \A v \in DOMAIN Vocab : Vocab[v] \in Seq(TokenInfo) /\ Len(Vocab[v]) >= 3 /\ SeqLen[v] \in Nat
    /\ Inputs \subseteq Seq(Seq(Nat))
    /\ Opening \in Seq(Nat) /\ Closing \in Seq(Nat)
    /\ 2 \in DOMAIN Vocab => Readers(2, Opening) /\ Readers(2, Closing)
    /\ 3 \in DOMAIN Vocab =>
         \A f \in {"begin", "gap", "start", "system", "end", "eot", "user", "assistant"} :
           Special[f] \in 0 .. Len(Vocab[3]) - 1
    /\ Whole \in Nat \ {0} /\ Coins \in Nat \ {0} /\ LineRoom \in Nat
    /\ \A d \in Dists : d \in Seq(Nat) /\ Len(d) >= 2 /\ Sums(d)[Len(d)] = Whole

VARIABLES
    version,    \* mi->llamaversion
    known,      \* how much of the vocabulary was read
    feed,       \* lines not yet read
    prompt,     \* str
    tokens,     \* prompt_tokens
    cache,      \* key_cache and value_cache
    pos,
    drawn,      \* the token sampled and the probabilities it was sampled from
    talk        \* "load", "ask", "feed", "answer", "overrun"

llama == <<version, known, feed, prompt, tokens, cache, pos, drawn, talk>>

NotDrawn == [token |-> 0, from |-> << >>]
LlamaFresh ==
    /\ known = 0 /\ prompt = << >> /\ tokens = << >> /\ pos = 0 /\ drawn = NotDrawn
    /\ cache = << >> /\ talk = "load"
LlamaInit == version \in DOMAIN Vocab /\ feed \in Inputs /\ LlamaFresh

Words == Vocab[version]
Text(id) == Words[id + 1].text

\* llama_inittokenizer: a file that ends early leaves the rest of the vocabulary unset.
\* llama_initstate: a cache of seq_len places.
llama_inittokenizer ==
    /\ talk = "load" /\ talk' = "ask"
    /\ known' \in {Len(Words) - 3, Len(Words)}
    /\ cache' = [i \in 1 .. SeqLen[version] |-> 0]
    /\ UNCHANGED <<version, feed, prompt, tokens, pos, drawn>>

----------------------------------------------------------------------------
(* The prompt. *)

\* str_lookup: the first of the words with that text, -1 without one.
Matches(text) == {i \in 1 .. known : Words[i].text = text}
str_lookup(text) == IF Matches(text) = {} THEN -1 ELSE Min(Matches(text)) - 1

\* A list of tokens under way.  broken: past seq_len it is written outside of its
\* memory; a lookup that fails, and the text of a token, go beyond what was read.
List(ids) == [ids |-> ids, ok |-> TRUE, broken |-> Len(ids) > SeqLen[version]]
Broken(list) ==
    [list EXCEPT !.broken = \/ @ \/ Len(list.ids) > SeqLen[version]
                            \/ known < Len(Words) /\ (~list.ok \/ Len(list.ids) > 1)]

Lettered(l, id) ==
    IF ~l.ok THEN l
    ELSE IF id = -1 THEN [l EXCEPT !.ok = FALSE] ELSE [l EXCEPT !.ids = Append(@, id)]
Letters(list, text) ==
    LET upto[n \in 0 .. Len(text)] ==
          IF n = 0 THEN [list EXCEPT !.ok = TRUE] ELSE Lettered(upto[n - 1], str_lookup(<<text[n]>>))
    IN  Broken(upto[Len(text)])

\* Of the pairs that make a word, the one of the best score, the first of them.
Pairing(ids, i) == str_lookup(Text(ids[i]) \o Text(ids[i + 1]))
Best(ids) ==
    LET pairs == {i \in 1 .. Len(ids) - 1 : Pairing(ids, i) # -1}
        score == [i \in pairs |-> Words[Pairing(ids, i) + 1].score]
    IN  IF pairs = {} THEN 0 ELSE Min({i \in pairs : \A k \in pairs : score[k] <= score[i]})

\* The word in the place of the pair.  (The _Mutant forms are the same code with a bug
\* in it; the run finds each of them.)
Joining_Mutant(ids, i) == [k \in 1 .. Len(ids) - 1 |-> IF k = i THEN Pairing(ids, i) ELSE ids[k]]
Joining(ids, i) == SubSeq(ids, 1, i - 1) \o <<Pairing(ids, i)>> \o SubSeq(ids, i + 2, Len(ids))

\* The letters are appended to the tokens before, and pairs of all of them merged; a
\* letter without a word ends it there, with nothing merged.
Merged[ids \in Seq(Nat)] == IF Best(ids) = 0 THEN ids ELSE Merged[Joining(ids, Best(ids))]
bpe_encode(list, text) ==
    LET spelt == Letters(list, text)
    IN  IF spelt.broken \/ ~spelt.ok THEN spelt ELSE [spelt EXCEPT !.ids = Merged[@]]

With3(list, ids) == Broken([list EXCEPT !.ids = @ \o ids])
Header(who) == <<Special.start, Special[who], Special.end>>

\* Only llama3 looks at what bpe_encode returns.
llama_prompt_llama(text) == [bpe_encode(List(<<1>>), text) EXCEPT !.ok = TRUE]
llama_prompt_llama2(text) ==
    [bpe_encode(bpe_encode(bpe_encode(List(<<1>>), Opening), text), Closing) EXCEPT !.ok = TRUE]
llama_prompt_llama3(text) ==
    LET head == List(<<Special.begin, Special.gap>> \o Header("system")
                       \o <<Special.eot, Special.gap>> \o Header("user"))
        said == bpe_encode(head, text)
    IN  IF said.ok THEN With3(said, <<Special.eot, Special.gap>> \o Header("assistant")) ELSE said

Listed(text) == CASE version = 3 -> llama_prompt_llama3(text)
                  [] version = 2 -> llama_prompt_llama2(text)
                  [] OTHER -> llama_prompt_llama(text)

\* getinputincludingcrlf: the lines up to an empty one, a new line between them; at the
\* end of the input, also after the last.
Ended == \A i \in DOMAIN feed : feed[i] # << >>
LinesRead == IF Ended THEN Len(feed) ELSE SelectInSeq(feed, LAMBDA l : l = << >>) - 1
Typed ==
    LET upto[n \in 0 .. LinesRead] ==
          IF n = 0 THEN << >>
          ELSE upto[n - 1] \o feed[n] \o IF n < LinesRead \/ Ended THEN <<NewLine>> ELSE << >>
    IN  upto[LinesRead]

\* input does not look at the length it is given; behind what was typed fgets leaves a
\* zero, or after an empty line that line's two bytes.
Overlong(typed) == Len(typed) + (IF Ended THEN 1 ELSE 3) > LineRoom

llama_infer ==
    /\ talk = "ask"
    /\ \E typed \in {Typed} : \E list \in {Listed(typed)} :
         LET lost == Overlong(typed) \/ list.broken
         IN  /\ prompt' = typed
             /\ tokens' = IF lost THEN << >> ELSE list.ids
             /\ talk' = IF lost THEN "overrun" ELSE IF list.ok THEN "feed" ELSE "ask"
    /\ feed' = SubSeq(feed, LinesRead + 2, Len(feed))
    /\ pos' = 0
    /\ UNCHANGED <<version, known, cache, drawn>>

----------------------------------------------------------------------------
(* Sampling: temperature 1 and topp 0.9, as llama_initprompt sets them for every model. *)

ProbIndex == [index : Nat, prob : Nat]

\* probindex_sort: around the first, x, which leaves a hole at l, to be filled from the
\* right and from the left in turn.
Sorting == {s \in [list : Seq(ProbIndex), l : Nat, r : Nat, x : ProbIndex] :
              1 <= s.l /\ s.l <= s.r /\ s.r <= Len(s.list)}

Swept(s) ==
    LET r == Max({k \in s.l .. s.r : k = s.l \/ s.list[k].prob > s.x.prob})
        l == Min({k \in s.l .. r : k = r \/ (k # s.l /\ s.list[k].prob < s.x.prob)})
    IN  [list |-> [s.list EXCEPT ![s.l] = s.list[r],
                                 ![r] = IF l = s.l THEN s.list[r] ELSE s.list[l]],
         l |-> l, r |-> r, x |-> s.x]

Hole[s \in Sorting] ==
    IF s.l = s.r THEN [s EXCEPT !.list[s.l] = s.x] ELSE Hole[Swept(s)]

probindex_sort[p \in Seq(ProbIndex)] ==
    IF Len(p) <= 1 THEN p
    ELSE IF Len(p) = 2
    THEN IF p[1].prob < p[2].prob THEN <<p[2], p[1]>> ELSE p
    ELSE LET q == Hole[[list |-> p, l |-> 1, r |-> Len(p), x |-> p[1]]]
         IN  probindex_sort[SubSeq(q.list, 1, q.r - 1)] \o <<q.list[q.r]>>
             \o probindex_sort[SubSeq(q.list, q.r + 1, Len(p))]

\* The least likely are left out before the sort; probabilities[i] < (1 - topp) / (n - 1).
Likely(dist) ==
    LET n == Len(dist)
        upto[i \in 0 .. n] ==
          IF i = 0 THEN << >>
          ELSE IF dist[i] * (10 * (n - 1)) < Whole THEN upto[i - 1]
          ELSE Append(upto[i - 1], [index |-> i - 1, prob |-> dist[i]])
    IN  upto[n]

sample_topp(dist, coin) ==
    LET list == probindex_sort[Likely(dist)]
        upto == Sums([k \in 1 .. Len(list) |-> list[k].prob])
        over == {k \in 1 .. Len(list) : upto[k] * 10 > 9 * Whole}
        last == IF over = {} THEN Len(list) ELSE Min(over)
        hit == {k \in 1 .. last : coin * upto[last] < upto[k] * Coins}
    IN  IF hit = {} THEN Len(dist) - 1 ELSE list[Min(hit)].index
Samples == {[token |-> sample_topp(from, coin), from |-> from] : from \in Dists, coin \in 0 .. Coins - 1}

----------------------------------------------------------------------------
(* llama_runmodel *)

\* transformer: writes the cache at pos and reads it from 0 to pos.
transformer(id) == cache' = [cache EXCEPT ![pos + 1] = id] /\ pos' = pos + 1
llama_print(id) == id < known

RunPrompt ==
    /\ talk = "feed" /\ pos < Len(tokens)
    /\ IF llama_print(tokens[pos + 1])
       THEN transformer(tokens[pos + 1]) /\ UNCHANGED talk
       ELSE talk' = "overrun" /\ UNCHANGED <<cache, pos>>
    /\ UNCHANGED <<version, known, feed, prompt, tokens, drawn>>

Ready == (talk = "feed" /\ pos = Len(tokens)) \/ talk = "answer"
Draw ==
    /\ Ready /\ drawn = NotDrawn /\ pos < SeqLen[version]
    /\ drawn' \in Samples
    /\ talk' = "answer"
    /\ UNCHANGED <<version, known, feed, prompt, tokens, cache, pos>>

\* The vocabularies of the others have no such ids.
Ends3 == IF version = 3 THEN {Special.endoftext, Special.eot} ELSE {}
Say ==
    /\ talk = "answer" /\ drawn # NotDrawn /\ drawn' = NotDrawn
    /\ IF drawn.token <= 2 \/ drawn.token \in Ends3
       THEN talk' = "ask" /\ UNCHANGED <<cache, pos>>
       ELSE IF llama_print(drawn.token)
       THEN transformer(drawn.token) /\ UNCHANGED talk
       ELSE talk' = "overrun" /\ UNCHANGED <<cache, pos>>
    /\ UNCHANGED <<version, known, feed, prompt, tokens>>

Full ==
    /\ Ready /\ drawn = NotDrawn /\ pos = SeqLen[version]
    /\ talk' = "ask"
    /\ UNCHANGED <<version, known, feed, prompt, tokens, cache, pos, drawn>>

LlamaStep == llama_inittokenizer \/ llama_infer \/ RunPrompt \/ Draw \/ Say \/ Full
LlamaSpec == LlamaInit /\ [][LlamaStep]_llama
----------------------------------------------------------------------------
(* Properties. *)

Known(text) == Matches(text) # {}
Readable(text) == SelectInSeq(text, LAMBDA c : ~Known(<<c>>))
Readably(text) == IF Readable(text) = 0 THEN text ELSE SubSeq(text, 1, Readable(text) - 1)
Spelling(ids) ==
    LET upto[n \in 0 .. Len(ids)] == IF n = 0 THEN << >> ELSE upto[n - 1] \o Text(ids[n])
    IN  upto[Len(ids)]
Around3 == [before |-> <<Special.begin, Special.gap>> \o Header("system") \o <<Special.eot, Special.gap>> \o Header("user"),
            after |-> <<Special.eot, Special.gap>> \o Header("assistant")]
Meant == CASE version = 3 -> Spelling(Around3.before) \o Readably(prompt) \o Spelling(Around3.after)
           [] version = 2 -> Text(1) \o Opening \o Readably(prompt) \o Closing
           [] OTHER -> Text(1) \o Readably(prompt)

\* The tokens spell what was typed, up to a character that has no word, which llama3
\* refuses and the others leave out with all behind it; and no two of them would merge.
SpellsThePrompt ==
    talk = "feed" /\ pos = 0 =>
      /\ Spelling(tokens) = Meant
      /\ version = 3 => Readable(prompt) = 0
      /\ version = 2 \/ (version = 0 /\ Readable(prompt) = 0) =>
           \A i \in 1 .. Len(tokens) - 1 : ~Known(Text(tokens[i]) \o Text(tokens[i + 1]))

\* What a place of the cache is read for is what was put there in this turn: the prompt,
\* and no token of a longer turn before.
ReadsThisTurn ==
    talk \in {"feed", "answer"} =>
      LET n == Min({pos, Len(tokens)}) IN SubSeq(cache, 1, n) = SubSeq(tokens, 1, n)

\* A token is drawn only if those more likely than it make up no more than topp.
DrawsFromTheTop ==
    drawn # NotDrawn =>
      LET p == drawn.from
          this == p[drawn.token + 1]
          ahead == [i \in 1 .. Len(p) |-> IF p[i] > this THEN p[i] ELSE 0]
      IN  this > 0 /\ Sums(ahead)[Len(p)] * 10 <= 9 * Whole

(* The answer is one to what was typed: the tokens spell it, the transformer has read
   them when the first word is drawn, and each is drawn from the likeliest. *)
AnswersThePrompt == SpellsThePrompt /\ ReadsThisTurn /\ DrawsFromTheTop
=============================================================================
