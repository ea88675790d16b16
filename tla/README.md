# A verification project for evil

*evil* learns from files (source code, circuits, 3-D models, maps, text) into a small
database of strings, things and relations under `.42/`, and then searches it, finds
routes in it, solves circuits, draws it and serves it over HTTP. Beside that it
assembles, disassembles and walks over machine code, and talks with a language model.
This directory holds TLA+ models of that program, TLC runs that check them on small
instances, and proofs, checked by TLAPS, that hold for every instance. All source paths
below are under `src/source/`.

Contents: [the system](#the-system) · [the modules](#the-modules) ·
[the runs](#the-runs-and-what-they-show) · [what disagrees](#what-disagrees-with-the-code) ·
[where the code parts from its task](#where-the-code-parts-from-its-task) ·
[bounds](#bounds) · [fairness](#fairness) · [the proofs](#the-proofs) ·
[what is only model-checked](#what-is-only-model-checked) ·
[what is not modelled](#what-is-not-modelled) · [the plan](#the-plan)

## The system

`evil.c` looks at its first argument and calls one command. The commands form four
levels: stubs (lv0), binary tools (lv1), the database and what is done with it (lv2),
and numeric models (lv3). `libunit` is the storage of the database.

    files ──traverse_read──> learn_one ──> worker (c, asm, java, cir, 3d, map, utf8)
             filelib.c        learn.c          │ connect_*, *_in_*, funcname_*
                                               v
      strhash_write          relationcreate          *_write
      strhash.c, strdata.c   rel.c                   filemd5, funcindex, chipid, ...
             └───────────────────┴───── load.c ──────────┘      .42/*
                                           │ readthemall(1)
               search ── route ── kirchhoff ── render ── serve (epoll | iocp)

    a binary ──> disasm (elf, mach, pe) ──> arm64 | x8664 | riscv64 | mips64 <── asm <── a line
             └─> follow, travel ────────────────┘
    a model  ──> llama quanti ──> a smaller model ──> llama infer <── standard input

| component | state it keeps | operations | what is hard about it | what makes it correct |
|---|---|---|---|---|
| string index, `libunit/str/strhash.c` | `btnode`, a B+ tree of 4 KB pages from hash to string, in memory | `strhash_write`, `strhash_read`, `strhash_export`, `bplus_trav` | splits that climb; slots that shift and stay behind; pointers into pages | a map from hash to the first string with it; ordered and level; the leaf walk complete and ascending; the slot returned is the string's |
| string bodies, `strdata.c` | `strbuf`, append-only, doubles | `strdata_write` | growth writes the file first | same lifecycle as the relations |
| relations, `libunit/rel/rel.c` | `wirebuf`, append-only, doubles; four chain ends in every thing related | `relationcreate`, `samesrcnextdst`, `samedstnextsrc`, start, stop | two chains through each relation, self-relations, growth, crashes | each chip's chains list its relations, in order; the file is never astray |
| tables: files, functions, chips, pins, points, shapes | fixed buffers | `*_write`, `*_read`, start, stop | the limit, which is found out too late or not at all | a record is never moved and never beyond the buffer |
| directory walk, `libunit/file/filelib.c` | `stack[16]`, `rsp`, `path`, `len` | `traverse_start`, `traverse_read` | one path buffer for all levels, of 4096 bytes; "/"; no depth limit | every entry whose path fits once, under its path, cut at its name |
| learner, `lv2/learn/learn.c` | the worker chosen, the current file | `learn_one`, `worker_start/read/stop`, the `connect_*` handlers | raw pointers to slots across insertions; state left by the file before | every relation has the ends it was meant to have |
| parsers, `lv2/learn/{prog,circuit,model,map,data}` | lexer statics: depth, in-string, in-comment, current object | start, read, stop | which statics are reset, and when; flags tested in an order of their own | what is reported is what the text says, and belongs to the file and the block it was read in |
| lifecycle, `libunit/load.c` | the twelve files of `.42` | `readthemall`, `writethemall` | a death between two files; readers without a lock | what a whole index vouches for |
| search, `lv2/operate/easyop/search.c` | an output buffer | `search_one`, `search_item` | follows links set long ago | lists every relation of the item once |
| route, `lv2/operate/route/route.c` | two queues of 256 entries | `route_bibfs`, `route_bfs`, `route_add` | frontiers carried from round to round, parents as indexes, the limit | queues are trees; the route printed is one; it ends |
| server, `lv2/operate/serve` | `rbuf`, `wbuf`, the connections | accept, read, answer, write, close | edge-triggered events, partial requests, slow peers, descriptor limits | no wakeup lost; a whole request gets its whole answer |
| circuit solver, `lv2/operate/kirchhoff` | tables of 100 things, wires and notes | collect, sort, note | wires sorted in place, notes that are positions in the table | every chip and pin around the net once, and what is noted of each is true |
| rendering, `lv2/operate/render` | a list of nodes and of wires | collect, draw | rounds that are undone, names one after another | the nodes and wires are those around the names |
| walks over code, `lv1/analyse` | table of addresses or blocks, a stack or a recursion | *follow*, *travel* | decoding by masks of their own; intervals merged while they grow; tables of 1 MB | they end, list no target twice and print what can be reached |
| assemblers, disassemblers, `lv1/assembly/cpu` | the tokens of a line, the bytes of an instruction | asm, disasm | thousands of masks, lengths summed up by callers, arrays not cleared | what is typed comes back, and each word differs from the next |
| executables, `lv1/assembly/{exe,obj}` | the tables of the file | disasm | offsets and sizes the file states itself, names without an end | the sections asked for, once, for the right machine |
| conversation, `lv3/llama/detail/infer.c` | tokens of the prompt, position, key and value cache | read, encode, feed, sample | three prompt formats, lists of a fixed length, the place each token gets | the answer is drawn from what was asked |
| model files, `lv3/llama/detail/{quanti,infer}.c` | header, chunks, offsets | convert, lay out, load | three computations of one layout, conversion in place | each tensor is read where it was written |
| devices and digits, `lv3` | tensors, device buffers | train, infer | floating point, drivers | out of reach here |

There is one thread everywhere but in the Windows server. Concurrency comes from
processes that share `.42` without a lock, from the peers of the server, and, in a wider
sense, from histories: handlers called in an order no test was written for, over state
that an earlier file, an earlier insertion or an earlier turn left behind. `PROJECT.json`
lists the hazards one by one, each at its line, with the properties that watch it.

## The modules

### The database and the learner

| module | models | state and actions in the code |
|---|---|---|
| `BPlus` | the B+ tree of `strhash.c` as pure operators | a tree is the header page and the node pages; `Insert`, `LeafSplit`, `IndexSplit`, `Hang`, `Search`, `TravNext` are the functions of those names, with the stale slots behind `len`, the copies at their offsets, and the slot handed to the caller |
| `StrHash` | `strhash_write` on it | `btnode`; one action per string |
| `StrMap` | *abstract*: a map from hash to first string | refined by `StrHash` |
| `RelOps` | a relation, the four chain ends, how `relationcreate` threads them | used by `Wire`, `Learn`, `Query`, `Route`, `Gather` |
| `Wire` | the relation store with growth, stop, crash and restart | `wirebuf`, `wirecur`, `wirelen`, the chain ends, the file; `relationcreate`, `relation_stop`, `Crash`, `Restart` |
| `RelLog` | *abstract*: two logs of relations per chip | refined by `Wire` |
| `Learn` | `learn.c` with what the C parser reports, composed with `BPlus` and `RelOps` | the whole memory `db`; the statics `fileobj`, `funcobj`, `infunc`; `learn_skipped`, `learn_parsed`, `c_function`, `c_call`, `c_string`, `c_open`, `c_close`, `worker_stop` |
| `Query` | `search_one` on what `Learn` has learned | no state of its own |
| `Persist` | `load.c` over runs, deaths and readers | the file of every store; one action per `*_start`, the two halves of each `*_stop`, growth, `Crash`, and a reader that loads store by store, the first and the last `read()` of each apart (`open_store`, `load_store`) |
| `Traverse` | `traverse_read`, one turn of its loop per step, on any tree | `stack`, `rsp`, `path` with the room there is for it; what was returned, `offs` included |
| `Worker` | what the parsers share | the worker chosen, a table with its limit |
| `Lexer` | `c.c` and `java.c`, character by character | the flags (`innote`, `instr`, `infunc`, `inmarco`, the brackets) and the four pointers `prophet`, `doubt`, `insist`, `chance`; beside them the lexical rules of the language |
| `Sheets` | `cir.c`, `map.c`, `asm.c`, `utf8.c`, line by line | the match table, `pinbody`, `infunc`, `count`, the tables of chips and pins; beside them the text as its author meant it |
| `Shapes` | `3d.c`, token by token | `stack`, `rsp`, `inname`, `innote`, `inpoint`, `pointindex`, `shapeindex`; beside them the drawing as it was meant |
| `Parsers` | the seven parsers, one file after the other | composes `Lexer`, `Sheets`, `Shapes` |

### What is done with a database, and with a model

| module | models | state and actions in the code |
|---|---|---|
| `Route` | `route_bibfs`, one relation per step, on any loaded store | the queues, `j m k n` (`cur`, `upto`), the link followed, `ret0`, `ret1` |
| `Gather` | what `render.c` and `kirchhoff.c` collect, an entry per step | the tables of nodes and wires, rounds, the names asked; the sort and the notes (`detail`) of `kirchhoff` |
| `Llama` | the conversation of *llama infer* | `prompt_tokens`, `token`, `pos`, the cache as the token each place was written for; reading lines, the three prompts, `bpe_encode`, sampling, the run loop |
| `Weights` | *llama quanti*, and the reading of what it wrote | the file as halves of numbered numbers; a chunk per step; the three computations of the layout |
| `Operate` | the commands above, each a process | `command`; composes `Route`, `Gather`, `Llama`, `Weights` |
| `Serve` | the epoll server and its peers | the ready list, the batch, the buffers, the sockets; peers connect, send in pieces, receive, leave |
| `Iocp` | the threads of the completion port and their peers | the completions, the sockets posted to accept, `wbuf` and `outnow` that the threads share; a line of `search_print` in two steps |
| `Servers` | `startsocket`, as the makefile links it | `built`; composes `Serve` and `Iocp` |

### Binaries

| module | models | state and actions in the code |
|---|---|---|
| `Walk` | *follow* on both processors, *travel*, an instruction per step | `known` (addresses, or blocks), the activations or the stack, what was printed |
| `Arm64` | every class of words of `arm64.c`: encoding, listing, and what `follow` makes of it | a word is a record of fields |
| `X8664` | reading and length of x86-64 instructions, and what the walks make of them | an instruction is a sequence of bytes |
| `Assembly86` | the assembler of x86-64 | a line is an operation and two operands; what is not written reads as junk |
| `Risc` | `riscv64.c` and `mips64.c` | a word is a record of fields |
| `Assembly` | *asm* and *disasm* over these: tokens, a word, its listing | the tokens (with those an earlier line left), the bytes, what is shown |
| `Executable` | *disasm* on a file: elf, mach, pe | the kind told, the part asked for, the sections listed |
| `Binary` | the commands above | `cmd`; composes `Walk`, `Assembly`, `Executable` |

The modules named `*Proofs` hold the theorems: `BPlusProofs` about the tree, `IndexProofs` about
`StrHash`, `Learn` and `Query`, `WireProofs` about `Wire` and the parsers, `PersistProofs` about
`Persist`, `Traverse` and `Gather`, `RouteProofs` about `Route`, `Weights` and `Llama`, `WalkProofs` about
`Walk` and `Executable`, `ServersProofs` about `Serve` on its own and about `Iocp` within `Servers`.
`Recursion` has what they need of induction and recursion; `MC*` are instances for TLC.

How they fit: `Learn` works on the same tree that `StrHash` checks and threads
relations with the same operators as `Wire`; `Query` reads what `Learn` made; `Route` and
`Gather` take any store satisfying `HomeChains` and `WholeChains` (both in `RelOps`),
and `WireProofs` proves that every store of `Wire` does (`StoresAreHome`, `StoresAreWhole`), so
the two meet in one formula. `Persist` abstracts each store to whose data it holds and how much of it.
`Lexer` says which functions, calls, strings and braces the C parser reports, `Learn`
what becomes of them. `Walk` takes an instruction as its kind, length and target;
`Assembly` shows (`WalkSeesWhatIsShown`, `LengthsTrue`) that these are those of the listing.

Abstractions, and why they are harmless for the properties:

* A string is its hash; in `StrHash` two strings share one, as 64-bit hashes may.
* Offsets are counted in records; record 0 is unused in the code and null in the model.
* A slot's body (chain ends and text) is one value that moves with the slot.
* A pointer to a slot is the pair of page and slot number. It is *not* the string:
  `relationcreate` reads whatever is there when it runs, as the code does.
* In the parsers a word is a class of characters or a member of a small set. Beside the
  code's state runs the text as it is meant: the mode and depth of the language, the net,
  line or shape that a name belongs to. A file is followed until the two part for one of
  the named reasons (`pc = "slipped"`), which are the list further below; everything
  before that must agree.
* In `Walk` and `Lexer` the input is settled as it is looked at, which is every input.
* In `Arm64` a word is its fields, so that a test of `code & mask` is a test of fields.
* In `Serve` a name is two halves, so that a request cut by the network can be completed
  by what the last one left in `rbuf`, which `servesocket` does because it scans to a
  blank and not to the length read.
* In `Llama` the transformer is whatever it computes: the probabilities at its end are
  chosen. Its cache is kept as the token each place was written for, which is what
  decides whether an answer can depend on the question.

Every module that TLC can break has `_Mutant` definitions: the code's definition with a
plausible bug. `PROJECT.json` says which property finds which.

## The runs and what they show

* **strhash** (`StrHash.cfg`). Eight strings and one that collides with the first, in
  every order, and 22 strings in 22 orders: the tree implements `StrMap`
  (`ImplementsMap`); `TreeSound`, that is `Separated` (the keys steer rightly) and `Levelled`
  (parents and depth, which later splits trust); `TravAscending`: `bplus_trav` visits every
  hash once, ascending.
* **wire** (`Wire.cfg`). Every history of four relations among three chips, themselves
  included: `OutChains`, `InChains`, `ImplementsLog`, `LinksSetOnce`, and `FileIsPrefix`
  for the file at every crash.
* **learn** (`Learn.cfg`). Three paths, two words, every slot movement of the tree:
  `ChainsStayHome` (whatever slot a relation was hung on, walks end and stay with their
  chip), `FixedChipsComplete` (a search for a file or a function lists all its relations,
  in order), `LocalsStayInFile`.
* **persist** (`Persist.cfg`). Three learning runs that may die at every step and readers
  that overlap them, between two reads of one store too: `IndexSealsRun` (a whole index of
  the last run vouches for every store), `IndexVouchesForWire` (for a reader, over any
  overlap, the relations are never older than the index; beside a complete index of their
  run their file was whole at the first read, and they are complete unless a later run
  emptied it between two reads: `Torn`, which the run reaches), `SavedStaysSaved`.
* **traverse** (`Traverse.cfg`). Every tree of five entries, each a folder, a file, a
  link or a dot name, names of several widths, from a plain root and from "/", on a stack
  of three over a small buffer: `GivesTheTree`, which looks at the path given and at the
  offset of the name in it (`CutAtName`), and `WalkEnds`, which also says when the unchecked
  stack, or the buffer behind a path that was cut, overruns.
* **parsers** (`Parsers.cfg`). Any text, over two files. `LexedAsC`: the flags of the C and
  Java parsers say where the language is. `NamesAreWhole`: what is reported as a function
  or a call is the word before its bracket, with the named exceptions. `DrawnAsWritten`:
  of circuits, maps, assembler, text and drawings, what is related is what was written; of
  the relation of a line of a map only the ends are compared (`Said`), as its number is
  left from the line or the file before.
* **operate** (`Operate.cfg`). Route on every store of up to eleven relations among five
  chips: `QueuesAreTrees`, `RouteMeets`, `SearchExact` (breadth first in fact, and a route
  is reported exactly if some chip is equally far from both strings; two strings an odd
  number of relations apart, neighbours among them, have a route that is never
  reported), `Ends`. `CollectsAll`: render's tables are what lies within two relations of
  each name, unless a limit cut them or a round overran a table; kirchhoff's are each thing and wire around the net
  once, and its notes name the wires they should, except those that the sort left apart.
  `AnswersThePrompt`: the tokens of a prompt spell it and each merge was the best there
  was; when the first word is drawn, the cache holds this turn's tokens at their places;
  each word is among the likeliest nine tenths. `ReadAsWritten`: a model converted and
  read back is the same, tensor for tensor, as long as the products that are computed in
  int fit an int (`InInts`); headers for which they wrap are in the run.
* **serve** (`Serve.cfg`). Two peers, every combination of descriptor limits they can
  meet: `NoLostWakeup`, `WholeRequestsAnswered`. Two threads of the completion port and two
  peers: `OwnAnswers` (without a lock, answers are right and stay in the buffer as long as
  no two threads answer at once; when two do, the model mixes lines, loses them and
  leaves the buffer). `EveryoneServed`: for epoll every connection is accepted and answered
  as long as peers receive, for the port as long as fewer peers than threads do not.
* **binary** (`Binary.cfg`). The walks over every buffer of four places, from its first or
  second place or behind its end: `TablesBounded` (a place is listed once and only as the
  target of a branch that was printed, so the tables nothing checks are overrun only by more
  targets than they have rows; in the run some are), `ListingTrue` (every byte that can run is printed and
  reported, with two exceptions named there), `WalkEnds`. The processors over words and
  bytes of every class: `AssembledAsTyped`, `NothingLost` (changing one bit of a word
  changes its listing), `LengthsTrue` (an x86 instruction is as long as its bytes say),
  `WalkSeesWhatIsShown`. `ListedAsAsked`: of every file of two sections or commands the
  parts asked for are listed, once.

### What disagrees with the code

Three runs expect a violation; each counterexample is a behaviour of the code that
contradicts its own comments.

* **strhash_return**: after a split that puts the new string into the right half,
  `bplus_leafsplit` returns the slot after it (`strhash.c:714`; the data went to the slot
  of line 646, and the comment at 626 says which).
* **learn_stale**: `connect_path_to_name` writes the path, keeps the pointer, writes the
  name, which may move the path, and relates what is now at the pointer
  (`learn.c:210-227`).
* **learn_locals**: `purec_func` skips names of one letter, but the body opens all the
  same, and its calls and literals go to the function recorded last, in another file
  (`c.c:97`, `c.c:344-364`).

The *learn* run has no skipped words and a leaf of three; with the skipped words its
`LocalsStayInFile` fails, as *learn_locals* shows. `ChainsStayHome` holds in spite of the
two pointer defects: a relation on a wrong slot takes identity and chain ends from the
same slot, so readers are never led astray; they are told a wrong fact.

## Where the code parts from its task

The properties of `Parsers`, `Binary` and `Operate` hold beside exceptions, each a named
disjunct in the module (`Misread`, `Unlisted`, the slips, the disjuncts of a property),
and each a behaviour of the code. They are, in short:

* **C and Java** (`Lexer`). A backslash takes the next character along in every mode, so
  it eats the `*` of `*/`; the end of a file is eaten by a backslash or a quote; a
  character literal need not be one character. `case 1 : foo(` reports `oo`; `else{foo(`,
  `arr[foo(` and `a?foo(` report the word before; the rest of `#ifdef(` is a word.
  Brackets opened twice by the branches of `#if` silence every later definition.
* **Circuits** (`Sheets`). `pinbody` is not reset: a foot outside a net goes to the last
  pin, and before the first to a null pointer. The match table has ten entries and no
  test. A blank before a brace or a bracket is part of the name (`cir.c:71-80`). Text before a comment and a last line without a line end are dropped.
* **Maps, assembler** (`Sheets`). The chip and the count of a map survive its file, a
  stray brace swaps lines and stations, and the relation of a line carries the count of
  the line or file before (`map.c:45`). `callee:` is read as a call of an empty name; a
  comment behind a call is part of the name; `"/*"` in a string opens a comment; the last
  line of a comment is read as an entry or a call when it begins like one (`asm.c:629, 681`).
* **Drawings** (`Shapes`). `three_call` looks for a shape in the inward chain of its name,
  while `three_shape` relates the name to the shape outward, so that no shape is ever
  found by name. The start function resets nothing; the stack of 16 is not checked and
  `rsp` may become negative; a brace on its own line reads its name from the head of the
  file, and a word that begins there loses its first letter (`3d.c:238`); points of one
  number overwrite each other across files.
* **Render, kirchhoff** (`Gather`). The first wire of the sort is moved once only, so the
  wires of a net may stay in several runs; a foot that is not found is noted as the first
  entry; tables of 100 entries are tested against 0x1000 only, and those of render between
  rounds only (`render.c:62`); a start from the name of a chip
  ends at once.
* **Conversation** (`Llama`). A prompt needs one token for each character before merging
  and the list has `seq_len`; only llama3 looks at what `bpe_encode` returned, the others
  drop an unknown character and all behind it; what is typed is not limited to the 4096
  bytes there are for it (`inout.c:247`); at the end of input the empty prompt is
  answered for ever; entries of a vocabulary file that ends early are never set; merges
  may cross from `[inst]` into the prompt.
* **Directories** (`Traverse`). A path of 4096 characters or more is cut, and what it then names
  is opened; behind it the size given to `snprintf` is below zero. In "/" the offset of a
  name is one too large (`filelib.c:72-77`).
* **Model files** (`Weights`). `infer.c:366` and `372` multiply ints where `452` and
  `quanti.c:213` multiply u64, and `kv_dim` and the columns of `quanti.c` are ints
  too: from 2^31 on the layouts differ. With an odd head and a classifier of its own, `infer.c`
  rounds the rotations once and `quanti.c` row by row (`infer.c:433-444`), so that the
  classifier is read at another offset. A short file is used as it is.
* **Walks** (`Walk`). `checkmerge` counts the address just behind an open block as inside, so
  that a loop entered at its condition loses its body; the tables have 1 MB whatever the
  length of the buffer (`travel/x8664.c:442`, `follow/x8664.c:204`); a walk that runs off the buffer
  gives up the branches it had kept.
* **arm64** (`Arm64`, `Assembly`). `sub` with an extended register is listed with a plus; the
  farthest backward branch is listed forward; long multiplies and others stand behind
  tests that take them first; register numbers above 31 and large shifts are cut; `orr` drops its second
  source; a shift without blanks is dropped; tokens past the last are read stale.
* **x86-64** (`X8664`, `Assembly86`). `movsxd` counts its prefix twice; immediates under 66
  and under REX.W are read with the wrong length; nops are guessed; the relative address
  of two-byte opcodes is one too low; r8 to r15 overflow into other fields when typed;
  the scale of `lea` is not its logarithm; displacements from 128 to 255 turn negative.
* **riscv64** (`Risc`). The low five bits of an immediate are listed as a register, a typed
  minus is ignored, other register names are x31.
* **Executables** (`Executable`). A pe is listed as x86-64 whatever its machine, and from
  no base if its width is unknown; full-length names run on into the next field; a mach
  command of size 0 is taken again and again; the first segment of an elf is listed
  whatever is asked; the disassemblers of arm64 and riscv64 take the address as an int.
* **Servers** (`Iocp`). Two threads share the answer buffer and its length; the size handed on
  is the whole buffer, although the head stands before the answer, in both servers; a
  listing past that size makes the next size negative; a connection whose completion
  failed is never stopped, and after 0x400 connections none is accepted any more.
* **Tables** (`Worker`, `Learn`). `filemd5_write` and its kind fill the last slot, return null, and
  go on advancing.

## Bounds

* `leafstep` and `indxkeys` are 127 and 254 in the code and 3 (or 5) and 2 here. The code uses
  them only through `leafstep/2`, `(leafstep+1)/2`, `indxkeys/2` and `(indxkeys±1)/2`;
  3 and 2 have the parities of 127 and 254 and make every case of both splits happen
  within ten strings, index splits of index splits within `NStr` = 22. `Few` = 8 strings and
  the colliding one in every order reach three levels.
* `MaxRel` = 4 in `Wire` with a start of two relations: one growth after the restart and one
  before; the proofs take both to any number. `MaxRel` = 7 in `Learn`: two files with
  relations on both sides of them. `MaxNest` = 2: a brace inside a body.
* `MaxRun` = 3 in `Persist`: a run under attack, one before it and one after it. Of the reads of
  a store the first and the last are apart; those between them see nothing that one of the
  two does not.
* `Levels` = 3 in `Traverse` (16): trees of five entries are shallower, as deep and deeper;
  `Buffer` (0x1000): paths that fit, just fit and are cut.
* `Batch` = 2 in `Serve` (16), answers of two units through sockets of one: partial writes,
  full sockets, and a listener behind a peer in one batch. In `Iocp` a buffer of a head and two
  units (0x100000 bytes), listings that just fit and a file that does not; `Pools` of one or
  two sockets to accept (0x400), which are never posted again; at most one slow peer.
* `Parsers`: `Deepest` = 2 open braces and `Rounds` = 1 open bracket at file level (the code
  only counts them, and tests for zero and one); `Slots` = 4 in a table of records, two
  entries of the match table and of the stack of shapes, `MaxFile` = 2 files and `MaxCount`
  = 3: every table fills up, and every static meets a second file.
* `Operate`: `Room` = `Stop` = 4 and `Rounds` = 2 for `Route` (256, 128 and 4): on five chips both a
  full queue and an overrun happen, and two rounds are enough to carry a frontier.
  `NodeStop` = `WireStop` = 5 (1000, 0x1000), `NodeRoom` = 5 and `WireRoom` = 6 (0x8000, 0x40000:
  a round of the run overruns the wires), `Asks` = 2 names for render; `CtxRoom` = 7 and
  `CtxRounds` = 3 (100, 20) for kirchhoff: each limit is met and missed. For `Llama`,
  vocabularies of 22 words, two turns, `SeqLen` of 5, 7 and 19: prompts that fit, that
  just fit, that overrun the list, `LineRoom` = 6 (4096) for what is typed, and answers cut by
  the end of the cache. For `Weights`, every combination of shared and own parts with even
  and odd heads, `IntHalf` = 16 (2^31) with products that wrap, `ChunkStop` = 8
  (0x10000000) and files short by 1, 9 and 20 numbers.
* `Binary`: buffers of `len` = 4 and `Near` = 2 (128): branches near and far, forward and back,
  into the middle of an instruction and out of the buffer; `Entries` at the beginning, within
  and behind the end; `Blocks` = `Ints` = 3 (65536, 262144): tables that suffice and tables
  that do not. One word, or one prefix, opcode
  and modrm, of each class the decoders tell apart, with the values at the ends of each
  field. `MaxSect` = 2: one section that is asked for beside one that is not.

Bounds in guards: `MaxRel`, `MaxNest`, `MaxRun`, `Deepest`, `MaxFile`, `MaxCount`. Nothing else is
cut off. Lines the code does not test, such as the stack of `filelib.c`, the queues of
`route.c` and `render.c`, the tables of the learner and of the walks, the line typed or the token
list, are not cut off either: the model
ends there in a state of its own (`overrun`, `crash`), which the properties name.

## Fairness

`Route`, `Traverse` and `Walk` are loops of one thread that wait for nothing but the file
system: weak fairness of the whole next-state relation of each (in `Operate` and `Binary`, of
those steps only). `Serve` has weak fairness of the server's thread only; nothing is
assumed of the peers. What its liveness needs of them is a hypothesis inside the
property: `PeersReceive` (no full socket stays full) and, for `AcceptedInTime`, that
descriptors come free again. Both are needed, because the code retries a full socket in
place and times nobody out. `Iocp` has weak fairness of each thread; it needs a thread
more than there are peers that do not receive. The other specifications claim no liveness.

## The proofs

TLAPS checks the following for every value of the constants. Most proofs have the same
frame: an inductive invariant (`IInv`, or the conjunction named below), `Init` implies it,
each action has a lemma that preserves it, and the theorem combines these. TLC checked the
invariants on the instances of the runs before they were proved, with one exception:
`IndexInv` of `IndexProofs` says that heights and ranges *exist*, over all functions of
the pages, which TLC cannot enumerate; `TreeSound` is what TLC evaluates of it.

* `WireProofs`, from `WireStartOK` and `MaxRelOK` alone: `TypeCorrect`, `OutChainsHold`,
  `InChainsHold`, `LinksAreSetOnce`, `FileHoldsPrefix`. The
  inductive invariant is `TypeOK /\ OutChains /\ InChains`: each chain is complete
  *and* its last relation is the one the chip names, without which an append could cut
  a chain or skip a relation. The heart are four lemmas about one chain and one append
  (`AppendEnds`, `AppendNext`, `AppendPrev`, `AppendChained`), stated without the store
  and used once for sources and once for destinations. `FileHoldsPrefix` rests on
  `LinksAreSetOnce`'s argument: a link once set is not set again, so an old copy is
  right or null.
* `WireProofs!StoreIsLog`: `Wire` refines `RelLog`. The mapping follows the links of a
  chip with a recursive function; `FollowWalks` shows by downward induction that it is
  defined by its recursion as long as links lead forward, `AppendWalk` that an
  append lengthens the walk of the two chips it touches by one and no other walk
  (`LongerWalk` is the induction), and `LogStep` that each step of the
  store is a step of the log or a stutter.
* `WireProofs!StoresAreHome` and `StoresAreWhole`: the two things `Route` assumes of a
  database (`DatabasesHome`, `DatabasesWhole`) hold of every database in memory.
* `RouteProofs`, from those, `NamedChips` and `Bounds`: `TypeCorrect` (no link, no index
  and no queue entry is ever out of range), `QueuesStayTrees`, `RoutesMeet`.
  `TypeOK` and the properties are not inductive: following a link is safe only while
  the relation in hand is one of the chip being opened, and that chip is on the queue.
  `Standing` says so, and that the frontiers lie within the queues.
* `RouteProofs!SearchIsExact`: the search is breadth first in fact and reports exactly the
  middles. Its invariant (`Searching`) adds what has been reached at each moment: nothing
  beyond the next ball, all that is around each entry already opened, the other
  ends of the relations before `w` on the chain being followed, and that an answer exists
  if and only if there has been a middle. `BallsGrow` derives the recursion of the ball from
  its definition. It speaks of stores whose chains leave nothing out, as those of
  `Wire` do; what the learner's stale pointers do to chains is in *Where the code parts
  from its task*.
* `PersistProofs`: `IndexSeals`, `IndexVouches`, `SavedStays`. None of the properties is
  inductive: what makes them true is the *order* of saving and loading. The invariant
  says which files are whole at each place of `writethemall` (`SavedInOrder`, `NoneWholeYet`),
  that the index is of an older run until it is its turn (`IndexStaysOld`), and the same
  of what a reader has taken so far (`ReaderBehind`, `ReaderVouches`), at its first read and
  at its last of each store.
* `ServersProofs`, of the epoll server: `NoWakeupIsLost`, `WholeRequestsGetAnswers`. An event
  is edge-triggered, so the invariant says where each pending one is between its arrival and
  the next wait: on the list, in the batch at hand, or what the call under way will come to
  (`NothingMissed`); and what of an answer has been written while it is being
  written (`BeingAnswered`), for which a connection not yet read must be `Untouched`.
* `ServersProofs`, of the completion port: `AnswersAreOwn`, over threads that share one buffer
  without a lock: whom each thread works for (`ForSomebody`), that a peer outside `mixed` is
  answered by one thread while no other answers (`Alone`), and what then stands in the
  buffer (`Right`).
* `BPlusProofs`, from `PageShape` (`leafstep` odd and 3 at least, `indxkeys` even and 2 at
  least, which is why a full page has a middle): the operations of the tree, as operators
  from trees to trees. A tree is described by a height `H` and a set of hashes, the range
  `R`, for every page: a page's range is cut up by its keys among its children
  (`Fan`), which are one lower and name it as their parent; that is `Sound`. In the middle of
  a split one page stands apart and the range of another is without what it holds
  (`Torn`); `Sound` has a pair of pages for that, so it can be kept at each level of the
  climb. `HangAllIs` is an induction over the climb, whose measure is the height of the
  page split last: it ends at a page with room or with a new root, whole again (`Mended`).
  `LeafSplitIs` is the split of a full leaf and what it makes the climb do. `SearchIs`
  needs one thing more: the halving does not look at the length of a leaf, and old slots
  stay behind it after a split, so the hash of each of them must be in use elsewhere
  (`Clean`). `WrittenIs` puts an insertion together, and adds that the right links still lead
  through all leaves in the order of their ranges (`Chained`).
* `IndexProofs`, from that and `HashType`: `IndexHolds`, whose `IndexInv` is `Mended`,
  `Chained` and `Clean` (together `Fine`) and that each slot in use is a string's;
  `IndexIsMap`, the refinement of `StrMap`: what search finds is what the map has;
  `AlwaysSound` and `AlwaysAscending`, the properties the run checks. The latter two are
  defined by recursive functions (down the children, up the parents, along the right
  links), so each has a lemma that the function is defined by its recursion, by the
  height, or by what is left of the ranges.
* `IndexProofs`, of the learner and the search: `ChainsHome`, `SearchComplete`, `LocalsHome`, for
  any words, paths and page sizes. The handlers keep pointers to slots, and a split moves
  slots under them, so a relation may be hung on whatever is where the pointer leads, and
  forward links are lost with it; `learn_stale` is the run that shows this. What survives is
  `Sane`: of every slot, file and function, the chain that starts there is of its own
  relations and leads only to later ones (`OwnAt`), for files and functions, which never
  move, to *all* of them in order (`WholeAt`), and the tree is `Fine` throughout. One operator
  (`Threads`) stands for all that `relationcreate` may do, wherever its two pointers lead,
  and one lemma about it serves every handler. `LearnInv` is `Sane` with what the
  handlers hold; a search then lists along chains that end. `LocalsHome` is proved under the
  hypothesis `Unrecorded = {}`, that the parser skips no name: the run `learn_locals` shows
  the property fail when it does.
* `WalkProofs`, from `InstrOK`, `BoundsOK`, `EntriesOK`, `TablesOK` and `UnreadOK`: for any set of
  instructions, any buffer and any length, any entry and any size of the tables. `SortIsSort`: the invariant of the hole (`Parting`) says that what
  has been passed on the left is below the first entry and on the right not, and that
  the rows with the hole filled are those given; then induction on the length.
  `WalkInvariant`: for *follow*, a caller waits at a call that was read (else there is no
  way back behind it), and no target is listed twice. For *travel*, each row covers its
  own address and only what was printed (`RowsTrue`), so does the block at hand up to the
  walk (`HereTrue`) and every block kept for later up to its branch (`KeptTrue`): this is
  why what is between the ends of an open block may be skipped; and what can run next is
  printed, or where the walk is, or kept (`Reached`). None of this is implied by
  `ListingTrue`, which speaks of the end only. `TablesAreBounded`, `ListingIsTrue` follow: what is
  in a table is the target of something printed, without two alike, so a full table is a
  count of targets.
* `WalkProofs!WalksAsShown`, of `Assembly` from `AssemblyAssumption` (a word is ten fields of the
  widths they have; a byte is below 256): what the walks take an instruction for is what
  the disassembler shows. For arm64 a lemma per class of the disassembler says which fields
  lead there, and the tests of `follow` are the same fields in another order; the distance is
  one sum in both, brought into the signed range at the one or at the other end. For
  x86-64 the first byte decides in both. `BinaryHolds` carries it and `ListingHolds` over to
  `MainSpec`, since a command leaves the others' state alone (`CommandsKeepApart`).
* `WalkProofs!ListingHolds`, of `Executable` and any table of sections: the list so far is, in
  order and each once, the sections before the row at hand that were asked for (`Lists`,
  `ExeInv`); of a Mach-O file a row is a pair, and the order that of pairs.
* `PersistProofs!TreeGiven`, of `Traverse`: the walk keeps, for each level of its stack, a length
  into *one* path buffer that deeper levels overwrite, and that may be too short. `StackOK` says that each length still
  ends the path of its level, although the buffer behind it is another's; `Tally` that
  what was given so far and fits are paths of the tree, each once and with the offset of its
  name; `Pending` that what is not given
  yet is below an entry that some level has still to read. What the walk should give is a
  recursive function on paths, which a lemma shows defined by its recursion.
* `PersistProofs!AllCollected`, of `Gather`, from `GatherAssumption` (chains that stay home and are
  whole, as those of `Wire`; two parts are only ever related as `cir.c` does it, a pin to a chip; at
  least one round). The property speaks of the end; `GatherInv` says what the tables hold in
  the middle of a round (`Rounding`, `Meeting`): all that was there when the round began, which
  is the ball of as many relations as there were rounds, and around each entry opened since all that
  one relation reaches. Three loops lie inside each other, and each has an invariant of
  its own: the chain of a thing is its relations in order (`ChainRuns`), the ends along it
  go into the tables one by one (`OpenedRuns`, `MetRuns`), and entries are opened in order. Entries
  are found in the order of their distance, so a round opens the last ring, and nothing within it
  has more to give. The limits compare *lengths* of tables where the property compares
  *cardinalities* of balls; that they agree is that a table has nothing twice (`Drawing`,
  `Circuit`). A round that finds nothing new is the last: the balls stop growing there
  (`NothingMore`, `PartedEnds`). The sort keeps the wires it is given, each once (`Orders`), in whatever
  order, and its notes are proved wire by wire (`NotedTo`): the first wire of a
  run belongs to the pin it is noted for, so what the sort leaves apart does no harm.
* `RouteProofs!WeightsRead`, of `Weights`: `llama_quanti`, `llama_info_model` and `llama_initmodel`
  compute the layout each by itself, in u64 and in int. `Fourteen` lays the tensors out one behind the other in
  whole chunks, for every header whose int products fit; `CopyInv` says what of which tensor has been read when the
  copy is somewhere in a chunk, and `Complete` what that comes to at its end.
* `RouteProofs!PromptAnswered`, of `Llama`, from `LlamaAssumption` (the vocabularies have the words
  the code knows by number, and softmax leaves probabilities that add up). `TalkInv` says
  of every state of the conversation that the tokens spell the prompt while feeding has
  not begun (`Spells`), that the places of the cache up to `pos` hold the tokens of this
  turn, that all of them fit, and that the token drawn is a sample. Three lines of argument carry it. *The tokens
  spell*: the letters of a text put their words behind the list (`LettersAre`), a merge
  leaves the spelling alone (`JoiningIs`, `SpellingJoins`) and shortens the list, so merging
  ends, and ends where no two neighbours make a word (`MergedSpells`). *The
  quicksort sorts*: the hole of `probindex_sort` moves inwards, what it has passed is on its
  side of the first entry, and the entries with the hole filled are a permutation of those
  given; from this, by induction on the length, the list is descending and has each token
  once. *A draw is from the top*: on a descending list the sum before an entry is that of
  all that are likelier, those left out of the sort are less likely than any in it,
  and the entry hit is the first whose sum passes the coin.
* `WireProofs`, of the parsers, for any text, names and sizes:
  `CodeIsLexed` and `NamesHold` from `LexInv`, whose `PlaceOK` says where the rules of the
  language can be *between* two steps of the parser (a `/` or `*` that the next
  character may still change is always among those looked at already), and `WordsOK` that a
  word in the making is open, and one that has ended is in doubt. A lemma for each
  branch of `c_read`; most of them are instances of three about a round of the loop
  (`RoundOne`, `TakenOne`, `RoundTo`). `TextIsDrawn` from `DrawInv`: the match table has the chips
  of this file each under its name and nothing else (`CirOK`), the chip and the count of
  `map.c` are those of the last line once there is one in the file (`MapOK`), comments agree
  (`AsmOK`), and the stack of `3d.c` holds the shapes that are open (`ShapeOK`).
* `Recursion`: induction and recursion over the naturals, along a list and on a
  measure. The theorems of the standard
  library take an operator as a parameter, which the provers here cannot instantiate, so
  these are stated about *sets* of numbers and about *functions* instead, and proved
  from the library's well-foundedness of the order of the naturals.

The provers shape some definitions. `Serve` selects from sequences with `Only`, a function of
positions, where `SelectSeq` would do: its library definition is recursive over an operator
and cannot be proved about. Recursive functions have one argument, a record where
there is more to carry (`Hole` of `Walk` and of `Llama`), and `BPlus` changes pages with `Put` and
`Reparent` rather than `@@`. `Lexer` goes through what a step takes with a function (`Beyond`) and
not with a fold, `Gather` likewise along chains, entries and wires, `Llama` adds up and spells with functions of how far it has come, and strings that stand for a blank, a brace or nothing are words
("blank", "open", "none"), as the translation to the solver takes no others. `Traverse`, `Weights`,
`Executable`, `Parsers`, `Llama` and `Gather` each have a specification of their own
(`TraverseSpec`, `WeightsSpec`, `ExeSpec`, `ParsersSpec`, `LlamaSpec`, `GatherSpec`; `Assembly` has
`AssemblySpec`), which the theorems are about; the runs `operate` and `binary`
check the same actions composed with others.

## What is only model-checked

* Liveness, `WalkEnds` and the hypotheses of `Serve`'s among it: the provers here do not treat
  fairness or `ENABLED`.
* `AssembledAsTyped`, `LengthsTrue`, `NothingLost` (`Assembly`): what an encoder and a decoder make of
  one instruction. That is evaluation over the classes of words; for every input it is
  arithmetic on bits.

## What is not modelled

* Arithmetic in floating point and calls of drivers: the transformer itself and its
  devices, digits, layout and drawing, and the elimination of `kirchhoff`
  (`kirchhoff_iter` and `kirchhoff_incurr`, which stand behind a return).
* Stubs and unregistered code: lv0; delete and the other easy operations; `cpp.c`, `h.c`,
  `dts.c`, `include.c`, `count.c`, `none.c` are not registered with the learner;
  `search_one_origin` and what only it calls, `route_dfs` and `route_aaa`, `argmax` and
  `sample_mult` are never reached; `kqueue.c` returns at once.
* The substring tool, `strhash_search`, and the helper libraries: pure functions.
* The wording of listings, and the buffers they are printed into; the debug dumps.
* The vector opcodes of x86-64 beyond their lengths.
* Lines of assembler of more than 16 tokens, or so long that the u8 offset and length of a
  token (`assembly.c:81`) do not hold its place.
* Offsets and sizes of an executable that lead out of the 16 MB that were read
  (`elf.c:192`, `disasm.c:217`), which the code uses without a test.
* An entry (`at`) of 2^31 or more, which the walks take for a negative int.
* A full table of files, and with it a file parsed with `fileobj` null (`learn.c:193`).
* Answers longer than the buffer in the epoll server: they are in `Iocp`, which shares
  `search_one` and `servesocket` with it, and not in `Serve`.

`PROJECT.json` lists every component with its status.

## The plan

Written, in this order: `BPlus`, `StrHash` over `StrMap` (everything hangs on the index);
`RelOps`, `Wire` over `RelLog` with its proofs; `Learn` over both; `Persist`; `Query`; `Route`
with its proofs; `Traverse`; `Serve`; the parsers (`Worker`, `Lexer`, `Sheets`, `Shapes`); `Walk`;
the processors and executables; `Gather`; `Llama` and `Weights`; `Iocp`.

Proved, in this order: `WireProofs`, `RouteProofs`, `PersistProofs`, `ServersProofs`,
`BPlusProofs`, the index (`IndexProofs`), `WalkProofs`; then the learner and the search
(`IndexProofs`), the traversal, the weights, the executables, the parsers, the
conversation, what render and kirchhoff collect, and what the walks see of an instruction.

Next, proofs: of the safety properties three of `Assembly` are left
(`AssembledAsTyped`, `LengthsTrue`, `NothingLost`), which are arithmetic on bits and stay
with TLC.

Next, models: the substring table against a definition.
