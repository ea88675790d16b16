-------------------------------- MODULE Iocp --------------------------------
(***************************************************************************)
(* The server of lv2/operate/serve on a completion port (iocp.c): threads  *)
(* that take completions one by one, and share the answer buffer of iocp.c *)
(* and the length outnow of search.c without a lock.                       *)
(*                                                                         *)
(* An answer is a head and a number of units: lines of a listing, which    *)
(* search_one prints one by one at outnow, or a file, which is read into   *)
(* the buffer at once.  What a peer sends in two pieces is read as far as  *)
(* the first: the name goes on with what malloc left in its buffer.        *)
(***************************************************************************)
EXTENDS Integers, Sequences, FiniteSets

CONSTANTS
    Thread,     \* numbers
    Peer,
    Answer,     \* by name: [kind |-> "search" or "file", n |-> units]
    Wish,       \* the name each peer asks for
    Pools,      \* how many sockets are posted to accept (0x400), never posted again
    Slow,       \* which of the peers may never receive
    Room        \* units of wbuf

ASSUME IocpAssumption ==
    /\ \A a \in DOMAIN Answer : Answer[a].kind \in {"search", "file"} /\ Answer[a].n \in Nat
    /\ Wish \in [Peer -> DOMAIN Answer] /\ Pools \subseteq Nat /\ Slow \subseteq SUBSET Peer /\ Room \in Nat \ {0}
    /\ Thread \subseteq Nat

VARIABLES
    posted,     \* sockets waiting in acceptex
    link,       \* of each peer "out", "queued", "accepted", "reading", "read", "stopped" or "lost"
    pieces,     \* of its request, 2 for all of it
    left,       \* "no", or how it went: "closed", "reset"
    slow,       \* the peers that never receive
    cport,      \* the completions: [stage, peer, tran], tran -1 for a failed one
    thread,     \* [pc, peer, name, k, at, ret]: line k is printed; at is what outnow
                \* was read as, ret the length of the answer
    outnow,     \* of search.c
    answer,     \* wbuf
    received,   \* what each peer was sent: "nothing", "all" of its answer, "other"
    mixed,      \* the peers with whom another was answered at once
    overran     \* wbuf was written or read past its end

peers == <<posted, link, pieces, left, slow>>
iocp == <<peers, cport, thread, outnow, answer, received, mixed, overran>>

Idle == [pc |-> "wait", peer |-> CHOOSE p \in Peer : TRUE, name |-> "", k |-> 0, at |-> 0, ret |-> 0]

IocpFresh ==
    /\ link = [p \in Peer |-> "out"]
    /\ pieces = [p \in Peer |-> 0]
    /\ left = [p \in Peer |-> "no"]
    /\ cport = << >>
    /\ thread = [t \in Thread |-> Idle]
    /\ outnow = 0 /\ answer = [i \in 1 .. Room |-> << >>]
    /\ received = [p \in Peer |-> "nothing"]
    /\ mixed = {} /\ overran = FALSE
IocpInit == posted \in Pools /\ slow \in Slow /\ IocpFresh

----------------------------------------------------------------------------
(* The peers, and what the system makes of them. *)

Completion(stage, p, tran) == [stage |-> stage, peer |-> p, tran |-> tran]

\* A socket posted for it takes a connection; without one it stays in the queue.
IocpConnect(p) ==
    /\ link[p] = "out"
    /\ IF posted > 0
       THEN /\ posted' = posted - 1 /\ link' = [link EXCEPT ![p] = "accepted"]
            /\ cport' = Append(cport, Completion(0, p, 0))
       ELSE link' = [link EXCEPT ![p] = "queued"] /\ UNCHANGED <<posted, cport>>
    /\ UNCHANGED <<pieces, left>>

\* WSARecv completes as soon as there is anything, a piece or two or the end, or fails.
Anything(n, how) == n > 0 \/ how # "no"
Came(p, n, how) == Completion(1, p, IF how = "reset" THEN -1 ELSE n)
Completes(p) ==
    IF link[p] = "reading" /\ Anything(pieces'[p], left'[p])
    THEN /\ link' = [link EXCEPT ![p] = "read"]
         /\ cport' = Append(cport, Came(p, pieces'[p], left'[p]))
    ELSE UNCHANGED <<link, cport>>

\* What comes after WSARecv has completed is never looked at.
IocpSend(p) ==
    /\ link[p] \in {"accepted", "reading"} /\ left[p] = "no" /\ pieces[p] < 2
    /\ \E n \in pieces[p] + 1 .. 2 : pieces' = [pieces EXCEPT ![p] = n]
    /\ UNCHANGED <<posted, left>> /\ Completes(p)

IocpLeave(p) ==
    /\ link[p] \in {"accepted", "reading", "read"} /\ left[p] = "no"
    /\ \E how \in {"closed", "reset"} : left' = [left EXCEPT ![p] = how]
    /\ UNCHANGED <<posted, pieces>> /\ Completes(p)

----------------------------------------------------------------------------
(* The threads. *)

\* Threads that wait are alike: it is the first of them that gets the next completion.
Told == Head(cport)
Waiting == {t \in Thread : thread[t].pc = "wait"}
Takes(t) == cport # << >> /\ t \in Waiting /\ \A u \in Waiting : t <= u
LetGo(p, how) ==
    /\ cport' = Tail(cport)
    /\ link' = [link EXCEPT ![p] = how]
    /\ UNCHANGED <<posted, pieces, left, thread, outnow, answer, received, mixed, overran>>

\* A completion that failed is passed over, and its socket stays as it is.
take_failed(t) == Takes(t) /\ Told.tran = -1 /\ LetGo(Told.peer, "lost")

\* iocp_add, and iocp_mod, which does not look at what WSARecv returns: one that fails at
\* once is not on the port.
iocp_mod(t) ==
    /\ Takes(t) /\ Told.stage = 0
    /\ LET p == Told.peer
           at_once == Anything(pieces[p], left[p])
       IN  /\ link' = [link EXCEPT ![p] = CASE left[p] = "reset" -> "lost" [] at_once -> "read" [] OTHER -> "reading"]
           /\ cport' = Tail(cport) \o IF link'[p] = "read" THEN <<Came(p, pieces[p], left[p])>> ELSE << >>
    /\ UNCHANGED <<posted, pieces, left, thread, outnow, answer, received, mixed, overran>>

take_closed(t) == Takes(t) /\ Told.stage = 1 /\ Told.tran = 0 /\ LetGo(Told.peer, "stopped")

\* myread, as far as the name; a name that was cut goes on with anything.
Names(p, tran) == IF tran = 2 THEN {Wish[p]} ELSE DOMAIN Answer
take_request(t) ==
    /\ Takes(t) /\ Told.stage = 1 /\ Told.tran > 0
    /\ cport' = Tail(cport)
    /\ \E a \in Names(Told.peer, Told.tran) :
         thread' = [thread EXCEPT ![t] = [Idle EXCEPT !.pc = Answer[a].kind, !.peer = Told.peer, !.name = a]]
    /\ LET others == {thread[u].peer : u \in Thread \ Waiting} IN
       mixed' = IF others = {} THEN mixed ELSE mixed \cup others \cup {Told.peer}
    /\ UNCHANGED <<posted, link, pieces, left, outnow, answer, received, overran>>

\* The head is printed to the front of wbuf, and the rest goes behind it; yet what is
\* handed on as the length is all of wbuf.
Placed(buf, off, units) ==
    [i \in 1 .. Room |-> IF i - 1 - off \in DOMAIN units THEN units[i - 1 - off] ELSE buf[i]]
Unit(a, k) == <<a, k>>
Headed == [answer EXCEPT ![1] = <<"head">>]

\* servesocket_html and servesocket_code.
servesocket_html(t) ==
    /\ thread[t].pc = "file"
    /\ LET file == thread[t].name
           n == IF Answer[file].n < Room THEN Answer[file].n ELSE Room
       IN  /\ answer' = Placed(Headed, 0, [k \in 1 .. n |-> Unit(file, k)])
           /\ overran' = (1 + n > Room)
           /\ thread' = [thread EXCEPT ![t].pc = "send", ![t].at = 0, ![t].ret = IF n = 0 THEN 0 ELSE 1 + n]
    /\ UNCHANGED <<posted, link, pieces, left, cport, outnow, received, mixed>>

\* search_one: outbuf and outlen are the same for all, outnow is not.
search_one_Mutant(t) ==
    /\ thread[t].pc = "search"
    /\ answer' = Headed
    /\ thread' = [thread EXCEPT ![t].pc = "print", ![t].k = 1]
    /\ UNCHANGED <<posted, link, pieces, left, cport, outnow, received, mixed, overran>>
search_one(t) ==
    /\ thread[t].pc = "search"
    /\ outnow' = 0 /\ answer' = Headed
    /\ thread' = [thread EXCEPT ![t].pc = "print", ![t].k = 1]
    /\ UNCHANGED <<posted, link, pieces, left, cport, received, mixed, overran>>

\* outnow += snprintf(outbuf + outnow, outlen - outnow, ...), which reads outnow, writes,
\* and adds to what outnow is then or was before.  The length is negative, which is no
\* bound, once outnow is past outlen; and outlen is a head more than there is.
search_print(t) ==
    /\ thread[t].pc = "print" /\ thread[t].k <= Answer[thread[t].name].n
    /\ answer' = Placed(answer, outnow, <<Unit(thread[t].name, thread[t].k)>>)
    /\ overran' = (outnow # Room /\ 2 + outnow > Room)
    /\ thread' = [thread EXCEPT ![t].pc = "add", ![t].at = outnow]
    /\ UNCHANGED <<posted, link, pieces, left, cport, outnow, received, mixed>>
search_add(t) ==
    /\ thread[t].pc = "add"
    /\ outnow' \in {outnow + 1, thread[t].at + 1}
    /\ thread' = [thread EXCEPT ![t].pc = "print", ![t].k = @ + 1, ![t].at = 0]
    /\ UNCHANGED <<posted, link, pieces, left, cport, answer, received, mixed, overran>>
search_return(t) ==
    /\ thread[t].pc = "print" /\ thread[t].k > Answer[thread[t].name].n
    /\ thread' = [thread EXCEPT ![t].pc = "send", ![t].at = 0, ![t].ret = IF outnow = 0 THEN 0 ELSE 1 + outnow]
    /\ UNCHANGED <<posted, link, pieces, left, cport, outnow, answer, received, mixed, overran>>

Whole(a) == IF Answer[a].n = 0 THEN << >> ELSE << <<"head">> >> \o [k \in 1 .. Answer[a].n |-> Unit(a, k)]

\* The rest of myread, and stopsocket.  WSASend takes the answer out of wbuf; it waits for
\* a peer that does not receive, as long as the answer is more than the system holds.
\* DisconnectEx is taken to return.
writesocket(t) ==
    LET x == thread[t] IN
    /\ x.pc = "send"
    /\ x.peer \in slow /\ left[x.peer] = "no" => x.ret <= 1
    /\ overran' = (x.ret > Room)
    /\ received' = IF x.ret > Room \/ left[x.peer] # "no" THEN received
                   ELSE [received EXCEPT ![x.peer] = IF SubSeq(answer, 1, x.ret) = Whole(x.name) THEN "all" ELSE "other"]
    /\ link' = [link EXCEPT ![x.peer] = "stopped"]
    /\ thread' = [thread EXCEPT ![t] = Idle]
    /\ UNCHANGED <<posted, pieces, left, cport, outnow, answer, mixed>>

iocpthread(t) ==
    /\ ~overran /\ UNCHANGED slow
    /\ \/ take_failed(t) \/ iocp_mod(t) \/ take_closed(t) \/ take_request(t)
       \/ servesocket_html(t)
       \/ search_one(t) \/ search_print(t) \/ search_add(t) \/ search_return(t)
       \/ writesocket(t)

IocpPeer(p) ==
    /\ IocpConnect(p) \/ IocpSend(p) \/ IocpLeave(p)
    /\ ~overran /\ UNCHANGED <<slow, thread, outnow, answer, received, mixed, overran>>

IocpStep == (\E p \in Peer : IocpPeer(p)) \/ \E t \in Thread : iocpthread(t)

----------------------------------------------------------------------------
(* Properties. *)

(* The threads need no lock as long as no two of them answer at once: then whoever
   stays gets the whole answer to what was read of its request, and nothing that an answer
   before left in the buffer, and nothing is written past the buffer but by an
   answer that does not fit behind the head. *)
OwnAnswers ==
    /\ \A p \in Peer \ mixed :
         link[p] = "stopped" /\ left[p] = "no" => received[p] = "all"
    /\ overran => mixed # {} \/ \E t \in Thread \ Waiting : 1 + Answer[thread[t].name].n > Room

(* As long as fewer peers do not receive than there are threads, everybody else is
   answered or let go who has sent anything or closed, but for those whose completion
   failed: each thread takes from the port whatever it can. *)
ThreadsServe ==
    Cardinality(slow) < Cardinality(Thread) =>
      \A p \in Peer : (link[p] = "read" /\ p \notin slow) ~> (link[p] \in {"stopped", "lost"} \/ overran)
=============================================================================
