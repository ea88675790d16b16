------------------------------- MODULE Serve -------------------------------
(***************************************************************************)
(* The server of lv2/operate/serve with its epoll loop: one thread, one    *)
(* request buffer and one answer buffer for all connections, which it      *)
(* watches edge-triggered, reads once, answers and closes.                 *)
(*                                                                         *)
(* A request is sent in one piece or in two, the first of which cuts the   *)
(* name asked for.  servesocket does not stop at the length that was read, *)
(* so a cut name goes on with what the request before left in the buffer:  *)
(* a name is modelled as two halves.  The answer is Size units, of which a *)
(* socket takes SockBuf until the peer reads.                              *)
(***************************************************************************)
EXTENDS Integers, Sequences, FiniteSets

CONSTANTS
    Client,     \* peers, each of which connects once
    Want,       \* the name each asks for
    Files,      \* the names servesocket opens a file for; the others are searched
    Nothing,    \* no name, no answer
    Listener,   \* tcpfd
    Batch,      \* events one epoll_wait returns (16)
    Limits,     \* [MAXSIZE: connections the server admits (4096 descriptors),
                \*  nofile: what the system's own limit leaves it]
    Size,       \* units of an answer
    SockBuf     \* units a socket takes

ASSUME ClientFinite == IsFiniteSet(Client)
ASSUME ListenerApart == Listener \notin Client
ASSUME Sizes ==
    /\ {Batch, Size, SockBuf} \subseteq Nat \ {0}
    /\ Limits \subseteq [MAXSIZE: Nat \ {0}, nofile: Nat]

VARIABLES
    limits,     \* the limits of this build and system
    conn,       \* of each client "out", "queued", "open", "refused" or "closed"
    sent,       \* pieces of its request it has sent, 2 for all of it
    gone,       \* whether it has gone away
    backlog,    \* connections to accept
    ready,      \* the descriptors epoll_wait would look at
    batch,      \* those it returned and the loop has not come to
    rbuf,       \* the halves of the name in the request buffer
    wbuf,       \* [reply, len, cnt]: the answer and how much of it is written
    taken,      \* pieces of the request the server read
    sock,       \* units of the answer in the socket
    reply,      \* the halves of the name each was answered for
    got,        \* units each has received
    pc          \* "wait", "loop", "accept" or "write"

server == <<batch, rbuf, wbuf, taken, reply, pc>>
vars == <<limits, conn, sent, gone, backlog, ready, sock, got, server>>

Open == {c \in Client : conn[c] = "open"}

\* What of the sequence s is in the set keep.
Only(s, keep) ==
    LET kept[i \in 0 .. Len(s)] ==
            IF i = 0 THEN << >>
            ELSE IF s[i] \in keep THEN Append(kept[i - 1], s[i]) ELSE kept[i - 1]
    IN  kept[Len(s)]

\* The kernel queues a descriptor once, and epoll_wait passes over one with
\* nothing to report.
Woken(f) == IF \E i \in DOMAIN ready : ready[i] = f THEN ready ELSE Append(ready, f)
Pending(c) == sent[c] > taken[c] \/ gone[c]
Reports(f) == IF f = Listener THEN backlog # << >> ELSE Pending(f)

NobodyConnects ==
    /\ conn = [c \in Client |-> "out"]
    /\ sent = [c \in Client |-> 0] /\ taken = sent /\ sock = sent /\ got = sent
    /\ gone = [c \in Client |-> FALSE]
    /\ backlog = << >> /\ ready = << >> /\ batch = << >>
    /\ rbuf = <<Nothing, Nothing>>
    /\ wbuf = [reply |-> Nothing, len |-> 0, cnt |-> 0]
    /\ reply = [c \in Client |-> Nothing]
    /\ pc = "wait"
Init ==
    /\ limits \in Limits
    /\ NobodyConnects

----------------------------------------------------------------------------
(* The peers and the network. *)

Connect(c) ==
    /\ conn[c] = "out"
    /\ conn' = [conn EXCEPT ![c] = "queued"]
    /\ backlog' = Append(backlog, c)
    /\ ready' = Woken(Listener)
    /\ UNCHANGED <<limits, sent, gone, sock, got, server>>

Send(c) ==
    /\ conn[c] \in {"queued", "open"} /\ ~gone[c] /\ sent[c] < 2
    /\ \E n \in sent[c] + 1 .. 2 : sent' = [sent EXCEPT ![c] = n]
    /\ ready' = IF conn[c] = "open" THEN Woken(c) ELSE ready
    /\ UNCHANGED <<limits, conn, gone, backlog, sock, got, server>>

Receive(c) ==
    /\ sock[c] > 0 /\ ~gone[c]
    /\ sock' = [sock EXCEPT ![c] = @ - 1]
    /\ got' = [got EXCEPT ![c] = @ + 1]
    /\ UNCHANGED <<limits, conn, sent, gone, backlog, ready, server>>

Leave(c) ==
    /\ conn[c] \in {"queued", "open"} /\ ~gone[c]
    /\ gone' = [gone EXCEPT ![c] = TRUE]
    /\ ready' = IF conn[c] = "open" THEN Woken(c) ELSE ready
    /\ UNCHANGED <<limits, conn, sent, backlog, sock, got, server>>

\* The rest of a request that was cut meets a closed socket: the connection is
\* reset, and what the peer has not yet received is lost.
Reset(c) ==
    /\ conn[c] = "closed" /\ taken[c] = 1 /\ sock[c] > 0
    /\ sock' = [sock EXCEPT ![c] = 0]
    /\ UNCHANGED <<limits, conn, sent, gone, backlog, ready, got, server>>

----------------------------------------------------------------------------
(* The event loop. *)

epoll_wait ==
    /\ pc = "wait"
    /\ LET live == Only(ready, {f \in Client \cup {Listener} : Reports(f)})
           n == IF Len(live) < Batch THEN Len(live) ELSE Batch
       IN  /\ n > 0
           /\ batch' = SubSeq(live, 1, n)
           /\ ready' = SubSeq(live, n + 1, Len(live))
    /\ pc' = "loop"
    /\ UNCHANGED <<limits, conn, sent, gone, backlog, sock, got, rbuf, wbuf, taken, reply>>

\* The loop over the batch, as far as it is not a connection to read.
listensocket ==
    /\ pc = "loop"
    /\ \/ batch = << >> /\ pc' = "wait"
       \/ batch # << >> /\ Head(batch) = Listener /\ pc' = "accept"
    /\ UNCHANGED <<limits, conn, sent, gone, backlog, ready, sock, got,
                   batch, rbuf, wbuf, taken, reply>>

\* One turn of myaccept: a connection the server has no room for is closed.
myaccept ==
    /\ pc = "accept" /\ backlog # << >> /\ Cardinality(Open) < limits.nofile
    /\ LET c == Head(backlog) IN
       IF Cardinality(Open) >= limits.MAXSIZE
       THEN conn' = [conn EXCEPT ![c] = "refused"] /\ UNCHANGED ready
       ELSE /\ conn' = [conn EXCEPT ![c] = "open"]
            /\ ready' = IF Pending(c) THEN Woken(c) ELSE ready
    /\ backlog' = Tail(backlog)
    /\ UNCHANGED <<limits, sent, gone, sock, got, server>>

\* (The _Mutant forms are the same code with a bug in it; the run finds each of them.)
\* accept fails, because there is nothing to accept or no descriptor to be had.
\* epoll_mod looks at the listener again.
accept_fails_Mutant ==
    /\ pc = "accept" /\ (backlog = << >> \/ Cardinality(Open) >= limits.nofile)
    /\ batch' = Tail(batch)
    /\ pc' = "loop"
    /\ UNCHANGED <<limits, conn, sent, gone, backlog, ready, sock, got,
                   rbuf, wbuf, taken, reply>>
accept_fails ==
    /\ pc = "accept" /\ (backlog = << >> \/ Cardinality(Open) >= limits.nofile)
    /\ ready' = IF backlog # << >> THEN Woken(Listener) ELSE ready
    /\ batch' = Tail(batch)
    /\ pc' = "loop"
    /\ UNCHANGED <<limits, conn, sent, gone, backlog, sock, got, rbuf, wbuf, taken, reply>>

\* The close in listensocket, which takes the descriptor out of epoll.
Closed(c) ==
    /\ conn' = [conn EXCEPT ![c] = "closed"]
    /\ ready' = Only(ready, (Client \cup {Listener}) \ {c})
    /\ batch' = Tail(batch)
    /\ pc' = "loop"

\* myread when read gives nothing, the peer being gone.
read_nothing ==
    /\ pc = "loop" /\ batch # << >> /\ Head(batch) # Listener
    /\ gone[Head(batch)]
    /\ Closed(Head(batch))
    /\ UNCHANGED <<limits, sent, gone, backlog, sock, got, rbuf, wbuf, taken, reply>>

\* servesocket: the name in the buffer, and the length of its answer.  A file
\* needs a descriptor, and there may be no such name as the halves of two.
InBuffer(c) == <<Want[c], IF sent[c] = 2 THEN Want[c] ELSE rbuf[2]>>
Lengths(name) ==
    IF name[1] # name[2] THEN {0, Size}
    ELSE IF name[1] \in Files /\ Cardinality(Open) >= limits.nofile THEN {0}
    ELSE {Size}

\* myread, up to its writing.
myread ==
    /\ pc = "loop" /\ batch # << >> /\ Head(batch) # Listener
    /\ sent[Head(batch)] > 0
    /\ LET c == Head(batch) IN
       /\ taken' = [taken EXCEPT ![c] = sent[c]]
       /\ rbuf' = InBuffer(c)
       /\ \E n \in Lengths(InBuffer(c)) :
            wbuf' = [reply |-> InBuffer(c), len |-> n, cnt |-> 0]
    /\ pc' = "write"
    /\ UNCHANGED <<limits, conn, sent, gone, backlog, ready, sock, got, batch, reply>>

\* One write of myread: what the socket takes.  A full socket (EAGAIN) is tried
\* again and again, and nobody else is served meanwhile.
Fits(c) ==
    LET left == wbuf.len - wbuf.cnt
        room == SockBuf - sock[c]
    IN  IF left < room THEN left ELSE room

write_Mutant ==
    /\ pc = "write"
    /\ LET c == Head(batch) IN
       /\ ~gone[c]
       /\ sock' = [sock EXCEPT ![c] = @ + Fits(c)]
       /\ wbuf' = [wbuf EXCEPT !.cnt = @ + Fits(c)]
       /\ reply' = IF Fits(c) > 0 THEN [reply EXCEPT ![c] = wbuf.reply] ELSE reply
       /\ IF wbuf'.cnt = wbuf.len \/ Fits(c) = 0 THEN Closed(c)
          ELSE UNCHANGED <<conn, ready, batch, pc>>
    /\ UNCHANGED <<limits, sent, gone, backlog, got, rbuf, taken>>
write ==
    /\ pc = "write"
    /\ LET c == Head(batch) IN
       /\ ~gone[c] /\ (wbuf.len = 0 \/ Fits(c) > 0)
       /\ sock' = [sock EXCEPT ![c] = @ + Fits(c)]
       /\ wbuf' = [wbuf EXCEPT !.cnt = @ + Fits(c)]
       /\ reply' = IF Fits(c) > 0 THEN [reply EXCEPT ![c] = wbuf.reply] ELSE reply
       /\ IF wbuf'.cnt = wbuf.len THEN Closed(c)
          ELSE UNCHANGED <<conn, ready, batch, pc>>
    /\ UNCHANGED <<limits, sent, gone, backlog, got, rbuf, taken>>

\* Any other error of write ends myread.
write_fails ==
    /\ pc = "write" /\ gone[Head(batch)]
    /\ Closed(Head(batch))
    /\ UNCHANGED <<limits, sent, gone, backlog, sock, got, rbuf, wbuf, taken, reply>>

Serving ==
    \/ epoll_wait
    \/ listensocket
    \/ myaccept
    \/ accept_fails
    \/ read_nothing
    \/ myread
    \/ write
    \/ write_fails

Next ==
    \/ \E c \in Client : Connect(c) \/ Send(c) \/ Receive(c) \/ Leave(c) \/ Reset(c)
    \/ Serving

\* The server's thread runs whenever it can; nothing is assumed of the peers.
Spec == Init /\ [][Next]_vars /\ WF_vars(Serving)

----------------------------------------------------------------------------
(* Properties. *)

(* No wakeup is lost, although the events are edge-triggered: when the server goes
   to sleep, whatever waits for it, a connection to accept or a request to read, is
   on the list that wakes it, also when accept failed for want of a descriptor. *)
NoLostWakeup ==
    pc = "wait" =>
      \A f \in Open \cup {Listener} : Reports(f) => \E i \in DOMAIN ready : ready[i] = f

(* A peer that had sent its whole request when the server read it, and stays, gets
   the whole answer to its own request and nothing else.  Only a file may come out
   empty, and only where connections can use up the descriptors. *)
WholeRequestsAnswered ==
    \A c \in Client :
      conn[c] = "closed" /\ taken[c] = 2 /\ ~gone[c] =>
        \/ reply[c] = <<Want[c], Want[c]>> /\ got[c] + sock[c] = Size
        \/ /\ reply[c] = Nothing /\ got[c] + sock[c] = 0
           /\ Want[c] \in Files /\ limits.nofile <= Cardinality(Client)

\* No peer leaves the server waiting for it to read.
PeersReceive == \A c \in Client : []<>(sock[c] < SockBuf \/ gone[c])

(* As long as every peer goes on receiving, each connection that has sent anything or
   gone away is answered and closed: one that stays silent keeps its descriptor, but
   nobody from being served.  Without PeersReceive one slow peer stops them all. *)
ServedInTime ==
    PeersReceive =>
      \A c \in Client : (conn[c] = "open" /\ Pending(c)) ~> conn[c] = "closed"

(* And as long as descriptors come free again, each connection is accepted or turned
   away, although the listener is watched edge-triggered. *)
AcceptedInTime ==
    PeersReceive /\ []<>(Cardinality(Open) < limits.nofile) =>
      \A c \in Client : (conn[c] = "queued") ~> (conn[c] # "queued")
=============================================================================
